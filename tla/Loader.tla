------------------------------- MODULE Loader -------------------------------
(***************************************************************************)
(* load in src/pintos/src/userprog/process.c: the program headers of an    *)
(* executable become pages, and the command line becomes the arguments on  *)
(* the initial stack.  Addresses and offsets have AddrBits bits.           *)
(***************************************************************************)
EXTENDS Strings

CONSTANTS
  PGSIZE,            \* bytes in a page
  PHYS_BASE,         \* the first kernel address, on a page boundary
  AddrBits,          \* bits of an address
  EhdrSize,          \* bytes of the executable header
  PhdrSize           \* bytes of a program header

Space == 2^AddrBits

RoundDownTo(n, unit) == n - (n % unit)
RoundUpTo(n, unit) == RoundDownTo(n + unit - 1, unit)

is_user_vaddr(a) == a < PHYS_BASE

\* A header is accepted.  The end of the region is computed modulo the address space.
validate_segment(phdr, file) ==
  LET end == (phdr.vaddr + phdr.memsz) % Space
  IN  /\ phdr.offset % PGSIZE = phdr.vaddr % PGSIZE
      /\ phdr.offset <= file.length
      /\ phdr.memsz >= phdr.filesz
      /\ phdr.memsz # 0
      /\ is_user_vaddr(phdr.vaddr)
      /\ is_user_vaddr(end)
      /\ end >= phdr.vaddr
      /\ phdr.vaddr >= PGSIZE

\* The pages allocated so far map page addresses to what fills them.  page_allocate gives a
\* null pointer when malloc does, here when there is room for no more pages, and for an
\* address that has a page.
Allocates(pages, upage, room) == Cardinality(DOMAIN pages) < room /\ upage \notin DOMAIN pages

page_allocate(pages, upage, page) == pages @@ (upage :> page)

\* Pages for read_bytes bytes of the file and zero_bytes zeros, from upage on.
RECURSIVE load_segment(_, _, _, _, _, _, _)
load_segment(pages, ofs, upage, read_bytes, zero_bytes, writable, room) ==
  LET page_read == Min({read_bytes, PGSIZE})
      page_zero == PGSIZE - page_read
      page == [ofs |-> ofs, bytes |-> page_read, read_only |-> ~writable]
  IN  IF read_bytes = 0 /\ zero_bytes = 0 THEN [ok |-> TRUE, pages |-> pages]
      ELSE IF ~Allocates(pages, upage, room) THEN [ok |-> FALSE, pages |-> pages]
      ELSE load_segment(page_allocate(pages, upage, page), ofs + page_read, upage + PGSIZE,
                        read_bytes - page_read, zero_bytes - page_zero, writable, room)

\* A valid segment, widened to whole pages.
LoadPhdr(pages, phdr, room) ==
  LET page_offset == phdr.vaddr % PGSIZE
      read_bytes == IF phdr.filesz > 0 THEN page_offset + phdr.filesz ELSE 0
      zero_bytes == RoundUpTo(page_offset + phdr.memsz, PGSIZE) - read_bytes
  IN  load_segment(pages, RoundDownTo(phdr.offset, PGSIZE), RoundDownTo(phdr.vaddr, PGSIZE),
                   read_bytes, zero_bytes, phdr.writable, room)

\* The loop over the headers, the next of which is at file_ofs.
RECURSIVE LoadPhdrs(_, _, _, _, _)
LoadPhdrs(pages, file, file_ofs, i, room) ==
  LET phdr == file.phdrs[i]
      r == LoadPhdr(pages, phdr, room)
      Failed == [ok |-> FALSE, pages |-> pages]
  IN  IF i > Len(file.phdrs) THEN [ok |-> TRUE, pages |-> pages]
      ELSE IF file_ofs < 0 \/ file_ofs > file.length \/ file_ofs + PhdrSize > file.length THEN Failed
      ELSE CASE phdr.type \in {"DYNAMIC", "INTERP", "SHLIB"} -> Failed
             [] phdr.type = "LOAD" ->
                  IF ~validate_segment(phdr, file) THEN Failed
                  ELSE IF ~r.ok THEN r
                  ELSE LoadPhdrs(r.pages, file, file_ofs + PhdrSize, i + 1, room)
             [] OTHER -> LoadPhdrs(pages, file, file_ofs + PhdrSize, i + 1, room)

\* The stack page takes its place like the others.
setup_stack(pages, room) ==
  LET upage == PHYS_BASE - PGSIZE
  IN  IF ~Allocates(pages, upage, room) THEN [ok |-> FALSE, pages |-> pages]
      ELSE [ok |-> TRUE,
            pages |-> page_allocate(pages, upage, [ofs |-> 0, bytes |-> 0, read_only |-> FALSE])]

\* The executable header is read and matched first, the stack is set up last.
load(file, room) ==
  LET r == LoadPhdrs(<<>>, file, file.phoff, 1, room)
  IN  IF file.length < EhdrSize \/ ~file.elf THEN [ok |-> FALSE, pages |-> <<>>]
      ELSE IF r.ok THEN setup_stack(r.pages, room) ELSE r

----------------------------------------------------------------------------
\* The stack page: kpage maps offsets to bytes, ofs is the stack pointer in it.  Words have
\* 4 bytes, the least significant first; the addresses here fit in the first.

WordBytes(v) == <<v % 256, v \div 256, 0, 0>>
WordAt(kpage, at) == kpage[at] + 256 * kpage[at + 1]

\* The page, the new stack pointer and where the bytes are: Null if they do not fit.
push(kpage, ofs, buf) ==
  LET padsize == RoundUpTo(Len(buf), 4)
      at == ofs - Len(buf)
  IN  IF ofs < padsize THEN [kpage |-> kpage, ofs |-> ofs, at |-> Null]
      ELSE [kpage |-> [i \in DOMAIN kpage |-> IF i \in at .. ofs - 1 THEN buf[i - at + 1] ELSE kpage[i]],
            ofs |-> ofs - padsize, at |-> at]

\* One argument after the other, tokenized where the string was pushed.
RECURSIVE PushArgs(_, _, _, _, _, _)
PushArgs(kpage, upage, ofs, s, save, argc) ==
  LET space == PGSIZE       \* the delimiter string, behind the page
      t == strtok_r(kpage @@ (space :> 32) @@ (space + 1 :> 0), s, space, save)
      page == [i \in DOMAIN kpage |-> t.m[i]]
      r == push(page, ofs, WordBytes(upage + t.token))
  IN  IF t.token = Null THEN [ok |-> TRUE, kpage |-> page, ofs |-> ofs, argc |-> argc]
      ELSE IF r.at = Null THEN [ok |-> FALSE, kpage |-> page, ofs |-> ofs, argc |-> argc]
      ELSE PushArgs(r.kpage, upage, r.ofs, Null, t.save, argc + 1)

\* Exchanges the first and the last of the argc words at argv, then the next pair, ...
reverse(kpage, argv, argc) ==
  LET From(i) == LET k == (i - argv) \div 4
                 IN  argv + 4 * (argc - 1 - k) + ((i - argv) % 4)
  IN  [i \in DOMAIN kpage |-> IF i \in argv .. argv + 4 * argc - 1 THEN kpage[From(i)] ELSE kpage[i]]

\* A word on top of what was pushed before, if that succeeded.
PushWord(r, v) == IF r.at = Null THEN r ELSE push(r.kpage, r.ofs, WordBytes(v))

\* argv, argc and a return address on top of the arguments.
Entry(args, upage) ==
  LET Top(turned) == PushWord(PushWord(PushWord(turned, upage + args.ofs), args.argc), 0)
      r == Top([kpage |-> reverse(args.kpage, args.ofs, args.argc), ofs |-> args.ofs,
                at |-> args.ofs])
  IN  IF ~args.ok \/ r.at = Null THEN [kpage |-> args.kpage, esp |-> Null]
      ELSE [kpage |-> r.kpage, esp |-> upage + r.ofs]

\* The page and the user stack pointer, Null if the arguments do not fit.
init_cmd_line(kpage, upage, cmd_line) ==
  LET line == push(kpage, PGSIZE, cmd_line \o <<0>>)
      null == PushWord(line, 0)
      args == PushArgs(null.kpage, upage, null.ofs, line.at, Null, 0)
  IN  IF null.at = Null THEN [kpage |-> kpage, esp |-> Null] ELSE Entry(args, upage)

\* The name of the executable: the first word, cut to the buffer's size.
FileName(cmd_line, size) ==
  LET from == Min({i \in 1 .. Len(cmd_line) + 1 : i > Len(cmd_line) \/ cmd_line[i] # 32})
      cut == SubSeq(cmd_line, from, Min({Len(cmd_line), from + size - 2}))
      space == Min({i \in 1 .. Len(cut) + 1 : i > Len(cut) \/ cut[i] = 32})
  IN  SubSeq(cut, 1, space - 1)

----------------------------------------------------------------------------
\* What a process should find.

\* The byte that do_page_in puts at address a: an offset in the file, or Null for zero, of
\* which there are also as many as the file is too short.
ByteAt(file, pages, a) ==
  LET upage == RoundDownTo(a, PGSIZE)
      page == pages[upage]
      read_bytes == Min({page.bytes, Max({0, file.length - page.ofs})})
  IN  IF a - upage < read_bytes THEN page.ofs + a - upage ELSE Null

\* The executable loads exactly if all its headers are readable, every segment lies in user
\* memory above page 0, no two, nor the stack, need the same page, and there is memory for
\* all the pages; then each segment's pages hold the file's bytes at their addresses, as far
\* as the file has them, and zeros above, and no other page exists.
SegmentsRight(file, room) ==
  LET r == load(file, room)
      stack == PHYS_BASE - PGSIZE
      loads == {i \in DOMAIN file.phdrs : file.phdrs[i].type = "LOAD"}
      PagesOf(p) == {RoundDownTo(a, PGSIZE) : a \in p.vaddr .. p.vaddr + p.memsz - 1}
      Fits(p) == /\ p.memsz > 0 /\ p.filesz <= p.memsz
                 /\ p.vaddr >= PGSIZE /\ p.vaddr + p.memsz < PHYS_BASE
                 /\ (p.vaddr - p.offset) % PGSIZE = 0 /\ p.offset <= file.length
      Loadable ==
        /\ file.elf /\ file.length >= EhdrSize
        /\ \/ file.phdrs = <<>>
           \/ file.phoff >= 0 /\ file.phoff + PhdrSize * Len(file.phdrs) <= file.length
        /\ \A i \in DOMAIN file.phdrs : file.phdrs[i].type \notin {"DYNAMIC", "INTERP", "SHLIB"}
        /\ \A i \in loads : Fits(file.phdrs[i])
        /\ \A i \in loads : stack \notin PagesOf(file.phdrs[i])
        /\ \A i, j \in loads :
             i # j => PagesOf(file.phdrs[i]) \intersect PagesOf(file.phdrs[j]) = {}
        /\ Cardinality(UNION {PagesOf(file.phdrs[i]) : i \in loads}) < room
  IN  /\ r.ok = Loadable
      /\ r.ok =>
           /\ DOMAIN r.pages = {stack} \union UNION {PagesOf(file.phdrs[i]) : i \in loads}
           /\ \A i \in loads :
                LET p == file.phdrs[i]
                IN  /\ \A u \in PagesOf(p) : r.pages[u].read_only = ~p.writable
                    /\ \A a \in p.vaddr .. p.vaddr + p.memsz - 1 :
                         LET ofs == p.offset + a - p.vaddr
                         IN  ByteAt(file, r.pages, a)
                               = IF ofs < p.offset + p.filesz /\ ofs < file.length THEN ofs ELSE Null

\* main is entered with a null return address, argc and argv, whose entries point at the
\* words of the command line in order and end with a null pointer; the call fails exactly
\* if this does not fit in the page.
StackRight(upage, cmd_line) ==
  LET blank == [i \in 0 .. PGSIZE - 1 |-> 0]
      words == RunsOf(cmd_line, {32})
      needed == RoundUpTo(Len(cmd_line) + 1, 4) + 4 * (Len(words) + 4)
  IN  \A r \in {init_cmd_line(blank, upage, cmd_line)} :
        LET Word(a) == WordAt(r.kpage, a - upage)
            argv == r.esp + 12
        IN  /\ (r.esp # Null) = (needed <= PGSIZE)
            /\ r.esp # Null =>
                 /\ r.esp = upage + PGSIZE - needed
                 /\ Word(r.esp) = 0 /\ Word(r.esp + 4) = Len(words) /\ Word(r.esp + 8) = argv
                 /\ \A k \in DOMAIN words :
                      StringAt(r.kpage, Word(argv + 4 * (k - 1)) - upage) = words[k].text
                 /\ Word(argv + 4 * Len(words)) = 0
                 /\ words # <<>> => LET file_name == FileName(cmd_line, 16)
                                    IN  file_name = Prefix(words[1].text, 15)
=============================================================================
