----------------------------- MODULE MCLibrary ------------------------------
(***************************************************************************)
(* The kernel's library, its start-up code and the programs of project 4   *)
(* for model checking.  Lists, hash tables, the memory allocators and the  *)
(* comparison of lines are state machines of their own, each explored      *)
(* while the others are switched off.  The other routines compute a result *)
(* from their arguments: a step makes one call, the invariants judge it.   *)
(***************************************************************************)
EXTENDS Lists, HashTable, Memory, Lcs, TLC

VARIABLE call        \* the routine called last, with its arguments

vars == <<lvars, hvars, mvars, lcsvars, call>>

S == INSTANCE Strings
D == INSTANCE Stdlib WITH W <- 4
F == INSTANCE Stdio WITH BufSize <- 8, PerLine <- 4,
       Bits <- [CHAR |-> 8, SHORT |-> 10, INT |-> 12, LONG |-> 12, LONGLONG |-> 14, INTMAX |-> 14,
                PTRDIFFT |-> 12, SIZET |-> 12]
U == INSTANCE Ustar WITH NameSize <- 4, SizeSize <- 7, ChksumSize <- 8, UlongBits <- 16
B == INSTANCE Startup WITH SectorBits <- 4, MaxNesting <- 5, StateSize <- 8
Segments == INSTANCE Loader WITH PGSIZE <- 4, PHYS_BASE <- 24, AddrBits <- 5, EhdrSize <- 2, PhdrSize <- 2
Stack == INSTANCE Loader WITH PGSIZE <- 40, PHYS_BASE <- 80, AddrBits <- 8, EhdrSize <- 2, PhdrSize <- 2

----------------------------------------------------------------------------
\* Instances of the state machines.

CONSTANTS e1, e2, e3, e4

MCKey(e) == IF e \in {e1, e2} THEN 1 ELSE 2

MCHashElem == {[key |-> k, hash |-> k, id |-> 1] : k \in {0, 1, 2, 3, 5}}
                \union {[key |-> 1, hash |-> 1, id |-> 2]}

\* A product that fits, and two that wrap around, to 0 and to 1.
MCCallocArgs == {<<1, 4>>, <<16, 4>>, <<13, 5>>}

\* Lines of three and four bytes, of which the longer is read in two pieces; the last line
\* of a file may have no newline.
MCFiles ==
  LET lines == {<<"a", "b", "newline">>, <<"a", "c", "b", "newline">>}
  IN  {Append(f, l) : f \in UNION {[1 .. n -> lines] : n \in 0 .. 2},
                      l \in lines \union {<<"b", "b", "a">>}}

----------------------------------------------------------------------------
\* The calls.  fn names the routines, the other fields are their arguments.

Strs(chars, n) == UNION {[1 .. k -> chars] : k \in 0 .. n}

StringCalls ==
  [fn : {"tokens"}, s : Strs({1, 2, 3}, 4), d : {<<1>>, <<1, 2>>}]
    \union [fn : {"search"}, s : Strs({1, 2}, 4), d : Strs({1, 2}, 2)]
    \union [fn : {"copy"}, s : Strs({1, 2}, 2), d : Strs({1, 2}, 3), size : 0 .. 6]
    \union [fn : {"move"}, dst : 0 .. 2, src : 0 .. 2, size : 0 .. 3]

NumberCalls ==
  [fn : {"udiv"}, d : 1 .. 255] \union [fn : {"sdiv"}, d : (-128 .. 127) \ {0}]
    \union [fn : {"atoi"}, v : -128 .. 127] \union [fn : {"sort"}, a : Strs(1 .. 3, 5)]
    \union [fn : {"bitmap"}, n : {3, 4}, s : SUBSET (0 .. 2), start : 0 .. 3, cnt : 0 .. 3,
            v : BOOLEAN]

TextCalls ==
  [fn : {"integer"}, ch : {"d", "o", "u", "x"}, width : {0, 1, 5}, precision : {-1, 0, 3, 9}]
    \union [fn : {"snprintf"}, size : 0 .. 9]
    \union [fn : {"dump"}, ofs : {0, 1, 3, 7}, len : 0 .. 7, ascii : BOOLEAN]
    \union [fn : {"size"}, size : {0, 1, 1023, 1024, 1048575, 1048576, 2147483647}]
    \union [fn : {"header"}, name : Strs({46, 47, 97}, 4), type : {48, 53}, size : {0, 32767}]
    \union [fn : {"octal"}, s : [1 .. 4 -> {48, 55, 56, 32, 0}]
              \union {[i \in 1 .. 7 |-> IF i = 7 THEN 32 ELSE IF i = 1 THEN a ELSE 55] : a \in 48 .. 55}]

MCDisk(name, signature, entries) ==
  [name |-> name, size |-> 6, content |-> [s \in {0} |-> [signature |-> signature, partitions |-> entries]]]

TwoDisks ==
  LET entries == <<[type |-> "23", offset |-> 1, size |-> 2], [type |-> "21", offset |-> 3, size |-> 3]>>
  IN  <<MCDisk("hda", TRUE, entries), MCDisk("hdb", TRUE, entries)>>

MCOption ==
  {<<"-filesys", "hdb", 2>>, <<"-scratch", "hdb", 1>>, <<"-swap", "hdc", 1>>, <<"-rs", "seed", 5>>,
   <<"-rs">>, <<"-ul", "pages", 7>>, <<"-mlfqs">>, <<"-q">>, <<"-r">>, <<"-f">>, <<"-h">>, <<"-z">>}

Option(o) == [name |-> o[1], value |-> Tail(o)]

StartCalls ==
  [fn : {"partitions"}, a : [type : {"00", "05", "21"}, offset : {0, 1, 3, 7}, size : {0, 2, 14}],
   b : [type : {"05", "22", "83"}, offset : {1, 4}, size : {1, 3}], signature : BOOLEAN]
    \union [fn : {"boot"}, options : Strs(MCOption, 2), argv : {<<>>, <<"ls">>}]
    \union [fn : {"boot"}, options : {<<>>}, argv : Strs({"run", "ls", "x"}, 3)]
    \union [fn : {"argv"}, words : Strs({<<>>, <<1>>, <<1, 2>>}, 2), argc : 0 .. 7]
    \union [fn : {"random"}, seed : [1 .. 4 -> {0, 1, 200}]]

LoadCalls ==
  [fn : {"segment"},
   a : [type : {"LOAD"}, offset : {0, 1, 5}, vaddr : {0, 4, 5, 9, 21}, filesz : {0, 1, 4},
        memsz : {0, 1, 3, 8, 14}, writable : {TRUE}], room : {0, 1, 2, 4, 9}]
    \union
  [fn : {"file"}, length : {1, 6, 8}, phoff : {-1, 2, 4, 9}, elf : BOOLEAN,
   a : [type : {"LOAD"}, offset : {0}, vaddr : {4, 8, 12}, filesz : {2}, memsz : {1, 2, 5}, writable : {FALSE}],
   b : [type : {"LOAD", "NOTE", "INTERP"}, offset : {1}, vaddr : {5, 9, 17}, filesz : {2}, memsz : {2, 5},
        writable : {TRUE}]]
    \union [fn : {"stack"}, line : Strs({32, 65}, 7) \union {[i \in 1 .. n |-> 65] : n \in 15 .. 20}]

MCShown == [b \in 0 .. 255 |-> IF b < 128 THEN "p" ELSE "."]

Call ==
  /\ call = [fn |-> "none"]
  /\ call' \in StringCalls \union NumberCalls \union TextCalls \union StartCalls \union LoadCalls

\* The flags that parse_conversion leaves together.
MCFlags(precision) ==
  {f \in SUBSET {"-", "+", " ", "#", "0", "'"} :
     ("-" \in f \/ precision >= 0 => "0" \notin f) /\ ("+" \in f => " " \notin f)}

\* The routines of the C library compute what their reference definitions say: string
\* searches, tokens and bounded copies; division of double words by words, numbers read
\* from text, sorting and searching; bitmaps; formatted output that reads back as its
\* arguments; archive headers that survive a round trip and never survive damage.
RoutinesRight ==
  CASE call.fn = "tokens" -> S!TokensRight(call.s, call.d)
    [] call.fn = "search" -> S!SearchRight(call.s, call.d)
    [] call.fn = "copy" -> S!CopyRight(call.s, call.d, call.size)
    [] call.fn = "move" -> S!MoveRight(call.dst, call.src, call.size)
    [] call.fn = "udiv" -> D!UnsignedRight(call.d)
    [] call.fn = "sdiv" -> D!SignedRight(call.d)
    [] call.fn = "atoi" -> D!AtoiRight(call.v)
    [] call.fn = "sort" -> D!SortRight(call.a)
    [] call.fn = "bitmap" ->
         call.start + call.cnt <= call.n => BitmapRight(call.n, call.s, call.start, call.cnt, call.v)
    [] call.fn = "integer" ->
         \A f \in MCFlags(call.precision), t \in {"CHAR", "INT", "LONGLONG"}, arg \in {0, 1, 255, 2047, 2048, 4095} :
           F!IntegerRight(call.ch, f, call.width, call.precision, t, arg)
    [] call.fn = "snprintf" ->
         F!BufferRight(<<"a", "%", "-", "3", "d", "%", "%", "%", "*", ".", "1", "s">>, <<7, 2, <<"x", "y">>>>,
                       call.size, <<"a", "7", " ", " ", "%", " ", "x">>)
    [] call.fn = "dump" ->
         F!DumpRight(call.ofs, [i \in 1 .. call.len |-> (i * 37 + 100) % 256], call.ascii, MCShown)
    [] call.fn = "size" -> F!SizeRight(call.size)
    [] call.fn = "header" -> U!HeaderRight(call.name, call.type, call.size)
    [] call.fn = "octal" -> U!OctalRight(call.s)
    [] OTHER -> TRUE

\* What a boot and a load promise: the partitions found lie on their disks, every role has
\* the device asked for, options and actions take effect in order; the pages of an
\* executable hold its segments, and main finds its arguments on the stack.
StartupRight ==
  CASE call.fn = "partitions" ->
         B!BootRight(<<MCDisk("hda", call.signature, <<call.a, call.b>>)>>, <<>>, 9, <<>>)
    [] call.fn = "boot" ->
         B!BootRight(TwoDisks, [i \in DOMAIN call.options |-> Option(call.options[i])], 9, call.argv)
    [] call.fn = "argv" -> B!ArgvRight(call.words, 7, call.argc)
    [] call.fn = "random" -> B!RandomRight(call.seed)
    [] call.fn = "segment" ->
         Segments!SegmentsRight([length |-> 8, elf |-> TRUE, phoff |-> 2, phdrs |-> <<call.a>>],
                                call.room)
    [] call.fn = "file" ->
         Segments!SegmentsRight([length |-> call.length, elf |-> call.elf, phoff |-> call.phoff,
                                 phdrs |-> <<call.a, call.b>>], 9)
    [] call.fn = "stack" -> Stack!StackRight(40, call.line)
    [] OTHER -> TRUE

----------------------------------------------------------------------------
Init ==
  \E on \in {"lists", "hash", "memory", "lcs", "calls"} :
    /\ ListsInit(IF on = "lists" THEN 1 ELSE 0)
    /\ HashInit(on # "hash")
    /\ MemoryInit(on # "memory")
    /\ LcsInit(on # "lcs")
    /\ call = [fn |-> IF on = "calls" THEN "none" ELSE "off"]

Next == \/ ListsNext /\ UNCHANGED <<hvars, mvars, lcsvars, call>>
        \/ HashNext /\ UNCHANGED <<lvars, mvars, lcsvars, call>>
        \/ MemoryNext /\ UNCHANGED <<lvars, hvars, lcsvars, call>>
        \/ LcsNext /\ UNCHANGED <<lvars, hvars, mvars, call>>
        \/ Call /\ UNCHANGED <<lvars, hvars, mvars, lcsvars>>

Spec == Init /\ [][Next]_vars
=============================================================================
