------------------------------ MODULE Startup -------------------------------
(***************************************************************************)
(* From the loader to the first action: the kernel command line and the    *)
(* options of src/pintos/src/threads/init.c, the partitions that           *)
(* src/pintos/src/devices/partition.c finds, the registry of block devices *)
(* in src/pintos/src/devices/block.c and the roles they are given.         *)
(***************************************************************************)
EXTENDS Strings

CONSTANTS
  SectorBits,        \* bits of a sector number (32 in the code)
  MaxNesting,        \* nested partition tables the kernel stack has room for
  StateSize          \* entries of the random number generator's state (256)

Sectors == 2^SectorBits

\* Types of block devices; the first four are also roles.
Roles == {"KERNEL", "FILESYS", "SCRATCH", "SWAP"}

ExtendedTypes == {"05", "0f", "85", "c5"}

----------------------------------------------------------------------------
\* block.c: the devices in the order they were registered.  A disk's name is <<disk, 0>>, a
\* partition's <<disk, number>>.

block_register(blocks, name, type, start, size) ==
  Append(blocks, [name |-> name, type |-> type, start |-> start, size |-> size])

block_get_by_name(blocks, name) ==
  FirstOf({i \in DOMAIN blocks : blocks[i].name = name})

----------------------------------------------------------------------------
\* partition.c.  A scan is [blocks, nr]: the registry and the partitions numbered so far;
\* ends is FALSE once the tables nest too deeply.

PartitionRole(type) ==
  CASE type = "20" -> "KERNEL" [] type = "21" -> "FILESYS" [] type = "22" -> "SCRATCH"
    [] type = "23" -> "SWAP" [] OTHER -> "FOREIGN"

\* Mutant: the end of the partition is not compared with the end of the device.
found_partition_no_end(scan, disk, type, start, size) ==
  IF start >= disk.size THEN scan
  ELSE [scan EXCEPT !.blocks = block_register(@, <<disk.name, scan.nr>>, PartitionRole(type), start, size)]

found_partition(scan, disk, type, start, size) ==
  LET end == (start + size) % Sectors
  IN  IF start >= disk.size \/ end < start \/ end > disk.size THEN scan
      ELSE [scan EXCEPT !.blocks =
              block_register(@, <<disk.name, scan.nr>>, PartitionRole(type), start, size)]

\* Whatever table is asked for, sector 0 is the one that is read.
RECURSIVE read_partition_table(_, _, _, _, _)
read_partition_table(scan, disk, sector, primary_extended_sector, depth) ==
  LET pt == disk.content[0]
      Entry(s, e) ==
        CASE e.size = 0 \/ e.type = "00" -> s
          [] e.size # 0 /\ e.type \in ExtendedTypes ->
               IF sector = 0 THEN read_partition_table(s, disk, e.offset, e.offset, depth + 1)
               ELSE read_partition_table(s, disk, (e.offset + primary_extended_sector) % Sectors,
                                         primary_extended_sector, depth + 1)
          [] OTHER ->
               found_partition([s EXCEPT !.nr = @ + 1], disk, e.type,
                               (e.offset + sector) % Sectors, e.size)
  IN  IF depth > MaxNesting THEN [scan EXCEPT !.ends = FALSE]
      ELSE IF ~scan.ends \/ sector >= disk.size \/ ~pt.signature THEN scan
      ELSE FoldLeft(Entry, scan, pt.partitions)

partition_scan(blocks, disk) ==
  read_partition_table([blocks |-> blocks, nr |-> 0, ends |-> TRUE], disk, 0, 0, 0)

\* A disk is registered before it is scanned.
RegisterDisk(blocks, disk) ==
  partition_scan(block_register(blocks, <<disk.name, 0>>, "RAW", 0, disk.size), disk)

----------------------------------------------------------------------------
\* random.c: a permutation of the state's indexes, shuffled by the bytes of a seed.

swap_byte(s, i, j) == [s EXCEPT ![i] = s[j], ![j] = s[i]]

random_init(seed) ==
  LET Step(r, i) == LET j == (r.j + r.s[i - 1] + seed[((i - 1) % Len(seed)) + 1]) % StateSize
                    IN  [s |-> swap_byte(r.s, i - 1, j), j |-> j]
  IN  [s |-> FoldLeft(Step, [s |-> [i \in 0 .. StateSize - 1 |-> i], j |-> 0], Numbers(StateSize)).s,
       i |-> 0, j |-> 0]

\* One byte: the state after it, and the byte.
random_byte(r) ==
  LET i == (r.i + 1) % StateSize
      j == (r.j + r.s[i]) % StateSize
      s == swap_byte(r.s, i, j)
  IN  [state |-> [s |-> s, i |-> i, j |-> j], byte |-> s[(s[i] + s[j]) % StateSize]]

----------------------------------------------------------------------------
\* init.c.

\* The words the loader left, zero-terminated one after the other, in a region of memory:
\* pointers, or Null if the count goes beyond the region.
read_command_line(m, argc) ==
  LET end == Max(DOMAIN m) + 1
      Word(st, i) == IF st.panic \/ st.p >= end THEN [st EXCEPT !.panic = TRUE]
                     ELSE [st EXCEPT !.argv = Append(@, st.p), !.p = @ + strnlen(m, st.p, end - st.p) + 1]
  IN  FoldLeft(Word, [argv |-> <<>>, p |-> 0, panic |-> FALSE], Numbers(argc))

\* What the options set.  An option is [name, value], with value <<>> if it has none;
\* options are the leading words with a dash.
Defaults == [shutdown |-> "none", format |-> FALSE, FILESYS |-> <<>>, SCRATCH |-> <<>>,
             SWAP |-> <<>>, seed |-> Null, mlfqs |-> FALSE, user_page_limit |-> Null,
             panic |-> FALSE, off |-> FALSE]

\* The function of an option; atoi asserts that there is a string to convert.
Option(st, o) ==
  CASE o.name \in {"-rs", "-ul"} /\ o.value = <<>> -> [st EXCEPT !.panic = TRUE]
    [] o.name = "-h" -> [st EXCEPT !.off = TRUE]
    [] o.name = "-q" -> [st EXCEPT !.shutdown = "POWER_OFF"]
    [] o.name = "-r" -> [st EXCEPT !.shutdown = "REBOOT"]
    [] o.name = "-f" -> [st EXCEPT !.format = TRUE]
    [] o.name = "-filesys" -> [st EXCEPT !.FILESYS = o.value]
    [] o.name = "-scratch" -> [st EXCEPT !.SCRATCH = o.value]
    [] o.name = "-swap" -> [st EXCEPT !.SWAP = o.value]
    [] o.name = "-rs" /\ o.value # <<>> -> [st EXCEPT !.seed = o.value[2]]
    [] o.name = "-ul" /\ o.value # <<>> -> [st EXCEPT !.user_page_limit = o.value[2]]
    [] o.name = "-mlfqs" -> [st EXCEPT !.mlfqs = TRUE]
    [] OTHER -> [st EXCEPT !.panic = TRUE]

\* The options in order, until one ends the boot; then the generator is seeded with the time.
parse_options(options, time) ==
  LET st == FoldLeft(LAMBDA s, o : IF s.panic \/ s.off THEN s ELSE Option(s, o), Defaults, options)
  IN  IF st.panic \/ st.off THEN st ELSE [st EXCEPT !.seed = time]

\* The device for a role, Null for none; panic if it is named and does not exist.
locate_block_device(blocks, role, name) ==
  LET named == block_get_by_name(blocks, name)
      first == FirstOf({i \in DOMAIN blocks : blocks[i].type = role})
  IN  [panic |-> name # <<>> /\ named = Null, block |-> IF name # <<>> THEN named ELSE first]

\* The devices of the three roles, one role after the other.
locate_block_devices(blocks, options) ==
  LET Locate(st, role) ==
        LET r == locate_block_device(blocks, role, options[role])
        IN  IF st.panic \/ r.panic THEN [st EXCEPT !.panic = TRUE]
            ELSE [st EXCEPT !.by_role[role] = r.block]
  IN  FoldLeft(Locate, [by_role |-> [role \in Roles |-> Null], panic |-> FALSE],
               <<"FILESYS", "SCRATCH", "SWAP">>)

\* The words each action takes, its own name included.
Actions == [run |-> 2, ls |-> 1, cat |-> 2, rm |-> 2, extract |-> 1, append |-> 2]

\* The actions performed, in order, and whether a word stopped the kernel.
RECURSIVE run_actions(_)
run_actions(argv) ==
  IF argv = <<>> THEN [done |-> <<>>, panic |-> FALSE]
  ELSE IF argv[1] \notin DOMAIN Actions \/ Len(argv) < Actions[argv[1]]
    THEN [done |-> <<>>, panic |-> TRUE]
  ELSE LET n == Actions[argv[1]]
           rest == run_actions(SubSeq(argv, n + 1, Len(argv)))
       IN  [rest EXCEPT !.done = <<SubSeq(argv, 1, n)>> \o @]

\* The boot from the options to the actions.  filesys_init needs a device.
Boot(disks, options, time, argv) ==
  LET opt == parse_options(options, time)
      scanned == FoldLeft(LAMBDA st, d : IF st.ends THEN RegisterDisk(st.blocks, d) ELSE st,
                          [blocks |-> <<>>, nr |-> 0, ends |-> TRUE], disks)
      located == locate_block_devices(scanned.blocks, opt)
      ran == run_actions(argv)
      up == ~opt.panic /\ ~opt.off /\ scanned.ends /\ ~located.panic
              /\ located.by_role.FILESYS # Null
  IN  [up |-> up, seed |-> opt.seed, ends |-> scanned.ends, blocks |-> scanned.blocks,
       by_role |-> located.by_role,
       done |-> IF up THEN ran.done ELSE <<>>, panic |-> up /\ ran.panic]

----------------------------------------------------------------------------
\* What should come out.

Partitions(d) == {k \in DOMAIN d.content[0].partitions :
                    d.content[0].partitions[k].size > 0 /\ d.content[0].partitions[k].type # "00"}
IsExtended(d, k) == d.content[0].partitions[k].type \in ExtendedTypes

\* The offsets of the extended partitions in a disk's first table.
Extended(d) ==
  IF d.content[0].signature
    THEN {d.content[0].partitions[k].offset : k \in {j \in Partitions(d) : IsExtended(d, j)}} ELSE {}

\* The devices of a disk without extended partitions: the disk, then the partitions that
\* lie on it, numbered by their place among the nonempty entries.
DevicesOf(d) ==
  LET Number(k) == Cardinality({j \in Partitions(d) : j <= k})
      e == d.content[0].partitions
      good == IF d.content[0].signature THEN {k \in Partitions(d) : e[k].offset + e[k].size <= d.size} ELSE {}
      kth == SetToSortSeq(good, <)
  IN  <<[name |-> <<d.name, 0>>, type |-> "RAW", start |-> 0, size |-> d.size]>>
        \o [i \in DOMAIN kth |->
              [name |-> <<d.name, Number(kth[i])>>, type |-> PartitionRole(e[kth[i]].type),
               start |-> e[kth[i]].offset, size |-> e[kth[i]].size]]

\* Every partition lies on its disk and has a name of its own.  Without extended partitions
\* the scan ends, and exactly the table's are found; with them nothing is said of what is
\* found, nor that the scan ends.
DevicesRight(disks, r) ==
  /\ (\A i \in DOMAIN disks : Extended(disks[i]) = {}) => r.ends
  /\ r.ends =>
       /\ \A k \in DOMAIN r.blocks : \E i \in DOMAIN disks :
            /\ r.blocks[k].name[1] = disks[i].name
            /\ r.blocks[k].start + r.blocks[k].size <= disks[i].size
       /\ \A k, l \in DOMAIN r.blocks : r.blocks[k].name = r.blocks[l].name => k = l
       /\ (\A i \in DOMAIN disks : Extended(disks[i]) = {}) =>
            r.blocks = FoldLeft(LAMBDA b, d : b \o DevicesOf(d), <<>>, disks)

\* The kernel comes up exactly if the options make sense, the named devices exist and there
\* is a file system device.  Then each role has the device named last for it, or the first
\* of its type; the actions are done up to the first that is unknown or incomplete; and
\* unless there is an option -rs the seed is the time.
BootRight(disks, options, time, argv) ==
  LET Given(name) == {i \in DOMAIN options : options[i].name = name}
      Named(name) == IF Given(name) = {} THEN <<>> ELSE options[Max(Given(name))].value
      names == [FILESYS |-> Named("-filesys"), SCRATCH |-> Named("-scratch"), SWAP |-> Named("-swap")]
      Known == {"-q", "-r", "-f", "-filesys", "-scratch", "-swap", "-rs", "-mlfqs", "-ul"}
      Words(done) == FoldLeft(LAMBDA w, a : w \o a, <<>>, done)
      Has(r, field, value) == \E k \in DOMAIN r.blocks : r.blocks[k][field] = value
  IN  \A r \in {Boot(disks, options, time, argv)} :
        /\ DevicesRight(disks, r)
        /\ r.up = (/\ r.ends
                   /\ \A i \in DOMAIN options :
                        /\ options[i].name \in Known
                        /\ options[i].name \in {"-rs", "-ul"} => options[i].value # <<>>
                   /\ \A role \in DOMAIN names : names[role] # <<>> => Has(r, "name", names[role])
                   /\ names.FILESYS # <<>> \/ Has(r, "type", "FILESYS"))
        /\ r.up =>
             /\ Given("-rs") = {} => r.seed = time
             /\ \A role \in DOMAIN names :
                  LET b == r.by_role[role]
                  IN  IF names[role] # <<>> THEN r.blocks[b].name = names[role]
                      ELSE IF Has(r, "type", role)
                        THEN r.blocks[b].type = role /\ \A k \in 1 .. b - 1 : r.blocks[k].type # role
                      ELSE b = Null
             /\ IsPrefix(Words(r.done), argv)
             /\ \A k \in DOMAIN r.done : Len(r.done[k]) = Actions[r.done[k][1]]
             /\ r.panic = (Words(r.done) # argv)

\* The words the loader stored come back, and a count beyond them runs through the zeros of
\* the region until its end.
ArgvRight(words, size, argc) ==
  LET stored == Stored(words)
      m == [i \in 0 .. size - 1 |-> IF i \in DOMAIN stored THEN stored[i] ELSE 0]
      used == FoldLeft(LAMBDA n, w : n + Len(w) + 1, 0, words)
      r == read_command_line(m, argc)
  IN  /\ r.panic = (argc > Len(words) + size - used)
      /\ ~r.panic => \A i \in 1 .. argc :
           StringAt(m, r.argv[i]) = IF i <= Len(words) THEN words[i] ELSE <<>>

\* Whatever the seed, the state is a permutation and stays one.
RandomRight(seed) ==
  LET r == random_init(seed)
      after == FoldLeft(LAMBDA s, k : random_byte(s).state, r, Numbers(StateSize + 1))
      Permutes(s) == {s[i] : i \in DOMAIN s} = 0 .. StateSize - 1
  IN  Permutes(r.s) /\ Permutes(after.s) /\ random_byte(after).byte \in 0 .. StateSize - 1
=============================================================================
