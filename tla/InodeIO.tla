------------------------------ MODULE InodeIO -------------------------------
(***************************************************************************)
(* The loops of filesys/inode.c that move bytes between a file and the     *)
(* sectors that hold it.  An inode is [start, length, ...]; a disk maps    *)
(* sectors to functions from byte offsets to bytes.                        *)
(***************************************************************************)
EXTENDS Integers, Sequences, SequencesExt

CONSTANT SectorSize    \* BLOCK_SECTOR_SIZE

ASSUME SectorSizeAssumption == SectorSize \in Nat \ {0}

First(S) == CHOOSE x \in S : \A y \in S : x <= y

bytes_to_sectors(size) == (size + SectorSize - 1) \div SectorSize

byte_to_sector(ino, pos) == ino.start + pos \div SectorSize

\* The bytes of one iteration of the loops of inode_read_at and inode_write_at.
Chunk(ino, size, ofs) == First({size, ino.length - ofs, SectorSize - (ofs % SectorSize)})

\* inode_read_at: the bytes read.  A chunk that is not a whole sector goes through the
\* bounce buffer; without one the loop ends.
inode_read_at(d, ino, size, offset, bounce) ==
  LET Step(got, i) ==
        LET ofs == offset + Len(got)
            n == Chunk(ino, size - Len(got), ofs)
        IN  IF n <= 0 \/ (n < SectorSize /\ ~bounce) THEN got
            ELSE got \o [b \in 1 .. n |->
                           d[byte_to_sector(ino, ofs)][(ofs % SectorSize) + b - 1]]
  IN  FoldLeft(Step, <<>>, [i \in 1 .. size |-> i])

\* inode_write_at: the disk after the loop, and the number of bytes written.  A partial
\* chunk keeps the other bytes of its sector.
inode_write_at(d, ino, buf, offset, bounce) ==
  LET Step(st, i) ==
        LET ofs == offset + st.written
            n == Chunk(ino, Len(buf) - st.written, ofs)
            at == ofs % SectorSize
        IN  IF n <= 0 \/ (n < SectorSize /\ ~bounce) THEN st
            ELSE [disk |-> [st.disk EXCEPT ![byte_to_sector(ino, ofs)] =
                              [b \in DOMAIN @ |-> IF b \in at .. at + n - 1
                                                    THEN buf[st.written + b - at + 1]
                                                    ELSE @[b]]],
                  written |-> st.written + n]
  IN  IF ino.deny_write_cnt > 0
        THEN [disk |-> d, written |-> 0]
        ELSE FoldLeft(Step, [disk |-> d, written |-> 0], buf)
=============================================================================
