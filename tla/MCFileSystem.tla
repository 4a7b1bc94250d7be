--------------------------- MODULE MCFileSystem ----------------------------
(* FileSystem for TLC: what programs write, and the interchangeable values. *)
EXTENDS FileSystem, TLC

MCBuffer == {<<1>>}

MCSymmetry == Permutations(Proc) \cup Permutations(Name)
=============================================================================
