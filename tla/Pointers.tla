------------------------------ MODULE Pointers ------------------------------
(* The null pointer, which is no object of any module. *)
CONSTANT NULL
=============================================================================
