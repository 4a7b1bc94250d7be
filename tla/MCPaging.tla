------------------------------ MODULE MCPaging ------------------------------
(***************************************************************************)
(* Two processes with a stack each; one has another page of each kind.     *)
(***************************************************************************)
EXTENDS Paging

MCPages == [t \in {1, 2} |-> IF t = 1 THEN <<"s1", "x1">> ELSE <<"s2">>]
MCLayout == {[p \in {"s1", "s2", "x1"} |-> IF p = "x1" THEN k ELSE "stack"] :
                k \in Kinds \ {"stack"}}
=============================================================================
