------------------------------ MODULE MCRuntime ------------------------------
(* Small instances of Runtime: two bodies, one of one page and one of two. *)
EXTENDS Runtime
CONSTANTS a, b
MCExprs == {a, b}
MCPagesOf == [e \in {a, b} |-> IF e = a THEN 1 ELSE 2]
=============================================================================
