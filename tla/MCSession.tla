----------------------------- MODULE MCSession ------------------------------
(***************************************************************************)
(* Three programs, one with two chunks and one with another number of      *)
(* fixed columns, and three processes of which two can be interrupted.     *)
(***************************************************************************)
EXTENDS Session

CONSTANTS p1, p2, p3

MCNumChunks == [p \in Program |-> IF p = p1 THEN 2 ELSE 1]
MCconstant_count == [p \in Program |-> IF p = p3 THEN 2 ELSE 1]
MCExternal == UNION {chunk_inputs(p, i) : p \in Program, i \in Dir}
=============================================================================
