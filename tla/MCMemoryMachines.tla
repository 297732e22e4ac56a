-------------------------- MODULE MCMemoryMachines --------------------------
(***************************************************************************)
(* Two addresses on different pages, two steps, and tables of at most two  *)
(* or four rows; a write-once memory with two rows that are not given, are *)
(* given, or are given in part.                                            *)
(***************************************************************************)
EXTENDS MemoryMachines

MCDegreeRange == {[min |-> 1, max |-> 2], [min |-> 2, max |-> 4]}
MCExternalValues == {None, <<1>>, <<1, 0>>}
=============================================================================
