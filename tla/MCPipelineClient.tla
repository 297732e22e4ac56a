----------------------------- MODULE MCPipelineClient -----------------------------
(***************************************************************************)
(* A client that calls the pipeline up to five times, with two sources of  *)
(* different numbers of fixed columns, one directory, and two columns that *)
(* can be given externally, one or both.                                   *)
(***************************************************************************)
EXTENDS PipelineClient

CONSTANTS p1, p2

MCExternal == {<<"c1", 1>>, <<"c2", 1>>}
MCconstant_count == [p \in Program |-> IF p = p1 THEN 1 ELSE 2]
=============================================================================
