--------------------------- MODULE PipelineClient ---------------------------
(***************************************************************************)
(* A program that uses the pipeline as a library: it makes any calls in any *)
(* order, and carries on with the pipeline after a call that failed.       *)
(***************************************************************************)
EXTENDS Pipeline

CONSTANTS
    Origin,  \* what pipelines are made from
    Goal,    \* the artifacts that are asked for
    MaxOps   \* bound on the number of calls

ASSUME ClientAssumption ==
    /\ Origin \subseteq Source \cup {"optimized_pil"}
    /\ Goal \subseteq Stage

VARIABLE ops  \* number of calls so far

clientVars == <<pipelineVars, ops>>

\* Pipeline::default() and one of the functions from_...
ClientInit ==
    /\ \E s \in Origin, p \in Program : artifact = [new_artifacts EXCEPT ![s] = p]
    /\ arguments = new_arguments
    /\ output = [dir |-> None, force |-> FALSE]
    /\ host_context = {}
    /\ files = [d \in Dir |-> [f \in File |-> None]]
    /\ calls = <<>>
    /\ panicked = FALSE
    /\ ops = 0

Client ==
    \/ \E s \in Goal : Call(s)
    \/ \E s \in Origin, p \in Program : From(s, p) \/ Default(s, p)
    \/ \E d \in Dir, force \in BOOLEAN : set_output(d, force)
    \/ \E v \in External : add_external_witness_values({v})
    \/ \E key_files \in BOOLEAN : with_backend(key_files)
    \/ \E d \in Dir : read_constants(d) \/ read_witness(d)
    \/ set_key_files \/ export_keys \/ StartSetWitness \/ rollback_from_witness

ClientNext ==
    \/ Step /\ UNCHANGED ops
    \/ (\E s \in Stage \cup {"set_witness"} : StepFails(s)) /\ UNCHANGED ops
    \/ Client /\ ops < MaxOps /\ ops' = ops + 1

ClientSpec == ClientInit /\ [][ClientNext]_clientVars
=============================================================================
