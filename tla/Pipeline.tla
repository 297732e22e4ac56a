------------------------------ MODULE Pipeline ------------------------------
(***************************************************************************)
(* The pipeline from a source to a proof (pipeline/src/pipeline.rs): a     *)
(* store of artifacts that are computed on demand, each from the ones      *)
(* before it.  Most compilation artifacts are taken out of the store by    *)
(* the step that uses them, the later ones stay.  A step can fail, and the *)
(* caller can go on with the pipeline afterwards.  The stack of the        *)
(* functions compute_... that call each other is explicit, so that a       *)
(* failure can happen at any point of a computation.                       *)
(*                                                                         *)
(* An artifact is the source it was computed from; for the later ones it   *)
(* is a record of everything it was computed from.                         *)
(***************************************************************************)
EXTENDS Naturals, Sequences

CONSTANTS
    None,     \* Option::None
    Torn,     \* contents of a file whose writing was not finished
    Program,  \* what a source file can contain
    Dir,      \* output directories
    Home,     \* the directory with the key files
    constant_count, \* number of fixed columns of a program
    Column,   \* the witness columns
    External  \* the external witness values: pairs of a column and a value

VARIABLES
    artifact,     \* Pipeline::artifact
    arguments,    \* Pipeline::arguments
    output,       \* output_dir and force_overwrite
    host_context, \* the witnesses during whose computation the guest wrote
    files,        \* contents of the files in the directories
    calls,        \* the stack of calls, the innermost last
    panicked      \* a call has panicked

pipelineVars == <<artifact, arguments, output, host_context, files, calls, panicked>>

Source == {"asm_file_path", "asm_string", "pil_file_path", "pil_string"}
Stage ==
    Source \cup
    {"parsed_asm_file", "resolved_module_tree", "analyzed_asm", "optimized_asm",
     "constrained_machine_collection", "linked_machine_graph", "parsed_pil_file",
     "analyzed_pil", "optimized_pil", "fixed_cols", "witness", "backend", "proof"}

\* Compilation steps and the artifact each of them starts from.
prev == [
    asm_string                     |-> "asm_file_path",
    parsed_asm_file                |-> "asm_string",
    resolved_module_tree           |-> "parsed_asm_file",
    analyzed_asm                   |-> "resolved_module_tree",
    optimized_asm                  |-> "analyzed_asm",
    constrained_machine_collection |-> "optimized_asm",
    linked_machine_graph           |-> "constrained_machine_collection",
    parsed_pil_file                |-> "linked_machine_graph",
    analyzed_pil                   |-> "parsed_pil_file",
    optimized_pil                  |-> "analyzed_pil"]

\* compute_analyzed_pil chooses what to analyze, if there is a source.
pil_source ==
    IF artifact["asm_string"] # None \/ artifact["asm_file_path"] # None
    THEN <<"parsed_pil_file">>
    ELSE IF artifact["pil_string"] # None THEN <<"pil_string">>
    ELSE IF artifact["pil_file_path"] # None THEN <<"pil_file_path">>
    ELSE <<>>

\* The artifacts that the computation of s asks for, in this order.
needs(s) ==
    CASE s = "analyzed_pil"              -> pil_source
      [] s \in DOMAIN prev \ {"analyzed_pil"} -> <<prev[s]>>
      [] s = "fixed_cols"                -> <<"optimized_pil">>
      [] s \in {"witness", "backend"}    -> <<"optimized_pil", "fixed_cols">>
      [] s = "proof"                     -> <<"witness", "fixed_cols", "backend">>
      [] s = "set_witness"               -> IF output.dir = None THEN <<>> ELSE <<"fixed_cols">>
      [] OTHER                           -> <<>>

\* The file that is written when s has been computed.
file_of == [
    parsed_pil_file |-> "pil",
    analyzed_pil    |-> "analyzed_pil",
    optimized_pil   |-> "opt_pil",
    fixed_cols      |-> "constants",
    witness         |-> "commits",
    set_witness     |-> "commits",
    proof           |-> "proof"]
File == {file_of[s] : s \in DOMAIN file_of} \cup {"pkey", "vkey"}

\* path_if_should_write: the file exists and must not be overwritten.
refused(s) ==
    /\ s \in DOMAIN file_of
    /\ output.dir # None
    /\ ~output.force
    /\ files[output.dir][file_of[s]] # None

\* maybe_write_...
maybe_write(s, content) ==
    IF s \in DOMAIN file_of /\ output.dir # None
    THEN [files EXCEPT ![output.dir][file_of[s]] = content]
    ELSE files

new_artifacts == [s \in Stage |-> None]
new_arguments == [external |-> {}, key_files |-> FALSE]

-----------------------------------------------------------------------------
(* Computing artifacts.                                                    *)

Running(s) == calls # <<>> /\ calls[Len(calls)] = s

Ready(s) ==
    /\ Running(s)
    /\ s \in Stage => artifact[s] = None
    /\ \A i \in DOMAIN needs(s) : artifact[needs(s)[i]] # None

\* The running computation returns to its caller.
Returns ==
    /\ calls' = SubSeq(calls, 1, Len(calls) - 1)
    /\ UNCHANGED panicked

\* An error passes through all callers; set_witness unwraps it.
Fails ==
    /\ calls' = <<>>
    /\ panicked' = (calls[1] = "set_witness")

\* Faulty variant: the host context is not cleared.
Enter_NoClear(s) == calls' = Append(calls, s) /\ UNCHANGED host_context

\* A call of a function begins; compute_witness clears the host context unless
\* it has the witness already.
Enter(s) ==
    /\ calls' = Append(calls, s)
    /\ host_context' = IF s = "witness" /\ artifact[s] = None THEN {} ELSE host_context

Cached(s) ==
    /\ Running(s) /\ s \in Stage
    /\ artifact[s] # None
    /\ Returns
    /\ UNCHANGED <<artifact, arguments, output, host_context, files>>

\* The i-th of the needs of s is the first that is not there.
Descend(s) ==
    /\ Running(s)
    /\ s \in Stage => artifact[s] = None
    /\ \E i \in DOMAIN needs(s) :
           /\ artifact[needs(s)[i]] = None
           /\ \A j \in 1 .. i - 1 : artifact[needs(s)[j]] # None
           /\ Enter(needs(s)[i])
    /\ UNCHANGED <<artifact, arguments, output, files, panicked>>

\* "No asm file path available"
NoSource ==
    /\ Ready("asm_file_path")
    /\ Fails
    /\ UNCHANGED <<artifact, arguments, output, host_context, files>>

\* Faulty variant: the fixed columns take the optimized PIL out of the store.
taken_OptimizedPil(s) ==
    IF s \in DOMAIN prev \cup {"fixed_cols"}
    THEN {needs(s)[i] : i \in DOMAIN needs(s)} \ Source
    ELSE {}

\* Compilation steps take their input out of the store, unless it is the source.
taken(s) ==
    IF s \in DOMAIN prev THEN {needs(s)[i] : i \in DOMAIN needs(s)} \ Source ELSE {}
after_take(s) == [t \in Stage |-> IF t \in taken(s) THEN None ELSE artifact[t]]

Compile(s) ==
    /\ s \in DOMAIN prev
    /\ Ready(s) /\ needs(s) # <<>>
    /\ ~refused(s)
    /\ artifact' = [after_take(s) EXCEPT ![s] = artifact[needs(s)[1]]]
    /\ files' = maybe_write(s, artifact[needs(s)[1]])
    /\ Returns
    /\ UNCHANGED <<arguments, output, host_context>>

\* Faulty variant: the fixed columns are not written.
ComputeFixedCols_NotWritten ==
    /\ Ready("fixed_cols")
    /\ ~refused("fixed_cols")
    /\ artifact' = [after_take("fixed_cols") EXCEPT !["fixed_cols"] = artifact["optimized_pil"]]
    /\ Returns
    /\ UNCHANGED <<arguments, output, host_context, files>>

ComputeFixedCols ==
    /\ Ready("fixed_cols")
    /\ ~refused("fixed_cols")
    /\ artifact' = [after_take("fixed_cols") EXCEPT !["fixed_cols"] = artifact["optimized_pil"]]
    /\ files' = maybe_write("fixed_cols", artifact["optimized_pil"])
    /\ Returns
    /\ UNCHANGED <<arguments, output, host_context>>

\* Faulty variant: the generator is not given the external values.
computed_witness_NoExternal ==
    [pil |-> artifact["optimized_pil"], fixed |-> artifact["fixed_cols"], values |-> {}]

computed_witness ==
    [pil |-> artifact["optimized_pil"], fixed |-> artifact["fixed_cols"],
     values |-> arguments.external]

\* "All witness columns externally provided, skipping witness generation."
all_external == Column \subseteq {v[1] : v \in arguments.external}

ComputeWitness ==
    /\ Ready("witness")
    /\ constant_count[artifact["optimized_pil"]] = constant_count[artifact["fixed_cols"]]
    /\ all_external \/ ~refused("witness")
    /\ arguments' = [arguments EXCEPT !.external = {}]
    /\ artifact' = [artifact EXCEPT !["witness"] = computed_witness, !["proof"] = None]
    /\ files' = IF all_external THEN files ELSE maybe_write("witness", computed_witness)
    /\ host_context' = IF all_external THEN host_context
                       ELSE host_context \cup {computed_witness}
    /\ Returns
    /\ UNCHANGED output

\* The key files are read when the backend is created.
SetupBackend ==
    /\ Ready("backend")
    /\ arguments.key_files => \A f \in {"pkey", "vkey"} : files[Home][f] \notin {None, Torn}
    /\ artifact' = [artifact EXCEPT !["backend"] =
           [pil  |-> artifact["optimized_pil"], fixed |-> artifact["fixed_cols"],
            pkey |-> IF arguments.key_files THEN files[Home]["pkey"] ELSE None]]
    /\ Returns
    /\ UNCHANGED <<arguments, output, host_context, files>>

\* There is nothing to analyze; assert_eq!(pil.constant_count(), ...); or
\* File::open(path).unwrap() and create(...).unwrap().
StepPanics(s) ==
    /\ Ready(s)
    /\ CASE s = "analyzed_pil" -> needs(s) = <<>>
         [] s = "witness" -> constant_count[artifact["optimized_pil"]] #
                             constant_count[artifact["fixed_cols"]]
         [] s = "backend" -> /\ arguments.key_files
                             /\ \E f \in {"pkey", "vkey"} : files[Home][f] \in {None, Torn}
         [] OTHER -> FALSE
    /\ calls' = <<>>
    /\ panicked' = TRUE
    /\ UNCHANGED <<artifact, arguments, output, host_context, files>>

computed_proof == [witness |-> artifact["witness"], backend |-> artifact["backend"]]

ComputeProof ==
    /\ Ready("proof")
    /\ ~refused("proof")
    /\ artifact' = [artifact EXCEPT !["proof"] = computed_proof]
    /\ files' = maybe_write("proof", computed_proof)
    /\ Returns
    /\ UNCHANGED <<arguments, output, host_context>>

Fallible ==
    {"asm_string", "resolved_module_tree", "analyzed_asm", "parsed_pil_file", "analyzed_pil",
     "optimized_pil", "fixed_cols", "witness", "proof"}

\* A step returns an error, after it has taken its inputs: that of the compiler
\* or of the backend, or because a file cannot be written.  The guest has run
\* when writing the witness fails.
StepFails(s) ==
    /\ Ready(s) /\ needs(s) # <<>>
    /\ s \in Fallible \/ refused(s)
    /\ s = "witness" =>
           /\ constant_count[artifact["optimized_pil"]] = constant_count[artifact["fixed_cols"]]
           /\ ~all_external
    /\ artifact' = after_take(s)
    /\ arguments' = IF s = "witness" THEN [arguments EXCEPT !.external = {}] ELSE arguments
    /\ host_context' = IF s = "witness" THEN host_context \cup {computed_witness}
                       ELSE host_context
    /\ Fails
    /\ UNCHANGED <<output, files>>
-----------------------------------------------------------------------------
(* Setting sources, artifacts and arguments.                               *)

Idle == calls = <<>> /\ ~panicked

\* The functions compute_... and setup_backend.
Call(s) ==
    /\ Idle
    /\ Enter(s)
    /\ UNCHANGED <<artifact, arguments, output, files, panicked>>

\* from_asm_file, from_asm_string, from_pil_file, from_pil_string and
\* from_pil_object: everything computed before is dropped.
From(s, p) ==
    /\ Idle
    /\ artifact' = [new_artifacts EXCEPT ![s] = p]
    /\ UNCHANGED <<arguments, output, host_context, files, calls, panicked>>

set_output(d, force) ==
    /\ Idle
    /\ output' = [dir |-> d, force |-> force]
    /\ UNCHANGED <<artifact, arguments, host_context, files, calls, panicked>>

\* "Duplicate witness column name": the values of a column are given once.
add_external_witness_values(vs) ==
    /\ Idle
    /\ IF \A v \in vs : \A w \in arguments.external : v[1] # w[1]
       THEN /\ arguments' = [arguments EXCEPT !.external = @ \cup vs]
            /\ UNCHANGED panicked
       ELSE /\ panicked' = TRUE
            /\ UNCHANGED arguments
    /\ UNCHANGED <<artifact, output, host_context, files, calls>>

\* with_backend, with_setup_file, with_pkey_file, with_vkey_file and
\* with_vkey_app_file.
with_backend(key_files) ==
    /\ Idle
    /\ arguments' = [arguments EXCEPT !.key_files = key_files]
    /\ artifact' = [artifact EXCEPT !["backend"] = None]
    /\ UNCHANGED <<output, host_context, files, calls, panicked>>

\* set_pkey_file and set_vkey_file.
set_key_files ==
    /\ Idle
    /\ arguments' = [arguments EXCEPT !.key_files = TRUE]
    /\ UNCHANGED <<artifact, output, host_context, files, calls, panicked>>

\* export_proving_key and export_verification_key, when the backend is set up.
export_keys ==
    /\ Idle
    /\ artifact["backend"] # None
    /\ files' = [files EXCEPT ![Home] = [@ EXCEPT
           !["pkey"] = [pil |-> artifact["backend"].pil, fixed |-> artifact["backend"].fixed],
           !["vkey"] = [pil |-> artifact["backend"].pil, fixed |-> artifact["backend"].fixed]]]
    /\ UNCHANGED <<artifact, arguments, output, host_context, calls, panicked>>

read_constants(d) ==
    /\ Idle
    /\ files[d]["constants"] \notin {None, Torn}
    /\ artifact' = [artifact EXCEPT !["fixed_cols"] = files[d]["constants"]]
    /\ UNCHANGED <<arguments, output, host_context, files, calls, panicked>>

read_witness(d) ==
    /\ Idle
    /\ files[d]["commits"] \notin {None, Torn}
    /\ artifact' = [artifact EXCEPT !["witness"] = files[d]["commits"], !["proof"] = None]
    /\ UNCHANGED <<arguments, output, host_context, files, calls, panicked>>

\* A witness from elsewhere.
given_witness == [pil |-> None, fixed |-> None, values |-> {}]

\* set_witness: the fixed columns are computed, if there is an output directory
\* to write to, and then the witness is written ...
StartSetWitness ==
    /\ Idle
    /\ Enter("set_witness")
    /\ UNCHANGED <<artifact, arguments, output, files, panicked>>

\* ... and set.
SetWitness ==
    /\ Ready("set_witness")
    /\ ~refused("set_witness")
    /\ artifact' = [artifact EXCEPT !["witness"] = given_witness, !["proof"] = None]
    /\ files' = maybe_write("set_witness", given_witness)
    /\ Returns
    /\ UNCHANGED <<arguments, output, host_context>>

\* Faulty variant: the proof of the witness is kept.
rollback_from_witness_KeepProof ==
    /\ Idle
    /\ artifact' = [artifact EXCEPT !["witness"] = None]
    /\ arguments' = [arguments EXCEPT !.external = {}]
    /\ UNCHANGED <<output, host_context, files, calls, panicked>>

rollback_from_witness ==
    /\ Idle
    /\ artifact' = [artifact EXCEPT !["witness"] = None, !["proof"] = None]
    /\ arguments' = [arguments EXCEPT !.external = {}]
    /\ UNCHANGED <<output, host_context, files, calls, panicked>>

\* A panic has destroyed the pipeline: a new one is made from a source.
Default(s, p) ==
    /\ panicked
    /\ artifact' = [new_artifacts EXCEPT ![s] = p]
    /\ arguments' = new_arguments
    /\ output' = [dir |-> None, force |-> FALSE]
    /\ host_context' = {}
    /\ panicked' = FALSE
    /\ UNCHANGED <<files, calls>>

\* The steps of a computation that goes well, or panics.
Step ==
    \/ \E s \in {calls[i] : i \in {Len(calls)} \ {0}} :
           Cached(s) \/ Descend(s) \/ Compile(s) \/ StepPanics(s)
    \/ NoSource \/ ComputeFixedCols \/ ComputeWitness \/ SetupBackend \/ ComputeProof
    \/ SetWitness
-----------------------------------------------------------------------------
(* Properties.                                                             *)

\* A cached proof is a proof of the cached witness, by a backend that was set
\* up for the cached PIL, however witnesses were computed, read, set and rolled
\* back, whatever failed in between, and whatever the proof was asked for after
\* ("we're changing the witness, clear the current proof").
ProofIsOfWitness ==
    artifact["proof"] # None =>
        /\ artifact["witness"] # None
        /\ artifact["proof"].witness = artifact["witness"]
        /\ artifact["optimized_pil"] # None
        /\ artifact["proof"].backend.pil = artifact["optimized_pil"]

\* "After witgen the host can read what the guest wrote": the host context
\* never mixes what the guest wrote in two runs, also when a run failed and was
\* repeated.
HostReadsOneRun == \A v, w \in host_context : v = w

\* External witness values only leave the arguments when they are in the
\* witness or when there is no witness (it failed, or was rolled back).
ExternalValuesReachTheWitness ==
    [][\A v \in arguments.external :
           \/ v \in arguments'.external
           \/ artifact'["witness"] = None
           \/ v \in artifact'["witness"].values]_pipelineVars

\* A pipeline that has a source can always compute everything from it again,
\* after any failure in any step: what the steps take out of the store is never
\* all that is left of the source, and nothing of an earlier source remains.
SourceIsKept ==
    \E p \in Program :
        /\ \E s \in Source \cup {"optimized_pil"} : artifact[s] = p
        /\ \A s \in Source \cup DOMAIN prev : artifact[s] \in {None, p}
=============================================================================
