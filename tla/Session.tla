------------------------------ MODULE Session -------------------------------
(***************************************************************************)
(* Session::prove (powdr/src/lib.rs): the program is compiled, the setup   *)
(* that an earlier process left in the output directory is used again if   *)
(* the PIL has not changed, and otherwise made and written; then the       *)
(* chunks of the execution are proved one by one through one pipeline      *)
(* (rust_continuations in riscv/src/continuations.rs).  The process can be *)
(* interrupted at any point, also while it writes a file, and the program  *)
(* can be changed before the next process starts.                          *)
(*                                                                         *)
(* Nearly all errors are unwrapped on this path, so that an error of a     *)
(* step of the pipeline is an interruption, too.                           *)
(***************************************************************************)
EXTENDS Pipeline

CONSTANTS
    NumChunks,    \* number of chunks that the execution of a program takes
    MaxProcesses, \* bound on the number of processes
    MaxCrashes    \* bound on the number of interruptions

ASSUME DirAssumption ==
    Home = 0 /\ Home \in Dir /\ \A p \in Program : 1 .. NumChunks[p] \subseteq Dir

VARIABLES
    pc,           \* where prove is
    existing_pil, \* the PIL file that prove found
    chunk,        \* the chunk that is proved, counted from 1
    processes,    \* number of processes so far
    crashes       \* number of interruptions so far

controlVars == <<pc, existing_pil, chunk>>
sessionVars == <<pipelineVars, controlVars, processes, crashes>>

\* A directory has the number of its chunk, the parent directory is Home.
chunk_inputs(p, i) == {<<"bootloader_inputs", p, i>>, <<"jump_to_shutdown_routine", p, i>>}

SessionInit ==
    /\ artifact = new_artifacts
    /\ arguments = new_arguments
    /\ output = [dir |-> Home, force |-> TRUE]
    /\ host_context = {}
    /\ files = [d \in Dir |-> [f \in File |-> None]]
    /\ calls = <<>>
    /\ panicked = FALSE
    /\ pc = "down"
    /\ existing_pil = None
    /\ chunk = 0
    /\ processes = 0
    /\ crashes = 0
-----------------------------------------------------------------------------
\* SessionBuilder::build: the pipeline of a new process has the compiled
\* program, as a string or, with asm_file, as the path of a file.
Build(s, p) ==
    /\ pc = "down"
    /\ processes < MaxProcesses
    /\ processes' = processes + 1
    /\ artifact' = [new_artifacts EXCEPT ![s] = p]
    /\ arguments' = new_arguments
    /\ output' = [dir |-> Home, force |-> TRUE]
    /\ host_context' = {}
    /\ pc' = "built"
    /\ UNCHANGED <<files, calls, panicked, existing_pil, chunk, crashes>>

\* prove is where it calls nothing, and calls s next.
At(where) == pc = where /\ calls = <<>> /\ ~panicked

ThenCall(s, where) ==
    /\ Enter(s)
    /\ pc' = where

\* Session::run, for the fast executor, which clears the host context ...
Run ==
    /\ At("built")
    /\ ThenCall("analyzed_asm", "executing")
    /\ UNCHANGED <<artifact, arguments, output, files, panicked, existing_pil, chunk, processes,
                   crashes>>

\* ... and runs the guest.
Execute ==
    /\ At("executing")
    /\ host_context' = {[pil |-> artifact["analyzed_asm"], fixed |-> None, values |-> {}]}
    /\ pc' = "built"
    /\ UNCHANGED <<artifact, arguments, output, files, calls, panicked, existing_pil, chunk,
                   processes, crashes>>

\* Session::prove reads the PIL that is there.  Computing the PIL to compare
\* it with also overwrites the file.
ReadPil ==
    /\ At("built") /\ artifact["asm_string"] # None
    /\ existing_pil' = files[Home]["opt_pil"]
    /\ IF files[Home]["opt_pil"] = None
       THEN ThenCall("fixed_cols", "generate")
       ELSE ThenCall("optimized_pil", "compare")
    /\ UNCHANGED <<artifact, arguments, output, files, panicked, chunk, processes, crashes>>


\* "Compiled PIL changed, invalidating artifacts..."
PilChanged ==
    /\ At("compare") /\ existing_pil # artifact["optimized_pil"]
    /\ ThenCall("fixed_cols", "generate")
    /\ UNCHANGED <<artifact, arguments, output, files, panicked, existing_pil, chunk, processes,
                   crashes>>

\* "Compiled PIL did not change, will try to reuse artifacts..."
ReadConstants ==
    /\ At("compare") /\ existing_pil = artifact["optimized_pil"]
    /\ files[Home]["constants"] # Torn
    /\ IF files[Home]["constants"] = None
       THEN ThenCall("fixed_cols", "keys") /\ UNCHANGED artifact
       ELSE /\ artifact' = [artifact EXCEPT !["fixed_cols"] = files[Home]["constants"]]
            /\ pc' = "keys"
            /\ UNCHANGED <<calls, host_context>>
    /\ UNCHANGED <<arguments, output, files, panicked, existing_pil, chunk, processes, crashes>>

HaveKeys == files[Home]["pkey"] # None /\ files[Home]["vkey"] # None

\* "Re-using proving and verification keys..."
ReuseKeys ==
    /\ At("keys") /\ HaveKeys
    /\ arguments' = [arguments EXCEPT !.key_files = TRUE]
    /\ ThenCall("backend", "prove")
    /\ UNCHANGED <<artifact, output, files, panicked, existing_pil, chunk, processes, crashes>>

\* "Creating program ZK setup."
Generate ==
    /\ At("generate")
    /\ ThenCall("backend", "export")
    /\ UNCHANGED <<artifact, arguments, output, files, panicked, existing_pil, chunk, processes,
                   crashes>>

\* Session::export_setup: a key file is created before the key is exported.
CreatePkey ==
    /\ At("export") \/ (At("keys") /\ ~HaveKeys)
    /\ files' = [files EXCEPT ![Home]["pkey"] = Torn]
    /\ ThenCall("backend", "export pkey")
    /\ UNCHANGED <<artifact, arguments, output, panicked, existing_pil, chunk, processes, crashes>>

keys_of(b) == [pil |-> b.pil, fixed |-> b.fixed]

CreateVkey ==
    /\ At("export pkey")
    /\ files' = [files EXCEPT ![Home] =
           [@ EXCEPT !["pkey"] = keys_of(artifact["backend"]), !["vkey"] = Torn]]
    /\ ThenCall("backend", "export vkey")
    /\ UNCHANGED <<artifact, arguments, output, panicked, existing_pil, chunk, processes, crashes>>

\* The key files are set, but the backend is there already.
ExportVkey ==
    /\ At("export vkey")
    /\ files' = [files EXCEPT ![Home]["vkey"] = keys_of(artifact["backend"])]
    /\ arguments' = [arguments EXCEPT !.key_files = TRUE]
    /\ pc' = "prove"
    /\ UNCHANGED <<artifact, output, host_context, calls, panicked, existing_pil, chunk,
                   processes, crashes>>

\* prove: the dry run, on a copy of the pipeline that shares the host context,
\* and the beginning of rust_continuations.
DryRun ==
    /\ At("prove")
    /\ artifact' = [artifact EXCEPT !["witness"] = None, !["proof"] = None]
    /\ arguments' = [arguments EXCEPT !.external = {}]
    /\ calls' = Append(calls, "fixed_cols")
    /\ host_context' = {[pil |-> artifact["optimized_pil"], fixed |-> None, values |-> {}]}
    /\ chunk' = 1
    /\ pc' = "driver"
    /\ UNCHANGED <<output, files, panicked, existing_pil, processes, crashes>>

AdvancePil ==
    /\ At("driver")
    /\ ThenCall("optimized_pil", "chunk")
    /\ UNCHANGED <<artifact, arguments, output, files, panicked, existing_pil, chunk, processes,
                   crashes>>

\* The content of a hard link to the file in Home, which is written in place.
Link == "link"

num_chunks == NumChunks[artifact["optimized_pil"]]

\* Faulty variant: witness and proof of the previous chunk are kept.
StartChunk_NoRollback ==
    /\ At("chunk") /\ chunk <= num_chunks
    /\ files[Home]["constants"] # None
    /\ files' = [files EXCEPT ![chunk]["constants"] = Link]
    /\ output' = [dir |-> chunk, force |-> output.force]
    /\ arguments' = [arguments EXCEPT
           !.external = chunk_inputs(artifact["optimized_pil"], chunk)]
    /\ ThenCall("witness", "witness")
    /\ UNCHANGED <<artifact, panicked, existing_pil, chunk, processes, crashes>>

\* The next chunk: constants.bin is linked into its directory, and the pipeline
\* is prepared for the callback.  compute_witness is its first call.
StartChunk ==
    /\ At("chunk") /\ chunk <= num_chunks
    /\ files[Home]["constants"] # None
    /\ files' = [files EXCEPT ![chunk]["constants"] = Link]
    /\ output' = [dir |-> chunk, force |-> output.force]
    /\ artifact' = [artifact EXCEPT !["witness"] = None, !["proof"] = None]
    /\ arguments' = [arguments EXCEPT
           !.external = chunk_inputs(artifact["optimized_pil"], chunk)]
    /\ calls' = Append(calls, "witness")
    /\ host_context' = {}
    /\ pc' = "witness"
    /\ UNCHANGED <<panicked, existing_pil, chunk, processes, crashes>>

\* asm_string().unwrap(); the unwrap of reading a file of fixed columns that is
\* not complete; hard_link(...).unwrap().
Unwrapped ==
    CASE pc = "built"   -> artifact["asm_string"] = None
      [] pc = "compare" -> /\ existing_pil = artifact["optimized_pil"]
                           /\ files[Home]["constants"] = Torn
      [] pc = "chunk"   -> chunk <= num_chunks /\ files[Home]["constants"] = None
      [] OTHER          -> FALSE

ProvePanics ==
    /\ calls = <<>> /\ ~panicked
    /\ Unwrapped
    /\ panicked' = TRUE
    /\ UNCHANGED <<artifact, arguments, output, host_context, files, calls, controlVars, processes,
                   crashes>>

ProveChunk ==
    /\ At("witness")
    /\ ThenCall("proof", "proof")
    /\ UNCHANGED <<artifact, arguments, output, files, panicked, existing_pil, chunk, processes,
                   crashes>>

\* Faulty variant: the loop stays at its chunk.
EndChunk_SameChunk ==
    /\ At("proof")
    /\ output' = [dir |-> Home, force |-> output.force]
    /\ pc' = "chunk"
    /\ UNCHANGED <<artifact, arguments, host_context, files, calls, panicked, existing_pil, chunk,
                   processes, crashes>>

EndChunk ==
    /\ At("proof")
    /\ output' = [dir |-> Home, force |-> output.force]
    /\ chunk' = chunk + 1
    /\ pc' = "chunk"
    /\ UNCHANGED <<artifact, arguments, host_context, files, calls, panicked, existing_pil,
                   processes, crashes>>

AllChunks ==
    /\ At("chunk") /\ chunk > num_chunks
    /\ pc' = "proved"
    /\ UNCHANGED <<pipelineVars, existing_pil, chunk, processes, crashes>>

\* The host may call prove again ...
Again ==
    /\ At("proved")
    /\ pc' = "built"
    /\ UNCHANGED <<pipelineVars, existing_pil, chunk, processes, crashes>>

\* ... or the process ends, of itself or because of a panic.
Exit ==
    /\ At("proved") \/ (panicked /\ calls = <<>>)
    /\ pc' = "down"
    /\ panicked' = FALSE
    /\ UNCHANGED <<artifact, arguments, output, host_context, files, calls, existing_pil, chunk,
                   processes, crashes>>

\* The process is interrupted, possibly while the running step writes its file.
Crash ==
    /\ pc # "down" /\ ~panicked
    /\ crashes < MaxCrashes
    /\ crashes' = crashes + 1
    /\ pc' = "down"
    /\ calls' = <<>>
    /\ \/ UNCHANGED files
       \/ \E s \in {calls[i] : i \in {Len(calls)} \ {0}} \cap DOMAIN file_of :
              /\ Ready(s)
              /\ files' = [files EXCEPT ![output.dir][file_of[s]] = Torn]
    /\ UNCHANGED <<artifact, arguments, output, host_context, panicked, existing_pil, chunk,
                   processes>>

Process ==
    \/ Step /\ UNCHANGED <<controlVars, processes, crashes>>
    \/ Run \/ Execute \/ ReadPil \/ PilChanged \/ ReadConstants
    \/ ReuseKeys \/ Generate \/ CreatePkey \/ CreateVkey \/ ExportVkey \/ DryRun \/ AdvancePil
    \/ StartChunk \/ ProvePanics \/ ProveChunk \/ EndChunk \/ AllChunks

\* All processes have ended.
Stopped == pc = "down" /\ processes = MaxProcesses /\ UNCHANGED sessionVars

SessionNext ==
    \/ \E s \in {"asm_string", "asm_file_path"}, p \in Program : Build(s, p)
    \/ Process
    \/ Again
    \/ Exit
    \/ Crash
    \/ Stopped

SessionSpec == SessionInit /\ [][SessionNext]_sessionVars

\* A process that is not interrupted goes on.
FairSessionSpec == SessionSpec /\ WF_sessionVars(Process)
-----------------------------------------------------------------------------
(* Properties.                                                             *)

Complete(content) == content \notin {None, Torn}

\* The chunks share one pipeline, and still the proof in the directory of a
\* chunk is that of the inputs of this chunk, made for the PIL of its witness,
\* whatever was interrupted and proved before.  When prove returns, there is
\* such a proof, and the witness and the fixed columns of it, for every chunk of
\* the program ("so that chunk dir will be self sufficient").
EveryChunkProved ==
    /\ \A i \in Dir \ {Home} : LET proof == files[i]["proof"] IN
           Complete(proof) =>
               /\ proof.witness.values = chunk_inputs(proof.witness.pil, i)
               /\ proof.backend.pil = proof.witness.pil
    /\ pc = "proved" =>
           \A i \in 1 .. num_chunks : LET proof == files[i]["proof"] IN
               /\ Complete(proof)
               /\ proof.witness = files[i]["commits"]
               /\ proof.witness.pil = artifact["optimized_pil"]
               /\ files[i]["constants"] = Link
               /\ proof.witness.fixed = files[Home]["constants"]

\* The backend has the fixed columns and the keys of the program it proves:
\* "Compiled PIL changed, invalidating artifacts..." (powdr/src/lib.rs:164).
SetupIsOfTheProgram ==
    artifact["backend"] # None =>
        /\ artifact["backend"].fixed = artifact["backend"].pil
        /\ artifact["backend"].pkey = None \/ artifact["backend"].pkey.pil = artifact["backend"].pil


\* Every panic of prove is due to a file that an earlier process did not
\* finish, to fixed columns of another program that such a process left, or to
\* a session made with asm_file whose program was not loaded before.
PanicsExplained ==
    panicked =>
        \/ \E f \in {"constants", "pkey", "vkey"} : files[Home][f] = Torn
        \/ artifact["fixed_cols"] # artifact["optimized_pil"]
        \/ artifact["asm_string"] = None

\* A call of prove ends: all chunks are proved, or the process is.
ProveReturns ==
    pc \notin {"down", "built", "executing", "proved"} ~> pc \in {"down", "proved"} \/ panicked
=============================================================================
