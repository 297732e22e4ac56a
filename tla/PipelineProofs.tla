--------------------------- MODULE PipelineProofs ---------------------------
(***************************************************************************)
(* The pipeline keeps its promises for any number of calls, programs,      *)
(* directories and columns, and for any call that fails.                   *)
(***************************************************************************)
EXTENDS PipelineClient, SequenceTheorems, TLAPS

Callable == Stage \cup {"set_witness"}

\* The store has a place for every artifact, and the stack holds functions.
PipelineTypes ==
    /\ DOMAIN artifact = Stage
    /\ arguments \in [external : SUBSET External, key_files : BOOLEAN]
    /\ calls \in Seq(Callable)

\* A backend is that of the PIL in the store, which stays as long as it does.
BackendIsOfPil ==
    artifact["backend"] # None =>
        artifact["optimized_pil"] # None /\ artifact["backend"].pil = artifact["optimized_pil"]

\* compute_witness is called by the client or by compute_proof, and only the
\* client calls compute_proof and set_witness: a call of compute_witness has no
\* other in it.
StackShape ==
    \A i \in DOMAIN calls :
        /\ calls[i] \in {"proof", "set_witness"} => i = 1
        /\ calls[i] = "witness" => i = 1 \/ (i = 2 /\ calls[1] = "proof")

\* From the call of compute_witness until the guest runs, nothing is written.
QuietUntilRun ==
    artifact["witness"] = None /\ (\E i \in DOMAIN calls : calls[i] = "witness") =>
        host_context = {}

-----------------------------------------------------------------------------
(* The stages and what they need.                                          *)

\* Compilation steps need sources and results of compilation steps, and none
\* needs the optimized PIL.
LEMMA CompilationNeeds ==
    ASSUME NEW s \in DOMAIN prev, NEW i \in DOMAIN needs(s)
    PROVE  /\ needs(s)[i] \in (Source \cup DOMAIN prev) \ {"optimized_pil"}
           /\ i = 1
  <1>1. CASE s = "analyzed_pil"
    <2>1. needs(s) = pil_source
      BY <1>1 DEF needs
    <2>2. pil_source \in {<<"parsed_pil_file">>, <<"pil_string">>, <<"pil_file_path">>, <<>>}
      BY DEF pil_source
    <2> QED BY <2>1, <2>2 DEF Source, prev
  <1>2. CASE s # "analyzed_pil"
    <2>0. s \notin {"fixed_cols", "witness", "backend", "proof", "set_witness"}
      BY DEF prev
    <2>1. needs(s) = <<prev[s]>>
      BY <2>0, <1>2 DEF needs
    <2>2. prev[s] \in (Source \cup DOMAIN prev) \ {"optimized_pil"}
      BY DEF prev, Source
    <2> QED BY <2>1, <2>2
  <1> QED BY <1>1, <1>2

\* compute_fixed_cols asks for the optimized PIL.
LEMMA FixedColsNeeds == needs("fixed_cols") = <<"optimized_pil">>
  BY DEF needs, prev

\* compute_witness and setup_backend ask for the PIL and the fixed columns.
LEMMA WitnessNeeds ==
    /\ needs("witness") = <<"optimized_pil", "fixed_cols">>
    /\ needs("backend") = <<"optimized_pil", "fixed_cols">>
  BY DEF needs, prev

\* compute_proof asks for the witness, the fixed columns and the backend.
LEMMA ProofNeeds == needs("proof") = <<"witness", "fixed_cols", "backend">>
  BY DEF needs, prev

\* What a call can call: never compute_proof, and compute_witness only from
\* compute_proof.
LEMMA Needed ==
    ASSUME NEW s \in Callable, NEW i \in DOMAIN needs(s)
    PROVE  /\ needs(s)[i] \in Stage \ {"proof"}
           /\ needs(s)[i] = "witness" => s = "proof"
  <1>1. CASE s \in DOMAIN prev
    <2>1. needs(s)[i] \in Source \cup DOMAIN prev
      BY <1>1, CompilationNeeds
    <2> QED BY <2>1 DEF Source, prev, Stage
  <1>2. CASE s \in {"fixed_cols", "witness", "backend", "proof"}
    BY <1>2, FixedColsNeeds, WitnessNeeds, ProofNeeds DEF Stage, Source
  <1>3. CASE s = "set_witness"
    <2>1. needs(s) \in {<<>>, <<"fixed_cols">>}
      BY <1>3 DEF needs, prev
    <2> QED BY <2>1, <1>3 DEF Stage
  <1>4. CASE s \in {"asm_file_path", "pil_file_path", "pil_string"}
    <2>1. needs(s) = <<>>
      BY <1>4 DEF needs, prev
    <2> QED BY <2>1
  <1> QED BY <1>1, <1>2, <1>3, <1>4 DEF Callable, Stage, Source, prev

\* Sources, the PIL, and everything after it stay in the store.
LEMMA Kept ==
    ASSUME NEW s \in Callable
    PROVE  /\ taken(s) \cap Source = {}
           /\ taken(s) \cap {"optimized_pil", "fixed_cols", "witness", "backend", "proof"} = {}
  <1>1. CASE s \in DOMAIN prev
    <2>1. \A i \in DOMAIN needs(s) :
              needs(s)[i] \in (Source \cup DOMAIN prev) \ {"optimized_pil"}
      BY <1>1, CompilationNeeds
    <2>2. taken(s) = {needs(s)[i] : i \in DOMAIN needs(s)} \ Source
      BY <1>1 DEF taken
    <2>3. taken(s) \subseteq DOMAIN prev \ (Source \cup {"optimized_pil"})
      BY <2>1, <2>2
    <2> QED BY <2>3 DEF prev
  <1>2. CASE s \notin DOMAIN prev
    BY <1>2 DEF taken
  <1> QED BY <1>1, <1>2
-----------------------------------------------------------------------------
(* The types.                                                              *)

\* The calls of a client keep the types.
LEMMA ClientTypes ==
    ClientInit => PipelineTypes
  <1> SUFFICES ASSUME ClientInit PROVE PipelineTypes
    OBVIOUS
  <1>1. DOMAIN artifact = Stage
    BY DEF ClientInit, new_artifacts
  <1>2. arguments \in [external : SUBSET External, key_files : BOOLEAN]
    BY DEF ClientInit, new_arguments
  <1>3. calls \in Seq(Callable)
    BY DEF ClientInit
  <1> QED BY <1>1, <1>2, <1>3 DEF PipelineTypes

\* A return leaves a shorter stack.
LEMMA ReturnsStack ==
    ASSUME calls \in Seq(Callable), calls # <<>>, Returns
    PROVE  /\ calls' \in Seq(Callable)
           /\ Len(calls') = Len(calls) - 1
           /\ \A i \in DOMAIN calls' : calls'[i] = calls[i] /\ i \in DOMAIN calls
  <1>1. Len(calls) \in Nat \ {0}
    OBVIOUS
  <1>2. calls' = SubSeq(calls, 1, Len(calls) - 1)
    BY DEF Returns
  <1>3. \A i \in 1 .. Len(calls) - 1 : calls[i] \in Callable
    OBVIOUS
  <1> DEFINE n == Len(calls) - 1
  <1>4. n \in Nat
    BY <1>1
  <1>5. /\ SubSeq(calls, 1, n) \in Seq(Callable)
        /\ Len(SubSeq(calls, 1, n)) = IF 1 <= n THEN n - 1 + 1 ELSE 0
        /\ \A i \in 1 .. n - 1 + 1 : SubSeq(calls, 1, n)[i] = calls[1 + i - 1]
    <2> HIDE DEF n
    <2>1. \A i \in 1 .. n : calls[i] \in Callable
      BY <1>3 DEF n
    <2> QED BY <1>4, <2>1, SubSeqProperties
  <1>6. calls' \in Seq(Callable) /\ Len(calls') = n
    <2>1. Len(SubSeq(calls, 1, n)) = n
      <3> HIDE DEF n
      <3> QED BY <1>4, <1>5
    <2>2. calls' = SubSeq(calls, 1, n)
      BY <1>2
    <2> HIDE DEF n
    <2> QED BY <2>1, <2>2, <1>5
  <1>7. \A i \in 1 .. n : calls'[i] = calls[i]
    BY <1>2, <1>4, <1>5
  <1> QED BY <1>1, <1>6, <1>7

\* A call puts one function on the stack.
LEMMA EnterStack ==
    ASSUME calls \in Seq(Callable), NEW s \in Callable, Enter(s)
    PROVE  /\ calls' \in Seq(Callable)
           /\ Len(calls') = Len(calls) + 1
           /\ calls'[Len(calls) + 1] = s
           /\ \A i \in DOMAIN calls : calls'[i] = calls[i]
  BY DEF Enter

\* Where a step of the computation runs, the stack is not empty.
LEMMA RunningStack ==
    ASSUME calls \in Seq(Callable), NEW s, Running(s)
    PROVE  /\ calls # <<>>
           /\ Len(calls) \in DOMAIN calls
           /\ calls[Len(calls)] = s
           /\ s \in Callable
  BY DEF Running

\* The actions of ClientNext, one by one.
LEMMA Cases ==
    ASSUME PipelineTypes, [ClientNext]_clientVars
    PROVE  \/ \E s \in Callable : Cached(s)
           \/ \E s \in Callable : Descend(s)
           \/ \E s \in Callable : Compile(s)
           \/ \E s \in Callable : StepPanics(s)
           \/ \E s \in Callable : StepFails(s)
           \/ NoSource \/ ComputeFixedCols \/ ComputeWitness \/ SetupBackend \/ ComputeProof
           \/ SetWitness
           \/ \E s \in Goal : Call(s)
           \/ \E s \in Origin, p \in Program : From(s, p)
           \/ \E s \in Origin, p \in Program : Default(s, p)
           \/ \E d \in Dir, force \in BOOLEAN : set_output(d, force)
           \/ \E v \in External : add_external_witness_values({v})
           \/ \E key_files \in BOOLEAN : with_backend(key_files)
           \/ \E d \in Dir : read_constants(d)
           \/ \E d \in Dir : read_witness(d)
           \/ set_key_files \/ export_keys \/ StartSetWitness \/ rollback_from_witness
           \/ UNCHANGED clientVars
  <1>1. CASE Step
    <2>1. CASE \E s \in {calls[i] : i \in {Len(calls)} \ {0}} :
                   Cached(s) \/ Descend(s) \/ Compile(s) \/ StepPanics(s)
      <3>1. {calls[i] : i \in {Len(calls)} \ {0}} \subseteq Callable
        BY DEF PipelineTypes
      <3> QED BY <3>1, <2>1
    <2> QED BY <1>1, <2>1 DEF Step
  <1>2. CASE \E s \in Stage \cup {"set_witness"} : StepFails(s)
    BY <1>2 DEF Callable
  <1>3. CASE Client
    BY <1>3 DEF Client
  <1> QED BY <1>1, <1>2, <1>3 DEF ClientNext

\* Every step keeps the types.
LEMMA NextTypes ==
    ASSUME PipelineTypes, [ClientNext]_clientVars
    PROVE  PipelineTypes'
  <1>0. calls \in Seq(Callable) /\ DOMAIN artifact = Stage
    BY DEF PipelineTypes
  <1>1. DOMAIN artifact' = Stage
    BY <1>0, Cases DEF Cached, Descend, Compile, StepPanics, StepFails, NoSource,
       ComputeFixedCols, ComputeWitness, SetupBackend, ComputeProof, SetWitness, Call, From,
       Default, set_output, add_external_witness_values, with_backend, read_constants,
       read_witness, set_key_files, export_keys, StartSetWitness, rollback_from_witness,
       clientVars, pipelineVars, after_take, new_artifacts
  <1>2. arguments' \in [external : SUBSET External, key_files : BOOLEAN]
    <2>1. arguments \in [external : SUBSET External, key_files : BOOLEAN]
      BY DEF PipelineTypes
    <2>2. CASE UNCHANGED arguments
      BY <2>1, <2>2
    <2>3. CASE arguments' = [arguments EXCEPT !.external = {}]
      BY <2>1, <2>3
    <2>4. CASE arguments' = new_arguments
      BY <2>4 DEF new_arguments
    <2>5. CASE \E v \in External : arguments' = [arguments EXCEPT !.external = @ \cup {v}]
      BY <2>1, <2>5
    <2>6. CASE \E b \in BOOLEAN : arguments' = [arguments EXCEPT !.key_files = b]
      BY <2>1, <2>6
    <2> QED
      BY <2>2, <2>3, <2>4, <2>5, <2>6, Cases DEF Cached, Descend, Compile, StepPanics, StepFails,
         NoSource, ComputeFixedCols, ComputeWitness, SetupBackend, ComputeProof, SetWitness, Call,
         From, Default, set_output, add_external_witness_values, with_backend, read_constants,
         read_witness, set_key_files, export_keys, StartSetWitness, rollback_from_witness,
         clientVars, pipelineVars
  <1>3. calls' \in Seq(Callable)
    <2>1. CASE UNCHANGED calls
      BY <2>1, <1>0
    <2>2. CASE calls' = <<>>
      BY <2>2
    <2>3. CASE calls # <<>> /\ Returns
      BY <2>3, <1>0, ReturnsStack
    <2>4. CASE \E s \in Callable : Enter(s)
      BY <2>4, <1>0, EnterStack
    <2> QED
      <3>1. \A s : Descend(s) => \E t \in Callable : Enter(t)
        BY <1>0, RunningStack, Needed DEF Descend, Callable
      <3>2. Goal \subseteq Callable /\ "set_witness" \in Callable
        BY ClientAssumption DEF Callable
      <3>3. \A s : Ready(s) => calls # <<>>
        BY DEF Ready, Running
      <3> QED
        BY <2>1, <2>2, <2>3, <2>4, <3>1, <3>2, <3>3, Cases DEF Cached, Running, Compile,
           StepPanics, StepFails, Fails, NoSource, ComputeFixedCols, ComputeWitness,
           SetupBackend, ComputeProof, SetWitness, Call, From, Default, set_output,
           add_external_witness_values, with_backend, read_constants, read_witness,
           set_key_files, export_keys, StartSetWitness, rollback_from_witness, clientVars,
           pipelineVars
  <1> QED BY <1>1, <1>2, <1>3 DEF PipelineTypes
-----------------------------------------------------------------------------
(* What the steps do to the store.                                         *)

Compiled(s) ==
    /\ artifact[s] = None
    /\ 1 \in DOMAIN needs(s) /\ artifact[needs(s)[1]] # None
    /\ artifact' = [after_take(s) EXCEPT ![s] = artifact[needs(s)[1]]]

\* All that a step can do to the store of artifacts.
LEMMA StoreEffects ==
    ASSUME PipelineTypes, [ClientNext]_clientVars
    PROVE  \/ UNCHANGED artifact
           \/ \E s \in Callable : artifact' = after_take(s)
           \/ \E s \in DOMAIN prev : Compiled(s)
           \/ \E s \in Callable : \E c : artifact' = [after_take(s) EXCEPT !["fixed_cols"] = c]
           \/ \E c : artifact' = [artifact EXCEPT !["fixed_cols"] = c]
           \/ \E w : artifact' = [artifact EXCEPT !["witness"] = w, !["proof"] = None]
           \/ SetupBackend
           \/ artifact' = [artifact EXCEPT !["backend"] = None]
           \/ ComputeProof
           \/ \E s \in Origin, p \in Program : artifact' = [new_artifacts EXCEPT ![s] = p]
  <1>1. ASSUME NEW s \in Callable, Compile(s)
        PROVE  s \in DOMAIN prev /\ Compiled(s)
    <2>1. s \in DOMAIN prev /\ s \in Stage
      BY <1>1 DEF Compile, prev, Stage, Source
    <2>2. needs(s) # <<>> /\ \A i \in DOMAIN needs(s) : artifact[needs(s)[i]] # None
      BY <1>1 DEF Compile, Ready
    <2>3. needs(s) = <<prev[s]>> \/ needs(s) = pil_source
      <3>1. s \notin {"fixed_cols", "witness", "backend", "proof", "set_witness"}
        BY <2>1 DEF prev
      <3> QED BY <3>1, <2>1 DEF needs
    <2>4. 1 \in DOMAIN needs(s)
      BY <2>2, <2>3 DEF pil_source
    <2>5. artifact[s] = None
      BY <1>1, <2>1 DEF Compile, Ready
    <2> QED BY <1>1, <2>1, <2>2, <2>4, <2>5 DEF Compile, Compiled
  <1>2. "fixed_cols" \in Callable
    BY DEF Callable, Stage
  <1> QED
    BY <1>1, <1>2, Cases DEF Cached, Descend, StepPanics, StepFails, NoSource,
       ComputeFixedCols, ComputeWitness, SetWitness, Call, From,
       Default, set_output, add_external_witness_values, with_backend, read_constants,
       read_witness, set_key_files, export_keys, StartSetWitness, rollback_from_witness,
       clientVars, pipelineVars

Lasting == Source \cup {"optimized_pil", "fixed_cols", "witness", "backend", "proof"}

\* What a compilation step takes is none of the artifacts that stay.
LEMMA AfterTake ==
    ASSUME PipelineTypes, NEW s \in Callable
    PROVE  /\ DOMAIN after_take(s) = Stage
           /\ \A t \in Lasting : after_take(s)[t] = artifact[t]
           /\ \A t \in Stage : after_take(s)[t] \in {None, artifact[t]}
  <1>1. Lasting \subseteq Stage
    BY DEF Lasting, Stage
  <1>2. Lasting \cap taken(s) = {}
    BY Kept DEF Lasting
  <1> QED BY <1>1, <1>2 DEF after_take

\* A compilation step leaves the later artifacts, apart from the PIL.
LEMMA CompiledKeeps ==
    ASSUME PipelineTypes, NEW s \in DOMAIN prev, Compiled(s)
    PROVE  /\ \A t \in {"witness", "backend", "proof"} : artifact'[t] = artifact[t]
           /\ artifact["optimized_pil"] # None =>
                  artifact'["optimized_pil"] = artifact["optimized_pil"]
  <1>1. s \in Callable /\ s \in Stage /\ s \notin {"witness", "backend", "proof"}
    BY DEF prev, Callable, Stage, Source
  <1>2. {"witness", "backend", "proof", "optimized_pil"} \subseteq Lasting \cap Stage
    BY DEF Lasting, Stage
  <1>3. \A t \in {"witness", "backend", "proof", "optimized_pil"} \ {s} :
            artifact'[t] = artifact[t]
    BY <1>1, <1>2, AfterTake DEF Compiled
  <1>4. s = "optimized_pil" => artifact["optimized_pil"] = None
    BY DEF Compiled
  <1> QED BY <1>1, <1>3, <1>4

\* The parts of the store that the proof depends on.
LEMMA NextBackend ==
    ASSUME PipelineTypes, BackendIsOfPil, [ClientNext]_clientVars
    PROVE  BackendIsOfPil'
  <1>0. DOMAIN artifact = Stage /\ {"optimized_pil", "fixed_cols", "witness", "backend", "proof"} \subseteq Stage
    BY DEF PipelineTypes, Stage
  <1>1. CASE UNCHANGED artifact
    BY <1>1 DEF BackendIsOfPil
  <1>2. CASE \E s \in Callable : artifact' = after_take(s)
    BY <1>2, AfterTake DEF BackendIsOfPil, Lasting
  <1>3. CASE \E s \in DOMAIN prev : Compiled(s)
    BY <1>3, CompiledKeeps DEF BackendIsOfPil
  <1>4. CASE \E s \in Callable : \E c : artifact' = [after_take(s) EXCEPT !["fixed_cols"] = c]
    BY <1>0, <1>4, AfterTake DEF BackendIsOfPil, Lasting
  <1>5. CASE \E c : artifact' = [artifact EXCEPT !["fixed_cols"] = c]
    BY <1>0, <1>5 DEF BackendIsOfPil
  <1>6. CASE \E w : artifact' = [artifact EXCEPT !["witness"] = w, !["proof"] = None]
    BY <1>0, <1>6 DEF BackendIsOfPil
  <1>7. CASE SetupBackend
    <2>1. artifact["optimized_pil"] # None
      BY <1>7, WitnessNeeds DEF SetupBackend, Ready
    <2> QED BY <1>0, <1>7, <2>1 DEF SetupBackend, BackendIsOfPil
  <1>8. CASE artifact' = [artifact EXCEPT !["backend"] = None]
    BY <1>0, <1>8 DEF BackendIsOfPil
  <1>9. CASE ComputeProof
    BY <1>0, <1>9 DEF ComputeProof, BackendIsOfPil
  <1>10. CASE \E s \in Origin, p \in Program : artifact' = [new_artifacts EXCEPT ![s] = p]
    <2>1. \A s \in Origin : s # "backend"
      BY ClientAssumption DEF Source
    <2> QED BY <1>0, <1>10, <2>1 DEF new_artifacts, BackendIsOfPil
  <1> QED
    BY <1>1, <1>2, <1>3, <1>4, <1>5, <1>6, <1>7, <1>8, <1>9, <1>10, StoreEffects

\* Every step keeps proof and witness together.
LEMMA NextProof ==
    ASSUME PipelineTypes, BackendIsOfPil, ProofIsOfWitness, [ClientNext]_clientVars
    PROVE  ProofIsOfWitness'
  <1>0. DOMAIN artifact = Stage /\ {"optimized_pil", "fixed_cols", "witness", "backend", "proof"} \subseteq Stage
    BY DEF PipelineTypes, Stage
  <1>1. CASE UNCHANGED artifact
    BY <1>1 DEF ProofIsOfWitness
  <1>2. CASE \E s \in Callable : artifact' = after_take(s)
    BY <1>2, AfterTake DEF ProofIsOfWitness, Lasting
  <1>3. CASE \E s \in DOMAIN prev : Compiled(s)
    BY <1>3, CompiledKeeps DEF ProofIsOfWitness
  <1>4. CASE \E s \in Callable : \E c : artifact' = [after_take(s) EXCEPT !["fixed_cols"] = c]
    BY <1>0, <1>4, AfterTake DEF ProofIsOfWitness, Lasting
  <1>5. CASE \E c : artifact' = [artifact EXCEPT !["fixed_cols"] = c]
    BY <1>0, <1>5 DEF ProofIsOfWitness
  <1>6. CASE \E w : artifact' = [artifact EXCEPT !["witness"] = w, !["proof"] = None]
    BY <1>0, <1>6 DEF ProofIsOfWitness
  <1>7. CASE SetupBackend
    BY <1>0, <1>7 DEF SetupBackend, ProofIsOfWitness
  <1>8. CASE artifact' = [artifact EXCEPT !["backend"] = None]
    BY <1>0, <1>8 DEF ProofIsOfWitness
  <1>9. CASE ComputeProof
    <2>1. artifact["witness"] # None /\ artifact["backend"] # None
      BY <1>9, ProofNeeds DEF ComputeProof, Ready
    <2>2. /\ artifact'["proof"].witness = artifact["witness"]
          /\ artifact'["proof"].backend = artifact["backend"]
          /\ artifact'["witness"] = artifact["witness"]
          /\ artifact'["optimized_pil"] = artifact["optimized_pil"]
      BY <1>0, <1>9 DEF ComputeProof, computed_proof
    <2> QED BY <2>1, <2>2 DEF BackendIsOfPil, ProofIsOfWitness
  <1>10. CASE \E s \in Origin, p \in Program : artifact' = [new_artifacts EXCEPT ![s] = p]
    <2>1. \A s \in Origin : s # "proof"
      BY ClientAssumption DEF Source
    <2> QED BY <1>0, <1>10, <2>1 DEF new_artifacts, ProofIsOfWitness
  <1> QED
    BY <1>1, <1>2, <1>3, <1>4, <1>5, <1>6, <1>7, <1>8, <1>9, <1>10, StoreEffects

\* A compilation step makes its result from what is left of the one source.
LEMMA NextSource ==
    ASSUME PipelineTypes, SourceIsKept, [ClientNext]_clientVars
    PROVE  SourceIsKept'
  <1> DEFINE Roots == Source \cup {"optimized_pil"}
             Compilation == Source \cup DOMAIN prev
  <1>0. /\ DOMAIN artifact = Stage
        /\ Compilation \subseteq Stage
        /\ Roots \subseteq Compilation /\ Roots \subseteq Lasting
        /\ Compilation \cap {"fixed_cols", "witness", "backend", "proof"} = {}
        /\ DOMAIN prev \subseteq Callable
    BY DEF PipelineTypes, Stage, Source, prev, Lasting, Callable
  <1>1. PICK p \in Program : /\ \E s \in Roots : artifact[s] = p
                             /\ \A s \in Compilation : artifact[s] \in {None, p}
    BY DEF SourceIsKept
  <1>2. PICK r \in Roots : artifact[r] = p
    BY <1>1
  <1> HIDE DEF Roots, Compilation
  <1>3. ASSUME artifact'[r] = p, \A s \in Compilation : artifact'[s] \in {None, p}
        PROVE  SourceIsKept'
    BY <1>2, <1>3 DEF SourceIsKept, Roots, Compilation
  <1>4. CASE UNCHANGED artifact
    BY <1>1, <1>2, <1>3, <1>4
  <1>5. CASE \E s \in Callable : artifact' = after_take(s)
    BY <1>0, <1>1, <1>2, <1>3, <1>5, AfterTake
  <1>6. CASE \E s \in DOMAIN prev : Compiled(s)
    <2>1. PICK s \in DOMAIN prev : Compiled(s)
      BY <1>6
    <2>2. needs(s)[1] \in Compilation
      BY <2>1, CompilationNeeds DEF Compiled, Compilation
    <2>3. artifact[needs(s)[1]] = p
      BY <1>1, <2>1, <2>2 DEF Compiled
    <2>4. s \in Compilation /\ s \in Stage
      BY <1>0 DEF Compilation
    <2>5. artifact'[s] = p
      BY <1>0, <2>1, <2>3, <2>4, AfterTake DEF Compiled
    <2>6. \A t \in Stage \ {s} : artifact'[t] = after_take(s)[t]
      BY <1>0, <2>1, AfterTake DEF Compiled
    <2>7. artifact'[r] = p
      BY <1>0, <1>2, <2>5, <2>6, AfterTake
    <2>8. \A t \in Compilation : artifact'[t] \in {None, p}
      BY <1>0, <1>1, <2>5, <2>6, AfterTake
    <2> QED BY <1>3, <2>7, <2>8
  <1>7. CASE \E s \in Callable : \E c : artifact' = [after_take(s) EXCEPT !["fixed_cols"] = c]
    <2>1. PICK s \in Callable : \A t \in Compilation : artifact'[t] = after_take(s)[t]
      BY <1>0, <1>7, AfterTake
    <2> QED BY <1>0, <1>1, <1>2, <1>3, <2>1, AfterTake
  <1>8. CASE \A t \in Compilation : artifact'[t] = artifact[t]
    BY <1>0, <1>1, <1>2, <1>3, <1>8
  <1>9. CASE \E s \in Origin, q \in Program : artifact' = [new_artifacts EXCEPT ![s] = q]
    <2>1. PICK s \in Origin, q \in Program : artifact' = [new_artifacts EXCEPT ![s] = q]
      BY <1>9
    <2>2. s \in Roots /\ s \in Stage
      BY <1>0, ClientAssumption DEF Roots
    <2>3. artifact'[s] = q /\ \A t \in Stage : artifact'[t] \in {None, q}
      BY <2>1, <2>2 DEF new_artifacts
    <2> QED BY <1>0, <2>2, <2>3 DEF SourceIsKept, Roots, Compilation
  <1>10. CASE \/ \E c : artifact' = [artifact EXCEPT !["fixed_cols"] = c]
              \/ \E w : artifact' = [artifact EXCEPT !["witness"] = w, !["proof"] = None]
              \/ SetupBackend
              \/ artifact' = [artifact EXCEPT !["backend"] = None]
              \/ ComputeProof
    BY <1>0, <1>8, <1>10 DEF SetupBackend, ComputeProof
  <1> QED
    BY <1>4, <1>5, <1>6, <1>7, <1>9, <1>10, StoreEffects

-----------------------------------------------------------------------------
(* The stack and the host context.                                         *)

\* Every step keeps the shape of the stack of calls.
LEMMA NextStack ==
    ASSUME PipelineTypes, StackShape, [ClientNext]_clientVars
    PROVE  StackShape'
  <1>0. calls \in Seq(Callable)
    BY DEF PipelineTypes
  <1>1. CASE UNCHANGED calls
    BY <1>1 DEF StackShape
  <1>2. CASE calls' = <<>>
    BY <1>2 DEF StackShape
  <1>3. CASE calls # <<>> /\ Returns
    <2>1. \A i \in DOMAIN calls' : calls'[i] = calls[i] /\ i \in DOMAIN calls
      BY <1>0, <1>3, ReturnsStack
    <2>2. calls' \in Seq(Callable)
      BY <1>0, <1>3, ReturnsStack
    <2>3. \A i \in DOMAIN calls' : i = 2 => 1 \in DOMAIN calls'
      BY <2>2
    <2> QED BY <2>1, <2>3 DEF StackShape
  <1>4. CASE \E s \in Callable : Descend(s)
    <2>1. PICK s \in Callable : Descend(s)
      BY <1>4
    <2>2. PICK i \in DOMAIN needs(s) : Enter(needs(s)[i])
      BY <2>1 DEF Descend
    <2>3. needs(s)[i] \in Callable
      BY <2>2, Needed DEF Callable
    <2>4. calls # <<>> /\ Len(calls) \in DOMAIN calls /\ calls[Len(calls)] = s
      BY <1>0, <2>1, RunningStack DEF Descend
    <2>5. /\ calls' \in Seq(Callable)
          /\ Len(calls') = Len(calls) + 1
          /\ calls'[Len(calls) + 1] = needs(s)[i]
          /\ \A j \in DOMAIN calls : calls'[j] = calls[j]
      BY <1>0, <2>2, <2>3, EnterStack
    <2>6. needs(s)[i] \notin {"proof", "set_witness"} /\ (needs(s)[i] = "witness" => s = "proof")
      BY Needed DEF Stage, Source
    <2>7. needs(s)[i] = "witness" => Len(calls) = 1 /\ calls[1] = "proof"
      BY <2>4, <2>6 DEF StackShape
    <2>8. 1 \in DOMAIN calls /\ calls'[1] = calls[1]
      BY <1>0, <2>4, <2>5
    <2> SUFFICES ASSUME NEW j \in DOMAIN calls'
                 PROVE  /\ calls'[j] \in {"proof", "set_witness"} => j = 1
                        /\ calls'[j] = "witness" => j = 1 \/ (j = 2 /\ calls'[1] = "proof")
      BY DEF StackShape
    <2>9. CASE j \in DOMAIN calls
      BY <2>5, <2>8, <2>9 DEF StackShape
    <2>10. CASE j = Len(calls) + 1
      BY <1>0, <2>5, <2>6, <2>7, <2>8, <2>10
    <2> QED BY <1>0, <2>5, <2>9, <2>10
  <1>5. CASE calls = <<>> /\ \E s \in Callable : Enter(s)
    <2>1. calls' \in Seq(Callable) /\ Len(calls') = 1
      BY <1>0, <1>5, EnterStack
    <2> QED BY <2>1 DEF StackShape
  <1> QED
    <2>1. Goal \subseteq Callable /\ "set_witness" \in Callable
      BY ClientAssumption DEF Callable
    <2>2. \A s : Ready(s) => calls # <<>>
      BY DEF Ready, Running
    <2> QED
      BY <1>1, <1>2, <1>3, <1>4, <1>5, <2>1, <2>2, Cases DEF Cached, Running, Compile,
         StepPanics, StepFails, Fails, NoSource, ComputeFixedCols, ComputeWitness,
         SetupBackend, ComputeProof, SetWitness, Call, From, Default, set_output,
         add_external_witness_values, with_backend, read_constants, read_witness,
         set_key_files, export_keys, StartSetWitness, rollback_from_witness, Idle, clientVars,
         pipelineVars

\* Neither a witness that is computed nor one that is set returns into a
\* computation of a witness.
LEMMA WitnessReturns ==
    ASSUME PipelineTypes, StackShape, NEW s \in {"witness", "set_witness"}, Running(s), Returns
    PROVE  \A i \in DOMAIN calls' : calls'[i] # "witness"
  <1>0. calls \in Seq(Callable)
    BY DEF PipelineTypes
  <1>1. calls # <<>> /\ Len(calls) \in DOMAIN calls /\ calls[Len(calls)] = s
    BY <1>0, RunningStack
  <1>2. /\ calls' \in Seq(Callable)
        /\ Len(calls') = Len(calls) - 1
        /\ \A i \in DOMAIN calls' : calls'[i] = calls[i] /\ i \in DOMAIN calls
    BY <1>0, <1>1, ReturnsStack
  <1>3. CASE Len(calls) = 1
    BY <1>2, <1>3
  <1>4. CASE Len(calls) # 1
    <2>1. Len(calls) = 2 /\ calls[1] = "proof"
      BY <1>1, <1>4 DEF StackShape
    <2>2. DOMAIN calls' = {1}
      BY <1>2, <2>1
    <2> QED BY <1>2, <2>1, <2>2
  <1> QED BY <1>3, <1>4

\* Before compute_witness has run, the host context stays empty.
LEMMA NextQuiet ==
    ASSUME PipelineTypes, StackShape, QuietUntilRun, [ClientNext]_clientVars
    PROVE  QuietUntilRun'
  <1>0. /\ calls \in Seq(Callable)
        /\ DOMAIN artifact = Stage
        /\ {"optimized_pil", "fixed_cols", "witness", "backend", "proof"} \subseteq Stage
    BY DEF PipelineTypes, Stage
  <1>1. CASE calls' = <<>>
    BY <1>1 DEF QuietUntilRun
  <1>2. CASE UNCHANGED <<calls, host_context>> /\ artifact'["witness"] = artifact["witness"]
    BY <1>2 DEF QuietUntilRun
  <1>3. CASE /\ calls # <<>> /\ Returns
             /\ UNCHANGED host_context /\ artifact'["witness"] = artifact["witness"]
    BY <1>0, <1>3, ReturnsStack DEF QuietUntilRun
  <1>4. CASE UNCHANGED artifact /\ \E s \in Callable : Enter(s)
    <2>1. PICK s \in Callable : Enter(s)
      BY <1>4
    <2>2. /\ calls' \in Seq(Callable) /\ Len(calls') = Len(calls) + 1
          /\ calls'[Len(calls) + 1] = s
          /\ \A j \in DOMAIN calls : calls'[j] = calls[j]
      BY <1>0, <2>1, EnterStack
    <2>3. \A j \in DOMAIN calls' : j \in DOMAIN calls \/ j = Len(calls) + 1
      BY <1>0, <2>2
    <2>4. host_context' = IF s = "witness" /\ artifact[s] = None THEN {} ELSE host_context
      BY <2>1 DEF Enter
    <2> QED BY <1>4, <2>2, <2>3, <2>4 DEF QuietUntilRun
  <1>5. CASE ComputeWitness \/ SetWitness
    <2>1. \A i \in DOMAIN calls' : calls'[i] # "witness"
      BY <1>5, WitnessReturns DEF ComputeWitness, SetWitness, Ready
    <2> QED BY <2>1 DEF QuietUntilRun
  <1>6. CASE \E s \in Callable : Compile(s)
    <2>1. PICK s \in Callable : Compile(s)
      BY <1>6
    <2>2. s \in Stage /\ s # "witness"
      BY <2>1 DEF Compile, prev, Stage, Source
    <2>3. artifact'["witness"] = artifact["witness"]
      BY <1>0, <2>1, <2>2, AfterTake DEF Compile, Lasting
    <2> QED BY <1>3, <2>1, <2>3 DEF Compile, Ready, Running
  <1>7. CASE ComputeFixedCols
    <2>1. artifact'["witness"] = artifact["witness"]
      BY <1>0, <1>7, AfterTake DEF ComputeFixedCols, Lasting, Callable
    <2> QED BY <1>3, <1>7, <2>1 DEF ComputeFixedCols, Ready, Running
  <1>8. CASE SetupBackend \/ ComputeProof
    <2>1. artifact'["witness"] = artifact["witness"]
      BY <1>0, <1>8 DEF SetupBackend, ComputeProof
    <2> QED BY <1>3, <1>8, <2>1 DEF SetupBackend, ComputeProof, Ready, Running
  <1>9. CASE \E s \in Callable : Cached(s)
    BY <1>3, <1>9 DEF Cached, Running
  <1>10. CASE \E s \in Callable : Descend(s)
    <2>1. PICK s \in Callable : Descend(s)
      BY <1>10
    <2>2. \E t \in Callable : Enter(t)
      BY <2>1, Needed DEF Descend, Callable
    <2> QED BY <1>4, <2>1, <2>2 DEF Descend
  <1>11. CASE (\E s \in Goal : Call(s)) \/ StartSetWitness
    BY <1>4, <1>11, ClientAssumption DEF Call, StartSetWitness, Callable
  <1>12. CASE \E s \in Origin, p \in Program : Default(s, p)
    BY <1>12 DEF Default, QuietUntilRun
  <1>13. CASE UNCHANGED clientVars
    BY <1>2, <1>13 DEF clientVars, pipelineVars
  <1> QED
    BY <1>1, <1>5, <1>6, <1>7, <1>8, <1>9, <1>10, <1>11, <1>12, <1>13, Cases DEF StepPanics,
       StepFails, Fails, NoSource, From, set_output, add_external_witness_values, with_backend,
       read_constants, read_witness, set_key_files, export_keys, rollback_from_witness, Idle

\* Every step keeps the output of the guest that of one run.
LEMMA NextHost ==
    ASSUME PipelineTypes, QuietUntilRun, HostReadsOneRun, [ClientNext]_clientVars
    PROVE  HostReadsOneRun'
  <1>0. calls \in Seq(Callable)
    BY DEF PipelineTypes
  <1>1. Ready("witness") => host_context = {}
    BY <1>0, RunningStack DEF Ready, QuietUntilRun, Stage
  <1>2. CASE host_context' \in {host_context, {}}
    BY <1>2 DEF HostReadsOneRun
  <1>3. CASE Ready("witness") /\ host_context' = host_context \cup {computed_witness}
    BY <1>1, <1>3 DEF HostReadsOneRun
  <1> QED
    BY <1>2, <1>3, Cases DEF Cached, Descend, Enter, Compile, StepPanics, StepFails, NoSource,
       ComputeFixedCols, ComputeWitness, SetupBackend, ComputeProof, SetWitness, Call, From,
       Default, set_output, add_external_witness_values, with_backend, read_constants,
       read_witness, set_key_files, export_keys, StartSetWitness, rollback_from_witness,
       clientVars, pipelineVars
-----------------------------------------------------------------------------
(* The theorems.                                                           *)

PipelineInv ==
    /\ PipelineTypes
    /\ BackendIsOfPil
    /\ ProofIsOfWitness
    /\ SourceIsKept
    /\ StackShape
    /\ QuietUntilRun
    /\ HostReadsOneRun

\* The initial states satisfy the invariant.
LEMMA InitInv == ClientInit => PipelineInv
  <1> SUFFICES ASSUME ClientInit PROVE PipelineInv
    OBVIOUS
  <1>1. PICK s \in Origin, p \in Program : artifact = [new_artifacts EXCEPT ![s] = p]
    BY DEF ClientInit
  <1>2. s \in Source \cup {"optimized_pil"} /\ s \in Stage
    BY ClientAssumption DEF Stage
  <1>3. artifact[s] = p /\ \A t \in Stage \ {s} : artifact[t] = None
    BY <1>1, <1>2 DEF new_artifacts
  <1>4. PipelineTypes
    BY ClientTypes
  <1>5. artifact["backend"] = None /\ artifact["proof"] = None
    BY <1>2, <1>3 DEF Source, Stage
  <1>6. BackendIsOfPil /\ ProofIsOfWitness
    BY <1>5 DEF BackendIsOfPil, ProofIsOfWitness
  <1>7. SourceIsKept
    <2>1. Source \cup DOMAIN prev \subseteq Stage
      BY DEF Source, prev, Stage
    <2> QED BY <1>2, <1>3, <2>1 DEF SourceIsKept
  <1>8. StackShape
    BY DEF ClientInit, StackShape
  <1>9. QuietUntilRun /\ HostReadsOneRun
    BY DEF ClientInit, QuietUntilRun, HostReadsOneRun
  <1> QED BY <1>4, <1>6, <1>7, <1>8, <1>9 DEF PipelineInv

\* Every step keeps the invariant.
LEMMA NextInv ==
    ASSUME PipelineInv, [ClientNext]_clientVars
    PROVE  PipelineInv'
  <1>1. /\ PipelineTypes /\ BackendIsOfPil /\ ProofIsOfWitness /\ SourceIsKept
        /\ StackShape /\ QuietUntilRun /\ HostReadsOneRun
    BY DEF PipelineInv
  <1>2. PipelineTypes'
    BY <1>1, NextTypes
  <1>3. BackendIsOfPil'
    BY <1>1, NextBackend
  <1>4. ProofIsOfWitness'
    BY <1>1, NextProof
  <1>5. SourceIsKept'
    BY <1>1, NextSource
  <1>6. StackShape'
    BY <1>1, NextStack
  <1>7. QuietUntilRun'
    BY <1>1, NextQuiet
  <1>8. HostReadsOneRun'
    BY <1>1, NextHost
  <1> QED BY <1>2, <1>3, <1>4, <1>5, <1>6, <1>7, <1>8 DEF PipelineInv

\* The invariant holds in all reachable states.
LEMMA Invariance == ClientSpec => []PipelineInv
  BY InitInv, NextInv, PTL DEF ClientSpec

\* A cached proof is one of the cached witness, by a backend for the cached PIL
\* (compute_witness, read_witness, set_witness, rollback_from_witness and
\* compute_proof), for any client.
THEOREM ProofMatches == ClientSpec => []ProofIsOfWitness
  <1>1. PipelineInv => ProofIsOfWitness
    BY DEF PipelineInv
  <1> QED BY <1>1, Invariance, PTL

\* The source is never lost in the store, whatever fails (the take()s of the
\* functions compute_...).
THEOREM SourceStays == ClientSpec => []SourceIsKept
  <1>1. PipelineInv => SourceIsKept
    BY DEF PipelineInv
  <1> QED BY <1>1, Invariance, PTL

\* The host context holds what the guest wrote in one run (host_context.clear()
\* in compute_witness).
THEOREM OneRun == ClientSpec => []HostReadsOneRun
  <1>1. PipelineInv => HostReadsOneRun
    BY DEF PipelineInv
  <1> QED BY <1>1, Invariance, PTL

\* External values are in the witness when they are no longer in the arguments
\* (std::mem::take in compute_witness).
THEOREM ExternalValuesUsed == ClientSpec => ExternalValuesReachTheWitness
  <1> DEFINE A == \A v \in arguments.external :
                      \/ v \in arguments'.external
                      \/ artifact'["witness"] = None
                      \/ v \in artifact'["witness"].values
  <1>1. ASSUME PipelineInv, [ClientNext]_clientVars PROVE [A]_pipelineVars
    <2>0. /\ PipelineTypes
          /\ DOMAIN artifact = Stage
          /\ {"witness", "proof"} \subseteq Stage
          /\ arguments \in [external : SUBSET External, key_files : BOOLEAN]
      BY <1>1 DEF PipelineInv, PipelineTypes, Stage
    <2>1. CASE arguments.external \subseteq arguments'.external
      BY <2>1
    <2>2. CASE artifact'["witness"] = None
      BY <2>2
    <2>3. CASE ComputeWitness
      <3>1. artifact'["witness"] = computed_witness
        BY <2>0, <2>3 DEF ComputeWitness
      <3> QED BY <3>1 DEF computed_witness
    <2>4. CASE \E s \in Callable : StepFails(s)
      <3>1. PICK s \in Callable : StepFails(s)
        BY <2>4
      <3>2. CASE s = "witness"
        <4>1. artifact["witness"] = None
          BY <2>0, <3>1, <3>2 DEF StepFails, Ready
        <4>2. artifact'["witness"] = artifact["witness"]
          BY <2>0, <3>1, AfterTake DEF StepFails, Lasting
        <4> QED BY <2>2, <4>1, <4>2
      <3>3. CASE s # "witness"
        BY <2>1, <3>1, <3>3 DEF StepFails
      <3> QED BY <3>2, <3>3
    <2>5. CASE \E s \in Origin, p \in Program : Default(s, p)
      <3>1. \A s \in Origin : s # "witness"
        BY ClientAssumption DEF Source
      <3> QED BY <2>0, <2>2, <2>5, <3>1 DEF Default, new_artifacts
    <2>6. CASE rollback_from_witness
      BY <2>0, <2>2, <2>6 DEF rollback_from_witness
    <2>7. CASE \E v \in External : add_external_witness_values({v})
      BY <2>0, <2>1, <2>7 DEF add_external_witness_values
    <2>8. CASE (\E b \in BOOLEAN : with_backend(b)) \/ set_key_files
      BY <2>0, <2>1, <2>8 DEF with_backend, set_key_files
    <2>9. CASE UNCHANGED arguments
      BY <2>1, <2>9
    <2> HIDE DEF A
    <2> QED
      BY <1>1, <2>0, <2>3, <2>4, <2>5, <2>6, <2>7, <2>8, <2>9, Cases DEF Cached, Descend,
         Compile, StepPanics, NoSource, ComputeFixedCols, SetupBackend, ComputeProof, SetWitness,
         Call, From, set_output, read_constants, read_witness, export_keys, StartSetWitness,
         clientVars, pipelineVars
  <1> QED BY <1>1, Invariance, PTL DEF ClientSpec, ExternalValuesReachTheWitness
=============================================================================
