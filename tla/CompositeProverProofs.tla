----------------------- MODULE CompositeProverProofs -----------------------
(***************************************************************************)
(* Proofs about CompositeProver, for any set of machines, any number of    *)
(* stages and any sequence of calls: the joint challenges, the coroutines, *)
(* and the refinement of StagedProver.                                     *)
(***************************************************************************)
EXTENDS CompositeProver, SequenceTheorems, TLAPS

Own(m, s) == {<<id, m>> : id \in challenge_ids[m][s]}

\* Between the steps of main and of the threads, for each machine.
MachineInv(m) ==
    /\ Len(witness_by_machine[m]) = stage
    /\ Len(received[m]) <= stage /\ Len(received[m]) <= Len(challenge_ids[m])
    /\ \A s \in 1 .. Len(received[m]) :
           received[m][s] = witness_by_machine[m][s] /\ Own(m, s) \subseteq received[m][s]
    /\ thread[m] \in {"running", "challenging"} => phase = "stage" /\ current = m
    /\ thread[m] = "challenging" => Len(received[m]) < Len(challenge_ids[m])
    /\ thread[m] = "returned" =>
           /\ result[m] \in {"ok", "err"}
           /\ result[m] = "ok" => Len(received[m]) = Len(challenge_ids[m])
    /\ m = current =>
           /\ m \notin todo
           /\ proofs_status[m].kind = "None"
           /\ Len(received[m]) = stage
           /\ size[m] # 0
           /\ thread[m] \in {"running", "challenging", "returned", "panicked"}
    /\ m \in Waiting =>
           /\ m \notin todo
           /\ thread[m] \in {"awaiting", "cut off"}
           /\ size[m] # 0
           /\ Len(received[m]) = stage
           /\ stage < Len(challenge_ids[m])
           /\ proofs_status[m].challenges = Own(m, stage + 1)
    /\ m \in Done => m \notin todo /\ thread[m] = "returned" /\ size[m] # 0
    /\ m \in todo /\ stage > 0 =>
           /\ thread[m] \in {"awaiting", "cut off"}
           /\ Len(received[m]) = stage - 1
           /\ stage <= Len(challenge_ids[m])
           /\ Own(m, stage) \subseteq witness_by_machine[m][stage]
    /\ stage > 0 => size[m] # 0

\* The machines are in step.
InStep == \A m, n \in Machine : witness_by_machine[m] = witness_by_machine[n]

PhaseInv ==
    /\ phase = "idle" => current = 0 /\ todo = {} /\ outcome \in {"idle", "ok", "err"}
    /\ phase \in {"stage", "unwinding"} => outcome = "none"
    /\ phase = "panicked" => outcome = "panic"

\* The results of the machines are about the joint challenges.
ResultInv(m) ==
    m \in DOMAIN proof_results =>
        /\ size[m] # 0
        /\ Len(proof_results[m].proof) <= stage
        /\ \A s \in 1 .. Len(proof_results[m].proof) :
               proof_results[m].proof[s] = witness_by_machine[m][s]
        /\ proof_results[m].result = "ok" =>
               Len(proof_results[m].proof) = Len(challenge_ids[m])

\* No machine with rows is lost.
Kept(m) ==
    phase \in {"stage", "unwinding"} /\ size[m] # 0 =>
        \/ m \in todo \/ m = current \/ proofs_status[m].kind # "None"
        \/ m \in DOMAIN proof_results

Inv ==
    /\ CompositeTypeOK
    /\ PhaseInv
    /\ InStep
    /\ \A m \in Machine : MachineInv(m)
    /\ \A m \in Machine : ResultInv(m)
    /\ \A m \in Machine : Kept(m)
-----------------------------------------------------------------------------
\* The initial state satisfies the invariant.
LEMMA InitInv == CompositeInit => Inv
<1> SUFFICES ASSUME CompositeInit PROVE Inv
  OBVIOUS
<1> USE MachineAssumption, StagesAssumption, SizesAssumption DEF CompositeInit
<1>1. CompositeTypeOK
  BY DEF CompositeTypeOK, Challenges, NotRun
<1>2. PhaseInv
  BY DEF PhaseInv
<1>3. InStep
  BY DEF InStep
<1>4. ASSUME NEW m \in Machine PROVE MachineInv(m)
  BY DEF MachineInv, Waiting, Done, NotRun
<1>5. ASSUME NEW m \in Machine PROVE ResultInv(m)
  BY DEF ResultInv
<1>6. ASSUME NEW m \in Machine PROVE Kept(m)
  BY DEF Kept
<1> QED
  BY <1>1, <1>2, <1>3, <1>4, <1>5, <1>6 DEF Inv

\* The steps of the threads.
LEMMA ThreadInv ==
    ASSUME Inv, NEW k \in Machine, Thread(k)
    PROVE  Inv'
<1> USE MachineAssumption, StagesAssumption, SizesAssumption
<1>0. UNCHANGED mainVars /\ UNCHANGED received
  BY DEF Thread, Challenge, Return, Panic, CutOff
<1>1. CompositeTypeOK'
  <2>1. CompositeTypeOK
    BY DEF Inv
  <2>2. CASE Challenge(k)
    BY <2>1, <2>2, <1>0 DEF CompositeTypeOK, Challenge, mainVars
  <2>3. CASE Return(k)
    BY <2>1, <2>3, <1>0 DEF CompositeTypeOK, Return, mainVars
  <2>4. CASE Panic(k)
    BY <2>1, <2>4, <1>0 DEF CompositeTypeOK, Panic, mainVars
  <2>5. CASE CutOff(k)
    BY <2>1, <2>5, <1>0 DEF CompositeTypeOK, CutOff, mainVars
  <2> QED
    BY <2>2, <2>3, <2>4, <2>5 DEF Thread
<1>4. ASSUME NEW m \in Machine PROVE MachineInv(m)'
  <2>0. CompositeTypeOK /\ MachineInv(m)
    BY DEF Inv
  <2> USE <1>0, <2>0 DEF CompositeTypeOK, MachineInv, Waiting, Done, mainVars
  <2>1. CASE Challenge(k)
    BY <2>1 DEF Challenge
  <2>2. CASE Return(k)
    <3> HIDE <1>0, <2>0 DEF CompositeTypeOK, MachineInv, Waiting, Done, mainVars
    <3>0. /\ UNCHANGED mainVars /\ UNCHANGED received
          /\ thread \in [Machine -> {"absent", "running", "challenging", "awaiting", "returned",
                                     "panicked", "cut off"}]
          /\ result \in [Machine -> {"none", "ok", "err"}]
      BY <1>0, <2>0 DEF CompositeTypeOK
    <3>1. CASE k # m
      <4>1. thread'[m] = thread[m] /\ result'[m] = result[m]
        BY <2>2, <3>0, <3>1 DEF Return
      <4> QED
        BY <4>1, <3>0, <2>0 DEF MachineInv, Waiting, Done, mainVars
    <3>2. CASE k = m
      <4>1. /\ thread[m] = "running" /\ thread'[m] = "returned"
            /\ result'[m] \in {"ok", "err"}
            /\ result'[m] = "ok" => Len(received[m]) = Len(challenge_ids[m])
        BY <2>2, <3>0, <3>2 DEF Return
      <4>2. phase = "stage" /\ current = m
        BY <4>1, <2>0 DEF MachineInv
      <4> QED
        BY <4>1, <4>2, <3>0, <2>0 DEF MachineInv, Waiting, Done, mainVars
    <3> QED
      BY <3>1, <3>2
  <2>3. CASE Panic(k)
    BY <2>3 DEF Panic
  <2>4. CASE CutOff(k)
    BY <2>4 DEF CutOff
  <2> QED
    BY <2>1, <2>2, <2>3, <2>4 DEF Thread
<1>5. /\ PhaseInv' /\ InStep'
      /\ \A m \in Machine : ResultInv(m)'
      /\ \A m \in Machine : Kept(m)'
  BY <1>0 DEF Inv, PhaseInv, InStep, ResultInv, Kept, mainVars
<1> QED
  BY <1>1, <1>4, <1>5 DEF Inv

\* A new call of prove starts with fresh threads and channels.
LEMMA ProveInv ==
    ASSUME Inv, NEW w \in Witnesses, Prove(w)
    PROVE  Inv'
<1> USE MachineAssumption, StagesAssumption, SizesAssumption
<1>t. CompositeTypeOK
  BY DEF Inv
<1>p. PhaseInv
  BY DEF Inv
<1>s. InStep
  BY DEF Inv
<1>w. w \in [Machine -> Nat] /\ current = 0
  BY <1>p DEF PhaseInv, Prove
<1>b. calls \in 0 .. MaxCalls
  BY <1>t DEF CompositeTypeOK
<1>c. calls' \in 0 .. MaxCalls
  BY <1>b DEF Prove
<1>1. CompositeTypeOK'
  BY <1>c, <1>w DEF CompositeTypeOK, Prove, NotRun, Challenges
<1>2. PhaseInv'
  BY <1>p, <1>w DEF PhaseInv, Prove, NotRun
<1>3. InStep'
  BY <1>s, <1>w DEF InStep, Prove, NotRun
<1>4. ASSUME NEW m \in Machine PROVE MachineInv(m)'
  BY <1>w DEF MachineInv, Waiting, Done, Prove, NotRun
<1>5. ASSUME NEW m \in Machine PROVE ResultInv(m)'
  BY <1>w DEF ResultInv, Prove, NotRun
<1>6. ASSUME NEW m \in Machine PROVE Kept(m)'
  BY <1>w DEF Kept, Prove, NotRun
<1> QED
  BY <1>1, <1>2, <1>3, <1>4, <1>5, <1>6 DEF Inv

\* Removing a machine without rows.
LEMMA SkipInv ==
    ASSUME Inv, NEW k \in Machine, Skip(k)
    PROVE  Inv'
<1> USE MachineAssumption, StagesAssumption, SizesAssumption
<1>t. CompositeTypeOK
  BY DEF Inv
<1>p. PhaseInv
  BY DEF Inv
<1>s. InStep
  BY DEF Inv
<1>1. CompositeTypeOK'
  BY <1>t DEF CompositeTypeOK, Skip, Turn, threadVars
<1>2. PhaseInv'
  BY <1>p DEF PhaseInv, Skip, Turn, threadVars
<1>3. InStep'
  BY <1>s DEF InStep, Skip, Turn, threadVars
<1>4. ASSUME NEW m \in Machine PROVE MachineInv(m)'
  <2>0. MachineInv(m)
    BY DEF Inv
  <2> QED
    BY <1>t, <2>0 DEF CompositeTypeOK, MachineInv, Waiting, Done, Skip, Turn, threadVars
<1>5. ASSUME NEW m \in Machine PROVE ResultInv(m)'
  <2>0. ResultInv(m)
    BY DEF Inv
  <2> QED
    BY <1>t, <2>0 DEF CompositeTypeOK, ResultInv, Skip, Turn, threadVars
<1>6. ASSUME NEW m \in Machine PROVE Kept(m)'
  <2>0. Kept(m)
    BY DEF Inv
  <2> QED
    BY <1>t, <2>0 DEF CompositeTypeOK, Kept, Skip, Turn, threadVars
<1> QED
  BY <1>1, <1>2, <1>3, <1>4, <1>5, <1>6 DEF Inv

\* Main starts to unwind, for a panic of its own or of a thread it joined.
LEMMA UnwindingInv ==
    ASSUME Inv, NEW k \in Machine,
           Unsupported(k) \/ JoinPanicked(k) \/ NextStagePanics
    PROVE  Inv'
<1> USE MachineAssumption, StagesAssumption, SizesAssumption
<1>t. CompositeTypeOK
  BY DEF Inv
<1>p. PhaseInv
  BY DEF Inv
<1>s. InStep
  BY DEF Inv
<1>1. CompositeTypeOK'
  BY <1>t DEF CompositeTypeOK, Unsupported, JoinPanicked, NextStagePanics, StageRun, Turn, threadVars
<1>2. PhaseInv'
  BY <1>p DEF PhaseInv, Unsupported, JoinPanicked, NextStagePanics, StageRun, Turn, threadVars
<1>3. InStep'
  BY <1>s DEF InStep, Unsupported, JoinPanicked, NextStagePanics, StageRun, Turn, threadVars
<1>4. ASSUME NEW m \in Machine PROVE MachineInv(m)'
  <2>0. MachineInv(m)
    BY DEF Inv
  <2> QED
    BY <1>t, <2>0 DEF CompositeTypeOK, MachineInv, Waiting, Done, Unsupported, JoinPanicked, NextStagePanics, StageRun, Turn, threadVars
<1>5. ASSUME NEW m \in Machine PROVE ResultInv(m)'
  <2>0. ResultInv(m)
    BY DEF Inv
  <2> QED
    BY <1>t, <2>0 DEF CompositeTypeOK, ResultInv, Unsupported, JoinPanicked, NextStagePanics, StageRun, Turn, threadVars
<1>6. ASSUME NEW m \in Machine PROVE Kept(m)'
  <2>0. Kept(m)
    BY DEF Inv
  <2> QED
    BY <1>t, <2>0 DEF CompositeTypeOK, Kept, Unsupported, JoinPanicked, NextStagePanics, StageRun, Turn, threadVars
<1> QED
  BY <1>1, <1>2, <1>3, <1>4, <1>5, <1>6 DEF Inv

\* sub_prover::run starts the thread that main then waits for.
LEMMA RunInv ==
    ASSUME Inv, NEW k \in Machine, Run(k)
    PROVE  Inv'
<1> USE MachineAssumption, StagesAssumption, SizesAssumption
<1>t. CompositeTypeOK
  BY DEF Inv
<1>p. PhaseInv
  BY DEF Inv
<1>s. InStep
  BY DEF Inv
<1>1. CompositeTypeOK'
  BY <1>t DEF CompositeTypeOK, Run, Turn
<1>2. PhaseInv'
  BY <1>p DEF PhaseInv, Run, Turn
<1>3. InStep'
  BY <1>s DEF InStep, Run, Turn
<1>4. ASSUME NEW m \in Machine PROVE MachineInv(m)'
  <2>0. MachineInv(m)
    BY DEF Inv
  <2>1. CASE m # k
    BY <1>t, <2>0, <2>1 DEF CompositeTypeOK, MachineInv, Waiting, Done, Run, Turn
  <2>2. CASE m = k
    <3>1. /\ received'[m] = witness_by_machine[m] /\ thread'[m] = "running"
          /\ Len(witness_by_machine[m]) = 0
      BY <1>t, <2>0, <2>2 DEF CompositeTypeOK, MachineInv, Run
    <3>2. proofs_status[m].kind = "None" /\ size[m] # 0
      <4>1. m \in todo /\ size[m] \in supported[m]
        BY <2>2 DEF Run, Turn
      <4>2. m \notin Waiting /\ m \notin Done
        BY <4>1, <2>0 DEF MachineInv
      <4>3. proofs_status[m].kind \in {"None", "Challenged", "Completed"}
        BY <1>t DEF CompositeTypeOK
      <4> QED
        BY <4>1, <4>2, <4>3 DEF Waiting, Done
    <3>3. /\ phase' = "stage" /\ current' = m /\ stage' = 0 /\ m \notin todo'
          /\ witness_by_machine' = witness_by_machine
          /\ proofs_status' = proofs_status /\ size' = size
      BY <2>2 DEF Run, Turn
    <3>4. Len(challenge_ids[m]) \in Nat
      BY LenProperties
    <3> QED
      BY <3>1, <3>2, <3>3, <3>4 DEF MachineInv, Waiting, Done
  <2> QED
    BY <2>1, <2>2
<1>5. ASSUME NEW m \in Machine PROVE ResultInv(m)'
  <2>0. ResultInv(m)
    BY DEF Inv
  <2> QED
    BY <1>t, <2>0 DEF CompositeTypeOK, ResultInv, Run, Turn
<1>6. ASSUME NEW m \in Machine PROVE Kept(m)'
  <2>0. Kept(m)
    BY DEF Inv
  <2> QED
    BY <1>t, <2>0 DEF CompositeTypeOK, Kept, Run, Turn
<1> QED
  BY <1>1, <1>2, <1>3, <1>4, <1>5, <1>6 DEF Inv

\* SubProver::resume hands over the witness with the joint challenges.
LEMMA ResumeInv ==
    ASSUME Inv, NEW k \in Machine, Resume(k)
    PROVE  Inv'
<1> USE MachineAssumption, StagesAssumption, SizesAssumption
<1>t. CompositeTypeOK
  BY DEF Inv
<1>p. PhaseInv
  BY DEF Inv
<1>s. InStep
  BY DEF Inv
<1>1. CompositeTypeOK'
  BY <1>t DEF CompositeTypeOK, Resume, Turn
<1>2. PhaseInv'
  BY <1>p DEF PhaseInv, Resume, Turn
<1>3. InStep'
  BY <1>s DEF InStep, Resume, Turn
<1>4. ASSUME NEW m \in Machine PROVE MachineInv(m)'
  <2>0. MachineInv(m)
    BY DEF Inv
  <2>1. CASE m # k
    BY <1>t, <2>0, <2>1 DEF CompositeTypeOK, MachineInv, Waiting, Done, Resume, Turn
  <2>2. CASE m = k
    <3>1. /\ received'[m] = witness_by_machine[m] /\ thread'[m] = "running"
          /\ Len(witness_by_machine[m]) = stage /\ stage <= Len(challenge_ids[m])
          /\ \A s \in 1 .. Len(received[m]) : Own(m, s) \subseteq witness_by_machine[m][s]
          /\ Own(m, stage) \subseteq witness_by_machine[m][stage]
          /\ stage - 1 = Len(received[m]) /\ stage \in Nat
      BY <1>t, <2>0, <2>2 DEF CompositeTypeOK, MachineInv, Resume, Turn
    <3>2. \A s \in 1 .. stage : Own(m, s) \subseteq witness_by_machine[m][s]
      BY <3>1
    <3>3. proofs_status[m].kind = "None" /\ size[m] # 0
      <4>1. m \in todo /\ stage > 0
        BY <2>2 DEF Resume, Turn
      <4>2. m \notin Waiting /\ m \notin Done /\ size[m] # 0
        BY <4>1, <2>0 DEF MachineInv
      <4>3. proofs_status[m].kind \in {"None", "Challenged", "Completed"}
        BY <1>t DEF CompositeTypeOK
      <4> QED
        BY <4>2, <4>3 DEF Waiting, Done
    <3>4. /\ phase' = "stage" /\ current' = m /\ stage' = stage /\ m \notin todo'
          /\ witness_by_machine' = witness_by_machine
          /\ proofs_status' = proofs_status /\ size' = size
      BY <2>2 DEF Resume, Turn
    <3> QED
      BY <3>1, <3>2, <3>3, <3>4 DEF MachineInv, Waiting, Done
  <2> QED
    BY <2>1, <2>2
<1>5. ASSUME NEW m \in Machine PROVE ResultInv(m)'
  <2>0. ResultInv(m)
    BY DEF Inv
  <2> QED
    BY <1>t, <2>0 DEF CompositeTypeOK, ResultInv, Resume, Turn
<1>6. ASSUME NEW m \in Machine PROVE Kept(m)'
  <2>0. Kept(m)
    BY DEF Inv
  <2> QED
    BY <1>t, <2>0 DEF CompositeTypeOK, Kept, Resume, Turn
<1> QED
  BY <1>1, <1>2, <1>3, <1>4, <1>5, <1>6 DEF Inv

\* SubProver::wait takes the challenges of the machine that main waits for.
LEMMA ReceiveInv ==
    ASSUME Inv, NEW k \in Machine, Receive(k)
    PROVE  Inv'
<1> USE MachineAssumption, StagesAssumption, SizesAssumption
<1>t. CompositeTypeOK
  BY DEF Inv
<1>p. PhaseInv
  BY DEF Inv
<1>s. InStep
  BY DEF Inv
<1>k. MachineInv(k)
  BY DEF Inv
<1>c. /\ Len(received[k]) = stage /\ stage < Len(challenge_ids[k])
      /\ received[k] \in Seq(Challenges) /\ stage \in Nat
  BY <1>t, <1>k DEF CompositeTypeOK, MachineInv, Receive
<1>d. challenge_ids[k][stage + 1] \subseteq Nat
  <2>1. challenge_ids[k] \in Seq(SUBSET Nat) /\ stage + 1 \in 1 .. Len(challenge_ids[k])
    BY <1>c, LenProperties
  <2> QED
    BY <2>1, ElementOfSeq
<1>e. Own(k, stage + 1) \in Challenges
  BY <1>d DEF Own, Challenges
<1>f. proofs_status' = [proofs_status EXCEPT ![k] = [kind |-> "Challenged",
                                                     challenges |-> Own(k, stage + 1)]]
  BY <1>c DEF Receive, Challenged, ChallengesOf, Own
<1>h. DOMAIN thread = Machine /\ DOMAIN proofs_status = Machine
  BY <1>t DEF CompositeTypeOK
<1>g. proofs_status' \in
         [Machine -> [kind : {"None", "Challenged", "Completed"}, challenges : Challenges]]
  BY <1>t, <1>e, <1>f DEF CompositeTypeOK
<1>1. CompositeTypeOK'
  BY <1>t, <1>g DEF CompositeTypeOK, Receive
<1>2. PhaseInv'
  BY <1>p DEF PhaseInv, Receive, Challenged, ChallengesOf
<1>3. InStep'
  BY <1>s DEF InStep, Receive, Challenged, ChallengesOf
<1>4. ASSUME NEW m \in Machine PROVE MachineInv(m)'
  <2>0. MachineInv(m)
    BY DEF Inv
  <2>1. CASE m # k
    <3>1. proofs_status'[m] = proofs_status[m] /\ thread'[m] = thread[m]
      BY <1>h, <1>f, <2>1 DEF Receive
    <3>2. (m \in Waiting') = (m \in Waiting) /\ (m \in Done') = (m \in Done)
      BY <3>1 DEF Waiting, Done
    <3>3. thread[m] \notin {"running", "challenging"}
      BY <2>0, <2>1 DEF MachineInv, Receive
    <3> QED
      BY <3>1, <3>2, <3>3, <2>0 DEF MachineInv, Receive, Own
  <2>2. CASE m = k
    <3>1. /\ proofs_status'[m].kind = "Challenged"
          /\ proofs_status'[m].challenges = Own(m, stage + 1)
      BY <1>h, <1>f, <2>2
    <3>a. thread'[m] = "awaiting"
      BY <1>h, <2>2 DEF Receive
    <3>2. /\ m # 0 /\ current' = 0 /\ stage' = stage /\ todo' = todo /\ size' = size
          /\ received' = received /\ witness_by_machine' = witness_by_machine
          /\ current = m
      BY <2>2 DEF Receive
    <3> QED
      BY <1>c, <2>0, <2>2, <3>1, <3>a, <3>2 DEF MachineInv, Waiting, Done
  <2> QED
    BY <2>1, <2>2
<1>5. ASSUME NEW m \in Machine PROVE ResultInv(m)'
  <2>0. ResultInv(m)
    BY DEF Inv
  <2> QED
    BY <1>t, <2>0 DEF CompositeTypeOK, ResultInv, Receive, Challenged, ChallengesOf
<1>6. ASSUME NEW m \in Machine PROVE Kept(m)'
  <2>0. Kept(m)
    BY DEF Inv
  <2> QED
    BY <1>t, <2>0 DEF CompositeTypeOK, Kept, Receive, Challenged, ChallengesOf
<1> QED
  BY <1>1, <1>2, <1>3, <1>4, <1>5, <1>6 DEF Inv

\* SubProver::wait joins a thread that has returned.
LEMMA JoinInv ==
    ASSUME Inv, NEW k \in Machine, Join(k)
    PROVE  Inv'
<1> USE MachineAssumption, StagesAssumption, SizesAssumption
<1>t. CompositeTypeOK
  BY DEF Inv
<1>p. PhaseInv
  BY DEF Inv
<1>s. InStep
  BY DEF Inv
<1>1. CompositeTypeOK'
  BY <1>t DEF CompositeTypeOK, Join, Completed, threadVars, Challenges
<1>2. PhaseInv'
  BY <1>p DEF PhaseInv, Join, Completed, threadVars
<1>3. InStep'
  BY <1>s DEF InStep, Join, Completed, threadVars
<1>4. ASSUME NEW m \in Machine PROVE MachineInv(m)'
  <2>0. MachineInv(m)
    BY DEF Inv
  <2> QED
    BY <1>t, <2>0 DEF CompositeTypeOK, MachineInv, Waiting, Done, Join, Completed, threadVars
<1>5. ASSUME NEW m \in Machine PROVE ResultInv(m)'
  <2>0. ResultInv(m)
    BY DEF Inv
  <2> QED
    BY <1>t, <2>0 DEF CompositeTypeOK, ResultInv, Join, Completed, threadVars
<1>6. ASSUME NEW m \in Machine PROVE Kept(m)'
  <2>0. Kept(m)
    BY DEF Inv
  <2> QED
    BY <1>t, <2>0 DEF CompositeTypeOK, Kept, Join, Completed, threadVars
<1> QED
  BY <1>1, <1>2, <1>3, <1>4, <1>5, <1>6 DEF Inv

\* The results that main collects at the end of a stage.
LEMMA Collected ==
    ASSUME Inv, NEW m \in Machine, m \in DOMAIN CollectedResults
    PROVE  /\ CollectedResults[m] \in [result : {"ok", "err"}, proof : Seq(Challenges)]
           /\ size[m] # 0
           /\ Len(CollectedResults[m].proof) <= stage
           /\ \A s \in 1 .. Len(CollectedResults[m].proof) :
                  CollectedResults[m].proof[s] = witness_by_machine[m][s]
           /\ CollectedResults[m].result = "ok" =>
                  Len(CollectedResults[m].proof) = Len(challenge_ids[m])
<1>t. CompositeTypeOK
  BY DEF Inv
<1>m. MachineInv(m)
  BY DEF Inv
<1>r. ResultInv(m)
  BY DEF Inv
<1>1. CASE m \in Done
  <2>1. CollectedResults[m] = [result |-> result[m], proof |-> received[m]]
    BY <1>1 DEF CollectedResults
  <2>2. /\ result[m] \in {"ok", "err"} /\ received[m] \in Seq(Challenges)
        /\ size[m] # 0 /\ Len(received[m]) <= stage
        /\ \A s \in 1 .. Len(received[m]) : received[m][s] = witness_by_machine[m][s]
        /\ result[m] = "ok" => Len(received[m]) = Len(challenge_ids[m])
    BY <1>t, <1>m, <1>1 DEF CompositeTypeOK, MachineInv
  <2> QED
    BY <2>1, <2>2
<1>2. CASE m \notin Done
  <2>1. CollectedResults[m] = proof_results[m] /\ m \in DOMAIN proof_results
    BY <1>2 DEF CollectedResults
  <2>2. proof_results[m] \in [result : {"ok", "err"}, proof : Seq(Challenges)]
    BY <1>t, <2>1 DEF CompositeTypeOK
  <2> QED
    BY <1>r, <2>1, <2>2 DEF ResultInv
<1> QED
  BY <1>1, <1>2

\* Results are collected for machines only.
LEMMA CollectedDomain ==
    /\ DOMAIN CollectedResults = DOMAIN proof_results \cup Done
    /\ CompositeTypeOK => DOMAIN CollectedResults \subseteq Machine
BY DEF CollectedResults, CompositeTypeOK, Done

\* The loop over the stages ends.
LEMMA FinishInv ==
    ASSUME Inv, Finish
    PROVE  Inv'
<1> USE MachineAssumption, StagesAssumption, SizesAssumption
<1>t. CompositeTypeOK
  BY DEF Inv
<1>0. proof_results' = CollectedResults
  BY DEF Finish
<1>a. /\ calls' = calls /\ size' = size /\ stage' = stage /\ todo' = todo /\ current' = current
      /\ proofs_status' = proofs_status /\ witness_by_machine' = witness_by_machine
      /\ thread' = thread /\ received' = received /\ result' = result
      /\ phase' = "idle" /\ phase = "stage" /\ current = 0 /\ todo = {}
      /\ outcome' \in {"ok", "err"}
  BY DEF Finish, StageRun, threadVars
<1>b. /\ DOMAIN proof_results' \subseteq Machine
      /\ \A m \in DOMAIN proof_results' :
             proof_results'[m] \in [result : {"ok", "err"}, proof : Seq(Challenges)]
  BY <1>0, <1>t, Collected, CollectedDomain
<1>1. CompositeTypeOK'
  BY <1>t, <1>a, <1>b DEF CompositeTypeOK
<1>2. PhaseInv'
  BY <1>a DEF PhaseInv
<1>3. InStep'
  BY <1>a DEF Inv, InStep
<1>4. ASSUME NEW m \in Machine PROVE MachineInv(m)'
  <2>0. MachineInv(m)
    BY DEF Inv
  <2> QED
    BY <1>a, <2>0 DEF MachineInv, Waiting, Done
<1>5. ASSUME NEW m \in Machine PROVE ResultInv(m)'
  BY <1>0, <1>a, Collected DEF ResultInv
<1>6. ASSUME NEW m \in Machine PROVE Kept(m)'
  BY <1>a DEF Kept
<1> QED
  BY <1>1, <1>2, <1>3, <1>4, <1>5, <1>6 DEF Inv

\* The scope lets a panic pass.
LEMMA UnwoundInv ==
    ASSUME Inv, Unwound
    PROVE  Inv'
<1> USE MachineAssumption, StagesAssumption, SizesAssumption
<1>t. CompositeTypeOK
  BY DEF Inv
<1>p. PhaseInv
  BY DEF Inv
<1>s. InStep
  BY DEF Inv
<1>1. CompositeTypeOK'
  BY <1>t DEF CompositeTypeOK, Unwound, threadVars
<1>2. PhaseInv'
  BY <1>p DEF PhaseInv, Unwound, threadVars
<1>3. InStep'
  BY <1>s DEF InStep, Unwound, threadVars
<1>4. ASSUME NEW m \in Machine PROVE MachineInv(m)'
  <2>0. MachineInv(m)
    BY DEF Inv
  <2> QED
    BY <1>t, <2>0 DEF CompositeTypeOK, MachineInv, Waiting, Done, Unwound, threadVars
<1>5. ASSUME NEW m \in Machine PROVE ResultInv(m)'
  <2>0. ResultInv(m)
    BY DEF Inv
  <2> QED
    BY <1>t, <2>0 DEF CompositeTypeOK, ResultInv, Unwound, threadVars
<1>6. ASSUME NEW m \in Machine PROVE Kept(m)'
  <2>0. Kept(m)
    BY DEF Inv
  <2> QED
    BY <1>t, <2>0 DEF CompositeTypeOK, Kept, Unwound, threadVars
<1> QED
  BY <1>1, <1>2, <1>3, <1>4, <1>5, <1>6 DEF Inv

\* All machines get the same challenges for the next stage.
LEMMA NextStageInv ==
    ASSUME Inv, NextStage
    PROVE  Inv'
<1> USE MachineAssumption, StagesAssumption, SizesAssumption
<1>t. CompositeTypeOK
  BY DEF Inv
<1>0. proof_results' = CollectedResults
  BY DEF NextStage
<1>a. /\ calls' = calls /\ size' = size /\ stage' = stage + 1 /\ todo' = Waiting
      /\ current' = current
      /\ proofs_status' = [m \in Machine |-> NotRun]
      /\ thread' = thread /\ received' = received /\ result' = result /\ outcome' = outcome
      /\ phase' = "stage" /\ phase = "stage" /\ current = 0 /\ todo = {}
  BY DEF NextStage, StageRun, threadVars
<1>b. /\ DOMAIN proof_results' \subseteq Machine
      /\ \A m \in DOMAIN proof_results' :
             proof_results'[m] \in [result : {"ok", "err"}, proof : Seq(Challenges)]
  BY <1>0, <1>t, Collected, CollectedDomain
<1>c. accumulated_challenges \in Challenges
  <2>1. \A m \in Machine : proofs_status[m].challenges \in Challenges
    BY <1>t DEF CompositeTypeOK
  <2> QED
    BY <2>1 DEF accumulated_challenges, Waiting, Challenges
<1>d. ASSUME NEW m \in Machine
      PROVE  /\ witness_by_machine'[m] \in Seq(Challenges)
             /\ Len(witness_by_machine'[m]) = stage + 1
             /\ \A s \in 1 .. stage : witness_by_machine'[m][s] = witness_by_machine[m][s]
             /\ witness_by_machine'[m][stage + 1] = accumulated_challenges
  <2>1. witness_by_machine'[m] = Append(witness_by_machine[m], accumulated_challenges)
    BY DEF NextStage
  <2>2. witness_by_machine[m] \in Seq(Challenges) /\ Len(witness_by_machine[m]) = stage
    BY <1>t DEF Inv, CompositeTypeOK, MachineInv
  <2> QED
    BY <1>c, <2>1, <2>2, AppendProperties
<1>e. witness_by_machine' \in [Machine -> Seq(Challenges)]
  BY <1>d DEF NextStage
<1>f. proofs_status' \in
         [Machine -> [kind : {"None", "Challenged", "Completed"}, challenges : Challenges]]
  BY <1>a DEF NotRun, Challenges
<1>n. stage \in Nat
  BY <1>t DEF CompositeTypeOK
<1>g. todo' \in SUBSET Machine /\ stage' \in Nat
  BY <1>n, <1>a DEF Waiting
<1>1. CompositeTypeOK'
  BY <1>t, <1>a, <1>b, <1>e, <1>f, <1>g DEF CompositeTypeOK
<1>2. PhaseInv'
  BY <1>a DEF PhaseInv, Inv
<1>3. InStep'
  BY DEF Inv, InStep, NextStage
<1>4. ASSUME NEW m \in Machine PROVE MachineInv(m)'
  <2>0. MachineInv(m)
    BY DEF Inv
  <2>1. stage \in Nat /\ Len(received[m]) \in Nat
    BY <1>t, LenProperties DEF CompositeTypeOK
  <2>2. proofs_status'[m].kind = "None" /\ size[m] # 0 /\ m # 0
    BY <1>a DEF NotRun, NextStage
  <2>3. ~ (m \in Waiting)' /\ ~ (m \in Done)'
    BY <2>2 DEF Waiting, Done
  <2>4. m \in Waiting =>
            /\ thread[m] \in {"awaiting", "cut off"}
            /\ Len(received[m]) = stage
            /\ stage < Len(challenge_ids[m])
            /\ Own(m, stage + 1) \subseteq accumulated_challenges
    BY <2>0 DEF MachineInv, accumulated_challenges
  <2>5. Len(challenge_ids[m]) \in Nat
    BY LenProperties
  <2>7. Len(received[m]) <= stage /\ Len(received[m]) <= Len(challenge_ids[m])
    BY <2>0 DEF MachineInv
  <2>6. ASSUME NEW s \in 1 .. Len(received[m])
        PROVE  received[m][s] = witness_by_machine'[m][s] /\ Own(m, s) \subseteq received[m][s]
    <3>1. s \in 1 .. stage
      BY <2>1, <2>7
    <3> QED
      BY <1>d, <2>0, <3>1 DEF MachineInv
  <2>8. m \in todo' =>
            /\ thread[m] \in {"awaiting", "cut off"}
            /\ Len(received[m]) = (stage + 1) - 1
            /\ stage + 1 <= Len(challenge_ids[m])
            /\ Own(m, stage + 1) \subseteq witness_by_machine'[m][stage + 1]
    <3>1. witness_by_machine'[m][stage + 1] = accumulated_challenges
      BY <1>d
    <3>2. todo' = Waiting
      BY <1>a
    <3>3. Len(received[m]) = stage => Len(received[m]) = (stage + 1) - 1
      BY <2>1
    <3>4. stage < Len(challenge_ids[m]) => stage + 1 <= Len(challenge_ids[m])
      BY <2>1, <2>5
    <3> QED
      BY <2>4, <3>1, <3>2, <3>3, <3>4, Zenon
  <2>9. /\ thread[m] \in {"running", "challenging"} => phase = "stage" /\ current = m
        /\ thread[m] = "challenging" => Len(received[m]) < Len(challenge_ids[m])
        /\ thread[m] = "returned" =>
               /\ result[m] \in {"ok", "err"}
               /\ result[m] = "ok" => Len(received[m]) = Len(challenge_ids[m])
    BY <2>0 DEF MachineInv
  <2> QED
    <3>1. Len(witness_by_machine'[m]) = stage + 1
      BY <1>d
    <3>2. Len(received[m]) <= stage + 1 /\ stage + 1 > 0
      BY <2>1, <2>7
    <3>3. m # current' /\ phase' = phase /\ current' = current
      BY <1>a, <2>2
    <3>4. /\ stage' = stage + 1 /\ thread' = thread /\ received' = received
          /\ result' = result /\ size' = size
      BY <1>a
    <3> QED
      BY <2>2, <2>3, <2>6, <2>7, <2>8, <2>9, <3>1, <3>2, <3>3, <3>4, ZenonT(60) DEF MachineInv
<1>5. ASSUME NEW m \in Machine PROVE ResultInv(m)'
  <2>1. SUFFICES ASSUME m \in DOMAIN CollectedResults PROVE ResultInv(m)'
    BY <1>0 DEF ResultInv
  <2>2. stage \in Nat /\ Len(CollectedResults[m].proof) \in Nat
    BY <1>n, <2>1, Collected, LenProperties
  <2> DEFINE r == CollectedResults[m]
  <2>3. /\ size[m] # 0 /\ Len(r.proof) <= stage
        /\ \A s \in 1 .. Len(r.proof) : r.proof[s] = witness_by_machine[m][s]
        /\ r.result = "ok" => Len(r.proof) = Len(challenge_ids[m])
    BY <2>1, Collected
  <2>4. proof_results'[m] = r
    BY <1>0
  <2> HIDE DEF r
  <2>5. ASSUME NEW s \in 1 .. Len(r.proof) PROVE r.proof[s] = witness_by_machine'[m][s]
    <3>1. s \in 1 .. stage
      BY <2>2, <2>3 DEF r
    <3> QED
      BY <1>d, <2>3, <3>1
  <2> QED
    BY <1>a, <1>n, <2>2, <2>3, <2>4, <2>5 DEF ResultInv
<1>6. ASSUME NEW m \in Machine PROVE Kept(m)'
  <2>0. Kept(m)
    BY DEF Inv
  <2> QED
    BY <1>0, <1>a, <1>t, <2>0, CollectedDomain DEF Kept, CompositeTypeOK, Waiting, Done
<1> QED
  BY <1>1, <1>2, <1>3, <1>4, <1>5, <1>6 DEF Inv

\* Every step keeps the invariant.
LEMMA NextInv == Inv /\ [CompositeNext]_vars => Inv'
<1> SUFFICES ASSUME Inv, [CompositeNext]_vars PROVE Inv'
  OBVIOUS
<1>1. CASE \E w \in Witnesses : Prove(w)
  BY <1>1, ProveInv
<1>2. CASE Main
  <2>1. PICK k \in Machine : TRUE
    BY MachineAssumption
  <2> QED
    BY <1>2, <2>1, SkipInv, UnwindingInv, RunInv, ResumeInv, ReceiveInv, JoinInv, NextStageInv,
       FinishInv, UnwoundInv
    DEF Main
<1>3. CASE \E m \in Machine : Thread(m)
  BY <1>3, ThreadInv
<1>4. CASE UNCHANGED vars
  <2> USE <1>4 DEF vars, mainVars, threadVars
  <2>1. CompositeTypeOK' /\ PhaseInv' /\ InStep'
    BY DEF Inv, CompositeTypeOK, PhaseInv, InStep
  <2>2. ASSUME NEW m \in Machine PROVE MachineInv(m)' /\ ResultInv(m)' /\ Kept(m)'
    <3>1. MachineInv(m) /\ ResultInv(m) /\ Kept(m)
      BY DEF Inv
    <3>2. MachineInv(m)'
      BY <3>1 DEF MachineInv, Waiting, Done, Own
    <3>3. ResultInv(m)' /\ Kept(m)'
      BY <3>1 DEF ResultInv, Kept
    <3> QED
      BY <3>2, <3>3
  <2> QED
    BY <2>1, <2>2 DEF Inv
<1> QED
  BY <1>1, <1>2, <1>3, <1>4 DEF CompositeNext, Stopped

\* The invariant holds in all reachable states.
LEMMA Invariance == CompositeSpec => []Inv
BY InitInv, NextInv, PTL DEF CompositeSpec

\* The fields and locals of prove keep their types, for any machines.
THEOREM CompositeTyping == CompositeSpec => []CompositeTypeOK
<1>1. Inv => CompositeTypeOK
  BY DEF Inv
<1> QED
  BY <1>1, Invariance, PTL

\* No two sub-provers ever work with different challenges of the same stage,
\* whatever the machines and their stages are, and however their threads are
\* scheduled and fail (accumulate_challenges and the channels).
THEOREM ChallengesAgree == CompositeSpec => []SameChallenges
<1>1. Inv => SameChallenges
  <2> SUFFICES ASSUME Inv, NEW m \in Machine, NEW n \in Machine, NEW s \in 1 .. Len(received[m])
               PROVE  /\ s <= Len(received[n]) => received[m][s] = received[n][s]
                      /\ Own(m, s) \subseteq received[m][s]
    BY DEF SameChallenges, Own
  <2>1. MachineInv(m) /\ MachineInv(n)
    BY DEF Inv
  <2>2. witness_by_machine[m] = witness_by_machine[n]
    BY DEF Inv, InStep
  <2>3. received[m][s] = witness_by_machine[m][s] /\ Own(m, s) \subseteq received[m][s]
    BY <2>1 DEF MachineInv
  <2>4. ASSUME s <= Len(received[n]) PROVE received[n][s] = witness_by_machine[n][s]
    <3>1. s \in 1 .. Len(received[n])
      <4>1. received[n] \in Seq(Challenges)
        BY DEF Inv, CompositeTypeOK
      <4> QED
        BY <2>4, <4>1, LenProperties
    <3> QED
      BY <2>1, <3>1 DEF MachineInv
  <2> QED
    BY <2>2, <2>3, <2>4
<1> QED
  BY <1>1, Invariance, PTL

\* At most one sub-prover computes at a time, and main waits for it: the
\* threads of sub_prover.rs are coroutines.
THEOREM Coroutines == CompositeSpec => []OneRunsAtATime
<1>1. Inv => OneRunsAtATime
  BY DEF Inv, MachineInv, OneRunsAtATime
<1> QED
  BY <1>1, Invariance, PTL
-----------------------------------------------------------------------------
(* The refinement of the abstract prover.                                  *)

\* The initial state stands for the initial state of StagedProver.
LEMMA InitRefines == CompositeInit => Abstract!AbstractInit
BY MachineAssumption
DEF CompositeInit, Abstract!AbstractInit, Requested, Unfinished, Transcript, Proofs

\* The steps that only move main through a stage, and those of the threads.
LEMMA StageRefines ==
    ASSUME Inv, UNCHANGED <<size, witness_by_machine, proof_results, outcome>>,
           \A m \in Machine :
               (m \in todo \/ m = current \/ proofs_status[m].kind # "None") /\ size[m] # 0
               <=> (m \in todo' \/ m = current' \/ proofs_status'[m].kind # "None") /\ size[m] # 0
    PROVE  UNCHANGED Abstract!abstractVars
<1>1. UNCHANGED <<outcome, Requested, Transcript, Proofs>>
  BY DEF Requested, Transcript, Proofs
<1>2. UNCHANGED Unfinished
  BY DEF Unfinished, Requested
<1> QED
  BY <1>1, <1>2 DEF Abstract!abstractVars

\* A call of prove begins an abstract proof.
LEMMA ProveRefines ==
    ASSUME Inv, NEW w \in Witnesses, Prove(w)
    PROVE  \E machines \in SUBSET Machine : Abstract!Begin(machines)
<1>1. Requested' \in SUBSET Machine
  BY DEF Requested
<1>2. Abstract!Begin(Requested')
  <2>1. outcome \in {"idle", "ok", "err"} /\ outcome' = "none"
    BY DEF Prove, Inv, PhaseInv
  <2>2. Unfinished' = Requested'
    BY <2>1 DEF Prove, Unfinished, Requested
  <2>3. Transcript' = <<>>
    BY MachineAssumption DEF Prove, Transcript
  <2>4. Proofs' = <<>>
    BY <2>1 DEF Proofs
  <2> QED
    BY <2>1, <2>2, <2>3, <2>4 DEF Abstract!Begin
<1> QED
  BY <1>1, <1>2

\* A panic that leaves prove is an abstract failure.
LEMMA UnwoundRefines ==
    ASSUME Inv, Unwound
    PROVE  Abstract!Fail
<1>1. outcome = "none" /\ outcome' = "panic"
  BY DEF Unwound, Inv, PhaseInv
<1>2. Unfinished' = {}
  BY <1>1 DEF Unfinished
<1>3. UNCHANGED <<Requested, Transcript, Proofs>>
  BY <1>1 DEF Unwound, Requested, Transcript, Proofs
<1> QED
  BY <1>1, <1>2, <1>3 DEF Abstract!Fail

\* The end of a stage is an abstract round.
LEMMA NextStageRefines ==
    ASSUME Inv, NextStage
    PROVE  \E machines \in SUBSET Machine : Abstract!Round(machines)
<1> DEFINE first == CHOOSE m \in Machine : TRUE
<1>1. first \in Machine
  BY MachineAssumption
<1> HIDE DEF first
<1>2. outcome = "none" /\ outcome' = "none"
  BY DEF NextStage, StageRun, Inv, PhaseInv
<1>3. Transcript = witness_by_machine[first] /\ Transcript' = witness_by_machine'[first]
  BY DEF Transcript, first
<1>4. Len(Transcript) = stage
  <2>1. MachineInv(first)
    BY <1>1 DEF Inv
  <2> QED
    BY <1>3, <2>1 DEF MachineInv
<1>5. ASSUME NEW m \in Waiting
      PROVE  /\ m \in Unfinished
             /\ Abstract!Takes(m, stage + 1)
             /\ proofs_status[m].challenges = Abstract!Contribution(m, stage + 1)
  <2>1. m \in Machine /\ proofs_status[m].kind = "Challenged"
    BY DEF Waiting
  <2>2. MachineInv(m)
    BY <2>1 DEF Inv
  <2>3. size[m] # 0 /\ stage < Len(challenge_ids[m])
        /\ proofs_status[m].challenges = Own(m, stage + 1)
    BY <2>2 DEF MachineInv
  <2>4. m \in Unfinished
    BY <1>2, <2>1, <2>3 DEF Unfinished, Requested
  <2>5. stage + 1 <= Len(challenge_ids[m])
    <3>1. stage \in Nat /\ Len(challenge_ids[m]) \in Nat
      BY <2>1, StagesAssumption, LenProperties DEF Inv, CompositeTypeOK
    <3> QED
      BY <2>3, <3>1
  <2> QED
    BY <2>3, <2>4, <2>5 DEF Abstract!Takes, Abstract!Contribution, Own
<1>6. accumulated_challenges = Abstract!JointChallenges(Waiting, stage + 1)
  BY <1>5 DEF accumulated_challenges, Abstract!JointChallenges
<1>7. Transcript' = Append(Transcript, Abstract!JointChallenges(Waiting, stage + 1))
  BY <1>1, <1>3, <1>6 DEF NextStage
<1>8. Unfinished' = Waiting
  <2>1. current' = 0 /\ todo' = Waiting /\ size' = size
        /\ proofs_status' = [m \in Machine |-> NotRun]
    BY DEF NextStage, StageRun
  <2>2. Waiting \subseteq Requested
    BY <1>2, <1>5 DEF Unfinished
  <2>3. Requested' = Requested
    BY <2>1 DEF Requested
  <2> QED
    BY <1>2, <2>1, <2>2, <2>3, MachineAssumption DEF Unfinished, NotRun, Requested
<1>9. UNCHANGED <<outcome, Requested, Proofs>>
  BY <1>2 DEF NextStage, Requested, Proofs
<1>10. Waiting # {} /\ Waiting \in SUBSET Machine
  BY DEF NextStage, Waiting
<1>11. Abstract!Round(Waiting)
  BY <1>2, <1>4, <1>5, <1>7, <1>8, <1>9, <1>10 DEF Abstract!Round
<1> QED
  BY <1>10, <1>11

\* The end of the loop is an abstract success or failure.
LEMMA FinishRefines ==
    ASSUME Inv, Finish
    PROVE  Abstract!Succeed \/ Abstract!Fail
<1> DEFINE first == CHOOSE m \in Machine : TRUE
<1>1. first \in Machine
  BY MachineAssumption
<1> HIDE DEF first
<1>2. outcome = "none" /\ outcome' \in {"ok", "err"}
  BY DEF Finish, StageRun, Inv, PhaseInv
<1>3. Unfinished' = {}
  BY <1>2 DEF Unfinished
<1>4. UNCHANGED <<Requested, Transcript>>
  BY DEF Finish, Requested, Transcript
<1>5. CASE outcome' = "err"
  <2>1. UNCHANGED Proofs
    BY <1>2, <1>5 DEF Proofs
  <2> QED
    BY <1>2, <1>3, <1>4, <1>5, <2>1 DEF Abstract!Fail
<1>6. CASE outcome' = "ok"
  <2>1. Inv'
    BY FinishInv
  <2>2. DOMAIN proof_results' = Requested
    <3>1. DOMAIN proof_results' \subseteq Requested
      <4> SUFFICES ASSUME NEW m \in DOMAIN proof_results' PROVE m \in Requested
        OBVIOUS
      <4>1. m \in Machine
        BY <2>1 DEF Inv, CompositeTypeOK
      <4>2. ResultInv(m)'
        BY <2>1, <4>1 DEF Inv
      <4> QED
        BY <4>1, <4>2 DEF ResultInv, Requested, Finish
    <3>2. ASSUME NEW m \in Requested PROVE m \in DOMAIN proof_results'
      <4>1. m \in Machine /\ size[m] # 0
        BY DEF Requested
      <4>2. Kept(m)
        BY <4>1 DEF Inv
      <4>3. m \notin todo /\ m # current /\ m \notin Waiting /\ phase = "stage"
        BY <4>1, MachineAssumption DEF Finish, StageRun
      <4>4. proofs_status[m].kind # "None" => m \in Done
        BY <4>1, <4>3 DEF Inv, CompositeTypeOK, Waiting, Done
      <4>5. m \in DOMAIN proof_results \cup Done
        BY <4>1, <4>2, <4>3, <4>4 DEF Kept
      <4> QED
        BY <4>5 DEF Finish, CollectedResults
    <3> QED
      BY <3>1, <3>2
  <2>3. ASSUME NEW m \in Requested
        PROVE  /\ Len(challenge_ids[m]) <= Len(Transcript)
               /\ proof_results'[m].proof = Abstract!Upto(Transcript, Len(challenge_ids[m]))
    <3> DEFINE proof == proof_results'[m].proof
               w     == witness_by_machine[m]
               n     == Len(challenge_ids[m])
    <3>1. m \in Machine
      BY DEF Requested
    <3>2. proof_results'[m].result = "ok"
      BY <1>6, <2>2 DEF Finish
    <3>3. ResultInv(m)' /\ MachineInv(m)
      BY <2>1, <3>1 DEF Inv
    <3>4. /\ Len(proof) = n /\ n <= stage
          /\ \A s \in 1 .. n : proof[s] = w[s]
      BY <2>2, <3>2, <3>3 DEF ResultInv, Finish
    <3>5. Transcript = w
      BY <1>1, <3>1 DEF Inv, InStep, Transcript, first
    <3>6. Len(w) = stage
      BY <3>3 DEF MachineInv
    <3>7. proof \in Seq(Challenges) /\ w \in Seq(Challenges)
      BY <2>1, <2>2, <3>1 DEF Inv, CompositeTypeOK
    <3> HIDE DEF proof, w
    <3>8. n \in Nat /\ stage \in Nat
      BY <3>1, StagesAssumption, LenProperties DEF Inv, CompositeTypeOK
    <3> HIDE DEF n
    <3>9. proof = SubSeq(w, 1, n)
      BY <3>4, <3>6, <3>7, <3>8
    <3>10. n <= Len(Transcript) /\ proof = SubSeq(Transcript, 1, n)
      BY <3>4, <3>5, <3>6, <3>9
    <3> QED
      BY <3>10 DEF Abstract!Upto, proof, n
  <2>4. Proofs' = [m \in Requested |-> Abstract!Upto(Transcript, Len(challenge_ids[m]))]
    BY <1>6, <2>2, <2>3 DEF Proofs
  <2> QED
    BY <1>2, <1>3, <1>4, <1>6, <2>3, <2>4 DEF Abstract!Succeed
<1> QED
  BY <1>2, <1>5, <1>6

\* Every step is a step of StagedProver or leaves its state unchanged.
LEMMA StepRefines ==
    ASSUME Inv, [CompositeNext]_vars
    PROVE  [Abstract!AbstractNext]_(Abstract!abstractVars)
<1>1. CASE \E w \in Witnesses : Prove(w)
  BY <1>1, ProveRefines DEF Abstract!AbstractNext
<1>2. CASE NextStage
  BY <1>2, NextStageRefines DEF Abstract!AbstractNext
<1>3. CASE Finish
  BY <1>3, FinishRefines DEF Abstract!AbstractNext
<1>4. CASE Unwound
  BY <1>4, UnwoundRefines DEF Abstract!AbstractNext
<1>5. CASE NextStagePanics
  BY <1>5, StageRefines DEF NextStagePanics
<1>6. ASSUME NEW k \in Machine, Skip(k) \/ Unsupported(k) \/ Run(k) \/ Resume(k) \/ Receive(k)
                                \/ Join(k) \/ JoinPanicked(k)
      PROVE  UNCHANGED Abstract!abstractVars
  <2>0. /\ MachineInv(k)
        /\ proofs_status \in
             [Machine -> [kind : {"None", "Challenged", "Completed"}, challenges : Challenges]]
    BY DEF Inv, CompositeTypeOK
  <2>1. UNCHANGED <<size, witness_by_machine, proof_results, outcome>>
    BY <1>6 DEF Skip, Unsupported, Run, Resume, Receive, Join, JoinPanicked
  <2>2. CASE Skip(k)
    BY <2>1, <2>2, StageRefines DEF Skip, Turn
  <2>3. CASE Unsupported(k) \/ JoinPanicked(k)
    BY <2>1, <2>3, StageRefines DEF Unsupported, JoinPanicked
  <2>4. CASE Run(k) \/ Resume(k)
    BY <2>1, <2>4, StageRefines, MachineAssumption DEF Run, Resume, Turn
  <2>5. CASE Receive(k) \/ Join(k)
    BY <2>0, <2>1, <2>5, StageRefines, MachineAssumption DEF Receive, Join, Challenged, Completed
  <2> QED
    BY <1>6, <2>2, <2>3, <2>4, <2>5
<1>7. CASE \E m \in Machine : Thread(m)
  BY <1>7, StageRefines DEF Thread, Challenge, Return, Panic, CutOff, mainVars
<1>8. CASE UNCHANGED vars
  BY <1>8, StageRefines DEF vars, mainVars
<1> QED
  BY <1>1, <1>2, <1>3, <1>4, <1>5, <1>6, <1>7, <1>8 DEF CompositeNext, Main, Stopped

\* prove implements the abstract prover for any machines, stages and calls:
\* a proof is returned only when every machine with rows went through all of
\* its stages, and it is about the challenges that all of them share.
THEOREM CompositeRefines == CompositeSpec => ImplementsStagedProver
<1>1. Inv /\ [CompositeNext]_vars => [Abstract!AbstractNext]_(Abstract!abstractVars)
  BY StepRefines
<1> QED
  BY <1>1, InitRefines, Invariance, PTL
  DEF CompositeSpec, ImplementsStagedProver, Abstract!AbstractSpec
=============================================================================
