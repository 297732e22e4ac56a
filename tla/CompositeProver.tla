-------------------------- MODULE CompositeProver --------------------------
(***************************************************************************)
(* CompositeBackend::prove (backend/src/composite/mod.rs) and the threads  *)
(* it runs its sub-provers in (backend/src/composite/sub_prover.rs).       *)
(*                                                                         *)
(* The calling thread ("main") starts one thread per machine.  A sub-prover*)
(* runs until it calls back for the witness of its next stage, which sends *)
(* its challenges over a rendezvous channel and then blocks on a second one*)
(* for the answer, or until its backend returns, which drops its end of the*)
(* channel.  Main runs them one after the other up to that point, adds up  *)
(* the challenges of those that wait, computes the next witness of every   *)
(* machine with the sum, and resumes those that wait.                      *)
(*                                                                         *)
(* A backend (external) draws the challenges challenge_ids[m][s] at the end*)
(* of its stage s - 1.  It may return an error at any point and, for the   *)
(* machines in MayPanic, it may panic.                                     *)
(***************************************************************************)
EXTENDS Naturals, Sequences

CONSTANTS
    Machine,       \* positive numbers, in the order of the machines' names
    challenge_ids, \* challenge_ids[m][s]: set of ids, see above
    supported,     \* supported[m]: the sizes machine m has a backend for
    Witnesses,     \* the sizes of the machines in the witnesses to be proved
    MayPanic,
    MaxCalls       \* bound on the calls of prove

ASSUME MachineAssumption == Machine \subseteq Nat \ {0} /\ Machine # {}
ASSUME StagesAssumption ==
    \A m \in Machine : challenge_ids[m] \in Seq(SUBSET Nat)
ASSUME SizesAssumption ==
    /\ \A m \in Machine : 0 \notin supported[m]
    /\ Witnesses \subseteq [Machine -> Nat]
    /\ MaxCalls \in Nat

VARIABLES
    calls,              \* calls of prove so far
    phase,              \* of main: "idle", "stage", "unwinding", "panicked"
    size,               \* size[m]: rows of machine m in the witness
    stage,
    todo,               \* machines still to be run or resumed in this stage
    current,            \* the machine whose sub-prover main waits for, or 0
    proofs_status,      \* what became of the machines run in this stage
    witness_by_machine, \* the challenges the witness was computed with, stage
                        \* by stage
    proof_results,      \* results of the machines that completed
    outcome,            \* what prove returned
    thread,             \* state of the sub-prover's thread
    received,           \* the witness the sub-prover works with
    result              \* what the backend returned

mainVars == <<calls, phase, size, stage, todo, current, proofs_status, witness_by_machine,
              proof_results, outcome>>
threadVars == <<thread, received, result>>
vars == <<mainVars, threadVars>>

\* As in the abstract specification, a map from ids to field elements is a set
\* of pairs of an id and an addend at this id.
ChallengesOf(m) == {<<id, m>> : id \in challenge_ids[m][Len(received[m]) + 1]}

NotRun == [kind |-> "None", challenges |-> {}]
Challenged(c) == [kind |-> "Challenged", challenges |-> c]
Completed == [kind |-> "Completed", challenges |-> {}]

Waiting == {m \in Machine : proofs_status[m].kind = "Challenged"}
Done == {m \in Machine : proofs_status[m].kind = "Completed"}

CompositeInit ==
    /\ calls = 0
    /\ phase = "idle"
    /\ size = [m \in Machine |-> 0]
    /\ stage = 0
    /\ todo = {}
    /\ current = 0
    /\ proofs_status = [m \in Machine |-> NotRun]
    /\ witness_by_machine = [m \in Machine |-> <<>>]
    /\ proof_results = <<>>
    /\ outcome = "idle"
    /\ thread = [m \in Machine |-> "absent"]
    /\ received = [m \in Machine |-> <<>>]
    /\ result = [m \in Machine |-> "none"]
-----------------------------------------------------------------------------
(* The threads of the sub-provers.                                         *)

\* The backend calls the callback: the challenges are offered to main.
Challenge(m) ==
    /\ thread[m] = "running"
    /\ Len(received[m]) < Len(challenge_ids[m])
    /\ thread' = [thread EXCEPT ![m] = "challenging"]
    /\ UNCHANGED <<mainVars, received, result>>

\* The backend returns a proof, after its last stage, or an error.  The
\* callback is dropped, and the channel with it.
Return(m) ==
    /\ thread[m] = "running"
    /\ thread' = [thread EXCEPT ![m] = "returned"]
    /\ \/ /\ Len(received[m]) = Len(challenge_ids[m])
          /\ result' = [result EXCEPT ![m] = "ok"]
       \/ result' = [result EXCEPT ![m] = "err"]
    /\ UNCHANGED <<mainVars, received>>

Panic(m) ==
    /\ m \in MayPanic
    /\ thread[m] = "running"
    /\ thread' = [thread EXCEPT ![m] = "panicked"]
    /\ UNCHANGED <<mainVars, received, result>>

\* Faulty variant: the SubProver is still alive while the scope joins.
CutOff_KeptAlive(m) ==
    /\ phase = "panicked"
    /\ thread[m] = "awaiting"
    /\ thread' = [thread EXCEPT ![m] = "cut off"]
    /\ UNCHANGED <<mainVars, received, result>>

\* Main has dropped the SubProver: recv() fails and its unwrap() panics.
CutOff(m) ==
    /\ phase = "unwinding"
    /\ thread[m] = "awaiting"
    /\ thread' = [thread EXCEPT ![m] = "cut off"]
    /\ UNCHANGED <<mainVars, received, result>>
-----------------------------------------------------------------------------
(* Main.                                                                   *)

Prove(w) ==
    /\ phase = "idle"
    /\ calls < MaxCalls
    /\ calls' = calls + 1
    /\ phase' = "stage"
    /\ size' = w
    /\ stage' = 0
    /\ todo' = Machine
    /\ proofs_status' = [m \in Machine |-> NotRun]
    /\ witness_by_machine' = [m \in Machine |-> <<>>]
    /\ proof_results' = <<>>
    /\ outcome' = "none"
    /\ thread' = [m \in Machine |-> "absent"]
    /\ received' = [m \in Machine |-> <<>>]
    /\ result' = [m \in Machine |-> "none"]
    /\ UNCHANGED current

\* Main turns to the next machine of the stage, in the order of the BTreeMap.
Turn(m) ==
    /\ phase = "stage"
    /\ current = 0
    /\ m \in todo
    /\ \A n \in todo : m <= n

\* A machine without rows is removed.
Skip(m) ==
    /\ Turn(m)
    /\ stage = 0
    /\ size[m] = 0
    /\ todo' = todo \ {m}
    /\ UNCHANGED <<calls, phase, size, stage, current, proofs_status, witness_by_machine,
                   proof_results, outcome, threadVars>>

\* expect("Machine does not support the given size")
Unsupported(m) ==
    /\ Turn(m)
    /\ stage = 0
    /\ size[m] # 0 /\ size[m] \notin supported[m]
    /\ phase' = "unwinding"
    /\ UNCHANGED <<calls, size, stage, todo, current, proofs_status, witness_by_machine,
                   proof_results, outcome, threadVars>>

\* Faulty variant: the thread is spawned and not waited for.
Run_NoWait(m) ==
    /\ Turn(m)
    /\ stage = 0
    /\ size[m] \in supported[m]
    /\ todo' = todo \ {m}
    /\ thread' = [thread EXCEPT ![m] = "running"]
    /\ received' = [received EXCEPT ![m] = witness_by_machine[m]]
    /\ UNCHANGED <<calls, phase, size, stage, current, proofs_status, witness_by_machine,
                   proof_results, outcome, result>>

\* sub_prover::run, up to the wait for the thread.
Run(m) ==
    /\ Turn(m)
    /\ stage = 0
    /\ size[m] \in supported[m]
    /\ todo' = todo \ {m}
    /\ current' = m
    /\ thread' = [thread EXCEPT ![m] = "running"]
    /\ received' = [received EXCEPT ![m] = witness_by_machine[m]]
    /\ UNCHANGED <<calls, phase, size, stage, proofs_status, witness_by_machine,
                   proof_results, outcome, result>>

\* SubProver::resume, up to the wait for the thread: the thread is already
\* blocked on the channel of the responses.
Resume(m) ==
    /\ Turn(m)
    /\ stage > 0
    /\ thread[m] = "awaiting"
    /\ todo' = todo \ {m}
    /\ current' = m
    /\ thread' = [thread EXCEPT ![m] = "running"]
    /\ received' = [received EXCEPT ![m] = witness_by_machine[m]]
    /\ UNCHANGED <<calls, phase, size, stage, proofs_status, witness_by_machine,
                   proof_results, outcome, result>>

\* SubProver::wait: the rendezvous on the channel of the challenges ...
Receive(m) ==
    /\ phase = "stage" /\ current = m
    /\ thread[m] = "challenging"
    /\ thread' = [thread EXCEPT ![m] = "awaiting"]
    /\ proofs_status' = [proofs_status EXCEPT ![m] = Challenged(ChallengesOf(m))]
    /\ current' = 0
    /\ UNCHANGED <<calls, phase, size, stage, todo, witness_by_machine, proof_results,
                   outcome, received, result>>

\* ... or the channel is closed, and the thread is joined ...
Join(m) ==
    /\ phase = "stage" /\ current = m
    /\ thread[m] = "returned"
    /\ proofs_status' = [proofs_status EXCEPT ![m] = Completed]
    /\ current' = 0
    /\ UNCHANGED <<calls, phase, size, stage, todo, witness_by_machine, proof_results,
                   outcome, threadVars>>

\* Faulty variant: a thread that panicked counts as completed.
JoinPanicked_Swallowed(m) ==
    /\ phase = "stage" /\ current = m
    /\ thread[m] = "panicked"
    /\ proofs_status' = [proofs_status EXCEPT ![m] = Completed]
    /\ current' = 0
    /\ UNCHANGED <<calls, phase, size, stage, todo, witness_by_machine, proof_results,
                   outcome, threadVars>>

\* ... and its panic is resumed in main.
JoinPanicked(m) ==
    /\ phase = "stage" /\ current = m
    /\ thread[m] = "panicked"
    /\ phase' = "unwinding"
    /\ UNCHANGED <<calls, size, stage, todo, current, proofs_status, witness_by_machine,
                   proof_results, outcome, threadVars>>
-----------------------------------------------------------------------------
(* The end of a stage, when all machines of the stage have been run.       *)

StageRun ==
    /\ phase = "stage"
    /\ current = 0
    /\ todo = {}

\* Faulty variant: a challenge replaces an earlier one with the same id.
accumulated_challenges_Overwritten ==
    LET all == UNION {proofs_status[m].challenges : m \in Waiting}
    IN  {c \in all : \A d \in all : d[1] = c[1] => d[2] <= c[2]}

\* accumulate_challenges, over all provers that wait.
accumulated_challenges == UNION {proofs_status[m].challenges : m \in Waiting}

\* Faulty variant: results of earlier stages are forgotten.
CollectedResults_LastStage ==
    [m \in Done |-> [result |-> result[m], proof |-> received[m]]]

CollectedResults ==
    [m \in DOMAIN proof_results \cup Done |->
        IF m \in Done
        THEN [result |-> result[m], proof |-> received[m]]
        ELSE proof_results[m]]

\* Some sub-provers wait: the witness of every machine is extended, with the
\* same challenges for all of them.
NextStage ==
    /\ StageRun
    /\ Waiting # {}
    /\ \A m \in Machine : size[m] \in supported[m]
    /\ witness_by_machine' =
           [m \in Machine |-> Append(witness_by_machine[m], accumulated_challenges)]
    /\ proof_results' = CollectedResults
    /\ stage' = stage + 1
    /\ todo' = Waiting
    /\ proofs_status' = [m \in Machine |-> NotRun]
    /\ UNCHANGED <<calls, phase, size, current, outcome, threadVars>>

\* machine_data.get(size).unwrap(), for a machine that was removed because it
\* has no rows.
NextStagePanics ==
    /\ StageRun
    /\ Waiting # {}
    /\ \E m \in Machine : size[m] \notin supported[m]
    /\ phase' = "unwinding"
    /\ UNCHANGED <<calls, size, stage, todo, current, proofs_status, witness_by_machine,
                   proof_results, outcome, threadVars>>

\* No sub-prover waits: the loop ends, and the scope of the threads with it.
Finish ==
    /\ StageRun
    /\ Waiting = {}
    /\ proof_results' = CollectedResults
    /\ outcome' = IF \A m \in DOMAIN proof_results' : proof_results'[m].result = "ok"
                  THEN "ok"
                  ELSE "err"
    /\ phase' = "idle"
    /\ UNCHANGED <<calls, size, stage, todo, current, proofs_status, witness_by_machine,
                   threadVars>>

\* The scope joins the threads that are left before it lets the panic pass.
Unwound ==
    /\ phase = "unwinding"
    /\ \A m \in Machine : thread[m] \in {"absent", "returned", "panicked", "cut off"}
    /\ phase' = "panicked"
    /\ outcome' = "panic"
    /\ UNCHANGED <<calls, size, stage, todo, current, proofs_status, witness_by_machine,
                   proof_results, threadVars>>

\* No call is running and there will be no other.
Stopped ==
    /\ phase = "panicked" \/ (phase = "idle" /\ calls = MaxCalls)
    /\ UNCHANGED vars

Thread(m) == Challenge(m) \/ Return(m) \/ Panic(m) \/ CutOff(m)

Main ==
    \/ \E m \in Machine :
           \/ Skip(m) \/ Unsupported(m) \/ Run(m) \/ Resume(m)
           \/ Receive(m) \/ Join(m) \/ JoinPanicked(m)
    \/ NextStage \/ NextStagePanics \/ Finish \/ Unwound

CompositeNext ==
    \/ \E w \in Witnesses : Prove(w)
    \/ Main
    \/ \E m \in Machine : Thread(m)
    \/ Stopped

\* Main and the threads are scheduled, and every backend comes back.  The
\* caller is free to call prove or not.
Fairness == WF_vars(Main) /\ \A m \in Machine : WF_vars(Thread(m))

CompositeSpec == CompositeInit /\ [][CompositeNext]_vars
FairCompositeSpec == CompositeSpec /\ Fairness
-----------------------------------------------------------------------------
(* Properties.                                                             *)

Challenges == SUBSET (Nat \X Machine)

\* The variables have the types of the fields and locals of the code.
CompositeTypeOK ==
    /\ calls \in 0 .. MaxCalls
    /\ phase \in {"idle", "stage", "unwinding", "panicked"}
    /\ size \in [Machine -> Nat]
    /\ stage \in Nat
    /\ todo \in SUBSET Machine
    /\ current \in Machine \cup {0}
    /\ proofs_status \in
           [Machine -> [kind : {"None", "Challenged", "Completed"}, challenges : Challenges]]
    /\ witness_by_machine \in [Machine -> Seq(Challenges)]
    /\ DOMAIN proof_results \subseteq Machine
    /\ \A m \in DOMAIN proof_results :
           proof_results[m] \in [result : {"ok", "err"}, proof : Seq(Challenges)]
    /\ outcome \in {"idle", "none", "ok", "err", "panic"}
    /\ thread \in [Machine -> {"absent", "running", "challenging", "awaiting", "returned",
                               "panicked", "cut off"}]
    /\ received \in [Machine -> Seq(Challenges)]
    /\ result \in [Machine -> {"none", "ok", "err"}]

\* The challenges of all sub-provers are joined before any of them goes on
\* (accumulate_challenges): two sub-provers never work with different values
\* for the challenges of the same stage, and the values include what each of
\* them drew itself.
SameChallenges ==
    \A m, n \in Machine : \A s \in 1 .. Len(received[m]) :
        /\ s <= Len(received[n]) => received[m][s] = received[n][s]
        /\ {<<id, m>> : id \in challenge_ids[m][s]} \subseteq received[m][s]

\* The threads are coroutines ("Runs a prover until it either completes or
\* challenges the caller"): while a sub-prover computes, main waits for it
\* and all others are blocked or finished.
OneRunsAtATime ==
    \A m \in Machine :
        thread[m] \in {"running", "challenging"} => phase = "stage" /\ current = m

\* The abstract state that a state of main stands for.
Requested == {m \in Machine : size[m] # 0}
Unfinished ==
    IF outcome = "none"
    THEN {m \in Requested : m \in todo \/ m = current \/ proofs_status[m].kind # "None"}
    ELSE {}
Transcript == witness_by_machine[CHOOSE m \in Machine : TRUE]
Proofs ==
    IF outcome = "ok"
    THEN [m \in DOMAIN proof_results |-> proof_results[m].proof]
    ELSE <<>>
Abstract == INSTANCE StagedProver WITH
    requested <- Requested, unfinished <- Unfinished, transcript <- Transcript, proofs <- Proofs

\* prove implements the abstract prover: every machine with rows is proved,
\* all of them in step and about the same joint challenges.
ImplementsStagedProver == Abstract!AbstractSpec

\* No call of prove hangs on its threads and channels: it returns or panics,
\* whatever the backends do.
EveryCallReturns == phase \in {"stage", "unwinding"} ~> phase \in {"idle", "panicked"}

\* "If a machine has no rows, remove it entirely" (composite/mod.rs:334): a
\* panic of prove is that of a backend, or due to a size without a backend.
EmptyMachinesAreRemoved ==
    phase = "panicked" =>
        \E m \in Machine :
            thread[m] = "panicked" \/ (size[m] # 0 /\ size[m] \notin supported[m])
=============================================================================
