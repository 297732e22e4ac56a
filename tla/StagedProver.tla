---------------------------- MODULE StagedProver ----------------------------
(***************************************************************************)
(* What a prover for several machines promises, without its threads and    *)
(* channels.  The machines are proved in rounds.  At the end of a round the*)
(* machines that are not finished yet draw challenges, the challenges of   *)
(* all of them are joined, and the joint challenges are what every machine *)
(* goes on with.  The proof of a machine is therefore about the same       *)
(* sequence of joint challenges as the proof of every other machine, cut   *)
(* at the number of rounds the machine takes.                              *)
(***************************************************************************)
EXTENDS Naturals, Sequences

CONSTANTS
    Machine,
    challenge_ids  \* challenge_ids[m][s]: ids of the challenges that machine m
                   \* draws at the end of its stage s - 1

VARIABLES
    outcome,    \* "none" while a proof is computed, then what became of it
    requested,  \* the machines to be proved
    unfinished, \* the machines still being proved
    transcript, \* the joint challenges so far
    proofs      \* the proofs in a successful outcome

abstractVars == <<outcome, requested, unfinished, transcript, proofs>>

\* A map from challenge ids to field elements is the set of pairs <<id, m>> of
\* an id and a machine whose own challenge is one of the addends at that id.
Contribution(m, s) == {<<id, m>> : id \in challenge_ids[m][s]}
JointChallenges(machines, s) == UNION {Contribution(m, s) : m \in machines}

Takes(m, s) == s <= Len(challenge_ids[m])
Upto(s, n) == SubSeq(s, 1, n)

AbstractInit ==
    /\ outcome = "idle"
    /\ requested = {}
    /\ unfinished = {}
    /\ transcript = <<>>
    /\ proofs = <<>>

Begin(machines) ==
    /\ outcome \in {"idle", "ok", "err"}
    /\ outcome' = "none"
    /\ requested' = machines
    /\ unfinished' = machines
    /\ transcript' = <<>>
    /\ proofs' = <<>>

\* The machines that are left need another stage; the others have completed
\* or failed.
Round(left) ==
    /\ outcome = "none"
    /\ left # {} /\ left \subseteq unfinished
    /\ \A m \in left : Takes(m, Len(transcript) + 1)
    /\ unfinished' = left
    /\ transcript' = Append(transcript, JointChallenges(left, Len(transcript) + 1))
    /\ UNCHANGED <<outcome, requested, proofs>>

\* All machines are proved, each of them through all of its stages.
Succeed ==
    /\ outcome = "none"
    /\ \A m \in requested : Len(challenge_ids[m]) <= Len(transcript)
    /\ outcome' = "ok"
    /\ unfinished' = {}
    /\ proofs' = [m \in requested |-> Upto(transcript, Len(challenge_ids[m]))]
    /\ UNCHANGED <<requested, transcript>>

Fail ==
    /\ outcome = "none"
    /\ outcome' \in {"err", "panic"}
    /\ unfinished' = {}
    /\ UNCHANGED <<requested, transcript, proofs>>

AbstractNext ==
    \/ \E machines \in SUBSET Machine : Begin(machines) \/ Round(machines)
    \/ Succeed
    \/ Fail

AbstractSpec == AbstractInit /\ [][AbstractNext]_abstractVars
=============================================================================
