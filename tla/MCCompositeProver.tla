------------------------- MODULE MCCompositeProver -------------------------
(* Three machines with up to three stages that share challenge ids. *)
EXTENDS CompositeProver

MCChallengeIds == <<<<{1, 2}, {3}>>, <<{1}>>, <<{2}, {3}>>>>

MCSupported == <<{2}, {2, 4}, {2}>>

\* All machines used, one of them empty, all of them empty, and a size that
\* machine 3 has no backend for.
MCWitnesses == {<<2, 2, 2>>, <<2, 4, 2>>, <<2, 0, 2>>, <<0, 2, 2>>, <<0, 0, 0>>, <<2, 2, 4>>}
=============================================================================
