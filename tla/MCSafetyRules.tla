---------------------------- MODULE MCSafetyRules ----------------------------
(* Instance of SafetyRules for TLC: the blocks are those of one epoch over a  *)
(* few rounds, with any parent of a lower round; the ones of a round with the *)
(* same parent differ in their payload.                                       *)
EXTENDS SafetyRules, TLC

CONSTANTS r1, r2, r3, r4

\* Genesis, two blocks over it in round 1, one over it in round 2 and one over the first
\* block of round 1.
MCBlock == 0..4
MCEpochOf(b) == 1
MCRound(b) == <<0, 1, 1, 2, 2>>[b + 1]
MCParent(b) == <<0, 0, 0, 0, 1>>[b + 1]

MCReplica == {r1, r2, r3, r4}
MCFaulty == {r4}
MCQuorum == {Q \in SUBSET MCReplica : \E r \in MCReplica : Q = MCReplica \ {r}}

Symmetric == Permutations({r1, r2, r3})
=============================================================================
