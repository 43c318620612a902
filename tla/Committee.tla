------------------------------- MODULE Committee -------------------------------
(****************************************************************************)
(* The consensus committee of one level: who owns its slots, and how many   *)
(* of them make a quorum.                                                   *)
(****************************************************************************)
EXTENDS Integers, FiniteSets

CONSTANTS
  Bakers, Faulty,    \* the bakers of the level, and the ones that may do anything
  Slots, Owner,      \* the slots of the level, and the baker each is given to
  Threshold,         \* consensus_threshold
  Payloads, Rounds

Honest == Bakers \ Faulty
FaultySlots == {s \in Slots : Owner[s] \in Faulty}

\* The threshold is so large, and the faulty slots so few, that two quorums share
\* a slot of an honest baker: two thirds of the slots, and less than one third.
ASSUME TenderbakeAssumption ==
  /\ Faulty \subseteq Bakers
  /\ IsFiniteSet(Slots) /\ Owner \in [Slots -> Bakers]
  /\ Threshold \in Nat
  /\ Cardinality(Slots) + Cardinality(FaultySlots) < 2 * Threshold
  /\ Rounds \subseteq Nat

================================================================================
