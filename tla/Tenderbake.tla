------------------------------- MODULE Tenderbake -------------------------------
(****************************************************************************)
(* What the bakers of one level promise together, whatever the schedule of  *)
(* their daemons: two votes, a lock, and the rule that relates them.        *)
(*                                                                          *)
(* The voting power of a baker is the set of slots it owns.  A faulty baker *)
(* may vote for anything, so its slots are counted in every quorum and only *)
(* the votes of the others are state.                                       *)
(****************************************************************************)
EXTENDS Committee

VARIABLES
  preatts,   \* <<baker, round, payload>>: preattestations of honest bakers
  atts,      \* <<baker, round, payload>>: attestations of honest bakers
  locked     \* baker |-> {} or {<<round, payload>>}

vars == <<preatts, atts, locked>>

Votes == Honest \X Rounds \X Payloads

--------------------------------------------------------------------------------
\* The slots that stand, or may stand, behind a payload at a round.
Backing(S, r, v) == {s \in Slots : Owner[s] \in Faulty \/ <<Owner[s], r, v>> \in S}

HasQuorum(S, r, v) == Cardinality(Backing(S, r, v)) >= Threshold

Prequorum(r, v) == HasQuorum(preatts, r, v)
Quorum(r, v) == HasQuorum(atts, r, v)

Init == preatts = {} /\ atts = {} /\ locked = [b \in Honest |-> {}]

\* A baker preattests once per round, in the order of the rounds.  A locked baker
\* does so for its locked payload, or for one with a more recent prequorum.
MayPreattest(b, r, v) ==
  /\ \A q \in Rounds, w \in Payloads : <<b, q, w>> \in preatts => q < r
  /\ \A q \in Rounds, w \in Payloads : <<q, w>> \in locked[b] =>
       /\ q <= r
       /\ w = v \/ \E n \in Rounds : q < n /\ n < r /\ Prequorum(n, v)

Preattest(b, r, v) ==
  /\ preatts' = preatts \cup {<<b, r, v>>}
  /\ MayPreattest(b, r, v)
  /\ UNCHANGED <<atts, locked>>

\* A prequorum at the latest round of the baker locks it.
MayLock(b, r, v) ==
  /\ Prequorum(r, v)
  /\ \A q \in Rounds, w \in Payloads : <<b, q, w>> \in preatts => q <= r
  /\ \A q \in Rounds, w \in Payloads : <<q, w>> \in locked[b] => q <= r

\* The attestation may be ready and leave at once, or leave later, while the baker
\* is still locked there.
Lock(b, r, v) ==
  /\ locked' = [locked EXCEPT ![b] = {<<r, v>>}]
  /\ MayLock(b, r, v)
  /\ atts' = atts \/ atts' = atts \cup {<<b, r, v>>}
  /\ UNCHANGED preatts

Attest(b, r, v) ==
  /\ locked[b] = {<<r, v>>}
  /\ atts' = atts \cup {<<b, r, v>>}
  /\ UNCHANGED <<preatts, locked>>

Next ==
  \E b \in Honest, r \in Rounds, v \in Payloads :
    Preattest(b, r, v) \/ Lock(b, r, v) \/ Attest(b, r, v)

Spec == Init /\ [][Next]_vars

--------------------------------------------------------------------------------
(* Properties.                                                              *)

\* Votes and locks are of the honest bakers, and a baker has at most one lock.
TypeOK ==
  /\ preatts \subseteq Votes /\ atts \subseteq Votes
  /\ locked \in [Honest -> {{}} \cup {{x} : x \in Rounds \X Payloads}]

\* Two quorums of attestations of one level, at any two rounds, are for the same
\* payload: the level has one block content (quorum_reached elects on it).
Agreement ==
  \A r1, r2 \in Rounds, v1, v2 \in Payloads : Quorum(r1, v1) /\ Quorum(r2, v2) => v1 = v2

\* No round has prequorums on two payloads.
OnePrequorum ==
  \A r \in Rounds, v1, v2 \in Payloads : Prequorum(r, v1) /\ Prequorum(r, v2) => v1 = v2

\* Once a payload has a quorum, no later round has a prequorum on another one:
\* nobody can be unlocked from it.
QuorumIsFinal ==
  \A r1, r2 \in Rounds, v1, v2 \in Payloads :
    Quorum(r1, v1) /\ r1 <= r2 /\ Prequorum(r2, v2) => v1 = v2

================================================================================
