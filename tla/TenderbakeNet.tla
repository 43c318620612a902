----------------------------- MODULE TenderbakeNet -----------------------------
(****************************************************************************)
(* The bakers of one level, each running the automaton of state_transitions *)
(* on the votes of all: the detailed specification that implements          *)
(* Tenderbake.                                                              *)
(*                                                                          *)
(* Nothing is synchronous: a baker ends its round when it likes, sees the   *)
(* votes and the blocks of the others when it likes, and a proposer may     *)
(* give different blocks to different bakers.  A block is only bound to     *)
(* show a prequorum that exists.  Faulty bakers may vote for anything.      *)
(* The module Baker has the delays inside one daemon; here a vote is signed *)
(* and comes back to the automaton in the step that asks for it, and a node *)
(* applies a block after its quorum.                                        *)
(****************************************************************************)
EXTENDS StateTransitions, Committee

CONSTANT Offers     \* <<round, payload, prequorum>> of the blocks that may be proposed

ASSUME NetAssumption == Offers \subseteq Rounds \X Payloads \X SUBSET Rounds

VARIABLES
  st,      \* baker |-> automaton state
  hwm,     \* baker |-> kind |-> {} or {round}: the high watermarks of the level
  preatts, atts   \* <<baker, round, payload>>: votes injected

vars == <<st, hwm, preatts, atts>>

Kinds == {"Preattestation", "Attestation"}

--------------------------------------------------------------------------------
\* The level starts on a block that everybody knows.
Genesis ==
  [level |-> 0, round |-> 0, payload |-> "genesis", prequorum |-> {}, first |-> TRUE,
   pred |-> [level |-> 0, round |-> 0, payload |-> "none", start |-> 0]]

Block(round, payload, prequorum) ==
  [level |-> 1, round |-> round, payload |-> payload, prequorum |-> prequorum, first |-> FALSE,
   pred |-> BlockInfo(Genesis)]

\* The operation worker reports a quorum from the threshold on.
Reached(votes, round, payload) ==
  Cardinality({s \in Slots : Owner[s] \in Faulty \/ <<Owner[s], round, payload>> \in votes})
    >= Threshold

\* The prequorum a block includes is on its payload, at an earlier round.
ShowsPrequorum(p) ==
  \A q \in p.prequorum : q < p.round /\ Reached(preatts, q, p.payload)

--------------------------------------------------------------------------------
may_sign(b, request) == \A m \in hwm[b][request.kind] : m < request.vote.round

Requested(b, r) ==
  LET requests == NewRequests(r.act)
  IN  {requests[i] : i \in {j \in DOMAIN requests : may_sign(b, requests[j])}}

OfKind(set, kind) == {x \in set : x.kind = kind}

record(b, requests) ==
  [k \in Kinds |-> IF OfKind(requests, k) = {} THEN hwm[b][k]
                   ELSE {q.vote.round : q \in OfKind(requests, k)}]

Votes(b, sent) == {<<b, x.vote.round, x.vote.payload>> : x \in sent}

\* The automaton of b moves, its action is performed, and the automaton takes the
\* attestation that was asked for, if any.
perform_action(b, r) ==
  LET requests == Requested(b, r)
      signed == {handle_forge_event(r.st, e) : e \in OfKind(requests, "Attestation")}
      sent == Injected(r.act) \cup OfKind(requests, "Preattestation")
                \cup UNION {Injected(x.act) : x \in signed}
  IN  /\ st' = [st EXCEPT ![b] = IF signed = {} THEN r.st ELSE (CHOOSE x \in signed : TRUE).st]
      /\ hwm' = [hwm EXCEPT ![b] = record(b, requests)]
      /\ preatts' = preatts \cup Votes(b, OfKind(sent, "Preattestation"))
      /\ atts' = atts \cup Votes(b, OfKind(sent, "Attestation"))

\* A first block of the level is handled at the round of the clock, which is not
\* before the round of the block.
Continue(r, round) ==
  IF r.act.type = "Update_to_level"
  THEN compute_new_state(r.act.proposal, r.act.applied, round)
  ELSE r

\* A block may come after its round.  Blocks that change nothing are left out.
NewValidProposal(b, p, round) ==
  /\ p.round <= round /\ (st[b].level = p.level => round = st[b].round)
  /\ ShowsPrequorum(p)
  /\ New_valid_proposal(st[b], p) # do_nothing(st[b])
  /\ perform_action(b, Continue(New_valid_proposal(st[b], p), round))

NewHeadProposal(b) ==
  /\ st[b].phase = "Awaiting_application"
  /\ perform_action(b, New_head_proposal(st[b], st[b].proposal))

PrequorumReached(b) ==
  /\ st[b].phase = "Awaiting_preattestations"
  /\ Reached(preatts, st[b].proposal.round, st[b].proposal.payload)
  /\ perform_action(b, Prequorum_reached(st[b], st[b].proposal))

QuorumReached(b) ==
  /\ st[b].phase = "Awaiting_attestations" /\ st[b].elected = {}
  /\ Reached(atts, st[b].proposal.round, st[b].proposal.payload)
  /\ perform_action(b, Quorum_reached(st[b], st[b].proposal))

EndOfRound(b) ==
  /\ st[b].level = 1 /\ st[b].round + 1 \in Rounds
  /\ perform_action(b, end_of_round(st[b], st[b].round, FALSE))

Init ==
  /\ st = [b \in Honest |-> LevelState(Genesis, TRUE, 0)]
  /\ hwm = [b \in Honest |-> [k \in Kinds |-> {}]]
  /\ preatts = {} /\ atts = {}

Next ==
  \E b \in Honest :
    \/ \E o \in Offers, round \in Rounds : NewValidProposal(b, Block(o[1], o[2], o[3]), round)
    \/ NewHeadProposal(b) \/ PrequorumReached(b) \/ QuorumReached(b) \/ EndOfRound(b)

Spec == Init /\ [][Next]_vars

--------------------------------------------------------------------------------
(* Properties.                                                              *)

Abstract == INSTANCE Tenderbake WITH
  locked <- [b \in Honest |-> {<<l.round, l.payload>> : l \in st[b].locked}]

\* Whatever the interleaving of the bakers, their votes and locks evolve as
\* Tenderbake says: every step of an automaton is a step of it or leaves it alone.
ImplementsTenderbake == Abstract!Spec

\* The rounds and payloads that have a quorum of the votes given.
Quorums(votes) == {x \in Rounds \X Payloads : Reached(votes, x[1], x[2])}

\* Two quorums of attestations, at any two rounds, are for the same payload: the
\* level has one block content (quorum_reached elects on it).
Agreement == \A x, y \in Quorums(atts) : x[2] = y[2]

\* Once a payload has a quorum, no later round has a prequorum on another one: no
\* proposal can unlock a baker from it (handle_proposal of a locked baker).
QuorumIsFinal == \A x \in Quorums(atts), y \in Quorums(preatts) : x[1] <= y[1] => x[2] = y[2]

\* Bakers that have elected a block of the level have elected the same payload.
ElectedAgree ==
  \A b, c \in Honest : \A d \in st[b].elected, e \in st[c].elected : d.payload = e.payload

================================================================================
