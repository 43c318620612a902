------------------------------ MODULE BakerProofs ------------------------------
(******************************************************************************)
(* What a baker daemon keeps for every set of proposals, every schedule and any *)
(* number of crashes, lost signatures and failed requests: what each handler of *)
(* the automaton does, what an iteration of the loop makes of it, and the     *)
(* invariants that need nothing more.                                         *)
(******************************************************************************)
EXTENDS BakerInvariants, TLAPS

--------------------------------------------------------------------------------
(* What the handlers keep, and what their actions may send.                  *)

LEMMA ProposalFields ==
  ASSUME NEW p \in Proposals
  PROVE  /\ p.level \in Nat /\ p.round \in Nat /\ p.payload \in Payloads /\ p.pred \in Preds
         /\ p.prequorum \in SUBSET Nat /\ \A q \in p.prequorum : q < p.round
         /\ \A q, r \in p.prequorum : q = r
BY Zenon, ProposalsAssumption DEF Payloads, Preds

LEMMA MovedTrans ==
  ASSUME NEW s \in AutoStates, NEW m, NEW n, Moved(s, m), Moved(m, n)
  PROVE  Moved(s, n)
<1>1. m \in AutoStates /\ n \in AutoStates
  BY Zenon DEF Moved
<1>2. ASSUME NotUnlocked(s, m), NotUnlocked(m, n)
      PROVE  NotUnlocked(s, n)
  <2>1. ASSUME NEW l \in s.locked
        PROVE  \E k \in n.locked : k.round >= l.round
    <3>1. PICK j \in m.locked : j.round >= l.round
      BY Zenon, <1>2 DEF NotUnlocked
    <3>2. PICK k \in n.locked : k.round >= j.round
      BY Zenon, <1>2 DEF NotUnlocked
    <3>3. l.round \in Nat /\ j.round \in Nat /\ k.round \in Nat
      BY Zenon, <1>1 DEF AutoStates, LockedRounds
    <3>. QED
      BY <3>1, <3>2, <3>3
  <2>. QED
    BY Zenon, <2>1 DEF NotUnlocked
<1>. QED
  BY Zenon, <1>2 DEF Moved

\* A handler that touches neither lock nor proposal nor attestable payload.
LEMMA MovedAside ==
  ASSUME NEW s \in AutoStates, NEW n \in AutoStates, n.level = s.level, n.locked = s.locked,
         n.attestable = s.attestable, n.proposal = s.proposal
  PROVE  Moved(s, n)
<1>1. \A l \in s.locked : l.round \in Nat
  BY Zenon DEF AutoStates, LockedRounds
<1>2. NotUnlocked(s, n)
  BY <1>1 DEF NotUnlocked
<1>3. (Covers(s) => Covers(n)) /\ (LockBelow(s) => LockBelow(n))
  BY Zenon DEF Covers, LockBelow
<1>. QED
  BY Zenon, <1>2, <1>3 DEF Moved

LEMMA AttestableUpdated ==
  ASSUME NEW s \in AutoStates, NEW p \in Proposals
  PROVE  LET n == may_update_attestable_payload_with_internal_pqc(s, p)
         IN  /\ Moved(s, n) /\ n.early = s.early /\ n.locked = s.locked
             /\ n.proposal = s.proposal /\ n.round = s.round /\ n.phase = s.phase
<1> DEFINE n == may_update_attestable_payload_with_internal_pqc(s, p)
           new == {[proposal |-> p, prequorum |-> q] : q \in p.prequorum}
<1>1. CASE p.prequorum = {} \/ \E q \in p.prequorum, a \in s.attestable : q < a.prequorum
  <2>1. n = s
    BY Zenon, <1>1 DEF may_update_attestable_payload_with_internal_pqc
  <2>. QED
    BY Zenon, <2>1, MovedAside
<1>2. CASE /\ p.prequorum # {}
           /\ \A q \in p.prequorum, a \in s.attestable : ~(q < a.prequorum)
  <2>1. n = [s EXCEPT !.attestable = new]
    BY Zenon, <1>2 DEF may_update_attestable_payload_with_internal_pqc
  <2>2. new \in SUBSET Attestables /\ p.prequorum \in SUBSET Nat
    BY ProposalFields DEF Attestables
  <2>3. PICK q \in p.prequorum : TRUE
    BY Zenon, <1>2
  <2>4. [proposal |-> p, prequorum |-> q] \in new /\ q \in Nat
    BY Zenon, <2>2, <2>3
  <2> HIDE DEF new
  <2>5. /\ n \in AutoStates /\ n.level = s.level /\ n.locked = s.locked /\ n.attestable = new
        /\ n.proposal = s.proposal /\ n.early = s.early /\ n.round = s.round /\ n.phase = s.phase
    BY Zenon, <2>1, <2>2 DEF AutoStates
  <2> HIDE DEF n
  <2>6. ASSUME Covers(s), NEW l \in s.locked PROVE \E a \in n.attestable : a.prequorum >= l.round
    <3>1. PICK a \in s.attestable : a.prequorum >= l.round
      BY Zenon, <2>6 DEF Covers
    <3>2. a.prequorum \in Nat /\ l.round \in Nat
      BY Zenon DEF AutoStates, Attestables, LockedRounds
    <3>3. ~(q < a.prequorum)
      BY Zenon, <1>2
    <3>4. q >= l.round
      BY <2>4, <3>1, <3>2, <3>3
    <3>. QED
      BY Zenon, <2>4, <2>5, <3>4
  <2>7. Covers(s) => Covers(n)
    BY Zenon, <2>5, <2>6 DEF Covers
  <2>8. (LockBelow(s) => LockBelow(n)) /\ NotUnlocked(s, n)
    <3>1. \A l \in s.locked : l.round \in Nat
      BY Zenon DEF AutoStates, LockedRounds
    <3>. QED
      BY <2>5, <3>1 DEF LockBelow, NotUnlocked
  <2>. QED
    BY Zenon, <2>5, <2>7, <2>8 DEF Moved, n
<1>. QED
  BY Zenon, <1>1, <1>2

LEMMA ProposalUpdated ==
  ASSUME NEW s \in AutoStates, NEW p \in Proposals, NEW applied \in BOOLEAN,
         Covers(s) /\ LockBelow(s) => \A l \in s.locked : l.round <= p.round
  PROVE  LET n == update_proposal(s, p, applied)
         IN  /\ Moved(s, n) /\ n.early = s.early /\ n.locked = s.locked
             /\ n.proposal = p /\ n.round = s.round /\ n.phase = s.phase
<1> DEFINE x == applied \/ (s.proposal = p /\ s.applied)
           n == [s EXCEPT !.proposal = p, !.applied = x]
<1>1. x \in BOOLEAN
  BY Zenon
<1> HIDE DEF x
<1>2. /\ n \in AutoStates /\ n.level = s.level /\ n.locked = s.locked /\ n.proposal = p
      /\ n.attestable = s.attestable /\ n.early = s.early /\ n.round = s.round
      /\ n.phase = s.phase
  BY Zenon, <1>1 DEF AutoStates
<1>3. update_proposal(s, p, applied) = n
  BY Zenon DEF update_proposal, x
<1> HIDE DEF n
<1>4. \A l \in s.locked : l.round \in Nat
  BY Zenon DEF AutoStates, LockedRounds
<1>5. /\ Covers(s) => Covers(n)
      /\ Covers(s) /\ LockBelow(s) => LockBelow(n)
      /\ NotUnlocked(s, n)
  BY <1>2, <1>4 DEF Covers, LockBelow, NotUnlocked
<1>. QED
  BY Zenon, <1>2, <1>3, <1>5 DEF Moved

LEMMA MayProposalUpdated ==
  ASSUME NEW s \in AutoStates, NEW p \in Proposals, NEW applied \in BOOLEAN
  PROVE  LET n == may_update_proposal(s, p, applied)
         IN  /\ Moved(s, n) /\ n.early = s.early /\ n.locked = s.locked
             /\ n.round = s.round /\ n.phase = s.phase
<1> DEFINE n == may_update_proposal(s, p, applied)
<1>1. CASE s.proposal.round < p.round
  <2>1. n = update_proposal(s, p, applied)
    BY Zenon, <1>1 DEF may_update_proposal
  <2>2. ASSUME LockBelow(s), NEW l \in s.locked PROVE l.round <= p.round
    <3>1. l.round \in Nat /\ s.proposal.round \in Nat /\ p.round \in Nat
      BY Zenon, ProposalFields DEF AutoStates, LockedRounds
    <3>2. l.round <= s.proposal.round
      BY Zenon, <2>2 DEF LockBelow
    <3>. QED
      BY <1>1, <3>1, <3>2
  <2>3. Covers(s) /\ LockBelow(s) => \A l \in s.locked : l.round <= p.round
    BY Zenon, <2>2
  <2>. QED
    BY <2>1, <2>3, ProposalUpdated
<1>2. CASE ~(s.proposal.round < p.round)
  <2>1. n = s
    BY Zenon, <1>2 DEF may_update_proposal
  <2>. QED
    BY Zenon, <2>1, MovedAside
<1>. QED
  BY Zenon, <1>1, <1>2

LEMMA DoNothing ==
  ASSUME NEW s, NEW n, Moved(s, n), NEW S, Early(n) \subseteq S
  PROVE  Outcome(s, S, do_nothing(n))
<1>1. do_nothing(n).st = n /\ do_nothing(n).act = Do_nothing
  BY Zenon DEF do_nothing, Return
<1>. QED
  BY Zenon, <1>1 DEF Outcome, Quiet

LEMMA EarlyMono ==
  ASSUME NEW s, NEW n, n.early \subseteq s.early
  PROVE  Early(n) \subseteq Early(s)
BY Zenon DEF Early

LEMMA VoteOutcome ==
  ASSUME NEW s \in AutoStates, NEW p \in Proposals
  PROVE  Outcome(s, Early(s), may_vote(s, p))
<1>1. CASE s.phase # "Idle"
  <2>1. may_vote(s, p) = do_nothing(s)
    BY Zenon, <1>1 DEF may_vote
  <2>. QED
    BY Zenon, <2>1, MovedAside, DoNothing
<1>2. CASE s.phase = "Idle"
  <2> DEFINE r == [prepare_consensus_votes(s, p) EXCEPT !.cancel = TRUE]
             i == [s EXCEPT !.phase = "Idle"]
             w == [s EXCEPT !.phase = "Awaiting_preattestations"]
             v == make_consensus_vote_batch(s, p)
  <2>1. may_vote(s, p) = r
    BY Zenon, <1>2 DEF may_vote
  <2>2. v \in VoteContents
    BY Zenon, ProposalFields DEF make_consensus_vote_batch, VoteContents, AutoStates
  <2>3. /\ i \in AutoStates /\ i.level = s.level /\ i.locked = s.locked
        /\ i.attestable = s.attestable /\ i.proposal = s.proposal /\ i.early = s.early
    BY Zenon DEF AutoStates, Phases
  <2>4. /\ w \in AutoStates /\ w.level = s.level /\ w.locked = s.locked
        /\ w.attestable = s.attestable /\ w.proposal = s.proposal /\ w.early = s.early
    BY Zenon DEF AutoStates, Phases
  <2>5. Moved(s, i) /\ Moved(s, w)
    BY Zenon, <2>3, <2>4, MovedAside
  <2> HIDE DEF i, w, v
  <2>6. Early(i) = Early(s) /\ Early(w) = Early(s)
    BY Zenon, <2>3, <2>4 DEF Early
  <2>7. \/ r.st = i /\ r.act = Do_nothing
        \/ r.st = w /\ r.act = [type |-> "Prepare_consensus_votes", vote |-> v]
    BY Zenon DEF prepare_consensus_votes, do_nothing, Return, i, w, v
  <2> HIDE DEF r
  <2>8. r.act \in Quiet \cup VoteRequests
    BY <2>2, <2>7 DEF Quiet, VoteRequests
  <2>. QED
    BY Zenon, <2>1, <2>5, <2>6, <2>7, <2>8 DEF Outcome
<1>. QED
  BY Zenon, <1>1, <1>2

\* An outcome after some other steps of the automaton.
LEMMA OutcomeAfter ==
  ASSUME NEW s \in AutoStates, NEW m, Moved(s, m), NEW S, NEW T, S \subseteq T, NEW r,
         Outcome(m, S, r)
  PROVE  Outcome(s, T, r)
<1>1. Moved(s, r.st)
  BY Zenon, MovedTrans DEF Outcome
<1>2. m.level = s.level
  BY Zenon DEF Moved
<1>. QED
  BY Zenon, <1>1, <1>2 DEF Outcome

LEMMA SameBranchOutcome ==
  ASSUME NEW s \in AutoStates, NEW p \in Proposals, NEW applied \in BOOLEAN
  PROVE  Outcome(s, Early(s), HandleSameBranch(s, p, applied))
<1> DEFINE a == may_update_attestable_payload_with_internal_pqc(s, p)
           n == may_update_proposal(a, p, applied)
           e == [n EXCEPT !.early = {}]
           w == [e EXCEPT !.awaiting = TRUE, !.phase = "Awaiting_preattestations"]
<1>1. Moved(s, a) /\ a.early = s.early
  BY Zenon, AttestableUpdated
<1>2. a \in AutoStates
  BY Zenon, <1>1 DEF Moved
<1> HIDE DEF a
<1>3. Moved(a, n) /\ n.early = a.early
  BY Zenon, <1>2, MayProposalUpdated
<1>4. Moved(s, n) /\ n \in AutoStates /\ n.early = s.early
  BY Zenon, <1>1, <1>3, MovedTrans DEF Moved
<1> HIDE DEF n
<1>5. /\ e \in AutoStates /\ e.level = n.level /\ e.locked = n.locked
      /\ e.attestable = n.attestable /\ e.proposal = n.proposal /\ e.early = {}
  BY Zenon, <1>4 DEF AutoStates
<1>6. Moved(s, e)
  BY Zenon, <1>4, <1>5, MovedAside, MovedTrans
<1> HIDE DEF e
<1>7. /\ w \in AutoStates /\ w.level = e.level /\ w.locked = e.locked
      /\ w.attestable = e.attestable /\ w.proposal = e.proposal /\ w.early = {}
  BY Zenon, <1>5 DEF AutoStates, Phases
<1>8. Moved(s, w)
  BY ZenonT(30), <1>5, <1>6, <1>7, MovedAside, MovedTrans
<1> HIDE DEF w
<1>9. Outcome(s, Early(s), do_nothing(s))
  BY Zenon, MovedAside, DoNothing
<1>10. Outcome(s, Early(s), do_nothing(n))
  BY Zenon, <1>4, DoNothing, EarlyMono
<1>11. Outcome(s, Early(s), may_vote(e, p))
  <2>1. Outcome(e, Early(e), may_vote(e, p))
    BY Zenon, <1>5, VoteOutcome
  <2>2. Early(e) \subseteq Early(s)
    BY Zenon, <1>5 DEF Early
  <2>. QED
    BY Zenon, <1>6, <2>1, <2>2, OutcomeAfter
<1>12. Outcome(s, Early(s), Return(w, Watch_prequorum))
  <2>1. Return(w, Watch_prequorum).st = w /\ Return(w, Watch_prequorum).act = Watch_prequorum
    BY Zenon DEF Return
  <2>2. Early(w) \subseteq Early(s)
    BY Zenon, <1>7 DEF Early
  <2>. QED
    BY Zenon, <1>8, <2>1, <2>2 DEF Outcome, Quiet
<1>13. HandleSameBranch(s, p, applied) \in
         {do_nothing(s), do_nothing(n), may_vote(e, p), Return(w, Watch_prequorum)}
  <2>1. HandleOutdated(s, p, applied) = do_nothing(n)
    BY Zenon DEF HandleOutdated, n, a
  <2>2. HandleValid(s, p, applied) \in {may_vote(e, p), Return(w, Watch_prequorum)}
    BY Zenon DEF HandleValid, w, e, n, a
  <2>3. CASE IsInvalid(s, p)
    <3>1. ~IsOutdated(s, p)
      <4>1. s.round \in Int /\ p.round \in Nat
        BY Zenon, ProposalFields DEF AutoStates
      <4>. QED
        BY <2>3, <4>1 DEF IsInvalid, IsOutdated
    <3>. QED
      BY Zenon, <2>3, <3>1 DEF HandleSameBranch
  <2>4. CASE ~IsInvalid(s, p) /\ IsOutdated(s, p)
    BY Zenon, <2>1, <2>4 DEF HandleSameBranch
  <2>5. CASE ~IsInvalid(s, p) /\ ~IsOutdated(s, p)
    BY Zenon, <2>2, <2>5 DEF HandleSameBranch
  <2>. QED
    BY Zenon, <2>3, <2>4, <2>5
<1>. QED
  BY Zenon, <1>9, <1>10, <1>11, <1>12, <1>13

LEMMA SwitchOutcome ==
  ASSUME NEW s \in AutoStates, NEW p \in Proposals, NEW applied \in BOOLEAN
  PROVE  Outcome(s, Early(s), may_switch_branch(s, p, applied))
<1>1. CASE \E a \in s.attestable : \A q \in p.prequorum : a.prequorum >= q
  <2>1. may_switch_branch(s, p, applied) = do_nothing(s)
    BY Zenon, <1>1 DEF may_switch_branch
  <2>. QED
    BY Zenon, <2>1, MovedAside, DoNothing
<1>2. CASE \A a \in s.attestable : \E q \in p.prequorum : ~(a.prequorum >= q)
  <2> DEFINE n == update_proposal(s, p, applied)
             act == [type |-> "Synchronize_round", proposal |-> p, applied |-> applied]
             r == may_switch_branch(s, p, applied)
  <2>1. r.st = n /\ r.act = act
    BY Zenon, <1>2 DEF may_switch_branch, Return
  <2>2. ASSUME Covers(s), NEW l \in s.locked PROVE l.round <= p.round
    <3>1. PICK a \in s.attestable : a.prequorum >= l.round
      BY Zenon, <2>2 DEF Covers
    <3>2. PICK q \in p.prequorum : ~(a.prequorum >= q)
      BY Zenon, <1>2
    <3>3. /\ a.prequorum \in Nat /\ l.round \in Nat /\ q \in Nat /\ q < p.round
          /\ p.round \in Nat
      BY Zenon, ProposalFields DEF AutoStates, Attestables, LockedRounds
    <3>. QED
      BY <3>1, <3>2, <3>3
  <2>3. Covers(s) /\ LockBelow(s) => \A l \in s.locked : l.round <= p.round
    BY Zenon, <2>2
  <2>4. Moved(s, n) /\ n.early = s.early
    BY Zenon, <2>3, ProposalUpdated
  <2> HIDE DEF n
  <2>5. act \in Moves /\ act.type # "Update_to_level"
    BY Zenon DEF Moves
  <2> HIDE DEF r, act
  <2>6. Early(r.st) \subseteq Early(s)
    BY Zenon, <2>1, <2>4 DEF Early
  <2>. QED
    BY Zenon, <2>1, <2>4, <2>5, <2>6 DEF Outcome, r
<1>. QED
  BY Zenon, <1>1, <1>2

LEMMA ProposalOutcome ==
  ASSUME NEW s \in AutoStates, NEW p \in Proposals, NEW applied \in BOOLEAN
  PROVE  Outcome(s, Early(s), handle_proposal(s, p, applied))
<1> DEFINE n == [s EXCEPT !.applied = TRUE]
           act == [type |-> "Update_to_level", proposal |-> p, applied |-> applied]
           r == handle_proposal(s, p, applied)
<1>1. p.level \in Nat /\ s.level \in Nat
  BY Zenon, ProposalFields DEF AutoStates
<1>2. Moved(s, s) /\ Outcome(s, Early(s), do_nothing(s))
  BY Zenon, MovedAside, DoNothing
<1>3. CASE applied /\ p = s.proposal
  <2>1. /\ n \in AutoStates /\ n.level = s.level /\ n.locked = s.locked
        /\ n.attestable = s.attestable /\ n.proposal = s.proposal /\ n.early = s.early
    <3>1. TRUE \in BOOLEAN
      BY Zenon
    <3>. QED
      BY Zenon, <3>1 DEF AutoStates
  <2>2. r = do_nothing(n)
    BY Zenon, <1>3 DEF handle_proposal
  <2> HIDE DEF n
  <2>. QED
    BY Zenon, <2>1, <2>2, MovedAside, EarlyMono, DoNothing
<1>4. CASE ~(applied /\ p = s.proposal) /\ p.level < s.level
  BY SMTT(30), <1>1, <1>2, <1>4 DEF handle_proposal
<1>5. CASE ~(applied /\ p = s.proposal) /\ p.level > s.level
  <2>1. r = Return(s, act)
    BY <1>1, <1>5 DEF handle_proposal
  <2>2. r.st = s /\ r.act = act
    BY <2>1 DEF Return
  <2>3. act \in Moves /\ act.proposal = p
    BY Zenon DEF Moves
  <2> HIDE DEF r, act
  <2>. QED
    BY Zenon, <1>2, <1>5, <2>2, <2>3 DEF Outcome, r
<1>6. CASE ~(applied /\ p = s.proposal) /\ p.level = s.level /\ p.pred # s.proposal.pred
  <2>1. r = may_switch_branch(s, p, applied)
    BY <1>1, <1>6 DEF handle_proposal
  <2>. QED
    BY Zenon, <2>1, SwitchOutcome
<1>7. CASE ~(applied /\ p = s.proposal) /\ p.level = s.level /\ p.pred = s.proposal.pred
  <2>1. r = HandleSameBranch(s, p, applied)
    BY <1>1, <1>7 DEF handle_proposal
  <2>. QED
    BY Zenon, <2>1, SameBranchOutcome
<1>. QED
  BY SMTT(30), <1>1, <1>3, <1>4, <1>5, <1>6, <1>7

LEMMA ValidOutcome ==
  ASSUME NEW s \in AutoStates, NEW p \in Proposals
  PROVE  Outcome(s, Early(s), New_valid_proposal(s, p))
<1>1. Outcome(s, Early(s), do_nothing(s))
  BY Zenon, MovedAside, DoNothing
<1>2. FALSE \in BOOLEAN
  BY Zenon
<1>3. Outcome(s, Early(s), handle_proposal(s, p, FALSE))
  BY Zenon, <1>2, ProposalOutcome
<1>. QED
  BY Zenon, <1>1, <1>3 DEF New_valid_proposal

LEMMA HeadOutcome ==
  ASSUME NEW s \in AutoStates, NEW p \in Proposals
  PROVE  Outcome(s, Early(s), New_head_proposal(s, p))
<1> DEFINE e == [s EXCEPT !.elected = {s.proposal}, !.phase = "Idle"]
           d == [s EXCEPT !.applied = TRUE, !.phase = "Idle"]
<1>1. TRUE \in BOOLEAN
  BY Zenon
<1>2. Outcome(s, Early(s), handle_proposal(s, p, TRUE))
  BY Zenon, <1>1, ProposalOutcome
<1>3. /\ e \in AutoStates /\ e.level = s.level /\ e.locked = s.locked
      /\ e.attestable = s.attestable /\ e.proposal = s.proposal /\ e.early = s.early
  BY Zenon DEF AutoStates, Phases
<1>4. /\ d \in AutoStates /\ d.level = s.level /\ d.locked = s.locked
      /\ d.attestable = s.attestable /\ d.proposal = s.proposal /\ d.early = s.early
  BY Zenon, <1>1 DEF AutoStates, Phases
<1> HIDE DEF e, d
<1>5. Outcome(s, Early(s), do_nothing(e)) /\ Outcome(s, Early(s), do_nothing(d))
  BY Zenon, <1>3, <1>4, MovedAside, EarlyMono, DoNothing
<1>6. handle_expected_applied_proposal(s) \in {do_nothing(e), do_nothing(d)}
  BY Zenon DEF handle_expected_applied_proposal, e, d
<1>. QED
  BY Zenon, <1>2, <1>5, <1>6 DEF New_head_proposal

LEMMA PrequorumOutcome ==
  ASSUME NEW s \in AutoStates, NEW c
  PROVE  Outcome(s, Early(s), Prequorum_reached(s, c))
<1> DEFINE p == s.proposal
           better == \A a \in s.attestable : a.prequorum < p.round
           attestable == IF better THEN {[proposal |-> p, prequorum |-> p.round]} ELSE s.attestable
           m == [s EXCEPT !.attestable = attestable]
           k == [m EXCEPT !.locked = {[round |-> p.round, payload |-> p.payload]}]
           n == [k EXCEPT !.phase = "Awaiting_attestations"]
           e == [n EXCEPT !.early = {}]
           v == make_consensus_vote_batch(n, p)
           r == Prequorum_reached(s, c)
<1>1. p \in Proposals /\ p.round \in Nat /\ p.payload \in Payloads
  BY Zenon, ProposalFields DEF AutoStates
<1>2. r \in {do_nothing(s), Return(n, [type |-> "Prepare_attestations", vote |-> v]),
             Return(n, Watch_quorum),
             Return(e, [type |-> "Inject_attestations", votes |-> n.early])}
  BY Zenon DEF Prequorum_reached, prequorum_reached_when_awaiting_preattestations,
         update_locked_round, inject_early_arrived_attestations
<1>3. /\ attestable \in SUBSET Attestables
      /\ \E a \in attestable : a.prequorum >= p.round
  <2>1. CASE better
    <3> DEFINE a == [proposal |-> p, prequorum |-> p.round]
    <3>1. attestable = {a} /\ a.prequorum = p.round
      BY Zenon, <2>1
    <3>2. a \in Attestables
      BY Zenon, <1>1 DEF Attestables
    <3> HIDE DEF a, attestable
    <3>. QED
      BY <1>1, <3>1, <3>2
  <2>2. CASE ~better
    BY <1>1, <2>2 DEF AutoStates, Attestables
  <2>. QED
    BY Zenon, <2>1, <2>2
<1> HIDE DEF attestable, r
<1>4. /\ m \in AutoStates /\ m.level = s.level /\ m.proposal = p /\ m.early = s.early
      /\ m.attestable = attestable
  BY Zenon, <1>3 DEF AutoStates
<1> HIDE DEF m
<1>5. /\ k \in AutoStates /\ k.level = s.level /\ k.proposal = p /\ k.early = s.early
      /\ k.attestable = attestable /\ k.locked = {[round |-> p.round, payload |-> p.payload]}
  BY <1>1, <1>4 DEF AutoStates, LockedRounds
<1> HIDE DEF k
<1>6. /\ n \in AutoStates /\ n.level = s.level /\ n.proposal = p /\ n.early = s.early
      /\ n.attestable = attestable /\ n.locked = {[round |-> p.round, payload |-> p.payload]}
  BY Zenon, <1>5 DEF AutoStates, Phases
<1> HIDE DEF n
<1>7. /\ e \in AutoStates /\ e.level = n.level /\ e.locked = n.locked
      /\ e.attestable = n.attestable /\ e.proposal = n.proposal /\ e.early = {}
  BY Zenon, <1>6 DEF AutoStates
<1> HIDE DEF e
<1>8. Covers(n) /\ LockBelow(n)
  <2>1. \A l \in n.locked : l.round = p.round
    BY <1>6
  <2>. QED
    BY <1>1, <1>3, <1>6, <2>1 DEF Covers, LockBelow
<1>9. LockBelow(s) => NotUnlocked(s, n)
  <2>1. [round |-> p.round, payload |-> p.payload] \in n.locked
    BY Zenon, <1>6
  <2>2. ASSUME LockBelow(s), NEW l \in s.locked
        PROVE  \E j \in n.locked : j.round >= l.round
    <3>1. l.round <= p.round /\ l.round \in Nat
      BY Zenon, <2>2 DEF LockBelow, AutoStates, LockedRounds
    <3>2. [round |-> p.round, payload |-> p.payload].round >= l.round
      BY Zenon, <1>1, <3>1
    <3>. QED
      BY Zenon, <2>1, <3>2
  <2>. QED
    BY Zenon, <2>2 DEF NotUnlocked
<1>10. Moved(s, n)
  BY Zenon, <1>6, <1>8, <1>9 DEF Moved
<1>11. Moved(s, e)
  BY Zenon, <1>6, <1>7, <1>10, MovedAside, MovedTrans
<1>12. v \in VoteContents
  BY Zenon, <1>1, <1>6 DEF make_consensus_vote_batch, VoteContents, AutoStates
<1> HIDE DEF v
<1>13. Early(n) = Early(s) /\ Early(e) \subseteq Early(s)
  BY Zenon, <1>6, <1>7 DEF Early
<1>14. CASE r = do_nothing(s)
  BY Zenon, <1>14, MovedAside, DoNothing DEF r
<1>15. CASE r = Return(n, [type |-> "Prepare_attestations", vote |-> v])
  <2>1. r.st = n /\ r.act = [type |-> "Prepare_attestations", vote |-> v]
    BY Zenon, <1>15 DEF Return
  <2>2. r.act \in VoteRequests
    BY SMTT(30), <1>12, <2>1 DEF VoteRequests
  <2>. QED
    BY Zenon, <1>10, <1>13, <2>1, <2>2 DEF Outcome, r
<1>16. CASE r = Return(n, Watch_quorum)
  <2>1. r.st = n /\ r.act = Watch_quorum
    BY ZenonT(30), <1>16 DEF Return
  <2>. QED
    BY Zenon, <1>10, <1>13, <2>1 DEF Outcome, Quiet, r
<1>17. CASE r = Return(e, [type |-> "Inject_attestations", votes |-> n.early])
  <2>1. r.st = e /\ r.act = [type |-> "Inject_attestations", votes |-> n.early]
    BY Zenon, <1>17 DEF Return
  <2>2. n.early \in SUBSET VoteContents
    BY Zenon, <1>6 DEF AutoStates
  <2>3. r.act \in [type : {"Inject_attestations"}, votes : SUBSET VoteContents]
        /\ r.act.votes = n.early
    BY <2>1, <2>2
  <2>4. \A x \in r.act.votes : Vote("Attestation", x) \in Early(s)
    BY Zenon, <1>6, <2>3 DEF Early
  <2>. QED
    BY Zenon, <1>11, <1>13, <2>1, <2>3, <2>4 DEF Outcome, r
<1>. QED
  BY Zenon, <1>2, <1>14, <1>15, <1>16, <1>17

LEMMA QuorumOutcome ==
  ASSUME NEW s \in AutoStates, NEW c
  PROVE  Outcome(s, Early(s), Quorum_reached(s, c))
<1> DEFINE e == [s EXCEPT !.elected = {s.proposal}, !.phase = "Idle"]
           d == [s EXCEPT !.delayed = TRUE, !.phase = "Awaiting_application"]
<1>1. TRUE \in BOOLEAN
  BY Zenon
<1>2. Quorum_reached(s, c) \in {do_nothing(s), do_nothing(e), do_nothing(d)}
  <2>1. CASE c # s.proposal \/ s.elected # {}
    BY Zenon, <2>1 DEF Quorum_reached, quorum_reached_when_waiting_attestations
  <2>2. CASE c = s.proposal /\ s.elected = {} /\ s.applied
    BY Zenon, <2>2 DEF Quorum_reached, quorum_reached_when_waiting_attestations
  <2>3. CASE c = s.proposal /\ s.elected = {} /\ ~s.applied
    BY Zenon, <2>3 DEF Quorum_reached, quorum_reached_when_waiting_attestations
  <2>. QED
    BY Zenon, <2>1, <2>2, <2>3
<1>3. /\ e \in AutoStates /\ e.level = s.level /\ e.locked = s.locked
      /\ e.attestable = s.attestable /\ e.proposal = s.proposal /\ e.early = s.early
  BY Zenon DEF AutoStates, Phases
<1>4. /\ d \in AutoStates /\ d.level = s.level /\ d.locked = s.locked
      /\ d.attestable = s.attestable /\ d.proposal = s.proposal /\ d.early = s.early
  BY Zenon, <1>1 DEF AutoStates, Phases
<1> HIDE DEF e, d
<1>. QED
  BY Zenon, <1>2, <1>3, <1>4, MovedAside, EarlyMono, DoNothing

LEMMA ForgeOutcome ==
  ASSUME NEW s \in AutoStates, NEW e \in Requests
  PROVE  Outcome(s, Early(s) \cup {e}, handle_forge_event(s, e))
<1> DEFINE S == Early(s) \cup {e}
           r == handle_forge_event(s, e)
<1>0. Moved(s, s)
  BY Zenon, MovedAside
<1>1. CASE e.kind = "Block"
  <2>1. e \in [kind : {"Block"}, block : PreparedBlocks]
    BY Zenon, <1>1 DEF Requests
  <2>2. r.st = s /\ r.act = [type |-> "Inject_block", block |-> e.block]
    BY Zenon, <1>1 DEF handle_forge_event, Return
  <2>3. /\ r.act \in [type : {"Inject_block"}, block : PreparedBlocks]
        /\ [kind |-> "Block", block |-> r.act.block] = e
    BY SMTT(30), <2>1, <2>2
  <2>. QED
    BY Zenon, <1>0, <2>2, <2>3 DEF Outcome
<1>2. CASE e.kind = "Preattestation"
  <2>1. e \in [kind : {"Preattestation", "Attestation"}, vote : VoteContents]
    BY Zenon, <1>2 DEF Requests
  <2>2. r.st = s /\ r.act = [type |-> "Inject_preattestation", vote |-> e.vote]
    BY Zenon, <1>2 DEF handle_forge_event, Return
  <2>3. /\ r.act \in [type : {"Inject_preattestation"}, vote : VoteContents]
        /\ Vote("Preattestation", r.act.vote) = e
    BY <1>2, <2>1, <2>2 DEF Vote
  <2>. QED
    BY Zenon, <1>0, <2>2, <2>3 DEF Outcome
<1>3. CASE e.kind = "Attestation"
  <2> DEFINE k == [s EXCEPT !.early = s.early \cup {e.vote}]
             act == [type |-> "Inject_attestations", votes |-> {e.vote}]
  <2>1. e \in [kind : {"Preattestation", "Attestation"}, vote : VoteContents]
    BY Zenon, <1>3 DEF Requests
  <2>2. e.vote \in VoteContents /\ Vote("Attestation", e.vote) = e
    BY Zenon, <1>3, <2>1 DEF Vote
  <2>3. /\ k \in AutoStates /\ k.level = s.level /\ k.locked = s.locked
        /\ k.attestable = s.attestable /\ k.proposal = s.proposal
        /\ k.early = s.early \cup {e.vote}
    BY Zenon, <2>2 DEF AutoStates
  <2>4. r \in {do_nothing(s), do_nothing(k), Return(s, act)}
    BY Zenon, <1>3 DEF handle_forge_event, handle_arriving_attestation
  <2>5. act \in [type : {"Inject_attestations"}, votes : SUBSET VoteContents]
        /\ act.votes = {e.vote}
    BY Zenon, <2>2
  <2> HIDE DEF k, act, r
  <2>6. Early(k) \subseteq S
    BY Zenon, <2>2, <2>3 DEF Early
  <2>7. Outcome(s, S, do_nothing(s)) /\ Outcome(s, S, do_nothing(k))
    BY ZenonT(30), <1>0, <2>3, <2>6, MovedAside, DoNothing
  <2>8. Outcome(s, S, Return(s, act))
    <3>1. Return(s, act).st = s /\ Return(s, act).act = act
      BY Zenon DEF Return
    <3>. QED
      BY Zenon, <1>0, <2>2, <2>5, <3>1 DEF Outcome
  <2>. QED
    BY Zenon, <2>4, <2>7, <2>8 DEF r
<1>. QED
  BY Zenon, <1>1, <1>2, <1>3 DEF Requests

LEMMA FreshOutcome ==
  ASSUME NEW s \in AutoStates, NEW round \in Int
  PROVE  LET n == FreshRound(s, round)
         IN  Moved(s, n) /\ n.early = {} /\ n.attestable = s.attestable /\ n.proposal = s.proposal
<1> DEFINE k == [s EXCEPT !.round = round, !.phase = "Idle", !.delayed = FALSE]
           n == [k EXCEPT !.early = {}, !.awaiting = FALSE]
<1>0. FALSE \in BOOLEAN
  BY Zenon
<1>1. FreshRound(s, round) = n
  BY Zenon DEF FreshRound
<1>2. /\ k \in AutoStates /\ k.level = s.level /\ k.locked = s.locked
      /\ k.attestable = s.attestable /\ k.proposal = s.proposal
  BY Zenon, <1>0 DEF AutoStates, Phases
<1> HIDE DEF k
<1>3. /\ n \in AutoStates /\ n.level = s.level /\ n.locked = s.locked
      /\ n.attestable = s.attestable /\ n.proposal = s.proposal /\ n.early = {}
  BY Zenon, <1>0, <1>2 DEF AutoStates
<1> HIDE DEF n
<1>. QED
  BY Zenon, <1>1, <1>3, MovedAside

LEMMA RoundOutcome ==
  ASSUME NEW s \in AutoStates, NEW ending \in Int, NEW own
  PROVE  Outcome(s, Early(s), end_of_round(s, ending, own))
<1> DEFINE n == FreshRound(s, ending + 1)
           act == propose_block_action(n, ending + 1)
<1>1. end_of_round(s, ending, own) \in {Return(n, act), do_nothing(n)}
  BY Zenon DEF end_of_round
<1>2. Moved(s, n) /\ n.early = {}
  BY FreshOutcome
<1> HIDE DEF n
<1>3. n \in AutoStates
  BY Zenon, <1>2 DEF Moved
<1>4. act \in PreparedBlocks
  <2> DEFINE pred == IF n.attestable = {} THEN n.proposal.pred
                     ELSE (CHOOSE a \in n.attestable : TRUE).proposal.pred
  <2>1. pred \in Preds
    <3>1. CASE n.attestable = {}
      BY Zenon, <1>3, <3>1, ProposalFields DEF AutoStates
    <3>2. CASE n.attestable # {}
      <4>1. (CHOOSE a \in n.attestable : TRUE) \in n.attestable
        BY Zenon, <3>2
      <4>2. (CHOOSE a \in n.attestable : TRUE).proposal \in Proposals
        BY Zenon, <1>3, <4>1 DEF AutoStates, Attestables
      <4>. QED
        BY Zenon, <3>2, <4>2, ProposalFields
    <3>. QED
      BY Zenon, <3>1, <3>2
  <2>2. n.level \in Nat /\ n.attestable \in SUBSET Attestables
    BY Zenon, <1>3 DEF AutoStates
  <2>3. act = [type |-> "Prepare_block", level |-> n.level, round |-> ending + 1,
               pred |-> pred, repropose |-> n.attestable]
    BY Zenon DEF propose_block_action
  <2> HIDE DEF pred
  <2>. QED
    BY <2>1, <2>2, <2>3 DEF PreparedBlocks
<1> HIDE DEF act
<1>5. Early(n) \subseteq Early(s)
  BY Zenon, <1>2 DEF Early
<1>6. Return(n, act).st = n /\ Return(n, act).act = act
  BY Zenon DEF Return
<1>7. Outcome(s, Early(s), Return(n, act))
  BY Zenon, <1>2, <1>4, <1>5, <1>6 DEF Outcome
<1>8. Outcome(s, Early(s), do_nothing(n))
  BY ZenonT(30), <1>2, <1>5, DoNothing
<1>. QED
  BY Zenon, <1>1, <1>7, <1>8

LEMMA NextLevelOutcome ==
  ASSUME NEW s \in AutoStates, NEW at_round \in Int, s.elected # {}
  PROVE  Outcome(s, Early(s), time_to_prepare_next_level_block(s, at_round))
<1> DEFINE n == [s EXCEPT !.proposed = {at_round}]
           e == CHOOSE e \in s.elected : TRUE
           act == [type |-> "Prepare_block", level |-> s.level + 1, round |-> at_round,
                   pred |-> BlockInfo(e), repropose |-> {}]
           r == time_to_prepare_next_level_block(s, at_round)
<1>1. r = Return(n, act)
  BY Zenon DEF time_to_prepare_next_level_block
<1>2. e \in Proposals
  BY Zenon DEF AutoStates
<1> HIDE DEF e
<1>3. act \in PreparedBlocks
  <2>1. s.level + 1 \in Nat /\ BlockInfo(e) \in Preds
    BY <1>2 DEF AutoStates, Preds
  <2>. QED
    BY Zenon, <2>1 DEF PreparedBlocks
<1>4. /\ n \in AutoStates /\ n.level = s.level /\ n.locked = s.locked
      /\ n.attestable = s.attestable /\ n.proposal = s.proposal /\ n.early = s.early
  BY Zenon DEF AutoStates
<1>5. r.st = n /\ r.act = act
  BY SMTT(30), <1>1 DEF Return
<1> HIDE DEF n, act, r
<1>6. Moved(s, n) /\ Early(n) \subseteq Early(s)
  BY Zenon, <1>4, MovedAside, EarlyMono
<1>. QED
  BY Zenon, <1>3, <1>5, <1>6 DEF Outcome, r

--------------------------------------------------------------------------------
(* The action with its continuation.                                         *)

LEMMA OutcomeSends ==
  ASSUME NEW s, NEW S, NEW r, Outcome(s, S, r)
  PROVE  Sends(S, r.act)
BY Zenon DEF Outcome, Sends

LEMMA SendsEffects ==
  ASSUME NEW S, NEW act, Sends(S, act)
  PROVE  /\ NewRequests(act) \in Seq(Requests)
         /\ Injected(act) \subseteq S \cap Votes
         /\ act.type = "Inject_block" =>
              act.block \in PreparedBlocks /\ [kind |-> "Block", block |-> act.block] \in S
<1>1. CASE act \in Quiet
  <2>1. act.type \in {"Do_nothing", "Watch_prequorum", "Watch_quorum"}
    BY <1>1 DEF Quiet, Do_nothing, Watch_prequorum, Watch_quorum
  <2>. QED
    BY <2>1 DEF NewRequests, Injected
<1>2. CASE act \in VoteRequests
  <2>1. /\ act.type \in {"Prepare_consensus_votes", "Prepare_attestations"}
        /\ act.vote \in VoteContents
    BY Zenon, <1>2 DEF VoteRequests
  <2>2. /\ Vote("Preattestation", act.vote) \in Requests
        /\ Vote("Attestation", act.vote) \in Requests
    BY Zenon, <2>1 DEF Vote, Requests
  <2>3. Injected(act) = {}
    BY Zenon, <2>1 DEF Injected
  <2>4. NewRequests(act) \in Seq(Requests)
    <3>1. CASE act.type = "Prepare_consensus_votes"
      BY <2>2, <3>1 DEF NewRequests
    <3>2. CASE act.type = "Prepare_attestations"
      BY <2>2, <3>2 DEF NewRequests
    <3>. QED
      BY Zenon, <2>1, <3>1, <3>2
  <2>. QED
    BY Zenon, <2>1, <2>3, <2>4
<1>3. CASE act \in PreparedBlocks
  <2>1. act.type = "Prepare_block"
    BY Zenon, <1>3 DEF PreparedBlocks
  <2>2. [kind |-> "Block", block |-> act] \in Requests
    BY Zenon, <1>3 DEF Requests
  <2>. QED
    BY <2>1, <2>2 DEF NewRequests, Injected
<1>4. CASE act \in Moves
  <2>1. act.type \in {"Update_to_level", "Synchronize_round"}
    BY Zenon, <1>4 DEF Moves
  <2>. QED
    BY <2>1 DEF NewRequests, Injected
<1>5. CASE /\ act \in [type : {"Inject_attestations"}, votes : SUBSET VoteContents]
           /\ \A v \in act.votes : Vote("Attestation", v) \in S
  <2>1. act.type = "Inject_attestations" /\ act.votes \in SUBSET VoteContents
    BY Zenon, <1>5
  <2>2. Injected(act) = {Vote("Attestation", v) : v \in act.votes} /\ NewRequests(act) = <<>>
    BY Zenon, <2>1 DEF Injected, NewRequests
  <2>3. \A v \in act.votes : Vote("Attestation", v) \in Votes
    BY Zenon, <2>1 DEF Vote, Votes
  <2>. QED
    BY <1>5, <2>1, <2>2, <2>3
<1>6. CASE /\ act \in [type : {"Inject_preattestation"}, vote : VoteContents]
           /\ Vote("Preattestation", act.vote) \in S
  <2>1. act.type = "Inject_preattestation" /\ act.vote \in VoteContents
    BY Zenon, <1>6
  <2>2. Injected(act) = {Vote("Preattestation", act.vote)} /\ NewRequests(act) = <<>>
    BY Zenon, <2>1 DEF Injected, NewRequests
  <2>3. Vote("Preattestation", act.vote) \in Votes
    BY Zenon, <2>1 DEF Vote, Votes
  <2>. QED
    BY <1>6, <2>1, <2>2, <2>3
<1>7. CASE /\ act \in [type : {"Inject_block"}, block : PreparedBlocks]
           /\ [kind |-> "Block", block |-> act.block] \in S
  <2>1. act.type = "Inject_block" /\ act.block \in PreparedBlocks
    BY Zenon, <1>7
  <2>. QED
    BY <1>7, <2>1 DEF NewRequests, Injected
<1>. QED
  BY Zenon, <1>1, <1>2, <1>3, <1>4, <1>5, <1>6, <1>7 DEF Sends

\* Only a prequorum changes the lock.
LEMMA ProposalKeepsLock ==
  ASSUME NEW s \in AutoStates, NEW p \in Proposals, NEW applied \in BOOLEAN
  PROVE  handle_proposal(s, p, applied).st.locked = s.locked
<1> DEFINE a == may_update_attestable_payload_with_internal_pqc(s, p)
           n == may_update_proposal(a, p, applied)
           e == [n EXCEPT !.early = {}]
           w == [e EXCEPT !.awaiting = TRUE, !.phase = "Awaiting_preattestations"]
           u == update_proposal(s, p, applied)
           b == [s EXCEPT !.applied = TRUE]
<1>1. Moved(s, a) /\ a.locked = s.locked
  BY Zenon, AttestableUpdated
<1>2. a \in AutoStates
  BY Zenon, <1>1 DEF Moved
<1> HIDE DEF a
<1>3. Moved(a, n) /\ n.locked = s.locked
  BY Zenon, <1>1, <1>2, MayProposalUpdated
<1>4. n \in AutoStates
  BY Zenon, <1>3 DEF Moved
<1> HIDE DEF n
<1>5. e.locked = s.locked /\ w.locked = s.locked
  BY Zenon, <1>3, <1>4 DEF AutoStates
<1>6. u.locked = s.locked /\ b.locked = s.locked
  BY Zenon DEF AutoStates, update_proposal
<1>7. may_vote(e, p).st.locked = s.locked
  <2>1. e \in AutoStates
    BY Zenon, <1>4 DEF AutoStates
  <2> HIDE DEF e
  <2>2. may_vote(e, p).st \in {e, [e EXCEPT !.phase = "Idle"],
                              [e EXCEPT !.phase = "Awaiting_preattestations"]}
    BY Zenon DEF may_vote, prepare_consensus_votes, do_nothing, Return
  <2>3. \A x : [e EXCEPT !.phase = x].locked = e.locked
    BY Zenon, <2>1 DEF AutoStates
  <2>. QED
    BY Zenon, <1>5, <2>2, <2>3
<1> HIDE DEF u, b, e, w
<1>8. HandleSameBranch(s, p, applied).st.locked = s.locked
  <2>1. HandleSameBranch(s, p, applied) \in
          {do_nothing(s), do_nothing(n), may_vote(e, p), Return(w, Watch_prequorum)}
    <3>1. HandleOutdated(s, p, applied) = do_nothing(n)
      BY Zenon DEF HandleOutdated, n, a
    <3>2. HandleValid(s, p, applied) \in {may_vote(e, p), Return(w, Watch_prequorum)}
      BY Zenon DEF HandleValid, w, e, n, a
    <3>3. ~(IsInvalid(s, p) /\ IsOutdated(s, p))
      <4>1. s.round \in Int /\ p.round \in Nat
        BY Zenon, ProposalFields DEF AutoStates
      <4>. QED
        BY <4>1 DEF IsInvalid, IsOutdated
    <3>. QED
      BY Zenon, <3>1, <3>2, <3>3 DEF HandleSameBranch
  <2>2. do_nothing(s).st = s /\ do_nothing(n).st = n /\ Return(w, Watch_prequorum).st = w
    BY Zenon DEF do_nothing, Return
  <2>. QED
    BY Zenon, <1>3, <1>5, <1>7, <2>1, <2>2
<1>9. may_switch_branch(s, p, applied).st \in {s, u}
  BY Zenon DEF may_switch_branch, do_nothing, Return, u
<1>10. p.level \in Nat /\ s.level \in Nat
  BY Zenon, ProposalFields DEF AutoStates
<1>11. \/ handle_proposal(s, p, applied).st \in {s, b}
       \/ handle_proposal(s, p, applied) = may_switch_branch(s, p, applied)
       \/ handle_proposal(s, p, applied) = HandleSameBranch(s, p, applied)
  <2>1. CASE applied /\ p = s.proposal
    BY Zenon, <2>1 DEF handle_proposal, do_nothing, Return, b
  <2>2. CASE ~(applied /\ p = s.proposal) /\ p.level < s.level
    BY <1>10, <2>2 DEF handle_proposal, do_nothing, Return
  <2>3. CASE ~(applied /\ p = s.proposal) /\ p.level > s.level
    BY <1>10, <2>3 DEF handle_proposal, do_nothing, Return
  <2>4. CASE ~(applied /\ p = s.proposal) /\ p.level = s.level /\ p.pred # s.proposal.pred
    BY <1>10, <2>4 DEF handle_proposal
  <2>5. CASE ~(applied /\ p = s.proposal) /\ p.level = s.level /\ p.pred = s.proposal.pred
    BY SMTT(30), <1>10, <2>5 DEF handle_proposal
  <2>. QED
    BY <1>10, <2>1, <2>2, <2>3, <2>4, <2>5
<1>. QED
  BY Zenon, <1>6, <1>8, <1>9, <1>11

LEMMA ContinueSettles ==
  ASSUME NEW s \in AutoStates, NEW S, NEW r, Outcome(s, S, r), clock \in Nat
  PROVE  Settled(s, S, r, Continue(r))
<1>0. r.st \in AutoStates /\ r.st.level = s.level /\ Moved(s, r.st)
  BY Zenon DEF Outcome, Moved
<1>1. CASE r.act.type = "Update_to_level"
  <2> DEFINE p == r.act.proposal
             applied == r.act.applied
             round == compute_round(p)
             L == LevelState(p, applied, round)
             d == handle_proposal(L, p, applied)
  <2>1. r.act \in Moves /\ p.level > s.level
    BY <1>1 DEF Outcome, Quiet, VoteRequests, PreparedBlocks, Do_nothing, Watch_prequorum,
                Watch_quorum
  <2>2. p \in Proposals /\ applied \in BOOLEAN
    BY Zenon, <2>1 DEF Moves
  <2>3. p.level \in Nat /\ round \in Int
    BY <2>2, ProposalsAssumption DEF compute_round
  <2>4. Continue(r) = d
    BY Zenon, <1>1 DEF Continue, compute_new_state
  <2> HIDE DEF p, applied, round
  <2>5. L \in AutoStates /\ L.level = p.level /\ L.early = {} /\ L.locked = {}
    <3>1. FALSE \in BOOLEAN
      BY Zenon
    <3>. QED
      BY Zenon, <2>2, <2>3, <3>1 DEF LevelState, AutoStates, Phases
  <2> HIDE DEF L
  <2>6. Outcome(L, Early(L), d)
    BY Zenon, <2>2, <2>5, ProposalOutcome
  <2> HIDE DEF d
  <2>7. Covers(L) /\ LockBelow(L) /\ Early(L) = {}
    BY Zenon, <2>5 DEF Covers, LockBelow, Early
  <2>8. d.st \in AutoStates /\ d.st.level = p.level /\ Covers(d.st) /\ LockBelow(d.st)
    BY Zenon, <2>5, <2>6, <2>7 DEF Outcome, Moved
  <2>9. Early(d.st) \subseteq S
    BY Zenon, <2>6, <2>7 DEF Outcome
  <2>10. Sends(S, d.act)
    <3>1. Sends(Early(L), d.act)
      BY Zenon, <2>6, OutcomeSends
    <3>. QED
      BY Zenon, <2>7, <3>1 DEF Sends
  <2>11. d.st.level # s.level
    <3>1. s.level \in Nat
      BY Zenon DEF AutoStates
    <3>. QED
      BY <2>1, <2>3, <2>8, <3>1
  <2>. QED
    BY ZenonT(30), <2>4, <2>8, <2>9, <2>10, <2>11 DEF Settled
<1>2. CASE r.act.type = "Synchronize_round"
  <2> DEFINE p == r.act.proposal
             applied == r.act.applied
             round == compute_round(p)
             F == FreshRound(r.st, round)
             d == handle_proposal(F, p, applied)
  <2>1. r.act \in Moves
    BY <1>2 DEF Outcome, Quiet, VoteRequests, PreparedBlocks, Do_nothing, Watch_prequorum,
                Watch_quorum
  <2>2. p \in Proposals /\ applied \in BOOLEAN
    BY Zenon, <2>1 DEF Moves
  <2>3. p.level \in Nat /\ round \in Int
    BY <2>2, ProposalsAssumption DEF compute_round
  <2>4. Continue(r) = d
    BY Zenon, <1>2 DEF Continue, synchronized
  <2> HIDE DEF p, applied, round
  <2>5. Moved(r.st, F) /\ F.early = {} /\ F \in AutoStates
    BY Zenon, <1>0, <2>3, FreshOutcome DEF Moved
  <2>6. F.locked = r.st.locked
    BY Zenon, <1>0 DEF FreshRound, AutoStates
  <2> HIDE DEF F
  <2>7. Moved(s, F)
    BY Zenon, <1>0, <2>5, MovedTrans
  <2>8. Outcome(F, Early(F), d) /\ d.st.locked = F.locked
    BY Zenon, <2>2, <2>5, ProposalOutcome, ProposalKeepsLock
  <2> HIDE DEF d
  <2>9. Early(F) \subseteq S
    BY Zenon, <2>5 DEF Early
  <2>10. Outcome(s, S, d)
    BY Zenon, <2>7, <2>8, <2>9, OutcomeAfter
  <2>11. Sends(S, d.act)
    BY ZenonT(30), <2>10, OutcomeSends
  <2>. QED
    BY ZenonT(30), <2>4, <2>6, <2>8, <2>10, <2>11 DEF Settled, Outcome, Moved
<1>3. CASE r.act.type \notin {"Update_to_level", "Synchronize_round"}
  <2>1. Continue(r) = r
    BY Zenon, <1>3 DEF Continue
  <2>2. Sends(S, r.act)
    BY Zenon, OutcomeSends
  <2>. QED
    BY Zenon, <1>0, <2>1, <2>2 DEF Settled, Outcome, Moved
<1>. QED
  BY Zenon, <1>1, <1>2, <1>3

--------------------------------------------------------------------------------
(* What an action leaves in the queues.                                      *)

LEMMA ConcatEntries ==
  ASSUME NEW T, NEW q \in Seq(T), NEW t \in Seq(T)
  PROVE  Entries(q \o t) \subseteq Entries(q) \cup Entries(t)
<1>1. /\ DOMAIN q = 1 .. Len(q) /\ DOMAIN t = 1 .. Len(t) /\ Len(q) \in Nat /\ Len(t) \in Nat
      /\ DOMAIN (q \o t) = 1 .. (Len(q) + Len(t))
      /\ \A i \in 1 .. (Len(q) + Len(t)) :
           (q \o t)[i] = IF i <= Len(q) THEN q[i] ELSE t[i - Len(q)]
  OBVIOUS
<1>2. ASSUME NEW i \in DOMAIN (q \o t)
      PROVE  (q \o t)[i] \in Entries(q) \cup Entries(t)
  <2>1. CASE i <= Len(q)
    <3>1. i \in DOMAIN q /\ (q \o t)[i] = q[i]
      BY <1>1, <2>1
    <3>. QED
      BY Zenon, <3>1 DEF Entries
  <2>2. CASE ~(i <= Len(q))
    <3>1. i - Len(q) \in DOMAIN t /\ (q \o t)[i] = t[i - Len(q)]
      BY SMTT(30), <1>1, <2>2
    <3>. QED
      BY Zenon, <3>1 DEF Entries
  <2>. QED
    BY Zenon, <2>1, <2>2
<1>. QED
  BY Zenon, <1>2 DEF Entries

\* The effects of an action with its continuation d, sent in full or in part.
LEMMA CompleteActs ==
  ASSUME TypeInv, NEW d, NewRequests(d.act) \in Seq(Requests), NEW injected,
         injected \subseteq Injected(d.act), Complete(d, injected),
         Entries(ready') \subseteq Entries(ready)
  PROVE  Acted(d.st, d.act)
<1>1. requests \in Seq(Requests) /\ signing \in Seq(Requests)
  BY Zenon DEF TypeInv
<1>2. PICK q : q = NewRequests(d.act)
  BY Zenon
<1>3. Entries(requests') \subseteq Entries(requests) \cup Entries(q)
  BY Zenon, <1>1, <1>2, ConcatEntries DEF Complete
<1>4. Entries(signing') \subseteq Entries(signing)
  <2>1. CASE signing' = signing
    BY Zenon, <2>1
  <2>2. CASE signing # <<>> /\ signing' = <<Head(signing)>>
    <3>1. Head(signing) = signing[1] /\ 1 \in DOMAIN signing
      BY <1>1, <2>2
    <3>2. Entries(<<Head(signing)>>) = {Head(signing)}
      BY DEF Entries
    <3>3. Entries(signing') = {Head(signing)} /\ Head(signing) \in Entries(signing)
      BY Zenon, <2>2, <3>1, <3>2 DEF Entries
    <3>. QED
      BY Zenon, <3>3
  <2>. QED
    BY Zenon, <2>1, <2>2 DEF Complete
<1>5. Pending' \subseteq Pending \cup Asked(d.act)
  <2>1. Asked(d.act) = {r \in Entries(q) : r.kind # "Block"}
    BY Zenon, <1>2 DEF Asked
  <2>2. Pending' = {r \in Entries(requests') \cup Entries(signing') \cup Entries(ready') :
                      r.kind # "Block"}
    BY Zenon DEF Pending
  <2>. QED
    BY Zenon, <1>3, <1>4, <2>1, <2>2 DEF Pending
<1>. QED
  BY Zenon, <1>5 DEF Acted, Complete

--------------------------------------------------------------------------------
(* One iteration of the loop, when the signatures S are at hand.             *)

LEMMA PerformEffect ==
  ASSUME TypeInv, NEW S, NEW r, Outcome(st, S, r), perform_action(r)
  PROVE  Performed(S)
<1>0. PICK s : s = st
  OBVIOUS
<1>1. PICK d : d = Continue(r)
  BY ZenonT(30)
<1>2. s \in AutoStates /\ clock \in Nat /\ Outcome(s, S, r)
  BY Zenon, <1>0 DEF TypeInv
<1>3. Settled(s, S, r, d)
  BY Zenon, <1>1, <1>2, ContinueSettles
<1>4. /\ NewRequests(d.act) \in Seq(Requests)
      /\ Injected(d.act) \subseteq S \cap Votes
      /\ d.act.type = "Inject_block" =>
           d.act.block \in PreparedBlocks /\ [kind |-> "Block", block |-> d.act.block] \in S
  BY Zenon, <1>3, SendsEffects DEF Settled
<1>5. /\ stepped' = r.st /\ loop' = "record" /\ clock' = clock /\ hwm' = hwm /\ disk' = disk
      /\ faults' = faults \/ (faults < MaxFaults /\ faults' = faults + 1)
  BY Zenon DEF perform_action
<1>6. \/ /\ st' = d.st /\ requests' = requests \o NewRequests(d.act)
         /\ signing' = IF d.cancel /\ signing # <<>> THEN <<Head(signing)>> ELSE signing
         /\ votes' \subseteq votes \cup Injected(d.act)
         /\ blocks' = blocks \cup (IF d.act.type = "Inject_block" THEN {d.act.block} ELSE {})
      \/ /\ st' = r.st /\ requests' = requests /\ signing' = signing
         /\ votes' = votes /\ blocks' = blocks
  BY ZenonT(30), <1>1 DEF perform_action, Complete, Fail
<1>7. /\ r.st \in AutoStates /\ r.st.level = s.level /\ Early(r.st) \subseteq S
      /\ Covers(s) => Covers(r.st)
      /\ Covers(s) /\ LockBelow(s) => LockBelow(r.st) /\ NotUnlocked(s, r.st)
  BY Zenon, <1>2 DEF Outcome, Moved
<1>8. st' = d.st \/ st' = r.st
  BY Zenon, <1>6
<1>9. /\ st' \in AutoStates /\ stepped' \in AutoStates
      /\ Early(st') \subseteq S /\ Early(stepped') \subseteq S
      /\ Covers(s) => Covers(st') /\ Covers(stepped')
      /\ Covers(s) /\ LockBelow(s) =>
           /\ LockBelow(st') /\ LockBelow(stepped')
           /\ st'.level = s.level => NotUnlocked(s, st')
      /\ stepped'.level = st'.level => stepped'.locked = st'.locked
  <2>1. PICK n : n = st'
    OBVIOUS
  <2>2. PICK m : m = stepped'
    BY Zenon
  <2>3. m = r.st /\ (n = d.st \/ n = r.st)
    BY Zenon, <1>5, <1>8, <2>1, <2>2
  <2>4. /\ n \in AutoStates /\ m \in AutoStates
        /\ Early(n) \subseteq S /\ Early(m) \subseteq S
        /\ Covers(s) => Covers(n) /\ Covers(m)
        /\ Covers(s) /\ LockBelow(s) =>
             /\ LockBelow(n) /\ LockBelow(m)
             /\ n.level = s.level => NotUnlocked(s, n)
        /\ m.level = n.level => m.locked = n.locked
    BY Zenon, <1>3, <1>7, <2>3 DEF Settled
  <2>. QED
    BY Zenon, <2>1, <2>2, <2>4
<1>10. requests' \in Seq(Requests)
  <2>1. requests \in Seq(Requests)
    BY Zenon DEF TypeInv
  <2>2. \A q, t \in Seq(Requests) : q \o t \in Seq(Requests)
    BY SMTT(30)
  <2>3. requests \o NewRequests(d.act) \in Seq(Requests)
    BY Zenon, <1>4, <2>1, <2>2
  <2>. QED
    BY Zenon, <1>6, <2>1, <2>3
<1>11. signing' \in Seq(Requests) /\ Entries(signing') \subseteq Entries(signing)
  <2>1. CASE signing' = signing
    BY Zenon, <2>1 DEF TypeInv
  <2>2. CASE signing # <<>> /\ signing' = <<Head(signing)>>
    <3>1. Head(signing) \in Requests /\ Head(signing) = signing[1] /\ 1 \in DOMAIN signing
      BY <2>2 DEF TypeInv
    <3>2. Entries(<<Head(signing)>>) = {Head(signing)}
      BY DEF Entries
    <3>3. Entries(signing') = {Head(signing)} /\ Head(signing) \in Entries(signing)
      BY Zenon, <2>2, <3>1, <3>2 DEF Entries
    <3>. QED
      BY SMTT(30), <2>2, <3>1, <3>3
  <2>. QED
    BY Zenon, <1>6, <2>1, <2>2
<1>12. /\ votes' \subseteq votes \cup (S \cap Votes)
       /\ \A b \in blocks' : b \in blocks
                               \/ (b \in PreparedBlocks /\ [kind |-> "Block", block |-> b] \in S)
  BY Zenon, <1>4, <1>6
<1>13. faults' \in Nat /\ (faults' # faults => faults < MaxFaults)
  BY <1>5 DEF TypeInv
<1>. QED
  BY Zenon, <1>0, <1>5, <1>9, <1>10, <1>11, <1>12, <1>13 DEF Performed

LEMMA OutcomeWider ==
  ASSUME NEW s \in AutoStates, NEW S, NEW T, S \subseteq T, NEW r, Outcome(s, S, r)
  PROVE  Outcome(s, T, r)
BY Zenon, MovedAside, OutcomeAfter

LEMMA TailEntries ==
  ASSUME NEW T, NEW q \in Seq(T), q # <<>>
  PROVE  /\ Tail(q) \in Seq(T) /\ Head(q) \in T
         /\ Entries(Tail(q)) \subseteq Entries(q) /\ Head(q) \in Entries(q)
<1>1. /\ Tail(q) \in Seq(T) /\ Head(q) \in T /\ Head(q) = q[1] /\ 1 \in DOMAIN q
      /\ \A i \in DOMAIN Tail(q) : i + 1 \in DOMAIN q /\ Tail(q)[i] = q[i + 1]
  OBVIOUS
<1>. QED
  BY <1>1 DEF Entries

LEMMA IterationPerforms ==
  ASSUME TypeInv, NEW S, S = Authorized, Iteration
  PROVE  /\ Performed(S) /\ head' \in Proposals
         /\ ready' \in Seq(Requests) /\ Entries(ready') \subseteq Entries(ready)
<1>0. /\ st \in AutoStates /\ head \in Proposals /\ ready \in Seq(Requests)
      /\ Early(st) \subseteq S /\ Entries(ready) \subseteq S
  BY Zenon DEF TypeInv, Authorized
<1>1. ASSUME NEW r, perform_action(r), Outcome(st, Early(st), r)
      PROVE  Performed(S)
  BY Zenon, <1>0, <1>1, OutcomeWider, PerformEffect
<1>2. ASSUME NEW p \in Proposals, NewValidProposal(p)
      PROVE  Performed(S) /\ head' = head /\ ready' = ready
  <2>1. PICK r : r = New_valid_proposal(st, p)
    OBVIOUS
  <2>2. perform_action(r)
    BY Zenon, <1>2, <2>1 DEF NewValidProposal
  <2>3. Outcome(st, Early(st), r)
    BY Zenon, <1>0, <2>1, ValidOutcome
  <2>. QED
    BY Zenon, <1>1, <1>2, <2>2, <2>3 DEF NewValidProposal, node
<1>3. ASSUME NEW p \in Proposals, NewHeadProposal(p)
      PROVE  Performed(S) /\ head' = p /\ ready' = ready
  <2>1. PICK r : r = New_head_proposal(st, p)
    OBVIOUS
  <2>2. perform_action(r)
    BY Zenon, <1>3, <2>1 DEF NewHeadProposal
  <2>3. Outcome(st, Early(st), r)
    BY Zenon, <1>0, <2>1, HeadOutcome
  <2>. QED
    BY Zenon, <1>1, <1>3, <2>2, <2>3 DEF NewHeadProposal
<1>4. CASE QCReached
  <2>1. PICK c : c = Head(qc).candidate
    OBVIOUS
  <2>2. PICK r : r = IF Head(qc).kind = "Preattestation" THEN Prequorum_reached(st, c)
                     ELSE Quorum_reached(st, c)
    BY Zenon
  <2>3. perform_action(r)
    BY Zenon, <1>4, <2>1, <2>2 DEF QCReached
  <2>4. Outcome(st, Early(st), r)
    BY Zenon, <1>0, <2>2, PrequorumOutcome, QuorumOutcome
  <2>. QED
    BY Zenon, <1>0, <1>1, <1>4, <2>3, <2>4 DEF QCReached, node
<1>5. CASE NewForgeEvent
  <2>1. PICK e : e = Head(ready)
    OBVIOUS
  <2>2. PICK r : r = handle_forge_event(st, e)
    OBVIOUS
  <2>3. perform_action(r)
    BY Zenon, <1>5, <2>1, <2>2 DEF NewForgeEvent
  <2>4. /\ ready' \in Seq(Requests) /\ Entries(ready') \subseteq Entries(ready)
        /\ e \in Requests /\ e \in Entries(ready) /\ head' = head
    BY Zenon, <1>0, <1>5, <2>1, TailEntries DEF NewForgeEvent, node
  <2>5. Outcome(st, Early(st) \cup {e}, r)
    BY Zenon, <1>0, <2>2, <2>4, ForgeOutcome
  <2>6. Early(st) \cup {e} \subseteq S
    BY Zenon, <1>0, <2>4
  <2>7. Outcome(st, S, r)
    BY Zenon, <1>0, <2>5, <2>6, OutcomeWider
  <2>. QED
    BY Zenon, <1>0, <2>3, <2>4, <2>7, PerformEffect
<1>6. CASE Timeout
  <2>1. PICK t \in timer :
          IF t.kind = "End_of_round"
          THEN perform_action(end_of_round(st, t.round, round_proposer(st.level, t.round + 1)))
          ELSE perform_action(time_to_prepare_next_level_block(st, t.round))
    BY Zenon, <1>6 DEF Timeout
  <2>2. t.round \in Int /\ (t.kind # "End_of_round" => st.elected # {})
    BY Zenon, <1>6 DEF Timeout, TypeInv
  <2>3. PICK own : own = round_proposer(st.level, t.round + 1)
    OBVIOUS
  <2>4. PICK r : r = IF t.kind = "End_of_round" THEN end_of_round(st, t.round, own)
                     ELSE time_to_prepare_next_level_block(st, t.round)
    OBVIOUS
  <2>5. perform_action(r)
    BY Zenon, <2>1, <2>3, <2>4
  <2>6. Outcome(st, Early(st), r)
    BY Zenon, <1>0, <2>2, <2>4, RoundOutcome, NextLevelOutcome
  <2>. QED
    BY Zenon, <1>0, <1>1, <1>6, <2>5, <2>6 DEF Timeout, node
<1>7. CASE Bootstrap
  <2>1. PICK own : own = round_proposer(st.level, st.round)
    BY Zenon
  <2>2. PICK r : r = IF st.proposal.round = st.round THEN New_head_proposal(st, st.proposal)
                     ELSE end_of_round(st, st.round - 1, own)
    BY Zenon
  <2>3. perform_action(r)
    BY Zenon, <1>7, <2>1, <2>2 DEF Bootstrap
  <2>4. st.proposal \in Proposals /\ st.round - 1 \in Int
    BY SMTT(30), <1>0 DEF AutoStates
  <2>5. Outcome(st, Early(st), r)
    BY Zenon, <1>0, <2>2, <2>4, HeadOutcome, RoundOutcome
  <2>. QED
    BY Zenon, <1>0, <1>1, <1>7, <2>3, <2>5 DEF Bootstrap, node
<1>. QED
  BY ZenonT(30), <1>0, <1>2, <1>3, <1>4, <1>5, <1>6, <1>7 DEF Iteration

LEMMA IterationKeeps ==
  ASSUME TypeInv, Iteration
  PROVE  TypeInv' /\ Authorized' \subseteq Authorized
<1>1. PICK S : S = Authorized
  OBVIOUS
<1>2. /\ Performed(S) /\ head' \in Proposals
      /\ ready' \in Seq(Requests) /\ Entries(ready') \subseteq Entries(ready)
  BY Zenon, <1>1, IterationPerforms
<1>3. votes' \in SUBSET Votes /\ blocks' \in SUBSET PreparedBlocks
  BY ZenonT(30), <1>2 DEF Performed, TypeInv
<1>4. TypeInv'
  BY Zenon, <1>2, <1>3 DEF Performed, TypeInv
<1>5. /\ {r \in Entries(signing') : r.kind # "Block"} \subseteq S
      /\ Entries(ready') \subseteq S /\ votes' \subseteq S
      /\ {[kind |-> "Block", block |-> b] : b \in blocks'} \subseteq S
  BY Zenon, <1>1, <1>2 DEF Performed, Authorized
<1>6. Early(st') \subseteq S /\ Early(stepped') \subseteq S
  BY Zenon, <1>2 DEF Performed
<1>7. Authorized' = {r \in Entries(signing') : r.kind # "Block"} \cup Entries(ready')
                      \cup Early(st') \cup Early(stepped') \cup votes'
                      \cup {[kind |-> "Block", block |-> b] : b \in blocks'}
  BY Zenon DEF Authorized
<1>. QED
  BY Zenon, <1>1, <1>4, <1>5, <1>6, <1>7

--------------------------------------------------------------------------------
(* The watermarks.                                                           *)

LEMMA PlaceType ==
  ASSUME NEW r \in Requests
  PROVE  r.kind \in Kinds /\ Place(r) \in Nat \X Int
<1>1. CASE r \in Votes
  BY <1>1 DEF Votes, VoteContents, Kinds, Place
<1>2. CASE r \in [kind : {"Block"}, block : PreparedBlocks]
  BY Zenon, <1>2 DEF PreparedBlocks, Kinds, Place
<1>. QED
  BY Zenon, <1>1, <1>2 DEF Requests, Votes

LEMMA GuardedFewer ==
  ASSUME NEW H, NEW A, Guarded(H, A), NEW B, B \subseteq A
  PROVE  Guarded(H, B)
BY Zenon DEF Guarded

\* A signature above the watermark is the only one at its place.
LEMMA GuardedMore ==
  ASSUME NEW H \in [Kinds -> SUBSET (Nat \X Int)], NEW A \in SUBSET Requests, Guarded(H, A),
         NEW r \in Requests,
         \A m \in H[r.kind] : m[1] < Place(r)[1] \/ (m[1] = Place(r)[1] /\ m[2] < Place(r)[2]),
         NEW B, B \subseteq A \cup {r}
  PROVE  Guarded([H EXCEPT ![r.kind] = {Place(r)}], B)
<1> DEFINE K == [H EXCEPT ![r.kind] = {Place(r)}]
<1>1. r.kind \in Kinds /\ Place(r) \in Nat \X Int
  BY Zenon, PlaceType
<1>2. K[r.kind] = {Place(r)} /\ \A k \in Kinds : k # r.kind => K[k] = H[k]
  BY Zenon, <1>1
<1> HIDE DEF K
<1>3. ASSUME NEW x \in A, x.kind = r.kind
      PROVE  /\ Place(x) # Place(r)
             /\ \/ Place(x)[1] < Place(r)[1]
                \/ Place(x)[1] = Place(r)[1] /\ Place(x)[2] <= Place(r)[2]
  <2>1. Place(x) \in Nat \X Int
    BY Zenon, PlaceType
  <2>2. PICK m \in H[r.kind] : Place(x)[1] < m[1] \/ (Place(x)[1] = m[1] /\ Place(x)[2] <= m[2])
    BY Zenon, <1>3 DEF Guarded
  <2>3. m \in Nat \X Int
    BY Zenon, <1>1
  <2>4. m[1] < Place(r)[1] \/ (m[1] = Place(r)[1] /\ m[2] < Place(r)[2])
    BY Zenon, <2>2
  <2>. QED
    BY SMTT(30), <1>1, <2>1, <2>2, <2>3, <2>4
<1>4. ASSUME NEW x \in B
      PROVE  \E m \in K[x.kind] :
               Place(x)[1] < m[1] \/ (Place(x)[1] = m[1] /\ Place(x)[2] <= m[2])
  <2>1. CASE x = r
    BY SMTT(30), <1>1, <1>2, <2>1
  <2>2. CASE x \in A /\ x.kind = r.kind
    BY Zenon, <1>2, <1>3, <2>2
  <2>3. CASE x \in A /\ x.kind # r.kind
    <3>1. x.kind \in Kinds
      BY Zenon, <2>3, PlaceType
    <3>. QED
      BY Zenon, <1>2, <2>3, <3>1 DEF Guarded
  <2>. QED
    BY Zenon, <2>1, <2>2, <2>3
<1>5. ASSUME NEW x \in B, NEW y \in B, x.kind = y.kind, Place(x) = Place(y)
      PROVE  x = y
  BY Zenon, <1>3, <1>5 DEF Guarded
<1>6. Guarded(K, B)
  BY Zenon, <1>4, <1>5 DEF Guarded
<1>. QED
  BY Zenon, <1>6 DEF K

LEMMA AuthorizedType ==
  ASSUME TypeInv
  PROVE  Authorized \in SUBSET Requests
<1>1. Votes \subseteq Requests
  BY Zenon DEF Votes, Requests
<1>2. \A s \in AutoStates : Early(s) \subseteq Votes
  BY SMTT(30) DEF AutoStates, Early, Vote, Votes
<1>3. \A b \in PreparedBlocks : [kind |-> "Block", block |-> b] \in Requests
  BY Zenon DEF Requests
<1>4. Entries(signing) \subseteq Requests /\ Entries(ready) \subseteq Requests
  BY DEF TypeInv, Entries
<1>. QED
  BY ZenonT(30), <1>1, <1>2, <1>3, <1>4 DEF TypeInv, Authorized

LEMMA AppendEntries ==
  ASSUME NEW T, NEW q \in Seq(T), NEW e \in T
  PROVE  Append(q, e) \in Seq(T) /\ Entries(Append(q, e)) = Entries(q) \cup {e}
<1>1. /\ Append(q, e) \in Seq(T) /\ DOMAIN q = 1 .. Len(q) /\ Len(q) \in Nat
      /\ DOMAIN Append(q, e) = 1 .. (Len(q) + 1) /\ Append(q, e)[Len(q) + 1] = e
      /\ \A i \in DOMAIN q : Append(q, e)[i] = q[i]
  OBVIOUS
<1>. QED
  BY <1>1 DEF Entries

--------------------------------------------------------------------------------
(* The other steps.                                                          *)

LEMMA ProcessRequestStep ==
  ASSUME TypeInv, ProcessRequest
  PROVE  /\ TypeInv'
         /\ (hwm' = hwm /\ Authorized' \subseteq Authorized) \/ \E r : Authorizes(r)
<1>1. PICK r : r = Head(requests)
  BY Zenon
<1>2. r \in Requests /\ requests' \in Seq(Requests)
  BY Zenon, <1>1, TailEntries DEF TypeInv, ProcessRequest
<1>3. /\ UNCHANGED <<st, loop, stepped, timer, clock, head, ready, disk, votes, blocks, faults>>
      /\ signing \in Seq(Requests) /\ hwm \in [Kinds -> SUBSET (Nat \X Int)]
  BY ZenonT(30) DEF ProcessRequest, TypeInv, automaton, node, history
<1>4. ASSUME signing' \in Seq(Requests), hwm' \in [Kinds -> SUBSET (Nat \X Int)]
      PROVE  TypeInv'
  BY Zenon, <1>2, <1>3, <1>4 DEF TypeInv
<1>5. CASE r.kind = "Block"
  <2>1. signing' = Append(signing, r) /\ hwm' = hwm
    BY Zenon, <1>1, <1>5 DEF ProcessRequest
  <2>2. signing' \in Seq(Requests) /\ Entries(signing') = Entries(signing) \cup {r}
    BY SMTT(30), <1>2, <1>3, <2>1, AppendEntries
  <2>3. Authorized' \subseteq Authorized
    BY ZenonT(30), <1>3, <1>5, <2>2 DEF Authorized
  <2>. QED
    BY ZenonT(30), <1>3, <1>4, <2>1, <2>2, <2>3
<1>6. CASE r.kind # "Block" /\ may_sign(r.kind, r.vote.level, r.vote.round)
  <2>1. signing' = Append(signing, r) /\ hwm' = record(r.kind, r.vote.level, r.vote.round)
    BY Zenon, <1>1, <1>6 DEF ProcessRequest
  <2>2. signing' \in Seq(Requests) /\ Entries(signing') = Entries(signing) \cup {r}
    BY SMTT(30), <1>2, <1>3, <2>1, AppendEntries
  <2>3. Authorized' \subseteq Authorized \cup {r}
    BY Zenon, <1>3, <2>2 DEF Authorized
  <2>4. Place(r) = <<r.vote.level, r.vote.round>>
    BY Zenon, <1>6 DEF Place
  <2>5. hwm' = [hwm EXCEPT ![r.kind] = {Place(r)}]
    BY Zenon, <1>6, <2>1, <2>4 DEF record
  <2>6. \A m \in hwm[r.kind] : m[1] < Place(r)[1] \/ (m[1] = Place(r)[1] /\ m[2] < Place(r)[2])
    BY SMTT(30), <1>6, <2>4 DEF may_sign
  <2>7. hwm' \in [Kinds -> SUBSET (Nat \X Int)]
    BY Zenon, <1>2, <1>3, <2>5, PlaceType
  <2>. QED
    BY ZenonT(30), <1>2, <1>4, <2>2, <2>3, <2>5, <2>6, <2>7 DEF Authorizes
<1>7. CASE r.kind # "Block" /\ ~may_sign(r.kind, r.vote.level, r.vote.round)
  <2>1. signing' = signing /\ hwm' = hwm
    BY Zenon, <1>1, <1>7 DEF ProcessRequest
  <2>2. Authorized' \subseteq Authorized
    BY Zenon, <1>3, <2>1 DEF Authorized
  <2>. QED
    BY Zenon, <1>3, <1>4, <2>1, <2>2
<1>. QED
  BY Zenon, <1>5, <1>6, <1>7

LEMMA SignStep ==
  ASSUME TypeInv, Sign \/ SigningFails
  PROVE  /\ TypeInv'
         /\ (hwm' = hwm /\ Authorized' \subseteq Authorized) \/ \E r : Authorizes(r)
<1>1. PICK r : r = Head(signing)
  OBVIOUS
<1>2. /\ r \in Requests /\ r \in Entries(signing)
      /\ signing' \in Seq(Requests) /\ Entries(signing') \subseteq Entries(signing)
  BY ZenonT(30), <1>1, TailEntries DEF TypeInv, Sign, SigningFails
<1>3. /\ UNCHANGED <<st, loop, stepped, timer, clock, head, requests, disk, votes, blocks>>
      /\ ready \in Seq(Requests) /\ hwm \in [Kinds -> SUBSET (Nat \X Int)] /\ faults' \in Nat
  BY SMTT(30) DEF Sign, SigningFails, TypeInv, automaton, node, history
<1>4. ASSUME ready' \in Seq(Requests), hwm' \in [Kinds -> SUBSET (Nat \X Int)]
      PROVE  TypeInv'
  BY Zenon, <1>2, <1>3, <1>4 DEF TypeInv
<1>5. CASE Sign /\ r.kind # "Block"
  <2>1. ready' = Append(ready, r) /\ hwm' = hwm
    BY Zenon, <1>1, <1>5 DEF Sign
  <2>2. ready' \in Seq(Requests) /\ Entries(ready') = Entries(ready) \cup {r}
    BY SMTT(30), <1>2, <1>3, <2>1, AppendEntries
  <2>3. Authorized' \subseteq Authorized
    BY ZenonT(30), <1>2, <1>3, <1>5, <2>2 DEF Authorized
  <2>. QED
    BY Zenon, <1>3, <1>4, <2>1, <2>2, <2>3
<1>6. CASE Sign /\ r.kind = "Block" /\ may_sign("Block", r.block.level, r.block.round)
  <2>1. ready' = Append(ready, r) /\ hwm' = record("Block", r.block.level, r.block.round)
    BY Zenon, <1>1, <1>6 DEF Sign
  <2>2. ready' \in Seq(Requests) /\ Entries(ready') = Entries(ready) \cup {r}
    BY SMTT(30), <1>2, <1>3, <2>1, AppendEntries
  <2>3. Authorized' \subseteq Authorized \cup {r}
    BY Zenon, <1>2, <1>3, <2>2 DEF Authorized
  <2>4. Place(r) = <<r.block.level, r.block.round>>
    BY Zenon, <1>6 DEF Place
  <2>5. hwm' = [hwm EXCEPT ![r.kind] = {Place(r)}]
    BY Zenon, <1>6, <2>1, <2>4 DEF record
  <2>6. \A m \in hwm[r.kind] : m[1] < Place(r)[1] \/ (m[1] = Place(r)[1] /\ m[2] < Place(r)[2])
    BY SMTT(30), <1>6, <2>4 DEF may_sign
  <2>7. hwm' \in [Kinds -> SUBSET (Nat \X Int)]
    BY Zenon, <1>2, <1>3, <2>5, PlaceType
  <2>. QED
    BY Zenon, <1>2, <1>4, <2>2, <2>3, <2>5, <2>6, <2>7 DEF Authorizes
<1>7. CASE \/ Sign /\ r.kind = "Block" /\ ~may_sign("Block", r.block.level, r.block.round)
           \/ SigningFails
  <2>1. ready' = ready /\ hwm' = hwm
    BY Zenon, <1>1, <1>7 DEF Sign, SigningFails
  <2>2. Authorized' \subseteq Authorized
    BY Zenon, <1>2, <1>3, <2>1 DEF Authorized
  <2>. QED
    BY Zenon, <1>3, <1>4, <2>1, <2>2
<1>. QED
  BY Zenon, <1>5, <1>6, <1>7

LEMMA NextTimeout ==
  ASSUME NEW s \in AutoStates
  PROVE  \A t \in compute_next_timeout(s) :
           t.round \in Int /\ (t.kind # "End_of_round" => s.elected # {})
<1> DEFINE B == compute_next_potential_baking_time(s)
           R == compute_next_round_time(s)
           at(b) == IF b[2] = 0 THEN Larger(b[1], 1) - 1 ELSE b[1]
           baking == {[kind |-> "Time_to_prepare_next_level_block", round |-> b[2],
                       at |-> at(b)] : b \in B}
           ending == {[kind |-> "End_of_round", round |-> s.round, at |-> t] : t \in R}
<1>1. \A b \in B : b[2] \in Int /\ s.elected # {}
  BY SMTT(30), BakerAssumption DEF compute_next_potential_baking_time
<1>2. compute_next_timeout(s) \in {baking, ending}
  BY Zenon DEF compute_next_timeout
<1>3. s.round \in Int
  BY Zenon DEF AutoStates
<1> HIDE DEF B, R, at
<1>4. \A t \in baking : t.round \in Int /\ s.elected # {}
  BY SMTT(30), <1>1
<1>5. \A t \in ending : t.round \in Int /\ t.kind = "End_of_round"
  BY <1>3
<1> HIDE DEF baking, ending
<1>. QED
  BY Zenon, <1>2, <1>4, <1>5

LEMMA RecordCases ==
  ASSUME may_record_new_state \/ RecordRefused
  PROVE  loop = "record" /\ (Recording(st) \/ Recording(stepped))
<1>1. record_state(st) \in {disk, {Recorded(st)}}
  BY Zenon DEF record_state
<1>2. record_state(stepped) \in {disk, {Recorded(stepped)}}
  BY Zenon DEF record_state
<1>3. CASE may_record_new_state
  BY ZenonT(30), <1>1, <1>3 DEF may_record_new_state, GoOn, Recording, node, forge
<1>4. CASE RecordRefused
  BY Zenon, <1>2, <1>4 DEF RecordRefused, GoOn, Recording, node, forge
<1>. QED
  BY Zenon, <1>3, <1>4

LEMMA RecordStep ==
  ASSUME TypeInv, NEW s \in AutoStates, Early(s) \subseteq Authorized, Recording(s)
  PROVE  TypeInv' /\ hwm' = hwm /\ Authorized' \subseteq Authorized
<1>1. \A t \in timer' : t.round \in Int /\ (t.kind # "End_of_round" => s.elected # {})
  BY Zenon, NextTimeout DEF Recording
<1>2. Recorded(s) \in Records
  BY Zenon DEF Recorded, Records, AutoStates
<1>3. disk' \in SUBSET Records
  BY Zenon, <1>2 DEF Recording, TypeInv
<1>4. TypeInv'
  BY SMTT(30), <1>1, <1>3 DEF Recording, TypeInv
<1>5. Authorized' \subseteq Authorized
  BY Zenon DEF Authorized, Recording
<1>. QED
  BY Zenon, <1>4, <1>5 DEF Recording

LEMMA InitialState ==
  ASSUME NEW p \in Proposals, NEW round \in Int, NEW D \in SUBSET Records
  PROVE  LET n == create_initial_state(p, round, D)
         IN  /\ n \in AutoStates /\ n.early = {}
             /\ (\A d \in D : Covers(d)) => Covers(n)
             /\ D = {} => n.locked = {}
<1> DEFINE L == LevelState(p, TRUE, round)
           E == IF p.first THEN {p} ELSE {}
           start == [L EXCEPT !.elected = E]
           of_level == {d \in D : d.level = p.level}
           locked == UNION {d.locked : d \in of_level}
           attestable == UNION {d.attestable : d \in of_level}
           loaded == [start EXCEPT !.locked = locked, !.attestable = attestable]
           new == {[proposal |-> p, prequorum |-> q] : q \in p.prequorum}
           updated == [loaded EXCEPT !.attestable = new]
           n == create_initial_state(p, round, D)
<1>0. TRUE \in BOOLEAN /\ FALSE \in BOOLEAN
  BY ZenonT(30)
<1>1. L \in AutoStates /\ L.early = {}
  BY Zenon, <1>0, ProposalFields DEF LevelState, AutoStates, Phases
<1>2. E \in SUBSET Proposals
  OBVIOUS
<1>3. locked \in SUBSET LockedRounds /\ attestable \in SUBSET Attestables
  BY Zenon DEF Records
<1>4. new \in SUBSET Attestables /\ p.prequorum \in SUBSET Nat
  BY ProposalFields DEF Attestables
<1>5. D = {} => locked = {}
  OBVIOUS
<1>6. ASSUME \A d \in D : Covers(d), NEW l \in locked
      PROVE  \E a \in attestable : a.prequorum >= l.round
  <2>1. PICK d \in of_level : l \in d.locked
    BY Zenon, <1>6
  <2>2. PICK a \in d.attestable : a.prequorum >= l.round
    BY Zenon, <1>6, <2>1 DEF Covers
  <2>. QED
    BY Zenon, <2>1, <2>2
<1>7. \/ n = loaded
      \/ /\ n = updated /\ p.prequorum # {}
         /\ \A a \in loaded.attestable, q \in p.prequorum : ~(a.prequorum >= q)
  BY Zenon DEF create_initial_state
<1> HIDE DEF L, E, locked, attestable, new
<1>8. start \in AutoStates /\ start.early = {}
  BY Zenon, <1>1, <1>2 DEF AutoStates
<1> HIDE DEF start
<1>9. /\ loaded \in AutoStates /\ loaded.early = {} /\ loaded.locked = locked
      /\ loaded.attestable = attestable
  BY Zenon, <1>3, <1>8 DEF AutoStates
<1> HIDE DEF loaded
<1>10. /\ updated \in AutoStates /\ updated.early = {} /\ updated.locked = locked
       /\ updated.attestable = new
  BY Zenon, <1>4, <1>9 DEF AutoStates
<1> HIDE DEF updated, n
<1>11. CASE n = loaded
  <2>1. (\A d \in D : Covers(d)) => Covers(n)
    BY Zenon, <1>6, <1>9, <1>11 DEF Covers
  <2>. QED
    BY Zenon, <1>5, <1>9, <1>11, <2>1 DEF n
<1>12. CASE /\ n = updated /\ p.prequorum # {}
            /\ \A a \in attestable, q \in p.prequorum : ~(a.prequorum >= q)
  <2>1. PICK q \in p.prequorum : TRUE
    BY Zenon, <1>12
  <2>2. [proposal |-> p, prequorum |-> q] \in new /\ q \in Nat
    BY Zenon, <1>4, <2>1 DEF new
  <2>3. ASSUME \A d \in D : Covers(d), NEW l \in n.locked
        PROVE  \E a \in n.attestable : a.prequorum >= l.round
    <3>1. PICK a \in attestable : a.prequorum >= l.round
      BY Zenon, <1>6, <1>10, <1>12, <2>3
    <3>2. a.prequorum \in Nat /\ l.round \in Nat
      BY Zenon, <1>3, <1>10, <1>12 DEF Attestables, LockedRounds
    <3>3. q >= l.round
      BY SMTT(30), <1>12, <2>2, <3>1, <3>2
    <3>. QED
      BY Zenon, <1>10, <1>12, <2>2, <3>3
  <2>4. (\A d \in D : Covers(d)) => Covers(n)
    BY Zenon, <2>3 DEF Covers
  <2>. QED
    BY Zenon, <1>5, <1>10, <1>12, <2>4 DEF n
<1>. QED
  BY Zenon, <1>7, <1>9, <1>11, <1>12

LEMMA InitTyped ==
  ASSUME Init
  PROVE  /\ TypeInv /\ Authorized = {} /\ disk = {} /\ faults = 0 /\ loop = "boot"
         /\ st.locked = {} /\ stepped.locked = {}
<1>1. Genesis \in Proposals /\ compute_round(Genesis) \in Int
  BY BakerAssumption, ProposalsAssumption DEF Init, compute_round
<1>2. {} \in SUBSET Records
  OBVIOUS
<1>3. PICK n : n = create_initial_state(Genesis, compute_round(Genesis), {})
  BY Zenon
<1>4. n \in AutoStates /\ n.early = {} /\ n.locked = {}
  BY Zenon, <1>1, <1>2, <1>3, InitialState
<1>5. st = n /\ stepped = n
  BY Zenon, <1>3 DEF Init
<1>6. hwm \in [Kinds -> SUBSET (Nat \X Int)]
  BY Zenon DEF Init, Kinds
<1>7. TypeInv
  BY SMTT(30), <1>1, <1>4, <1>5, <1>6 DEF Init, TypeInv
<1>8. Entries(signing) = {} /\ Entries(ready) = {} /\ Early(st) = {} /\ Early(stepped) = {}
  BY SMTT(30), <1>4, <1>5 DEF Init, Entries, Early
<1>9. Authorized = {}
  BY Zenon, <1>8 DEF Authorized, Init
<1>. QED
  BY ZenonT(30), <1>4, <1>5, <1>7, <1>9 DEF Init

LEMMA RestartStep ==
  ASSUME TypeInv, Restart
  PROVE  /\ TypeInv' /\ hwm' = hwm /\ Authorized' \subseteq Authorized
         /\ disk' = disk /\ stepped' = st' /\ faults < MaxFaults
         /\ (\A d \in disk : Covers(d)) => Covers(st')
<1>1. compute_round(head) \in Int /\ head \in Proposals /\ disk \in SUBSET Records
  BY SMTT(30), ProposalsAssumption DEF TypeInv, compute_round
<1>2. PICK n : n = create_initial_state(head, compute_round(head), disk)
  BY Zenon
<1>3. n \in AutoStates /\ n.early = {} /\ ((\A d \in disk : Covers(d)) => Covers(n))
  BY Zenon, <1>1, <1>2, InitialState
<1>4. /\ st' = n /\ stepped' = n /\ faults' = faults + 1 /\ faults < MaxFaults
      /\ loop' = "boot" /\ requests' = <<>> /\ signing' = <<>> /\ ready' = <<>>
      /\ clock' = clock /\ head' = head /\ hwm' = hwm /\ disk' = disk
      /\ votes' = votes /\ blocks' = blocks
  BY ZenonT(30), <1>2 DEF Restart
<1>5. TypeInv'
  BY SMTT(30), <1>3, <1>4 DEF TypeInv
<1>6. Entries(signing') = {} /\ Entries(ready') = {} /\ Early(st') = {} /\ Early(stepped') = {}
  <2>1. Entries(<<>>) = {} /\ Early(n) = {}
    BY SMTT(30), <1>3 DEF Entries, Early
  <2>. QED
    BY Zenon, <1>4, <2>1
<1>7. Authorized' \subseteq Authorized
  BY Zenon, <1>4, <1>6 DEF Authorized
<1>. QED
  BY ZenonT(30), <1>3, <1>4, <1>5, <1>7

\* The environment, and steps that change nothing.
LEMMA OtherStep ==
  ASSUME TypeInv, Tick \/ QuorumObserved \/ UNCHANGED vars
  PROVE  /\ TypeInv' /\ Authorized' \subseteq Authorized
         /\ UNCHANGED <<st, stepped, loop, hwm, disk, faults>>
<1>1. /\ UNCHANGED <<st, stepped, loop, timer, head, requests, signing, ready, hwm, disk, votes,
                     blocks, faults>>
      /\ clock' \in Nat
  BY SMTT(30) DEF Tick, QuorumObserved, vars, automaton, node, forge, history, TypeInv
<1>2. TypeInv'
  BY Zenon, <1>1 DEF TypeInv
<1>. QED
  BY ZenonT(30), <1>1, <1>2 DEF Authorized

\* Every step of the daemon is of one of these classes.
LEMMA StepCases ==
  ASSUME TypeInv, [Next]_vars
  PROVE  \/ Iteration
         \/ \E s \in AutoStates :
              s \in {st, stepped} /\ loop = "record" /\ Recording(s)
         \/ ProcessRequest \/ Sign \/ SigningFails \/ Restart
         \/ Tick \/ QuorumObserved \/ UNCHANGED vars
<1>1. ASSUME may_record_new_state \/ RecordRefused
      PROVE  \E s \in AutoStates : s \in {st, stepped} /\ loop = "record" /\ Recording(s)
  <2>1. PICK s : s = st
    OBVIOUS
  <2>2. PICK n : n = stepped
    OBVIOUS
  <2>3. loop = "record" /\ (Recording(s) \/ Recording(n))
    BY Zenon, <1>1, <2>1, <2>2, RecordCases
  <2>. QED
    BY Zenon, <2>1, <2>2, <2>3 DEF TypeInv
<1>. QED
  BY Zenon, <1>1 DEF Next, Iteration

--------------------------------------------------------------------------------
(* The theorems.                                                             *)

LEMMA SignStepKept ==
  ASSUME SignInv, [Next]_vars
  PROVE  SignInv'
<1>0. TypeInv /\ Guarded(hwm, Authorized)
  BY Zenon DEF SignInv
<1>1. \/ TypeInv' /\ hwm' = hwm /\ Authorized' \subseteq Authorized
      \/ TypeInv' /\ \E r : Authorizes(r)
  <2>1. CASE Iteration
    <3>1. hwm' = hwm
      <4>1. PICK S : S = Authorized
        OBVIOUS
      <4>. QED
        BY Zenon, <1>0, <2>1, <4>1, IterationPerforms DEF Performed
    <3>. QED
      BY Zenon, <1>0, <2>1, <3>1, IterationKeeps
  <2>2. ASSUME NEW s \in AutoStates, s \in {st, stepped}, Recording(s)
        PROVE  TypeInv' /\ hwm' = hwm /\ Authorized' \subseteq Authorized
    <3>1. Early(s) \subseteq Authorized
      BY Zenon, <2>2 DEF Authorized
    <3>. QED
      BY Zenon, <1>0, <2>2, <3>1, RecordStep
  <2>3. CASE ProcessRequest
    BY Zenon, <1>0, <2>3, ProcessRequestStep
  <2>4. CASE Sign \/ SigningFails
    BY Zenon, <1>0, <2>4, SignStep
  <2>5. CASE Restart
    BY Zenon, <1>0, <2>5, RestartStep
  <2>6. CASE Tick \/ QuorumObserved \/ UNCHANGED vars
    BY Zenon, <1>0, <2>6, OtherStep
  <2>. QED
    BY ZenonT(30), <1>0, <2>1, <2>2, <2>3, <2>4, <2>5, <2>6, StepCases
<1>2. PICK A : A = Authorized
  OBVIOUS
<1>3. PICK B : B = Authorized'
  BY Zenon
<1>4. PICK H : H = hwm
  OBVIOUS
<1>5. H \in [Kinds -> SUBSET (Nat \X Int)] /\ A \in SUBSET Requests /\ Guarded(H, A)
  BY ZenonT(30), <1>0, <1>2, <1>4, AuthorizedType DEF TypeInv
<1>6. Guarded(hwm', B)
  <2>1. CASE hwm' = hwm /\ Authorized' \subseteq Authorized
    BY Zenon, <1>2, <1>3, <1>4, <1>5, <2>1, GuardedFewer
  <2>2. ASSUME NEW r, Authorizes(r)
        PROVE  Guarded(hwm', B)
    <3>1. /\ r \in Requests /\ B \subseteq A \cup {r} /\ hwm' = [H EXCEPT ![r.kind] = {Place(r)}]
          /\ \A m \in H[r.kind] :
               m[1] < Place(r)[1] \/ (m[1] = Place(r)[1] /\ m[2] < Place(r)[2])
      BY Zenon, <1>2, <1>3, <1>4, <2>2 DEF Authorizes
    <3>. QED
      BY ZenonT(30), <1>5, <3>1, GuardedMore
  <2>. QED
    BY Zenon, <1>1, <2>1, <2>2
<1>7. Guarded(hwm', Authorized')
  BY Zenon, <1>3, <1>6
<1>. QED
  BY Zenon, <1>1, <1>7 DEF SignInv

\* A daemon never signs and sends two different votes of one kind, or two blocks,
\* at one level and round: whatever it is offered, however often it crashes, loses
\* signatures or fails to record its state (the high watermarks, recorded before
\* a vote is queued and when a block is signed).
THEOREM NeverSignsTwice == Spec => []NoDoubleSigning
<1>1. Init => SignInv
  <2> SUFFICES ASSUME Init PROVE SignInv
    BY Zenon
  <2>1. TypeInv /\ Authorized = {}
    BY Zenon, InitTyped
  <2>. QED
    BY Zenon, <2>1 DEF SignInv, Guarded
<1>2. SignInv /\ [Next]_vars => SignInv'
  BY Zenon, SignStepKept
<1>3. SignInv => NoDoubleSigning
  <2> SUFFICES ASSUME SignInv PROVE NoDoubleSigning
    OBVIOUS
  <2>1. TypeInv /\ Guarded(hwm, Authorized)
    BY Zenon DEF SignInv
  <2>2. ASSUME NEW v \in votes, NEW w \in votes, v.kind = w.kind,
               v.vote.level = w.vote.level, v.vote.round = w.vote.round
        PROVE  v = w
    <3>1. v.kind # "Block" /\ w.kind # "Block"
      BY ZenonT(30), <2>1 DEF TypeInv, Votes
    <3>2. Place(v) = Place(w)
      BY Zenon, <2>2, <3>1 DEF Place
    <3>. QED
      BY Zenon, <2>1, <2>2, <3>2 DEF Guarded, Authorized
  <2>3. ASSUME NEW b \in blocks, NEW c \in blocks, b.level = c.level, b.round = c.round
        PROVE  b = c
    <3> DEFINE x == [kind |-> "Block", block |-> b]
               y == [kind |-> "Block", block |-> c]
    <3>1. x \in Authorized /\ y \in Authorized
      BY Zenon DEF Authorized
    <3>2. x.kind = y.kind /\ Place(x) = Place(y)
      BY Zenon, <2>3 DEF Place
    <3>3. x = y
      BY Zenon, <2>1, <3>1, <3>2 DEF Guarded
    <3>. QED
      BY Zenon, <3>3
  <2>. QED
    BY Zenon, <2>2, <2>3 DEF NoDoubleSigning
<1>. QED
  BY <1>1, <1>2, <1>3, PTL DEF Spec

LEMMA LockStepKept ==
  ASSUME CoverInv, [Next]_vars
  PROVE  CoverInv'
<1>0. TypeInv /\ Covers(st) /\ Covers(stepped) /\ \A d \in disk : Covers(d)
  BY Zenon DEF CoverInv
<1>1. CASE Iteration
  <2>1. PICK S : S = Authorized
    OBVIOUS
  <2>2. Performed(S) /\ TypeInv'
    BY Zenon, <1>0, <1>1, <2>1, IterationPerforms, IterationKeeps
  <2>. QED
    BY Zenon, <1>0, <2>2 DEF Performed, CoverInv
<1>2. ASSUME NEW s \in AutoStates, s \in {st, stepped}, Recording(s)
      PROVE  CoverInv'
  <2>1. Early(s) \subseteq Authorized /\ Covers(s)
    BY Zenon, <1>0, <1>2 DEF Authorized
  <2>2. TypeInv'
    BY Zenon, <1>0, <1>2, <2>1, RecordStep
  <2>3. Covers(Recorded(s))
    BY Zenon, <2>1 DEF Covers, Recorded
  <2>4. \A d \in disk' : Covers(d)
    BY Zenon, <1>0, <1>2, <2>3 DEF Recording
  <2>. QED
    BY Zenon, <1>2, <2>1, <2>2, <2>4 DEF Recording, CoverInv
<1>3. CASE ProcessRequest \/ Sign \/ SigningFails
  <2>1. TypeInv'
    BY Zenon, <1>0, <1>3, ProcessRequestStep, SignStep
  <2>2. st' = st /\ stepped' = stepped /\ disk' = disk
    BY Zenon, <1>3 DEF ProcessRequest, Sign, SigningFails, automaton
  <2>. QED
    BY Zenon, <1>0, <2>1, <2>2 DEF CoverInv
<1>4. CASE Restart
  BY Zenon, <1>0, <1>4, RestartStep DEF CoverInv
<1>5. CASE Tick \/ QuorumObserved \/ UNCHANGED vars
  BY Zenon, <1>0, <1>5, OtherStep DEF CoverInv
<1>. QED
  BY ZenonT(30), <1>0, <1>1, <1>2, <1>3, <1>4, <1>5, StepCases

\* A locked daemon always has an attestable payload at least as recent as its lock,
\* on whatever branch, and after any crash: what propose_block_action asserts.
THEOREM LockCovered == Spec => []AttestableCoversLock
<1>1. Init => CoverInv
  <2> SUFFICES ASSUME Init PROVE CoverInv
    OBVIOUS
  <2>1. TypeInv /\ st.locked = {} /\ stepped.locked = {} /\ disk = {}
    BY Zenon, InitTyped
  <2>. QED
    BY Zenon, <2>1 DEF CoverInv, Covers
<1>2. CoverInv /\ [Next]_vars => CoverInv'
  BY Zenon, LockStepKept
<1>3. CoverInv => AttestableCoversLock
  BY Zenon DEF CoverInv, Covers, AttestableCoversLock
<1>. QED
  BY <1>1, <1>2, <1>3, PTL DEF Spec

\* Without faults no step loses anything of the lock, within a level.
LEMMA BelowStepKept ==
  ASSUME MaxFaults = 0, BelowInv, [Next]_vars
  PROVE  BelowInv' /\ (st'.level = st.level => NotUnlocked(st, st'))
<1>0. /\ TypeInv /\ CoverInv /\ Covers(st) /\ LockBelow(st) /\ LockBelow(stepped) /\ faults = 0
      /\ loop = "record" /\ stepped.level = st.level => stepped.locked = st.locked
  BY Zenon DEF BelowInv, CoverInv
<1>1. CoverInv'
  BY Zenon, <1>0, LockStepKept
<1>2. \A s \in AutoStates : \A n : n.locked = s.locked => NotUnlocked(s, n)
  <2>1. \A s \in AutoStates : \A l \in s.locked : l.round \in Nat
    BY ZenonT(30) DEF AutoStates, LockedRounds
  <2>. QED
    BY <2>1 DEF NotUnlocked
<1>3. CASE Iteration
  <2>1. PICK S : S = Authorized
    OBVIOUS
  <2>2. Performed(S)
    BY ZenonT(30), <1>0, <1>3, <2>1, IterationPerforms
  <2>3. faults' = 0
    BY SMTT(30), <1>0, <2>2 DEF Performed
  <2>. QED
    BY Zenon, <1>0, <1>1, <2>2, <2>3 DEF Performed, BelowInv
<1>4. ASSUME NEW s \in AutoStates, s \in {st, stepped}, loop = "record", Recording(s)
      PROVE  BelowInv' /\ (st'.level = st.level => NotUnlocked(st, st'))
  <2>1. LockBelow(s) /\ st' = s /\ stepped' = s /\ faults' = 0 /\ loop' = "wait"
    BY <1>0, <1>4 DEF Recording
  <2>2. s.level = st.level => s.locked = st.locked
    BY Zenon, <1>0, <1>4
  <2>3. s.level = st.level => NotUnlocked(st, s)
    BY Zenon, <1>0, <1>2, <2>2 DEF TypeInv
  <2>. QED
    BY ZenonT(30), <1>1, <2>1, <2>3 DEF BelowInv
<1>5. CASE ProcessRequest \/ Sign \/ SigningFails
  <2>1. st' = st /\ stepped' = stepped /\ loop' = loop
    BY Zenon, <1>5 DEF ProcessRequest, Sign, SigningFails, automaton
  <2>2. faults' = faults \/ faults < MaxFaults
    BY Zenon, <1>5 DEF ProcessRequest, Sign, SigningFails, history
  <2>3. faults' = 0
    BY SMTT(30), <1>0, <2>2
  <2>4. NotUnlocked(st, st')
    BY ZenonT(30), <1>0, <1>2, <2>1 DEF TypeInv
  <2>. QED
    BY Zenon, <1>0, <1>1, <2>1, <2>3, <2>4 DEF BelowInv
<1>6. CASE Restart
  <2>1. faults < MaxFaults
    BY Zenon, <1>0, <1>6, RestartStep
  <2>. QED
    BY SMTT(30), <1>0, <2>1
<1>7. CASE Tick \/ QuorumObserved \/ UNCHANGED vars
  <2>1. st' = st /\ stepped' = stepped /\ loop' = loop /\ faults' = 0
    BY ZenonT(30), <1>0, <1>7, OtherStep
  <2>2. NotUnlocked(st, st')
    BY Zenon, <1>0, <1>2, <2>1 DEF TypeInv
  <2>. QED
    BY Zenon, <1>0, <1>1, <2>1, <2>2 DEF BelowInv
<1>. QED
  BY ZenonT(30), <1>0, <1>3, <1>4, <1>5, <1>6, <1>7, StepCases

\* The lock of a level never goes back, over any proposals and branches, in a run
\* without faults: update_locked_round does not compare, but the proposal a daemon
\* votes for is never older than its lock.
THEOREM LockMonotone ==
  ASSUME MaxFaults = 0
  PROVE  Spec => LockNeverDecreases
<1>1. Init => BelowInv
  <2> SUFFICES ASSUME Init PROVE BelowInv
    BY Zenon
  <2>1. /\ TypeInv /\ disk = {} /\ faults = 0 /\ loop = "boot"
        /\ st.locked = {} /\ stepped.locked = {}
    BY Zenon, InitTyped
  <2>. QED
    BY Zenon, <2>1 DEF BelowInv, CoverInv, Covers, LockBelow
<1>2. BelowInv /\ [Next]_vars => BelowInv'
  BY Zenon, BelowStepKept
<1>3. BelowInv /\ [Next]_vars =>
        [st'.level = st.level /\ faults' = faults =>
           \A l \in st.locked : \E n \in st'.locked : n.round >= l.round]_vars
  BY Zenon, BelowStepKept DEF NotUnlocked
<1>. QED
  BY <1>1, <1>2, <1>3, PTL DEF Spec, LockNeverDecreases

================================================================================
