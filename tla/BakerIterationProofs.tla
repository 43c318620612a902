------------------------- MODULE BakerIterationProofs --------------------------
(******************************************************************************)
(* On one branch an iteration of the loop is a turn: whatever event it takes, *)
(* what the handler returns, the action, and what the loop keeps of them are  *)
(* related to the state before by Turned of BakerInvariants.  The other       *)
(* steps leave alone what the state says of rounds, quorums and the lock.     *)
(******************************************************************************)
EXTENDS BakerProofs

--------------------------------------------------------------------------------
(* The handlers of proposals, on one branch.                                 *)

LEMMA AttestableFields ==
  ASSUME NEW s \in AutoStates, NEW p \in Proposals
  PROVE  LET n == may_update_attestable_payload_with_internal_pqc(s, p)
         IN  /\ n \in AutoStates /\ n.level = s.level /\ n.proposal = s.proposal
             /\ n.round = s.round /\ n.phase = s.phase /\ n.locked = s.locked
             /\ n.early = s.early /\ n.elected = s.elected /\ n.delayed = s.delayed
             /\ n.applied = s.applied
             /\ \A a \in n.attestable : a \in s.attestable \/ a.proposal = p
<1> DEFINE n == may_update_attestable_payload_with_internal_pqc(s, p)
           new == {[proposal |-> p, prequorum |-> q] : q \in p.prequorum}
           k == [s EXCEPT !.attestable = new]
<1>1. n = s \/ n = k
  BY Zenon DEF may_update_attestable_payload_with_internal_pqc
<1>2. new \in SUBSET Attestables /\ \A a \in new : a.proposal = p
  BY ProposalFields DEF Attestables
<1> HIDE DEF new
<1>3. /\ k \in AutoStates /\ k.level = s.level /\ k.proposal = s.proposal
      /\ k.round = s.round /\ k.phase = s.phase /\ k.locked = s.locked
      /\ k.early = s.early /\ k.elected = s.elected /\ k.delayed = s.delayed
      /\ k.applied = s.applied /\ k.attestable = new
  BY Zenon, <1>2 DEF AutoStates
<1> HIDE DEF k, n
<1>. QED
  BY Zenon, <1>1, <1>2, <1>3 DEF n

LEMMA ProposalUpdateFields ==
  ASSUME NEW s \in AutoStates, NEW p \in Proposals, NEW applied \in BOOLEAN
  PROVE  LET n == may_update_proposal(s, p, applied)
         IN  /\ n \in AutoStates /\ n.level = s.level /\ n.attestable = s.attestable
             /\ n.round = s.round /\ n.phase = s.phase /\ n.locked = s.locked
             /\ n.early = s.early /\ n.elected = s.elected /\ n.delayed = s.delayed
             /\ s.proposal.round < p.round => n.proposal = p
             /\ ~(s.proposal.round < p.round) => n.proposal = s.proposal /\ n.applied = s.applied
<1> DEFINE x == applied \/ (s.proposal = p /\ s.applied)
           k == [s EXCEPT !.proposal = p, !.applied = x]
           n == may_update_proposal(s, p, applied)
<1>1. x \in BOOLEAN
  BY Zenon
<1>2. /\ s.proposal.round < p.round => n = k
      /\ ~(s.proposal.round < p.round) => n = s
  BY Zenon DEF may_update_proposal, update_proposal
<1> HIDE DEF x
<1>3. /\ k \in AutoStates /\ k.level = s.level /\ k.attestable = s.attestable
      /\ k.round = s.round /\ k.phase = s.phase /\ k.locked = s.locked
      /\ k.early = s.early /\ k.elected = s.elected /\ k.delayed = s.delayed
      /\ k.proposal = p
  BY Zenon, <1>1 DEF AutoStates
<1> HIDE DEF k, n
<1>. QED
  BY Zenon, <1>2, <1>3 DEF n

LEMMA SameBranchTurn ==
  ASSUME NEW s \in AutoStates, Sound(s), NEW p \in Proposals, p.level = s.level,
         NEW applied \in BOOLEAN
  PROVE  LET r == HandleSameBranch(s, p, applied) IN Proposed(s, r.st, r.act)
<1> DEFINE a == may_update_attestable_payload_with_internal_pqc(s, p)
           n == may_update_proposal(a, p, applied)
           e == [n EXCEPT !.early = {}]
           i == [e EXCEPT !.phase = "Idle"]
           v == [e EXCEPT !.phase = "Awaiting_preattestations"]
           w == [e EXCEPT !.awaiting = TRUE, !.phase = "Awaiting_preattestations"]
           r == HandleSameBranch(s, p, applied)
<1>1. /\ a \in AutoStates /\ a.level = s.level /\ a.proposal = s.proposal
      /\ a.round = s.round /\ a.phase = s.phase /\ a.locked = s.locked
      /\ a.early = s.early /\ a.elected = s.elected /\ a.delayed = s.delayed
      /\ a.applied = s.applied
      /\ \A x \in a.attestable : x \in s.attestable \/ x.proposal = p
  BY Zenon, AttestableFields
<1> HIDE DEF a
<1>2. /\ n \in AutoStates /\ n.level = s.level /\ n.attestable = a.attestable
      /\ n.round = s.round /\ n.phase = s.phase /\ n.locked = s.locked
      /\ n.early = s.early /\ n.elected = s.elected /\ n.delayed = s.delayed
      /\ s.proposal.round < p.round => n.proposal = p
      /\ ~(s.proposal.round < p.round) => n.proposal = s.proposal /\ n.applied = s.applied
  <2>1. /\ n \in AutoStates /\ n.level = a.level /\ n.attestable = a.attestable
        /\ n.round = a.round /\ n.phase = a.phase /\ n.locked = a.locked
        /\ n.early = a.early /\ n.elected = a.elected /\ n.delayed = a.delayed
        /\ a.proposal.round < p.round => n.proposal = p
        /\ ~(a.proposal.round < p.round) => n.proposal = a.proposal /\ n.applied = a.applied
    BY Zenon, <1>1, ProposalUpdateFields
  <2> HIDE DEF n
  <2>. QED
    BY Zenon, <1>1, <2>1
<1> HIDE DEF n
<1>3. TRUE \in BOOLEAN
  BY Zenon
<1>4. /\ e \in AutoStates /\ e.level = n.level /\ e.attestable = n.attestable
      /\ e.round = n.round /\ e.phase = n.phase /\ e.locked = n.locked
      /\ e.early = {} /\ e.elected = n.elected /\ e.delayed = n.delayed
      /\ e.proposal = n.proposal /\ e.applied = n.applied
  BY Zenon, <1>2 DEF AutoStates
<1> HIDE DEF e
<1>5. /\ v \in AutoStates /\ v.level = e.level /\ v.attestable = e.attestable
      /\ v.round = e.round /\ v.phase = "Awaiting_preattestations" /\ v.locked = e.locked
      /\ v.early = {} /\ v.proposal = e.proposal
  BY Zenon, <1>4 DEF AutoStates, Phases
<1>6. /\ w \in AutoStates /\ w.level = e.level /\ w.attestable = e.attestable
      /\ w.round = e.round /\ w.phase = "Awaiting_preattestations" /\ w.locked = e.locked
      /\ w.early = {} /\ w.proposal = e.proposal
  BY Zenon, <1>3, <1>4 DEF AutoStates, Phases
<1>7. /\ i \in AutoStates /\ i.level = e.level /\ i.attestable = e.attestable
      /\ i.round = e.round /\ i.phase = "Idle" /\ i.locked = e.locked
      /\ i.early = {} /\ i.proposal = e.proposal
  BY ZenonT(30), <1>4 DEF AutoStates, Phases
<1> HIDE DEF v, w, i
<1>8. /\ p.round \in Nat /\ p.level \in Nat /\ s.round \in Int /\ s.level \in Nat
      /\ s.proposal \in Proposals /\ s.proposal.round \in Nat
  BY Zenon, ProposalFields DEF AutoStates
<1>9. s.level = s.proposal.level /\ s.proposal.round <= s.round
  BY Zenon DEF Sound
<1>10. CASE IsInvalid(s, p)
  <2>1. r = do_nothing(s)
    BY SMTT(30), <1>8, <1>10 DEF HandleSameBranch, IsInvalid, IsOutdated
  <2>2. r.st = s /\ r.act = Do_nothing
    BY <2>1 DEF do_nothing, Return
  <2>3. Stays(s, s)
    BY Zenon DEF Stays, InLevel, Seen
  <2>. QED
    BY Zenon, <2>2, <2>3 DEF Proposed
<1>11. CASE ~IsInvalid(s, p) /\ IsOutdated(s, p)
  <2>1. r = do_nothing(n)
    BY Zenon, <1>11 DEF HandleSameBranch, HandleOutdated, n, a
  <2>2. r.st = n /\ r.act = Do_nothing
    BY <2>1 DEF do_nothing, Return
  <2>3. p.round < s.round
    BY Zenon, <1>8, <1>11 DEF IsOutdated
  <2>4. InLevel(s, n)
    BY SMTT(30), <1>1, <1>2, <1>8, <2>3 DEF InLevel, Seen
  <2>5. CASE s.proposal.round < p.round
    <3>1. s.phase = "Idle"
      BY SMTT(30), <1>8, <2>3, <2>5 DEF Sound
    <3>. QED
      BY SMTT(30), <1>2, <1>8, <2>2, <2>3, <2>4, <2>5, <3>1 DEF Proposed, Adopts, Follows
  <2>6. CASE ~(s.proposal.round < p.round)
    BY Zenon, <1>2, <2>2, <2>4, <2>6 DEF Proposed, Stays
  <2>. QED
    BY Zenon, <2>5, <2>6
<1>12. CASE ~IsInvalid(s, p) /\ ~IsOutdated(s, p)
  <2>1. r = IF Unlocks(e, p) THEN may_vote(e, p) ELSE Return(w, Watch_prequorum)
    BY Zenon, <1>12 DEF HandleSameBranch, HandleValid, w, e, n, a
  <2>2. p.round = s.round /\ (s.proposal.round = s.round => p = s.proposal)
    BY SMTT(30), <1>8, <1>12 DEF IsInvalid, IsOutdated
  <2>3. e.proposal = p
    BY SMTT(30), <1>2, <1>4, <1>8, <1>9, <2>2
  <2>4. p = s.proposal \/ s.proposal.round < p.round
    BY SMTT(30), <1>8, <1>9, <2>2
  <2>5. \A x \in e.attestable : x \in s.attestable \/ x.proposal.round <= s.round
    BY SMTT(30), <1>1, <1>2, <1>4, <1>8, <2>2
  <2>6. InLevel(s, e) /\ InLevel(s, v) /\ InLevel(s, w) /\ InLevel(s, i)
    BY ZenonT(30), <1>1, <1>2, <1>4, <1>5, <1>6, <1>7, <2>5 DEF InLevel, Seen
  <2>7. Follows(s, e) /\ Follows(s, v) /\ Follows(s, w) /\ Follows(s, i)
    BY SMTT(30), <1>2, <1>4, <1>5, <1>6, <1>7, <1>8, <2>2, <2>3, <2>4, <2>6 DEF Follows
  <2>8. Enters(s, v) /\ Enters(s, w)
    BY Zenon, <1>5, <1>6, <2>2, <2>3, <2>7 DEF Enters
  <2>9. CASE ~Unlocks(e, p)
    <3>1. r.st = w /\ r.act = Watch_prequorum
      BY SMTT(30), <2>1, <2>9 DEF Return
    <3>. QED
      BY Zenon, <2>8, <3>1 DEF Proposed
  <2>10. CASE Unlocks(e, p) /\ e.phase # "Idle"
    <3>1. r.st = e /\ r.act = Do_nothing
      BY SMTT(30), <2>1, <2>10 DEF may_vote, do_nothing, Return
    <3>2. s.proposal.round = s.round
      BY Zenon, <1>2, <1>4, <2>10 DEF Sound
    <3>3. ~(s.proposal.round < p.round)
      BY <1>8, <2>2, <3>2
    <3>4. Stays(s, e)
      BY ZenonT(30), <1>2, <1>4, <2>6, <3>3 DEF Stays
    <3>. QED
      BY Zenon, <3>1, <3>4 DEF Proposed
  <2>11. CASE Unlocks(e, p) /\ e.phase = "Idle" /\ p.first
    <3>1. r.st = i /\ r.act = Do_nothing
      BY Zenon, <2>1, <2>11 DEF may_vote, prepare_consensus_votes, do_nothing, Return, i
    <3>2. Adopts(s, i)
      BY Zenon, <1>2, <1>4, <1>7, <2>7, <2>11 DEF Adopts
    <3>. QED
      BY Zenon, <3>1, <3>2 DEF Proposed
  <2>12. CASE Unlocks(e, p) /\ e.phase = "Idle" /\ ~p.first
    <3>1. /\ r.st = v
          /\ r.act = [type |-> "Prepare_consensus_votes", vote |-> make_consensus_vote_batch(e, p)]
      BY Zenon, <2>1, <2>12 DEF may_vote, prepare_consensus_votes, do_nothing, Return, v
    <3>2. make_consensus_vote_batch(e, p) = Content(v.proposal)
      BY Zenon, <1>2, <1>4, <1>5, <2>3 DEF make_consensus_vote_batch, Content
    <3>3. Unlocks(s, v.proposal)
      BY ZenonT(30), <1>2, <1>4, <1>5, <2>3, <2>12 DEF Unlocks
    <3>4. s.phase = "Idle"
      BY Zenon, <1>2, <1>4, <2>12
    <3>. QED
      BY Zenon, <2>8, <3>1, <3>2, <3>3, <3>4 DEF Proposed, Votes_for
  <2>. QED
    BY Zenon, <2>9, <2>10, <2>11, <2>12
<1>. QED
  BY Zenon, <1>10, <1>11, <1>12

LEMMA StaysPut ==
  ASSUME NEW s \in AutoStates
  PROVE  Stays(s, s)
BY Zenon DEF Stays, InLevel, Seen

LEMMA ProposalTurn ==
  ASSUME OneBranch, NEW s \in AutoStates, Sound(s), NEW p \in Proposals, NEW applied \in BOOLEAN,
         applied /\ p = s.proposal => s.phase # "Awaiting_application"
  PROVE  LET r == handle_proposal(s, p, applied)
         IN  Proposed(s, r.st, r.act) \/ LevelsUp(s, r, p)
<1> DEFINE n == [s EXCEPT !.applied = TRUE]
           r == handle_proposal(s, p, applied)
<1>1. p.level \in Nat /\ s.level \in Nat /\ s.proposal \in Proposals
  BY Zenon, ProposalFields DEF AutoStates
<1>2. CASE applied /\ p = s.proposal
  <2>1. TRUE \in BOOLEAN
    BY Zenon
  <2>2. /\ n \in AutoStates /\ n.level = s.level /\ n.proposal = s.proposal /\ n.round = s.round
        /\ n.phase = s.phase /\ n.locked = s.locked /\ n.early = s.early
        /\ n.elected = s.elected /\ n.attestable = s.attestable
    BY Zenon, <2>1 DEF AutoStates
  <2>3. r.st = n /\ r.act = Do_nothing
    BY Zenon, <1>2 DEF handle_proposal, do_nothing, Return
  <2> HIDE DEF n
  <2>4. Stays(s, n)
    BY Zenon, <1>2, <2>2 DEF Stays, InLevel, Seen
  <2>. QED
    BY Zenon, <2>3, <2>4 DEF Proposed
<1>3. CASE ~(applied /\ p = s.proposal) /\ p.level < s.level
  <2>1. r = do_nothing(s)
    BY <1>1, <1>3 DEF handle_proposal
  <2>2. r.st = s /\ r.act = Do_nothing
    BY <2>1 DEF do_nothing, Return
  <2>. QED
    BY Zenon, <2>2, StaysPut DEF Proposed
<1>4. CASE ~(applied /\ p = s.proposal) /\ p.level > s.level
  <2> DEFINE act == [type |-> "Update_to_level", proposal |-> p, applied |-> applied]
  <2>1. r = Return(s, act)
    BY SMTT(30), <1>1, <1>4 DEF handle_proposal
  <2>2. r.st = s /\ r.act = act
    BY SMTT(30), <2>1 DEF Return
  <2>. QED
    BY Zenon, <1>4, <2>2 DEF LevelsUp
<1>5. CASE ~(applied /\ p = s.proposal) /\ p.level = s.level
  <2>1. p.pred = s.proposal.pred
    BY Zenon, <1>1, <1>5 DEF OneBranch, Sound
  <2>2. r = HandleSameBranch(s, p, applied)
    BY <1>1, <1>5, <2>1 DEF handle_proposal
  <2>. QED
    BY Zenon, <1>5, <2>2, SameBranchTurn
<1>. QED
  BY SMTT(30), <1>1, <1>2, <1>3, <1>4, <1>5

LEMMA ValidTurn ==
  ASSUME OneBranch, NEW s \in AutoStates, Sound(s), NEW p \in Proposals
  PROVE  LET r == New_valid_proposal(s, p)
         IN  Proposed(s, r.st, r.act) \/ LevelsUp(s, r, p)
<1> DEFINE r == New_valid_proposal(s, p)
           h == handle_proposal(s, p, FALSE)
<1>1. FALSE \in BOOLEAN
  BY Zenon
<1>2. Proposed(s, h.st, h.act) \/ LevelsUp(s, h, p)
  BY Zenon, <1>1, ProposalTurn
<1>3. r = do_nothing(s) \/ r = h
  BY Zenon DEF New_valid_proposal
<1> HIDE DEF h, r
<1>4. CASE r = do_nothing(s)
  <2>1. r.st = s /\ r.act = Do_nothing
    BY Zenon, <1>4 DEF do_nothing, Return
  <2>. QED
    BY Zenon, <2>1, StaysPut DEF Proposed, r
<1>. QED
  BY Zenon, <1>2, <1>3, <1>4 DEF r

LEMMA HeadTurn ==
  ASSUME OneBranch, NEW s \in AutoStates, Sound(s), NEW p \in Proposals
  PROVE  LET r == New_head_proposal(s, p)
         IN  \/ Proposed(s, r.st, r.act) \/ LevelsUp(s, r, p)
             \/ s.phase = "Awaiting_application" /\ Elects(s, r.st) /\ r.act = Do_nothing
<1> DEFINE r == New_head_proposal(s, p)
           h == handle_proposal(s, p, TRUE)
           e == [s EXCEPT !.elected = {s.proposal}, !.phase = "Idle"]
<1>1. TRUE \in BOOLEAN
  BY Zenon
<1>2. CASE ~(s.phase = "Awaiting_application" /\ s.proposal = p)
  <2>1. r = h
    BY ZenonT(30), <1>2 DEF New_head_proposal
  <2>2. Proposed(s, h.st, h.act) \/ LevelsUp(s, h, p)
    BY Zenon, <1>1, <1>2, ProposalTurn
  <2> HIDE DEF r, h
  <2>. QED
    BY Zenon, <2>1, <2>2 DEF r
<1>3. CASE s.phase = "Awaiting_application" /\ s.proposal = p
  <2>1. s.elected = {}
    BY Zenon, <1>3 DEF Sound
  <2>2. r = do_nothing(e)
    BY Zenon, <1>3, <2>1 DEF New_head_proposal, handle_expected_applied_proposal
  <2>3. r.st = e /\ r.act = Do_nothing
    BY <2>2 DEF do_nothing, Return
  <2>4. /\ e \in AutoStates /\ e.level = s.level /\ e.proposal = s.proposal /\ e.round = s.round
        /\ e.phase = "Idle" /\ e.locked = s.locked /\ e.early = s.early
        /\ e.attestable = s.attestable
    BY Zenon DEF AutoStates, Phases
  <2> HIDE DEF e
  <2>5. Elects(s, e)
    BY Zenon, <1>3, <2>4 DEF Elects, InLevel, Seen
  <2>. QED
    BY Zenon, <1>3, <2>3, <2>5
<1>. QED
  BY Zenon, <1>2, <1>3

--------------------------------------------------------------------------------
(* The handlers of quorums, of signatures and of timeouts.                   *)

LEMMA PrequorumTurn ==
  ASSUME NEW s \in AutoStates, Sound(s), NEW c
  PROVE  LET r == Prequorum_reached(s, c)
         IN  \/ /\ r.st = s /\ r.act = Do_nothing
                /\ s.phase # "Awaiting_preattestations" \/ c # s.proposal
             \/ c = s.proposal /\ Locks(s, r.st, r.act)
<1> DEFINE p == s.proposal
           better == \A a \in s.attestable : a.prequorum < p.round
           attestable == IF better THEN {[proposal |-> p, prequorum |-> p.round]} ELSE s.attestable
           m == [s EXCEPT !.attestable = attestable]
           k == [m EXCEPT !.locked = {[round |-> p.round, payload |-> p.payload]}]
           n == [k EXCEPT !.phase = "Awaiting_attestations"]
           e == [n EXCEPT !.early = {}]
           r == Prequorum_reached(s, c)
<1>1. p \in Proposals /\ p.round \in Nat /\ p.payload \in Payloads
  BY Zenon, ProposalFields DEF AutoStates
<1>2. \/ r = do_nothing(s) /\ (s.phase # "Awaiting_preattestations" \/ c # p)
      \/ /\ s.phase = "Awaiting_preattestations" /\ c = p
         /\ r \in {Return(n, [type |-> "Prepare_attestations",
                              vote |-> make_consensus_vote_batch(n, p)]),
                   Return(n, Watch_quorum),
                   Return(e, [type |-> "Inject_attestations", votes |-> n.early])}
  BY Zenon DEF Prequorum_reached, prequorum_reached_when_awaiting_preattestations,
         update_locked_round, inject_early_arrived_attestations
<1>3. /\ attestable \in SUBSET Attestables
      /\ attestable = s.attestable \/ attestable = {[proposal |-> p, prequorum |-> p.round]}
  <2>1. s.attestable \in SUBSET Attestables
    BY Zenon DEF AutoStates
  <2>2. [proposal |-> p, prequorum |-> p.round] \in Attestables
    BY Zenon, <1>1 DEF Attestables
  <2>. QED
    BY Zenon, <2>1, <2>2
<1> HIDE DEF attestable, r
<1>4. /\ m \in AutoStates /\ m.level = s.level /\ m.proposal = p /\ m.early = s.early
      /\ m.attestable = attestable /\ m.round = s.round
  BY Zenon, <1>3 DEF AutoStates
<1> HIDE DEF m
<1>5. /\ k \in AutoStates /\ k.level = s.level /\ k.proposal = p /\ k.early = s.early
      /\ k.attestable = attestable /\ k.locked = {[round |-> p.round, payload |-> p.payload]}
      /\ k.round = s.round
  BY <1>1, <1>4 DEF AutoStates, LockedRounds
<1> HIDE DEF k
<1>6. /\ n \in AutoStates /\ n.level = s.level /\ n.proposal = p /\ n.early = s.early
      /\ n.attestable = attestable /\ n.locked = {[round |-> p.round, payload |-> p.payload]}
      /\ n.round = s.round /\ n.phase = "Awaiting_attestations"
  BY Zenon, <1>5 DEF AutoStates, Phases
<1> HIDE DEF n
<1>7. /\ e \in AutoStates /\ e.level = n.level /\ e.locked = n.locked
      /\ e.attestable = n.attestable /\ e.proposal = n.proposal /\ e.early = {}
      /\ e.round = n.round /\ e.phase = n.phase
  BY Zenon, <1>6 DEF AutoStates
<1> HIDE DEF e
<1>8. make_consensus_vote_batch(n, p) = Content(p)
  BY Zenon, <1>6 DEF make_consensus_vote_batch, Content, Sound
<1>9. CASE r = do_nothing(s) /\ (s.phase # "Awaiting_preattestations" \/ c # p)
  <2>1. r.st = s /\ r.act = Do_nothing
    BY Zenon, <1>9 DEF do_nothing, Return
  <2>. QED
    BY Zenon, <1>9, <2>1 DEF r
<1>10. ASSUME s.phase = "Awaiting_preattestations", c = p,
              r \in {Return(n, [type |-> "Prepare_attestations",
                                vote |-> make_consensus_vote_batch(n, p)]),
                     Return(n, Watch_quorum),
                     Return(e, [type |-> "Inject_attestations", votes |-> n.early])}
       PROVE  c = s.proposal /\ Locks(s, r.st, r.act)
  <2>1. \/ r.st = n /\ r.act = [type |-> "Prepare_attestations", vote |-> Content(p)]
        \/ r.st = n /\ r.act = Watch_quorum
        \/ r.st = e /\ r.act = [type |-> "Inject_attestations", votes |-> s.early]
    BY <1>6, <1>8, <1>10 DEF Return
  <2>2. p.round <= s.round
    BY Zenon DEF Sound
  <2>3. Seen(s, n) /\ Seen(s, e)
    BY SMTT(30), <1>1, <1>3, <1>6, <1>7, <2>2 DEF Seen
  <2>4. InLevel(s, n) /\ InLevel(s, e)
    BY Zenon, <1>6, <1>7, <2>3 DEF InLevel
  <2>5. attestable = s.attestable \/ \E a \in attestable : a.proposal = p
    <3> DEFINE x == [proposal |-> p, prequorum |-> p.round]
    <3>1. x.proposal = p /\ (attestable = s.attestable \/ attestable = {x})
      BY Zenon, <1>3
    <3> HIDE DEF x
    <3>. QED
      BY Zenon, <3>1
  <2> HIDE DEF p
  <2>6. n.attestable = s.attestable \/ \E a \in n.attestable : a.proposal = p
    BY Zenon, <1>6, <2>5
  <2>7. e.attestable = s.attestable \/ \E a \in e.attestable : a.proposal = p
    BY Zenon, <1>7, <2>6
  <2>. QED
    BY ZenonT(30), <1>6, <1>7, <1>10, <2>1, <2>4, <2>6, <2>7 DEF Locks, p
<1>. QED
  BY Zenon, <1>2, <1>9, <1>10 DEF r

LEMMA QuorumTurn ==
  ASSUME NEW s \in AutoStates, Sound(s), NEW c
  PROVE  LET r == Quorum_reached(s, c)
         IN  /\ r.act = Do_nothing
             /\ \/ /\ r.st = s
                   /\ s.phase # "Awaiting_attestations" \/ c # s.proposal \/ s.elected # {}
                \/ c = s.proposal /\ (Elects(s, r.st) \/ Delays(s, r.st))
<1> DEFINE e == [s EXCEPT !.elected = {s.proposal}, !.phase = "Idle"]
           d == [s EXCEPT !.delayed = TRUE, !.phase = "Awaiting_application"]
           r == Quorum_reached(s, c)
<1>1. TRUE \in BOOLEAN
  BY Zenon
<1>2. /\ e \in AutoStates /\ e.level = s.level /\ e.locked = s.locked /\ e.round = s.round
      /\ e.attestable = s.attestable /\ e.proposal = s.proposal /\ e.early = s.early
      /\ e.phase = "Idle"
  BY Zenon DEF AutoStates, Phases
<1>3. /\ d \in AutoStates /\ d.level = s.level /\ d.locked = s.locked /\ d.round = s.round
      /\ d.attestable = s.attestable /\ d.proposal = s.proposal /\ d.early = s.early
      /\ d.phase = "Awaiting_application" /\ d.delayed /\ d.elected = s.elected
      /\ d.applied = s.applied
  BY Zenon, <1>1 DEF AutoStates, Phases
<1>4. CASE s.phase # "Awaiting_attestations" \/ c # s.proposal \/ s.elected # {}
  <2>1. r = do_nothing(s)
    BY Zenon, <1>4 DEF Quorum_reached, quorum_reached_when_waiting_attestations
  <2>2. r.st = s /\ r.act = Do_nothing
    BY SMTT(30), <2>1 DEF do_nothing, Return
  <2>. QED
    BY Zenon, <1>4, <2>2
<1>5. CASE s.phase = "Awaiting_attestations" /\ c = s.proposal /\ s.elected = {} /\ s.applied
  <2>1. r = do_nothing(e)
    BY Zenon, <1>5 DEF Quorum_reached, quorum_reached_when_waiting_attestations
  <2>2. r.st = e /\ r.act = Do_nothing
    BY SMTT(30), <2>1 DEF do_nothing, Return
  <2> HIDE DEF e, r
  <2>3. Elects(s, e)
    BY Zenon, <1>2, <1>5 DEF Elects, InLevel, Seen
  <2>. QED
    BY Zenon, <1>5, <2>2, <2>3 DEF r
<1>6. CASE s.phase = "Awaiting_attestations" /\ c = s.proposal /\ s.elected = {} /\ ~s.applied
  <2>1. r = do_nothing(d)
    BY Zenon, <1>6 DEF Quorum_reached, quorum_reached_when_waiting_attestations
  <2>2. r.st = d /\ r.act = Do_nothing
    BY <2>1 DEF do_nothing, Return
  <2> HIDE DEF d, r
  <2>3. Seen(s, d)
    BY Zenon, <1>3 DEF Seen
  <2>4. Delays(s, d)
    BY ZenonT(30), <1>3, <1>6, <2>3 DEF Delays, InLevel
  <2>. QED
    BY Zenon, <1>6, <2>2, <2>4 DEF r
<1>. QED
  BY Zenon, <1>4, <1>5, <1>6

LEMMA ForgeTurn ==
  ASSUME NEW s \in AutoStates, Sound(s), NEW e \in Requests
  PROVE  LET r == handle_forge_event(s, e)
         IN  \/ r.st = s /\ r.act = Do_nothing
             \/ r.st = s /\ r.act = [type |-> "Inject_block", block |-> e.block]
             \/ /\ e.kind = "Preattestation" /\ r.st = s
                /\ r.act = [type |-> "Inject_preattestation", vote |-> e.vote]
             \/ e.kind = "Attestation" /\ Arrives(s, r.st, r.act, e.vote)
<1> DEFINE r == handle_forge_event(s, e)
<1>1. CASE e.kind = "Block"
  BY Zenon, <1>1 DEF handle_forge_event, Return
<1>2. CASE e.kind = "Preattestation"
  BY Zenon, <1>2 DEF handle_forge_event, Return
<1>3. CASE e.kind = "Attestation"
  <2> DEFINE k == [s EXCEPT !.early = s.early \cup {e.vote}]
             act == [type |-> "Inject_attestations", votes |-> {e.vote}]
             c == [level |-> s.proposal.level, round |-> s.proposal.round,
                   payload |-> s.proposal.payload]
  <2>1. e.vote \in VoteContents
    BY Zenon, <1>3 DEF Requests
  <2>2. /\ k \in AutoStates /\ k.level = s.level /\ k.round = s.round /\ k.locked = s.locked
        /\ k.attestable = s.attestable /\ k.proposal = s.proposal /\ k.phase = s.phase
        /\ k.early = s.early \cup {e.vote} /\ k.elected = s.elected
        /\ k.delayed = s.delayed /\ k.applied = s.applied
    BY Zenon, <2>1 DEF AutoStates
  <2>3. \/ r = do_nothing(s)
        \/ e.vote = c /\ s.phase = "Awaiting_preattestations" /\ r = do_nothing(k)
        \/ e.vote = c /\ s.phase # "Awaiting_preattestations" /\ r = Return(s, act)
    BY Zenon, <1>3 DEF handle_forge_event, handle_arriving_attestation
  <2>4. c = Content(s.proposal)
    BY Zenon DEF Content
  <2>5. InLevel(s, s) /\ InLevel(s, k)
    BY Zenon, <2>2 DEF InLevel, Seen
  <2> HIDE DEF k, act, r, c
  <2>6. CASE r = do_nothing(s)
    BY SMTT(30), <2>6 DEF do_nothing, Return, r
  <2>7. CASE e.vote = c /\ s.phase = "Awaiting_preattestations" /\ r = do_nothing(k)
    <3>1. r.st = k /\ r.act = Do_nothing
      BY Zenon, <2>7 DEF do_nothing, Return
    <3>2. Arrives(s, k, Do_nothing, e.vote)
      BY Zenon, <2>2, <2>4, <2>5, <2>7 DEF Arrives
    <3>. QED
      BY Zenon, <1>3, <3>1, <3>2 DEF r
  <2>8. CASE e.vote = c /\ s.phase # "Awaiting_preattestations" /\ r = Return(s, act)
    <3>1. r.st = s /\ r.act = act
      BY Zenon, <2>8 DEF Return
    <3>2. Arrives(s, s, act, e.vote)
      BY Zenon, <2>4, <2>5, <2>8 DEF Arrives, act
    <3>. QED
      BY Zenon, <1>3, <3>1, <3>2 DEF r
  <2>. QED
    BY Zenon, <2>3, <2>6, <2>7, <2>8
<1>. QED
  BY Zenon, <1>1, <1>2, <1>3 DEF Requests

LEMMA FreshTurn ==
  ASSUME NEW s \in AutoStates, NEW round \in Int
  PROVE  Renews(s, FreshRound(s, round), round)
<1> DEFINE k == [s EXCEPT !.round = round, !.phase = "Idle", !.delayed = FALSE]
           n == [k EXCEPT !.early = {}, !.awaiting = FALSE]
<1>0. FALSE \in BOOLEAN
  BY Zenon
<1>1. FreshRound(s, round) = n
  BY Zenon DEF FreshRound
<1>2. /\ k \in AutoStates /\ k.level = s.level /\ k.locked = s.locked /\ k.phase = "Idle"
      /\ k.attestable = s.attestable /\ k.proposal = s.proposal /\ k.round = round
  BY Zenon, <1>0 DEF AutoStates, Phases
<1> HIDE DEF k
<1>3. /\ n \in AutoStates /\ n.level = s.level /\ n.locked = s.locked /\ n.phase = "Idle"
      /\ n.attestable = s.attestable /\ n.proposal = s.proposal /\ n.early = {}
      /\ n.round = round
  BY Zenon, <1>0, <1>2 DEF AutoStates
<1> HIDE DEF n
<1>. QED
  BY Zenon, <1>1, <1>3 DEF Renews

LEMMA RoundTurn ==
  ASSUME NEW s \in AutoStates, NEW ending \in Int, NEW own
  PROVE  LET r == end_of_round(s, ending, own)
         IN  Renews(s, r.st, ending + 1) /\ r.act.type \in {"Do_nothing", "Prepare_block"}
<1> DEFINE n == FreshRound(s, ending + 1)
           act == propose_block_action(n, ending + 1)
           r == end_of_round(s, ending, own)
<1>1. r \in {Return(n, act), do_nothing(n)}
  BY Zenon DEF end_of_round
<1>2. Renews(s, n, ending + 1)
  BY SMTT(30), FreshTurn
<1>3. act.type = "Prepare_block"
  BY Zenon DEF propose_block_action
<1> HIDE DEF n, act, r
<1>4. r.st = n /\ r.act \in {act, Do_nothing}
  BY SMTT(30), <1>1 DEF do_nothing, Return
<1>. QED
  BY <1>2, <1>3, <1>4 DEF Do_nothing, r

LEMMA NextLevelTurn ==
  ASSUME NEW s \in AutoStates, NEW at_round \in Int
  PROVE  LET r == time_to_prepare_next_level_block(s, at_round)
         IN  Stays(s, r.st) /\ r.act.type = "Prepare_block"
<1> DEFINE n == [s EXCEPT !.proposed = {at_round}]
           r == time_to_prepare_next_level_block(s, at_round)
<1>1. r.st = n /\ r.act.type = "Prepare_block"
  BY Zenon DEF time_to_prepare_next_level_block, Return
<1>2. /\ n \in AutoStates /\ n.level = s.level /\ n.round = s.round /\ n.locked = s.locked
      /\ n.attestable = s.attestable /\ n.proposal = s.proposal /\ n.phase = s.phase
      /\ n.early = s.early /\ n.elected = s.elected
      /\ n.delayed = s.delayed /\ n.applied = s.applied
  BY Zenon DEF AutoStates
<1> HIDE DEF n, r
<1>3. Seen(s, n)
  BY Zenon, <1>2 DEF Seen
<1>4. Stays(s, n)
  BY Zenon, <1>2, <1>3 DEF Stays, InLevel
<1>. QED
  BY Zenon, <1>1, <1>4 DEF r

--------------------------------------------------------------------------------
(* An iteration on one branch is a turn.                                     *)

LEMMA PerformLocal ==
  ASSUME TypeInv, NEW S, NEW r, Outcome(st, S, r), perform_action(r),
         r.act.type \notin {"Update_to_level", "Synchronize_round"},
         Entries(ready') \subseteq Entries(ready)
  PROVE  /\ Acted(r.st, r.act) /\ stepped' = r.st
         /\ loop' = "record" /\ previous' = st /\ UNCHANGED <<clock, disk, granted>>
<1>1. Continue(r) = r
  BY Zenon DEF Continue
<1>2. NewRequests(r.act) \in Seq(Requests)
  BY ZenonT(30), OutcomeSends, SendsEffects
<1>3. \/ \E injected : injected \subseteq Injected(r.act) /\ Complete(r, injected)
      \/ Fail(r)
  BY Zenon, <1>1 DEF perform_action
<1>4. ASSUME Fail(r) PROVE Acted(r.st, r.act)
  <2>1. r.act.type = "Inject_block"
    BY Zenon, <1>4 DEF Fail
  <2>2. st' = r.st /\ requests' = requests /\ signing' = signing /\ watch' = watch
        /\ votes' = votes
    BY Zenon, <1>4 DEF Fail
  <2>3. Watched(r.st, r.act) = watch
    BY Zenon, <2>1 DEF Watched
  <2>4. Pending' \subseteq Pending
    BY Zenon, <2>2 DEF Pending
  <2>. QED
    BY Zenon, <2>2, <2>3, <2>4 DEF Acted
<1>5. Acted(r.st, r.act)
  BY Zenon, <1>2, <1>3, <1>4, CompleteActs
<1>. QED
  BY Zenon, <1>5 DEF perform_action

LEMMA PerformLevel ==
  ASSUME OneBranch, TypeInv, NEW S, NEW r, Outcome(st, S, r), perform_action(r),
         NEW p \in Proposals, LevelsUp(st, r, p), Timely(p),
         Entries(ready') \subseteq Entries(ready), qc' = qc
  PROVE  \E n, act : Turned(n, act)
<1>0. PICK s : s = st
  BY Zenon
<1>1. PICK applied \in BOOLEAN :
        r.act = [type |-> "Update_to_level", proposal |-> p, applied |-> applied]
  BY Zenon DEF LevelsUp
<1>2. r.st = s /\ p.level > s.level /\ s \in AutoStates /\ clock \in Nat
  BY Zenon, <1>0 DEF LevelsUp, TypeInv
<1> DEFINE round == compute_round(p)
           L == LevelState(p, applied, round)
           d == handle_proposal(L, p, applied)
<1>3. Continue(r) = d
  BY SMTT(30), <1>1 DEF Continue, compute_new_state
<1>4. /\ p.level \in Nat /\ p.round \in Nat /\ p.pred.start \in Nat
      /\ round \in Int /\ p.round <= round
  BY <1>2, ProposalsAssumption DEF compute_round, Timely
<1> HIDE DEF round
<1>5. /\ L \in AutoStates /\ L.level = p.level /\ L.proposal = p /\ L.round = round
      /\ L.phase = "Idle" /\ L.locked = {} /\ L.attestable = {} /\ L.early = {} /\ L.elected = {}
  <2>1. FALSE \in BOOLEAN
    BY ZenonT(30)
  <2>. QED
    BY Zenon, <1>4, <2>1 DEF LevelState, AutoStates, Phases
<1> HIDE DEF L
<1>6. Sound(L)
  BY ZenonT(30), <1>4, <1>5 DEF Sound
<1>7. StartsLevel(st, L)
  BY Zenon, <1>0, <1>2, <1>5, <1>6 DEF StartsLevel
<1>8. Proposed(L, d.st, d.act)
  <2>1. Proposed(L, d.st, d.act) \/ LevelsUp(L, d, p)
    BY ZenonT(30), <1>5, <1>6, ProposalTurn
  <2>2. ~LevelsUp(L, d, p)
    BY SMTT(30), <1>4, <1>5 DEF LevelsUp
  <2>. QED
    BY Zenon, <2>1, <2>2
<1>9. NewRequests(d.act) \in Seq(Requests)
  <2>1. Outcome(L, Early(L), d)
    BY Zenon, <1>5, ProposalOutcome
  <2> HIDE DEF d
  <2>. QED
    BY ZenonT(30), <2>1, OutcomeSends, SendsEffects
<1> HIDE DEF d
<1>10. /\ stepped' = st /\ loop' = "record" /\ previous' = st
       /\ UNCHANGED <<clock, disk, granted>>
  BY Zenon, <1>0, <1>2 DEF perform_action
<1>11. \/ \E injected : injected \subseteq Injected(d.act) /\ Complete(d, injected)
       \/ Fail(r)
  BY Zenon, <1>3 DEF perform_action
<1>12. ASSUME NEW injected, injected \subseteq Injected(d.act), Complete(d, injected)
       PROVE  \E n, act : Turned(n, act)
  <2>1. Acted(d.st, d.act)
    BY Zenon, <1>9, <1>12, CompleteActs
  <2>2. ByLevel(d.st, d.act)
    BY Zenon, <1>7, <1>8, <1>10 DEF ByLevel
  <2>. QED
    BY Zenon, <1>10, <2>1, <2>2 DEF Turned
<1>13. ASSUME Fail(r) PROVE \E n, act : Turned(n, act)
  <2>1. /\ st' = st /\ requests' = requests /\ signing' = signing /\ watch' = watch
        /\ votes' = votes
    BY Zenon, <1>0, <1>2, <1>13 DEF Fail
  <2>2. Watched(s, Do_nothing) = watch
    BY Zenon DEF Watched, Do_nothing
  <2>3. Pending' \subseteq Pending
    BY Zenon, <2>1 DEF Pending
  <2>4. Acted(s, Do_nothing)
    BY Zenon, <1>0, <2>1, <2>2, <2>3 DEF Acted
  <2>5. Proposed(st, s, Do_nothing)
    BY Zenon, <1>0, <1>2, StaysPut DEF Proposed
  <2>6. ByProposal(s, Do_nothing)
    BY Zenon, <1>0, <1>10, <2>5 DEF ByProposal
  <2>. QED
    BY Zenon, <1>10, <2>4, <2>6 DEF Turned
<1>. QED
  BY Zenon, <1>11, <1>12, <1>13

LEMMA ProposedType ==
  ASSUME NEW s, NEW n, NEW act, Proposed(s, n, act)
  PROVE  act.type \in {"Do_nothing", "Prepare_consensus_votes", "Watch_prequorum"}
BY SMTT(30) DEF Proposed, Votes_for, Do_nothing, Watch_prequorum

LEMMA ProposalTurns ==
  ASSUME OneBranch, ReadyToTurn, NEW p \in Proposals, NewValidProposal(p) \/ NewHeadProposal(p)
  PROVE  (\E n, act : Turned(n, act)) /\ Timely(p) /\ head' \in {head, p}
<1>0. st \in AutoStates /\ Sound(st) /\ TypeInv
  BY Zenon DEF ReadyToTurn, TypeInv
<1>1. /\ Timely(p) /\ head' \in {head, p} /\ ready' = ready /\ qc' = qc
  BY Zenon DEF NewValidProposal, NewHeadProposal, Available, node
<1>2. PICK r : /\ perform_action(r) /\ Outcome(st, Early(st), r)
               /\ \/ Proposed(st, r.st, r.act) \/ LevelsUp(st, r, p)
                  \/ st.phase = "Awaiting_application" /\ Elects(st, r.st) /\ r.act = Do_nothing
  <2>1. CASE NewValidProposal(p)
    <3>1. PICK r : r = New_valid_proposal(st, p)
      OBVIOUS
    <3>2. perform_action(r)
      BY Zenon, <2>1, <3>1 DEF NewValidProposal
    <3>3. Outcome(st, Early(st), r) /\ (Proposed(st, r.st, r.act) \/ LevelsUp(st, r, p))
      BY Zenon, <1>0, <3>1, ValidOutcome, ValidTurn
    <3>. QED
      BY Zenon, <3>2, <3>3
  <2>2. CASE NewHeadProposal(p)
    <3>1. PICK r : r = New_head_proposal(st, p)
      OBVIOUS
    <3>2. perform_action(r)
      BY Zenon, <2>2, <3>1 DEF NewHeadProposal
    <3>3. /\ Outcome(st, Early(st), r)
          /\ \/ Proposed(st, r.st, r.act) \/ LevelsUp(st, r, p)
             \/ st.phase = "Awaiting_application" /\ Elects(st, r.st) /\ r.act = Do_nothing
      BY Zenon, <1>0, <3>1, HeadOutcome, HeadTurn
    <3>. QED
      BY Zenon, <3>2, <3>3
  <2>. QED
    BY Zenon, <2>1, <2>2
<1>3. CASE LevelsUp(st, r, p)
  BY Zenon, <1>0, <1>1, <1>2, <1>3, PerformLevel
<1>4. CASE \/ Proposed(st, r.st, r.act)
           \/ st.phase = "Awaiting_application" /\ Elects(st, r.st) /\ r.act = Do_nothing
  <2>1. r.act.type \notin {"Update_to_level", "Synchronize_round"}
    BY SMTT(30), <1>4, ProposedType DEF Do_nothing
  <2>2. /\ Acted(r.st, r.act) /\ stepped' = r.st
        /\ loop' = "record" /\ previous' = st /\ UNCHANGED <<clock, disk, granted>>
    BY ZenonT(30), <1>0, <1>1, <1>2, <2>1, PerformLocal
  <2>3. ByProposal(r.st, r.act)
    BY Zenon, <1>1, <1>4, <2>2 DEF ByProposal
  <2>. QED
    BY Zenon, <1>1, <2>2, <2>3 DEF Turned
<1>. QED
  BY Zenon, <1>1, <1>2, <1>3, <1>4

LEMMA BootTurns ==
  ASSUME OneBranch, ReadyToTurn, Bootstrap
  PROVE  (\E n, act : Turned(n, act)) /\ head' = head
<1>0. /\ st \in AutoStates /\ Sound(st) /\ TypeInv /\ st.proposal \in Proposals /\ st.round \in Int
      /\ st.level \in Nat
  BY Zenon DEF ReadyToTurn, TypeInv, AutoStates
<1>1. loop = "boot" /\ head' = head /\ ready' = ready /\ qc' = qc
  BY Zenon DEF Bootstrap, node
<1>2. CASE st.proposal.round = st.round
  <2>1. PICK p : p = st.proposal
    OBVIOUS
  <2>2. PICK r : r = New_head_proposal(st, p)
    BY Zenon
  <2>3. perform_action(r)
    BY ZenonT(30), <1>2, <2>1, <2>2 DEF Bootstrap
  <2>4. /\ Outcome(st, Early(st), r)
        /\ \/ Proposed(st, r.st, r.act) \/ LevelsUp(st, r, p)
           \/ st.phase = "Awaiting_application" /\ Elects(st, r.st) /\ r.act = Do_nothing
    BY ZenonT(30), <1>0, <2>1, <2>2, HeadOutcome, HeadTurn
  <2>5. ~LevelsUp(st, r, p)
    BY SMTT(30), <1>0, <2>1 DEF LevelsUp, Sound
  <2>6. r.act.type \notin {"Update_to_level", "Synchronize_round"}
    BY SMTT(30), <2>4, <2>5, ProposedType DEF Do_nothing
  <2>7. /\ Acted(r.st, r.act) /\ stepped' = r.st
        /\ loop' = "record" /\ previous' = st /\ UNCHANGED <<clock, disk, granted>>
    BY ZenonT(30), <1>0, <1>1, <2>3, <2>4, <2>6, PerformLocal
  <2>8. ByProposal(r.st, r.act)
    BY Zenon, <1>1, <2>4, <2>5, <2>7 DEF ByProposal
  <2>. QED
    BY Zenon, <1>1, <2>7, <2>8 DEF Turned
<1>3. CASE st.proposal.round # st.round
  <2>1. PICK own : own = round_proposer(st.level, st.round)
    OBVIOUS
  <2>2. PICK r : r = end_of_round(st, st.round - 1, own)
    BY Zenon
  <2>3. perform_action(r)
    BY Zenon, <1>3, <2>1, <2>2 DEF Bootstrap
  <2>4. st.round - 1 \in Int /\ (st.round - 1) + 1 = st.round
    BY SMTT(30), <1>0
  <2>5. Outcome(st, Early(st), r) /\ Renews(st, r.st, (st.round - 1) + 1)
        /\ r.act.type \in {"Do_nothing", "Prepare_block"}
    BY ZenonT(30), <1>0, <2>2, <2>4, RoundOutcome, RoundTurn
  <2>6. Renews(st, r.st, st.round)
    BY Zenon, <2>4, <2>5
  <2>7. /\ Acted(r.st, r.act) /\ stepped' = r.st
        /\ loop' = "record" /\ previous' = st /\ UNCHANGED <<clock, disk, granted>>
    BY ZenonT(30), <1>0, <1>1, <2>3, <2>5, PerformLocal
  <2>8. ByTimeout(r.st, r.act)
    BY Zenon, <1>1, <2>5, <2>6, <2>7 DEF ByTimeout
  <2>. QED
    BY Zenon, <1>1, <2>7, <2>8 DEF Turned
<1>. QED
  BY Zenon, <1>2, <1>3

LEMMA TimeoutTurns ==
  ASSUME ReadyToTurn, Timeout
  PROVE  (\E n, act : Turned(n, act)) /\ head' = head
<1>0. st \in AutoStates /\ TypeInv /\ st.round \in Int
  BY Zenon DEF ReadyToTurn, TypeInv, AutoStates
<1>1. loop = "wait" /\ head' = head /\ ready' = ready /\ qc' = qc
  BY Zenon DEF Timeout, node
<1>2. PICK t \in timer :
        IF t.kind = "End_of_round"
        THEN /\ PromptSigning => NoPendingSignature
             /\ perform_action(end_of_round(st, t.round, round_proposer(st.level, t.round + 1)))
        ELSE perform_action(time_to_prepare_next_level_block(st, t.round))
  BY Zenon DEF Timeout
<1>3. /\ t.round \in Int /\ (t.kind # "End_of_round" => st.elected # {})
      /\ t.kind = "End_of_round" => t.round = st.round
  BY Zenon, <1>1 DEF ReadyToTurn, TypeInv
<1>4. CASE t.kind = "End_of_round"
  <2>1. PICK own : own = round_proposer(st.level, t.round + 1)
    OBVIOUS
  <2>2. PICK r : r = end_of_round(st, t.round, own)
    OBVIOUS
  <2>3. perform_action(r) /\ (PromptSigning => NoPendingSignature)
    BY ZenonT(30), <1>2, <1>4, <2>1, <2>2
  <2>4. /\ Outcome(st, Early(st), r) /\ Renews(st, r.st, st.round + 1)
        /\ r.act.type \in {"Do_nothing", "Prepare_block"}
    BY ZenonT(30), <1>0, <1>3, <1>4, <2>2, RoundOutcome, RoundTurn
  <2>5. /\ Acted(r.st, r.act) /\ stepped' = r.st
        /\ loop' = "record" /\ previous' = st /\ UNCHANGED <<clock, disk, granted>>
    BY ZenonT(30), <1>0, <1>1, <2>3, <2>4, PerformLocal
  <2>6. PromptSigning => Pending = {}
    BY SMTT(30), <2>3 DEF NoPendingSignature, Pending, Entries
  <2>7. ByTimeout(r.st, r.act)
    BY ZenonT(30), <1>1, <2>4, <2>5, <2>6 DEF ByTimeout
  <2>. QED
    BY ZenonT(30), <1>1, <2>5, <2>7 DEF Turned
<1>5. CASE t.kind # "End_of_round"
  <2>1. PICK r : r = time_to_prepare_next_level_block(st, t.round)
    OBVIOUS
  <2>2. perform_action(r)
    BY Zenon, <1>2, <1>5, <2>1
  <2>3. Outcome(st, Early(st), r) /\ Stays(st, r.st) /\ r.act.type = "Prepare_block"
    BY ZenonT(30), <1>0, <1>3, <1>5, <2>1, NextLevelOutcome, NextLevelTurn
  <2>4. /\ Acted(r.st, r.act) /\ stepped' = r.st
        /\ loop' = "record" /\ previous' = st /\ UNCHANGED <<clock, disk, granted>>
    BY ZenonT(30), <1>0, <1>1, <2>2, <2>3, PerformLocal
  <2>5. ByTimeout(r.st, r.act)
    BY Zenon, <1>1, <2>3, <2>4 DEF ByTimeout
  <2>. QED
    BY Zenon, <1>1, <2>4, <2>5 DEF Turned
<1>. QED
  BY Zenon, <1>4, <1>5

LEMMA QuorumTurns ==
  ASSUME ReadyToTurn, QCReached
  PROVE  (\E n, act : Turned(n, act)) /\ head' = head
<1>0. st \in AutoStates /\ Sound(st) /\ TypeInv
  BY Zenon DEF ReadyToTurn, TypeInv
<1>1. qc # <<>> /\ qc' = Tail(qc) /\ head' = head /\ ready' = ready
  BY Zenon DEF QCReached, node
<1>2. PICK e : e = Head(qc)
  BY Zenon
<1>3. e \in QuorumEvents
  BY Zenon, <1>1, <1>2, TailEntries DEF ReadyToTurn
<1>4. PICK c : c = e.candidate
  OBVIOUS
<1>5. \A k, x : e = [kind |-> k, candidate |-> x] <=> e.kind = k /\ c = x
  BY SMTT(30), <1>3, <1>4 DEF QuorumEvents
<1>6. CASE e.kind = "Preattestation"
  <2>1. PICK r : r = Prequorum_reached(st, c)
    BY Zenon
  <2>2. perform_action(r)
    BY Zenon, <1>2, <1>4, <1>6, <2>1 DEF QCReached
  <2>3. /\ Outcome(st, Early(st), r)
        /\ \/ /\ r.st = st /\ r.act = Do_nothing
              /\ st.phase # "Awaiting_preattestations" \/ c # st.proposal
           \/ c = st.proposal /\ Locks(st, r.st, r.act)
    BY ZenonT(30), <1>0, <2>1, PrequorumOutcome, PrequorumTurn
  <2>4. r.act.type \notin {"Update_to_level", "Synchronize_round"}
    BY SMTT(30), <2>3 DEF Locks, Do_nothing, Watch_quorum
  <2>5. /\ Acted(r.st, r.act) /\ stepped' = r.st
        /\ loop' = "record" /\ previous' = st /\ UNCHANGED <<clock, disk, granted>>
    BY ZenonT(30), <1>0, <1>1, <2>2, <2>3, <2>4, PerformLocal
  <2>6. CASE c = st.proposal /\ Locks(st, r.st, r.act)
    <3>1. e = [kind |-> "Preattestation", candidate |-> st.proposal]
      BY Zenon, <1>5, <1>6, <2>6
    <3>2. ByQuorum(r.st, r.act)
      BY ZenonT(30), <1>1, <1>2, <2>5, <2>6, <3>1 DEF ByQuorum
    <3>. QED
      BY Zenon, <1>1, <2>5, <3>2 DEF Turned
  <2>7. CASE /\ r.st = st /\ r.act = Do_nothing
             /\ st.phase # "Awaiting_preattestations" \/ c # st.proposal
    <3>1. /\ e = [kind |-> "Preattestation", candidate |-> st.proposal] =>
               st.phase # "Awaiting_preattestations"
          /\ e # [kind |-> "Attestation", candidate |-> st.proposal]
      BY Zenon, <1>5, <1>6, <2>7
    <3>2. ByQuorum(r.st, r.act)
      BY ZenonT(30), <1>1, <1>2, <2>5, <2>7, <3>1 DEF ByQuorum
    <3>. QED
      BY Zenon, <1>1, <2>5, <3>2 DEF Turned
  <2>. QED
    BY ZenonT(30), <2>3, <2>6, <2>7
<1>7. CASE e.kind # "Preattestation"
  <2>1. PICK r : r = Quorum_reached(st, c)
    OBVIOUS
  <2>2. perform_action(r)
    BY Zenon, <1>2, <1>4, <1>7, <2>1 DEF QCReached
  <2>3. /\ Outcome(st, Early(st), r) /\ r.act = Do_nothing
        /\ \/ /\ r.st = st
              /\ st.phase # "Awaiting_attestations" \/ c # st.proposal \/ st.elected # {}
           \/ c = st.proposal /\ (Elects(st, r.st) \/ Delays(st, r.st))
    BY ZenonT(30), <1>0, <2>1, QuorumOutcome, QuorumTurn
  <2>4. r.act.type \notin {"Update_to_level", "Synchronize_round"}
    BY SMTT(30), <2>3 DEF Do_nothing
  <2>5. /\ Acted(r.st, r.act) /\ stepped' = r.st
        /\ loop' = "record" /\ previous' = st /\ UNCHANGED <<clock, disk, granted>>
    BY ZenonT(30), <1>0, <1>1, <2>2, <2>3, <2>4, PerformLocal
  <2>6. e.kind = "Attestation"
    BY ZenonT(30), <1>3, <1>7 DEF QuorumEvents
  <2>7. CASE c = st.proposal /\ (Elects(st, r.st) \/ Delays(st, r.st))
    <3>1. e = [kind |-> "Attestation", candidate |-> st.proposal]
      BY Zenon, <1>5, <2>6, <2>7
    <3>2. ByQuorum(r.st, r.act)
      BY ZenonT(30), <1>1, <1>2, <2>3, <2>5, <2>7, <3>1 DEF ByQuorum
    <3>. QED
      BY Zenon, <1>1, <2>5, <3>2 DEF Turned
  <2>8. CASE /\ r.st = st
             /\ st.phase # "Awaiting_attestations" \/ c # st.proposal \/ st.elected # {}
    <3>1. /\ e = [kind |-> "Attestation", candidate |-> st.proposal] =>
               st.phase # "Awaiting_attestations" \/ st.elected # {}
          /\ e # [kind |-> "Preattestation", candidate |-> st.proposal]
      BY SMTT(30), <1>5, <2>6, <2>8
    <3>2. ByQuorum(r.st, r.act)
      BY ZenonT(30), <1>1, <1>2, <2>3, <2>5, <2>8, <3>1 DEF ByQuorum
    <3>. QED
      BY Zenon, <1>1, <2>5, <3>2 DEF Turned
  <2>. QED
    BY ZenonT(30), <2>3, <2>7, <2>8
<1>. QED
  BY Zenon, <1>6, <1>7

LEMMA ForgeTurns ==
  ASSUME ReadyToTurn, NewForgeEvent
  PROVE  (\E n, act : Turned(n, act)) /\ head' = head
<1>0. st \in AutoStates /\ Sound(st) /\ TypeInv /\ ready \in Seq(Requests)
  BY Zenon DEF ReadyToTurn, TypeInv
<1>1. ready # <<>> /\ ready' = Tail(ready) /\ head' = head /\ qc' = qc
  BY Zenon DEF NewForgeEvent, node
<1>2. PICK e : e = Head(ready)
  OBVIOUS
<1>3. e \in Requests /\ e \in Entries(ready) /\ Entries(ready') \subseteq Entries(ready)
  BY Zenon, <1>0, <1>1, <1>2, TailEntries
<1>4. PICK r : r = handle_forge_event(st, e)
  OBVIOUS
<1>5. perform_action(r)
  BY Zenon, <1>2, <1>4 DEF NewForgeEvent
<1>6. Outcome(st, Early(st) \cup {e}, r)
  BY Zenon, <1>0, <1>3, <1>4, ForgeOutcome
<1>7. \/ r.st = st /\ r.act = Do_nothing
      \/ r.st = st /\ r.act = [type |-> "Inject_block", block |-> e.block]
      \/ /\ e.kind = "Preattestation" /\ r.st = st
         /\ r.act = [type |-> "Inject_preattestation", vote |-> e.vote]
      \/ e.kind = "Attestation" /\ Arrives(st, r.st, r.act, e.vote)
  BY ZenonT(30), <1>0, <1>3, <1>4, ForgeTurn
<1>8. r.act.type \notin {"Update_to_level", "Synchronize_round"}
  BY SMTT(30), <1>7 DEF Arrives, Do_nothing
<1>9. /\ Acted(r.st, r.act) /\ stepped' = r.st
      /\ loop' = "record" /\ previous' = st /\ UNCHANGED <<clock, disk, granted>>
  BY ZenonT(30), <1>0, <1>3, <1>5, <1>6, <1>8, PerformLocal
<1>10. ByForge(r.st, r.act)
  <2>1. CASE e.kind \in {"Preattestation", "Attestation"}
    <3>1. e \in Pending
      BY Zenon, <1>3, <2>1 DEF Pending
    <3>2. CASE r.st = st /\ r.act.type \in {"Do_nothing", "Inject_block"}
      BY Zenon, <1>1, <1>9, <3>2 DEF ByForge
    <3>3. CASE \/ /\ e.kind = "Preattestation" /\ r.st = st
                  /\ r.act = [type |-> "Inject_preattestation", vote |-> e.vote]
               \/ e.kind = "Attestation" /\ Arrives(st, r.st, r.act, e.vote)
      BY Zenon, <1>1, <1>9, <3>1, <3>3 DEF ByForge
    <3>. QED
      BY SMTT(30), <1>7, <3>2, <3>3 DEF Do_nothing
  <2>2. CASE e.kind \notin {"Preattestation", "Attestation"}
    <3>1. r.st = st /\ r.act.type \in {"Do_nothing", "Inject_block"}
      BY SMTT(30), <1>7, <2>2 DEF Do_nothing
    <3>. QED
      BY ZenonT(30), <1>1, <1>9, <3>1 DEF ByForge
  <2>. QED
    BY ZenonT(30), <2>1, <2>2
<1>. QED
  BY Zenon, <1>1, <1>9, <1>10 DEF Turned

LEMMA IterationTurns ==
  ASSUME OneBranch, ReadyToTurn, Iteration
  PROVE  /\ \E n, act : Turned(n, act)
         /\ head' = head \/ Timely(head')
BY Zenon, ProposalTurns, BootTurns, TimeoutTurns, QuorumTurns, ForgeTurns DEF Iteration, Timely

--------------------------------------------------------------------------------
(* What the other steps do to rounds and quorums.                            *)

LEMMA InitialFresh ==
  ASSUME NEW p \in Proposals, NEW round \in Int, NEW D \in SUBSET Records
  PROVE  LET n == create_initial_state(p, round, D)
         IN  /\ n.level = p.level /\ n.proposal = p /\ n.round = round /\ n.phase = "Idle"
             /\ D = {} => \A a \in n.attestable : a.proposal = p
<1> DEFINE L == LevelState(p, TRUE, round)
           E == IF p.first THEN {p} ELSE {}
           start == [L EXCEPT !.elected = E]
           of_level == {d \in D : d.level = p.level}
           locked == UNION {d.locked : d \in of_level}
           attestable == UNION {d.attestable : d \in of_level}
           loaded == [start EXCEPT !.locked = locked, !.attestable = attestable]
           new == {[proposal |-> p, prequorum |-> q] : q \in p.prequorum}
           updated == [loaded EXCEPT !.attestable = new]
           n == create_initial_state(p, round, D)
<1>0. TRUE \in BOOLEAN /\ FALSE \in BOOLEAN
  BY ZenonT(30)
<1>1. /\ L \in AutoStates /\ L.level = p.level /\ L.proposal = p /\ L.round = round
      /\ L.phase = "Idle"
  BY ZenonT(30), <1>0, ProposalFields DEF LevelState, AutoStates, Phases
<1>2. E \in SUBSET Proposals /\ \A a \in new : a.proposal = p
  OBVIOUS
<1>3. locked \in SUBSET LockedRounds /\ attestable \in SUBSET Attestables
  BY Zenon DEF Records
<1>4. new \in SUBSET Attestables
  BY SMTT(30), ProposalFields DEF Attestables
<1>5. D = {} => attestable = {}
  OBVIOUS
<1>6. n \in {loaded, updated}
  BY Zenon DEF create_initial_state
<1> HIDE DEF L, E, locked, attestable, new
<1>7. /\ start \in AutoStates /\ start.level = p.level /\ start.proposal = p
      /\ start.round = round /\ start.phase = "Idle"
  BY Zenon, <1>1, <1>2 DEF AutoStates
<1> HIDE DEF start
<1>8. /\ loaded \in AutoStates /\ loaded.level = p.level /\ loaded.proposal = p
      /\ loaded.round = round /\ loaded.phase = "Idle" /\ loaded.attestable = attestable
  BY Zenon, <1>3, <1>7 DEF AutoStates
<1> HIDE DEF loaded
<1>9. /\ updated \in AutoStates /\ updated.level = p.level /\ updated.proposal = p
      /\ updated.round = round /\ updated.phase = "Idle" /\ updated.attestable = new
  BY ZenonT(30), <1>4, <1>8 DEF AutoStates
<1> HIDE DEF updated, n
<1>. QED
  BY ZenonT(30), <1>2, <1>5, <1>6, <1>8, <1>9 DEF n

\* A state just created on a block that is not of the future.
LEMMA CreatedFollowed ==
  ASSUME NEW n \in AutoStates, NEW p \in Proposals, NEW round \in Int, p.round <= round,
         n.level = p.level, n.proposal = p, n.round = round, n.phase = "Idle",
         NEW W, NEW Q, NEW G
  PROVE  Sound(n) /\ ToldBy(n, W, Q, G) /\ Reported(n, G)
BY Zenon DEF Sound, ToldBy, Reported

LEMMA TimerRounds ==
  ASSUME NEW s
  PROVE  \A t \in compute_next_timeout(s) : t.kind = "End_of_round" => t.round = s.round
<1> DEFINE B == compute_next_potential_baking_time(s)
           R == compute_next_round_time(s)
           at(b) == IF b[2] = 0 THEN Larger(b[1], 1) - 1 ELSE b[1]
           baking == {[kind |-> "Time_to_prepare_next_level_block", round |-> b[2],
                       at |-> at(b)] : b \in B}
           ending == {[kind |-> "End_of_round", round |-> s.round, at |-> t] : t \in R}
<1>1. compute_next_timeout(s) \in {baking, ending}
  BY Zenon DEF compute_next_timeout
<1> HIDE DEF B, R, at
<1>2. \A t \in baking : t.kind # "End_of_round"
  BY SMTT(30)
<1>3. \A t \in ending : t.round = s.round
  BY SMTT(30)
<1> HIDE DEF baking, ending
<1>. QED
  BY Zenon, <1>1, <1>2, <1>3

\* A record leaves all but the state alone.
LEMMA RecordQuiet ==
  ASSUME may_record_new_state \/ RecordRefused
  PROVE  /\ loop = "record" /\ st' \in {st, stepped} /\ previous' = st' /\ stepped' = st'
         /\ loop' = "wait" /\ timer' = compute_next_timeout(st')
         /\ UNCHANGED <<clock, head, requests, signing, ready, watch, qc, votes, granted>>
BY Zenon DEF may_record_new_state, RecordRefused, GoOn, node, forge, quorums

LEMMA RoundRecord ==
  ASSUME RoundInv, TypeInv', may_record_new_state \/ RecordRefused
  PROVE  RoundInv'
<1>1. /\ loop = "record" /\ st' \in {st, stepped} /\ previous' = st' /\ stepped' = st'
      /\ loop' = "wait" /\ timer' = compute_next_timeout(st')
      /\ UNCHANGED <<clock, head, requests, signing, ready, watch, qc, votes, granted>>
  BY Zenon, RecordQuiet
<1>2. PICK s : s = st'
  BY Zenon
<1>3. s \in AutoStates /\ Followed(s)
  <2>1. s \in {st, stepped} /\ Followed(st) /\ Followed(stepped)
    BY Zenon, <1>1, <1>2 DEF RoundInv
  <2>. QED
    BY Zenon, <2>1 DEF RoundInv, TypeInv
<1>4. Followed(st)' /\ Followed(stepped)'
  BY Zenon, <1>1, <1>2, <1>3 DEF Followed
<1>5. \A t \in timer' : t.kind = "End_of_round" => t.round = st'.round
  <2>1. \A t \in compute_next_timeout(s) : t.kind = "End_of_round" => t.round = s.round
    BY Zenon, TimerRounds
  <2>. QED
    BY ZenonT(30), <1>1, <1>2, <2>1
<1>6. Timely(head)'
  BY Zenon, <1>1 DEF Timely, RoundInv
<1>7. /\ (watch \subseteq QuorumEvents /\ \A v, w \in watch : v = w)'
      /\ (granted \subseteq QuorumEvents /\ qc \in Seq(QuorumEvents) /\ Entries(qc) \subseteq granted)'
  BY Zenon, <1>1 DEF RoundInv
<1>8. previous' \in AutoStates /\ stepped' = st' /\ previous' = st'
  BY Zenon, <1>1, <1>2, <1>3
<1>. QED
  BY ZenonT(30), <1>1, <1>4, <1>5, <1>6, <1>7, <1>8 DEF RoundInv

LEMMA RoundSame ==
  ASSUME RoundInv, TypeInv', clock <= clock',
         UNCHANGED <<st, loop, previous, stepped, timer, head, watch, qc, granted>>
  PROVE  RoundInv'
<1>1. Followed(st)' /\ Followed(stepped)'
  BY Zenon DEF Followed, RoundInv
<1>2. Timely(head)'
  <2>1. head \in Proposals /\ clock \in Nat /\ clock' \in Nat
    BY Zenon DEF RoundInv, TypeInv
  <2>2. head.round \in Nat /\ head.pred.start \in Nat
    BY Zenon, <2>1, ProposalsAssumption
  <2>3. head.pred.start + head.round <= clock
    BY Zenon DEF RoundInv, Timely
  <2>4. head.pred.start + head.round <= clock'
    BY SMTT(30), <2>1, <2>2, <2>3
  <2>. QED
    BY ZenonT(30), <2>4 DEF Timely
<1>. QED
  BY Zenon, <1>1, <1>2 DEF RoundInv

LEMMA RoundObserved ==
  ASSUME RoundInv, TypeInv', QuorumObserved
  PROVE  RoundInv'
<1>1. PICK w \in watch : qc' = Append(qc, w) /\ granted' = granted \cup {w}
  BY Zenon DEF QuorumObserved
<1>2. /\ watch' = {}
      /\ UNCHANGED <<st, loop, previous, stepped, timer, head, clock>>
  BY Zenon DEF QuorumObserved, automaton, node
<1>3. /\ watch = {w} /\ w \in QuorumEvents /\ qc \in Seq(QuorumEvents)
      /\ granted \subseteq QuorumEvents /\ Entries(qc) \subseteq granted
  BY Zenon, <1>1 DEF RoundInv
<1>4. qc' \in Seq(QuorumEvents) /\ Entries(qc') = Entries(qc) \cup {w}
  BY SMTT(30), <1>1, <1>3, AppendEntries
<1>5. ASSUME NEW s, Followed(s)
      PROVE  /\ Sound(s) /\ ToldBy(s, {}, Entries(qc) \cup {w}, granted \cup {w})
             /\ Reported(s, granted \cup {w})
  <2>1. ToldBy(s, {w}, Entries(qc), granted) /\ Reported(s, granted) /\ Sound(s)
    BY Zenon, <1>3, <1>5 DEF Followed
  <2>. QED
    BY Zenon, <2>1 DEF ToldBy, Reported
<1>6. Followed(st)' /\ Followed(stepped)'
  <2>1. /\ Sound(st) /\ ToldBy(st, {}, Entries(qc) \cup {w}, granted \cup {w})
        /\ Reported(st, granted \cup {w})
        /\ Sound(stepped) /\ ToldBy(stepped, {}, Entries(qc) \cup {w}, granted \cup {w})
        /\ Reported(stepped, granted \cup {w})
    BY Zenon, <1>5 DEF RoundInv
  <2>. QED
    BY Zenon, <1>1, <1>2, <1>4, <2>1 DEF Followed
<1>7. Timely(head)'
  BY ZenonT(30), <1>2 DEF Timely, RoundInv
<1>8. granted' \subseteq QuorumEvents /\ Entries(qc') \subseteq granted'
  BY Zenon, <1>1, <1>3, <1>4
<1>9. watch' \subseteq QuorumEvents /\ \A v, x \in watch' : v = x
  BY Zenon, <1>2
<1>10. /\ previous' \in AutoStates
       /\ loop' = "wait" => \A t \in timer' : t.kind = "End_of_round" => t.round = st'.round
       /\ loop' = "record" => previous'.level = stepped'.level
                                /\ (st' = stepped' \/ st'.level > previous'.level)
       /\ loop' # "record" => stepped' = st' /\ previous' = st'
  BY Zenon, <1>2 DEF RoundInv
<1>. QED
  BY ZenonT(30), <1>4, <1>6, <1>7, <1>8, <1>9, <1>10 DEF RoundInv

\* The steps of the daemon and of its environment, the records with their state.
LEMMA NextCases ==
  ASSUME [Next]_vars
  PROVE  \/ Iteration \/ may_record_new_state \/ RecordRefused
         \/ ProcessRequest \/ Sign \/ SigningFails \/ Restart
         \/ Tick \/ QuorumObserved \/ UNCHANGED vars
BY Zenon DEF Next, Iteration

\* When records do not fail, the daemon goes on with the state it reached.
LEMMA RecordKeepsState ==
  ASSUME RoundInv, MaxFaults = 0 \/ ~Filesystem, may_record_new_state \/ RecordRefused
  PROVE  /\ st' = st
         /\ RecordRefused => ~Consistent(st) /\ st = stepped /\ faults' = faults
<1>1. CASE may_record_new_state /\ ~RecordRefused
  BY Zenon, <1>1 DEF may_record_new_state, GoOn
<1>2. CASE RecordRefused
  <2>1. Filesystem /\ MaxFaults = 0 /\ faults \in Nat /\ loop = "record" /\ st' = stepped
    BY ZenonT(30), <1>2 DEF RecordRefused, GoOn, RoundInv, TypeInv
  <2>2. ~Consistent(st) /\ faults' = faults
    BY SMTT(30), <1>2, <2>1 DEF RecordRefused
  <2>3. ~(st.level > previous.level)
    BY Zenon, <2>2 DEF Consistent
  <2>4. st = stepped
    BY Zenon, <2>1, <2>3 DEF RoundInv
  <2>. QED
    BY Zenon, <2>1, <2>2, <2>4
<1>. QED
  BY Zenon, <1>1, <1>2

--------------------------------------------------------------------------------
(* What a turn does to the lock and its record.                              *)

LEMMA ProposedRelocks ==
  ASSUME NEW s \in AutoStates, AttestablePast(s), NEW n, NEW act, Proposed(s, n, act)
  PROVE  AttestablePast(n) /\ n.level = s.level /\ n.locked = s.locked
<1>1. InLevel(s, n) /\ n.locked = s.locked
  BY ZenonT(30) DEF Proposed, Stays, Adopts, Votes_for, Enters, Follows
<1>. QED
  BY Zenon, <1>1 DEF InLevel, Seen, AttestablePast

LEMMA TurnRelocks ==
  ASSUME NEW s, s = st, s \in AutoStates, Sound(s), LockBelow(s), AttestablePast(s),
         NEW n, NEW act, Turned(n, act)
  PROVE  AttestablePast(n) /\ Relocks(s, n)
<1>0. s.round \in Int /\ \A a \in s.attestable : a.proposal.round \in Nat
  BY ZenonT(30), ProposalFields DEF AutoStates, Attestables
<1>1. ASSUME InLevel(s, n), n.locked = s.locked
      PROVE  AttestablePast(n) /\ Relocks(s, n)
  BY Zenon, <1>1 DEF InLevel, Seen, AttestablePast, Relocks
<1>2. ASSUME NEW round \in Int, s.round <= round, Renews(s, n, round)
      PROVE  AttestablePast(n) /\ Relocks(s, n)
  BY SMTT(30), <1>0, <1>2 DEF Renews, AttestablePast, Relocks
<1>3. CASE ByProposal(n, act)
  BY Zenon, <1>1, <1>3, ProposedRelocks DEF ByProposal, Elects, Relocks
<1>4. CASE ByLevel(n, act)
  <2>1. PICK L : StartsLevel(s, L) /\ Proposed(L, n, act)
    BY Zenon, <1>4 DEF ByLevel
  <2>2. L \in AutoStates /\ AttestablePast(L) /\ L.level > s.level
    BY Zenon, <2>1 DEF StartsLevel, AttestablePast
  <2>. QED
    BY ZenonT(30), <2>1, <2>2, ProposedRelocks DEF Relocks
<1>5. CASE ByTimeout(n, act)
  <2>1. s.round <= s.round /\ s.round <= s.round + 1 /\ s.round + 1 \in Int
    BY SMTT(30), <1>0
  <2>2. CASE Stays(s, n)
    BY Zenon, <1>1, <2>2 DEF Stays
  <2>. QED
    BY ZenonT(30), <1>0, <1>2, <1>5, <2>1, <2>2 DEF ByTimeout
<1>6. CASE Locks(s, n, act)
  <2>1. /\ AttestablePast(n) /\ n.level = s.level
        /\ n.locked = {[round |-> s.proposal.round, payload |-> s.proposal.payload]}
        /\ s.proposal.round = s.round
        /\ n.attestable = s.attestable \/ \E a \in n.attestable : a.proposal = s.proposal
    BY ZenonT(30), <1>6 DEF Locks, InLevel, Seen, AttestablePast, Sound
  <2>2. \A l \in s.locked : \E k \in n.locked : k.round >= l.round
    BY SMTT(30), <2>1 DEF LockBelow
  <2>3. \A a \in s.attestable : \E b \in n.attestable : b.proposal.round >= a.proposal.round
    BY SMTT(30), <1>0, <2>1 DEF AttestablePast
  <2>. QED
    BY ZenonT(30), <2>1, <2>2, <2>3 DEF Relocks
<1>7. CASE ByQuorum(n, act)
  <2>1. \/ n = s \/ Locks(s, n, act) \/ Elects(s, n) \/ Delays(s, n)
    BY Zenon, <1>7 DEF ByQuorum
  <2>. QED
    BY Zenon, <1>1, <1>6, <2>1 DEF Elects, Delays, Relocks
<1>8. CASE ByForge(n, act)
  <2>1. n = s \/ \E v : Arrives(s, n, act, v)
    BY Zenon, <1>8 DEF ByForge
  <2>. QED
    BY ZenonT(30), <1>1, <2>1 DEF Arrives, Relocks
<1>. QED
  BY ZenonT(30), <1>3, <1>4, <1>5, <1>7, <1>8 DEF Turned

================================================================================
