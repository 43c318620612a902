--------------------------- MODULE BakerRoundProofs ----------------------------
(******************************************************************************)
(* What a baker daemon keeps when all the proposals of a level build on one   *)
(* predecessor: it votes in the round of its proposal, it is told of the quorums *)
(* it waits for, and, when signatures are handled before their round ends, what *)
(* it votes for follows its lock.                                             *)
(******************************************************************************)
EXTENDS BakerIterationProofs, BakerTurnProofs

--------------------------------------------------------------------------------
(* The votes, over one step.                                                 *)

\* The steps that neither turn nor restart: no vote is added, no state is changed.
LEMMA QuietStep ==
  ASSUME RoundInv, MaxFaults = 0 \/ ~Filesystem,
         \/ may_record_new_state \/ RecordRefused \/ ProcessRequest \/ Sign \/ SigningFails
         \/ Tick \/ QuorumObserved \/ UNCHANGED vars
  PROVE  /\ st' = st /\ votes' = votes /\ Pending' \subseteq Pending
         /\ granted \subseteq granted' /\ (loop' = "boot" => loop = "boot")
<1>1. CASE may_record_new_state \/ RecordRefused
  <2>1. /\ st' = st /\ loop' = "wait" /\ UNCHANGED <<requests, signing, ready, votes, granted>>
    BY Zenon, <1>1, RecordQuiet, RecordKeepsState
  <2>2. Pending' = Pending
    BY Zenon, <2>1 DEF Pending
  <2>. QED
    BY Zenon, <2>1, <2>2
<1>2. CASE ProcessRequest \/ Sign \/ SigningFails
  BY Zenon, <1>2, ForgePending DEF RoundInv
<1>3. CASE Tick \/ QuorumObserved \/ UNCHANGED vars
  <2>1. /\ UNCHANGED <<st, loop, requests, signing, ready, votes>>
        /\ granted \subseteq granted'
    BY Zenon, <1>3 DEF Tick, QuorumObserved, vars, automaton, forge, history
  <2>2. Pending' = Pending
    BY Zenon, <2>1 DEF Pending
  <2>. QED
    BY Zenon, <2>1, <2>2
<1>. QED
  BY ZenonT(30), <1>1, <1>2, <1>3

LEMMA TurnVotes ==
  ASSUME PromptSigning, VoteInv, TypeInv', NEW n, NEW act, Turned(n, act)
  PROVE  VoteFor(n, votes', Pending', granted)
<1>0. PICK s, V, P, G, R, I :
        /\ s = st /\ V = votes /\ P = Pending /\ G = granted
        /\ R = Pending' /\ I = votes' \cap Injected(act)
  BY Zenon
<1>1. /\ s \in AutoStates /\ Sound(s) /\ V \subseteq Votes /\ P \subseteq Votes
      /\ PendingFor(s, P, G) /\ VoteFor(s, V, P, G) /\ RoundInv
  BY ZenonT(30), <1>0, PendingType DEF VoteInv, PendInv, RoundInv, TypeInv, Followed
<1>2. /\ n \in AutoStates /\ Sound(n)
  BY Zenon, <1>1, TurnTold
<1>3. /\ PendingFor(n, R, G) /\ Sends_of(s, P, G, n, act)
  BY ZenonT(30), <1>0, TurnPending DEF VoteInv
<1>4. /\ R \subseteq P \cup Asked(act) /\ votes' \subseteq V \cup I
      /\ I \subseteq Votes /\ I \subseteq Injected(act)
  BY Zenon, <1>0 DEF Turned, Acted, TypeInv
<1>5. R \subseteq Votes
  <2>1. (TypeInv => Pending \subseteq Votes)'
    BY PendingType, PTL
  <2>. QED
    BY Zenon, <1>0, <2>1
<1>6. VoteFor(n, V, R, G)
  <2>1. VoteFor(n, V, P \cup Asked(act), G)
    BY Zenon, <1>0, TurnVotesState
  <2>. QED
    BY Zenon, <1>4, <2>1, FewerVotes
<1>7. ASSUME NEW t \in I
      PROVE  /\ t.vote.level <= n.level
             /\ t.vote.level = n.level => Current(n, t.vote)
             /\ t.kind = "Preattestation" => Justified(t.vote, V, G)
             /\ t.kind = "Attestation" => Current(n, t.vote) /\ LocksIn(n, t.vote)
  <2>1. t \in Injected(act)
    BY Zenon, <1>4
  <2>2. \A v : Current(s, v) => v.level = s.level
    BY SMTT(30), <1>1 DEF Current, Content, Sound
  <2>3. \A v : Current(n, v) => v.level = n.level
    BY <1>2 DEF Current, Content, Sound
  <2>4. n.level \in Nat
    BY Zenon, <1>2 DEF AutoStates
  <2>5. ASSUME NEW e \in P, e.kind = "Preattestation", t = Vote("Preattestation", e.vote), n = s
        PROVE  /\ t.vote.level <= n.level
               /\ t.vote.level = n.level => Current(n, t.vote)
               /\ t.kind = "Preattestation" => Justified(t.vote, V, G)
               /\ t.kind # "Attestation"
    <3>1. t.kind = "Preattestation" /\ t.vote = e.vote
      BY Zenon, <2>5 DEF Vote
    <3>2. e.vote.level <= s.level /\ (e.vote.level = s.level => Current(s, e.vote))
      BY Zenon, <1>1 DEF PendingFor
    <3>3. Justified(e.vote, V, G)
      BY ZenonT(30), <1>1, <2>5 DEF VoteFor
    <3>. QED
      BY ZenonT(30), <2>5, <3>1, <3>2, <3>3
  <2>6. ASSUME NEW e \in P, e.kind = "Attestation", t = Vote("Attestation", e.vote),
               Current(s, e.vote), s.phase # "Awaiting_preattestations",
               n.level = s.level, n.locked = s.locked, Current(n, e.vote)
        PROVE  t.kind = "Attestation" /\ Current(n, t.vote) /\ LocksIn(n, t.vote)
    <3>1. t.kind = "Attestation" /\ t.vote = e.vote
      BY Zenon, <2>6 DEF Vote
    <3>2. LocksIn(s, e.vote)
      BY ZenonT(30), <1>1, <2>2, <2>6 DEF VoteFor
    <3>3. LocksIn(n, e.vote)
      BY Zenon, <2>6, <3>2 DEF LocksIn
    <3>. QED
      BY ZenonT(30), <2>6, <3>1, <3>3
  <2>7. ASSUME Locks(s, n, act), [kind |-> "Preattestation", candidate |-> s.proposal] \in G,
               t.kind = "Attestation", Current(s, t.vote)
        PROVE  t.kind = "Attestation" /\ Current(n, t.vote) /\ LocksIn(n, t.vote)
    BY ZenonT(30), <1>1, <2>7, LocksVotes
  <2>8. ASSUME t.kind = "Attestation", Current(n, t.vote), LocksIn(n, t.vote)
        PROVE  /\ t.vote.level <= n.level
               /\ t.vote.level = n.level => Current(n, t.vote)
               /\ t.kind # "Preattestation"
    BY SMTT(30), <2>3, <2>4, <2>8
  <2>9. \/ /\ t.kind = "Attestation" /\ Current(n, t.vote) /\ LocksIn(n, t.vote)
        \/ /\ t.vote.level <= n.level
           /\ t.vote.level = n.level => Current(n, t.vote)
           /\ t.kind = "Preattestation" => Justified(t.vote, V, G)
           /\ t.kind # "Attestation"
    BY ZenonT(30), <1>3, <2>1, <2>5, <2>6, <2>7 DEF Sends_of
  <2>. QED
    BY ZenonT(30), <2>8, <2>9
<1>8. VoteFor(n, V \cup I, R, G)
  BY ZenonT(30), <1>1, <1>2, <1>3, <1>4, <1>5, <1>6, <1>7, VotesAdded
<1>9. VoteFor(n, votes', R, G)
  <2>1. G \subseteq G /\ R \subseteq R
    OBVIOUS
  <2>. QED
    BY Zenon, <1>4, <1>8, <2>1, FewerVotes
<1>. QED
  BY Zenon, <1>0, <1>9

--------------------------------------------------------------------------------
(* Rounds and quorums: whatever fails.                                       *)

LEMMA RoundInit ==
  ASSUME Init
  PROVE  RoundInv
<1>1. TypeInv /\ loop = "boot"
  BY Zenon, InitTyped
<1>2. /\ Genesis \in Proposals /\ compute_round(Genesis) \in Int /\ clock = 0
      /\ Genesis.round <= compute_round(Genesis)
  BY SMTT(30), BakerAssumption, ProposalsAssumption, GenesisAssumption DEF Init, compute_round
<1>3. PICK n : n = create_initial_state(Genesis, compute_round(Genesis), {})
  OBVIOUS
<1>4. /\ n.level = Genesis.level /\ n.proposal = Genesis /\ n.round = compute_round(Genesis)
      /\ n.phase = "Idle"
  <2>1. {} \in SUBSET Records
    OBVIOUS
  <2>. QED
    BY SMTT(30), <1>2, <1>3, <2>1, InitialFresh
<1>5. /\ st = n /\ stepped = n /\ previous = n /\ head = Genesis /\ watch = {} /\ qc = <<>>
      /\ granted = {}
  BY ZenonT(30), <1>3 DEF Init
<1>6. n \in AutoStates
  BY ZenonT(30), <1>1, <1>5 DEF TypeInv
<1>7. Followed(st) /\ Followed(stepped)
  BY ZenonT(30), <1>2, <1>4, <1>5, <1>6, CreatedFollowed DEF Followed
<1>8. Timely(head)
  BY ZenonT(30), <1>2, <1>5, GenesisAssumption DEF Timely
<1>9. qc \in Seq(QuorumEvents) /\ Entries(qc) = {}
  BY SMTT(30), <1>5 DEF Entries
<1>. QED
  BY ZenonT(30), <1>1, <1>5, <1>6, <1>7, <1>8, <1>9 DEF RoundInv

LEMMA RoundRestart ==
  ASSUME RoundInv, Restart
  PROVE  RoundInv'
<1>1. TypeInv /\ TypeInv' /\ Timely(head) /\ granted \subseteq QuorumEvents
  BY Zenon, RestartStep DEF RoundInv
<1>2. PICK round : round = compute_round(head)
  OBVIOUS
<1>3. /\ head \in Proposals /\ round \in Int /\ head.round <= round /\ disk \in SUBSET Records
  <2>1. head \in Proposals /\ clock \in Nat /\ disk \in SUBSET Records
    BY Zenon, <1>1 DEF TypeInv
  <2>2. head.round \in Nat /\ head.pred.start \in Nat
    BY ZenonT(30), <2>1, ProposalsAssumption
  <2>. QED
    BY SMTT(30), <1>1, <1>2, <2>1, <2>2 DEF compute_round, Timely
<1>4. PICK n : n = create_initial_state(head, round, disk)
  OBVIOUS
<1>5. n.level = head.level /\ n.proposal = head /\ n.round = round /\ n.phase = "Idle"
  BY <1>3, <1>4, InitialFresh
<1>6. /\ st' = n /\ stepped' = n /\ previous' = n /\ head' = head /\ clock' = clock
      /\ watch' = {} /\ qc' = <<>> /\ granted' = granted /\ loop' = "boot"
  BY ZenonT(30), <1>2, <1>4 DEF Restart
<1>7. n \in AutoStates
  BY ZenonT(30), <1>1, <1>6 DEF TypeInv
<1>8. Followed(st)' /\ Followed(stepped)'
  BY ZenonT(30), <1>3, <1>5, <1>6, <1>7, CreatedFollowed DEF Followed
<1>9. Timely(head)'
  BY Zenon, <1>1, <1>6 DEF Timely
<1>10. (qc \in Seq(QuorumEvents) /\ Entries(qc) \subseteq granted)'
  BY SMTT(30), <1>6 DEF Entries
<1>. QED
  BY ZenonT(30), <1>1, <1>6, <1>7, <1>8, <1>9, <1>10 DEF RoundInv

LEMMA RoundIteration ==
  ASSUME OneBranch, RoundInv, Iteration
  PROVE  RoundInv'
<1>1. TypeInv /\ TypeInv' /\ ReadyToTurn
  BY Zenon, IterationKeeps DEF RoundInv, ReadyToTurn, Followed
<1>2. (\E n, act : Turned(n, act)) /\ (head' = head \/ Timely(head'))
  BY Zenon, <1>1, IterationTurns
<1>3. PICK n, act : Turned(n, act)
  BY Zenon, <1>2
<1>4. /\ n \in AutoStates /\ Sound(n)
      /\ ToldBy(n, watch', Entries(qc'), granted) /\ Reported(n, granted)
      /\ \/ stepped' = n /\ n.level = st.level
         \/ /\ stepped' = st /\ n.level > st.level /\ qc' = qc
            /\ \/ watch' = watch
               \/ watch' = {[kind |-> "Preattestation", candidate |-> n.proposal]}
  BY ZenonT(30), <1>3, TurnTold
<1>5. /\ st' = n /\ previous' = st /\ loop' = "record" /\ clock' = clock /\ granted' = granted
      /\ watch' = Watched(n, act)
  BY ZenonT(30), <1>3 DEF Turned, Acted
<1>6. /\ st \in AutoStates /\ Sound(st) /\ ToldBy(st, watch, Entries(qc), granted)
      /\ Reported(st, granted) /\ watch \subseteq QuorumEvents /\ \A v, w \in watch : v = w
  BY ZenonT(30) DEF RoundInv, TypeInv, Followed
<1>7. watch' \subseteq QuorumEvents /\ \A v, w \in watch' : v = w
  <2>1. n.proposal \in Proposals
    BY Zenon, <1>4 DEF AutoStates
  <2>2. \/ watch' = watch
        \/ watch' = {[kind |-> "Preattestation", candidate |-> n.proposal]}
        \/ watch' = {[kind |-> "Attestation", candidate |-> n.proposal]}
    BY Zenon, <1>5 DEF Watched
  <2>. QED
    BY SMTT(30), <1>6, <2>1, <2>2 DEF QuorumEvents
<1>8. qc' \in Seq(QuorumEvents) /\ Entries(qc') \subseteq granted
  <2>1. qc \in Seq(QuorumEvents) /\ Entries(qc) \subseteq granted
    BY ZenonT(30) DEF RoundInv
  <2>2. qc' = qc \/ (qc # <<>> /\ qc' = Tail(qc))
    BY ZenonT(30), <1>3 DEF Turned, ByProposal, ByLevel, ByTimeout, ByQuorum, ByForge
  <2>. QED
    BY ZenonT(30), <2>1, <2>2, TailEntries
<1>9. Followed(st)'
  BY ZenonT(30), <1>4, <1>5 DEF Followed
<1>10. Followed(stepped)'
  <2>1. CASE stepped' = n
    BY ZenonT(30), <1>4, <1>5, <2>1 DEF Followed
  <2>2. CASE /\ stepped' = st /\ n.level > st.level /\ qc' = qc
             /\ \/ watch' = watch
                \/ watch' = {[kind |-> "Preattestation", candidate |-> n.proposal]}
    <3>1. CASE watch' = watch
      BY ZenonT(30), <1>5, <1>6, <2>2, <3>1 DEF Followed
    <3>2. CASE watch' = {[kind |-> "Preattestation", candidate |-> n.proposal]}
      <4>1. n.proposal.level > st.level
        BY ZenonT(30), <1>4, <2>2 DEF Sound
      <4>2. \E w \in watch' : w.candidate.level > st.level
        BY Zenon, <3>2, <4>1
      <4>3. ToldBy(st, watch', Entries(qc'), granted)
        BY Zenon, <4>2 DEF ToldBy
      <4>. QED
        BY ZenonT(30), <1>5, <1>6, <2>2, <4>3 DEF Followed
    <3>. QED
      BY ZenonT(30), <2>2, <3>1, <3>2
  <2>. QED
    BY ZenonT(30), <1>4, <2>1, <2>2
<1>11. Timely(head)'
  BY ZenonT(30), <1>2, <1>5 DEF Timely, RoundInv
<1>12. previous'.level = stepped'.level /\ (st' = stepped' \/ st'.level > previous'.level)
  BY Zenon, <1>4, <1>5
<1>. QED
  BY ZenonT(30), <1>1, <1>5, <1>6, <1>7, <1>8, <1>9, <1>10, <1>11, <1>12 DEF RoundInv

LEMMA TypeKept ==
  ASSUME TypeInv, [Next]_vars
  PROVE  TypeInv'
<1>1. ASSUME NEW s \in AutoStates, s \in {st, stepped}, Recording(s)
      PROVE  TypeInv'
  <2>1. Early(s) \subseteq Authorized
    BY Zenon, <1>1 DEF Authorized
  <2>. QED
    BY ZenonT(30), <1>1, <2>1, RecordStep
<1>. QED
  BY ZenonT(30), <1>1, StepCases, IterationKeeps, ProcessRequestStep, SignStep, RestartStep, OtherStep

LEMMA RoundStepKept ==
  ASSUME OneBranch, RoundInv, [Next]_vars
  PROVE  RoundInv'
<1>1. TypeInv /\ TypeInv'
  BY Zenon, TypeKept DEF RoundInv
<1>2. CASE Iteration
  BY Zenon, <1>2, RoundIteration
<1>3. CASE may_record_new_state \/ RecordRefused
  BY Zenon, <1>1, <1>3, RoundRecord
<1>4. CASE ProcessRequest \/ Sign \/ SigningFails
  <2>1. UNCHANGED <<st, loop, previous, stepped, timer, head, watch, qc, granted, clock>>
    BY ZenonT(30), <1>4 DEF ProcessRequest, Sign, SigningFails, automaton, node, quorums, history
  <2>2. clock <= clock'
    BY SMTT(30), <1>1, <2>1 DEF TypeInv
  <2>. QED
    BY ZenonT(30), <1>1, <2>1, <2>2, RoundSame
<1>5. CASE Restart
  BY ZenonT(30), <1>5, RoundRestart
<1>6. CASE Tick \/ UNCHANGED vars
  <2>1. /\ UNCHANGED <<st, loop, previous, stepped, timer, head, watch, qc, granted>>
        /\ clock' \in {clock, clock + 1}
    BY ZenonT(30), <1>6 DEF Tick, vars, automaton, node, quorums, history
  <2>2. clock <= clock'
    BY SMTT(30), <1>1, <2>1 DEF TypeInv
  <2>. QED
    BY ZenonT(30), <1>1, <2>1, <2>2, RoundSame
<1>7. CASE QuorumObserved
  BY ZenonT(30), <1>1, <1>7, RoundObserved
<1>. QED
  BY ZenonT(30), <1>2, <1>3, <1>4, <1>5, <1>6, <1>7, NextCases

\* On one branch a daemon waits for the quorums of its own round only, and for an
\* application only with the reported quorum at hand, over any proposals, crashes
\* and failures: what handle_expected_applied_proposal asserts.
THEOREM WaitsInItsRound ==
  ASSUME OneBranch
  PROVE  Spec => []WaitsForCurrentRound
<1>1. Init => RoundInv
  BY Zenon, RoundInit
<1>2. RoundInv /\ [Next]_vars => RoundInv'
  BY Zenon, RoundStepKept
<1>3. RoundInv => WaitsForCurrentRound
  BY ZenonT(30) DEF RoundInv, Followed, Sound, Reported, WaitsForCurrentRound
<1>. QED
  BY <1>1, <1>2, <1>3, PTL DEF Spec

\* On one branch a daemon that waits for a quorum is told of it, whatever crashes
\* and failures there are: the operation worker watches its proposal or the event
\* is in the stream, unless a failed record threw the daemon back a level.
THEOREM ToldOfItsQuorum ==
  ASSUME OneBranch
  PROVE  Spec => []QuorumIsWatched
<1>1. Init => RoundInv
  BY Zenon, RoundInit
<1>2. RoundInv /\ [Next]_vars => RoundInv'
  BY Zenon, RoundStepKept
<1>3. RoundInv => QuorumIsWatched
  BY Zenon DEF RoundInv, Followed, ToldBy, Entries, QuorumIsWatched
<1>. QED
  BY <1>1, <1>2, <1>3, PTL DEF Spec

--------------------------------------------------------------------------------
(* The record: without faults.                                               *)

LEMMA DiskStepKept ==
  ASSUME OneBranch, MaxFaults = 0, DiskInv, [Next]_vars
  PROVE  DiskInv'
<1>1. /\ RoundInv /\ BelowInv /\ RoundInv' /\ BelowInv' /\ TypeInv /\ st \in AutoStates
      /\ AttestablePast(st) /\ LockBelow(st) /\ Sound(st) /\ OnDisk(previous, disk)
  <2>1. RoundInv /\ BelowInv /\ AttestablePast(st) /\ OnDisk(previous, disk)
    BY Zenon DEF DiskInv, AttestablePast
  <2>. QED
    BY ZenonT(30), <2>1, RoundStepKept, BelowStepKept DEF BelowInv, RoundInv, Followed, TypeInv
<1>2. CASE Iteration
  <2>1. loop # "record" /\ previous = st
    <3>1. loop # "record"
      BY ZenonT(30), <1>2 DEF Iteration, NewValidProposal, NewHeadProposal, QCReached, NewForgeEvent,
                  Timeout, Bootstrap
    <3>. QED
      BY ZenonT(30), <1>1, <3>1 DEF RoundInv
  <2>2. ReadyToTurn
    BY Zenon, <1>1 DEF RoundInv, ReadyToTurn, Followed
  <2>3. PICK n, act : Turned(n, act)
    BY ZenonT(30), <1>2, <2>2, IterationTurns
  <2>4. st' = n /\ previous' = st /\ disk' = disk
    BY Zenon, <2>3 DEF Turned, Acted
  <2>5. AttestablePast(n) /\ Relocks(st, n)
    BY ZenonT(30), <1>1, <2>3, TurnRelocks
  <2>6. \/ st'.level > previous'.level
        \/ st'.level = previous'.level /\ (Consistent(st)' \/ st'.locked = previous'.locked)
    BY Zenon, <2>4, <2>5 DEF Relocks, Consistent
  <2>7. OnDisk(previous', disk')
    BY ZenonT(30), <1>1, <2>1, <2>4
  <2>8. AttestablePast(st')
    BY ZenonT(30), <2>4, <2>5
  <2>. QED
    BY ZenonT(30), <1>1, <2>6, <2>7, <2>8 DEF DiskInv, AttestablePast
<1>3. CASE may_record_new_state \/ RecordRefused
  <2>1. /\ loop = "record" /\ loop' = "wait" /\ st' = st /\ previous' = st
        /\ RecordRefused => ~Consistent(st) /\ st = stepped /\ faults' = faults
    BY ZenonT(30), <1>1, <1>3, RecordQuiet, RecordKeepsState
  <2>2. ASSUME Filesystem, st.locked # {}
        PROVE  \E d \in disk' : d.level = st.level /\ d.locked = st.locked
    <3>1. CASE Consistent(st) /\ Changed(st)
      <4>1. disk' = {Recorded(st)}
        BY ZenonT(30), <1>3, <2>1, <2>2, <3>1 DEF may_record_new_state, record_state
      <4>. QED
        BY Zenon, <4>1 DEF Recorded
    <3>2. CASE Consistent(st) /\ ~Changed(st)
      <4>1. disk' = disk
        BY ZenonT(30), <1>3, <2>1, <2>2, <3>2 DEF may_record_new_state, record_state
      <4>2. st.level = previous.level /\ st.locked = previous.locked
        BY ZenonT(30), <3>2 DEF Changed, Recorded
      <4>. QED
        BY ZenonT(30), <1>1, <2>2, <4>1, <4>2 DEF OnDisk
    <3>3. CASE ~Consistent(st)
      <4>1. RecordRefused /\ st = stepped /\ faults' = faults
        BY ZenonT(30), <1>3, <2>1, <2>2, <3>3 DEF may_record_new_state
      <4>2. disk' = disk
        BY ZenonT(30), <3>3, <4>1 DEF RecordRefused, record_state
      <4>3. st.level = previous.level /\ st.locked = previous.locked
        BY ZenonT(30), <2>1, <3>3 DEF DiskInv, Consistent
      <4>. QED
        BY Zenon, <1>1, <2>2, <4>2, <4>3 DEF OnDisk
    <3>. QED
      BY ZenonT(30), <3>1, <3>2, <3>3
  <2>3. OnDisk(previous', disk')
    BY Zenon, <2>1, <2>2 DEF OnDisk
  <2>4. AttestablePast(st')
    BY ZenonT(30), <1>1, <2>1
  <2>. QED
    BY ZenonT(30), <1>1, <2>1, <2>3, <2>4 DEF DiskInv, AttestablePast
<1>4. CASE ProcessRequest \/ Sign \/ SigningFails \/ Tick \/ QuorumObserved \/ UNCHANGED vars
  <2>1. UNCHANGED <<st, loop, previous, disk>>
    BY ZenonT(30), <1>4 DEF ProcessRequest, Sign, SigningFails, Tick, QuorumObserved, vars, automaton
  <2>. QED
    BY ZenonT(30), <1>1, <2>1 DEF DiskInv, Consistent
<1>5. CASE Restart
  <2>1. faults < MaxFaults /\ faults \in Nat
    BY ZenonT(30), <1>1, <1>5, RestartStep DEF TypeInv
  <2>. QED
    BY SMTT(30), <2>1
<1>. QED
  BY ZenonT(30), <1>2, <1>3, <1>4, <1>5, NextCases

\* On one branch and without faults, the lock in memory is the one on disk between
\* two iterations, even after a record that was refused as inconsistent: only a
\* lock makes a state more recent, and a new lock is never inconsistent.
THEOREM LockOnDisk ==
  ASSUME OneBranch, MaxFaults = 0
  PROVE  Spec => []DiskCoversLock
<1>1. Init => DiskInv
  <2> SUFFICES ASSUME Init PROVE DiskInv
    OBVIOUS
  <2>1. /\ TypeInv /\ disk = {} /\ faults = 0 /\ loop = "boot"
        /\ st.locked = {} /\ stepped.locked = {}
    BY Zenon, InitTyped
  <2>2. BelowInv
    BY Zenon, <2>1 DEF BelowInv, CoverInv, Covers, LockBelow
  <2>3. RoundInv
    BY Zenon, RoundInit
  <2>4. \A a \in st.attestable : a.proposal.round <= st.round
    <3>1. PICK n : n = create_initial_state(Genesis, compute_round(Genesis), {})
      BY Zenon
    <3>2. st = n /\ Genesis \in Proposals /\ compute_round(Genesis) \in Int
      BY SMTT(30), <3>1, BakerAssumption, ProposalsAssumption DEF Init, compute_round
    <3>3. {} \in SUBSET Records
      BY Zenon
    <3>4. n.proposal = Genesis /\ \A a \in n.attestable : a.proposal = Genesis
      BY SMTT(30), <3>1, <3>2, <3>3, InitialFresh
    <3>5. st.proposal.round <= st.round
      BY ZenonT(30), <2>3 DEF RoundInv, Followed, Sound
    <3>. QED
      BY ZenonT(30), <3>2, <3>4, <3>5
  <2>5. previous = st
    BY Zenon DEF Init
  <2>. QED
    BY ZenonT(30), <2>1, <2>2, <2>3, <2>4, <2>5 DEF DiskInv, OnDisk
<1>2. DiskInv /\ [Next]_vars => DiskInv'
  BY ZenonT(30), DiskStepKept
<1>3. DiskInv => DiskCoversLock
  BY Zenon DEF DiskInv, RoundInv, OnDisk, DiskCoversLock
<1>. QED
  BY <1>1, <1>2, <1>3, PTL DEF Spec

--------------------------------------------------------------------------------
(* The votes: when signatures are handled before their round ends.           *)

LEMMA PendStepKept ==
  ASSUME OneBranch, PromptSigning, MaxFaults = 0 \/ ~Filesystem, PendInv, [Next]_vars
  PROVE  PendInv'
<1>1. /\ RoundInv /\ RoundInv' /\ TypeInv /\ PendingFor(st, Pending, granted)
      /\ loop = "boot" => Pending = {}
  BY ZenonT(30), RoundStepKept DEF PendInv, RoundInv
<1>2. \A v \in votes : v.kind = "Attestation" => GrantedIn(granted, v.vote)
  BY Zenon DEF PendInv, AttestsAfterPrequorum, GrantedIn
<1>3. ASSUME PendingFor(st, Pending, granted)', (loop = "boot" => Pending = {})',
             \A v \in votes' : v.kind = "Attestation" => GrantedIn(granted', v.vote)
      PROVE  PendInv'
  <2>1. AttestsAfterPrequorum'
    BY ZenonT(30), <1>3 DEF AttestsAfterPrequorum, GrantedIn
  <2>. QED
    BY ZenonT(30), <1>1, <1>3, <2>1 DEF PendInv
<1>4. CASE Iteration
  <2>1. ReadyToTurn
    BY ZenonT(30), <1>1 DEF RoundInv, ReadyToTurn, Followed
  <2>2. PICK n, act : Turned(n, act)
    BY ZenonT(30), <1>4, <2>1, IterationTurns
  <2>3. PendingFor(n, Pending', granted) /\ Sends_of(st, Pending, granted, n, act)
    BY ZenonT(30), <2>2, TurnPending
  <2>4. /\ st' = n /\ granted' = granted /\ loop' = "record"
        /\ votes' \subseteq votes \cup Injected(act)
    BY ZenonT(30), <2>2 DEF Turned, Acted
  <2>5. \A v \in Injected(act) : v.kind = "Attestation" => GrantedIn(granted, v.vote)
    BY <2>3 DEF Sends_of, Vote
  <2>6. \A v \in votes' : v.kind = "Attestation" => GrantedIn(granted', v.vote)
    BY ZenonT(30), <1>2, <2>4, <2>5
  <2>7. PendingFor(st, Pending, granted)'
    BY ZenonT(30), <2>3, <2>4
  <2>. QED
    BY ZenonT(30), <1>3, <2>4, <2>6, <2>7
<1>5. CASE \/ may_record_new_state \/ RecordRefused \/ ProcessRequest \/ Sign \/ SigningFails
           \/ Tick \/ QuorumObserved \/ UNCHANGED vars
  <2>1. /\ st' = st /\ votes' = votes /\ Pending' \subseteq Pending
        /\ granted \subseteq granted' /\ (loop' = "boot" => loop = "boot")
    BY ZenonT(30), <1>1, <1>5, QuietStep
  <2>2. PendingFor(st, Pending', granted')
    BY ZenonT(30), <1>1, <2>1, FewerPending
  <2>3. PendingFor(st, Pending, granted)'
    BY ZenonT(30), <2>1, <2>2
  <2>4. \A v \in votes' : v.kind = "Attestation" => GrantedIn(granted', v.vote)
    BY ZenonT(30), <1>2, <2>1 DEF GrantedIn
  <2>. QED
    BY ZenonT(30), <1>1, <1>3, <2>1, <2>3, <2>4
<1>6. CASE Restart
  <2>1. /\ requests' = <<>> /\ signing' = <<>> /\ ready' = <<>> /\ votes' = votes
        /\ granted' = granted /\ st' = create_initial_state(head, compute_round(head), disk)
    BY ZenonT(30), <1>6 DEF Restart
  <2>2. Pending' = {}
    BY <2>1 DEF Pending, Entries
  <2>3. PICK n : n = create_initial_state(head, compute_round(head), disk)
    BY Zenon
  <2>4. n.early = {}
    <3>1. head \in Proposals /\ compute_round(head) \in Int /\ disk \in SUBSET Records
      BY SMTT(30), <1>1, ProposalsAssumption DEF TypeInv, compute_round
    <3>. QED
      BY ZenonT(30), <2>3, <3>1, InitialState
  <2>5. st'.early = {}
    BY ZenonT(30), <2>1, <2>3, <2>4
  <2>6. PendingFor(st, Pending, granted)'
    BY ZenonT(30), <2>2, <2>5 DEF PendingFor
  <2>. QED
    BY ZenonT(30), <1>2, <1>3, <2>1, <2>2, <2>6
<1>. QED
  BY ZenonT(30), <1>4, <1>5, <1>6, NextCases

LEMMA PendInit ==
  ASSUME Init
  PROVE  PendInv
<1>1. RoundInv
  BY Zenon, RoundInit
<1>2. Pending = {} /\ votes = {}
  BY SMTT(30) DEF Init, Pending, Entries
<1>3. st.early = {}
  <2>1. PICK n : n = create_initial_state(Genesis, compute_round(Genesis), {})
    OBVIOUS
  <2>2. Genesis \in Proposals /\ compute_round(Genesis) \in Int /\ {} \in SUBSET Records
    BY SMTT(30), BakerAssumption, ProposalsAssumption DEF Init, compute_round
  <2>3. n.early = {}
    BY ZenonT(30), <2>1, <2>2, InitialState
  <2>. QED
    BY ZenonT(30), <2>1, <2>3 DEF Init
<1>. QED
  BY ZenonT(30), <1>1, <1>2, <1>3 DEF PendInv, PendingFor, AttestsAfterPrequorum

\* On one branch, when signatures are handled before their round ends, a daemon
\* sends no attestation before a prequorum on its proposal was reported: over any
\* proposals, and any crashes and failures of a daemon that keeps its state in memory
\* (handle_arriving_attestation, update_current_phase).
THEOREM AttestsOnlyAfterPrequorum ==
  ASSUME OneBranch, PromptSigning, MaxFaults = 0 \/ ~Filesystem
  PROVE  Spec => []AttestsAfterPrequorum
<1>1. Init => PendInv
  BY Zenon, PendInit
<1>2. PendInv /\ [Next]_vars => PendInv'
  BY Zenon, PendStepKept
<1>3. PendInv => AttestsAfterPrequorum
  BY Zenon DEF PendInv
<1>. QED
  BY <1>1, <1>2, <1>3, PTL DEF Spec

--------------------------------------------------------------------------------
(* The lock: without faults.                                                 *)

LEMMA VoteStepKept ==
  ASSUME OneBranch, PromptSigning, MaxFaults = 0, VoteInv, [Next]_vars
  PROVE  VoteInv'
<1>1. PendInv /\ PendInv' /\ RoundInv /\ TypeInv /\ TypeInv' /\ VoteFor(st, votes, Pending, granted)
  BY ZenonT(30), PendStepKept, TypeKept DEF VoteInv, PendInv, RoundInv
<1>2. CASE Iteration
  <2>1. ReadyToTurn
    BY Zenon, <1>1 DEF RoundInv, ReadyToTurn, Followed
  <2>2. PICK n, act : Turned(n, act)
    BY ZenonT(30), <1>2, <2>1, IterationTurns
  <2>3. VoteFor(n, votes', Pending', granted)
    BY ZenonT(30), <1>1, <2>2, TurnVotes
  <2>4. st' = n /\ granted' = granted
    BY Zenon, <2>2 DEF Turned, Acted
  <2>. QED
    BY ZenonT(30), <1>1, <2>3, <2>4 DEF VoteInv
<1>3. CASE \/ may_record_new_state \/ RecordRefused \/ ProcessRequest \/ Sign \/ SigningFails
           \/ Tick \/ QuorumObserved \/ UNCHANGED vars
  <2>1. /\ st' = st /\ votes' = votes /\ Pending' \subseteq Pending
        /\ granted \subseteq granted'
    BY ZenonT(30), <1>1, <1>3, QuietStep
  <2>2. votes \subseteq votes
    OBVIOUS
  <2>3. VoteFor(st, votes, Pending', granted')
    BY ZenonT(30), <1>1, <2>1, <2>2, FewerVotes
  <2>. QED
    BY ZenonT(30), <1>1, <2>1, <2>3 DEF VoteInv
<1>4. CASE Restart
  <2>1. faults < MaxFaults /\ faults \in Nat
    BY ZenonT(30), <1>1, <1>4, RestartStep DEF TypeInv
  <2>. QED
    BY SMTT(30), <2>1
<1>. QED
  BY ZenonT(30), <1>2, <1>3, <1>4, NextCases

LEMMA VoteInit ==
  ASSUME Init
  PROVE  VoteInv
<1>1. PendInv /\ st.locked = {}
  BY ZenonT(30), PendInit, InitTyped
<1>2. Pending = {} /\ votes = {}
  BY DEF Init, Pending, Entries
<1>. QED
  BY ZenonT(30), <1>1, <1>2 DEF VoteInv, VoteFor

\* On one branch, without faults and with signatures handled before their round
\* ends, the lock remembers every attestation sent at the level: it is set before
\* the attestation leaves and only ever replaced by a later one (update_locked_round).
THEOREM LockRemembersAttestations ==
  ASSUME OneBranch, PromptSigning, MaxFaults = 0
  PROVE  Spec => []LockCoversAttestations
<1>1. Init => VoteInv
  BY Zenon, VoteInit
<1>2. VoteInv /\ [Next]_vars => VoteInv'
  BY Zenon, VoteStepKept
<1>3. VoteInv => LockCoversAttestations
  <2> SUFFICES ASSUME VoteInv, NEW v \in votes, v.kind = "Attestation", v.vote.level = st.level
               PROVE  \E l \in st.locked : l.round >= v.vote.round
    BY ZenonT(30) DEF LockCoversAttestations
  <2>1. LocksIn(st, v.vote) /\ st \in AutoStates /\ v \in Votes
    BY ZenonT(30) DEF VoteInv, VoteFor, PendInv, RoundInv, TypeInv
  <2>2. PICK l \in st.locked : v.vote.round <= l.round
    BY Zenon, <2>1 DEF LocksIn
  <2>3. l.round \in Nat /\ v.vote.round \in Nat
    BY ZenonT(30), <2>1 DEF AutoStates, LockedRounds, Votes, VoteContents
  <2>. QED
    BY ZenonT(30), <2>2, <2>3
<1>. QED
  BY <1>1, <1>2, <1>3, PTL DEF Spec

\* On one branch, without faults and with signatures handled before their round
\* ends, a daemon preattests against one of its attestations only with a more
\* recent prequorum on the payload: handle_proposal compares the payload and the
\* prequorum of the block with the lock, whatever proposals arrive in whatever order.
THEOREM PreattestsByItsLock ==
  ASSUME OneBranch, PromptSigning, MaxFaults = 0
  PROVE  Spec => []PreattestsRespectLock
<1>1. Init => VoteInv
  BY Zenon, VoteInit
<1>2. VoteInv /\ [Next]_vars => VoteInv'
  BY Zenon, VoteStepKept
<1>3. VoteInv => PreattestsRespectLock
  BY Zenon DEF VoteInv, VoteFor, Justified, PreattestsRespectLock
<1>. QED
  BY <1>1, <1>2, <1>3, PTL DEF Spec

================================================================================
