--------------------------------- MODULE Baker ---------------------------------
(****************************************************************************)
(* One baker daemon: the loop of baking_scheduling.ml around the automaton, *)
(* the actions of baking_actions.ml, the forge worker with its signing      *)
(* queue and the high watermarks, the state recorded on disk, and the       *)
(* restart of the daemon.                                                   *)
(*                                                                          *)
(* The node and the other bakers are the environment: they offer the        *)
(* proposals of the constant Proposals, in the order the fitness allows,    *)
(* and may grant a quorum to whatever the baker watches.  The daemon has    *)
(* one delegate.                                                            *)
(****************************************************************************)
EXTENDS StateTransitions, FiniteSets

CONSTANTS
  Proposals,      \* the blocks the node may validate or take as its head
  Genesis,        \* the head the daemon first starts on
  OwnRounds,      \* <<level, round>> at which the delegate proposes
  Filesystem,     \* whether state_recorder is Filesystem or Memory
  PromptSigning,  \* whether signatures are handled before their round ends
  MaxTime,        \* bound: rounds of the clock
  MaxFaults,      \* bound: crashes, failed signatures and failed requests to the node
  MaxEvents       \* bound: quorum events that wait in the stream

ASSUME BakerAssumption ==
  /\ MaxTime \in Nat /\ MaxFaults \in Nat /\ MaxEvents \in Nat
  /\ Filesystem \in BOOLEAN /\ PromptSigning \in BOOLEAN
  /\ Genesis \in Proposals

\* The block the daemon starts on is not of the future.
ASSUME GenesisAssumption == Genesis.pred.start + Genesis.round <= 0

\* A block includes at most one prequorum, of an earlier round than its own.
ASSUME ProposalsAssumption ==
  \A p \in Proposals :
    /\ p.level \in Nat /\ p.round \in Nat /\ p.pred.start \in Nat
    /\ \A q \in p.prequorum : q \in Nat /\ q < p.round
    /\ \A q, r \in p.prequorum : q = r

VARIABLES
  st,        \* the automaton state
  loop,      \* where the loop is: "boot", "record" or "wait"
  previous,  \* the automaton state the iteration started from
  stepped,   \* the automaton state between step and perform_action
  timer,     \* the timeout the loop waits for
  clock,     \* the time, in rounds
  head,      \* the head of the node
  late,      \* the head received in this run: it may still be announced as valid
  requests,  \* requests pushed to the forge worker
  signing,   \* the queue of the delegate, the active task first
  ready,     \* forge events
  hwm,       \* high watermarks on disk: kind |-> last <<level, round>> or none
  watch,     \* what the operation worker watches
  qc,        \* the stream of its quorum events
  disk,      \* the recorded state
  votes,     \* history: votes injected
  blocks,    \* history: blocks injected
  granted,   \* history: quorums the operation worker reported
  faults     \* history: faults so far

forge == <<requests, signing, ready, hwm>>
automaton == <<st, loop, previous, stepped, timer>>
node == <<head, late>>
quorums == <<watch, qc>>
history == <<votes, blocks, granted, faults>>
vars == <<automaton, clock, node, forge, quorums, disk, history>>

--------------------------------------------------------------------------------
(* Time and rounds.                                                         *)

\* compute_round: the round of the clock on top of a predecessor.
compute_round(p) == clock - p.pred.start

\* Blocks of the future are held back until their timestamp (wait_next_event).
Timely(p) == p.pred.start + p.round <= clock

Larger(r, s) == IF r >= s THEN r ELSE s

round_proposer(level, round) == <<level, round>> \in OwnRounds

\* compute_next_round_time, for the proposal the next round would build on.
compute_next_round_time(s) ==
  LET p == IF s.attestable = {} THEN s.proposal ELSE (CHOOSE a \in s.attestable : TRUE).proposal
  IN  IF p.first \/ s.proposed # {} THEN {} ELSE {p.pred.start + s.round + 1}

\* compute_next_potential_baking_time_at_next_level: <<time, round>> of the next
\* block we may bake on top of the elected one.
compute_next_potential_baking_time(s) ==
  {<<start + r, r>> :
     start \in {BlockInfo(e).start : e \in s.elected},
     r \in {r \in 0 .. MaxTime :
              /\ round_proposer(s.level + 1, r)
              /\ \A e \in s.elected : clock <= BlockInfo(e).start + r
              /\ \A q \in 0 .. (r - 1), e \in s.elected :
                   round_proposer(s.level + 1, q) => BlockInfo(e).start + q < clock
              /\ \A n \in s.proposed : n < r}}

\* compute_next_timeout.  Round 0 of the next level is forged pre-emptively, up
\* to one round ahead.
compute_next_timeout(s) ==
  LET next_round == compute_next_round_time(s)
      next_baking == compute_next_potential_baking_time(s)
      baking == {[kind |-> "Time_to_prepare_next_level_block", round |-> b[2],
                  at |-> IF b[2] = 0 THEN Larger(b[1], 1) - 1 ELSE b[1]] : b \in next_baking}
      ending == {[kind |-> "End_of_round", round |-> s.round, at |-> t] : t \in next_round}
  IN  IF \E b \in next_baking : \A t \in next_round : b[1] < t + 1
      THEN baking
      ELSE ending

--------------------------------------------------------------------------------
(* Fitness: <<level, locked round, predecessor round, round>>, and the order *)
(* in which the node changes its head.                                       *)
LockedRound(p) == IF p.prequorum = {} THEN 0 ELSE 1 + (CHOOSE q \in p.prequorum : TRUE)

Fitter(p, q) ==
  \/ p.level > q.level
  \/ p.level = q.level /\ LockedRound(p) > LockedRound(q)
  \/ p.level = q.level /\ LockedRound(p) = LockedRound(q) /\ p.pred.round < q.pred.round
  \/ p.level = q.level /\ LockedRound(p) = LockedRound(q) /\ p.pred.round = q.pred.round
       /\ p.round > q.round

--------------------------------------------------------------------------------
(* The forge worker.                                                        *)
\* Mutant: the round of the watermark may be signed again.
may_sign_again(kind, level, round) ==
  \A m \in hwm[kind] : m[1] < level \/ (m[1] = level /\ m[2] <= round)

may_sign(kind, level, round) ==
  \A m \in hwm[kind] : m[1] < level \/ (m[1] = level /\ m[2] < round)

\* A watermark is replaced by a higher one only.
record(kind, level, round) ==
  [hwm EXCEPT ![kind] = IF may_sign(kind, level, round) THEN {<<level, round>>} ELSE @]

\* handle_forge_consensus_votes authorizes a vote and records its watermark
\* before it is queued; a block is queued at once.
ProcessRequest ==
  /\ requests # <<>>
  /\ LET r == Head(requests) IN
       IF r.kind = "Block"
       THEN signing' = Append(signing, r) /\ UNCHANGED hwm
       ELSE IF may_sign(r.kind, r.vote.level, r.vote.round)
            THEN /\ signing' = Append(signing, r)
                 /\ hwm' = record(r.kind, r.vote.level, r.vote.round)
            ELSE UNCHANGED <<signing, hwm>>
  /\ requests' = Tail(requests)
  /\ UNCHANGED <<automaton, clock, node, ready, quorums, disk, history>>

\* The active task ends: a vote is signed; a block is forged, checked against
\* its watermark and signed.
Sign ==
  /\ signing # <<>>
  /\ LET r == Head(signing) IN
       IF r.kind # "Block"
       THEN ready' = Append(ready, r) /\ UNCHANGED hwm
       ELSE IF may_sign("Block", r.block.level, r.block.round)
            THEN /\ hwm' = record("Block", r.block.level, r.block.round)
                 /\ ready' = Append(ready, r)
            ELSE UNCHANGED <<hwm, ready>>
  /\ signing' = Tail(signing)
  /\ UNCHANGED <<automaton, clock, node, requests, quorums, disk, history>>

\* The signer or the forging of the block fails: the task is lost.
SigningFails ==
  /\ signing # <<>>
  /\ faults < MaxFaults /\ faults' = faults + 1
  /\ signing' = Tail(signing)
  /\ UNCHANGED <<automaton, clock, node, requests, ready, hwm, quorums, disk, votes, blocks,
                 granted>>

--------------------------------------------------------------------------------
(* One iteration of the loop: step, then perform_action, then the record.   *)

\* The continuations run with the round of the clock.
Continue(r) ==
  CASE r.act.type = "Update_to_level" ->
         compute_new_state(r.act.proposal, r.act.applied, compute_round(r.act.proposal))
    [] r.act.type = "Synchronize_round" ->
         synchronized(r.st, r.act.proposal, r.act.applied, compute_round(r.act.proposal))
    [] OTHER -> r

\* Mutant: attestations injected late do not start the watch.
WatchedOnRequest(s, act) ==
  CASE act.type \in {"Prepare_consensus_votes", "Watch_prequorum"} ->
         {[kind |-> "Preattestation", candidate |-> s.proposal]}
    [] act.type \in {"Prepare_attestations", "Watch_quorum"} ->
         {[kind |-> "Attestation", candidate |-> s.proposal]}
    [] OTHER -> watch

Watched(s, act) ==
  CASE act.type \in {"Prepare_consensus_votes", "Watch_prequorum"} ->
         {[kind |-> "Preattestation", candidate |-> s.proposal]}
    [] act.type \in {"Prepare_attestations", "Inject_attestations", "Watch_quorum"} ->
         {[kind |-> "Attestation", candidate |-> s.proposal]}
    [] OTHER -> watch

Complete(r, injected) ==
  /\ st' = r.st
  /\ requests' = requests \o NewRequests(r.act)
  /\ signing' = IF r.cancel /\ signing # <<>> THEN <<Head(signing)>> ELSE signing
  /\ watch' = Watched(r.st, r.act)
  /\ votes' = votes \cup injected
  /\ blocks' = blocks \cup (IF r.act.type = "Inject_block" THEN {r.act.block} ELSE {})

\* A call of the node fails: the slots of a new level or the injection of a block.
\* The rest of the action is lost and the loop goes on with the state of step.
Fail(r) ==
  /\ r.act.type \in {"Update_to_level", "Inject_block"}
  /\ st' = r.st
  /\ UNCHANGED <<requests, signing, watch, votes, blocks>>

\* The failure of the injection of a vote is only logged.
perform_action(r) ==
  /\ LET done == Continue(r) IN
       \/ Complete(done, Injected(done.act)) /\ UNCHANGED faults
       \/ /\ faults < MaxFaults /\ faults' = faults + 1
          /\ Fail(r) \/ (Injected(done.act) # {} /\ Complete(done, {}))
  /\ previous' = st /\ stepped' = r.st /\ loop' = "record"
  /\ UNCHANGED <<clock, hwm, disk, granted>>

\* may_record_new_state: what may follow the state the iteration started from.
Consistent(s) ==
  \/ s.level > previous.level
  \/ /\ s.level = previous.level
     /\ \A l \in previous.locked : \E n \in s.locked : n.round >= l.round
     /\ \A a \in previous.attestable : \E n \in s.attestable :
          n.proposal.round >= a.proposal.round

Recorded(s) == [level |-> s.level, locked |-> s.locked, attestable |-> s.attestable]

\* Mutant: only a new level is noticed.
ChangedLevel(s) == s.level # previous.level

Changed(s) == Recorded(s) # Recorded(previous)

record_state(s) == IF Filesystem /\ Consistent(s) /\ Changed(s) THEN {Recorded(s)} ELSE disk

\* The loop goes on with the state s, from its timeout.
GoOn(s) ==
  /\ loop = "record"
  /\ st' = s /\ previous' = s /\ stepped' = s
  /\ timer' = compute_next_timeout(s)
  /\ loop' = "wait"
  /\ UNCHANGED <<clock, node, forge, quorums, votes, blocks, granted>>

may_record_new_state ==
  /\ Filesystem => Consistent(st)
  /\ disk' = record_state(st)
  /\ GoOn(st) /\ UNCHANGED faults

\* The new state is inconsistent, or the disk fails: the loop goes back to the
\* state of step, without the continuation of its action, and tries to record it.
RecordRefused ==
  /\ Filesystem
  /\ \/ ~Consistent(st) /\ UNCHANGED faults
     \/ Consistent(st) /\ Changed(st) /\ faults < MaxFaults /\ faults' = faults + 1
  /\ disk' = record_state(stepped) \/ (faults' # faults /\ UNCHANGED disk)
  /\ GoOn(stepped)

\* A proposal of our own exists once we have injected it.
Baked(p) ==
  \E b \in blocks :
    /\ b.level = p.level /\ b.round = p.round /\ b.pred = p.pred
    /\ p.prequorum = {a.prequorum : a \in b.repropose}
    /\ \A a \in b.repropose : a.proposal.payload = p.payload

Available(p) == Timely(p) /\ (round_proposer(p.level, p.round) => Baked(p))

\* The events of the loop.
NewValidProposal(p) ==
  /\ loop = "wait" /\ Available(p) /\ (Fitter(p, head) \/ p \in late)
  /\ perform_action(New_valid_proposal(st, p))
  /\ UNCHANGED <<timer, node, ready, qc>>

NewHeadProposal(p) ==
  /\ loop = "wait" /\ Available(p) /\ Fitter(p, head)
  /\ head' = p /\ late' = {p}
  /\ perform_action(New_head_proposal(st, p))
  /\ UNCHANGED <<timer, ready, qc>>

QCReached ==
  /\ loop = "wait" /\ qc # <<>>
  /\ qc' = Tail(qc)
  /\ LET e == Head(qc) IN
       perform_action(IF e.kind = "Preattestation" THEN Prequorum_reached(st, e.candidate)
                      ELSE Quorum_reached(st, e.candidate))
  /\ UNCHANGED <<timer, node, ready>>

NewForgeEvent ==
  /\ loop = "wait" /\ ready # <<>>
  /\ ready' = Tail(ready)
  /\ perform_action(handle_forge_event(st, Head(ready)))
  /\ UNCHANGED <<timer, node, qc>>

NoPendingSignature == requests = <<>> /\ signing = <<>> /\ ready = <<>>

Timeout ==
  /\ loop = "wait"
  /\ \E t \in timer :
       /\ clock >= t.at
       /\ IF t.kind = "End_of_round"
          THEN /\ PromptSigning => NoPendingSignature
               /\ perform_action(end_of_round(st, t.round, round_proposer(st.level, t.round + 1)))
          ELSE perform_action(time_to_prepare_next_level_block(st, t.round))
  /\ UNCHANGED <<timer, node, ready, qc>>

--------------------------------------------------------------------------------
(* Start and restart.                                                       *)

\* create_initial_state on the head of the node, with what is on disk for its
\* level (may_load_attestable_data, may_initialise_with_latest_proposal_pqc).
create_initial_state(p, round, recorded) ==
  LET start == [LevelState(p, TRUE, round) EXCEPT !.elected = IF p.first THEN {p} ELSE {}]
      of_level == {d \in recorded : d.level = p.level}
      loaded == [start EXCEPT !.locked = UNION {d.locked : d \in of_level},
                              !.attestable = UNION {d.attestable : d \in of_level}]
  IN  IF p.prequorum = {} \/ \E a \in loaded.attestable, q \in p.prequorum : a.prequorum >= q
      THEN loaded
      ELSE [loaded EXCEPT !.attestable = {[proposal |-> p, prequorum |-> q] : q \in p.prequorum}]

Init ==
  /\ clock = 0 /\ head = Genesis /\ late = {}
  /\ st = create_initial_state(Genesis, compute_round(Genesis), {}) /\ previous = st /\ stepped = st
  /\ loop = "boot" /\ timer = {}
  /\ requests = <<>> /\ signing = <<>> /\ ready = <<>>
  /\ hwm = [k \in {"Block", "Preattestation", "Attestation"} |-> {}]
  /\ watch = {} /\ qc = <<>> /\ disk = {}
  /\ votes = {} /\ blocks = {} /\ granted = {} /\ faults = 0

\* The daemon stops at any point and starts again: its memory is lost.
Restart ==
  /\ faults < MaxFaults /\ faults' = faults + 1
  /\ st' = create_initial_state(head, compute_round(head), disk)
  /\ previous' = st' /\ stepped' = st'
  /\ loop' = "boot" /\ timer' = {}
  /\ requests' = <<>> /\ signing' = <<>> /\ ready' = <<>> /\ watch' = {} /\ qc' = <<>>
  /\ late' = {}
  /\ UNCHANGED <<clock, head, hwm, disk, votes, blocks, granted>>

\* compute_bootstrap_event.
Bootstrap ==
  /\ loop = "boot"
  /\ perform_action(IF st.proposal.round = st.round THEN New_head_proposal(st, st.proposal)
                    ELSE end_of_round(st, st.round - 1, round_proposer(st.level, st.round)))
  /\ UNCHANGED <<timer, node, ready, qc>>

--------------------------------------------------------------------------------
(* The environment: time, and the quorums the operation worker may report.  *)
Tick ==
  /\ clock < MaxTime
  /\ clock' = clock + 1
  /\ UNCHANGED <<automaton, node, forge, quorums, disk, history>>

QuorumObserved ==
  /\ Len(qc) < MaxEvents
  /\ \E w \in watch : qc' = Append(qc, w) /\ granted' = granted \cup {w}
  /\ watch' = {}
  /\ UNCHANGED <<automaton, clock, node, forge, disk, votes, blocks, faults>>

Next ==
  \/ \E p \in Proposals : NewValidProposal(p) \/ NewHeadProposal(p)
  \/ QCReached \/ NewForgeEvent \/ Timeout
  \/ may_record_new_state \/ RecordRefused
  \/ ProcessRequest \/ Sign \/ SigningFails
  \/ Bootstrap \/ Restart
  \/ Tick \/ QuorumObserved

Spec == Init /\ [][Next]_vars

\* The loop, the forge worker and the clock are never stopped for ever.  The
\* timeout competes with the streams, among which the loop chooses at random.
Fairness ==
  /\ WF_vars(may_record_new_state \/ RecordRefused) /\ WF_vars(Bootstrap) /\ WF_vars(Tick)
  /\ WF_vars(ProcessRequest) /\ WF_vars(Sign)
  /\ SF_vars(Timeout) /\ SF_vars(NewForgeEvent) /\ SF_vars(QCReached)

FairSpec == Spec /\ Fairness

--------------------------------------------------------------------------------
(* Properties.                                                              *)

\* The shape of the state of the daemon: options hold at most one value, the
\* level is the one of the latest proposal, watermarks are <<level, round>>.
TypeOK ==
  /\ loop \in {"boot", "record", "wait"} /\ clock \in 0 .. MaxTime
  /\ {head, st.proposal} \cup late \subseteq Proposals
  /\ st.level = st.proposal.level
  /\ st.phase \in {"Idle", "Awaiting_preattestations", "Awaiting_attestations",
                   "Awaiting_application"}
  /\ LET options == <<st.locked, st.attestable, st.elected, st.proposed, timer, watch, disk>>
     IN  \A i \in DOMAIN options : Cardinality(options[i]) <= 1
  /\ \A k \in DOMAIN hwm : hwm[k] = {} \/ \E l, r \in 0 .. 2 * MaxTime : hwm[k] = {<<l, r>>}

Content(p) == [level |-> p.level, round |-> p.round, payload |-> p.payload]

\* No attestation leaves the daemon before the operation worker has reported a
\* prequorum on its proposal (handle_arriving_attestation).
AttestsAfterPrequorum ==
  \A v \in votes : v.kind = "Attestation" =>
    \E g \in granted : g.kind = "Preattestation" /\ Content(g.candidate) = v.vote

\* As long as the level lasts, the lock remembers every attestation sent.
LockCoversAttestations ==
  \A v \in votes : v.kind = "Attestation" /\ v.vote.level = st.level =>
    \E l \in st.locked : l.round >= v.vote.round

\* A preattestation that contradicts an earlier attestation of the same level is
\* justified by a more recent prequorum on its payload, in the proposal it votes
\* for or reported by the operation worker.
PreattestsRespectLock ==
  \A a, v \in votes :
    /\ a.kind = "Attestation" /\ v.kind = "Preattestation"
    /\ a.vote.level = v.vote.level /\ a.vote.round < v.vote.round
    /\ a.vote.payload # v.vote.payload
    => \/ \E p \in Proposals : Content(p) = v.vote /\ \E q \in p.prequorum : q > a.vote.round
       \/ \E g \in granted :
            /\ g.kind = "Preattestation" /\ g.candidate.level = v.vote.level
            /\ g.candidate.payload = v.vote.payload /\ g.candidate.round > a.vote.round

\* A locked baker has something to repropose, at least as recent as its lock: the
\* assertion of propose_block_action, and what may_switch_branch relies on.
AttestableCoversLock ==
  \A l \in st.locked : \E a \in st.attestable : a.prequorum >= l.round

\* The lock of a level never goes back to an older round, whatever branch the
\* daemon follows (update_locked_round does not compare).
LockNeverDecreases ==
  [][st'.level = st.level /\ faults' = faults =>
       \A l \in st.locked : \E n \in st'.locked : n.round >= l.round]_vars

\* The daemon waits for quorums on a proposal of its current round only, and for
\* an application only with the delayed quorum that elects it at hand
\* (handle_expected_applied_proposal asserts it).
WaitsForCurrentRound ==
  /\ st.phase # "Idle" => st.proposal.round = st.round
  /\ st.phase = "Awaiting_application" =>
       /\ st.delayed /\ st.elected = {} /\ ~st.applied
       /\ [kind |-> "Attestation", candidate |-> st.proposal] \in granted

\* A daemon that waits for a quorum is told of it: the operation worker watches
\* that very candidate, or its event is in the stream.  The exception is a daemon
\* thrown back from a later level by a record that failed: the worker was already
\* asked about the later level.
QuorumIsWatched ==
  LET expected(kind) == [kind |-> kind, candidate |-> st.proposal]
      coming == watch \cup {qc[i] : i \in DOMAIN qc}
      thrown_back == \E w \in watch \cup granted : w.candidate.level > st.level
  IN  /\ st.phase = "Awaiting_preattestations" =>
           expected("Preattestation") \in coming \/ thrown_back
      /\ st.phase = "Awaiting_attestations" /\ st.elected = {} =>
           expected("Attestation") \in coming \/ thrown_back

\* Never two votes of one kind, or two blocks, at one level and round: neither in
\* one run of the daemon nor across its crashes (the high watermarks).
NoDoubleSigning ==
  /\ \A v, w \in votes :
       v.kind = w.kind /\ v.vote.level = w.vote.level /\ v.vote.round = w.vote.round => v = w
  /\ \A b, c \in blocks : b.level = c.level /\ b.round = c.round => b = c

\* Between two iterations the lock in memory is the one on disk: what an iteration
\* changed of it was recorded before the next one (may_record_new_state).
DiskCoversLock ==
  Filesystem /\ loop = "wait" /\ st.locked # {} =>
    \E d \in disk : d.level = st.level /\ d.locked = st.locked

\* When the next level is prepared, the elected block lies between the lock and
\* the attestable payload, as time_to_prepare_next_level_block says.
ElectedIsBetween ==
  [][st'.proposed # st.proposed /\ st'.level = st.level =>
       \A e \in st.elected : /\ \A a \in st.attestable : a.prequorum >= e.round
                             /\ \A l \in st.locked : e.round >= l.round]_vars

\* However late the loop is, it catches up with the clock: again and again there
\* is no timeout left in the past (compute_next_timeout).
TimeoutsCatchUp == []<>(loop = "wait" /\ \A t \in timer : t.at > clock)

================================================================================
