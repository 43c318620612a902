---------------------------- MODULE StateTransitions ----------------------------
(****************************************************************************)
(* The baker's automaton (state_transitions.ml): what one event does to the *)
(* consensus state of one baker, and which action it asks for.              *)
(*                                                                          *)
(* A proposal is a record [level, round, payload, pred, prequorum, first]:  *)
(* pred is the predecessor block (a BlockInfo), prequorum the round of the  *)
(* included preattestation quorum, first whether the block activates the    *)
(* protocol.                                                                *)
(* Equal records are equal block hashes.  The payload stands for the        *)
(* payload hash, which covers the predecessor.                              *)
(*                                                                          *)
(* An option is a set with at most one element.  The automaton state st is  *)
(* a record with the fields of level_state (level, proposal, applied,       *)
(* locked, attestable, elected, proposed) and of round_state (round, phase, *)
(* delayed, early, awaiting).  A handler returns [st, act, cancel]: the new *)
(* state, the action, and whether the pending signatures are dropped first. *)
(****************************************************************************)
EXTENDS Naturals, Sequences

Do_nothing == [type |-> "Do_nothing"]
Watch_prequorum == [type |-> "Watch_prequorum"]
Watch_quorum == [type |-> "Watch_quorum"]

Return(st, act) == [st |-> st, act |-> act, cancel |-> FALSE]
do_nothing(st) == Return(st, Do_nothing)

\* A block as a predecessor: start is the time of round 0 on top of it, one unit
\* of time being one round.
BlockInfo(p) == [level |-> p.level, round |-> p.round, payload |-> p.payload,
                 start |-> p.pred.start + p.round + 1]

\* Mutant: the phase of the last round is kept.
FreshRoundInPhase(st, round) ==
  [st EXCEPT !.round = round, !.delayed = FALSE, !.early = {}, !.awaiting = FALSE]

\* A round starts Idle, with nothing delayed, early or awaited.
FreshRound(st, round) ==
  [st EXCEPT !.round = round, !.phase = "Idle", !.delayed = FALSE, !.early = {},
             !.awaiting = FALSE]

\* The content of the votes of this baker for the proposal p.
make_consensus_vote_batch(st, p) == [level |-> st.level, round |-> p.round, payload |-> p.payload]

--------------------------------------------------------------------------------
update_proposal(st, p, applied) ==
  [st EXCEPT !.proposal = p, !.applied = applied \/ (st.proposal = p /\ st.applied)]

may_update_proposal(st, p, applied) ==
  IF st.proposal.round < p.round THEN update_proposal(st, p, applied) ELSE st

\* Mutant: an older prequorum replaces a newer one.
always_update_attestable_payload(st, p) ==
  IF p.prequorum = {}
  THEN st
  ELSE [st EXCEPT !.attestable = {[proposal |-> p, prequorum |-> q] : q \in p.prequorum}]

may_update_attestable_payload_with_internal_pqc(st, p) ==
  IF p.prequorum = {} \/ \E q \in p.prequorum, a \in st.attestable : q < a.prequorum
  THEN st
  ELSE [st EXCEPT !.attestable = {[proposal |-> p, prequorum |-> q] : q \in p.prequorum}]

\* The first block of the protocol is not voted for.
prepare_consensus_votes(st, p) ==
  IF p.first
  THEN do_nothing([st EXCEPT !.phase = "Idle"])
  ELSE Return([st EXCEPT !.phase = "Awaiting_preattestations"],
              [type |-> "Prepare_consensus_votes", vote |-> make_consensus_vote_batch(st, p)])

\* Votes are prepared in the Idle phase only, once per round.
may_vote(st, p) ==
  IF st.phase = "Idle"
  THEN [prepare_consensus_votes(st, p) EXCEPT !.cancel = TRUE]
  ELSE do_nothing(st)

\* is_acceptable_proposal_for_current_level: a proposal of the current round is
\* valid unless another one was seen at this round on the same branch.
IsInvalid(st, p) ==
  \/ st.round < p.round
  \/ st.round = p.round /\ p.round = st.proposal.round /\ p # st.proposal

IsOutdated(st, p) == st.round > p.round

\* Mutant: the lock is not considered.
UnlocksAlways(st, p) == TRUE

\* The lock lets p through: no lock, the locked payload, or a newer prequorum.
Unlocks(st, p) ==
  \A l \in st.locked : l.payload = p.payload \/ \E q \in p.prequorum : l.round < q

HandleOutdated(st, p, applied) ==
  do_nothing(may_update_proposal(may_update_attestable_payload_with_internal_pqc(st, p),
                                 p, applied))

HandleValid(st, p, applied) ==
  LET new == [may_update_proposal(may_update_attestable_payload_with_internal_pqc(st, p),
                                  p, applied) EXCEPT !.early = {}]
  IN  IF Unlocks(new, p)
      THEN may_vote(new, p)
      ELSE Return([new EXCEPT !.awaiting = TRUE, !.phase = "Awaiting_preattestations"],
                  Watch_prequorum)

\* Mutant: the prequorum we have is not considered.
always_switch_branch(st, p, applied) ==
  Return(update_proposal(st, p, applied),
         [type |-> "Synchronize_round", proposal |-> p, applied |-> applied])

\* may_switch_branch: stay when our prequorum is at least as recent as theirs.
may_switch_branch(st, p, applied) ==
  IF \E a \in st.attestable : \A q \in p.prequorum : a.prequorum >= q
  THEN do_nothing(st)
  ELSE Return(update_proposal(st, p, applied),
              [type |-> "Synchronize_round", proposal |-> p, applied |-> applied])

\* The proposal is for the current level, on our branch.
HandleSameBranch(st, p, applied) ==
  CASE IsInvalid(st, p)  -> do_nothing(st)
    [] IsOutdated(st, p) -> HandleOutdated(st, p, applied)
    [] ~IsInvalid(st, p) /\ ~IsOutdated(st, p) -> HandleValid(st, p, applied)

handle_proposal(st, p, applied) ==
  IF applied /\ p = st.proposal
  THEN do_nothing([st EXCEPT !.applied = TRUE])
  ELSE CASE p.level < st.level -> do_nothing(st)
         [] p.level > st.level -> Return(st, [type |-> "Update_to_level", proposal |-> p,
                                              applied |-> applied])
         [] p.level = st.level /\ p.pred # st.proposal.pred -> may_switch_branch(st, p, applied)
         [] p.level = st.level /\ p.pred = st.proposal.pred -> HandleSameBranch(st, p, applied)

--------------------------------------------------------------------------------
(* The continuations of Update_to_level and Synchronize_round, which Baking_ *)
(* actions calls with the round of the clock.                                *)

\* The state of a level that starts with the proposal p: everything unlocked.
LevelState(p, applied, round) ==
  [level |-> p.level, proposal |-> p, applied |-> applied, locked |-> {}, attestable |-> {},
   elected |-> {}, proposed |-> {}, round |-> round, phase |-> "Idle", delayed |-> FALSE,
   early |-> {}, awaiting |-> FALSE]

compute_new_state(p, applied, round) ==
  handle_proposal(LevelState(p, applied, round), p, applied)

synchronized(st, p, applied, round) == handle_proposal(FreshRound(st, round), p, applied)

--------------------------------------------------------------------------------
\* A fresh block carries what the mempool offers; a reproposal the attestable
\* payload with its prequorum.
propose_block_action(st, round) ==
  [type |-> "Prepare_block", level |-> st.level, round |-> round,
   pred |-> IF st.attestable = {} THEN st.proposal.pred
            ELSE (CHOOSE a \in st.attestable : TRUE).proposal.pred,
   repropose |-> st.attestable]

\* Mutant: the round does not advance.
end_of_same_round(st, ending, own) == do_nothing(FreshRound(st, ending))

\* own: whether a delegate of this baker proposes at the new round.
end_of_round(st, ending, own) ==
  LET new == FreshRound(st, ending + 1)
  IN  IF own /\ ~st.proposal.first
      THEN Return(new, propose_block_action(new, ending + 1))
      ELSE do_nothing(new)

\* Called with an elected block only.
time_to_prepare_next_level_block(st, at_round) ==
  Return([st EXCEPT !.proposed = {at_round}],
         [type |-> "Prepare_block", level |-> st.level + 1, round |-> at_round,
          pred |-> BlockInfo(CHOOSE e \in st.elected : TRUE), repropose |-> {}])

--------------------------------------------------------------------------------
\* Mutant: the first lock of the level is kept.
lock_once(st, round, payload) ==
  IF st.locked = {} THEN [st EXCEPT !.locked = {[round |-> round, payload |-> payload]}] ELSE st

update_locked_round(st, round, payload) ==
  [st EXCEPT !.locked = {[round |-> round, payload |-> payload]}]

inject_early_arrived_attestations(st) ==
  IF st.early = {}
  THEN Return(st, Watch_quorum)
  ELSE Return([st EXCEPT !.early = {}], [type |-> "Inject_attestations", votes |-> st.early])

prequorum_reached_when_awaiting_preattestations(st, candidate) ==
  LET p == st.proposal
      better == \A a \in st.attestable : a.prequorum < p.round
      attestable == IF better THEN {[proposal |-> p, prequorum |-> p.round]} ELSE st.attestable
      new == [update_locked_round([st EXCEPT !.attestable = attestable], p.round, p.payload)
                EXCEPT !.phase = "Awaiting_attestations"]
  IN  CASE candidate # p -> do_nothing(st)
        [] candidate = p /\ new.awaiting ->
             Return(new, [type |-> "Prepare_attestations",
                          vote |-> make_consensus_vote_batch(new, p)])
        [] candidate = p /\ ~new.awaiting -> inject_early_arrived_attestations(new)

quorum_reached_when_waiting_attestations(st, candidate) ==
  do_nothing(
    CASE candidate # st.proposal \/ st.elected # {} -> st
      [] candidate = st.proposal /\ st.elected = {} /\ st.applied ->
           [st EXCEPT !.elected = {st.proposal}, !.phase = "Idle"]
      [] candidate = st.proposal /\ st.elected = {} /\ ~st.applied ->
           [st EXCEPT !.delayed = TRUE, !.phase = "Awaiting_application"])

\* The elected branch starts again from the state given, so the applied mark is
\* kept only when a block was already elected.
handle_expected_applied_proposal(st) ==
  do_nothing(
    IF st.elected = {}
    THEN [st EXCEPT !.elected = {st.proposal}, !.phase = "Idle"]
    ELSE [st EXCEPT !.applied = TRUE, !.phase = "Idle"])

\* Mutant: the attestation is sent whatever the phase.
inject_arriving_attestation(st, vote) ==
  IF vote # [level |-> st.proposal.level, round |-> st.proposal.round,
             payload |-> st.proposal.payload]
  THEN do_nothing(st)
  ELSE Return(st, [type |-> "Inject_attestations", votes |-> {vote}])

handle_arriving_attestation(st, vote) ==
  CASE vote # [level |-> st.proposal.level, round |-> st.proposal.round,
               payload |-> st.proposal.payload] -> do_nothing(st)
    [] OTHER ->
         IF st.phase = "Awaiting_preattestations"
         THEN do_nothing([st EXCEPT !.early = @ \cup {vote}])
         ELSE Return(st, [type |-> "Inject_attestations", votes |-> {vote}])

\* e: the block or the vote that the forge worker has signed.
handle_forge_event(st, e) ==
  CASE e.kind = "Block" -> Return(st, [type |-> "Inject_block", block |-> e.block])
    [] e.kind = "Preattestation" ->
         Return(st, [type |-> "Inject_preattestation", vote |-> e.vote])
    [] e.kind = "Attestation" -> handle_arriving_attestation(st, e.vote)

--------------------------------------------------------------------------------
has_already_been_handled(st, p) == st.proposal = p /\ st.applied

\* step, for the events of the heads stream and of the valid blocks stream.
New_head_proposal(st, p) ==
  IF st.phase = "Awaiting_application" /\ st.proposal = p
  THEN handle_expected_applied_proposal(st)
  ELSE handle_proposal(st, p, TRUE)

New_valid_proposal(st, p) ==
  IF st.phase # "Idle" /\ has_already_been_handled(st, p)
  THEN do_nothing(st)
  ELSE handle_proposal(st, p, FALSE)

\* step, for the events of the operation worker: out of phase they do nothing.
Prequorum_reached(st, candidate) ==
  IF st.phase = "Awaiting_preattestations"
  THEN prequorum_reached_when_awaiting_preattestations(st, candidate)
  ELSE do_nothing(st)

Quorum_reached(st, candidate) ==
  IF st.phase = "Awaiting_attestations"
  THEN quorum_reached_when_waiting_attestations(st, candidate)
  ELSE do_nothing(st)

---------------------------------------------------------------------------
(****************************************************************************)
(* What the actions of the automaton ask of the rest of the daemon          *)
(* (perform_action in baking_actions.ml): the requests they push to the     *)
(* forge worker and the votes they inject.                                  *)
(****************************************************************************)
Vote(kind, vote) == [kind |-> kind, vote |-> vote]

NewRequests(act) ==
  CASE act.type = "Prepare_consensus_votes" ->
         <<Vote("Preattestation", act.vote), Vote("Attestation", act.vote)>>
    [] act.type = "Prepare_attestations" -> <<Vote("Attestation", act.vote)>>
    [] act.type = "Prepare_block" -> <<[kind |-> "Block", block |-> act]>>
    [] OTHER -> <<>>

Injected(act) ==
  CASE act.type = "Inject_preattestation" -> {Vote("Preattestation", act.vote)}
    [] act.type = "Inject_attestations" -> {Vote("Attestation", v) : v \in act.votes}
    [] OTHER -> {}
================================================================================
