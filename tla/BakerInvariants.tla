---------------------------- MODULE BakerInvariants ----------------------------
(******************************************************************************)
(* The words and the inductive invariants of the proofs about a baker daemon: *)
(* what the variables of Baker range over, what a handler or one turn of the  *)
(* loop may do to the state of the daemon, and what every step keeps.         *)
(******************************************************************************)
EXTENDS Baker, Integers

Payloads == {p.payload : p \in Proposals}
Preds == {p.pred : p \in Proposals} \cup {BlockInfo(p) : p \in Proposals}
Phases == {"Idle", "Awaiting_preattestations", "Awaiting_attestations", "Awaiting_application"}
LockedRounds == [round : Nat, payload : Payloads]
Attestables == [proposal : Proposals, prequorum : Nat]
VoteContents == [level : Nat, round : Nat, payload : Payloads]

AutoStates ==
  [level : Nat, proposal : Proposals, applied : BOOLEAN, locked : SUBSET LockedRounds,
   attestable : SUBSET Attestables, elected : SUBSET Proposals, proposed : SUBSET Int,
   round : Int, phase : Phases, delayed : BOOLEAN, early : SUBSET VoteContents,
   awaiting : BOOLEAN]

\* AttestableCoversLock, of any state with a lock.
Covers(s) == \A l \in s.locked : \E a \in s.attestable : a.prequorum >= l.round

\* The proposal of the daemon is at least as recent as its lock.
LockBelow(s) == \A l \in s.locked : l.round <= s.proposal.round

NotUnlocked(s, n) == \A l \in s.locked : \E k \in n.locked : k.round >= l.round

\* What a handler of the automaton keeps, within a level.
Moved(s, n) ==
  /\ n \in AutoStates /\ n.level = s.level
  /\ Covers(s) => Covers(n)
  /\ Covers(s) /\ LockBelow(s) => LockBelow(n) /\ NotUnlocked(s, n)

--------------------------------------------------------------------------------
(* The actions, by what they do to the queues and to the votes sent.        *)

Quiet == {Do_nothing, Watch_prequorum, Watch_quorum}
VoteRequests == [type : {"Prepare_consensus_votes", "Prepare_attestations"}, vote : VoteContents]
PreparedBlocks ==
  [type : {"Prepare_block"}, level : Nat, round : Int, pred : Preds, repropose : SUBSET Attestables]
Moves ==
  [type : {"Update_to_level", "Synchronize_round"}, proposal : Proposals, applied : BOOLEAN]

Requests == [kind : {"Preattestation", "Attestation"}, vote : VoteContents]
              \cup [kind : {"Block"}, block : PreparedBlocks]

\* The attestations that wait for their prequorum.
Early(s) == {Vote("Attestation", v) : v \in s.early}

\* What a handler may return in state s when the signatures S are at hand: only
\* they are kept or sent.
Outcome(s, S, r) ==
  /\ Moved(s, r.st) /\ Early(r.st) \subseteq S
  /\ \/ r.act \in Quiet \cup VoteRequests \cup PreparedBlocks
     \/ r.act \in Moves /\ (r.act.type = "Update_to_level" => r.act.proposal.level > s.level)
     \/ /\ r.act \in [type : {"Inject_attestations"}, votes : SUBSET VoteContents]
        /\ \A v \in r.act.votes : Vote("Attestation", v) \in S
     \/ /\ r.act \in [type : {"Inject_preattestation"}, vote : VoteContents]
        /\ Vote("Preattestation", r.act.vote) \in S
     \/ /\ r.act \in [type : {"Inject_block"}, block : PreparedBlocks]
        /\ [kind |-> "Block", block |-> r.act.block] \in S

--------------------------------------------------------------------------------
(* The action with its continuation.                                        *)

Votes == [kind : {"Preattestation", "Attestation"}, vote : VoteContents]

\* An action sends only signatures of S.
Sends(S, act) ==
  \/ act \in Quiet \cup VoteRequests \cup PreparedBlocks \cup Moves
  \/ /\ act \in [type : {"Inject_attestations"}, votes : SUBSET VoteContents]
     /\ \A v \in act.votes : Vote("Attestation", v) \in S
  \/ /\ act \in [type : {"Inject_preattestation"}, vote : VoteContents]
     /\ Vote("Preattestation", act.vote) \in S
  \/ /\ act \in [type : {"Inject_block"}, block : PreparedBlocks]
     /\ [kind |-> "Block", block |-> act.block] \in S

\* What the loop has after the continuation of the action: r was the outcome.
Settled(s, S, r, d) ==
  /\ d.st \in AutoStates /\ Early(d.st) \subseteq S /\ Sends(S, d.act)
  /\ Covers(s) => Covers(d.st)
  /\ Covers(s) /\ LockBelow(s) =>
       LockBelow(d.st) /\ (d.st.level = s.level => NotUnlocked(s, d.st))
  /\ d.st.level = s.level => d.st.locked = r.st.locked

--------------------------------------------------------------------------------
(* The invariants.                                                          *)

Kinds == {"Block", "Preattestation", "Attestation"}
Records == [level : Nat, locked : SUBSET LockedRounds, attestable : SUBSET Attestables]
Entries(q) == {q[i] : i \in DOMAIN q}

TypeInv ==
  /\ st \in AutoStates /\ stepped \in AutoStates /\ head \in Proposals /\ clock \in Nat
  /\ requests \in Seq(Requests) /\ signing \in Seq(Requests) /\ ready \in Seq(Requests)
  /\ hwm \in [Kinds -> SUBSET (Nat \X Int)]
  /\ votes \in SUBSET Votes /\ blocks \in SUBSET PreparedBlocks
  /\ disk \in SUBSET Records
  /\ faults \in Nat /\ loop \in {"boot", "record", "wait"}
  /\ loop = "wait" =>
       \A t \in timer : t.round \in Int /\ (t.kind # "End_of_round" => st.elected # {})

\* The level and the round a signature is for.
Place(r) == IF r.kind = "Block" THEN <<r.block.level, r.block.round>>
            ELSE <<r.vote.level, r.vote.round>>

\* The signatures the watermarks have let through: votes as soon as they are
\* queued, blocks once they are signed, and what has left the daemon.
Authorized ==
  {r \in Entries(signing) : r.kind # "Block"} \cup Entries(ready)
    \cup Early(st) \cup Early(stepped) \cup votes
    \cup {[kind |-> "Block", block |-> b] : b \in blocks}

\* One signature per kind and place, none above the watermark of its kind.
Guarded(H, A) ==
  /\ \A r \in A : \E m \in H[r.kind] :
       Place(r)[1] < m[1] \/ (Place(r)[1] = m[1] /\ Place(r)[2] <= m[2])
  /\ \A r, t \in A : r.kind = t.kind /\ Place(r) = Place(t) => r = t

SignInv == TypeInv /\ Guarded(hwm, Authorized)

\* The lock is covered in memory, in the state of step and on disk.
CoverInv == TypeInv /\ Covers(st) /\ Covers(stepped) /\ \A d \in disk : Covers(d)

\* The lock is as old as the proposal, and step and its continuation agree on it.
BelowInv ==
  /\ CoverInv /\ LockBelow(st) /\ LockBelow(stepped) /\ faults = 0
  /\ loop = "record" /\ stepped.level = st.level => stepped.locked = st.locked

--------------------------------------------------------------------------------
(* One iteration of the loop, when the signatures S are at hand.            *)

Performed(S) ==
  /\ st' \in AutoStates /\ stepped' \in AutoStates
  /\ Early(st') \subseteq S /\ Early(stepped') \subseteq S
  /\ requests' \in Seq(Requests) /\ signing' \in Seq(Requests)
  /\ Entries(signing') \subseteq Entries(signing)
  /\ votes' \subseteq votes \cup (S \cap Votes)
  /\ \A b \in blocks' : b \in blocks
                          \/ (b \in PreparedBlocks /\ [kind |-> "Block", block |-> b] \in S)
  /\ Covers(st) => Covers(st') /\ Covers(stepped')
  /\ Covers(st) /\ LockBelow(st) =>
       /\ LockBelow(st') /\ LockBelow(stepped')
       /\ st'.level = st.level => NotUnlocked(st, st')
  /\ stepped'.level = st'.level => stepped'.locked = st'.locked
  /\ loop' = "record" /\ clock' = clock /\ hwm' = hwm /\ disk' = disk
  /\ faults' \in Nat /\ (faults' # faults => faults < MaxFaults)

\* The steps of the loop that perform an action.
Iteration ==
  \/ \E p \in Proposals : NewValidProposal(p) \/ NewHeadProposal(p)
  \/ QCReached \/ NewForgeEvent \/ Timeout \/ Bootstrap

--------------------------------------------------------------------------------
(* The other steps.                                                         *)

\* The forge worker: either nothing new is authorized, or one signature that its
\* watermark lets through.
Authorizes(r) ==
  /\ r \in Requests
  /\ \A m \in hwm[r.kind] : m[1] < Place(r)[1] \/ (m[1] = Place(r)[1] /\ m[2] < Place(r)[2])
  /\ hwm' = [hwm EXCEPT ![r.kind] = {Place(r)}]
  /\ Authorized' \subseteq Authorized \cup {r}

\* The loop goes on with the state s and has recorded it, or not.
Recording(s) ==
  /\ st' = s /\ stepped' = s /\ loop' = "wait" /\ timer' = compute_next_timeout(s)
  /\ disk' \in {disk, {Recorded(s)}}
  /\ UNCHANGED <<clock, head, requests, signing, ready, hwm, votes, blocks>>
  /\ faults' = faults \/ (faults < MaxFaults /\ faults' = faults + 1)

OneBranch == \A p, q \in Proposals : p.level = q.level => p.pred = q.pred

\* A state votes in the round of its proposal, and waits for an application with
\* a delayed quorum.
Sound(s) ==
  /\ s.level = s.proposal.level /\ s.proposal.round <= s.round
  /\ s.phase # "Idle" => s.proposal.round = s.round
  /\ s.phase = "Awaiting_application" => s.delayed /\ s.elected = {} /\ ~s.applied

--------------------------------------------------------------------------------
(* What one event may do to a sound state s on a single branch: n is the new *)
(* state, act the action.                                                    *)

\* The attestable payload comes from a proposal of the past.
Seen(s, n) == \A a \in n.attestable : a \in s.attestable \/ a.proposal.round <= s.round

InLevel(s, n) == n \in AutoStates /\ n.level = s.level /\ n.round = s.round /\ Seen(s, n)

\* Nothing that the votes depend on.
Stays(s, n) ==
  /\ InLevel(s, n) /\ n.proposal = s.proposal /\ n.phase = s.phase /\ n.locked = s.locked
  /\ n.early \subseteq s.early /\ n.elected = s.elected
  /\ s.phase = "Awaiting_application" => n.delayed = s.delayed /\ n.applied = s.applied

\* The proposal is the one of the state, or a later one, up to the round.
Follows(s, n) ==
  /\ InLevel(s, n) /\ n.locked = s.locked /\ n.early \subseteq s.early
  /\ n.proposal.level = s.level
  /\ n.proposal = s.proposal \/ (s.proposal.round < n.proposal.round /\ n.proposal.round <= s.round)

Adopts(s, n) == Follows(s, n) /\ s.phase = "Idle" /\ n.phase = "Idle"

\* The votes of a round are asked for, or the quorum of others is awaited.
Enters(s, n) ==
  /\ Follows(s, n) /\ n.phase = "Awaiting_preattestations" /\ n.proposal.round = s.round
  /\ n.early = {}

Votes_for(s, n, act) ==
  /\ Enters(s, n) /\ s.phase = "Idle" /\ Unlocks(s, n.proposal)
  /\ act = [type |-> "Prepare_consensus_votes", vote |-> Content(n.proposal)]

LevelsUp(s, r, p) ==
  /\ r.st = s /\ p.level > s.level
  /\ \E applied \in BOOLEAN :
       r.act = [type |-> "Update_to_level", proposal |-> p, applied |-> applied]

Proposed(s, n, act) ==
  \/ act = Do_nothing /\ (Stays(s, n) \/ Adopts(s, n))
  \/ Votes_for(s, n, act)
  \/ act = Watch_prequorum /\ Enters(s, n)

--------------------------------------------------------------------------------
(* The handlers of proposals.                                               *)

\* A block is elected, or its quorum waits for its application.
Elects(s, n) ==
  /\ InLevel(s, n) /\ n.proposal = s.proposal /\ n.locked = s.locked /\ n.early = s.early
  /\ s.phase \in {"Awaiting_attestations", "Awaiting_application"} /\ n.phase = "Idle"

Delays(s, n) ==
  /\ InLevel(s, n) /\ n.proposal = s.proposal /\ n.locked = s.locked /\ n.early = s.early
  /\ s.phase = "Awaiting_attestations" /\ n.phase = "Awaiting_application"
  /\ n.delayed /\ n.elected = {} /\ ~n.applied

--------------------------------------------------------------------------------
(* The handlers of quorums, of signatures and of timeouts.                  *)

\* The prequorum on the proposal of the state locks it.
Locks(s, n, act) ==
  /\ InLevel(s, n) /\ n.proposal = s.proposal
  /\ s.phase = "Awaiting_preattestations" /\ n.phase = "Awaiting_attestations"
  /\ n.locked = {[round |-> s.proposal.round, payload |-> s.proposal.payload]}
  /\ n.attestable = s.attestable \/ \E a \in n.attestable : a.proposal = s.proposal
  /\ \/ /\ act = [type |-> "Prepare_attestations", vote |-> Content(s.proposal)]
        /\ n.early = s.early
     \/ act = Watch_quorum /\ n.early = s.early
     \/ act = [type |-> "Inject_attestations", votes |-> s.early] /\ n.early = {}

\* A signed attestation of the proposal is kept or sent, by the phase.
Arrives(s, n, act, v) ==
  /\ InLevel(s, n) /\ n.proposal = s.proposal /\ n.phase = s.phase /\ n.locked = s.locked
  /\ n.elected = s.elected
  /\ s.phase = "Awaiting_application" => n.delayed = s.delayed /\ n.applied = s.applied
  /\ v = Content(s.proposal)
  /\ \/ /\ s.phase = "Awaiting_preattestations" /\ n.early = s.early \cup {v}
        /\ act = Do_nothing
     \/ /\ s.phase # "Awaiting_preattestations" /\ n.early = s.early
        /\ act = [type |-> "Inject_attestations", votes |-> {v}]

\* A new round starts.
Renews(s, n, round) ==
  /\ n \in AutoStates /\ n.level = s.level /\ n.proposal = s.proposal /\ n.locked = s.locked
  /\ n.attestable = s.attestable /\ n.round = round /\ n.phase = "Idle" /\ n.early = {}

--------------------------------------------------------------------------------
(* One iteration of the loop.                                               *)

QuorumEvents == [kind : {"Preattestation", "Attestation"}, candidate : Proposals]

\* The votes on their way through the forge worker.
Pending ==
  {r \in Entries(requests) \cup Entries(signing) \cup Entries(ready) : r.kind # "Block"}

\* The votes an action asks the forge worker for.
Asked(act) == {r \in Entries(NewRequests(act)) : r.kind # "Block"}

Acted(n, act) ==
  /\ st' = n /\ watch' = Watched(n, act)
  /\ Pending' \subseteq Pending \cup Asked(act)
  /\ votes' \subseteq votes \cup Injected(act)

\* The state of a later level, before its first proposal is handled.
StartsLevel(s, L) ==
  /\ L \in AutoStates /\ Sound(L) /\ L.level > s.level /\ L.phase = "Idle"
  /\ L.locked = {} /\ L.attestable = {} /\ L.early = {} /\ L.elected = {}

ByProposal(n, act) ==
  /\ stepped' = n /\ qc' = qc
  /\ \/ Proposed(st, n, act)
     \/ st.phase = "Awaiting_application" /\ Elects(st, n) /\ act = Do_nothing

ByLevel(n, act) ==
  /\ stepped' = st /\ qc' = qc
  /\ \E L : StartsLevel(st, L) /\ Proposed(L, n, act)

ByTimeout(n, act) ==
  /\ stepped' = n /\ qc' = qc /\ act.type \in {"Do_nothing", "Prepare_block"}
  /\ \/ Stays(st, n)
     \/ loop = "boot" /\ Renews(st, n, st.round)
     \/ loop = "wait" /\ Renews(st, n, st.round + 1) /\ (PromptSigning => Pending = {})

ByQuorum(n, act) ==
  /\ stepped' = n /\ qc # <<>> /\ qc' = Tail(qc)
  /\ LET e == Head(qc) IN
       \/ /\ n = st /\ act = Do_nothing
          /\ e = [kind |-> "Preattestation", candidate |-> st.proposal] =>
               st.phase # "Awaiting_preattestations"
          /\ e = [kind |-> "Attestation", candidate |-> st.proposal] =>
               st.phase # "Awaiting_attestations" \/ st.elected # {}
       \/ e = [kind |-> "Preattestation", candidate |-> st.proposal] /\ Locks(st, n, act)
       \/ /\ e = [kind |-> "Attestation", candidate |-> st.proposal]
          /\ act = Do_nothing /\ (Elects(st, n) \/ Delays(st, n))

ByForge(n, act) ==
  /\ stepped' = n /\ qc' = qc
  /\ \/ n = st /\ act.type \in {"Do_nothing", "Inject_block"}
     \/ \E e \in Pending :
          \/ /\ e.kind = "Preattestation" /\ n = st
             /\ act = [type |-> "Inject_preattestation", vote |-> e.vote]
          \/ e.kind = "Attestation" /\ Arrives(st, n, act, e.vote)

Turned(n, act) ==
  /\ loop' = "record" /\ previous' = st /\ UNCHANGED <<clock, disk, granted>>
  /\ Acted(n, act)
  /\ ByProposal(n, act) \/ ByLevel(n, act) \/ ByTimeout(n, act) \/ ByQuorum(n, act)
       \/ ByForge(n, act)

\* The state of the daemon before an iteration.
ReadyToTurn ==
  /\ TypeInv /\ Sound(st) /\ qc \in Seq(QuorumEvents)
  /\ loop = "wait" => \A t \in timer : t.kind = "End_of_round" => t.round = st.round

--------------------------------------------------------------------------------
(* Rounds and quorums: whatever fails.                                      *)

\* In a state s, with the watch W, the events Q and the granted quorums G, the
\* quorum that is waited for will be announced.
ToldBy(s, W, Q, G) ==
  LET back == \E w \in W \cup G : w.candidate.level > s.level
  IN  /\ s.phase = "Awaiting_preattestations" =>
           [kind |-> "Preattestation", candidate |-> s.proposal] \in W \cup Q \/ back
      /\ s.phase = "Awaiting_attestations" /\ s.elected = {} =>
           [kind |-> "Attestation", candidate |-> s.proposal] \in W \cup Q \/ back

\* An application is awaited after the quorum was reported.
Reported(s, G) ==
  s.phase = "Awaiting_application" => [kind |-> "Attestation", candidate |-> s.proposal] \in G

Followed(s) == Sound(s) /\ ToldBy(s, watch, Entries(qc), granted) /\ Reported(s, granted)

RoundInv ==
  /\ TypeInv /\ previous \in AutoStates
  /\ watch \subseteq QuorumEvents /\ \A v, w \in watch : v = w
  /\ granted \subseteq QuorumEvents
  /\ qc \in Seq(QuorumEvents) /\ Entries(qc) \subseteq granted
  /\ Timely(head) /\ Followed(st) /\ Followed(stepped)
  /\ loop = "wait" => \A t \in timer : t.kind = "End_of_round" => t.round = st.round
  /\ loop = "record" =>
       previous.level = stepped.level /\ (st = stepped \/ st.level > previous.level)
  /\ loop # "record" => stepped = st /\ previous = st

\* What a state is told only depends on a part of it.
SameWait(s, n) ==
  n.level = s.level /\ n.proposal = s.proposal /\ n.phase = s.phase /\ n.elected = s.elected

--------------------------------------------------------------------------------
(* The record: without faults.                                              *)

\* The disk holds the lock of the state s.
OnDisk(s, D) == Filesystem /\ s.locked # {} => \E d \in D : d.level = s.level /\ d.locked = s.locked

\* The state the iteration started from is on disk, and the record of the new one
\* is refused only when the lock did not change.
DiskInv ==
  /\ RoundInv /\ BelowInv
  /\ \A a \in st.attestable : a.proposal.round <= st.round
  /\ OnDisk(previous, disk)
  /\ loop = "record" =>
       \/ st.level > previous.level
       \/ st.level = previous.level /\ (Consistent(st) \/ st.locked = previous.locked)

\* An iteration keeps the lock, or takes a newer one.
Relocks(s, n) ==
  \/ n.level > s.level
  \/ n.level = s.level /\ n.locked = s.locked
  \/ /\ n.level = s.level
     /\ \A l \in s.locked : \E k \in n.locked : k.round >= l.round
     /\ \A a \in s.attestable : \E b \in n.attestable : b.proposal.round >= a.proposal.round

AttestablePast(s) == \A a \in s.attestable : a.proposal.round <= s.round

--------------------------------------------------------------------------------
(* The votes: when signatures are handled before their round ends.          *)

Current(s, v) == v = Content(s.proposal) /\ s.proposal.round = s.round

GrantedIn(G, v) == \E g \in G : g.kind = "Preattestation" /\ Content(g.candidate) = v

\* The votes P on their way are of the current proposal, or of a level that is
\* over; an attestation waits for its prequorum in the state, or has it.
PendingFor(s, P, G) ==
  /\ \A t \in P : t.vote.level <= s.level /\ (t.vote.level = s.level => Current(s, t.vote))
  /\ \A t \in P : t.kind = "Attestation" /\ t.vote.level = s.level =>
       s.phase = "Awaiting_preattestations" \/ GrantedIn(G, t.vote)
  /\ \A v \in s.early : Current(s, v)

PendInv ==
  /\ RoundInv /\ PendingFor(st, Pending, granted)
  /\ loop = "boot" => Pending = {}
  /\ AttestsAfterPrequorum

\* What an iteration may send, of the votes P on their way in the state s.
Sends_of(s, P, G, n, act) ==
  \/ Injected(act) = {}
  \/ \E e \in P : /\ e.kind = "Preattestation" /\ Injected(act) = {Vote("Preattestation", e.vote)}
                  /\ n = s
  \/ \E e \in P : /\ e.kind = "Attestation" /\ Injected(act) = {Vote("Attestation", e.vote)}
                  /\ Current(s, e.vote) /\ GrantedIn(G, e.vote)
                  /\ s.phase # "Awaiting_preattestations"
                  /\ n.level = s.level /\ n.locked = s.locked /\ Current(n, e.vote)
  \/ /\ Locks(s, n, act) /\ [kind |-> "Preattestation", candidate |-> s.proposal] \in G
     /\ \A v \in Injected(act) : v.kind = "Attestation" /\ GrantedIn(G, v.vote) /\ Current(s, v.vote)

--------------------------------------------------------------------------------
(* The lock: without faults.                                                *)

\* The vote v is below the lock of the state, or for its payload.
LocksIn(s, v) ==
  /\ s.locked # {}
  /\ \A l \in s.locked : v.round <= l.round /\ (v.round = l.round => v.payload = l.payload)

\* A preattestation against an attestation among V has a more recent prequorum.
Justified(v, V, G) ==
  \A a \in V :
    /\ a.kind = "Attestation" /\ a.vote.level = v.level
    /\ a.vote.round < v.round /\ a.vote.payload # v.payload
    => \/ \E p \in Proposals : Content(p) = v /\ \E q \in p.prequorum : q > a.vote.round
       \/ \E g \in G :
            /\ g.kind = "Preattestation" /\ g.candidate.level = v.level
            /\ g.candidate.payload = v.payload /\ g.candidate.round > a.vote.round

\* The votes V were sent up to the round of the state, at its round for its
\* proposal; the attestations among them, and those among P that no longer wait
\* for a prequorum, are below the lock; the lock comes from a prequorum; every
\* preattestation is justified.
VoteFor(s, V, P, G) ==
  /\ \A t \in V :
       /\ t.vote.level <= s.level
       /\ t.vote.level = s.level =>
            t.vote.round <= s.round /\ (t.vote.round = s.round => Current(s, t.vote))
  /\ \A t \in V : t.kind = "Attestation" /\ t.vote.level = s.level => LocksIn(s, t.vote)
  /\ \A t \in P : t.kind = "Attestation" /\ t.vote.level = s.level =>
       s.phase = "Awaiting_preattestations" \/ LocksIn(s, t.vote)
  /\ \A l \in s.locked : \E g \in G :
       /\ g.kind = "Preattestation" /\ g.candidate.level = s.level
       /\ g.candidate.round = l.round /\ g.candidate.payload = l.payload
  /\ \A t \in P \cup V : t.kind = "Preattestation" => Justified(t.vote, V, G)

VoteInv == PendInv /\ VoteFor(st, votes, Pending, granted)

================================================================================
