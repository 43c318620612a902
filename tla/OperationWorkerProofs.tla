------------------------- MODULE OperationWorkerProofs -------------------------
(****************************************************************************)
(* The operation worker misses no vote and no quorum, for every committee,  *)
(* threshold and mempool, and counts voting power correctly when a          *)
(* delegate's vote occurs in one variant.                                   *)
(*                                                                          *)
(* WorkerTypeOK is inductive by itself.  The power of a watch is the power of the *)
(* votes it has received because a batch adds slots of new votes only, and  *)
(* under OneVariant as many pairs <<vote, slot>> as pairs                   *)
(* <<operation, slot>>.                                                     *)
(****************************************************************************)
EXTENDS OperationWorker, FiniteSetTheorems, TLAPS

\* What the comment of Attestation_set expects of a mempool: no two operations
\* with the same consensus content.
OneVariant == \A o, p \in Ops : o.kind = p.kind /\ VoteContent(o) = VoteContent(p) => o = p

LEMMA VotedSlotsFinite ==
  ASSUME NEW votes, IsFiniteSet(votes)
  PROVE  IsFiniteSet(VotedSlots(votes)) /\ Power(votes) \in Nat
<1>1. IsFiniteSet(votes \X WorkerSlots)
  BY FS_Product, SlotsAssumption
<1>2. VotedSlots(votes) \in SUBSET (votes \X WorkerSlots)
  BY DEF VotedSlots
<1>3. IsFiniteSet(VotedSlots(votes))
  BY <1>1, <1>2, FS_Subset
<1>. QED
  BY <1>3, FS_CardinalityType DEF Power

LEMMA ContentsFinite ==
  ASSUME NEW S \in SUBSET Contents
  PROVE  IsFiniteSet(S)
<1>1. IsFiniteSet(Ops)
  BY OpsAssumption
<1> DEFINE g == [o \in Ops |-> VoteContent(o)]
<1>2. g \in Surjection(Ops, Contents)
  BY DEF Surjection, Contents
<1>3. IsFiniteSet(Contents)
  BY <1>1, <1>2, FS_Surjection
<1>. QED
  BY <1>3, FS_Subset

LEMMA OpsFinite ==
  ASSUME NEW S \in SUBSET Ops
  PROVE  IsFiniteSet(S)
BY FS_Subset, OpsAssumption

\* The votes of one call add exactly their slots to the power received.
LEMMA PowerOfRecount ==
  ASSUME OneVariant, NEW w \in Watches, NEW ops \in SUBSET Ops
  PROVE  Power(w.received \cup {VoteContent(o) : o \in Counted(w, ops)})
           = Power(w.received) + Power(Counted(w, ops))
<1> DEFINE C == Counted(w, ops)
           K == {VoteContent(o) : o \in C}
           f == [v \in VotedSlots(C) |-> <<VoteContent(v[1]), v[2]>>]
<1>1. C \in SUBSET Ops /\ K \in SUBSET Contents /\ w.received \in SUBSET Contents
  BY DEF Counted, Contents, Watches
<1>2. IsFiniteSet(C) /\ IsFiniteSet(K) /\ IsFiniteSet(w.received)
  BY <1>1, OpsFinite, ContentsFinite
<1>3. VotedSlots(w.received \cup K) = VotedSlots(w.received) \cup VotedSlots(K)
  BY DEF VotedSlots
<1>4. VotedSlots(w.received) \cap VotedSlots(K) = {}
  <2>1. w.received \cap K = {}
    BY DEF Counted
  <2>. QED
    BY <2>1 DEF VotedSlots
<1>5. Power(w.received \cup K) = Power(w.received) + Power(K)
  <2>1. /\ IsFiniteSet(VotedSlots(w.received)) /\ IsFiniteSet(VotedSlots(K))
        /\ Power(w.received) \in Nat /\ Power(K) \in Nat
    BY <1>2, VotedSlotsFinite
  <2>2. Cardinality(VotedSlots(w.received) \cup VotedSlots(K))
          = Cardinality(VotedSlots(w.received)) + Cardinality(VotedSlots(K))
              - Cardinality(VotedSlots(w.received) \cap VotedSlots(K))
    BY <2>1, FS_Union
  <2>3. Cardinality(VotedSlots(w.received) \cap VotedSlots(K)) = 0
    BY Zenon, <1>4, FS_EmptySet
  <2>4. /\ Cardinality(VotedSlots(w.received)) = Power(w.received)
        /\ Cardinality(VotedSlots(K)) = Power(K)
        /\ Cardinality(VotedSlots(w.received) \cup VotedSlots(K)) = Power(w.received \cup K)
    BY Zenon, <1>3 DEF Power
  <2> HIDE DEF K
  <2>. QED
    BY <2>1, <2>2, <2>3, <2>4
<1>6. f \in Bijection(VotedSlots(C), VotedSlots(K))
  <2>1. f \in [VotedSlots(C) -> VotedSlots(K)]
    BY DEF VotedSlots, VoteContent
  <2>2. ASSUME NEW u \in VotedSlots(C), NEW v \in VotedSlots(C), f[u] = f[v]
        PROVE  u = v
    <3>1. u \in C \X WorkerSlots /\ v \in C \X WorkerSlots
      BY DEF VotedSlots
    <3>2. VoteContent(u[1]) = VoteContent(v[1]) /\ u[2] = v[2]
      BY <2>2
    <3>3. u[1].kind = v[1].kind
      BY <3>1 DEF Counted
    <3>4. u[1] = v[1]
      BY <1>1, <3>1, <3>2, <3>3 DEF OneVariant
    <3>. QED
      BY <3>1, <3>2, <3>4
  <2>3. ASSUME NEW t \in VotedSlots(K)
        PROVE  \E v \in VotedSlots(C) : f[v] = t
    <3>1. t \in K \X WorkerSlots /\ t[1].slot \in DOMAIN Owned /\ t[2] \in Owned[t[1].slot]
      BY DEF VotedSlots
    <3>2. PICK o \in C : t[1] = VoteContent(o)
      BY <3>1
    <3>3. o.slot = t[1].slot
      BY <3>2 DEF VoteContent
    <3>4. <<o, t[2]>> \in VotedSlots(C)
      BY <3>1, <3>3 DEF VotedSlots
    <3>5. f[<<o, t[2]>>] = t
      BY <3>1, <3>2, <3>4
    <3>. QED
      BY <3>4, <3>5
  <2>4. f \in Injection(VotedSlots(C), VotedSlots(K))
    BY <2>1, <2>2 DEF Injection, IsInjective
  <2>5. f \in Surjection(VotedSlots(C), VotedSlots(K))
    BY <2>1, <2>3 DEF Surjection
  <2>. QED
    BY <2>4, <2>5 DEF Bijection
<1>7. Power(K) = Power(C)
  <2>1. IsFiniteSet(VotedSlots(C))
    BY <1>2, VotedSlotsFinite
  <2>2. ExistsBijection(VotedSlots(C), VotedSlots(K))
    BY <1>6 DEF ExistsBijection
  <2>. QED
    BY <2>1, <2>2, FS_Bijection DEF Power
<1>. QED
  BY <1>5, <1>7

--------------------------------------------------------------------------------
NewWatch(kind, c) == [kind |-> kind, candidate |-> c, power |-> 0, received |-> {}]

EventType == [kind : {"Preattestation", "Attestation"}, candidate : Candidates,
              votes : SUBSET Contents]

LEMMA RecountType ==
  ASSUME NEW w \in Watches, NEW ops \in SUBSET Ops
  PROVE  /\ Recount(w, ops) \in Watches
         /\ Recount(w, ops).kind = w.kind
         /\ Recount(w, ops).candidate = w.candidate
         /\ Recount(w, ops).power = w.power + Power(Counted(w, ops))
         /\ Recount(w, ops).received = w.received \cup {VoteContent(o) : o \in Counted(w, ops)}
<1>1. Counted(w, ops) \in SUBSET Ops
  BY DEF Counted
<1>2. Power(Counted(w, ops)) \in Nat
  BY <1>1, OpsFinite, VotedSlotsFinite
<1>3. {VoteContent(o) : o \in Counted(w, ops)} \in SUBSET Contents
  BY <1>1 DEF Contents
<1>. QED
  BY <1>2, <1>3 DEF Recount, Watches

\* No watch is NoWatch: it has a kind of its own.
LEMMA WatchIsNotNone ==
  ASSUME NEW w \in Watches
  PROVE  w # NoWatch
BY DEF Watches, NoWatch

LEMMA UpdateType ==
  ASSUME NEW w \in Watches \cup {NoWatch}, NEW ops \in SUBSET Ops,
         events \in Seq(EventType), update_monitoring(w, ops)
  PROVE  watched' \in Watches \cup {NoWatch} /\ events' \in Seq(EventType)
<1>1. CASE w = NoWatch
  BY <1>1 DEF update_monitoring
<1>2. CASE w \in Watches
  <2>1. w # NoWatch
    BY <1>2, WatchIsNotNone
  <2>2. Recount(w, ops) \in Watches
    BY <1>2, RecountType
  <2>3. [kind |-> Recount(w, ops).kind, candidate |-> Recount(w, ops).candidate,
         votes |-> Recount(w, ops).received] \in EventType
    BY <2>2 DEF Watches, EventType
  <2>. QED
    BY <2>1, <2>2, <2>3 DEF update_monitoring
<1>. QED
  BY <1>1, <1>2

\* The worker's state is well typed: the pool and the batch hold operations of
\* the mempool, a watch has a candidate, and the events carry vote contents.
THEOREM TypeCorrect == WorkerSpec => []WorkerTypeOK
<1>1. WorkerInit => WorkerTypeOK
  <2> SUFFICES ASSUME WorkerInit PROVE WorkerTypeOK
    OBVIOUS
  <2>1. flushed \in BOOLEAN
    BY Zenon DEF WorkerInit
  <2>. QED
    BY <2>1 DEF WorkerInit, WorkerTypeOK
<1>2. WorkerTypeOK /\ [WorkerNext]_workerVars => WorkerTypeOK'
  <2> SUFFICES ASSUME WorkerTypeOK, [WorkerNext]_workerVars PROVE WorkerTypeOK'
    OBVIOUS
  <2> USE DEF WorkerTypeOK
  <2>0. events \in Seq(EventType) /\ (events' \in Seq(EventType) => events' \in
          Seq([kind : {"Preattestation", "Attestation"}, candidate : Candidates,
               votes : SUBSET Contents]))
    BY DEF EventType
  <2>1. ASSUME NEW kind \in {"Preattestation", "Attestation"}, NEW c \in Candidates,
               monitor_quorum(kind, c)
        PROVE  WorkerTypeOK'
    <3>1. NewWatch(kind, c) \in Watches
      BY DEF NewWatch, Watches
    <3>2. update_monitoring(NewWatch(kind, c), pool)
      BY <2>1 DEF monitor_quorum, NewWatch
    <3>3. watched' \in Watches \cup {NoWatch} /\ events' \in Seq(EventType)
      BY <2>0, <3>1, <3>2, UpdateType
    <3>4. flushed' \in BOOLEAN
      BY <2>1, Zenon DEF monitor_quorum
    <3>. QED
      BY <2>0, <2>1, <3>3, <3>4 DEF monitor_quorum
  <2>2. ASSUME NEW head \in Heads, OpenStream(head) PROVE WorkerTypeOK'
    BY <2>2 DEF OpenStream, Retained
  <2>3. ASSUME NEW ops \in SUBSET Ops, ReceiveOps(ops) PROVE WorkerTypeOK'
    BY <2>3 DEF ReceiveOps
  <2>4. CASE CountOps
    <3>1. watched' \in Watches \cup {NoWatch} /\ events' \in Seq(EventType)
      BY <2>0, <2>4, UpdateType DEF CountOps
    <3>. QED
      BY <2>0, <2>4, <3>1 DEF CountOps
  <2>5. CASE EndOfStream
    BY Zenon, <2>5 DEF EndOfStream, Watches
  <2>6. CASE LoopFailed
    BY <2>6 DEF LoopFailed
  <2>7. CASE UNCHANGED workerVars
    BY <2>7 DEF workerVars
  <2>. QED
    BY Zenon, <2>1, <2>2, <2>3, <2>4, <2>5, <2>6, <2>7 DEF WorkerNext
<1>. QED
  BY <1>1, <1>2, PTL DEF WorkerSpec

--------------------------------------------------------------------------------
(* What needs no hypothesis on the mempool.                                 *)

\* A batch waits for the lock only between its arrival and its count.
BatchIsPending == stream # "counting" => batch = {}

\* The votes of ops that concern w have been received.
Received(w, ops) ==
  \A o \in ops : o.kind = w.kind /\ is_valid_consensus_content(w.candidate, o)
                   /\ o.slot \in DOMAIN Owned => VoteContent(o) \in w.received

WatchInv == WorkerTypeOK /\ BatchIsPending /\ QuorumIsNotified /\ NoPooledVoteMissed

LEMMA RecountReceived ==
  ASSUME NEW w \in Watches, NEW ops \in SUBSET Ops
  PROVE  Received(Recount(w, ops), ops)
<1> DEFINE nw == Recount(w, ops)
<1>1. /\ nw.kind = w.kind /\ nw.candidate = w.candidate
      /\ nw.received = w.received \cup {VoteContent(o) : o \in Counted(w, ops)}
  BY RecountType
<1> HIDE DEF nw
<1>2. ASSUME NEW o \in ops, o.kind = nw.kind, is_valid_consensus_content(nw.candidate, o),
             o.slot \in DOMAIN Owned
      PROVE  VoteContent(o) \in nw.received
  <2>1. CASE VoteContent(o) \in w.received
    BY <1>1, <2>1
  <2>2. CASE VoteContent(o) \notin w.received
    <3>1. o \in Counted(w, ops)
      BY <1>1, <1>2, <2>2 DEF Counted
    <3>. QED
      BY <1>1, <3>1
  <2>. QED
    BY <2>1, <2>2
<1>. QED
  BY <1>2 DEF Received, nw

\* One call of update_monitoring: the watch stays below the threshold, or ends
\* with one more event.
LEMMA UpdateNotifies ==
  ASSUME WorkerTypeOK, NEW w \in Watches, NEW ops \in SUBSET Ops, update_monitoring(w, ops)
  PROVE  \/ watched' = NoWatch /\ Len(events') = Len(events) + 1
         \/ /\ events' = events /\ watched' = Recount(w, ops)
            /\ watched'.power < consensus_threshold
<1> DEFINE nw == Recount(w, ops)
<1>1. w # NoWatch
  BY WatchIsNotNone
<1>2. nw.power \in Nat /\ consensus_threshold \in Nat
  BY RecountType, BoundsAssumption DEF Watches
<1>3. CASE nw.power >= consensus_threshold
  <2>1. watched' = NoWatch /\ \E e : events' = Append(events, e)
    BY <1>1, <1>3 DEF update_monitoring
  <2>. QED
    BY <2>1 DEF WorkerTypeOK
<1>4. CASE ~(nw.power >= consensus_threshold)
  BY <1>1, <1>2, <1>4 DEF update_monitoring
<1>. QED
  BY <1>3, <1>4

LEMMA WatchInvInductive == WatchInv /\ WorkerTypeOK' /\ [WorkerNext]_workerVars => WatchInv'
<1> SUFFICES ASSUME WatchInv, WorkerTypeOK', [WorkerNext]_workerVars PROVE WatchInv'
  OBVIOUS
<1> USE DEF WatchInv
<1>0. /\ Len(events) \in Nat /\ consensus_threshold \in Nat /\ watches \in Nat
      /\ watched = NoWatch \/ watched \in Watches
  BY BoundsAssumption DEF WorkerTypeOK
<1>1. ASSUME NEW kind \in {"Preattestation", "Attestation"}, NEW c \in Candidates,
             monitor_quorum(kind, c)
      PROVE  WatchInv'
  <2> DEFINE w == NewWatch(kind, c)
  <2>1. w \in Watches
    BY DEF NewWatch, Watches
  <2>2. update_monitoring(w, pool) /\ pool' = pool /\ watches' = watches + 1
        /\ batch' = batch /\ stream' = stream
    BY <1>1 DEF monitor_quorum, NewWatch
  <2>3. \/ watched' = NoWatch /\ Len(events') = Len(events) + 1
        \/ events' = events /\ watched' = Recount(w, pool) /\ watched'.power < consensus_threshold
    BY <2>1, <2>2, UpdateNotifies DEF WorkerTypeOK
  <2>4. Received(Recount(w, pool), pool)
    BY <2>1, RecountReceived DEF WorkerTypeOK
  <2>5. QuorumIsNotified'
    BY <1>0, <2>2, <2>3 DEF QuorumIsNotified
  <2>6. NoPooledVoteMissed'
    BY <2>2, <2>3, <2>4 DEF NoPooledVoteMissed, Received, VoteContent, is_valid_consensus_content
  <2>. QED
    BY <2>2, <2>5, <2>6 DEF BatchIsPending
<1>2. ASSUME NEW head \in Heads, OpenStream(head) PROVE WatchInv'
  <2>1. pool' \subseteq pool /\ UNCHANGED <<watched, batch, events, watches, flushed>>
        /\ batch = {}
    BY <1>2 DEF OpenStream, Retained, BatchIsPending
  <2>2. QuorumIsNotified' /\ NoPooledVoteMissed'
    BY <2>1 DEF QuorumIsNotified, NoPooledVoteMissed, VoteContent, is_valid_consensus_content
  <2>. QED
    BY <2>1, <2>2 DEF BatchIsPending
<1>3. ASSUME NEW ops \in SUBSET Ops, ReceiveOps(ops) PROVE WatchInv'
  <2>1. /\ pool' = pool \cup ops /\ batch' = ops /\ batch = {} /\ stream' = "counting"
        /\ UNCHANGED <<watched, events, watches, flushed>>
    BY <1>3 DEF ReceiveOps, BatchIsPending
  <2>2. QuorumIsNotified' /\ NoPooledVoteMissed'
    BY <2>1 DEF QuorumIsNotified, NoPooledVoteMissed, VoteContent, is_valid_consensus_content
  <2>. QED
    BY <2>1, <2>2 DEF BatchIsPending
<1>4. CASE CountOps
  <2>1. /\ update_monitoring(watched, batch) /\ batch' = {} /\ stream' = "open"
        /\ UNCHANGED <<pool, watches, flushed>>
    BY <1>4 DEF CountOps
  <2>2. CASE watched = NoWatch
    BY <2>1, <2>2 DEF update_monitoring, BatchIsPending, QuorumIsNotified, NoPooledVoteMissed
  <2>3. CASE watched \in Watches
    <3> DEFINE nw == Recount(watched, batch)
    <3>1. \/ watched' = NoWatch /\ Len(events') = Len(events) + 1
          \/ events' = events /\ watched' = nw /\ watched'.power < consensus_threshold
      BY <2>1, <2>3, UpdateNotifies DEF WorkerTypeOK
    <3>2. Received(nw, batch) /\ watched # NoWatch
      BY <2>3, RecountReceived, WatchIsNotNone DEF WorkerTypeOK
    <3>3. QuorumIsNotified'
      BY <1>0, <2>1, <3>1, <3>2 DEF QuorumIsNotified
    <3>4. nw.kind = watched.kind /\ nw.candidate = watched.candidate
          /\ watched.received \subseteq nw.received
      BY <2>3, RecountType DEF WorkerTypeOK
    <3> HIDE DEF nw
    <3>5. NoPooledVoteMissed'
      BY <2>1, <3>1, <3>2, <3>4
         DEF NoPooledVoteMissed, Received, VoteContent, is_valid_consensus_content
    <3>. QED
      BY <2>1, <3>3, <3>5 DEF BatchIsPending
  <2>. QED
    BY <1>0, <2>2, <2>3
<1>5. CASE EndOfStream
  <2>1. /\ flushed' = TRUE /\ batch' = {} /\ events' = events /\ watches' = watches
        /\ watched' = IF watched = NoWatch THEN watched
                      ELSE [watched EXCEPT !.power = 0, !.received = {}]
    BY <1>5 DEF EndOfStream, BatchIsPending
  <2>2. watched # NoWatch => watched'.power = 0 /\ 0 < consensus_threshold
    BY <1>0, <2>1 DEF QuorumIsNotified, Watches
  <2>3. QuorumIsNotified'
    BY <1>0, <2>1, <2>2 DEF QuorumIsNotified
  <2>. QED
    BY <2>1, <2>3 DEF BatchIsPending, NoPooledVoteMissed
<1>6. CASE LoopFailed
  <2>1. /\ watched' \in {watched, NoWatch} /\ stream = "opening"
        /\ UNCHANGED <<pool, batch, events, watches, flushed>>
    BY <1>6 DEF LoopFailed
  <2>2. NoPooledVoteMissed'
    BY <2>1 DEF NoPooledVoteMissed, is_valid_consensus_content, VoteContent
  <2>3. QuorumIsNotified'
    BY <1>0, <2>1 DEF QuorumIsNotified
  <2>. QED
    BY <2>1, <2>2, <2>3 DEF BatchIsPending
<1>7. CASE UNCHANGED workerVars
  BY <1>7 DEF workerVars, BatchIsPending, QuorumIsNotified, NoPooledVoteMissed,
     is_valid_consensus_content, VoteContent
<1>. QED
  BY <1>1, <1>2, <1>3, <1>4, <1>5, <1>6, <1>7 DEF WorkerNext

LEMMA WatchInvariant == WorkerSpec => []WatchInv
<1>1. WorkerInit => WatchInv
  <2> SUFFICES ASSUME WorkerInit PROVE WatchInv
    OBVIOUS
  <2>1. flushed \in BOOLEAN
    BY Zenon DEF WorkerInit
  <2>. QED
    BY <2>1 DEF WorkerInit, WatchInv, WorkerTypeOK, BatchIsPending, QuorumIsNotified, NoPooledVoteMissed
<1>. QED
  BY <1>1, WatchInvInductive, TypeCorrect, PTL DEF WorkerSpec

\* For every committee, threshold and mempool: a watch never sits on a quorum, and
\* a call of the automaton is answered by one event at most.
THEOREM QuorumNotified == WorkerSpec => []QuorumIsNotified
<1>1. WatchInv => QuorumIsNotified
  BY DEF WatchInv
<1>. QED
  BY <1>1, WatchInvariant, PTL

\* For every committee, threshold and mempool: no vote of the pool is lost between
\* the batch that brings it and the call that starts the watch.
THEOREM PooledVotesCounted == WorkerSpec => []NoPooledVoteMissed
<1>1. WatchInv => NoPooledVoteMissed
  BY DEF WatchInv
<1>. QED
  BY <1>1, WatchInvariant, PTL

--------------------------------------------------------------------------------
(* The count itself, when a vote has one variant.                           *)

\* What update_monitoring needs of the watch it starts from.
GoodWatch(w) ==
  /\ w \in Watches
  /\ w.power = Power(w.received)
  /\ \A v \in w.received : is_valid_consensus_content(w.candidate, v)

CountInv == WorkerTypeOK /\ PowerIsOfReceived /\ QuorumIsBacked

LEMMA RecountGood ==
  ASSUME OneVariant, NEW w, GoodWatch(w), NEW ops \in SUBSET Ops
  PROVE  GoodWatch(Recount(w, ops))
<1> DEFINE nw == Recount(w, ops)
           K == {VoteContent(o) : o \in Counted(w, ops)}
<1>1. /\ nw \in Watches /\ nw.kind = w.kind /\ nw.candidate = w.candidate
      /\ nw.power = w.power + Power(Counted(w, ops))
      /\ nw.received = w.received \cup K
  BY RecountType DEF GoodWatch
<1>2. nw.power = Power(nw.received)
  BY <1>1, PowerOfRecount DEF GoodWatch
<1>3. \A v \in K : is_valid_consensus_content(w.candidate, v)
  <2>1. ASSUME NEW o \in Counted(w, ops)
        PROVE  is_valid_consensus_content(w.candidate, VoteContent(o))
    BY DEF Counted, is_valid_consensus_content, VoteContent
  <2>. QED
    BY <2>1
<1>4. \A v \in nw.received : is_valid_consensus_content(nw.candidate, v)
  BY <1>1, <1>3 DEF GoodWatch
<1>. QED
  BY <1>1, <1>2, <1>4 DEF GoodWatch

\* One call of update_monitoring on a good watch: the watch stays good, or ends
\* with an event that is backed.
LEMMA UpdateGood ==
  ASSUME OneVariant, WorkerTypeOK, QuorumIsBacked,
         NEW w, GoodWatch(w), NEW ops \in SUBSET Ops, update_monitoring(w, ops)
  PROVE  /\ QuorumIsBacked'
         /\ watched' \in {NoWatch, Recount(w, ops)}
<1> DEFINE nw == Recount(w, ops)
           e == [kind |-> nw.kind, candidate |-> nw.candidate, votes |-> nw.received]
<1>1. w # NoWatch
  BY WatchIsNotNone DEF GoodWatch
<1>2. GoodWatch(nw)
  BY RecountGood
<1>3. nw.power \in Nat /\ consensus_threshold \in Nat
  BY <1>2, BoundsAssumption DEF GoodWatch, Watches
<1>4. CASE nw.power >= consensus_threshold
  <2>1. watched' = NoWatch /\ events' = Append(events, e)
    BY <1>1, <1>4 DEF update_monitoring
  <2>2. Len(events) \in Nat /\ Len(events') = Len(events) + 1
        /\ DOMAIN events = 1 .. Len(events) /\ DOMAIN events' = 1 .. Len(events) + 1
        /\ events'[Len(events) + 1] = e
        /\ \A i \in 1 .. Len(events) : events'[i] = events[i]
    BY <2>1 DEF WorkerTypeOK
  <2>3. Power(e.votes) >= consensus_threshold
        /\ \A v \in e.votes : is_valid_consensus_content(e.candidate, v)
    BY <1>2, <1>4 DEF GoodWatch
  <2>4. \A i \in DOMAIN events' : i \in DOMAIN events \/ i = Len(events) + 1
    BY <2>2
  <2>5. \A i \in DOMAIN events : events'[i] = events[i]
    BY <2>2
  <2> HIDE DEF e
  <2>6. QuorumIsBacked'
    <3> SUFFICES ASSUME NEW i \in DOMAIN events'
                 PROVE  /\ Power(events'[i].votes) >= consensus_threshold
                        /\ \A v \in events'[i].votes :
                             is_valid_consensus_content(events'[i].candidate, v)
      BY DEF QuorumIsBacked
    <3>1. CASE i \in DOMAIN events
      BY <2>5, <3>1 DEF QuorumIsBacked
    <3>2. CASE i = Len(events) + 1
      BY <2>2, <2>3, <3>2
    <3>. QED
      BY <2>4, <3>1, <3>2
  <2>. QED
    BY <2>1, <2>2, <2>6
<1>5. CASE ~(nw.power >= consensus_threshold)
  <2>1. watched' = nw /\ events' = events
    BY <1>1, <1>5 DEF update_monitoring
  <2>2. QuorumIsBacked'
    BY <2>1 DEF QuorumIsBacked, is_valid_consensus_content, Power, VotedSlots
  <2>. QED
    BY <1>3, <1>5, <2>1, <2>2
<1>. QED
  BY <1>4, <1>5

LEMMA CountInvInductive ==
  ASSUME OneVariant
  PROVE  CountInv /\ WorkerTypeOK' /\ [WorkerNext]_workerVars => CountInv'
<1> SUFFICES ASSUME CountInv, WorkerTypeOK', [WorkerNext]_workerVars PROVE CountInv'
  OBVIOUS
<1> USE DEF CountInv
<1>0. watched = NoWatch \/ GoodWatch(watched)
  BY DEF WorkerTypeOK, PowerIsOfReceived, GoodWatch
<1>1. ASSUME NEW kind \in {"Preattestation", "Attestation"}, NEW c \in Candidates,
             monitor_quorum(kind, c)
      PROVE  CountInv'
  <2> DEFINE w == NewWatch(kind, c)
  <2>1. GoodWatch(w)
    <3>1. Power({}) = 0
      BY FS_EmptySet DEF Power, VotedSlots
    <3>. QED
      BY <3>1 DEF GoodWatch, NewWatch, Watches
  <2>2. update_monitoring(w, pool)
    BY <1>1 DEF monitor_quorum, NewWatch
  <2>3. QuorumIsBacked' /\ watched' \in {NoWatch, Recount(w, pool)}
    BY <2>1, <2>2, UpdateGood DEF WorkerTypeOK
  <2>4. GoodWatch(Recount(w, pool))
    BY <2>1, RecountGood DEF WorkerTypeOK
  <2>. QED
    BY Zenon, <2>3, <2>4 DEF PowerIsOfReceived, GoodWatch, Power, VotedSlots, is_valid_consensus_content
<1>2. CASE CountOps
  <2>1. update_monitoring(watched, batch)
    BY <1>2 DEF CountOps
  <2>2. CASE watched = NoWatch
    <3>1. watched' = NoWatch /\ events' = events
      BY <2>1, <2>2 DEF update_monitoring
    <3>. QED
      BY <3>1 DEF PowerIsOfReceived, QuorumIsBacked, Power, VotedSlots, is_valid_consensus_content
  <2>3. CASE GoodWatch(watched)
    <3>1. QuorumIsBacked' /\ watched' \in {NoWatch, Recount(watched, batch)}
      BY <2>1, <2>3, UpdateGood DEF WorkerTypeOK
    <3>2. GoodWatch(Recount(watched, batch))
      BY <2>3, RecountGood DEF WorkerTypeOK
    <3>. QED
      BY Zenon, <3>1, <3>2 DEF PowerIsOfReceived, GoodWatch, Power, VotedSlots,
                        is_valid_consensus_content
  <2>. QED
    BY <1>0, <2>2, <2>3
<1>3. CASE EndOfStream
  <2>1. /\ events' = events
        /\ watched' = IF watched = NoWatch THEN watched
                      ELSE [watched EXCEPT !.power = 0, !.received = {}]
    BY <1>3 DEF EndOfStream
  <2>2. watched # NoWatch => watched'.power = 0 /\ watched'.received = {}
    BY <1>0, <2>1 DEF GoodWatch, Watches
  <2>3. Power({}) = 0
    BY FS_EmptySet DEF Power, VotedSlots
  <2>4. PowerIsOfReceived'
    BY Zenon, <2>1, <2>2, <2>3 DEF PowerIsOfReceived, Power, VotedSlots
  <2>5. QuorumIsBacked'
    BY <2>1 DEF QuorumIsBacked, Power, VotedSlots, is_valid_consensus_content
  <2>. QED
    BY <2>4, <2>5
<1>4. ASSUME watched' \in {watched, NoWatch}, events' = events PROVE CountInv'
  BY <1>4 DEF PowerIsOfReceived, QuorumIsBacked, Power, VotedSlots, is_valid_consensus_content
<1>5. ASSUME NEW head \in Heads, OpenStream(head) PROVE CountInv'
  BY <1>4, <1>5 DEF OpenStream
<1>6. ASSUME NEW ops \in SUBSET Ops, ReceiveOps(ops) PROVE CountInv'
  BY <1>4, <1>6 DEF ReceiveOps
<1>7. CASE LoopFailed \/ UNCHANGED workerVars
  BY <1>4, <1>7 DEF LoopFailed, workerVars
<1>. QED
  BY <1>1, <1>2, <1>3, <1>5, <1>6, <1>7 DEF WorkerNext

LEMMA CountInvInit == WorkerInit => CountInv
<1> SUFFICES ASSUME WorkerInit PROVE CountInv
  OBVIOUS
<1>1. flushed \in BOOLEAN
  BY Zenon DEF WorkerInit
<1>. QED
  BY <1>1 DEF WorkerInit, CountInv, WorkerTypeOK, PowerIsOfReceived, QuorumIsBacked

\* For every committee and threshold, and every mempool in which a vote has one
\* variant: current_voting_power is the number of slots behind the votes
\* received for the watch, over all the calls, batches and resets.
THEOREM PowerCorrect ==
  ASSUME OneVariant
  PROVE  WorkerSpec => []PowerIsOfReceived
<1>1. CountInv => PowerIsOfReceived
  BY DEF CountInv
<1>. QED
  BY <1>1, CountInvInit, CountInvInductive, TypeCorrect, PTL DEF WorkerSpec

\* Under the same hypothesis a Prequorum_reached or Quorum_reached event is
\* never pushed without the threshold's worth of votes for its candidate.
THEOREM QuorumBacked ==
  ASSUME OneVariant
  PROVE  WorkerSpec => []QuorumIsBacked
<1>1. CountInv => QuorumIsBacked
  BY DEF CountInv
<1>. QED
  BY <1>1, CountInvInit, CountInvInductive, TypeCorrect, PTL DEF WorkerSpec

================================================================================
