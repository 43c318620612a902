---------------------------- MODULE OperationWorker ----------------------------
(****************************************************************************)
(* The baker's operation worker (operation_worker.ml).  It mirrors the      *)
(* consensus operations of the node's mempool in a pool and, when the       *)
(* automaton asks for it, counts the voting power of the (pre)attestations  *)
(* of one candidate until the consensus threshold is reached.               *)
(*                                                                          *)
(* The worker is a single Lwt thread reading a stream of batches; the       *)
(* automaton calls it from another thread, and both take the same lock.     *)
(* The worker adds a batch to the pool before it waits for the lock, so a   *)
(* batch has two steps here.                                                *)
(****************************************************************************)
EXTENDS Naturals, Sequences, FiniteSets

CONSTANTS
  WorkerSlots, \* the slots of the consensus committee
  Owned,       \* first slot of a delegate |-> all the slots of that delegate
  Ops,         \* the consensus operations a mempool may stream
  Candidates,  \* the proposals the automaton may watch
  Heads,       \* <<level, round>> of the heads of the node
  consensus_threshold,
  MaxBatch,    \* bound: operations in a batch of the stream
  MaxWatches,  \* bound: calls of the automaton
  MaxStreams   \* bound: times the mempool stream is opened

ASSUME SlotsAssumption ==
  /\ IsFiniteSet(WorkerSlots)
  /\ DOMAIN Owned \subseteq WorkerSlots
  /\ \A s \in DOMAIN Owned : Owned[s] \subseteq WorkerSlots

ASSUME OpsAssumption ==
  /\ IsFiniteSet(Ops)
  /\ \A o \in Ops :
       /\ o.kind \in {"Preattestation", "Attestation"}
       /\ o.slot \in WorkerSlots /\ o.level \in Nat /\ o.round \in Nat

ASSUME BoundsAssumption ==
  /\ consensus_threshold \in Nat /\ MaxBatch \in Nat /\ MaxWatches \in Nat /\ MaxStreams \in Nat
  /\ Heads \subseteq Nat \X Nat

VARIABLES
  pool,      \* operation_pool.consensus
  watched,   \* proposal_watched
  stream,    \* where the worker loop is
  batch,     \* the operations between their arrival and update_monitoring
  events,    \* qc_event_stream, with everything ever pushed to it
  watches,   \* history: calls of monitor_quorum
  streams,   \* history: streams opened
  flushed    \* history: the watch was reset by the end of a stream

workerVars == <<pool, watched, stream, batch, events, watches, streams, flushed>>

NoWatch == [kind |-> "None"]

(****************************************************************************)
(* compare_consensus_contents: two operations are the same vote when their  *)
(* level, round, slot and payload agree; signature, branch and DAL content  *)
(* (the field tag) do not count.                                            *)
(****************************************************************************)
VoteContent(o) == [level |-> o.level, round |-> o.round, slot |-> o.slot, payload |-> o.payload]

is_valid_consensus_content(c, o) ==
  o.round = c.round_watched /\ o.payload = c.payload_hash_watched

\* The slots a set of votes stands for, each paired with its vote:
\* attesting_power is the number of slots of the delegate.
VotedSlots(votes) == {v \in votes \X WorkerSlots : v[1].slot \in DOMAIN Owned /\ v[2] \in Owned[v[1].slot]}

Power(votes) == Cardinality(VotedSlots(votes))

\* Mutants of Counted: votes already received are counted again; votes for
\* another payload or round are counted.
CountedAgain(w, ops) ==
  {o \in ops : /\ o.kind = w.kind
               /\ is_valid_consensus_content(w.candidate, o)
               /\ o.slot \in DOMAIN Owned}

CountedUnchecked(w, ops) ==
  {o \in ops : o.kind = w.kind /\ VoteContent(o) \notin w.received /\ o.slot \in DOMAIN Owned}

\* The operations of ops that one call of update_monitoring counts.  The set of
\* votes already received is the one read before the batch is folded over.
Counted(w, ops) ==
  {o \in ops : /\ o.kind = w.kind
               /\ VoteContent(o) \notin w.received
               /\ is_valid_consensus_content(w.candidate, o)
               /\ o.slot \in DOMAIN Owned}

Recount(w, ops) ==
  [kind |-> w.kind, candidate |-> w.candidate,
   power |-> w.power + Power(Counted(w, ops)),
   received |-> w.received \cup {VoteContent(o) : o \in Counted(w, ops)}]

\* Mutant of update_monitoring: the watch is not cancelled with the event.
update_monitoring_again(w, ops) ==
  IF w = NoWatch
  THEN watched' = w /\ UNCHANGED events
  ELSE LET nw == Recount(w, ops) IN
       /\ watched' = nw
       /\ events' = IF nw.power < consensus_threshold THEN events
                    ELSE Append(events, [kind |-> nw.kind, candidate |-> nw.candidate,
                                         votes |-> nw.received])

\* update_monitoring on the watch w: count, and on reaching the threshold push
\* the event and stop watching.
update_monitoring(w, ops) ==
  IF w = NoWatch
  THEN watched' = w /\ UNCHANGED events
  ELSE LET nw == Recount(w, ops) IN
       IF nw.power >= consensus_threshold
       THEN /\ events' = Append(events, [kind |-> nw.kind, candidate |-> nw.candidate,
                                         votes |-> nw.received])
            /\ watched' = NoWatch
       ELSE watched' = nw /\ UNCHANGED events

WorkerInit ==
  /\ pool = {} /\ watched = NoWatch /\ batch = {} /\ events = <<>>
  /\ stream = "opening" /\ watches = 0 /\ streams = 0 /\ flushed = FALSE

\* Mutant of monitor_quorum: the votes the pool already holds are not counted.
monitor_quorum_empty(kind, c) ==
  /\ watches < MaxWatches
  /\ watches' = watches + 1
  /\ flushed' = FALSE
  /\ update_monitoring([kind |-> kind, candidate |-> c, power |-> 0, received |-> {}], {})
  /\ UNCHANGED <<pool, stream, batch, streams>>

\* monitor_preattestation_quorum and monitor_attestation_quorum: the automaton
\* replaces the watch and counts what the pool already holds.
monitor_quorum(kind, c) ==
  /\ watches < MaxWatches
  /\ watches' = watches + 1
  /\ flushed' = FALSE
  /\ update_monitoring([kind |-> kind, candidate |-> c, power |-> 0, received |-> {}], pool)
  /\ UNCHANGED <<pool, stream, batch, streams>>

\* update_operations_pool: on a new stream only the attestations of at most 5
\* rounds and 1 level before the head stay in the pool.
Retained(head) ==
  {o \in pool : o.kind = "Attestation" /\ head[2] <= o.round + 5 /\ head[1] <= o.level + 1}

OpenStream(head) ==
  /\ stream = "opening" /\ streams < MaxStreams
  /\ streams' = streams + 1
  /\ stream' = "open"
  /\ pool' = Retained(head)
  /\ UNCHANGED <<watched, batch, events, watches, flushed>>

\* The mempool streams a batch: it enters the pool before the lock is taken.
ReceiveOps(ops) ==
  /\ stream = "open" /\ ops # {} /\ Cardinality(ops) <= MaxBatch
  /\ pool' = pool \cup ops
  /\ batch' = ops
  /\ stream' = "counting"
  /\ UNCHANGED <<watched, events, watches, streams, flushed>>

\* The worker got the lock: the batch is counted for the current watch.
CountOps ==
  /\ stream = "counting"
  /\ update_monitoring(watched, batch)
  /\ batch' = {}
  /\ stream' = "open"
  /\ UNCHANGED <<pool, watches, streams, flushed>>

\* The stream closes because the node has a new head: reset_monitoring, then
\* the loop opens the stream of the new mempool.
EndOfStream ==
  /\ stream = "open"
  /\ watched' = IF watched = NoWatch THEN watched
                ELSE [watched EXCEPT !.power = 0, !.received = {}]
  /\ stream' = "opening"
  /\ flushed' = TRUE
  /\ UNCHANGED <<pool, batch, events, watches, streams>>

\* monitor_operations fails: the loop ends and the finalizer shuts the worker
\* down.  The canceler drops the watch once a stream has been opened.
LoopFailed ==
  /\ stream = "opening"
  /\ stream' = "failed"
  /\ watched' = IF streams > 0 THEN NoWatch ELSE watched
  /\ UNCHANGED <<pool, batch, events, watches, streams, flushed>>

WorkerNext ==
  \/ \E kind \in {"Preattestation", "Attestation"}, c \in Candidates : monitor_quorum(kind, c)
  \/ \E head \in Heads : OpenStream(head)
  \/ \E ops \in SUBSET Ops : ReceiveOps(ops)
  \/ CountOps
  \/ EndOfStream
  \/ LoopFailed

WorkerSpec == WorkerInit /\ [][WorkerNext]_workerVars

--------------------------------------------------------------------------------
Contents == {VoteContent(o) : o \in Ops}

Watches == [kind : {"Preattestation", "Attestation"}, candidate : Candidates,
            power : Nat, received : SUBSET Contents]

\* The types of the worker's state: a watch counts votes of the operations the
\* mempool may stream, and every event carries such votes.
WorkerTypeOK ==
  /\ pool \in SUBSET Ops
  /\ batch \in SUBSET Ops
  /\ watched \in Watches \cup {NoWatch}
  /\ stream \in {"opening", "open", "counting", "failed"}
  /\ events \in Seq([kind : {"Preattestation", "Attestation"}, candidate : Candidates,
                     votes : SUBSET Contents])
  /\ watches \in Nat /\ streams \in Nat /\ flushed \in BOOLEAN

\* The votes received for a watch are votes for its candidate, and the running
\* total current_voting_power is the number of slots behind them: no delegate is
\* counted twice over the initial count, the batches and the resets.
PowerIsOfReceived ==
  watched # NoWatch =>
    /\ watched.power = Power(watched.received)
    /\ \A v \in watched.received : is_valid_consensus_content(watched.candidate, v)

\* A (pre)quorum event handed to the automaton carries votes for its candidate
\* whose slots reach the threshold.
QuorumIsBacked ==
  \A i \in DOMAIN events :
    /\ Power(events[i].votes) >= consensus_threshold
    /\ \A v \in events[i].votes : is_valid_consensus_content(events[i].candidate, v)

\* A watch that has its quorum is over: the event went out in the step that
\* reached it, and once per call of the automaton.
QuorumIsNotified ==
  /\ watched # NoWatch => watched.power < consensus_threshold
  /\ Len(events) + (IF watched = NoWatch THEN 0 ELSE 1) <= watches

\* A vote of the pool is counted for the watch as soon as its batch is, whether
\* it came before the automaton's call, during it or after it, as long as no end
\* of stream has reset the count.
NoPooledVoteMissed ==
  watched # NoWatch /\ ~flushed =>
    \A o \in pool \ batch :
      o.kind = watched.kind /\ is_valid_consensus_content(watched.candidate, o)
        /\ o.slot \in DOMAIN Owned => VoteContent(o) \in watched.received

================================================================================
