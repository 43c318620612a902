------------------------------- MODULE SdkHost -------------------------------
(***************************************************************************)
(* A kernel of the SDK running level after level, with the outbox queue    *)
(* that carries its messages over levels whose outbox is full              *)
(* (sdk/src/outbox.rs).  The inbox and the outbox are those of the mock    *)
(* host (mock/src/lib.rs, mock/src/state/mod.rs); the runs of a level and  *)
(* what they are told of the reboots are the PVM's (lib_scoru_wasm         *)
(* wasm_vm.ml), whose counter the mock does not reproduce.                 *)
(*                                                                         *)
(* The kernel is any program: in each of its runs it may read its inputs,  *)
(* write to the outbox, queue and flush messages and ask for a reboot, in  *)
(* any order, before it returns.                                           *)
(***************************************************************************)
EXTENDS Integers, Sequences, FiniteSets, SequencesExt

CONSTANTS SdkIndexes,                \* 2^32: the values of a queue index
          SdkQueueMax,               \* `max`, the longest queue
          MAX_OUTPUTS_PER_LEVEL,
          MAXIMUM_REBOOTS_PER_INPUT,
          SdkMaxQueued,              \* bound: messages queued in a behaviour
          SdkLevels                  \* bound: levels run

ASSUME SdkHostAssumption ==
  /\ SdkIndexes \in Nat /\ SdkQueueMax \in 1 .. SdkIndexes - 1
  /\ MAXIMUM_REBOOTS_PER_INPUT \in Nat

VARIABLES sdHost,   \* the host: level, inbox, cursor, reboot bookkeeping
          sdQueue,  \* the queue's part of the durable storage
          sdPast    \* ghost: what was queued, flushed, read and forced
sdHostVars == <<sdHost, sdQueue, sdPast>>

---------------------------------------------------------------------------
(* OutboxQueue.  meta is <<>> or <<start, len>>; slots are the messages.   *)

NoSlots == [i \in {} |-> 0]

read_meta(q) == IF q.meta = <<>> THEN <<0, 0>> ELSE q.meta

\* An emptied queue is deleted with its root, its start with it.
save_meta(q, start, len) ==
  IF len = 0 THEN [meta |-> <<>>, slots |-> NoSlots]
  ELSE [q EXCEPT !.meta = <<start, len>>]

wrapping_add(i, n) == (i + n) % SdkIndexes

\* Mutant: the message goes to the slot after the length, not after the start.
queue_message_after(q, m) ==
  LET start == read_meta(q)[1]
      len   == read_meta(q)[2]
  IN  IF len >= SdkQueueMax THEN [res |-> "FullOutbox", queue |-> q]
      ELSE [res |-> "Ok",
            queue |-> save_meta([q EXCEPT !.slots = [i \in DOMAIN @ \cup {len} |->
                                   IF i = len THEN m ELSE @[i]]], start, len + 1)]

\* queue_message: [res, queue].
queue_message(q, m) ==
  LET start == read_meta(q)[1]
      len   == read_meta(q)[2]
      end   == wrapping_add(start, len)
  IN  CASE len >= SdkQueueMax -> [res |-> "FullOutbox", queue |-> q]
        [] len < SdkQueueMax /\ m.large -> [res |-> "InputOutputTooLarge", queue |-> q]
        [] OTHER ->
             [res |-> "Ok",
              queue |-> save_meta([q EXCEPT !.slots = [i \in DOMAIN @ \cup {end} |->
                                     IF i = end THEN m ELSE @[i]]], start, len + 1)]

\* flush_queue: one message after the other until the outbox refuses one.
RECURSIVE Flush(_, _, _)
Flush(q, room, done) ==
  LET start == read_meta(q)[1]
      len   == read_meta(q)[2]
      rest  == [q EXCEPT !.slots = [i \in DOMAIN @ \ {start} |-> @[i]]]
  IN  IF len = 0 \/ room = 0 THEN [queue |-> q, out |-> done]
      ELSE Flush(save_meta(rest, wrapping_add(start, 1), len - 1), room - 1,
                 Append(done, q.slots[start]))

flush_queue(q, room) == Flush(q, room, <<>>)

---------------------------------------------------------------------------
(* The host.                                                               *)

bump_level(h) == [h EXCEPT !.level = @ + 1, !.id = 0, !.input = <<"StartOfLevel", "InfoPerLevel">>,
                           !.outputs = 0, !.running = FALSE]

\* mark_for_reboot of wasm_vm.ml: what a run that is over leads to.
RebootStatus(h) ==
  CASE h.reboot /\ h.counter <= 0 -> "Forcing_yield"
    [] h.reboot /\ h.counter > 0 -> "Reboot"
    [] OTHER -> "Yielding"

\* One reboot is used to read the inbox.
next_reboot_counter(h, status) ==
  IF status = "Reboot" THEN h.counter - 1 ELSE MAXIMUM_REBOOTS_PER_INPUT + 1

patch_too_many_reboot_flag(h, status) ==
  CASE status = "Yielding" -> FALSE
    [] status = "Forcing_yield" -> TRUE
    [] OTHER -> h.tooMany

\* compute_step at the end of the padding; a PVM that yields keeps the flag
\* for the reboot that follows the loading of the inbox.
Flagged(h, status) ==
  [h EXCEPT !.counter = next_reboot_counter(h, status),
            !.tooMany = patch_too_many_reboot_flag(h, status),
            !.reboot = status # "Reboot"]

SdkHostInit ==
  /\ sdHost = [level |-> 0, id |-> 0, input |-> <<"StartOfLevel", "InfoPerLevel">>,
               outputs |-> 0, running |-> FALSE, counter |-> MAXIMUM_REBOOTS_PER_INPUT + 1,
               reboot |-> TRUE, tooMany |-> FALSE]
  /\ sdQueue = [meta |-> <<>>, slots |-> NoSlots]
  /\ sdPast = [queued |-> <<>>, flushed |-> <<>>, read |-> <<>>, runs |-> 0, forced |-> FALSE]

\* add_external and add_transfer, between two levels.
AddMessage ==
  /\ ~ sdHost.running /\ sdHost.level < SdkLevels /\ Len(sdHost.input) = 2
  /\ sdHost' = [sdHost EXCEPT !.input = Append(@, "Message")]
  /\ UNCHANGED <<sdQueue, sdPast>>

\* The inbox is loaded, and the PVM reboots into the first run of the level.
RunLevel ==
  /\ ~ sdHost.running /\ sdHost.level < SdkLevels
  /\ sdHost' = [Flagged(sdHost, RebootStatus(sdHost))
                   EXCEPT !.running = TRUE, !.input = Append(@, "EndOfLevel")]
  /\ sdPast' = [sdPast EXCEPT !.read = <<>>, !.runs = 1]
  /\ UNCHANGED sdQueue

\* handle_read_input moves the cursor past the end as well.
ReadInputSdk ==
  /\ sdHost.running /\ sdHost.id <= Len(sdHost.input)
  /\ sdHost' = [sdHost EXCEPT !.id = @ + 1]
  /\ sdPast' = IF sdHost.id < Len(sdHost.input)
               THEN [sdPast EXCEPT !.read = Append(@, sdHost.input[sdHost.id + 1])]
               ELSE sdPast
  /\ UNCHANGED sdQueue

\* handle_write_output for a message the kernel writes itself.
WriteOutput ==
  /\ sdHost.running /\ sdHost.outputs < MAX_OUTPUTS_PER_LEVEL
  /\ sdHost' = [sdHost EXCEPT !.outputs = @ + 1]
  /\ UNCHANGED <<sdQueue, sdPast>>

QueueMessage ==
  /\ sdHost.running /\ Len(sdPast.queued) < SdkMaxQueued
  /\ \E large \in BOOLEAN :
       LET m == [number |-> Len(sdPast.queued), large |-> large]
           r == queue_message(sdQueue, m)
       IN  /\ sdQueue' = r.queue
           /\ sdPast' = IF r.res = "Ok" THEN [sdPast EXCEPT !.queued = Append(@, m)] ELSE sdPast
  /\ UNCHANGED sdHost

FlushQueue ==
  /\ sdHost.running
  /\ LET r == flush_queue(sdQueue, MAX_OUTPUTS_PER_LEVEL - sdHost.outputs)
     IN  /\ sdQueue' = r.queue
         /\ sdHost' = [sdHost EXCEPT !.outputs = @ + Len(r.out)]
         /\ sdPast' = [sdPast EXCEPT !.flushed = @ \o r.out]

mark_for_reboot ==
  /\ sdHost.running
  /\ sdHost' = [sdHost EXCEPT !.reboot = TRUE]
  /\ UNCHANGED <<sdQueue, sdPast>>

\* After kernel_run: another run of the level, or the next level.
AfterRun(h, status) ==
  IF status = "Reboot" THEN Flagged(h, status) ELSE bump_level(Flagged(h, status))

KernelReturns ==
  /\ sdHost.running
  /\ sdHost' = AfterRun(sdHost, RebootStatus(sdHost))
  /\ sdPast' = [sdPast EXCEPT !.runs = IF sdHost'.running THEN @ + 1 ELSE @,
                              !.forced = IF sdHost'.running THEN @ ELSE sdHost.reboot]
  /\ UNCHANGED sdQueue

SdkHostNext ==
  \/ AddMessage \/ RunLevel \/ ReadInputSdk \/ WriteOutput
  \/ QueueMessage \/ FlushQueue \/ mark_for_reboot \/ KernelReturns

SdkHostSpec == SdkHostInit /\ [][SdkHostNext]_sdHostVars

---------------------------------------------------------------------------
Pending == [i \in 1 .. read_meta(sdQueue)[2] |->
              wrapping_add(read_meta(sdQueue)[1], i - 1)]

(***************************************************************************)
(* Every message the queue accepted reaches an outbox once and in order:   *)
(* what was flushed, followed by what the queue still holds, is what was   *)
(* accepted - when the index wraps, when an outbox fills half way through  *)
(* a flush, and when the emptied queue's root is deleted and its index     *)
(* starts over - and no slot outside the queue is left behind.             *)
(***************************************************************************)
SdkOutboxExactlyOnce ==
  /\ DOMAIN sdQueue.slots = Range(Pending)
  /\ Len(Pending) = Cardinality(Range(Pending))
  /\ sdPast.flushed \o [i \in DOMAIN Pending |-> sdQueue.slots[Pending[i]]] = sdPast.queued
  /\ sdHost.outputs <= MAX_OUTPUTS_PER_LEVEL

(***************************************************************************)
(* Over all the reboots of a level the kernel is given each message of the *)
(* level's inbox at most once and in the inbox's order, the level's three  *)
(* internal messages around the others.                                    *)
(***************************************************************************)
SdkInboxOnce ==
  sdHost.running =>
    /\ IsPrefix(sdPast.read, sdHost.input)
    /\ sdHost.id <= Len(sdHost.input) => Len(sdPast.read) = sdHost.id
    /\ sdHost.input[1] = "StartOfLevel" /\ Last(sdHost.input) = "EndOfLevel"

(***************************************************************************)
(* A kernel is run at most once more in a level than it may be rebooted,   *)
(* the counter it can read (reboot_left, "the number of reboot left for    *)
(* the kernel") is the number of reboots it can still have, 0 in its last  *)
(* run, and each run of a level sees the too-many-reboots flag             *)
(* (restart_forced) exactly when the level before was cut short.           *)
(***************************************************************************)
SdkRebootsReported ==
  sdHost.running =>
    /\ sdPast.runs + sdHost.counter = MAXIMUM_REBOOTS_PER_INPUT + 1
    /\ sdHost.counter >= 0
    /\ sdHost.tooMany = sdPast.forced
=============================================================================
