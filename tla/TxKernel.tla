------------------------------ MODULE TxKernel -------------------------------
(***************************************************************************)
(* The transactions kernel (kernel_tx_demo lib.rs and transactions/): a    *)
(* level's inbox is read in one kernel run, which credits the deposits and *)
(* caches the external messages; each later run of the level takes one     *)
(* cached message one stage further, and asks for a reboot while there is  *)
(* more to do.  What the reboots of a level do not suffice for stays in    *)
(* the durable storage.                                                    *)
(***************************************************************************)
EXTENDS TxLedger, SequencesExt

---------------------------------------------------------------------------
(***************************************************************************)
(* The resumable iterator of the transactions kernel over the operations   *)
(* of a DAC payload (kernel_tx_demo inbox/external/dac_iterator.rs): a     *)
(* buffer of two halves slides over the stored payload, and the iterator   *)
(* itself is stored when a kernel run ends before the payload does.        *)
(*                                                                         *)
(* The k-th byte of operation o is <<o, k>>; <<0, k>> is a byte that       *)
(* begins no operation: the list's length, or garbage.                     *)
(***************************************************************************)
CONSTANTS TxHalfBuffer,   \* MAX_FILE_CHUNK_SIZE
          TxSizes,        \* the sizes of the operations an iteration meets
          TxMaxOps        \* bound: operations of a payload

ASSUME TxIteratorAssumption == TxHalfBuffer \in Nat /\ TxHalfBuffer > 4

VARIABLES txPay,   \* ghost: the sizes of the payload's operations, in order
          txIt,    \* the iterator in memory, <<>> between two kernel runs
          txDisk,  \* the stored iterator, <<>> when there is none
          txGot,   \* the operations `next` returned
          txEnd    \* how the iteration ended, "" while it goes on
txIterVars == <<txPay, txIt, txDisk, txGot, txEnd>>

---------------------------------------------------------------------------
TxNone == -1
TxLeast(a, b) == IF a <= b THEN a ELSE b

\* The bytes that VerifiableOperation::parse consumes for operation o, n of
\* them; a payload begins with the length of its list.
TxBytes(o, n) == [k \in 1 .. n |-> <<o, k>>]
TxPrefix == [k \in 1 .. 4 |-> <<0, k>>]

\* store_read_slice into n bytes: <<>> stands for the error of an offset
\* past the end, <<bytes>> for what was read.
store_read_slice(payload, offset, n) ==
  IF offset > Len(payload) THEN <<>>
  ELSE <<SubSeq(payload, offset + 1, offset + TxLeast(n, Len(payload) - offset))>>

IteratorNew(payload) ==
  LET total == Len(payload)
      read  == TxLeast(2 * TxHalfBuffer, total)
  IN  [buffer |-> SubSeq(payload, 1, read), buffer_offset |-> 4,
       next_offset |-> IF read < total THEN read ELSE TxNone, total_length |-> total]

\* [it, res]: res is "Panic" where an assertion of the code fails.
Slide(it, read, half) ==
  CASE it.buffer_offset < half \/ Len(it.buffer) # 2 * half -> [it |-> it, res |-> "Panic"]
    [] read = <<>> -> [it |-> it, res |-> "Err"]
    [] OTHER ->
         [res |-> "Ok",
          it |-> [it EXCEPT !.buffer = SubSeq(@, half + 1, 2 * half) \o read[1],
                            !.buffer_offset = @ - half,
                            !.next_offset = IF @ + Len(read[1]) < it.total_length
                                            THEN @ + Len(read[1]) ELSE TxNone]]

update_buffer(it, payload) ==
  Slide(it, store_read_slice(payload, it.next_offset, TxHalfBuffer), TxHalfBuffer)

has_finished_reading(it) == it.buffer_offset = Len(it.buffer) /\ it.next_offset = TxNone

buffer_pointer_is_in_right_hand_side(it) == it.buffer_offset >= TxHalfBuffer

can_keep_reading_from_store(it) == it.next_offset # TxNone

RECURSIVE Refill(_, _)
RECURSIVE Refilled(_, _)
Refill(it, payload) ==
  IF buffer_pointer_is_in_right_hand_side(it) /\ can_keep_reading_from_store(it)
  THEN Refilled(update_buffer(it, payload), payload)
  ELSE [it |-> it, res |-> "Ok"]
Refilled(r, payload) == IF r.res = "Ok" THEN Refill(r.it, payload) ELSE r

\* VerifiableOperation::parse of the bytes after `offset`, with the size of
\* each operation given by `size`: the operation, 0 when they begin none.
TxParse(buffer, offset, size) ==
  IF offset = Len(buffer) THEN 0
  ELSE LET o == buffer[offset + 1][1]
       IN  IF /\ o # 0 /\ offset + size[o] <= Len(buffer)
              /\ SubSeq(buffer, offset + 1, offset + size[o]) = TxBytes(o, size[o])
           THEN o ELSE 0

\* next: [it, res, op], res among "Some", "None", "Err" and "Panic".
NextOp(it, o, size) ==
  IF o = 0 THEN [it |-> it, res |-> "Err", op |-> 0]
  ELSE [it |-> [it EXCEPT !.buffer_offset = @ + size[o]], res |-> "Some", op |-> o]

NextFrom(it, res, size) ==
  CASE res # "Ok" -> [it |-> it, res |-> res, op |-> 0]
    [] res = "Ok" /\ has_finished_reading(it) -> [it |-> it, res |-> "None", op |-> 0]
    [] res = "Ok" /\ it.buffer_offset > Len(it.buffer) -> [it |-> it, res |-> "Panic", op |-> 0]
    [] OTHER -> NextOp(it, TxParse(it.buffer, it.buffer_offset, size), size)

NextAfter(full, size) == NextFrom(full.it, full.res, size)

IteratorNext(it, payload, size) == NextAfter(Refill(it, payload), size)

\* load: the stored iterator if there is one, a new one otherwise.
IteratorLoad(disk, payload) == IF disk = <<>> THEN IteratorNew(payload) ELSE disk[1]

---------------------------------------------------------------------------
(* An iteration over any payload, stored and loaded at any moment.         *)

TxPayload == TxPrefix \o FlattenSeq([i \in DOMAIN txPay |-> TxBytes(i, txPay[i])])

TxIterInit ==
  /\ txPay \in BoundedSeq(TxSizes, TxMaxOps)
  /\ txIt = <<>> /\ txDisk = <<>> /\ txGot = <<>> /\ txEnd = ""

TxIterLoad ==
  /\ txIt = <<>> /\ txEnd = ""
  /\ txIt' = <<IteratorLoad(txDisk, TxPayload)>>
  /\ UNCHANGED <<txPay, txDisk, txGot, txEnd>>

\* The stored iterator is removed with the last operation.
TxIterNext ==
  /\ txIt # <<>> /\ txEnd = ""
  /\ \E r \in {IteratorNext(txIt[1], TxPayload, txPay)} :
       /\ txIt' = <<r.it>>
       /\ txGot' = IF r.res = "Some" THEN Append(txGot, r.op) ELSE txGot
       /\ txEnd' = IF r.res = "Some" THEN "" ELSE r.res
       /\ txDisk' = IF r.res = "None" THEN <<>> ELSE txDisk
  /\ UNCHANGED txPay

\* persist consumes the iterator: the next kernel run loads it.
TxIterPersist ==
  /\ txIt # <<>> /\ txEnd = ""
  /\ txDisk' = txIt /\ txIt' = <<>>
  /\ UNCHANGED <<txPay, txGot, txEnd>>

TxIterNextState == TxIterLoad \/ TxIterNext \/ TxIterPersist

\* The operations returned are those of the payload, each once and in order,
\* wherever the halves of the buffer fall and however often the iterator is
\* stored; the end is reached after the last of them, and by no error: what
\* dac_iterator.rs promises of a resumable iterator, for operations that are
\* at most one byte longer than a half of the buffer.
TxIteratorExact ==
  /\ txGot = [i \in 1 .. Len(txGot) |-> i] /\ Len(txGot) <= Len(txPay)
  /\ txEnd \in {"", "None"}
  /\ txEnd = "None" => Len(txGot) = Len(txPay) /\ txDisk = <<>>

---------------------------------------------------------------------------
CONSTANTS TxOps,         \* the operations users may sign, numbered
          TxOpSize,      \* the size of each
          TxInboxes,     \* what a level may bring: [dal, msgs]
          TxPerRun,      \* operations of a DAC payload executed per run
          TxReboots,     \* maximum_reboots_per_input
          TxMaxLevels    \* bound: levels

ASSUME TxKernelAssumption ==
  /\ \A o \in DOMAIN TxOps : TxOps[o] \in Operation
  /\ TxReboots \in Nat /\ TxPerRun \in Nat

VARIABLES txLedger,  \* the accounts
          txStore,   \* the kernel's own part of the durable storage
          txHost,    \* the level, its unread inbox, the reboots left
          txPast     \* ghost: what happened so far
txVars == <<txLedger, txStore, txHost, txPast>>

---------------------------------------------------------------------------
(* A kernel run works on k = [ledger, store, past].  The store has         *)
(*   cache     the cached messages, [id, body]; the i-th at index i - 1    *)
(*   stage     the stage of a cached message, 0 when none is stored        *)
(*   progress  the index of the current message                            *)
(*   payload   the revealed DAC payloads, by index                         *)
(*   iter      the stored iterators, by index: [it, of], `of` a ghost      *)
(*   dal       the stored DAL slot, a sequence of at most one batch        *)
(*   committee whether the DAC committee is configured                     *)

Start == 0
Verified == 1
Revealed == 2

Stage(s, i) == IF i \in DOMAIN s.stage THEN s.stage[i] ELSE Start

NoMap == [i \in {} |-> 0]

\* KERNEL_PRIVATE_STATE holds the messages, their stages and the progress;
\* the payloads and the iterators are elsewhere.
cleanup(s) == [s EXCEPT !.cache = <<>>, !.stage = NoMap, !.progress = 0]

\* One operation of message m, and its withdrawals.
RecordOp(k, m, o, r) ==
  [k EXCEPT !.ledger = r.ledger,
            !.past.out = @ \o Withdrawals(TxOps[o], r.res),
            !.past.log = Append(@, <<m, o, r.res>>)]

ExecuteOp(k, m, o) == RecordOp(k, m, o, execute(k.ledger, TxOps[o]))

\* process_batch_message, then process_withdrawals of each operation.
process_batch_message(k, m, ops) == FoldLeft(LAMBDA s, o : ExecuteOp(s, m, o), k, ops)

\* Ghost: message m was executed to its end.
Completed(k, m) == [k EXCEPT !.past.done = @ \cup {m}]

---------------------------------------------------------------------------
(* process.rs: a step returns [k, reboot].                                 *)

Rebooting(k) == [k |-> k, reboot |-> TRUE]
Ending(k) == [k |-> k, reboot |-> FALSE]

message_next_stage(k, i, stage) == Rebooting([k EXCEPT !.store.stage = TxPut(@, i, stage)])

\* Mutant: the progress does not advance.
next_message_or_next_level_stays(k, i, left) ==
  IF i + 1 < Len(k.store.cache) /\ left > 0 THEN Rebooting(k)
  ELSE Ending([k EXCEPT !.store = cleanup(@)])

\* With no reboot left the messages that remain are given up.
next_message_or_next_level(k, i, left) ==
  IF i + 1 < Len(k.store.cache) /\ left > 0
  THEN Rebooting([k EXCEPT !.store.progress = i + 1])
  ELSE Ending([k EXCEPT !.store = cleanup(@)])

\* A certificate cannot be verified without a committee: the error ends the
\* run and leaves everything as it is.
process_at_start(k, i, left) ==
  LET m == k.store.cache[i + 1]
      b == m.body
  IN  CASE b.kind = "junk" -> next_message_or_next_level(k, i, left)
        [] b.kind = "batch" ->
             next_message_or_next_level(Completed(process_batch_message(k, m.id, b.ops), m.id), i, left)
        [] b.kind = "dac" /\ ~ k.store.committee -> Ending(k)
        [] b.kind = "dac" /\ k.store.committee /\ b.signed -> message_next_stage(k, i, Verified)
        [] OTHER -> next_message_or_next_level(k, i, left)

DacPayload(b) ==
  TxPrefix \o FlattenSeq([j \in DOMAIN b.ops |-> TxBytes(b.ops[j], TxOpSize[b.ops[j]])])
           \o (IF b.garbled THEN <<<<0, 1>>>> ELSE <<>>)

\* reveal_to_store deletes the payload stored at the index first.
process_verified(k, i, left) ==
  LET b == k.store.cache[i + 1].body
  IN  IF b.available
      THEN message_next_stage([k EXCEPT !.store.payload = TxPut(@, i, DacPayload(b))], i, Revealed)
      ELSE next_message_or_next_level([k EXCEPT !.store.payload = TxCut(@, i)], i, left)

\* Up to n operations of the payload: [k, it, res].
RECURSIVE Iterate(_, _, _, _, _)
RECURSIVE Iterated(_, _, _, _, _, _)
Iterate(k, m, i, it, n) ==
  IF n = 0 THEN [k |-> k, it |-> it, res |-> "Some"]
  ELSE Iterated(k, m, i, it, n, IteratorNext(it, k.store.payload[i], TxOpSize))
Iterated(k, m, i, it, n, r) ==
  IF r.res = "Some" THEN Iterate(ExecuteOp(k, m, r.op), m, i, r.it, n - 1)
  ELSE [k |-> k, it |-> it, res |-> r.res]

\* A payload that was read to its end removes the stored iterator; one that
\* does not parse leaves it behind.
AfterIteration(r, m, owner, i, left) ==
  CASE r.res = "Some" ->
         message_next_stage([r.k EXCEPT !.store.iter = TxPut(@, i, [it |-> r.it, of |-> owner])],
                            i, Revealed)
    [] r.res = "None" ->
         next_message_or_next_level(Completed([r.k EXCEPT !.store.iter = TxCut(@, i)], m), i, left)
    [] OTHER -> next_message_or_next_level(r.k, i, left)

RevealedBy(k, m, owner, stored, i, left) ==
  AfterIteration(Iterate([k EXCEPT !.past.stale = IF owner = m THEN @ ELSE @ \cup {m}],
                         m, i, IteratorLoad(stored, k.store.payload[i]), TxPerRun),
                 m, owner, i, left)

process_revealed(k, i, left) ==
  IF i \in DOMAIN k.store.iter
  THEN RevealedBy(k, k.store.cache[i + 1].id, k.store.iter[i].of, <<k.store.iter[i].it>>, i, left)
  ELSE RevealedBy(k, k.store.cache[i + 1].id, k.store.cache[i + 1].id, <<>>, i, left)

make_decision(k, left) ==
  LET i == k.store.progress
      s == Stage(k.store, i)
  IN  CASE s = Start -> process_at_start(k, i, left)
        [] s = Verified -> process_verified(k, i, left)
        [] s = Revealed -> process_revealed(k, i, left)

---------------------------------------------------------------------------
(* lib.rs                                                                  *)

Depositing(k, m) ==
  LET r == deposit_ticket_to_storage(k.ledger, m.to, m.ticket, m.amount)
  IN  [k EXCEPT !.ledger = r.ledger, !.past.deposited[m.ticket] = @ + m.amount]

\* filter_inbox_message, after the start of the level; what is malformed or
\* meant for another rollup is skipped.
filter_inbox_message(k, id, m) ==
  CASE m.kind = "deposit" -> Depositing(k, m)
    [] m.kind = "external" -> [k EXCEPT !.store.cache = Append(@, [id |-> id, body |-> m.body])]
    [] OTHER -> k

\* StartOfLevel: the pages of a slot are written over what is stored.
store_dal_slot(s, dal) == IF dal = <<>> THEN s ELSE [s EXCEPT !.dal = dal]

ReadAll(k, level, inbox) ==
  FoldLeft(LAMBDA s, j : filter_inbox_message(s, <<level, j>>, inbox.msgs[j]),
           [k EXCEPT !.store = store_dal_slot(@, inbox.dal)],
           [j \in DOMAIN inbox.msgs |-> j])

\* The payload of a slot is a batch, or does not parse.
ProcessDal(k) ==
  LET b == k.store.dal[1]
  IN  [(IF b.kind = "batch" THEN Completed(process_batch_message(k, b.id, b.ops), b.id) ELSE k)
         EXCEPT !.store.dal = <<>>]

---------------------------------------------------------------------------
(* Levels and runs, as the PVM makes them (lib_scoru_wasm wasm_vm.ml).     *)

TxInit ==
  /\ txLedger = TxEmptyLedger
  /\ \E committee \in BOOLEAN :
       txStore = [cache |-> <<>>, stage |-> NoMap, progress |-> 0, payload |-> NoMap,
                  iter |-> NoMap, dal |-> <<>>, committee |-> committee]
  /\ txHost = [level |-> 0, running |-> FALSE, inbox |-> <<>>, reboots |-> 0,
               behind |-> FALSE, exhausted |-> FALSE, unread |-> FALSE]
  /\ txPast = [deposited |-> [t \in TxTickets |-> 0], out |-> <<>>, log |-> <<>>, done |-> {}, stale |-> {}, sent |-> NoMap]

Bodies(level, inbox) ==
  [j \in {<<level, n>> : n \in {n \in DOMAIN inbox.msgs : inbox.msgs[n].kind = "external"}} |->
     inbox.msgs[j[2]].body]

StartLevel ==
  /\ ~ txHost.running /\ txHost.level < TxMaxLevels
  /\ \E inbox \in TxInboxes :
       LET level == txHost.level + 1
           slot  == [j \in DOMAIN inbox.dal |-> [inbox.dal[j] EXCEPT !.id = <<level, 0>>]]
           sent  == Bodies(level, inbox)
       IN  /\ txHost' = [level |-> level, running |-> TRUE, reboots |-> TxReboots,
                         inbox |-> <<[inbox EXCEPT !.dal = slot]>>,
                         behind |-> txStore.cache # <<>> \/ txStore.dal # <<>>,
                         exhausted |-> txHost.exhausted, unread |-> txHost.unread]
           /\ txPast' = [txPast EXCEPT !.sent =
                [j \in DOMAIN @ \cup DOMAIN sent \cup {<<level, 0>>} |->
                   CASE j \in DOMAIN sent -> sent[j]
                     [] j = <<level, 0>> -> IF slot = <<>> THEN [kind |-> "none", ops |-> <<>>] ELSE slot[1]
                     [] OTHER -> @[j]]]
  /\ UNCHANGED <<txLedger, txStore>>

\* After a run: another one if it was asked for and a reboot is left, so
\* that the last run of a level finds its counter at 0.
AfterRunTx(h, reboot) ==
  IF reboot /\ h.reboots > 0 THEN [h EXCEPT !.reboots = @ - 1]
  ELSE [h EXCEPT !.running = FALSE, !.exhausted = reboot, !.unread = h.inbox # <<>>]

TxRun(k, host, reboot) ==
  /\ txLedger' = k.ledger /\ txStore' = k.store /\ txPast' = k.past
  /\ txHost' = AfterRunTx(host, reboot)

TxK == [ledger |-> txLedger, store |-> txStore, past |-> txPast]

\* transactions_run, by what the durable storage holds.
RunCached ==
  /\ txHost.running /\ txStore.cache # <<>>
  /\ \E r \in {make_decision(TxK, txHost.reboots)} : TxRun(r.k, txHost, r.reboot)

RunDal ==
  /\ txHost.running /\ txStore.cache = <<>> /\ txStore.dal # <<>>
  /\ TxRun(ProcessDal(TxK), txHost, FALSE)

\* The messages of the level: with none left the run ends the level.
RunInbox ==
  /\ txHost.running /\ txStore.cache = <<>> /\ txStore.dal = <<>>
  /\ IF txHost.inbox = <<>> THEN TxRun(TxK, txHost, FALSE)
     ELSE TxRun(ReadAll(TxK, txHost.level, txHost.inbox[1]), [txHost EXCEPT !.inbox = <<>>], TRUE)

TxKernelNext == StartLevel \/ RunCached \/ RunDal \/ RunInbox
TxKernelSpec == TxInit /\ [][TxKernelNext]_txVars

---------------------------------------------------------------------------
(* Properties.                                                             *)

\* What went to the outbox of ticket t.
TxWithdrawn(t) ==
  FoldLeft(LAMBDA n, w : n + w.amount, 0, SelectSeq(txPast.out, LAMBDA w : w.ticket = t))

\* No ticket is made: of each, the accounts hold and have withdrawn at most what
\* was deposited, whatever operations fail, and whichever run they are executed
\* in (remove_ticket before add_ticket in handle_transfer).
TxTicketsBacked ==
  \A t \in TxTickets : TxHeld(txLedger, t) + TxWithdrawn(t) <= txPast.deposited[t]

\* No ticket is lost either: "The sum of tickets held by accounts should equal
\* the number of tickets held by the entire rollup" (storage.rs), though a
\* transfer may fail after the source was debited.
TxTicketsConserved ==
  \A t \in TxTickets : TxHeld(txLedger, t) + TxWithdrawn(t) = txPast.deposited[t]

\* Past these errors the counter of the signer was taken.
Refusals == {"NoAccountOfAddress", "NoPublicKeyForAddress", "BadSignature", "CounterMismatch"}

\* An operation takes effect at most once per signature, though it may be in
\* several messages, or in a payload that is iterated over in several runs:
\* an account's counter is the number of operations it was charged for.
TxCountersSpent ==
  \A a \in TxAddresses :
    LET taken == SelectSeq(txPast.log, LAMBDA e : TxOps[e[2]].signer = a /\ e[3] \notin Refusals)
    IN  /\ txLedger.acc[a].counter = Len(taken)
        /\ \A n \in DOMAIN taken : TxOps[taken[n][2]].counter = n - 1

\* Messages are executed in the order of the inbox, each once and from its
\* first operation to its last, across stages, reboots and levels; only a
\* message that met the iterator of an earlier payload is executed otherwise.
TxMessagesInOrder ==
  /\ \A m \in {e[1] : e \in ToSet(txPast.log)} \ txPast.stale :
       LET ran == SelectSeq(txPast.log, LAMBDA e : e[1] = m)
       IN  /\ IsPrefix([n \in DOMAIN ran |-> ran[n][2]], txPast.sent[m].ops)
           /\ m \in txPast.done => Len(ran) = Len(txPast.sent[m].ops)
  /\ \A n \in 1 .. Len(txPast.log) - 1 :
       LET a == txPast.log[n][1]
           b == txPast.log[n + 1][1]
       IN  a[2] # 0 /\ b[2] # 0 => a[1] < b[1] \/ (a[1] = b[1] /\ a[2] <= b[2])

\* The inbox of a level is left unread only when the level began behind, and
\* a level begins behind only when an earlier one ran out of reboots, found
\* no committee for a certificate, or had a DAL slot next to messages.  A
\* level whose inbox was read and whose last run still had a reboot left gave
\* up none of its batches.
TxInboxesRead ==
  /\ ~ txHost.running /\ txHost.unread => txHost.behind
  /\ txStore.committee /\ txStore.dal = <<>> /\ ~ txHost.running /\ txStore.cache # <<>>
       => txHost.exhausted
  /\ ~ txHost.running /\ ~ txHost.unread /\ txStore.cache = <<>> /\ txHost.reboots > 0
       => \A m \in DOMAIN txPast.sent :
            m[1] = txHost.level /\ m[2] # 0 /\ txPast.sent[m].kind = "batch" => m \in txPast.done
=============================================================================
