------------------------------ MODULE Blueprints ------------------------------
(****************************************************************************)
(* The delayed inbox of the EVM kernel (linked_list.rs, delayed_inbox.rs)   *)
(* and the blueprints it stores before it executes them                     *)
(* (blueprint_storage.rs, blueprint.rs, sequencer_blueprint.rs).  The store *)
(* maps a block number to [nb, chunks]: /nb_chunks, and the chunks present  *)
(* by index.  A chunk is the i-th part of a signed sequencer blueprint, or  *)
(* a whole blueprint made from the inbox.  The bytes of a blueprint are     *)
(* abstracted: the concatenation of chunks decodes to b exactly when they   *)
(* are the parts 0 .. b.nb - 1 of b, in order.                              *)
(****************************************************************************)
EXTENDS Naturals, Sequences, FiniteSets, TLC, SequencesExt

---------------------------------------------------------------------------
(****************************************************************************)
(* The doubly linked list that the EVM kernel keeps in its durable storage  *)
(* (kernel_evm/kernel/src/linked_list.rs).  A list is a record:             *)
(*   pointers  what /meta holds: copies of the front and back pointers, or  *)
(*             None when the list is empty;                                 *)
(*   stored    id |-> the pointer under /<id>/pointer;                      *)
(*   data      id |-> the element under /<id>/data.                         *)
(* Every operation saves the in-memory struct before it returns, so the     *)
(* struct and /meta are one component here.                                 *)
(****************************************************************************)
CONSTANT None

EmptyList == [pointers |-> None, stored |-> << >>, data |-> << >>]

Pointer(id, previous, next) == [id |-> id, previous |-> previous, next |-> next]

(* Pointer::read: the stored pointer of id, if any.                         *)
ReadPointer(l, id) == IF id \in DOMAIN l.stored THEN l.stored[id] ELSE None

SavePointer(l, p) == [l EXCEPT !.stored = (p.id :> p) @@ @]

SaveData(l, id, elt) == [l EXCEPT !.data = (id :> elt) @@ @]

RemoveWithData(l, id) ==
  [l EXCEPT !.stored = [i \in DOMAIN @ \ {id} |-> @[i]],
            !.data   = [i \in DOMAIN @ \ {id} |-> @[i]]]

SetPointers(l, front, back) == [l EXCEPT !.pointers = [front |-> front, back |-> back]]

IsEmpty(l) == l.pointers = None

(* push: a known id is ignored.  The old back pointer is rewritten from the *)
(* copy in the struct, not from the stored pointer.                         *)
Push(l, id, elt) ==
  LET penultimate == [l.pointers.back EXCEPT !.next = id]
      back == Pointer(id, penultimate.id, None)
      only == Pointer(id, None, None)
  IN  IF ReadPointer(l, id) # None THEN l
      ELSE IF IsEmpty(l)
           THEN SetPointers(SaveData(SavePointer(l, only), id, elt), only, only)
           ELSE SetPointers(SaveData(SavePointer(SavePointer(l, penultimate), back), id, elt),
                            l.pointers.front, back)

Find(l, id) == IF id \in DOMAIN l.stored THEN l.data[id] ELSE None

(* remove: the neighbours come from the storage; removing between two       *)
(* elements leaves the copies in the struct as they are.                    *)
NewFront(l, head) == SetPointers(SavePointer(l, head), head, l.pointers.back)
NewBack(l, last) == SetPointers(SavePointer(l, last), l.pointers.front, last)
Unlink(l, prev, next) ==
  CASE prev = None /\ next = None -> [l EXCEPT !.pointers = None]
    [] prev = None /\ next # None -> NewFront(l, [next EXCEPT !.previous = None])
    [] prev # None /\ next = None -> NewBack(l, [prev EXCEPT !.next = None])
    [] OTHER -> SavePointer(SavePointer(l, [prev EXCEPT !.next = next.id]),
                            [next EXCEPT !.previous = prev.id])
RemoveId(l, id) ==
  IF IsEmpty(l) \/ ReadPointer(l, id) = None THEN l
  ELSE Unlink(RemoveWithData(l, id), ReadPointer(l, l.stored[id].previous),
              ReadPointer(l, l.stored[id].next))

(* What remove returns: the data, or None when there is nothing to remove.  *)
Removed(l, id) == IF IsEmpty(l) THEN None ELSE Find(l, id)

(* first_with_id: None stands for the empty list; reading the data of a     *)
(* front that is gone is an error, which the callers propagate.             *)
FirstId(l) == IF IsEmpty(l) THEN None ELSE l.pointers.front.id
FrontLost(l) == ~IsEmpty(l) /\ FirstId(l) \notin DOMAIN l.data

(* The ids from the front along the stored next pointers.                   *)
Elements(l) ==
  LET n == Cardinality(DOMAIN l.stored)
      walk[k \in 0..n] ==
        IF k = 0 THEN IF FirstId(l) \in DOMAIN l.stored THEN <<FirstId(l)>> ELSE << >>
        ELSE LET w == walk[k - 1]
             IN  IF w = << >> \/ ReadPointer(l, w[Len(w)]) = None THEN w
                 ELSE LET nx == l.stored[w[Len(w)]].next
                      IN  IF nx \in DOMAIN l.stored THEN Append(w, nx) ELSE w
  IN  walk[n]

------------------------------------------------------------------------------
(* The delayed inbox: the transactions that reach the rollup through the    *)
(* bridge or as deposits, kept in a linked list in the order of arrival,    *)
(* with the timestamp and the level at which they came in.                  *)
CONSTANTS
  DelayedTimeout,    \* delayed_inbox_timeout
  DelayedMinLevels,  \* delayed_inbox_min_levels
  MaxForced          \* MAX_DELAYED_INBOX_BLUEPRINT_LENGTH

ASSUME DelayedInboxAssumption ==
  DelayedTimeout \in Nat /\ DelayedMinLevels \in Nat /\ MaxForced \in Nat \ {0}

DelayedKinds == {"delayed", "deposit"}

(* save_transaction: only bridge transactions and deposits are stored.      *)
SaveTransaction(inbox, tx, timestamp, level) ==
  IF tx.kind \notin DelayedKinds THEN inbox
  ELSE Push(inbox, tx.hash, [kind |-> tx.kind, timestamp |-> timestamp, level |-> level])

TransactionFromDelayed(hash, item) == [kind |-> item.kind, hash |-> hash]

\* Mutant: the transaction stays in the inbox.
FindOnly(inbox, hash) ==
  LET item == Removed(inbox, hash)
  IN  [inbox |-> inbox,
       tx    |-> IF item = None THEN None ELSE TransactionFromDelayed(hash, item)]

(* find_and_remove_transaction: the inbox after it, and what it returns.    *)
FindAndRemove(inbox, hash) ==
  LET item == Removed(inbox, hash)
  IN  [inbox |-> RemoveId(inbox, hash),
       tx    |-> IF item = None THEN None ELSE TransactionFromDelayed(hash, item)]

(* first_if_timed_out: both subtractions are unsigned, the clock and the    *)
(* level never go back.                                                     *)
FirstHasTimedOut(inbox, now, level) ==
  LET first == FirstId(inbox)
      item  == Find(inbox, first)
  IN  /\ first # None /\ item # None
      /\ now - item.timestamp >= DelayedTimeout
      /\ level - item.level >= DelayedMinLevels

(* pop_first on an inbox whose front is stored.                             *)
PopFirst(inbox) == FindAndRemove(inbox, FirstId(inbox))

(* next_delayed_inbox_blueprint: pops until the inbox is empty or the limit *)
(* is reached, whether or not the transactions have timed out.  A front     *)
(* that is gone fails the call, and what it has popped is dropped.          *)
NextDelayedBlueprint(inbox) ==
  LET taken(acc, p) == [acc EXCEPT !.inbox = p.inbox, !.txs = Append(@, p.tx)]
      pop(acc) == IF IsEmpty(acc.inbox) \/ acc.failed THEN acc
                  ELSE IF FrontLost(acc.inbox) THEN [acc EXCEPT !.failed = TRUE, !.txs = << >>]
                  ELSE taken(acc, PopFirst(acc.inbox))
      popped[k \in 0..MaxForced] ==
        IF k = 0 THEN [inbox |-> inbox, txs |-> << >>, failed |-> FALSE] ELSE pop(popped[k - 1])
  IN  popped[MaxForced]

------------------------------------------------------------------------------
(* The blueprints.                                                          *)

SequencerChunk(bp, i) == [from |-> "sequencer", bp |-> bp, i |-> i]
InboxBlueprint(txs, ts) == [from |-> "inbox", txs |-> txs, ts |-> ts]

(* The hash of a block is what identifies it.                               *)
BlockHash(block) == <<block.number, block.txs, block.ts>>
GenesisParent == <<"genesis">>

ReadCurrentHash(blocks) == IF blocks = << >> THEN GenesisParent ELSE BlockHash(Last(blocks))

(* read_next_blueprint_number                                               *)
NextNumber(blocks) == IF blocks = << >> THEN 0 ELSE Last(blocks).number + 1

StoreChunk(bps, number, nb, i, chunk) ==
  LET old == IF number \in DOMAIN bps THEN bps[number].chunks ELSE << >>
  IN  (number :> [nb |-> nb, chunks |-> (i :> chunk) @@ old]) @@ bps

StoreSequencerBlueprint(bps, bp, i) == StoreChunk(bps, bp.number, bp.nb, i, SequencerChunk(bp, i))

(* store_inbox_blueprint_by_number and store_immediate_blueprint: the other *)
(* chunks stored for that number stay.                                      *)
StoreInboxBlueprint(bps, number, txs, ts) ==
  StoreChunk(bps, number, 1, 0, InboxBlueprint(txs, ts))

DropBlueprint(bps, number) == [n \in DOMAIN bps \ {number} |-> bps[n]]

Available(entry) == Cardinality(DOMAIN entry.chunks)

(* rlp::decode of the concatenated chunks, 0 .. nb - 1.                     *)
DecodeChunks(entry) ==
  LET bp == entry.chunks[0].bp
  IN  IF bp.nb = entry.nb /\ \A i \in 0..entry.nb - 1 : entry.chunks[i] = SequencerChunk(bp, i)
      THEN bp ELSE None

ValidParentHash(blocks, bp) == ReadCurrentHash(blocks) = bp.parent

(* fetch_delayed_txs: the hashes are removed from the delayed inbox one     *)
(* after the other, up to the first that is missing.                        *)
Unexpected(bp) == \E i \in 1..Len(bp.txs) : bp.txs[i].kind \in DelayedKinds
FetchDelayedTxs(inbox, bp) ==
  LET found(acc, r) ==
        IF r.tx = None THEN [acc EXCEPT !.missing = TRUE]
        ELSE [acc EXCEPT !.inbox = r.inbox, !.txs = Append(@, r.tx)]
      take(acc, hash) == IF acc.missing THEN acc ELSE found(acc, FindAndRemove(acc.inbox, hash))
      fetched(all) == [inbox |-> all.inbox, valid |-> ~all.missing /\ ~Unexpected(bp),
                       txs |-> all.txs \o bp.txs]
  IN  fetched(FoldLeft(take, [inbox |-> inbox, txs |-> << >>, missing |-> FALSE], bp.delayed))

(* read_next_blueprint: the status "none", "error" (a chunk cannot be       *)
(* read) or "some", the blueprint, and what it did to the store and to the  *)
(* delayed inbox.                                                           *)
BlueprintRead(status, bps, inbox, txs, ts) ==
  [status |-> status, bps |-> bps, inbox |-> inbox, txs |-> txs, ts |-> ts]
NoBlueprint(bps, inbox) == BlueprintRead("none", bps, inbox, << >>, 0)

(* parse_and_validate_blueprint, once its delayed transactions are fetched. *)
FetchedBlueprint(bps, number, bp, fetched) ==
  IF fetched.valid THEN BlueprintRead("some", bps, fetched.inbox, fetched.txs, bp.ts)
  ELSE NoBlueprint(DropBlueprint(bps, number), fetched.inbox)

ReadSequencerBlueprint(bps, inbox, blocks, number, bp) ==
  IF bp = None \/ ~ValidParentHash(blocks, bp) THEN NoBlueprint(DropBlueprint(bps, number), inbox)
  ELSE FetchedBlueprint(bps, number, bp, FetchDelayedTxs(inbox, bp))

(* A chunk made from the inbox, the first one met, is the blueprint.        *)
FirstInbox(entry) ==
  {entry.chunks[i] : i \in {i \in 0..entry.nb - 1 :
                              /\ 0..i \subseteq DOMAIN entry.chunks
                              /\ entry.chunks[i].from = "inbox"
                              /\ \A j \in 0..i - 1 : entry.chunks[j].from = "sequencer"}}
ReadInboxBlueprint(bps, inbox, chunk) == BlueprintRead("some", bps, inbox, chunk.txs, chunk.ts)

ReadEntry(bps, inbox, blocks, sequencerMode, number, entry) ==
  IF Available(entry) > entry.nb THEN NoBlueprint(DropBlueprint(bps, number), inbox)
  ELSE IF Available(entry) < entry.nb THEN NoBlueprint(bps, inbox)
  ELSE IF FirstInbox(entry) # {}
       THEN ReadInboxBlueprint(bps, inbox, CHOOSE chunk \in FirstInbox(entry) : TRUE)
  ELSE IF ~ (0..entry.nb - 1 \subseteq DOMAIN entry.chunks)
       THEN BlueprintRead("error", bps, inbox, << >>, 0)
  ELSE IF ~sequencerMode THEN NoBlueprint(bps, inbox)
  ELSE ReadSequencerBlueprint(bps, inbox, blocks, number, DecodeChunks(entry))

ReadNextBlueprint(bps, inbox, blocks, sequencerMode) ==
  IF NextNumber(blocks) \notin DOMAIN bps THEN NoBlueprint(bps, inbox)
  ELSE ReadEntry(bps, inbox, blocks, sequencerMode, NextNumber(blocks), bps[NextNumber(blocks)])
===============================================================================
