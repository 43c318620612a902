------------------------------ MODULE TxLedger -------------------------------
(***************************************************************************)
(* The accounts of the transactions kernel (kernel_tx_demo storage.rs) and *)
(* the operations executed on them (inbox/external/v1/verifiable.rs).      *)
(*                                                                         *)
(* A ledger is a record of what the durable storage holds:                 *)
(*   acc      address -> [bal, counter, pk, id], bal a function from the   *)
(*            ticket ids that have a value to amounts                      *)
(*   tickets  the id of each ticket that was ever met                      *)
(*   nextTicket, nextAccount   the next ids                                *)
(* An operation is [signer, key, sig, counter, kind, dest, ticket, amount] *)
(* where `key` says whether the signer is given by its public key and      *)
(* `sig` whether the signature verifies; `ticket` is the ticket of a       *)
(* Withdraw or Transfer and the id in a CTransfer.                         *)
(***************************************************************************)
EXTENDS Integers, Sequences, FiniteSets, FiniteSetsExt

CONSTANTS TxAddresses,   \* Layer-2 addresses
          TxTickets,     \* tickets, by what their hash tells apart
          TxAmountMax    \* u64::MAX

ASSUME TxLedgerAssumption == TxAmountMax \in Nat \ {0}

OperationContent == {"Withdraw", "Transfer", "CTransfer"}

Operation == [signer : TxAddresses, key : BOOLEAN, sig : BOOLEAN, counter : Nat,
              kind : OperationContent, dest : Nat, ticket : Nat, amount : 0 .. TxAmountMax]

TxNoId == -1
TxEmptyLedger ==
  [acc |-> [a \in TxAddresses |->
              [bal |-> [t \in {} |-> 0], counter |-> 0, pk |-> FALSE, id |-> TxNoId]],
   tickets |-> [t \in {} |-> 0], nextTicket |-> 0, nextAccount |-> 0]

\* What every operation below returns: the error or "Ok", and the ledger
\* with the changes made up to there.
TxDone(ledger) == [res |-> "Ok", ledger |-> ledger]
TxFail(ledger, error) == [res |-> error, ledger |-> ledger]

\* The `?` of the code.
TxThen(r, Next(_)) == IF r.res = "Ok" THEN Next(r.ledger) ELSE r

TxPut(f, k, v) == [x \in DOMAIN f \cup {k} |-> IF x = k THEN v ELSE f[x]]
TxCut(f, k) == [x \in DOMAIN f \ {k} |-> f[x]]

---------------------------------------------------------------------------
(* storage.rs                                                              *)

\* Storage::get finds an account that has any value below its path.
account_exists(l, a) ==
  LET c == l.acc[a] IN DOMAIN c.bal # {} \/ c.counter > 0 \/ c.pk \/ c.id # TxNoId

ticket_amount(l, a, t) == IF t \in DOMAIN l.acc[a].bal THEN l.acc[a].bal[t] ELSE 0

\* Both ids are read, then the next one is stored.
get_or_set_id(l, a) ==
  IF l.acc[a].id # TxNoId THEN l
  ELSE [l EXCEPT !.acc[a].id = l.nextAccount, !.nextAccount = @ + 1]

get_or_set_ticket_id(l, t) ==
  IF t \in DOMAIN l.tickets THEN l
  ELSE [l EXCEPT !.tickets = TxPut(@, t, l.nextTicket), !.nextTicket = @ + 1]

\* checked_sub; an emptied balance is deleted, a missing one is zero.
remove_ticket(l, a, t, n) ==
  LET held == l.acc[a].bal
  IN  CASE t \notin DOMAIN held /\ n # 0 -> TxFail(l, "NotEnoughFunds")
        [] t \notin DOMAIN held /\ n = 0 -> TxDone(l)
        [] t \in DOMAIN held /\ held[t] < n -> TxFail(l, "NotEnoughFunds")
        [] t \in DOMAIN held /\ held[t] = n -> TxDone([l EXCEPT !.acc[a].bal = TxCut(@, t)])
        [] OTHER -> TxDone([l EXCEPT !.acc[a].bal[t] = @ - n])

\* checked_add; a missing balance is written as it is, zero included.
add_ticket(l, a, t, n) ==
  IF t \in DOMAIN l.acc[a].bal
  THEN IF l.acc[a].bal[t] + n > TxAmountMax THEN TxFail(l, "AmountOverflow")
       ELSE TxDone([l EXCEPT !.acc[a].bal[t] = @ + n])
  ELSE TxDone([l EXCEPT !.acc[a].bal = TxPut(@, t, n)])

\* A missing counter reads as zero and is written as one.
check_and_inc_counter(l, a, c) ==
  IF l.acc[a].counter # c THEN TxFail(l, "CounterMismatch")
  ELSE TxDone([l EXCEPT !.acc[a].counter = @ + 1])

link_public_key(l, a) == [l EXCEPT !.acc[a].pk = TRUE]

deposit_ticket_to_storage(l, a, t, n) ==
  LET named == get_or_set_ticket_id(l, t)
  IN  TxThen(add_ticket(named, a, named.tickets[t], n),
             LAMBDA given : TxDone(get_or_set_id(given, a)))

---------------------------------------------------------------------------
(* verifiable.rs                                                           *)

\* The key of a signer that shows it is linked before the signature is
\* verified.
verify_sig(l, op) ==
  LET known == IF op.key THEN link_public_key(l, op.signer) ELSE l
  IN  CASE ~ known.acc[op.signer].pk -> TxFail(known, "NoPublicKeyForAddress")
        [] known.acc[op.signer].pk /\ ~ op.sig -> TxFail(known, "BadSignature")
        [] OTHER -> TxDone(known)

\* The ids are given for the debug output, on the way: the destination's
\* only when the source's is 0.
NameParties(l, signer, dest) ==
  IF l.acc[signer].id = 0 THEN get_or_set_id(l, dest) ELSE l

handle_transfer(l, signer, dest, t, n) ==
  TxThen(remove_ticket(l, signer, t, n),
         LAMBDA taken : TxThen(add_ticket(taken, dest, t, n),
         LAMBDA given : TxDone(NameParties(get_or_set_id(given, signer), signer, dest))))

Withdrawing(l, op) == remove_ticket(l, op.signer, l.tickets[op.ticket], op.amount)

Transferring(l, op) == handle_transfer(l, op.signer, op.dest, l.tickets[op.ticket], op.amount)

Contents(l, op) ==
  CASE op.kind = "Withdraw" /\ op.amount = 0 -> TxFail(l, "ZeroTicket")
    [] op.kind = "Withdraw" /\ op.amount # 0 -> Withdrawing(get_or_set_ticket_id(l, op.ticket), op)
    [] op.kind # "Withdraw" /\ op.dest = op.signer -> TxFail(l, "InvalidSelfTransfer")
    [] op.kind = "Transfer" /\ op.dest # op.signer ->
         Transferring(get_or_set_ticket_id(l, op.ticket), op)
    [] OTHER -> handle_transfer(l, op.signer, op.dest, op.ticket, op.amount)

\* execute: what a failing operation wrote before it failed stays.
execute(l, op) ==
  IF ~ account_exists(l, op.signer) THEN TxFail(l, "NoAccountOfAddress")
  ELSE TxThen(verify_sig(l, op),
              LAMBDA signed : TxThen(check_and_inc_counter(signed, op.signer, op.counter),
              LAMBDA counted : Contents(counted, op)))

\* The withdrawals an executed operation leaves for the outbox.
Withdrawals(op, res) ==
  IF res = "Ok" /\ op.kind = "Withdraw" THEN <<[ticket |-> op.ticket, amount |-> op.amount]>>
  ELSE <<>>

\* The amount of ticket t that the accounts hold together.
TxHeld(l, t) ==
  IF t \in DOMAIN l.tickets
  THEN MapThenSumSet(LAMBDA a : ticket_amount(l, a, l.tickets[t]), TxAddresses) ELSE 0
=============================================================================
