------------------------------ MODULE EvmExecution ------------------------------
(****************************************************************************)
(* The execution of the transactions of a block: validity and fees          *)
(* (kernel/src/apply.rs, fees.rs), run_transaction (evm_execution/src/      *)
(* lib.rs) and the EVM handler with its stack of transaction layers         *)
(* (handler.rs, account_storage.rs, transaction_layer_data.rs).             *)
(*                                                                          *)
(* vm is the handler.  vm.layers[1] is the durable accounts; every layer    *)
(* above is the copy begin_transaction made for a call or a create.         *)
(* vm.txs[i] is the transaction data of vm.layers[i + 1].  vm.exit is how   *)
(* the code at the top ended, "none" while it runs.  An opcode is any of    *)
(* those that reach the handler, in any order: the interpreter and its gas  *)
(* table are external.  Warm and cold accesses are off, as in the kernel,   *)
(* and so is CALLCODE.                                                      *)
(****************************************************************************)
EXTENDS Precompiles, EvmFees, SequencesExt, FiniteSets

---------------------------------------------------------------------------
(****************************************************************************)
(* The tick model of the EVM opcodes (tick_model_opcodes.rs): the ticks an  *)
(* opcode is charged, from the gas it used.  One table per row of opcodes.  *)
(****************************************************************************)
DEFAULT_TICKS_PER_GAS == 10000
ARITHMETIC_TICKS_PER_GAS == 3600
PUSH_DEFAULT == 2680
DUP_DEFAULT == 1500
SWAP_DEFAULT == 1427

Times(n, x) == [i \in 1 .. n |-> x]

\* 0x01 .. 0x0b
Arithmetic ==
  LET A == ARITHMETIC_TICKS_PER_GAS IN <<3896, 2958, 3959, 3411, A, 3915, A, A, A, 4635, A>>

\* 0x10 .. 0x1d
Comparison == <<3594, 3596, 7621, 7591, 6484, 5605, 3816, 3816, 3816, 2725, 24812, 11862, 14561,
                13000>>

\* 0x30 .. 0x3f
Environment ==
  <<2380, 1307, 2374, 2380, 2715, 32436, 7645, 18419, 2495, 2363, 2703, 1184, 739, 13071, 46790,
    DEFAULT_TICKS_PER_GAS>>

\* 0x40 .. 0x48
BlockInformation ==
  LET D == DEFAULT_TICKS_PER_GAS IN <<D, 2383, 2721, 2721, D, 2833, 12956, 26528, 12956>>

\* 0x50 .. 0x5b; 0x55 (SSTORE) is the constant cost of the opcode
Memory ==
  <<1719, 16023, 22352, 22352, 2280, 620000, 954, 1379, DEFAULT_TICKS_PER_GAS, 2395, 2969, 3354>>

\* 0x5f .. 0x7f
Pushes ==
  LET P == PUSH_DEFAULT
  IN <<P, 1602, 1694, 2679, 1574, P, P, P, 2680>> \o Times(11, P) \o <<2917>>
     \o Times(7, P) \o <<2007, P, P, P, 1975>>

\* 0x80 .. 0x8f
Dups == <<1560, 1724, 1532, 1762, 3660, 1764, 2074>> \o Times(5, 1446) \o <<1444>>
        \o Times(3, DUP_DEFAULT)

\* 0x90 .. 0x9f
Swaps == Times(8, 1427) \o <<1425>> \o Times(7, SWAP_DEFAULT)

\* 0xa0 .. 0xa4
Logs == <<200, 114, 52, 51, 50>>

\* 0xf0 .. 0xf5
Calls == <<34, 687, 700, 49659, 3951, 123>>

\* The opcodes charged the same whatever their gas: STOP, SSTORE, RETURN, REVERT.
ConstantTicks == {0, \h55, \hF3, \hFD}

\* The tables with their first opcode.
Tables == {<<1, Arithmetic>>, <<\h10, Comparison>>, <<\h30, Environment>>,
           <<\h40, BlockInformation>>, <<\h50, Memory>>, <<\h5F, Pushes>>, <<\h80, Dups>>,
           <<\h90, Swaps>>, <<\hA0, Logs>>, <<\hF0, Calls>>,
           <<0, <<4710>> >>, <<\h20, <<4607>> >>, <<\hFA, <<6524>> >>, <<\hFD, <<55427>> >>,
           <<\hFE, <<DEFAULT_TICKS_PER_GAS>> >>, <<\hFF, <<101>> >>}

TableOf(op) == {t \in Tables : op >= t[1] /\ op < t[1] + Len(t[2])}

Coefficient(op) ==
  IF TableOf(op) = {} THEN DEFAULT_TICKS_PER_GAS
  ELSE LET t == CHOOSE u \in TableOf(op) : TRUE IN t[2][op - t[1] + 1]

ticks(op, gas) == IF op \in ConstantTicks THEN Coefficient(op) ELSE Coefficient(op) * gas

---------------------------------------------------------------------------
CONSTANTS
  None,
  Addresses,            \* the accounts of the model
  Caller,               \* who signs the transactions
  Pool,                 \* the sequencer pool address, or None
  PrecompileAddresses,  \* those of Addresses that are precompiled contracts
  Inputs,               \* inputs of precompiled contracts
  InitialWorld,         \* address |-> account
  Transactions,         \* n |-> what the n-th transaction of a behaviour may be
  Depositors,           \* who may receive a deposit
  Targets(_),           \* address |-> addresses its code may call
  NewAddress(_, _),     \* address and nonce |-> where a contract is created
  OpGas(_),             \* opcode |-> its gas, external
  Stipend,              \* call_stipend
  StackLimit,           \* stack_limit
  AllButOne,            \* 64: a call may use all but 1/64 of the gas left
  TicksAllocated,       \* ticks left for the transaction
  Price,                \* base_fee_per_gas
  DaFee,                \* data availability fee of a transaction
  DepositAmount,
  MaxCalls              \* bound: opcodes of a transaction

ASSUME EvmExecutionAssumption ==
  /\ {Stipend, StackLimit, TicksAllocated, DaFee, DepositAmount, MaxCalls} \subseteq Nat
  /\ AllButOne \in Nat \ {0} /\ Price \in Nat \ {0}
  /\ Stipend <= OpGas("value")

VARIABLES
  step,    \* "idle", "run": the transaction runs, "settle": it ended
  tx,      \* the transaction
  vm,      \* the handler
  ops,     \* opcodes the transaction has run
  result,  \* of the last transaction
  start,   \* history: the accounts before the transaction
  ledger,  \* supply, burned fees, withdrawals and whether ether was destroyed
  block,   \* accounts and ledger at the start of the block
  done     \* transactions so far

evmVars == <<step, tx, vm, ops, result, start, ledger, block, done>>

EmptyAccount == [bal |-> 0, nonce |-> 0, code |-> FALSE, slot |-> 0]

NewHandler(world) == [layers |-> <<world>>, txs |-> << >>, ticks |-> 0, exit |-> "none"]

NoResult == [kind |-> "None", exit |-> "none", gas |-> 0, logs |-> 0, withdrawals |-> << >>]

EvmInit ==
  /\ step = "idle" /\ tx = None /\ vm = NewHandler(InitialWorld) /\ ops = 0
  /\ result = NoResult /\ start = InitialWorld
  /\ ledger = [supply |-> MapThenSumSet(LAMBDA a : InitialWorld[a].bal, Addresses),
               burned |-> 0, sent |-> << >>, destroyed |-> FALSE]
  /\ block = [world |-> InitialWorld, ledger |-> ledger]
  /\ done = 0

--------------------------------------------------------------------------------
(* Accounts (account_storage.rs), in a world: address |-> account.          *)

balance_remove(world, a, v) == [world EXCEPT ![a].bal = @ - v]
balance_add(world, a, v) == [world EXCEPT ![a].bal = @ + v]
increment_nonce(world, a) == [world EXCEPT ![a].nonce = @ + 1]
decrement_nonce(world, a) == [world EXCEPT ![a].nonce = IF @ = 0 THEN 0 ELSE @ - 1]
clear_storage(world, a) == [world EXCEPT ![a].slot = 0]
set_code(world, a) == [world EXCEPT ![a].code = TRUE]

has_enough_fund(world, a, v) == v = 0 \/ world[a].bal >= v

execute_transfer(world, from, to, v) ==
  IF v = 0 THEN world ELSE balance_add(balance_remove(world, from, v), to, v)

is_colliding(world, a) == world[a].code \/ world[a].nonce # 0

--------------------------------------------------------------------------------
(* The layers of the handler h (handler.rs).                                *)

Top(h) == Last(h.layers)
SetTop(h, world) == [h EXCEPT !.layers[Len(h.layers)] = world]
Data(h) == Last(h.txs)
WithData(h, data) == [h EXCEPT !.txs[Len(h.txs)] = data]
Exit(h, reason) == [h EXCEPT !.exit = reason]

gas_remaining(h) == Data(h).limit - Data(h).used
is_static(h) == h.txs # << >> /\ Data(h).static

\* A cost above the gas left uses it all; the caller turns it into an error.
record_cost(h, cost) ==
  WithData(h, [Data(h) EXCEPT !.used = IF @ + cost > Data(h).limit THEN Data(h).limit ELSE @ + cost])

record_stipend(h, gas) == WithData(h, [Data(h) EXCEPT !.used = @ - gas])

TransactionLayerData(frame, static, limit) ==
  [frame |-> frame, static |-> static, limit |-> limit, used |-> 0, logs |-> 0,
   withdrawals |-> << >>, deleted |-> {}]

begin_transaction(h) == [h EXCEPT !.layers = Append(@, Top(h))]
commit_transaction(h) == [h EXCEPT !.layers = Append(Front(Front(@)), Last(@))]
rollback_transaction(h) == [h EXCEPT !.layers = Front(@)]

\* begin_initial_transaction and begin_inter_transaction: a layer under a
\* static one is static.
begin_inter_transaction(h, frame, static, limit) ==
  begin_transaction(
    [h EXCEPT !.txs = Append(@, TransactionLayerData(frame, is_static(h) \/ static, limit))])

commit_inter_transaction(h) ==
  LET data == Data(h)
      below == commit_transaction([h EXCEPT !.txs = Front(@)])
      merged == WithData(below, [Data(below) EXCEPT !.logs = @ + data.logs,
                                                    !.withdrawals = @ \o data.withdrawals,
                                                    !.deleted = @ \cup data.deleted])
  IN record_stipend(merged, gas_remaining(h))

rollback_inter_transaction(h, refund) ==
  LET below == [h EXCEPT !.txs = Front(@)]
  IN rollback_transaction(IF refund THEN record_stipend(below, gas_remaining(h)) ELSE below)

stack_depth(h) == Len(h.layers) - 2

can_begin_inter_transaction(h, caller, v) ==
  has_enough_fund(Top(h), caller, v) /\ stack_depth(h) < StackLimit

nested_call_gas_limit(h, target) ==
  Least(target, gas_remaining(h) - gas_remaining(h) \div AllButOne)

deleted(h, a) == \E i \in DOMAIN h.txs : a \in h.txs[i].deleted

account_for_ticks(h, op, gas) ==
  LET h2 == [h EXCEPT !.ticks = @ + ticks(op, gas)]
  IN IF h2.ticks > TicksAllocated THEN Exit(h2, "OutOfTicks") ELSE h2

--------------------------------------------------------------------------------
(* Precompiled contracts, calls and creates.                                *)

Precompiled(h, a, in, transfer) ==
  LET view == [gas |-> gas_remaining(h), ticks |-> h.ticks, allocated |-> TicksAllocated]
  IN CASE a = "ecrecover" -> ecrecover_precompile(view, in)
       [] a = "sha256" -> sha256_precompile(view, in)
       [] a = "ripemd160" -> ripemd160_precompile(view, in)
       [] a = "identity" -> identity_precompile(view, in)
       [] a = "modexp" -> modexp_precompile(view, in)
       [] a = "ecadd" -> ecadd_precompile(view, in)
       [] a = "ecmul" -> ecmul_precompile(view, in)
       [] a = "ecpairing" -> ecpairing_precompile(view, in)
       [] a = "blake2f" -> blake2f_precompile(view, in)
       [] OTHER -> withdrawal_precompile(view, in, transfer, None)

RunPrecompile(h, a, in, transfer) ==
  LET o == Precompiled(h, a, in, transfer)
      paid == record_cost(h, o.gas)
      data == [Data(paid) EXCEPT
                 !.withdrawals = IF o.withdrawn = 0 THEN @ ELSE Append(@, o.withdrawn)]
  IN Exit([WithData(paid, data) EXCEPT !.ticks = @ + o.ticks], o.exit)

\* The transfer, then the precompiled contract or the code at the address.
execute_call(h, caller, to, transfer, in) ==
  LET v == IF transfer = None THEN 0 ELSE transfer
      moved == SetTop(h, execute_transfer(Top(h), caller, to, v))
  IN IF ~ has_enough_fund(Top(h), caller, v) THEN Exit(h, "Error")
     ELSE IF to \in PrecompileAddresses THEN RunPrecompile(moved, to, in, transfer)
     ELSE IF ~ Top(moved)[to].code THEN Exit(moved, "Succeed")
     ELSE moved

\* The transfer, the nonce of the new contract, its storage cleared, then
\* the initialisation code.
execute_create(h, caller, a, v) ==
  IF deleted(h, a) \/ is_colliding(Top(h), a) \/ ~ has_enough_fund(Top(h), caller, v)
  THEN Exit(h, "Error")
  ELSE SetTop(h, clear_storage(increment_nonce(execute_transfer(Top(h), caller, a, v), a), a))

\* How the initialisation code leaves a contract: its code is stored when
\* the gas left pays for it, and refused when it is too long or starts with 0xef.
end_create(h, refused) ==
  IF h.exit # "Succeed" \/ Data(h).frame.kind # "create" THEN h
  ELSE IF refused \/ OpGas("deposit") > gas_remaining(h) THEN Exit(h, "Error")
  ELSE SetTop(record_cost(h, OpGas("deposit")), set_code(Top(h), Data(h).frame.self))

--------------------------------------------------------------------------------
(* A transaction begins: is_valid_ethereum_transaction_common,              *)
(* pre_pay_transactions, call_contract and create_contract.                 *)

ExecutionGas(t) == tx_execution_gas_limit(t.gas, DaFee, Price, t.delayed)

Valid(t) ==
  LET account == vm.layers[1][Caller]
  IN /\ t.maxFee >= Price
     /\ account.nonce = t.nonce
     /\ account.bal >= t.gas * Price /\ account.bal >= t.gas * t.maxFee
     /\ ~ account.code
     /\ ExecutionGas(t) >= 0

Invalid(t) ==
  /\ step = "idle" /\ ~ Valid(t)
  /\ result' = [NoResult EXCEPT !.kind = "Invalid"] /\ tx' = t /\ start' = vm.layers[1]
  /\ done' = done + 1
  /\ UNCHANGED <<step, vm, ops, ledger, block>>

pre_pay_transactions(world, gas) == balance_remove(world, Caller, gas * Price)

Begin(t, in) ==
  LET gas == ExecutionGas(t)
      a == IF t.to = None THEN NewAddress(Caller, vm.layers[1][Caller].nonce) ELSE t.to
      base == OpGas(IF t.to = None THEN "baseCreate" ELSE "baseCall")
      frame == [kind |-> IF t.to = None THEN "create" ELSE "call", self |-> a, op |-> 0, before |-> 0]
      world == increment_nonce(pre_pay_transactions(vm.layers[1], gas), Caller)
      h == begin_inter_transaction(NewHandler(world), frame, FALSE, gas)
      paid == record_cost(h, base)
  IN /\ step = "idle" /\ Valid(t)
     /\ vm' = IF base > gas THEN Exit(paid, "Error")
              ELSE IF t.to = None THEN execute_create(paid, Caller, a, t.value)
              ELSE execute_call(paid, Caller, a, t.value, in)
     /\ step' = "run" /\ tx' = t /\ ops' = 0 /\ start' = vm.layers[1] /\ result' = NoResult
     /\ done' = done + 1
     /\ UNCHANGED <<ledger, block>>

\* apply_deposit: nothing is charged.
Deposit(a) ==
  /\ step = "idle" /\ done < Len(Transactions)
  /\ vm' = NewHandler(balance_add(vm.layers[1], a, DepositAmount))
  /\ ledger' = [ledger EXCEPT !.supply = @ + DepositAmount]
  /\ result' = [NoResult EXCEPT !.kind = "Valid", !.exit = "Succeed"]
  /\ tx' = None /\ start' = vm'.layers[1] /\ done' = done + 1
  /\ UNCHANGED <<step, ops, block>>

--------------------------------------------------------------------------------
(* Opcodes (execute, pre_validate and the Handler callbacks).               *)

Self == Data(vm).frame.self

CodeRuns == step = "run" /\ vm.exit = "none"

\* pre_validate: the gas of the opcode, and no write in a static context.
pre_validate(h, cost, writes) ==
  IF (writes /\ is_static(h)) \/ cost > gas_remaining(h) THEN Exit(record_cost(h, cost), "Error")
  ELSE record_cost(h, cost)

\* One turn of the loop of execute: h is the handler after the callback.
Turn(op, h) == account_for_ticks(h, op, Data(h).used - Data(vm).used)

Opcode(op, cost, writes, Callback(_)) ==
  LET h == pre_validate(vm, cost, writes)
  IN /\ CodeRuns
     /\ vm' = Turn(op, IF h.exit = "none" THEN Callback(h) ELSE h)
     /\ UNCHANGED <<step, tx, result, start, block, done>>

SetStorage(v) ==
  /\ CodeRuns /\ ops < MaxCalls /\ Top(vm)[Self].slot # v
  /\ Opcode(\h55, OpGas("sstore"), TRUE, LAMBDA h : SetTop(h, [Top(h) EXCEPT ![Self].slot = v]))
  /\ ops' = ops + 1 /\ UNCHANGED ledger

Log ==
  /\ ops < MaxCalls /\ ops' = ops + 1
  /\ Opcode(\hA0, OpGas("log"), TRUE, LAMBDA h : WithData(h, [Data(h) EXCEPT !.logs = @ + 1]))
  /\ UNCHANGED ledger

\* mark_delete: the first deletion in a layer moves the balance, or resets
\* it when the contract is its own heir; SELFDESTRUCT then ends the code.
mark_delete(h, a, target) ==
  LET new == a \notin Data(h).deleted
      marked == WithData(h, [Data(h) EXCEPT !.deleted = @ \cup {a}])
      world == IF a = target THEN [Top(h) EXCEPT ![a].bal = 0]
               ELSE execute_transfer(Top(h), a, target, Top(h)[a].bal)
  IN Exit(IF new THEN SetTop(marked, world) ELSE marked, "Suicided")

SelfDestruct(target) ==
  /\ Opcode(\hFF, OpGas("selfdestruct"), TRUE, LAMBDA h : mark_delete(h, Self, target))
  /\ ledger' = [ledger EXCEPT !.destroyed = TRUE] /\ UNCHANGED ops

Ends(op, reason) ==
  Opcode(op, 0, FALSE, LAMBDA h : Exit(h, reason)) /\ UNCHANGED <<ops, ledger>>

Stop == Ends(0, "Succeed")
Revert == Ends(\hFD, "Revert")
OpcodeFails == Ends(\hFE, "Error")

Nested(op, kind, self) ==
  [kind |-> kind, self |-> self, op |-> op, before |-> Data(vm).used]

\* call: refused without the funds or the depth, with the stipend given
\* back; otherwise the gas is taken and a layer begins.  A CALL sends a
\* value, a STATICCALL and a DELEGATECALL none.
call(h, kind, to, v, target, in) ==
  LET op == CASE kind = "call" -> \hF1 [] kind = "static" -> \hFA [] OTHER -> \hF4
      self == IF kind = "delegate" THEN Self ELSE to
      limit == nested_call_gas_limit(h, target)
      stipend == IF v > 0 THEN Stipend ELSE 0
      begun == begin_inter_transaction(record_cost(h, limit), Nested(op, kind, self),
                                       kind = "static", limit + stipend)
  IN IF ~ can_begin_inter_transaction(h, Self, v) THEN Turn(op, record_stipend(h, stipend))
     ELSE execute_call(begun, Self, to, IF kind = "call" THEN v ELSE None, in)

NestedCall(kind, to, v, target, in) ==
  LET cost == OpGas("call") + IF v > 0 THEN OpGas("value") ELSE 0
      h == pre_validate(vm, cost, v > 0)
  IN /\ CodeRuns /\ ops < MaxCalls
     /\ kind # "call" => v = 0
     /\ vm' = IF h.exit = "none" THEN call(h, kind, to, v, target, in) ELSE Turn(\hF1, h)
     /\ ops' = ops + 1
     /\ UNCHANGED <<step, tx, result, start, ledger, block, done>>

\* create: the nonce of the creator is incremented outside the layer.  An
\* initialisation code above the limit is fatal for the creator.
create(h, v, oversized) ==
  LET a == NewAddress(Self, Top(h)[Self].nonce)
      counted == SetTop(h, increment_nonce(Top(h), Self))
      limit == nested_call_gas_limit(h, gas_remaining(h))
      begun == begin_inter_transaction(record_cost(counted, limit), Nested(\hF0, "create", a),
                                       FALSE, limit)
  IN IF ~ can_begin_inter_transaction(h, Self, v) THEN Turn(\hF0, h)
     ELSE IF oversized THEN Turn(\hF0, Exit(h, "Limit"))
     ELSE execute_create(begun, Self, a, v)

NestedCreate(v, oversized) ==
  LET h == pre_validate(vm, OpGas("create"), TRUE)
  IN /\ CodeRuns /\ ops < MaxCalls
     /\ vm' = IF h.exit = "none" THEN create(h, v, oversized) ELSE Turn(\hF0, h)
     /\ ops' = ops + 1
     /\ UNCHANGED <<step, tx, result, start, ledger, block, done>>

--------------------------------------------------------------------------------
(* The code of a layer ended.                                               *)

\* The caller sees a success, a revert or an error; an Err, which a tick
\* check is, becomes fatal for it.
Seen(exit) == IF exit \in {"OutOfTicks", "Fatal"} THEN "Fatal" ELSE "none"

end_inter_transaction(h) ==
  LET frame == Data(h).frame
      below == IF h.exit \in {"Succeed", "Suicided"} THEN commit_inter_transaction(h)
               ELSE rollback_inter_transaction(h, h.exit = "Revert")
  IN account_for_ticks(Exit(below, Seen(h.exit)), frame.op, Data(below).used - frame.before)

EndInter(refused) ==
  /\ step = "run" /\ vm.exit # "none" /\ Len(vm.txs) > 1
  /\ vm' = end_inter_transaction(end_create(vm, refused))
  /\ UNCHANGED <<step, tx, ops, result, start, ledger, block, done>>

delete_contracts(world, addresses) ==
  [a \in Addresses |-> IF a \in addresses THEN EmptyAccount ELSE world[a]]

commit_initial_transaction(h) ==
  commit_transaction(SetTop(h, delete_contracts(Top(h), Data(h).deleted)))

end_initial_transaction(h) ==
  IF h.exit \in {"Succeed", "Suicided"} THEN commit_initial_transaction(h)
  ELSE rollback_transaction(h)

\* Fatal and precompile failures are the Err of run_transaction.
EndInitial(refused) ==
  LET h == end_create(vm, refused)
      ok == h.exit \in {"Succeed", "Suicided"}
  IN /\ step = "run" /\ vm.exit # "none" /\ Len(vm.txs) = 1
     /\ vm' = NewHandler(end_initial_transaction(h).layers[1]) /\ ops' = 0
     /\ result' = [kind |-> IF h.exit \in {"Fatal", "Failed"} THEN "Err" ELSE "Ran",
                   exit |-> h.exit, gas |-> Data(h).used,
                   logs |-> IF ok THEN Data(h).logs ELSE 0,
                   withdrawals |-> IF ok THEN Data(h).withdrawals ELSE << >>]
     /\ step' = "settle"
     /\ UNCHANGED <<tx, start, ledger, block, done>>

--------------------------------------------------------------------------------
(* The refund (run_transaction) and the fees (handle_transaction_result).   *)

do_refund(exit) == exit \in {"Succeed", "Suicided", "Revert", "OutOfTicks"}

\* A retriable transaction gets its nonce and all its gas back.
Refunded(world, retried) ==
  LET gas == ExecutionGas(tx)
  IN IF retried THEN balance_add(decrement_nonce(world, Caller), Caller, gas * Price)
     ELSE IF do_refund(result.exit) THEN balance_add(world, Caller, (gas - result.gas) * Price)
     ELSE world

FeeUpdates == fee_updates(IF tx.delayed THEN "delayed" ELSE "ethereum", result.gas, Price, DaFee)

\* FeeUpdates::apply
Charged(world) ==
  LET paid == balance_remove(world, Caller, FeeUpdates.charge)
  IN IF Pool = None THEN paid ELSE balance_add(paid, Pool, FeeUpdates.compensate)

Burned == FeeUpdates.burn + IF Pool = None THEN FeeUpdates.compensate ELSE 0

RevertBlock ==
  /\ vm' = NewHandler(block.world) /\ ledger' = block.ledger
  /\ result' = [result EXCEPT !.kind = "Err"]

Settle(retriable) ==
  LET retried == result.exit = "OutOfTicks" /\ retriable
      world == Refunded(vm.layers[1], retried)
  IN /\ step = "settle" /\ step' = "idle"
     /\ \/ /\ result.kind = "Err" /\ RevertBlock
        \/ /\ result.kind = "Ran" /\ retried
           /\ vm' = NewHandler(world) /\ result' = [result EXCEPT !.kind = "Retriable"]
           /\ UNCHANGED ledger
        \/ /\ result.kind = "Ran" /\ ~ retried /\ world[Caller].bal < FeeUpdates.charge
           /\ RevertBlock
        \/ /\ result.kind = "Ran" /\ ~ retried /\ world[Caller].bal >= FeeUpdates.charge
           /\ vm' = NewHandler(Charged(world))
           /\ ledger' = [ledger EXCEPT !.burned = @ + Burned, !.sent = @ \o result.withdrawals,
                                       !.destroyed = @ \/ ~ do_refund(result.exit)]
           /\ result' = [result EXCEPT !.kind = "Valid", !.gas = FeeUpdates.used]
     /\ UNCHANGED <<tx, ops, start, block, done>>

EndBlock ==
  /\ step = "idle"
  /\ block' = [world |-> vm.layers[1], ledger |-> ledger] /\ block' # block
  /\ UNCHANGED <<step, tx, vm, ops, result, start, ledger, done>>

\* Every transaction of the behaviour was applied.
Finished == step = "idle" /\ done = Len(Transactions) /\ UNCHANGED evmVars

EvmNext ==
  \/ done < Len(Transactions) /\ \E t \in Transactions[done + 1] :
       Invalid(t) \/ \E in \in Inputs : Begin(t, in)
  \/ \E a \in Depositors : Deposit(a)
  \/ \E v \in 0 .. 1 : SetStorage(v)
  \/ Log \/ Stop \/ Revert \/ OpcodeFails
  \/ CodeRuns /\ \E target \in Targets(Self) : SelfDestruct(target)
  \/ CodeRuns /\ \E kind \in {"call", "static", "delegate"}, to \in Targets(Self), v \in 0 .. 1,
                   in \in Inputs : NestedCall(kind, to, v, gas_remaining(vm), in)
  \/ \E v \in 0 .. 1, oversized \in BOOLEAN : NestedCreate(v, oversized)
  \/ \E refused \in BOOLEAN : EndInter(refused) \/ EndInitial(refused)
  \/ \E retriable \in BOOLEAN : Settle(retriable)
  \/ EndBlock \/ Finished

EvmSpec == EvmInit /\ [][EvmNext]_evmVars

--------------------------------------------------------------------------------
(* Properties                                                               *)

Accounts == [bal : Nat, nonce : Nat, code : BOOLEAN, slot : 0 .. 1]

\* Type invariant.
EvmTypeOK ==
  /\ step \in {"idle", "run", "settle"} /\ ops \in 0 .. MaxCalls /\ done \in 0 .. Len(Transactions)
  /\ vm.layers # << >> /\ \A i \in DOMAIN vm.layers : vm.layers[i] \in [Addresses -> Accounts]
  /\ vm.exit \in {"none", "Succeed", "Suicided", "Revert", "Error", "Fatal", "Limit", "Failed",
                  "OutOfTicks"}
  /\ vm.ticks \in Nat
  /\ result.kind \in {"None", "Invalid", "Ran", "Valid", "Retriable", "Err"}

\* The storage has one layer per transaction data, whatever way the code of
\* a layer ends: the InconsistentTransactionData errors of handler.rs are
\* not reached, and between transactions only the durable accounts remain.
LayersAgree ==
  /\ Len(vm.layers) = Len(vm.txs) + 1
  /\ step # "run" => vm.txs = << >>

\* The gas of a layer was taken from the one below, but for the stipend: a
\* layer never uses more than its limit, and giving back what is left of it
\* never makes the gas used below negative (gas_used in execute, the
\* subtraction of run_transaction).
GasNested ==
  /\ \A i \in DOMAIN vm.txs : vm.txs[i].used \in 0 .. vm.txs[i].limit
  /\ \A i \in DOMAIN vm.txs : i > 1 =>
       vm.txs[i].limit + vm.txs[i].frame.before <= vm.txs[i - 1].used
  /\ result.kind = "Valid" /\ tx # None => result.gas <= tx.gas

HeldGas == IF step = "idle" THEN 0 ELSE ExecutionGas(tx) * Price

TotalEther ==
  MapThenSumSet(LAMBDA a : Top(vm)[a].bal, Addresses) + HeldGas + ledger.burned

\* No step creates ether, in any layer.  Ether disappears only with a deleted
\* contract or with the unused gas of a transaction that ended in an error,
\* which is neither refunded nor recorded as burned.
EtherConserved ==
  /\ TotalEther <= ledger.supply
  /\ ~ ledger.destroyed => TotalEther = ledger.supply

\* A transaction that ran and did not succeed leaves the accounts as they
\* were, but for the nonce and the gas of its caller.
FailureOnlyCosts ==
  step = "settle" /\ result.exit \notin {"Succeed", "Suicided"} =>
    /\ vm.layers[1] = increment_nonce(pre_pay_transactions(start, ExecutionGas(tx)), Caller)
    /\ result.withdrawals = << >> /\ result.logs = 0

\* A transaction to be run again after the reboot had no effect at all
\* (transaction_has_no_impact_if_retriable).
RetriableHasNoImpact ==
  step = "idle" /\ result.kind = "Retriable" => vm.layers[1] = start

\* Code under a static call changes no account and emits no log.
StaticReadsOnly ==
  \A i \in DOMAIN vm.txs : vm.txs[i].static =>
    /\ vm.layers[i + 1] = vm.layers[i]
    /\ vm.txs[i].logs = 0 /\ vm.txs[i].deleted = {}
================================================================================
