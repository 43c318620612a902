--------------------------------- MODULE EvmFees ---------------------------------
(****************************************************************************)
(* The fees of a transaction (fees.rs).  The execution gas is paid at the   *)
(* gas price and burned; the data availability fee compensates the          *)
(* sequencer and is reported to the user as additional gas, rounded up.     *)
(****************************************************************************)
EXTENDS Integers

\* l / r rounded up; r is not zero.
cdiv(l, r) == IF l % r = 0 THEN l \div r ELSE (l \div r) + 1

\* What encoding a transaction is assumed to take, without its data.
ASSUMED_TX_ENCODED_SIZE == 150

\* keys: the number of storage keys of each item of the access list
da_fee(perByte, size, items, keys) ==
  perByte * (size + ASSUMED_TX_ENCODED_SIZE + 20 * items + 32 * keys)

gas_for_fees(da, price) == cdiv(da, price)

\* What the execution may use of the gas limit of the transaction.  A
\* delayed transaction pays no data availability fee.
tx_execution_gas_limit(limit, da, price, delayed) ==
  IF delayed THEN limit ELSE limit - gas_for_fees(da, price)

\* Mutant: the remainder of the rounding is not burned.
of_gas_and_da_fee_no_remainder(used, price, da) ==
  LET exec == used * price
      gas == cdiv(da + exec, price)
  IN [price |-> price, used |-> gas, burn |-> exec, charge |-> gas * price - exec,
      compensate |-> da]

of_gas_and_da_fee(used, price, da) ==
  LET exec == used * price
      gas == cdiv(da + exec, price)
      total == price * gas
  IN [price |-> price,
      used |-> gas,
      burn |-> exec + total - (da + exec),
      charge |-> total - exec,
      compensate |-> da]

for_deposit(used) == [price |-> 0, used |-> used, burn |-> 0, charge |-> 0, compensate |-> 0]

fee_updates(kind, used, price, da) ==
  IF kind = "deposit" THEN for_deposit(used)
  ELSE of_gas_and_da_fee(used, price, IF kind = "delayed" THEN 0 ELSE da)

\* What a simulation reports: the gas of the execution and that of the data
\* availability fee, at the lowest price the rollup may reach.
simulation_add_gas_for_fees(used, da, minimum, price) == used + gas_for_fees(da, minimum)
==================================================================================
