------------------------------- MODULE EvmGasPrice -------------------------------
(****************************************************************************)
(* How the price of gas follows the load (gas_price.rs).  Each block adds   *)
(* the ticks it took to a backlog that drains as time passes; beyond a      *)
(* tolerance the price grows with the exponential of the backlog.  That is  *)
(* computed in software floating point, so integers are converted there     *)
(* and back: the widths (64 bits, 53 of them in the mantissa) are scaled.   *)
(****************************************************************************)
EXTENDS EvmFees, Sequences, FiniteSets, SequencesExt

CONSTANTS GpWidth,        \* bits of an integer (64)
          GpMantissa,     \* bits of a mantissa, the implicit one included (53)
          GpBias,         \* of an exponent (1023)
          SPEED_LIMIT,    \* ticks the backlog loses in a second
          TOLERANCE,      \* the backlog that does not raise the price
          GpExp(_),       \* F64::exp of the excess times ALPHA: external, it never falls
          GpMinimums,     \* the minimum prices to try
          GpTicks,        \* the ticks a block may take
          GpTimes,        \* the timestamps of blocks
          GpMaxBlocks     \* bound

VARIABLES gpBacklog,      \* the backlog and its timestamp, -1 if absent
          gpMinimum,      \* the minimum price of the rollup
          gpNumber,       \* a number to convert
          gpBlocks        \* history: ticks and time of the blocks

gpVars == <<gpBacklog, gpMinimum, gpNumber, gpBlocks>>

GpMax == 2^GpWidth - 1

saturating_sub(a, b) == IF a < b THEN 0 ELSE a - b
saturating(a) == IF a > GpMax THEN GpMax ELSE a
--------------------------------------------------------------------------------
Shl(a, n) == (a * 2^n) % 2^GpWidth
Shr(a, n) == a \div 2^n

leading_zeros(i) == CHOOSE n \in 0 .. GpWidth - 1 : 2^(GpWidth - n - 1) <= i /\ i < 2^(GpWidth - n)

\* The bits shifted out decide the rounding; half of the last place goes to
\* the even neighbour, and the mantissa may overflow into the exponent.
u64_to_f64_bits(i) ==
  IF i = 0 THEN 0
  ELSE LET n == leading_zeros(i)
           a == Shr(Shl(i, n), GpWidth - GpMantissa)
           b == Shl(Shl(i, n), GpMantissa)
           tie == IF Shr(b, GpWidth - 1) = 1 /\ a % 2 = 0 THEN 1 ELSE 0
           m == a + Shr(b - tie, GpWidth - 1)
       IN (GpBias + GpWidth - 2 - n) * 2^(GpMantissa - 1) + m

f64_to_u64(f) ==
  LET unit == 2^(GpMantissa - 1)
      low == Shl(f, GpWidth - GpMantissa)
      m == IF low >= 2^(GpWidth - 1) THEN low ELSE low + 2^(GpWidth - 1)
  IN CASE f < GpBias * unit -> 0
       [] f >= GpBias * unit /\ f < (GpBias + GpWidth) * unit ->
            Shr(m, GpBias + GpWidth - 1 - Shr(f, GpMantissa - 1))
       [] f >= (GpBias + GpWidth) * unit /\ f <= (2 * GpBias + 1) * unit -> GpMax
       [] OTHER -> 0

\* min * exp(..), with the product rounded to a float (at most GpMax).
Product(min, excess) ==
  u64_to_f64_bits(saturating(f64_to_u64(u64_to_f64_bits(min)) * GpExp(excess)))
--------------------------------------------------------------------------------
price_from_tick_backlog(backlog, minimum) ==
  IF backlog <= TOLERANCE THEN minimum
  ELSE LET price == f64_to_u64(Product(minimum, backlog - TOLERANCE))
       IN IF price < minimum THEN minimum ELSE price

backlog_with_time_elapsed(backlog, extra, now, last) ==
  saturating(saturating_sub(backlog, saturating(saturating_sub(now, last) * SPEED_LIMIT)) + extra)

base_fee_per_gas(now) ==
  LET last == IF gpBacklog.time = -1 THEN now ELSE gpBacklog.time
  IN price_from_tick_backlog(backlog_with_time_elapsed(gpBacklog.ticks, 0, now, last), gpMinimum)

\* Mutant: an older timestamp turns the clock back.
update_tick_backlog_any_time(b, ticks, now) ==
  LET last == IF b.time = -1 THEN now ELSE b.time
  IN [time |-> now, ticks |-> backlog_with_time_elapsed(b.ticks, ticks, now, last)]

\* A block with an older timestamp does not turn the clock back.
update_tick_backlog(b, ticks, now) ==
  LET last == IF b.time = -1 THEN now ELSE b.time
  IN [time |-> IF b.time = -1 \/ now > last THEN now ELSE b.time,
      ticks |-> backlog_with_time_elapsed(b.ticks, ticks, now, last)]

GpInit ==
  /\ gpBacklog = [time |-> -1, ticks |-> 0]
  /\ gpMinimum \in GpMinimums
  /\ gpNumber \in 0 .. GpMax
  /\ gpBlocks = <<>>

register_block(ticks, now) ==
  /\ gpNumber = 0 /\ Len(gpBlocks) < GpMaxBlocks
  /\ gpBacklog' = update_tick_backlog(gpBacklog, ticks, now)
  /\ gpBlocks' = Append(gpBlocks, [ticks |-> ticks, time |-> now])
  /\ UNCHANGED <<gpMinimum, gpNumber>>

GpNext == \E ticks \in GpTicks, now \in GpTimes : register_block(ticks, now)

GpSpec == GpInit /\ [][GpNext]_gpVars
--------------------------------------------------------------------------------
\* The clock of the backlog after k blocks: the latest time seen.
Clock(k) == CHOOSE t \in {gpBlocks[j].time : j \in 1 .. k} :
              \A j \in 1 .. k : gpBlocks[j].time <= t

TicksFrom(k) == FoldLeft(LAMBDA n, b : n + b.ticks, 0, SubSeq(gpBlocks, k, Len(gpBlocks)))

\* The backlog is what the busiest stretch of blocks up to now left undone:
\* the ticks of its blocks less what the speed limit drained since it began,
\* whatever the order of the timestamps (update_tick_backlog,
\* backlog_with_time_elapsed).
GasBacklogIsWorkLeft ==
  gpBlocks # <<>> =>
    LET n == Len(gpBlocks)
        left == {TicksFrom(k) - SPEED_LIMIT * (Clock(n) - Clock(k)) : k \in 1 .. n}
    IN gpBacklog.ticks \in left /\ \A x \in left : x <= gpBacklog.ticks

\* The price is never below the minimum of the rollup, although the minimum
\* itself may be rounded down on its way through the floats; it is the
\* minimum again once the backlog has drained, and it does not rise while no
\* block is registered (base_fee_per_gas, price_from_tick_backlog).
GasPriceSound ==
  \A now \in GpTimes :
    /\ base_fee_per_gas(now) >= gpMinimum
    /\ gpBacklog.ticks <= SPEED_LIMIT * (now - gpBacklog.time) + TOLERANCE =>
         base_fee_per_gas(now) = gpMinimum
    /\ \A later \in GpTimes : later >= now => base_fee_per_gas(later) <= base_fee_per_gas(now)

\* What a number of p significant bits can be near to i.
Representable(x) == \E k \in 0 .. GpWidth : x % 2^k = 0 /\ x \div 2^k < 2^GpMantissa
Odd(x) == \E k \in 0 .. GpWidth :
            x % 2^k = 0 /\ x \div 2^k \in 2^(GpMantissa - 1) .. 2^GpMantissa - 1 /\ (x \div 2^k) % 2 = 1
Distance(x, y) == IF x < y THEN y - x ELSE x - y

\* An integer goes to the nearest float, to the one with an even mantissa
\* when it is half way between two, and comes back as the integer that float
\* stands for, or as the largest one (u64_to_f64_bits, f64_to_u64).
GasFloatNearest ==
  LET i == gpNumber
      near == {x \in i - 2^(GpWidth - GpMantissa) .. i + 2^(GpWidth - GpMantissa) :
                 x >= 0 /\ Representable(x)}
      least == Min({Distance(i, x) : x \in near})
      best == {x \in near : Distance(i, x) = least}
      even == {x \in best : Cardinality(best) = 1 \/ ~Odd(x)}
  IN \E x \in even : f64_to_u64(u64_to_f64_bits(i)) = saturating(x)

---------------------------------------------------------------------------
(****************************************************************************)
(* What a node asks of the kernel before it sends a transaction: whether it *)
(* is valid and how much gas it takes (simulation.rs), against what the     *)
(* kernel does with the transaction in a block (apply.rs).  evCase is one   *)
(* transaction with the account of its sender and the fees of the block.    *)
(****************************************************************************)
CONSTANTS EvNonces, EvFees, EvLimits, EvDaFees, EvPrices, EvBalances, EvGas,
          EvMinimum               \* minimum_base_fee_per_gas

VARIABLE evCase

\* chain: the chain id of the transaction, 0 if it has none; the rollup's is 1.
\* outcome: how the execution ends when it is started.
EvCases ==
  [signed : BOOLEAN, chain : 0 .. 2, nonce : EvNonces, maxFee : EvFees, limit : EvLimits,
   da : EvDaFees, price : EvPrices, account : [nonce : {1}, balance : EvBalances, code : BOOLEAN],
   used : EvGas, outcome : {"Succeed", "Revert", "OutOfTicks", "Error"}]

EvInit == evCase \in EvCases
--------------------------------------------------------------------------------
\* run_transaction: Ok(None) when the sender cannot pay for the gas.
EvRun(c, gas, pays) ==
  IF pays /\ c.account.balance < gas * c.price THEN "None" ELSE c.outcome

\* What the caller of an evaluation is told.
CallResult(outcome) ==
  CASE outcome = "Succeed" -> [ok |-> TRUE, value |-> TRUE]
    [] outcome = "Revert" -> [ok |-> TRUE, value |-> FALSE]
    [] OTHER -> [ok |-> FALSE, value |-> FALSE]

\* The gas the evaluation reports, when there is an outcome.
Evaluation(c) ==
  [result |-> CallResult(EvRun(c, 0, FALSE)),
   gas |-> simulation_add_gas_for_fees(c.used, c.da, EvMinimum, c.price)]

validate(c) ==
  LET gas == tx_execution_gas_limit(c.limit, c.da, c.price, FALSE)
      outcome == EvRun(c, gas, TRUE)
  IN CASE gas < 0 -> "GAS_LIMIT_TOO_LOW"
       [] gas >= 0 /\ outcome = "OutOfTicks" -> "OUT_OF_TICKS"
       [] gas >= 0 /\ outcome = "None" -> "CANNOT_PREPAY"
       [] OTHER -> "Ok"

TxValidation(c) ==
  CASE ~c.signed -> "INCORRECT_SIGNATURE"
    [] c.signed /\ c.nonce < c.account.nonce -> "NONCE_TOO_LOW"
    [] c.signed /\ c.nonce >= c.account.nonce /\ c.chain = 2 -> "INVALID_CHAIN_ID"
    [] c.signed /\ c.nonce >= c.account.nonce /\ c.chain # 2 /\ c.maxFee < c.price ->
         "MAX_GAS_FEE_TOO_LOW"
    [] OTHER -> validate(c)

\* is_valid_ethereum_transaction_common, for the same transaction in a block.
Validity(c) ==
  LET afforded == c.account.balance >= c.limit * c.price /\ c.account.balance >= c.limit * c.maxFee
      checks == << <<c.chain # 2, "InvalidChainId">>,
                   <<c.maxFee >= c.price, "InvalidMaxBaseFee">>,
                   <<c.signed, "InvalidSignature">>,
                   <<c.nonce = c.account.nonce, "InvalidNonce">>,
                   <<afforded, "InvalidPrePay">>,
                   <<~c.account.code, "InvalidCode">>,
                   <<tx_execution_gas_limit(c.limit, c.da, c.price, FALSE) >= 0,
                     "InvalidNotEnoughGasForFees">> >>
      failed == {k \in 1 .. 7 : ~checks[k][1]}
  IN IF failed = {} THEN "Valid" ELSE checks[CHOOSE k \in failed : \A l \in failed : k <= l][2]
--------------------------------------------------------------------------------
\* A transaction the validation accepts is not refused by the block for its
\* signature, chain, fee or gas limit and can prepay its gas; one the block
\* accepts, and whose execution does not exhaust its ticks, is accepted by the
\* validation.  The two check in different orders and different things: the
\* validation lets a later nonce, a sender with code and a balance below the
\* maximal fee through (TxValidation::run, is_valid_ethereum_transaction_common).
EvValidationAgrees ==
  /\ TxValidation(evCase) = "Ok" =>
       /\ Validity(evCase) \in {"Valid", "InvalidNonce", "InvalidPrePay", "InvalidCode"}
       /\ EvRun(evCase, tx_execution_gas_limit(evCase.limit, evCase.da, evCase.price, FALSE), TRUE)
            \notin {"None", "OutOfTicks"}
  /\ Validity(evCase) = "Valid" => TxValidation(evCase) \in {"Ok", "OUT_OF_TICKS"}

\* A transaction sent with the gas limit that the evaluation reports keeps
\* enough gas for its execution at any later price: "We select minimum base fee
\* per gas, to ensure that the user has sufficient gas even if the
\* base_fee_per_gas falls by the time they submit their tx."
\* (simulation_add_gas_for_fees)
EvEstimateSuffices ==
  \A price \in EvPrices :
    price >= EvMinimum =>
      tx_execution_gas_limit(Evaluation(evCase).gas, evCase.da, price, FALSE) >= evCase.used
================================================================================
