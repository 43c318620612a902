------------------------------- MODULE Precompiles -------------------------------
(****************************************************************************)
(* The precompiled contracts (evm_execution/src/precompiles).  A handler h  *)
(* gives the gas left, the ticks used and the ticks allocated; an input     *)
(* gives its size and whether it is well formed.  A precompile answers with *)
(*   exit        "Succeed", "Revert", "Error" (an ExitReason), "OutOfTicks" *)
(*               or "Failed" (an Err: the tick check, PrecompileFailed),    *)
(*   gas         the gas it recorded,                                       *)
(*   ticks       the ticks it estimated,                                    *)
(*   withdrawn   the amount of the withdrawal, 0 for none.                  *)
(* What the cryptography computes is left out.                              *)
(****************************************************************************)
EXTENDS Integers, Sequences, FiniteSetsExt

PrecompileOutcome(exit, gas, ticks) ==
  [exit |-> exit, gas |-> gas, ticks |-> ticks, withdrawn |-> 0]

\* fail_if_too_much!
TooMuch(h, ticks) == ticks + h.ticks > h.allocated

\* Mutant: the cost is looked at once no gas is left.
Recorded_late(h, cost, ticks, outcome) ==
  IF h.gas = 0 /\ cost > 0 THEN PrecompileOutcome("Error", h.gas, ticks) ELSE outcome

\* handler.record_cost: a cost above the gas left uses it all and is an error.
Recorded(h, cost, ticks, outcome) ==
  IF cost > h.gas THEN PrecompileOutcome("Error", h.gas, ticks) ELSE outcome

Metered(h, cost, ticks, exit) ==
  IF TooMuch(h, ticks) THEN PrecompileOutcome("OutOfTicks", 0, 0)
  ELSE Recorded(h, cost, ticks, PrecompileOutcome(exit, cost, ticks))

call_precompile_with_gas_draining(h, outcome) ==
  IF outcome.exit \in {"OutOfTicks", "Failed"} THEN [outcome EXCEPT !.gas = h.gas] ELSE outcome

ticks_of_sha256(size) == 75000 + 30000 * (size \div 64)
ticks_of_ripemd160(size) == 70000 + 20000 * (size \div 64)
ticks_of_identity(size) == 42000 + 35 * size
ticks_of_withdraw == 880000
ticks_of_ecrecover == 30000000
ticks_of_blake2f(rounds) == 1850000 + 3200 * rounds

Words(size) == (size + 31) \div 32

sha256_precompile(h, in) ==
  Metered(h, 60 + 12 * Words(in.size), ticks_of_sha256(in.size), "Succeed")

ripemd160_precompile(h, in) ==
  Metered(h, 600 + 120 * Words(in.size), ticks_of_ripemd160(in.size), "Succeed")

identity_precompile(h, in) ==
  Metered(h, 15 + 3 * Words(in.size), ticks_of_identity(in.size), "Succeed")

\* A wrong input succeeds, with no output and no ticks.
ecrecover_precompile(h, in) ==
  LET outcome == Metered(h, 3000, ticks_of_ecrecover, "Succeed")
  IN IF outcome.exit = "Succeed" /\ ~ in.ok THEN [outcome EXCEPT !.ticks = 0] ELSE outcome

ecadd_precompile(h, in) ==
  call_precompile_with_gas_draining(h,
    Recorded(h, 150, 1700000,
             PrecompileOutcome(IF in.ok THEN "Succeed" ELSE "Failed", 150, 1700000)))

ecmul_precompile(h, in) ==
  call_precompile_with_gas_draining(h,
    Recorded(h, 6000, 100000000,
             PrecompileOutcome(IF in.ok THEN "Succeed" ELSE "Failed", 6000, 100000000)))

PAIR_ELEMENT_LEN == 192

ecpairing_precompile(h, in) ==
  LET elements == in.size \div PAIR_ELEMENT_LEN
      whole == in.size % PAIR_ELEMENT_LEN = 0
      ticks == 70000 + IF whole THEN elements * 1200000000 ELSE 0
      cost == elements * 34000 + 45000
  IN call_precompile_with_gas_draining(h,
       Recorded(h, cost, ticks,
                PrecompileOutcome(IF whole /\ in.ok THEN "Succeed" ELSE "Failed", cost, ticks)))

\* The input has exactly 213 bytes; the number of rounds is its gas.
blake2f_precompile(h, in) ==
  call_precompile_with_gas_draining(h,
    IF in.size # 213 THEN PrecompileOutcome("Failed", 0, 0)
    ELSE Metered(h, in.rounds, ticks_of_blake2f(in.rounds), IF in.ok THEN "Succeed" ELSE "Failed"))

\* transfer: the value sent, or None when the call sends none.
withdrawal_precompile(h, in, transfer, None) ==
  LET outcome == Metered(h, 880, ticks_of_withdraw,
                         IF transfer \in {None, 0} \/ ~ in.ok THEN "Revert" ELSE "Succeed")
  IN IF outcome.exit = "Succeed" THEN [outcome EXCEPT !.withdrawn = transfer] ELSE outcome

--------------------------------------------------------------------------------
(* Modular exponentiation: its gas depends on the lengths in its header.    *)

\* The number of bits of n (below 2^30).
Bits(n) == Min({k \in 0 .. 30 : n < 2 ^ k})

calculate_iteration_count(expLen, expHighp) ==
  Max({1, IF expLen <= 32 THEN (IF expHighp = 0 THEN 0 ELSE Bits(expHighp) - 1)
          ELSE 8 * (expLen - 32) + Max({1, Bits(expHighp)}) - 1})

gas_calc(baseLen, expLen, modLen, expHighp) ==
  LET words == (Max({baseLen, modLen}) + 7) \div 8
  IN Max({200, (words * words * calculate_iteration_count(expLen, expHighp)) \div 3})

\* tick::model, for lengths of at most 32 bits
modexp_ticks(expLen, modLen) ==
  Max({100000, 241 * modLen * modLen * expLen + 6480 * modLen * expLen + 114172 * expLen
               + 9346 * modLen + 112053})

\* in: the three lengths and the high bits of the exponent; oversized says
\* which length does not fit a usize: "no", "exp" or "other".
modexp_precompile(h, in) ==
  LET ticks == IF in.oversized = "no" THEN modexp_ticks(in.expLen, in.modLen) ELSE 100000
      cost == IF in.baseLen = 0 /\ in.modLen = 0 THEN 200
              ELSE gas_calc(in.baseLen, in.expLen, in.modLen, in.expHighp)
  IN IF in.oversized = "other" \/ (in.oversized = "exp" /\ {in.baseLen, in.modLen} # {0})
     THEN PrecompileOutcome("Error", 0, 0)
     ELSE Recorded(h, cost, ticks, PrecompileOutcome("Succeed", cost, ticks))

\* What the EVM runs at the address of the precompile with that name (execute).
PcCall(name, h, in) ==
  CASE name = "sha256"     -> sha256_precompile(h, in)
    [] name = "ripemd160"  -> ripemd160_precompile(h, in)
    [] name = "identity"   -> identity_precompile(h, in)
    [] name = "ecrecover"  -> ecrecover_precompile(h, in)
    [] name = "ecadd"      -> ecadd_precompile(h, in)
    [] name = "ecmul"      -> ecmul_precompile(h, in)
    [] name = "ecpairing"  -> ecpairing_precompile(h, in)
    [] name = "blake2f"    -> blake2f_precompile(h, in)
    [] name = "withdrawal" -> withdrawal_precompile(h, in, 7, -1)
    [] name = "modexp"     -> modexp_precompile(h, in)

--------------------------------------------------------------------------------
(* Padding of byte strings (utilities.rs) and ABI parameters (abi.rs).      *)

Zeros(n) == [i \in 1 .. n |-> 0]
Least(a, b) == IF a < b THEN a ELSE b

get_right_padded(data, offset, len) ==
  LET start == Least(offset, Len(data))
      end == Least(start + len, Len(data))
  IN SubSeq(data, start + 1, end) \o Zeros(len - (end - start))

left_padding(data, len) ==
  LET end == Least(len, Len(data)) IN Zeros(len - end) \o SubSeq(data, 1, end)

erec_parse_inputs(input, word) ==
  LET clean == get_right_padded(input, 0, 4 * word)
  IN [hash |-> SubSeq(clean, 1, word), v |-> SubSeq(clean, word + 1, 2 * word),
      rs |-> SubSeq(clean, 2 * word + 1, 4 * word)]

\* Bytes in big endian order, of base b; words of w bytes.  None: out of the
\* input.
BigEndian(bytes, b) ==
  LET value[i \in 0 .. Len(bytes)] == IF i = 0 THEN 0 ELSE b * value[i - 1] + bytes[i]
  IN value[Len(bytes)]

Slice(data, from, to) == IF to > Len(data) THEN << >> ELSE SubSeq(data, from + 1, to)

u256_parameter(data, n, w, b) ==
  IF n * w + w > Len(data) THEN -1 ELSE BigEndian(Slice(data, n * w, n * w + w), b)

bytes_parameter(data, n, w, b) ==
  LET location == u256_parameter(data, n, w, b)
      length == BigEndian(Slice(data, location, location + w), b)
      end == location + w + length
  IN IF location < 0 \/ location + w > Len(data) \/ end > Len(data) THEN [found |-> FALSE]
     ELSE [found |-> TRUE, bytes |-> SubSeq(data, location + w + 1, end)]
================================================================================
