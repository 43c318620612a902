------------------------------- MODULE MirGas -------------------------------
(***************************************************************************)
(* Gas of the Michelson interpreter MIR (contrib/mir/src/gas.rs): the      *)
(* costs charged by the typechecker (operators tc_...) and by the          *)
(* interpreter, in milligas, and the counter they are taken from.          *)
(*                                                                         *)
(* The code computes costs in checked machine integers and turns an        *)
(* overflow into OutOfGas.  A cost above the width is also above any       *)
(* amount of gas a counter can hold, so consuming the exact natural number *)
(* here has the same outcome.                                              *)
(***************************************************************************)
EXTENDS Micheline

Exhausted == -1   \* Gas { milligas_amount: None }

\* Mutant: the subtraction wraps (u32, scaled).
consume_wrapping(gas, cost) == [gas |-> (gas - cost) % 2^20, out |-> "ok"]

\* Gas::consume.  "panic" is the expect in Gas::milligas.
consume(gas, cost) ==
    [ gas |-> IF gas = Exhausted \/ cost > gas THEN Exhausted ELSE gas - cost,
      out |-> CASE gas = Exhausted -> "panic"
                [] gas # Exhausted /\ cost > gas -> "OutOfGas"
                [] OTHER -> "ok" ]

Shr(n, k) == n \div 2^k

\* The logarithm rounded up; the code asserts n # 0.
log2i(n) == CHOOSE k \in 0..30 : 2^k >= n /\ (k = 0 \/ 2^(k-1) < n)

AbsInt(n) == IF n < 0 THEN -n ELSE n

byte_size(n) == CHOOSE k \in 0..3 : AbsInt(n) < 256^k /\ (k = 0 \/ AbsInt(n) >= 256^(k-1))

-----------------------------------------------------------------------------
(* tc_cost: the typechecker                                                *)

INSTR_STEP == 220 * 2
VALUE_STEP == 100
PARSE_TYPE_STEP == 60
TYPE_PROP_STEP == 60

\* Cost of decoding a literal, by type, from its readable and from its
\* optimized form.
Decoding ==
    [ key_hash  |-> [readable |-> 3200, optimized |-> 80],
      bls       |-> [fr |-> 120, g1 |-> 54600, g2 |-> 69000],
      key       |-> [readable |-> 3600, optimized |-> 60],
      chain_id  |-> [readable |-> 1600, optimized |-> 50] ]

isqrt(n) == CHOOSE k \in 0..n : k * k <= n /\ (k + 1) * (k + 1) > n

timestamp_decoding(l) ==
    LET v0 == isqrt(l) * l IN 105 + Shr(v0, 5) + Shr(v0, 6)

\* DROP n, DIP n: an absent n (written 0 arguments) is free.
tc_variadic(args) == IF args = <<>> THEN 0 ELSE 50 * args[1]
\* DIG, DUG, PAIR, UNPAIR, GET: one proof argument per level.
tc_depth(n) == 50 * n

ty_eq_cost(sz1, sz2) == 60 * Min({sz1, sz2})

construct_map(key_size, n) == 80 * n + key_size * n * log2i(n + 1)
construct_set(val_size, n) == 130 * n + val_size * n * log2i(n + 1)

-----------------------------------------------------------------------------
(* interpret_cost: the interpreter                                         *)

\* The constant costs, by instruction (and overload where they differ).
Cost ==
    [ DIP |-> 10, DROP |-> 10, DUP |-> 10, CMPZ |-> 10, IF_ |-> 10,
      LOOP |-> 10, ITER |-> 20, SWAP |-> 10, INT_NAT |-> 10, ISNAT |-> 10,
      INT_BLS_FR |-> 115, PUSH |-> 10, ADD_TEZ |-> 20, ADD_FR |-> 30,
      ADD_G1 |-> 900, ADD_G2 |-> 2470, MUL_G1 |-> 103000, MUL_G2 |-> 220000,
      MUL_FR |-> 45, MUL_TEZ_NAT |-> 50, NEG_FR |-> 30, NEG_G1 |-> 50,
      NEG_G2 |-> 70, SUB_MUTEZ |-> 15, UNIT |-> 10, AND_BOOL |-> 10,
      OR_BOOL |-> 10, XOR_BOOL |-> 15, NOT_BOOL |-> 10, CAR |-> 10,
      PAIR |-> 10, SOME |-> 10, AMOUNT |-> 10, NIL |-> 10, CONS |-> 15,
      EMPTY |-> 300, SIZE_STRING |-> 15, SIZE |-> 10, CHAIN_ID |-> 15,
      SELF |-> 10, ADDRESS |-> 10, LEFT |-> 10, MAP_OPTION |-> 10,
      MAP_LIST |-> 10, MAP_MAP |-> 20, TRANSFER_TOKENS |-> 60,
      SET_DELEGATE |-> 60, LAMBDA_ |-> 10, EXEC |-> 10, HASH_KEY |-> 605,
      APPLY |-> 140, TICKET |-> 10, CONTRACT |-> 30, LEVEL |-> 10,
      MIN_BLOCK_TIME |-> 20, VOTING_POWER |-> 640, TOTAL_VOTING_POWER |-> 450,
      EMIT |-> 30, INTERPRET_RET |-> 15, LOOP_ENTER |-> 10, LOOP_EXIT |-> 10,
      CREATE_CONTRACT |-> 60 ]

\* The costs that depend on a depth written in the instruction.
dropn(n) == 30 + n * 2 + Shr(n, 1) + Shr(n, 3)
dipn(n) == 15 + n * 4
undip(n) == (n + 1) * 10
dupn(n) == 20 + n + Shr(n, 2)
dig_cost(n) == 30 + 6 * n + Shr(n, 1) + Shr(n, 2)
dug_cost(n) == 35 + 6 * n + Shr(n, 1) + Shr(n, 2)
pair_n(n) == 40 + Shr(n - 2, 2) + (n - 2) * 3
unpair_n(n) == 30 + (n - 2) * 4
get_n(n) == 20 + Shr(n, 1) + Shr(n, 4)
update_n(n) == 30 + Shr(n, 5) + Shr(n, 2) + n

\* The costs that depend on the size of numbers.
add_num(i, j) == 35 + Shr(Max({byte_size(i), byte_size(j)}), 1)
bits_num(i, j) == 35 + Shr(Min({byte_size(i), byte_size(j)}), 1)
bits_bytes(b, c) == 35 + Shr(Min({Len(b), Len(c)}), 1)
not_num(n) == 25 + Shr(byte_size(n), 1)
not_bytes(b) == 30 + Shr(Len(b), 1)
mul_int(i, j) ==
    LET a == byte_size(i) + byte_size(j)
        v0 == IF a = 0 THEN 0 ELSE a * log2i(a)
    IN  55 + Shr(v0, 1) + Shr(v0, 2) + Shr(v0, 4)
mul_bls_fr_big_int(n) == 265 + Shr(byte_size(n), 4) + byte_size(n)
neg_int(n) == 25 + Shr(byte_size(n), 1)
abs_cost(n) == 20 + Shr(byte_size(n), 1)
int_bytes(size) == 20 + Shr(size, 1) + size * 2
bytes_int(n) == 90 + byte_size(n) * 3
bytes_nat(n) == 75 + byte_size(n) * 3

\* A BigUint is 24 bytes in memory whatever its value: the size taken here is
\* that of the handle.
split_ticket == 40 + Shr(24, 1)

-----------------------------------------------------------------------------
cmp_bytes(n, m) == 35 + Shr(Min({n, m}), 6) + Shr(Min({n, m}), 7)

\* The costs of the comparisons that depend on no size.
FlatCompare ==
    [ bool |-> cmp_bytes(1, 1), mutez |-> cmp_bytes(8, 8), unit |-> 10,
      address |-> cmp_bytes(51, 51), chain_id |-> 30, key |-> 92,
      signature |-> 92, key_hash |-> cmp_bytes(21, 21) ]

\* A comparison of these, or of values of two kinds, is unreachable!.
Incomparable == -1

RECURSIVE compare_cost(_, _)
compare_cost(v, w) ==
    LET sum(base, c1, c2) ==
            IF Incomparable \in {c1, c2} THEN Incomparable ELSE base + c1 + c2
    IN  IF v[1] # w[1] THEN Incomparable
        ELSE CASE v[1] \in {"nat", "int", "timestamp"} ->
                      cmp_bytes(byte_size(v[2]), byte_size(w[2]))
               [] v[1] \in {"string", "bytes"} -> cmp_bytes(Len(v[2]), Len(w[2]))
               [] v[1] \in DOMAIN FlatCompare -> FlatCompare[v[1]]
               [] v[1] = "pair" ->
                      sum(10, compare_cost(v[2], w[2]), compare_cost(v[3], w[3]))
               [] v[1] = "option" ->
                      IF <<>> \in {v[2], w[2]} THEN 10
                      ELSE sum(10, compare_cost(v[2][1], w[2][1]), 0)
               [] v[1] = "or" ->
                      IF v[2] # w[2] THEN 10
                      ELSE sum(10, compare_cost(v[3], w[3]), 0)
               [] OTHER -> Incomparable

\* A lookup in a collection of n keys compares the key with itself once per
\* level; the base and the factor tell the lookups apart.
lookup(base, factor, k, n) ==
    LET c == compare_cost(k, k)
    IN  IF c = Incomparable THEN Incomparable ELSE base + factor * c * log2i(n + 1)

map_get(k, n) == lookup(80, 1, k, n)
set_mem(k, n) == lookup(115, 1, k, n)
map_update(k, n) == lookup(80, 2, k, n)
set_update(k, n) == lookup(130, 2, k, n)
map_get_and_update(k, n) == lookup(80, 3, k, n)

\* The cost of the comparison is computed, and only the addition is charged;
\* an incomparable content still ends the interpreter.
join_tickets(t, u) ==
    IF compare_cost(t.content, u.content) = Incomparable
    THEN Incomparable ELSE add_num(t.amount, u.amount)

-----------------------------------------------------------------------------
concat_list_precheck(n) == 10 * n
concat_list(total) == total \div 2 + 100
concat_pair(n, m) == (n + m) \div 2 + 45
slice_cost(n) == Shr(n, 1) + 25
unpack_cost(n) == 260 + Shr(n, 1)

CheckSignatureBase == [ed25519 |-> 65800, secp256k1 |-> 51600, p256 |-> 341000]

check_signature_cost(curve, n) ==
    IF curve = "bls" THEN 1570000 + 3 * n
    ELSE CheckSignatureBase[curve] + Shr(n, 3) + n

HashCost(prim, n) ==
    CASE prim = "BLAKE2B" -> 430 + Shr(n, 3) + n
      [] prim \in {"KECCAK", "SHA3"} -> 1350 + Shr(n, 2) + n * 8
      [] prim = "SHA256" -> 600 + Shr(n, 2) + Shr(n, 1) + n * 4
      [] prim = "SHA512" -> 680 + n * 3

pairing_check_cost(n) == 450000 + 342500 * n

\* collect_micheline_size: one per node, the literals by their length, an
\* annotation by its length and its prefix.
RECURSIVE micheline_encoding(_)
micheline_encoding(m) ==
    LET all(ms) == FoldSeq(LAMBDA x, n : n + micheline_encoding(x), 0, ms)
    IN  100 + CASE m[1] \in {"String", "Bytes"} -> 10 * Len(m[2])
                [] m[1] = "Int" -> 25 * byte_size(m[2])
                [] m[1] = "Seq" -> all(m[2])
                [] m[1] = "App" ->
                       all(m[3]) + FoldSeq(LAMBDA a, n : n + 10 * AnnotationSize(a), 0, m[4])
=============================================================================
