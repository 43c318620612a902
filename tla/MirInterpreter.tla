--------------------------- MODULE MirInterpreter ---------------------------
(***************************************************************************)
(* The interpreter of MIR (contrib/mir/src/interpreter.rs), big step.  A   *)
(* state st has the value stack (top first), the gas, the two counters of  *)
(* the context and the outcome so far:                                     *)
(*   "ok", "FailedWith", "MutezOverflow", "OutOfGas", "panic" where the    *)
(*   code consumes exhausted gas, or "unreachable" where it calls          *)
(*   unreachable_state or unreachable!.                                    *)
(* fail holds the type and the value of FAILWITH; minted, the amount of    *)
(* all tickets created, is for the properties alone.                       *)
(* The interpreter trusts the typechecker: it dispatches on the overload   *)
(* and has no answer to a value of another kind.                           *)
(***************************************************************************)
EXTENDS MirTypechecker, Bitwise

CONSTANT Ctx   \* the fields of Ctx an instruction reads

\* Gas::consume; an incomparable key is an unreachable! in the cost.
Use(st, cost) ==
    IF cost = Incomparable THEN [st EXCEPT !.out = "unreachable"]
    ELSE LET c == consume(st.gas, cost) IN [st EXCEPT !.gas = c.gas, !.out = c.out]

Bind(st, f(_)) == IF st.out = "ok" THEN f(st) ELSE st
Panic(st) == [st EXCEPT !.out = "panic"]
Unreachable(st) == [st EXCEPT !.out = "unreachable"]
Replace(st, n, vs) == [st EXCEPT !.s = vs \o Drop(@, n)]

\* The effect of an instruction on its operands: cost, results, outcome.
Res(cost, push) == [cost |-> cost, push |-> push, out |-> "ok"]
Fail(cost, out) == [cost |-> cost, push |-> <<>>, out |-> out]

\* The kinds of the values on top of the stack; anything else is
\* unreachable.
Kinds(st, cons) ==
    Len(st.s) >= Len(cons) /\ \A k \in DOMAIN cons : cons[k] \in {"_", st.s[k][1]}

Finish(st, n, res) ==
    Bind(Use(st, res.cost), LAMBDA u :
      IF res.out = "ok" THEN Replace(u, n, res.push) ELSE [u EXCEPT !.out = res.out])

\* The amount of the tickets inside a value.
RECURSIVE TicketsIn(_)
TicketsIn(v) ==
    LET all(vs) == FoldLeft(LAMBDA acc, w : acc + TicketsIn(w), 0, vs)
    IN  CASE v[1] = "ticket" -> v[2].amount
          [] v[1] = "pair" -> all(<<v[2], v[3]>>)
          [] v[1] \in {"option", "list"} -> all(v[2])
          [] v[1] = "or" -> TicketsIn(v[3])
          [] v[1] = "map" -> all([k \in DOMAIN v[2] |-> v[2][k][2]])
          [] v[1] = "big_map" -> all(FlattenSeq([k \in DOMAIN v[3] |-> v[3][k][2]]))
          [] v[1] = "operation" ->
                 IF v[2].kind \in {"TransferTokens", "CreateContract"} THEN TicketsIn(v[2].param) ELSE 0
          [] v[1] = "lambda" -> IF v[2].kind = "Apply" THEN TicketsIn(v[2].arg) ELSE 0
          [] OTHER -> 0

-----------------------------------------------------------------------------
(* Arithmetic.  in is the overload, x the top of the stack, y below it.    *)

MutezRes(cost, n) ==
    IF n \in 0..MUTEZ_MAX THEN Res(cost, <<<<"mutez", n>>>>) ELSE Fail(cost, "MutezOverflow")

EvalAdd(in, x, y) ==
    CASE in[1] = Mutez_ -> MutezRes(Cost.ADD_TEZ, x + y)
      [] in[1] = Fr_ -> Res(Cost.ADD_FR, <<<<"bls12_381_fr", BlsAdd(x, y)>>>>)
      [] in[1] = G1_ -> Res(Cost.ADD_G1, <<<<"bls12_381_g1", BlsAdd(x, y)>>>>)
      [] in[1] = G2_ -> Res(Cost.ADD_G2, <<<<"bls12_381_g2", BlsAdd(x, y)>>>>)
      [] in = <<Nat_, Nat_>> -> Res(add_num(x, y), <<NatV(x + y)>>)
      [] OTHER -> Res(add_num(x, y), <<IntV(x + y)>>)

EvalMul(in, x, y) ==
    CASE Mutez_ \in {in[1], in[2]} -> MutezRes(Cost.MUL_TEZ_NAT, x * y)
      [] in[1] = G1_ -> Res(Cost.MUL_G1, <<<<"bls12_381_g1", BlsMul(x, y)>>>>)
      [] in[1] = G2_ -> Res(Cost.MUL_G2, <<<<"bls12_381_g2", BlsMul(x, y)>>>>)
      [] in = <<Fr_, Fr_>> -> Res(Cost.MUL_FR, <<<<"bls12_381_fr", BlsMul(x, y)>>>>)
      [] in[1] = Fr_ /\ in[2] # Fr_ ->
             Res(mul_bls_fr_big_int(y), <<<<"bls12_381_fr", BlsMul(x, FrFromBigInt(y))>>>>)
      [] in[1] \in {Nat_, Int_} /\ in[2] = Fr_ ->
             Res(mul_bls_fr_big_int(x), <<<<"bls12_381_fr", BlsMul(FrFromBigInt(x), y)>>>>)
      [] in = <<Nat_, Nat_>> -> Res(mul_int(x, y), <<NatV(x * y)>>)
      [] OTHER -> Res(mul_int(x, y), <<IntV(x * y)>>)

EvalNeg(in, x) ==
    CASE in[1] = Fr_ -> Res(Cost.NEG_FR, <<<<"bls12_381_fr", BlsNeg(x)>>>>)
      [] in[1] = G1_ -> Res(Cost.NEG_G1, <<<<"bls12_381_g1", BlsNeg(x)>>>>)
      [] in[1] = G2_ -> Res(Cost.NEG_G2, <<<<"bls12_381_g2", BlsNeg(x)>>>>)
      [] OTHER -> Res(neg_int(x), <<IntV(-x)>>)

EvalSubMutez(x, y) ==
    Res(Cost.SUB_MUTEZ, <<IF x >= y THEN SomeV(<<"mutez", x - y>>) ELSE NoneV>>)

\* Two byte strings aligned on the right.  AND keeps the length of the shorter,
\* OR and XOR that of the longer.
ZipBytes(b, c, keep_short, op(_, _)) ==
    LET long == IF Len(b) >= Len(c) THEN b ELSE c
        short == IF Len(b) >= Len(c) THEN c ELSE b
        pad == Len(long) - Len(short)
        at(k) == op(long[k], short[k - pad])
    IN  IF keep_short THEN [k \in 1..Len(short) |-> at(k + pad)]
        ELSE [k \in 1..Len(long) |-> IF k <= pad THEN long[k] ELSE at(k)]

\* A number wide enough for the operands of a bitwise operation.
Wide == 2^16

EvalAnd(in, x, y) ==
    CASE in[1] = Bool_ -> Res(Cost.AND_BOOL, <<BoolV(x /\ y)>>)
      [] in[1] = Bytes_ ->
             Res(bits_bytes(x, y), <<<<"bytes", ZipBytes(x, y, TRUE, LAMBDA a, b : a & b)>>>>)
      [] OTHER -> Res(bits_num(x, y), <<NatV((x % Wide) & y)>>)

EvalOr(in, x, y) ==
    CASE in[1] = Bool_ -> Res(Cost.OR_BOOL, <<BoolV(x \/ y)>>)
      [] in[1] = Bytes_ ->
             Res(bits_bytes(x, y), <<<<"bytes", ZipBytes(x, y, FALSE, LAMBDA a, b : a | b)>>>>)
      [] OTHER -> Res(bits_num(x, y), <<NatV(x | y)>>)

\* XOR of bytes takes no gas.
EvalXor(in, x, y) ==
    CASE in[1] = Bool_ -> Res(Cost.XOR_BOOL, <<BoolV(x # y)>>)
      [] in[1] = Bytes_ ->
             Res(0, <<<<"bytes", ZipBytes(x, y, FALSE, LAMBDA a, b : a ^^ b)>>>>)
      [] OTHER -> Res(bits_num(x, y), <<NatV(x ^^ y)>>)

EvalNot(in, x) ==
    CASE in[1] = Bool_ -> Res(Cost.NOT_BOOL, <<BoolV(~x)>>)
      [] in[1] = Bytes_ -> Res(not_bytes(x), <<<<"bytes", [k \in DOMAIN x |-> 255 - x[k]]>>>>)
      [] OTHER -> Res(not_num(x), <<IntV(-x - 1)>>)

EvalComparison(prim, x) ==
    Res(Cost.CMPZ, <<BoolV(CASE prim = "GT" -> x > 0
                             [] prim = "GE" -> x >= 0
                             [] prim = "EQ" -> x = 0
                             [] prim = "NEQ" -> x # 0
                             [] prim = "LE" -> x <= 0
                             [] prim = "LT" -> x < 0)>>)

\* Big-endian bytes: of a natural number without leading zeros, of an integer
\* in the fewest bytes of two's complement.
NatBytes(n, size) == [k \in 1..size |-> (n \div 256^(size - k)) % 256]
FromBigEndian(b) == FoldLeft(LAMBDA acc, x : 256 * acc + x, 0, b)
SignedSize(i) == CHOOSE k \in 1..3 :
    /\ -(128 * 256^(k - 1)) <= i /\ i < 128 * 256^(k - 1)
    /\ \A j \in 1..(k - 1) : ~(-(128 * 256^(j - 1)) <= i /\ i < 128 * 256^(j - 1))
IntBytes(i) == NatBytes(i % 256^SignedSize(i), SignedSize(i))
FromSigned(b) ==
    IF b # <<>> /\ b[1] >= 128 THEN FromBigEndian(b) - 256^Len(b) ELSE FromBigEndian(b)

EvalConversion(prim, in, x) ==
    CASE prim = "ABS" -> Res(abs_cost(x), <<NatV(AbsInt(x))>>)
      [] prim = "ISNAT" -> Res(Cost.ISNAT, <<IF x >= 0 THEN SomeV(NatV(x)) ELSE NoneV>>)
      [] prim = "INT" /\ in[1] = Nat_ -> Res(Cost.INT_NAT, <<IntV(x)>>)
      [] prim = "INT" /\ in[1] = Fr_ -> Res(Cost.INT_BLS_FR, <<IntV(x)>>)
      [] prim = "INT" /\ in[1] = Bytes_ -> Res(int_bytes(Len(x)), <<IntV(FromSigned(x))>>)
      [] prim = "NAT" -> Res(int_bytes(Len(x)), <<NatV(FromBigEndian(x))>>)
      [] prim = "BYTES" /\ in[1] = Nat_ ->
             Res(bytes_nat(x), <<<<"bytes", NatBytes(x, byte_size(x))>>>>)
      [] prim = "BYTES" /\ in[1] = Int_ ->
             Res(bytes_int(x), <<<<"bytes", IF x = 0 THEN <<>> ELSE IntBytes(x)>>>>)

\* validate_bounds and get: an offset at the end is out of bounds even for an
\* empty slice.
EvalSlice(offset, length, x) ==
    Res(slice_cost(Len(x[2])),
        <<IF offset < Len(x[2]) /\ offset + length <= Len(x[2])
          THEN SomeV(<<x[1], SubSeq(x[2], offset + 1, offset + length)>>) ELSE NoneV>>)

\* The hash functions are external.
Digest(prim, b) == <<Len(b) % 256, FoldLeft(LAMBDA acc, x : (3 * acc + x) % 256, 7, b)>>

EvalAccount(prim, v) ==
    CASE prim = "HASH_KEY" -> Res(Cost.HASH_KEY, <<HashKey(v)>>)
      [] prim = "IMPLICIT_ACCOUNT" -> Res(Cost.AMOUNT, <<<<"contract", v[2], DefaultEp>>>>)
      [] prim = "VOTING_POWER" -> Res(Cost.VOTING_POWER, 
             <<NatV(IF v[2] \in DOMAIN Ctx.voting_powers THEN Ctx.voting_powers[v[2]] ELSE 0)>>)
      [] prim = "PAIRING_CHECK" ->
             Res(pairing_check_cost(Len(v[2])), <<BoolV(pairing_check(v[2]))>>)

SelfLike(hash) == <<"address", hash, DefaultEp>>

\* Instructions that read the context.
EvalContext(prim) ==
    CASE prim = "UNIT" -> Res(Cost.UNIT, <<UnitV>>)
      [] prim = "AMOUNT" -> Res(Cost.AMOUNT, <<<<"mutez", Ctx.amount>>>>)
      [] prim = "BALANCE" -> Res(Cost.AMOUNT, <<<<"mutez", Ctx.balance>>>>)
      [] prim = "LEVEL" -> Res(Cost.LEVEL, <<NatV(Ctx.level)>>)
      [] prim = "MIN_BLOCK_TIME" -> Res(Cost.MIN_BLOCK_TIME, <<NatV(Ctx.min_block_time)>>)
      [] prim = "SELF_ADDRESS" -> Res(Cost.LEVEL, <<SelfLike(Ctx.self_address)>>)
      [] prim = "SENDER" -> Res(Cost.LEVEL, <<SelfLike(Ctx.sender)>>)
      [] prim = "SOURCE" -> Res(Cost.LEVEL, <<SelfLike(Ctx.source)>>)
      [] prim = "NOW" -> Res(Cost.LEVEL, <<<<"timestamp", Ctx.now>>>>)
      [] prim = "TOTAL_VOTING_POWER" ->
             Res(Cost.TOTAL_VOTING_POWER, <<NatV(Ctx.total_voting_power)>>)
      [] prim = "CHAIN_ID" -> Res(Cost.CHAIN_ID, <<<<"chain_id", Ctx.chain_id>>>>)

\* Context::operation_counter: taken before the gas.
NewOperation(st, n, op, cost, also) ==
    LET t == [st EXCEPT !.ops = @ + 1]
    IN  Bind(Use(t, cost), LAMBDA u :
          Replace(u, n, <<<<"operation", op, u.ops>>>> \o also))

SetDelegateOp(v) ==
    [kind |-> "SetDelegate", delegate |-> [k \in DOMAIN v[2] |-> v[2][k][2]]]

EvalOverload(prim, in, st) ==
    LET n == Len(in)
        x == st.s[1][2]
        y == st.s[2][2]
    IN  IF ~Kinds(st, [k \in DOMAIN in |-> in[k][1]]) THEN Unreachable(st)
        ELSE IF prim = "SET_DELEGATE"
        THEN NewOperation(st, 1, SetDelegateOp(st.s[1]), Cost.SET_DELEGATE, <<>>)
        ELSE Finish(st, n,
               CASE prim = "ADD" -> EvalAdd(in, x, y)
                 [] prim = "MUL" -> EvalMul(in, x, y)
                 [] prim = "NEG" -> EvalNeg(in, x)
                 [] prim = "SUB_MUTEZ" -> EvalSubMutez(x, y)
                 [] prim = "AND" -> EvalAnd(in, x, y)
                 [] prim = "OR" -> EvalOr(in, x, y)
                 [] prim = "XOR" -> EvalXor(in, x, y)
                 [] prim = "NOT" -> EvalNot(in, x)
                 [] prim \in ComparisonPrims -> EvalComparison(prim, x)
                 [] prim \in {"ABS", "ISNAT", "INT", "NAT", "BYTES"} ->
                        EvalConversion(prim, in, x)
                 [] prim = "CHECK_SIGNATURE" ->
                        Res(check_signature_cost(x, Len(st.s[3][2])),
                            <<BoolV(check_signature(st.s[1], st.s[2], st.s[3][2]))>>)
                 [] prim = "SLICE" -> EvalSlice(x, y, st.s[3])
                 [] prim \in HashPrims ->
                        Res(HashCost(prim, Len(x)), <<<<"bytes", Digest(prim, x)>>>>)
                 [] prim \in {"HASH_KEY", "IMPLICIT_ACCOUNT", "VOTING_POWER", "PAIRING_CHECK"} ->
                        EvalAccount(prim, st.s[1])
                 [] OTHER -> EvalContext(prim))

-----------------------------------------------------------------------------
(* Stack, pairs and lists                                                  *)

EvalStack(i, st) ==
    LET s == st.s
        n == i[2]
        h == HeightOr1(n)
    IN  CASE i[1] = "DROP" ->
                 IF Len(s) < h THEN Unreachable(st)
                 ELSE Finish(st, h, Res(IF n = <<>> THEN Cost.DROP ELSE dropn(h), <<>>))
          [] i[1] = "DUP" ->
                 IF Len(s) < h THEN Unreachable(st)
                 ELSE Finish(st, 0, Res(IF n = <<>> THEN Cost.DUP ELSE dupn(h), <<s[h]>>))
          [] i[1] = "DIG" ->
                 CASE n = 0 -> Use(st, dig_cost(0))
                   [] n > 0 /\ Len(s) <= n -> Unreachable(st)
                   [] OTHER -> Finish(st, n + 1, Res(dig_cost(n), <<s[n + 1]>> \o Take(s, n)))
          [] i[1] = "DUG" ->
                 CASE n = 0 -> Use(st, dug_cost(0))
                   [] n > 0 /\ Len(s) <= n -> Unreachable(st)
                   [] OTHER -> Finish(st, n + 1,
                                      Res(dug_cost(n), SubSeq(s, 2, n + 1) \o <<s[1]>>))

EvalPair(i, st) ==
    LET s == st.s
        n == i[2]
    IN  CASE i[1] \in {"CAR", "CDR"} ->
                 IF Kinds(st, <<"pair">>)
                 THEN Finish(st, 1, Res(Cost.CAR, <<s[1][IF i[1] = "CAR" THEN 2 ELSE 3]>>))
                 ELSE Unreachable(st)
          [] i[1] = "PAIR" ->
                 IF Len(s) < 2 THEN Unreachable(st)
                 ELSE Finish(st, 2, Res(Cost.PAIR, <<PairV(s[1], s[2])>>))
          [] i[1] = "PAIR_N" ->
                 IF Len(s) < n THEN Unreachable(st)
                 ELSE Finish(st, n, Res(pair_n(n), <<Comb(Take(s, n))>>))
          [] i[1] = "UNPAIR" ->
                 IF Kinds(st, <<"pair">>)
                 THEN Finish(st, 1, Res(Cost.PAIR, <<s[1][2], s[1][3]>>)) ELSE Unreachable(st)
          [] i[1] = "UNPAIR_N" ->
                 IF s = <<>> \/ Leaves(s[1], n) = <<>> THEN Unreachable(st)
                 ELSE Finish(st, 1, Res(unpair_n(n), Leaves(s[1], n)))
          [] i[1] = "GET_N" ->
                 IF s = <<>> \/ get_nth_field(n, s[1]) = <<>> THEN Unreachable(st)
                 ELSE Finish(st, 1, Res(get_n(n), get_nth_field(n, s[1])))
          [] i[1] = "UPDATE_N" ->
                 IF Len(s) < 2 \/ get_nth_field(n, s[2]) = <<>> THEN Unreachable(st)
                 ELSE Finish(st, 2, Res(update_n(n), <<set_nth_field(n, s[2], s[1])>>))

\* Instructions that build one value, and FAILWITH and NEVER.
EvalBuild(i, st) ==
    LET s == st.s
        need(n, res) == IF Len(s) < n THEN Unreachable(st) ELSE Finish(st, n, res)
    IN  CASE i[1] = "PUSH" -> Finish(st, 0, Res(Cost.PUSH, <<i[2]>>))
          [] i[1] = "SWAP" -> need(2, Res(Cost.SWAP, <<s[2], s[1]>>))
          [] i[1] = "FAILWITH" ->
                 IF s = <<>> THEN Unreachable(st) 
                 ELSE [st EXCEPT !.out = "FailedWith", !.fail = <<i[2], s[1]>>]
          [] i[1] = "NEVER" -> Unreachable(st)
          [] i[1] = "SOME" -> need(1, Res(Cost.SOME, <<SomeV(s[1])>>))
          [] i[1] = "NONE" -> Finish(st, 0, Res(Cost.SOME, <<NoneV>>))
          [] i[1] = "LEFT" -> need(1, Res(Cost.LEFT, <<<<"or", "Left", s[1]>>>>))
          [] i[1] = "RIGHT" -> need(1, Res(Cost.LEFT, <<<<"or", "Right", s[1]>>>>))
          [] i[1] = "NIL" -> Finish(st, 0, Res(Cost.NIL, <<<<"list", <<>>>>>>))
          [] i[1] = "EMPTY_SET" -> Finish(st, 0, Res(Cost.EMPTY, <<<<"set", <<>>>>>>))
          [] i[1] = "EMPTY_BIG_MAP" ->
                 Finish(st, 0, Res(Cost.EMPTY, <<<<"big_map", <<>>, <<>>, i[2], i[3]>>>>))
          [] i[1] = "LAMBDA" -> Finish(st, 0, Res(Cost.LAMBDA_, <<<<"lambda", i[2]>>>>))
          [] i[1] = "SELF" ->
                 Finish(st, 0, Res(Cost.SELF, <<<<"contract", Ctx.self_address, i[2]>>>>))

OrderCode == [lt |-> -1, eq |-> 0, gt |-> 1]

\* A list of strings is charged before and after its length is known.
ConcatList(st) ==
    LET parts == [k \in DOMAIN st.s[1][2] |-> st.s[1][2][k][2]]
        all == FlattenSeq(parts)
        kind == IF parts = <<>> THEN "none" ELSE st.s[1][2][1][1]
    IN  Bind(Use(st, concat_list_precheck(Len(parts))), LAMBDA u :
          Finish(u, 1, Res(concat_list(Len(all)), <<<<kind, all>>>>)))

EvalList(i, st) ==
    LET s == st.s
    IN  CASE i[1] = "COMPARE" ->
                 IF Len(s) < 2 THEN Unreachable(st)
                 ELSE Bind(Use(st, compare_cost(s[1], s[2])), LAMBDA u :
                        IF partial_cmp(s[1], s[2]) = "none" THEN Unreachable(u)
                        ELSE Replace(u, 2, <<IntV(OrderCode[partial_cmp(s[1], s[2])])>>))
          [] i[1] = "CONS" ->
                 IF Kinds(st, <<"_", "list">>)
                 THEN Finish(st, 2, Res(Cost.CONS, <<<<"list", <<s[1]>> \o s[2][2]>>>>))
                 ELSE Unreachable(st)
          [] i[1] = "CONCAT" /\ Len(i[2]) = 2 ->
                 IF Kinds(st, <<i[2][1][1], i[2][2][1]>>)
                 THEN Finish(st, 2, Res(concat_pair(Len(s[1][2]), Len(s[2][2])),
                                        <<<<s[1][1], s[1][2] \o s[2][2]>>>>))
                 ELSE Unreachable(st)
          [] i[1] = "CONCAT" /\ Len(i[2]) = 1 ->
                 IF /\ Kinds(st, <<"list">>)
                    /\ \A k \in DOMAIN s[1][2] : s[1][2][k][1] = i[2][1][2][1]
                 THEN LET r == ConcatList(st)
                      IN  IF r.out = "ok" THEN [r EXCEPT !.s[1][1] = i[2][1][2][1]] ELSE r
                 ELSE Unreachable(st)

EvalSize(kind, st) ==
    IF Kinds(st, <<kind>>)
    THEN Finish(st, 1, Res(IF kind = "string" THEN Cost.SIZE_STRING ELSE Cost.SIZE,
                           <<NatV(Len(st.s[1][2]))>>))
    ELSE Unreachable(st)

-----------------------------------------------------------------------------
(* Sets, maps and big_maps                                                 *)

\* BigMap::get: the overlay first, a removal included, then the storage.
BigMapGet(v, key) ==
    CASE Find(v[3], key) # <<>> -> Find(v[3], key)[1]
      [] Find(v[3], key) = <<>> /\ v[2] # <<>> -> Find(BigMaps[v[2][1]].map, key)
      [] OTHER -> <<>>
BigMapUpdate(v, key, new) == [v EXCEPT ![3] = Insert(@, key, new)]

EvalLookup(prim, kind, st) ==
    LET key == st.s[1]
        coll == st.s[2]
        n == Len(IF kind = "big_map" THEN coll[3] ELSE coll[2])
        hit == CASE kind = "map" -> Find(coll[2], key)
                 [] kind = "big_map" -> BigMapGet(coll, key)
                 [] kind = "set" -> IF key \in ToSet(coll[2]) THEN <<key>> ELSE <<>>
    IN  IF ~Kinds(st, <<"_", kind>>) THEN Unreachable(st)
        ELSE Finish(st, 2,
                    Res(IF kind = "set" THEN set_mem(key, n) ELSE map_get(key, n),
                        <<IF prim = "MEM" THEN BoolV(hit # <<>>) ELSE <<"option", hit>>>>))

EvalUpdate(prim, kind, st) ==
    LET key == st.s[1]
        new == st.s[2][2]
        coll == st.s[3]
        n == Len(IF kind = "big_map" THEN coll[3] ELSE coll[2])
        updated ==
            CASE kind = "set" ->
                     <<"set", IF new THEN (IF key \in ToSet(coll[2]) THEN coll[2]
                                           ELSE SetInsert(coll[2], key))
                              ELSE SetErase(coll[2], key)>>
              [] kind = "map" ->
                     <<"map", IF new = <<>> THEN Erase(coll[2], key)
                              ELSE Insert(coll[2], key, new[1])>>
              [] kind = "big_map" -> BigMapUpdate(coll, key, new)
        old == IF kind = "map" THEN Find(coll[2], key) ELSE BigMapGet(coll, key)
        cost == CASE kind = "set" -> set_update(key, n)
                  [] kind # "set" /\ prim = "UPDATE" -> map_update(key, n)
                  [] OTHER -> map_get_and_update(key, n)
    IN  IF ~Kinds(st, <<"_", IF kind = "set" THEN "bool" ELSE "option", kind>>) THEN Unreachable(st)
        ELSE Finish(st, 3, Res(cost, IF prim = "UPDATE" THEN <<updated>>
                                     ELSE <<<<"option", old>>, updated>>))

-----------------------------------------------------------------------------
(* Serialization, contracts and tickets                                    *)

EvalPack(st) ==
    IF st.s = <<>> THEN Unreachable(st)
    ELSE LET mich == ToMicheline(st.s[1])
         IN  Bind(Use(st, 0), LAMBDA u :
               Finish(u, 1, Res(micheline_encoding(mich),
                                <<<<"bytes", encode_for_pack(mich)>>>>)))

\* The result of a typecheck whose error is dropped by .ok(): its gas is taken,
\* out of gas included, and the interpreter goes on.
Swallow(st, n, r, wrap(_)) ==
    LET c == consume(st.gas, r.cost)
    IN  IF c.out = "panic" \/ r.err = "panic" THEN Panic(st)
        ELSE Replace([st EXCEPT !.gas = c.gas], n,
                     <<IF c.out = "ok" /\ r.err = "" THEN SomeV(wrap(r.val)) ELSE NoneV>>)

Unpacked(st, ty, d) ==
    IF d.err # "" THEN Replace(st, 1, <<NoneV>>)
    ELSE Swallow(st, 1, typecheck_value(d.val, ty), LAMBDA v : v)

EvalUnpack(ty, st) ==
    IF ~Kinds(st, <<"bytes">>) THEN Unreachable(st)
    ELSE Bind(Use(st, unpack_cost(Len(st.s[1][2]))), LAMBDA u :
           Unpacked(u, ty, decode_packed(st.s[1][2])))

EvalContract(ty, ep, st) ==
    IF ~Kinds(st, <<"address">>) THEN Unreachable(st)
    ELSE Bind(Use(st, Cost.CONTRACT), LAMBDA u :
           Swallow(u, 1, typecheck_contract_address(st.s[1][2], st.s[1][3], ep, ty),
                   LAMBDA a : <<"contract", a.hash, a.ep>>))

\* compute_contract_address: the hash is external, injective in the index.
compute_contract_address(index) ==
    <<"KT1", [k \in 1..HASH_SIZE |-> IF k = 1 THEN 200 + index ELSE Ctx.group]>>

EvalTransfer(i, st) ==
    LET s == st.s
    IN  CASE i[1] = "ADDRESS" ->
                 IF Kinds(st, <<"contract">>)
                 THEN Finish(st, 1, Res(Cost.ADDRESS, <<<<"address", s[1][2], s[1][3]>>>>))
                 ELSE Unreachable(st)
          [] i[1] = "TRANSFER_TOKENS" ->
                 IF Kinds(st, <<"_", "mutez", "contract">>)
                 THEN NewOperation(st, 3, [kind |-> "TransferTokens", param |-> s[1],
                                           amount |-> s[2][2], dest |-> <<s[3][2], s[3][3]>>],
                                   Cost.TRANSFER_TOKENS, <<>>)
                 ELSE Unreachable(st)

EvalOperation(i, st) ==
    LET s == st.s
    IN  CASE i[1] = "EMIT" ->
                 IF s = <<>> THEN Unreachable(st)
                 ELSE NewOperation(st, 1, [kind |-> "Emit", param |-> s[1], tag |-> i[2],
                                           ty |-> i[3]], Cost.EMIT, <<>>)
          [] i[1] = "CREATE_CONTRACT" ->
                 IF ~Kinds(st, <<"option", "mutez", "_">>) THEN Unreachable(st)
                 ELSE Bind(Use(st, Cost.CREATE_CONTRACT), LAMBDA u :
                        LET t == [u EXCEPT !.ops = @ + 1, !.orig = @ + 1]
                            op == [kind |-> "CreateContract", code |-> i[2], amount |-> s[2][2],
                                   delegate |-> SetDelegateOp(s[1]).delegate, param |-> s[3]]
                        IN  Replace(t, 3, <<<<"operation", op, t.ops>>,
                                            SelfLike(compute_contract_address(t.orig))>>))

\* Mutant: the parts need not add up.
SplitsAny(l, r, amount) == l > 0 /\ r > 0

SplitsExactly(l, r, amount) == l + r = amount /\ l > 0 /\ r > 0

EvalTicket(i, st) ==
    LET s == st.s
        ticket(t, n) == <<"ticket", [t EXCEPT !.amount = n]>>
    IN  CASE i[1] = "TICKET" ->
                 IF Kinds(st, <<"_", "nat">>)
                 THEN Finish([st EXCEPT !.minted = @ + s[2][2]], 2, Res(Cost.TICKET,
                        <<IF s[2][2] = 0 THEN NoneV
                          ELSE SomeV(<<"ticket", [ticketer |-> Ctx.self_address,
                                                  content |-> s[1], amount |-> s[2][2]]>>)>>))
                 ELSE Unreachable(st)
          [] i[1] = "READ_TICKET" ->
                 IF Kinds(st, <<"ticket">>)
                 THEN Finish(st, 0, Res(Cost.TICKET, <<unwrap_ticket(s[1][2])>>))
                 ELSE Unreachable(st)
          [] i[1] = "SPLIT_TICKET" ->
                 IF ~Kinds(st, <<"ticket", "pair">>) THEN Unreachable(st)
                 ELSE LET l == s[2][2][2]
                          r == s[2][3][2]
                      IN  Finish(st, 2, Res(split_ticket,
                            <<IF SplitsExactly(l, r, s[1][2].amount)
                              THEN SomeV(PairV(ticket(s[1][2], l), ticket(s[1][2], r)))
                              ELSE NoneV>>))
          [] i[1] = "JOIN_TICKETS" ->
                 IF ~Kinds(st, <<"pair">>) THEN Unreachable(st)
                 ELSE LET t == s[1][2][2]
                          u == s[1][3][2]
                      IN  Finish(st, 1, Res(join_tickets(t, u),
                            <<IF t.content = u.content /\ t.ticketer = u.ticketer
                              THEN SomeV(ticket(t, t.amount + u.amount)) ELSE NoneV>>))

-----------------------------------------------------------------------------
(* Blocks                                                                  *)

RECURSIVE interpret_one(_, _)

interpret(code, st) ==
    Bind(FoldLeft(LAMBDA u, i : Bind(u, LAMBDA w : interpret_one(i, w)), st, code),
         LAMBDA u : Use(u, Cost.INTERPRET_RET))

\* Pops one value and runs the code with others in its place.
Enter(st, vs, code) == interpret(code, Replace(st, 1, vs))

EvalIf(i, st) ==
    LET v == st.s[1]
    IN  Bind(Use(st, Cost.IF_), LAMBDA u :
          CASE i[1] = "IF" /\ Kinds(st, <<"bool">>) ->
                   Enter(u, <<>>, IF v[2] THEN i[2] ELSE i[3])
            [] i[1] = "IF_NONE" /\ Kinds(st, <<"option">>) ->
                   Enter(u, v[2], IF v[2] = <<>> THEN i[2] ELSE i[3])
            [] i[1] = "IF_CONS" /\ Kinds(st, <<"list">>) ->
                   IF v[2] = <<>> THEN Enter(u, <<>>, i[3])
                   ELSE Enter(u, <<Head(v[2]), <<"list", Tail(v[2])>>>>, i[2])
            [] i[1] = "IF_LEFT" /\ Kinds(st, <<"or">>) ->
                   Enter(u, <<v[3]>>, IF v[2] = "Left" THEN i[2] ELSE i[3])
            [] OTHER -> Unreachable(u))

\* The loop itself, after LOOP_ENTER: again while the top says so.
RECURSIVE EvalLoop(_, _)
EvalLoop(i, st) ==
    Bind(Use(st, Cost.LOOP), LAMBDA u :
      LET v == u.s[1]
      IN  CASE i[1] = "LOOP" /\ Kinds(u, <<"bool">>) ->
                   IF v[2] THEN Bind(Enter(u, <<>>, i[2]), LAMBDA w : EvalLoop(i, w))
                   ELSE Use(Replace(u, 1, <<>>), Cost.LOOP_EXIT)
            [] i[1] = "LOOP_LEFT" /\ Kinds(u, <<"or">>) ->
                   IF v[2] = "Left"
                   THEN Bind(Enter(u, <<v[3]>>, i[2]), LAMBDA w : EvalLoop(i, w))
                   ELSE Use(Replace(u, 1, <<v[3]>>), Cost.LOOP_EXIT)
            [] OTHER -> Unreachable(u))

\* The elements a collection is iterated by, and one iteration.
Elements(v) ==
    CASE v[1] = "map" -> [k \in DOMAIN v[2] |-> PairV(v[2][k][1], v[2][k][2])]
      [] OTHER -> v[2]
Visit(code, st, x) ==
    Bind(Use(st, Cost.PUSH), LAMBDA u : interpret(code, Replace(u, 0, <<x>>)))

EvalIter(i, st) ==
    IF ~Kinds(st, <<i[2]>>) THEN Unreachable(st)
    ELSE Bind(Use(st, Cost.ITER), LAMBDA u :
           FoldLeft(LAMBDA w, x : Bind(w, LAMBDA z : Visit(i[3], z, x)),
                    Replace(u, 1, <<>>), Elements(st.s[1])))

\* MAP collects what each iteration leaves on top.
Collect(acc, w) ==
    CASE w.out # "ok" -> [acc EXCEPT !.st = w]
      [] w.out = "ok" /\ w.s = <<>> -> [acc EXCEPT !.st = Unreachable(w)]
      [] OTHER -> [st |-> Replace(w, 1, <<>>), got |-> Append(acc.got, w.s[1])]

Mapped(v, r) ==
    Bind(r.st, LAMBDA w :
      Replace(w, 0, <<<<v[1], IF v[1] = "map" THEN [k \in DOMAIN v[2] |-> <<v[2][k][1], r.got[k]>>]
                              ELSE r.got>>>>))

EvalMap(i, st) ==
    LET v == st.s[1]
        one(acc, x) ==
            IF acc.st.out # "ok" THEN acc ELSE Collect(acc, Visit(i[3], acc.st, x))
        cost == CASE i[2] = "map" -> Cost.MAP_MAP
                  [] i[2] = "list" -> Cost.MAP_LIST
                  [] i[2] = "option" -> Cost.MAP_OPTION
    IN  IF ~Kinds(st, <<i[2]>>) THEN Unreachable(st)
        ELSE Bind(Use(st, cost), LAMBDA u :
               Mapped(v, FoldLeft(one, [st |-> Replace(u, 1, <<>>), got |-> <<>>], Elements(v))))

\* DIP n sets n values aside.
EvalDip(i, st) ==
    LET n == HeightOr1(i[2])
    IN  IF Len(st.s) < n THEN Unreachable(st)
        ELSE Bind(Use(st, IF i[2] = <<>> THEN Cost.DIP ELSE dipn(n)), LAMBDA u :
               Bind(interpret(i[3], Replace(u, n, <<>>)), LAMBDA w :
                 Bind(Use(w, undip(n)), LAMBDA z : Replace(z, 0, Take(st.s, n)))))

\* EXEC unrolls the arguments captured by APPLY, then runs the lambda on a
\* stack of its own and keeps its top.
RECURSIVE EvalExec(_, _, _)
EvalExec(closure, arg, st) ==
    IF closure.kind = "Apply"
    THEN Bind(Use(st, Cost.PAIR), LAMBDA u :
           EvalExec(closure.closure, PairV(closure.arg, arg), u))
    ELSE LET own == IF closure.kind = "LambdaRec" THEN <<arg, <<"lambda", closure>>>>
                    ELSE <<arg>>
         IN  Bind(interpret(closure.instrs, [st EXCEPT !.s = own]), LAMBDA w :
               IF w.s = <<>> THEN Unreachable(w)
               ELSE [w EXCEPT !.s = <<w.s[1]>> \o st.s])

EvalLambdaUse(i, st) ==
    IF ~Kinds(st, <<"_", "lambda">>) THEN Unreachable(st)
    ELSE IF i[1] = "EXEC"
    THEN Bind(Use(st, Cost.EXEC), LAMBDA u :
           EvalExec(st.s[2][2], st.s[1], Replace(u, 2, <<>>)))
    ELSE Finish(st, 2, Res(Cost.APPLY,
           <<<<"lambda", [kind |-> "Apply", arg |-> st.s[1], arg_ty |-> i[2],
                          closure |-> st.s[2][2]]>>>>))

interpret_one(i, st) ==
    CASE OverloadsOf(i[1]) # {} -> EvalOverload(i[1], i[2], st)
      [] i[1] \in {"DROP", "DUP", "DIG", "DUG"} -> EvalStack(i, st)
      [] i[1] \in {"CAR", "CDR", "PAIR", "PAIR_N", "UNPAIR", "UNPAIR_N", "GET_N",
                   "UPDATE_N"} -> EvalPair(i, st)
      [] i[1] \in {"PUSH", "SWAP", "FAILWITH", "NEVER", "SOME", "NONE", "LEFT", "RIGHT",
                   "NIL", "EMPTY_SET", "EMPTY_BIG_MAP", "LAMBDA", "SELF"} -> EvalBuild(i, st)
      [] i[1] \in {"COMPARE", "CONS", "CONCAT"} -> EvalList(i, st)
      [] i[1] = "SIZE" -> EvalSize(i[2], st)
      [] i[1] \in {"MEM", "GET"} -> EvalLookup(i[1], i[2], st)
      [] i[1] \in {"UPDATE", "GET_AND_UPDATE"} -> EvalUpdate(i[1], i[2], st)
      [] i[1] = "PACK" -> EvalPack(st)
      [] i[1] = "UNPACK" -> EvalUnpack(i[2], st)
      [] i[1] = "CONTRACT" -> EvalContract(i[2], i[3], st)
      [] i[1] \in {"ADDRESS", "TRANSFER_TOKENS"} -> EvalTransfer(i, st)
      [] i[1] \in {"EMIT", "CREATE_CONTRACT"} -> EvalOperation(i, st)
      [] i[1] \in {"TICKET", "READ_TICKET", "SPLIT_TICKET", "JOIN_TICKETS"} ->
             EvalTicket(i, st)
      [] i[1] \in {"EXEC", "APPLY"} -> EvalLambdaUse(i, st)
      [] i[1] \in {"IF", "IF_NONE", "IF_CONS", "IF_LEFT"} -> EvalIf(i, st)
      [] i[1] \in {"LOOP", "LOOP_LEFT"} ->
             Bind(Use(st, Cost.LOOP_ENTER), LAMBDA u : EvalLoop(i, u))
      [] i[1] = "ITER" -> EvalIter(i, st)
      [] i[1] = "MAP" -> EvalMap(i, st)
      [] i[1] = "DIP" -> EvalDip(i, st)
      [] i[1] = "SEQ" -> interpret(i[2], st)

\* ContractScript::interpret: parameter and storage are checked against the
\* types of the script, the gas of the checks included.
InterpretOn(code, st, r) ==
    Bind(Use(st, r.cost), LAMBDA u :
      IF r.err # "" THEN [u EXCEPT !.out = r.err]
      ELSE Bind(interpret_one(code, [u EXCEPT !.s = <<r.val>>]), LAMBDA w :
             IF Kinds(w, <<"pair">>) /\ w.s[1][2][1] = "list" THEN w ELSE Unreachable(w)))

interpret_script(script, parameter, storage, st) ==
    InterpretOn(script.code, st,
      Then(typecheck_value(parameter, script.parameter), LAMBDA p :
        Then(typecheck_value(storage, script.storage), LAMBDA v : Ok(PairV(p, v), 0))))
=============================================================================
