--------------------------- MODULE MichelsonValues ---------------------------
(***************************************************************************)
(* Typed Michelson values (TypedValue in contrib/mir/src/ast.rs), their    *)
(* order (ast/comparable.rs), the byte forms of addresses, keys, key       *)
(* hashes and signatures (ast/michelson_*.rs), and the Micheline a value   *)
(* is written as for PACK.                                                 *)
(*                                                                         *)
(* A value is <<constructor, contents...>>.  Sets and maps are kept as the *)
(* sequences a BTreeSet and a BTreeMap iterate: strictly sorted.  Hashes,  *)
(* keys and signatures have scaled sizes; what base58 and the hash         *)
(* functions compute is external, and only their being injective is used.  *)
(***************************************************************************)
EXTENDS MirGas

---------------------------------------------------------------------------
(***************************************************************************)
(* Michelson types as MIR's typechecker handles them: the properties of    *)
(* contrib/mir/src/typechecker/type_props.rs, the reading of a type from   *)
(* Micheline (parse_ty in typechecker.rs) and its writing back (ast.rs).   *)
(*                                                                         *)
(* A type is <<constructor, arguments...>>, e.g. <<"pair", <<"int">>,      *)
(* <<"nat">>>>; the constructors have the names of their primitives.       *)
(*                                                                         *)
(* A step of the typechecker that can fail yields an error name ("" for    *)
(* none), a value and the gas it takes up to that point, because out of    *)
(* gas is decided by whether that cost fits in the counter.                *)
(***************************************************************************)
Ok(val, cost) == [err |-> "", val |-> val, cost |-> cost]
Er(e, cost) == [err |-> e, val |-> <<>>, cost |-> cost]

\* The ? operator: go on with the value, add the costs.
Then(r, f(_)) ==
    IF r.err # "" THEN r
    ELSE LET s == f(r.val) IN [s EXCEPT !.cost = @ + r.cost]
Plus(r, cost) == [r EXCEPT !.cost = @ + cost]

FlatTypes == {"nat", "int", "bool", "mutez", "string", "unit", "never",
              "operation", "address", "chain_id", "bytes", "key", "signature",
              "key_hash", "timestamp", "bls12_381_fr", "bls12_381_g1", "bls12_381_g2"}
Nat_ == <<"nat">>
Int_ == <<"int">>
Bool_ == <<"bool">>
Mutez_ == <<"mutez">>
String_ == <<"string">>
Bytes_ == <<"bytes">>
Unit_ == <<"unit">>
Address_ == <<"address">>
Operation_ == <<"operation">>
Fr_ == <<"bls12_381_fr">>
G1_ == <<"bls12_381_g1">>
G2_ == <<"bls12_381_g2">>
PairT(a, b) == <<"pair", a, b>>
OptionT(a) == <<"option", a>>
ListT(a) == <<"list", a>>
LambdaT(a, b) == <<"lambda", a, b>>
TicketT(a) == <<"ticket", a>>

RECURSIVE size_for_gas(_)
size_for_gas(t) ==
    1 + FoldSeq(LAMBDA a, n : n + size_for_gas(a), 0, Tail(t))

-----------------------------------------------------------------------------
TypeProperties == {"Comparable", "Passable", "Storable", "Pushable",
                   "Packable", "BigMapValue", "Duplicable"}

\* The properties a constructor never has, whatever its arguments.
Lacks(con) ==
    CASE con = "ticket" -> {"Comparable", "Pushable", "Duplicable", "Packable"}
      [] con \in {"bls12_381_fr", "bls12_381_g1", "bls12_381_g2",
                  "list", "set", "map", "lambda"} -> {"Comparable"}
      [] con = "operation" -> TypeProperties \ {"Duplicable"}
      [] con = "big_map" -> {"Comparable", "BigMapValue", "Packable", "Pushable"}
      [] con = "contract" -> {"Comparable", "Storable", "Pushable", "BigMapValue"}
      [] OTHER -> {}

\* The arguments a property is then asked of: both parts of a pair or an or,
\* the values (not the keys) of a map, nothing behind a ticket, a contract or
\* a lambda.
Inner(t) ==
    CASE t[1] \in {"pair", "or"} -> <<t[2], t[3]>>
      [] t[1] \in {"option", "list", "set"} -> <<t[2]>>
      [] t[1] \in {"map", "big_map"} -> <<t[3]>>
      [] OTHER -> <<>>

RECURSIVE ensure_prop(_, _)
ensure_prop(t, prop) ==
    IF prop \in Lacks(t[1]) THEN Er("InvalidTypeProperty", TYPE_PROP_STEP)
    ELSE FoldLeft(LAMBDA r, a : Then(r, LAMBDA v : ensure_prop(a, prop)),
                  Ok(<<>>, TYPE_PROP_STEP), Inner(t))

Has(t, prop) == ensure_prop(t, prop).err = ""

-----------------------------------------------------------------------------
(* Types from and to Micheline                                             *)

\* Entrypoint::try_from(FieldAnnotation): too long a name is no entrypoint.
CONSTANT MAX_EP_LEN
DefaultEp == <<100>>   \* the name "default", abbreviated
check_ep_name_len(s) == Len(s) <= MAX_EP_LEN

NoEps == [e \in {} |-> <<>>]

RECURSIVE parse_ty_with_entrypoints(_, _, _)

parse_ty(m) == Then(parse_ty_with_entrypoints(m, NoEps, FALSE), LAMBDA v : Ok(v.ty, 0))

\* make_pair: a right comb.
RECURSIVE make_pair(_)
make_pair(args) ==
    Then(parse_ty(args[1]), LAMBDA l :
      Then(IF Len(args) = 2 THEN parse_ty(args[2]) ELSE make_pair(Tail(args)), LAMBDA r :
        Ok(PairT(l, r), 0)))

\* What the argument of a type constructor must be.
ArgProp ==
    [ ticket |-> <<"Comparable">>, contract |-> <<"Passable">>, set |-> <<"Comparable">>,
      map |-> <<"Comparable", "">>, big_map |-> <<"Comparable", "BigMapValue">>,
      option |-> <<"">>, list |-> <<"">>, lambda |-> <<"", "">> ]

ParseArg(m, prop) ==
    Then(parse_ty(m), LAMBDA t :
      IF prop = "" THEN Ok(t, 0) ELSE Then(ensure_prop(t, prop), LAMBDA v : Ok(t, 0)))

\* The entrypoint that the annotation of a node of the parameter type declares.
RecordEntrypoint(m, t, eps) ==
    LET ann == get_single_field_ann(m[4])
    IN  CASE ann.out = "TooManyFieldAnns" -> Er("TooManyFieldAnns", 0)
          [] ann.out = "some" /\ check_ep_name_len(ann.ann) ->
                 IF ann.ann \in DOMAIN eps THEN Er("DuplicateEntrypoint", 0)
                 ELSE Ok([ty |-> t, eps |-> (ann.ann :> t) @@ eps], 0)
          [] OTHER -> Ok([ty |-> t, eps |-> eps], 0)

\* Entrypoints are collected along the spine of or only; inside other types
\* annotations are ignored.
ParseTyNode(m, eps, collect) ==
    LET con == m[2]
        args == m[3]
        plain(r) == Then(r, LAMBDA t : Ok([ty |-> t, eps |-> eps], 0))
    IN  CASE con \in FlatTypes ->
                 IF args = <<>> THEN plain(Ok(<<con>>, 0)) ELSE Er("UnexpectedMicheline", 0)
          [] con = "pair" ->
                 IF Len(args) >= 2 THEN plain(make_pair(args)) ELSE Er("UnexpectedMicheline", 0)
          [] con = "or" ->
                 IF Len(args) # 2 THEN Er("UnexpectedMicheline", 0)
                 ELSE Then(parse_ty_with_entrypoints(args[1], eps, collect), LAMBDA l :
                        Then(parse_ty_with_entrypoints(args[2], l.eps, collect), LAMBDA r :
                          Ok([ty |-> <<"or", l.ty, r.ty>>, eps |-> r.eps], 0)))
          [] con \in DOMAIN ArgProp ->
                 IF Len(args) # Len(ArgProp[con]) THEN Er("UnexpectedMicheline", 0)
                 ELSE plain(Then(ParseArg(args[1], ArgProp[con][1]), LAMBDA a :
                              IF Len(args) = 1 THEN Ok(<<con, a>>, 0)
                              ELSE Then(ParseArg(args[2], ArgProp[con][2]), LAMBDA b :
                                     Ok(<<con, a, b>>, 0))))
          [] OTHER -> Er("UnexpectedMicheline", 0)

parse_ty_with_entrypoints(m, eps, collect) ==
    Plus(IF m[1] # "App" THEN Er("UnexpectedMicheline", 0)
         ELSE Then(ParseTyNode(m, eps, collect), LAMBDA v :
                IF collect THEN RecordEntrypoint(m, v.ty, v.eps) ELSE Ok(v, 0)),
         PARSE_TYPE_STEP)

\* The parameter of a contract always has a default entrypoint.
parse_parameter_ty_with_entrypoints(m) ==
    Then(parse_ty_with_entrypoints(m, NoEps, TRUE), LAMBDA v :
      Ok([ty |-> v.ty, eps |-> v.eps @@ (DefaultEp :> v.ty)], 0))

\* LinearizePairIter: the components along the right spine.
RECURSIVE LinearizePair(_)
LinearizePair(t) == IF t[1] = "pair" THEN <<t[2]>> \o LinearizePair(t[3]) ELSE <<t>>

RECURSIVE TypeToMicheline(_)
TypeToMicheline(t) ==
    LET args == IF t[1] = "pair" THEN LinearizePair(t) ELSE Tail(t)
    IN  <<"App", t[1], [k \in DOMAIN args |-> TypeToMicheline(args[k])], <<>>>>

---------------------------------------------------------------------------
CONSTANTS HASH_SIZE,        \* bytes of a hash (20 in the code)
          KEY_SIZE,         \* bytes of an ed25519 key (32)
          SIG_SIZE,         \* bytes of a generic signature (64)
          FR_ORDER,         \* order of the scalar field, scaled
          FR_SIZE           \* bytes of a scalar (32)

NoneV == <<"option", <<>>>>
SomeV(v) == <<"option", <<v>>>>
PairV(a, b) == <<"pair", a, b>>
NatV(n) == <<"nat", n>>
IntV(n) == <<"int", n>>
BoolV(b) == <<"bool", b>>
UnitV == <<"unit">>
AddressV(a) == <<"address", a.hash, a.ep>>

-----------------------------------------------------------------------------
(* Order: "lt", "eq", "gt", and "none" for incomparable values.            *)

CmpInt(a, b) == IF a < b THEN "lt" ELSE IF a = b THEN "eq" ELSE "gt"

\* Lexicographic, the first difference decides; used for strings and bytes.
CmpSeq(s, t) ==
    LET diff == {k \in 1..Min({Len(s), Len(t)}) : s[k] # t[k]}
    IN  IF diff = {} THEN CmpInt(Len(s), Len(t))
        ELSE LET k == Min(diff) IN CmpInt(s[k], t[k])

\* Derived orders of enums: by variant, in the order they are declared.
Rank(order, v) == CHOOSE k \in 1..Len(order) : order[k] = v
CurveOrder == <<"ed25519", "secp256k1", "p256", "bls", "generic">>
AddressOrder == <<"tz1", "tz2", "tz3", "tz4", "KT1", "sr1">>

ThenCmp(c, d) == IF c = "eq" THEN d ELSE c

CmpTagged(order, a, b) ==
    ThenCmp(CmpInt(Rank(order, a[1]), Rank(order, b[1])), CmpSeq(a[2], b[2]))

RECURSIVE partial_cmp(_, _)
partial_cmp(v, w) ==
    IF v[1] # w[1] THEN "none"
    ELSE CASE v[1] \in {"int", "nat", "mutez", "timestamp"} -> CmpInt(v[2], w[2])
           [] v[1] = "bool" -> IF v[2] = w[2] THEN "eq" ELSE IF w[2] THEN "lt" ELSE "gt"
           [] v[1] \in {"string", "bytes", "chain_id"} -> CmpSeq(v[2], w[2])
           [] v[1] = "unit" -> "eq"
           [] v[1] = "pair" -> ThenCmp(partial_cmp(v[2], w[2]), partial_cmp(v[3], w[3]))
           [] v[1] = "option" ->
                  IF <<>> \in {v[2], w[2]} THEN CmpInt(Len(v[2]), Len(w[2]))
                  ELSE partial_cmp(v[2][1], w[2][1])
           [] v[1] = "or" ->
                  IF v[2] = w[2] THEN partial_cmp(v[3], w[3])
                  ELSE IF v[2] = "Left" THEN "lt" ELSE "gt"
           [] v[1] = "address" ->
                  ThenCmp(CmpTagged(AddressOrder, v[2], w[2]), CmpSeq(v[3], w[3]))
           [] v[1] \in {"key", "signature"} ->
                  CmpTagged(CurveOrder, Tail(v), Tail(w))
           [] v[1] = "key_hash" -> CmpTagged(AddressOrder, v[2], w[2])
           [] OTHER -> "none"

Lt(v, w) == partial_cmp(v, w) = "lt"

\* BTreeMap over a sorted sequence of <<key, content>> entries.
Keys(m) == {m[k][1] : k \in DOMAIN m}
Find(m, key) ==
    LET hits == {k \in DOMAIN m : m[k][1] = key}
    IN  IF hits = {} THEN <<>> ELSE <<m[CHOOSE k \in hits : TRUE][2]>>
Erase(m, key) == SelectSeq(m, LAMBDA e : e[1] # key)
Insert(m, key, content) ==
    SelectSeq(m, LAMBDA e : Lt(e[1], key)) \o <<<<key, content>>>>
        \o SelectSeq(m, LAMBDA e : Lt(key, e[1]))

\* BTreeSet over a sorted sequence of elements.
SetInsert(s, v) ==
    SelectSeq(s, LAMBDA e : Lt(e, v)) \o <<v>> \o SelectSeq(s, LAMBDA e : Lt(v, e))
SetErase(s, v) == SelectSeq(s, LAMBDA e : e # v)

-----------------------------------------------------------------------------
(* Byte forms.  A hash is <<prefix, bytes>>, prefix one of AddressOrder; a *)
(* decoder yields <<>> for an error and <<value>> otherwise.               *)

KeyHashTag == [tz1 |-> 0, tz2 |-> 1, tz3 |-> 2, tz4 |-> 3]
TAG_IMPLICIT == 0
OriginatedTag == [KT1 |-> 1, sr1 |-> 3]

KeyHashToBytes(kh) == <<KeyHashTag[kh[1]]>> \o kh[2]

KeyHashFromBytes(b) ==
    IF Len(b) = HASH_SIZE + 1 /\ \E p \in DOMAIN KeyHashTag : KeyHashTag[p] = b[1]
    THEN <<<<CHOOSE p \in DOMAIN KeyHashTag : KeyHashTag[p] = b[1], Tail(b)>>>>
    ELSE <<>>

AddressHashToBytes(h) ==
    IF h[1] \in DOMAIN OriginatedTag THEN <<OriginatedTag[h[1]]>> \o h[2] \o <<0>>
    ELSE <<TAG_IMPLICIT>> \o KeyHashToBytes(h)

\* At least HASH_SIZE + 2 bytes; the parts then check their exact size.
AddressHashFromBytes(b) ==
    IF Len(b) < HASH_SIZE + 2 THEN <<>>
    ELSE IF b[1] = TAG_IMPLICIT THEN KeyHashFromBytes(Tail(b))
    ELSE IF /\ \E p \in DOMAIN OriginatedTag : OriginatedTag[p] = b[1]
            /\ b[Len(b)] = 0
            /\ Len(b) = HASH_SIZE + 2
         THEN <<<<CHOOSE p \in DOMAIN OriginatedTag : OriginatedTag[p] = b[1],
                  SubSeq(b, 2, Len(b) - 1)>>>>
         ELSE <<>>

\* check_ep_name.
check_ep_name(s) ==
    /\ check_ep_name_len(s)
    /\ \A k \in DOMAIN s : AlphaNum(s[k]) \/ (k > 1 /\ s[k] \in {46, 37, 64})

\* From bytes the default entrypoint may not be spelled out.
EntrypointFromBytes(s) ==
    CASE s = <<>> -> <<DefaultEp>>
      [] s # <<>> /\ check_ep_name(s) /\ s # DefaultEp -> <<s>>
      [] OTHER -> <<>>
EntrypointFromStr(s) ==
    CASE s = <<>> -> <<DefaultEp>>
      [] s # <<>> /\ check_ep_name(s) -> <<s>>
      [] OTHER -> <<>>

AddressToBytes(hash, ep) ==
    AddressHashToBytes(hash) \o (IF ep = DefaultEp THEN <<>> ELSE ep)

AddressOf(hash, ep) ==
    IF hash = <<>> \/ ep = <<>> THEN <<>> ELSE <<[hash |-> hash[1], ep |-> ep[1]]>>

AddressFromBytes(b) ==
    IF Len(b) < HASH_SIZE + 2 THEN <<>>
    ELSE AddressOf(AddressHashFromBytes(SubSeq(b, 1, HASH_SIZE + 2)),
                   EntrypointFromBytes(SubSeq(b, HASH_SIZE + 3, Len(b))))

\* Key sizes differ by curve; the code first asks for MIN_BYTE_SIZE bytes.
KeyTag == [ed25519 |-> 0, secp256k1 |-> 1, p256 |-> 2, bls |-> 3]
KeySize == [ed25519 |-> KEY_SIZE, secp256k1 |-> KEY_SIZE + 1,
            p256 |-> KEY_SIZE + 1, bls |-> KEY_SIZE + 2]
KeyToBytes(key) == <<KeyTag[key[2]]>> \o key[3]
KeyFromBytes(b) ==
    IF Len(b) < KEY_SIZE THEN <<>>
    ELSE LET curves == {c \in DOMAIN KeyTag : KeyTag[c] = b[1] /\ Len(b) = KeySize[c] + 1}
         IN  IF curves = {} THEN <<>> ELSE <<<<"key", CHOOSE c \in curves : TRUE, Tail(b)>>>>

\* Key::hash: the curve gives the prefix; the hash itself is external.
PrefixOfCurve == [ed25519 |-> "tz1", secp256k1 |-> "tz2", p256 |-> "tz3", bls |-> "tz4"]
HashKey(key) == <<"key_hash", <<PrefixOfCurve[key[2]], SubSeq(key[3], 1, HASH_SIZE)>>>>

\* Signatures carry no tag: their size tells bls from the others, which become
\* generic.
SignatureFromBytes(b) ==
    CASE Len(b) = SIG_SIZE -> <<<<"signature", "generic", b>>>>
      [] Len(b) = SIG_SIZE + 1 -> <<<<"signature", "bls", b>>>>
      [] OTHER -> <<>>

\* Signature::check: a signature of the curve of the key, or a generic one if
\* the key is not bls.  Verifies is the external primitive.
Verifies(key, sig, msg) == sig[3][1] = (key[3][1] + Len(msg)) % 256
check_signature(key, sig, msg) ==
    /\ sig[2] = key[2] \/ (sig[2] = "generic" /\ key[2] # "bls")
    /\ Verifies(key, sig, msg)

\* base58check: characters out of the range of any other string; the prefix
\* names the kind.
B58Kinds == AddressOrder \o <<"edpk", "sppk", "p2pk", "BLpk",
                              "edsig", "spsig1", "p2sig", "BLsig", "sig", "Net">>
B58(kind, bytes) ==
    <<300 + Rank(B58Kinds, kind)>> \o [k \in DOMAIN bytes |-> 1000 + bytes[k]]
B58Kind(s) ==
    IF s # <<>> /\ s[1] \in 301..(300 + Len(B58Kinds)) THEN B58Kinds[s[1] - 300] ELSE ""
B58Payload(s) == [k \in 1..(Len(s) - 1) |-> s[k + 1] - 1000]

\* The text before and after the first '%'.
SplitPercent(s) ==
    LET at == {k \in DOMAIN s : s[k] = 37}
    IN  IF at = {} THEN <<s, <<>>>>
        ELSE <<SubSeq(s, 1, Min(at) - 1), SubSeq(s, Min(at) + 1, Len(s))>>

KeyHashFromB58(s) ==
    IF B58Kind(s) \in DOMAIN KeyHashTag /\ Len(B58Payload(s)) = HASH_SIZE
    THEN <<<<B58Kind(s), B58Payload(s)>>>> ELSE <<>>
AddressHashFromB58(s) ==
    IF B58Kind(s) \in ToSet(AddressOrder) /\ Len(B58Payload(s)) = HASH_SIZE
    THEN <<<<B58Kind(s), B58Payload(s)>>>> ELSE <<>>
AddressFromB58(s) ==
    AddressOf(AddressHashFromB58(SplitPercent(s)[1]), EntrypointFromStr(SplitPercent(s)[2]))
KeyPrefix == [edpk |-> "ed25519", sppk |-> "secp256k1", p2pk |-> "p256", BLpk |-> "bls"]
KeyFromB58(s) ==
    IF /\ B58Kind(s) \in DOMAIN KeyPrefix
       /\ Len(B58Payload(s)) = KeySize[KeyPrefix[B58Kind(s)]]
    THEN <<<<"key", KeyPrefix[B58Kind(s)], B58Payload(s)>>>> ELSE <<>>

SigPrefix == [edsig |-> "ed25519", spsig1 |-> "secp256k1", p2sig |-> "p256",
              BLsig |-> "bls", sig |-> "generic"]
\* The size of a BLS signature in base58 is not checked.
SignatureFromB58(s) ==
    IF /\ B58Kind(s) \in DOMAIN SigPrefix
       /\ B58Kind(s) # "BLsig" => Len(B58Payload(s)) = SIG_SIZE
    THEN <<<<"signature", SigPrefix[B58Kind(s)], B58Payload(s)>>>> ELSE <<>>

-----------------------------------------------------------------------------
(* BLS12-381: a point is its exponent to the base of the generator, a       *)
(* scalar an integer modulo the order (bls/fr.rs, g1.rs, g2.rs, pairing.rs).*)

LittleEndian(n, size) == [k \in 1..size |-> (n \div 256^(k - 1)) % 256]
FromLittleEndian(b) == FoldSeq(LAMBDA x, acc : x + 256 * acc, 0, b)

\* Fr::from_bytes: shorter input is padded with zeros; the scalar must be in
\* the field.
FrFromBytes(b) ==
    IF Len(b) > FR_SIZE \/ FromLittleEndian(b) >= FR_ORDER THEN <<>>
    ELSE <<FromLittleEndian(b)>>
FrToBytes(x) == LittleEndian(x, FR_SIZE)
FrFromBigInt(i) == i % FR_ORDER

\* G1::from_bytes, G2::from_bytes: exactly the serialized size, and a point of
\* the group.
PointFromBytes(b) ==
    IF Len(b) # FR_SIZE + 1 \/ FromLittleEndian(b) >= FR_ORDER THEN <<>>
    ELSE <<FromLittleEndian(b)>>
PointToBytes(p) == LittleEndian(p, FR_SIZE + 1)

BlsAdd(a, b) == (a + b) % FR_ORDER
BlsMul(a, b) == (a * b) % FR_ORDER
BlsNeg(a) == (-a) % FR_ORDER

\* The product of the pairings is one.
pairing_check(pairs) ==
    FoldSeq(LAMBDA p, acc : (acc + p[2][2] * p[3][2]) % FR_ORDER, 0, pairs) = 0

-----------------------------------------------------------------------------
(* Values to Micheline, in the optimized legacy form of PACK               *)

OptionToMicheline(ms) == IF ms = <<>> THEN prim0("None") ELSE prim1("Some", ms[1])

RECURSIVE ToMicheline(_)

\* Closure::into_micheline_optimized_legacy.  An argument captured by APPLY is
\* pushed back by the code.
RECURSIVE ClosureToMicheline(_)
ClosureToMicheline(c) ==
    CASE c.kind = "Lambda" -> c.code
      [] c.kind = "LambdaRec" -> prim1("Lambda_rec", c.code)
      [] c.kind = "Apply" ->
             LET push == prim2("PUSH", TypeToMicheline(c.arg_ty), ToMicheline(c.arg))
             IN  MSeq(<<push, prim0("PAIR")>> \o
                      IF c.closure.kind = "LambdaRec"
                      THEN <<prim3("LAMBDA_REC", TypeToMicheline(c.closure.in_ty),
                                   TypeToMicheline(c.closure.out_ty), c.closure.code),
                             prim0("SWAP"), prim0("EXEC")>>
                      ELSE <<ClosureToMicheline(c.closure)>>)

\* unwrap_ticket.
unwrap_ticket(t) ==
    PairV(<<"address", t.ticketer, DefaultEp>>, PairV(t.content, NatV(t.amount)))

\* An operation is written without its counter.
OperationToMicheline(o) ==
    CASE o.kind = "TransferTokens" ->
             prim3("Transfer_tokens", ToMicheline(o.param),
                   MBytes(AddressToBytes(o.dest[1], o.dest[2])), MInt(o.amount))
      [] o.kind = "SetDelegate" ->
             prim1("Set_delegate",
                   OptionToMicheline([k \in DOMAIN o.delegate |-> MBytes(KeyHashToBytes(o.delegate[k]))]))
      [] o.kind = "Emit" ->
             <<"App", "Emit", <<ToMicheline(o.param), o.ty>>,
               [k \in DOMAIN o.tag |-> <<"Field", o.tag[k]>>]>>
      [] o.kind = "CreateContract" ->
             <<"App", "Create_contract",
               <<o.code,
                 OptionToMicheline([k \in DOMAIN o.delegate |->
                     MBytes(AddressToBytes(o.delegate[k], DefaultEp))]),
                 MInt(o.amount), ToMicheline(o.param)>>, <<>>>>

\* A big_map is its id, its changes, or both.
BigMapToMicheline(v) ==
    LET map_part == MSeq([k \in DOMAIN v[3] |->
                        prim2("Elt", ToMicheline(v[3][k][1]),
                              OptionToMicheline([j \in DOMAIN v[3][k][2] |->
                                  ToMicheline(v[3][k][2][j])]))])
    IN  CASE v[2] = <<>> -> map_part
          [] v[2] # <<>> /\ v[3] = <<>> -> MInt(v[2][1])
          [] v[2] # <<>> /\ v[3] # <<>> -> prim2("Pair", MInt(v[2][1]), map_part)

ToMicheline(v) ==
    CASE v[1] \in {"int", "nat", "mutez", "timestamp"} -> MInt(v[2])
      [] v[1] = "bool" -> prim0(IF v[2] THEN "True" ELSE "False")
      [] v[1] = "string" -> MString(v[2])
      [] v[1] = "unit" -> prim0("Unit")
      [] v[1] = "pair" -> prim2("Pair", ToMicheline(v[2]), ToMicheline(v[3]))
      [] v[1] \in {"list", "set"} -> MSeq([k \in DOMAIN v[2] |-> ToMicheline(v[2][k])])
      [] v[1] = "map" ->
             MSeq([k \in DOMAIN v[2] |->
                      prim2("Elt", ToMicheline(v[2][k][1]), ToMicheline(v[2][k][2]))])
      [] v[1] = "big_map" -> BigMapToMicheline(v)
      [] v[1] = "option" ->
             OptionToMicheline([k \in DOMAIN v[2] |-> ToMicheline(v[2][k])])
      [] v[1] = "or" -> prim1(v[2], ToMicheline(v[3]))
      [] v[1] \in {"address", "contract"} -> MBytes(AddressToBytes(v[2], v[3]))
      [] v[1] \in {"chain_id", "bytes"} -> MBytes(v[2])
      [] v[1] = "key" -> MBytes(KeyToBytes(v))
      [] v[1] = "signature" -> MBytes(v[3])
      [] v[1] = "key_hash" -> MBytes(KeyHashToBytes(v[2]))
      [] v[1] = "lambda" -> ClosureToMicheline(v[2])
      [] v[1] = "bls12_381_fr" -> MBytes(FrToBytes(v[2]))
      [] v[1] \in {"bls12_381_g1", "bls12_381_g2"} -> MBytes(PointToBytes(v[2]))
      [] v[1] = "operation" -> OperationToMicheline(v[2])
      [] v[1] = "ticket" -> ToMicheline(unwrap_ticket(v[2]))
==============================================================================
