------------------------------ MODULE Micheline ------------------------------
(***************************************************************************)
(* Micheline, the syntax of Michelson, as MIR holds it                     *)
(* (contrib/mir/src/ast/micheline.rs, ast/annotations.rs, lexer.rs), with  *)
(* its macros (parser/macros.rs).                                          *)
(*                                                                         *)
(* A node is <<"Int", n>>, <<"String", chars>>, <<"Bytes", bytes>>,        *)
(* <<"App", prim, args, annotations>> or <<"Seq", nodes>>; strings are     *)
(* sequences of character codes.                                           *)
(***************************************************************************)
EXTENDS Integers, Sequences, SequencesExt

MInt(n) == <<"Int", n>>
MString(s) == <<"String", s>>
MBytes(b) == <<"Bytes", b>>
MSeq(ms) == <<"Seq", ms>>

\* Micheline::prim0 .. prim3: applications without annotations.
prim0(p) == <<"App", p, <<>>, <<>>>>
prim1(p, a) == <<"App", p, <<a>>, <<>>>>
prim2(p, a, b) == <<"App", p, <<a, b>>, <<>>>>
prim3(p, a, b, c) == <<"App", p, <<a, b, c>>, <<>>>>

IsApp(m, p) == m[1] = "App" /\ m[2] = p

\* The primitives, in the order of their binary codes.
Prims == <<
  "parameter", "storage", "code", "False", "Elt", "Left", "None", "Pair",
  "Right", "Some", "True", "Unit", "PACK", "UNPACK", "BLAKE2B", "SHA256",
  "SHA512", "ABS", "ADD", "AMOUNT", "AND", "BALANCE", "CAR", "CDR",
  "CHECK_SIGNATURE", "COMPARE", "CONCAT", "CONS", "CREATE_ACCOUNT",
  "CREATE_CONTRACT", "IMPLICIT_ACCOUNT", "DIP", "DROP", "DUP", "EDIV",
  "EMPTY_MAP", "EMPTY_SET", "EQ", "EXEC", "FAILWITH", "GE", "GET", "GT",
  "HASH_KEY", "IF", "IF_CONS", "IF_LEFT", "IF_NONE", "INT", "LAMBDA", "LE",
  "LEFT", "LOOP", "LSL", "LSR", "LT", "MAP", "MEM", "MUL", "NEG", "NEQ",
  "NIL", "NONE", "NOT", "NOW", "OR", "PAIR", "PUSH", "RIGHT", "SIZE", "SOME",
  "SOURCE", "SENDER", "SELF", "STEPS_TO_QUOTA", "SUB", "SWAP",
  "TRANSFER_TOKENS", "SET_DELEGATE", "UNIT", "UPDATE", "XOR", "ITER",
  "LOOP_LEFT", "ADDRESS", "CONTRACT", "ISNAT", "CAST", "RENAME", "bool",
  "contract", "int", "key", "key_hash", "lambda", "list", "map", "big_map",
  "nat", "option", "or", "pair", "set", "signature", "string", "bytes",
  "mutez", "timestamp", "unit", "operation", "address", "SLICE", "DIG", "DUG",
  "EMPTY_BIG_MAP", "APPLY", "chain_id", "CHAIN_ID", "LEVEL", "SELF_ADDRESS",
  "never", "NEVER", "UNPAIR", "VOTING_POWER", "TOTAL_VOTING_POWER", "KECCAK",
  "SHA3", "PAIRING_CHECK", "bls12_381_g1", "bls12_381_g2", "bls12_381_fr",
  "sapling_state", "sapling_transaction_deprecated", "SAPLING_EMPTY_STATE",
  "SAPLING_VERIFY_UPDATE", "ticket", "TICKET_DEPRECATED", "READ_TICKET",
  "SPLIT_TICKET", "JOIN_TICKETS", "GET_AND_UPDATE", "chest", "chest_key",
  "OPEN_CHEST", "VIEW", "view", "constant", "SUB_MUTEZ",
  "tx_rollup_l2_address", "MIN_BLOCK_TIME", "sapling_transaction", "EMIT",
  "Lambda_rec", "LAMBDA_REC", "TICKET", "BYTES", "NAT", "Transfer_tokens",
  "Set_delegate", "Create_contract", "Emit" >>

\* Prim::encode: the discriminant of the variant.
PrimCode(p) == (CHOOSE k \in 1..Len(Prims) : Prims[k] = p) - 1

-----------------------------------------------------------------------------
(* The macros of the parser (parser/macros.rs).                            *)

MacroFail == MSeq(<<prim0("UNIT"), prim0("FAILWITH")>>)
MacroCmp(op) == MSeq(<<prim0("COMPARE"), prim0(op)>>)
MacroAssert == prim2("IF", MSeq(<<>>), MSeq(<<MacroFail>>))

\* A macro is its name, with the number of Is or Us of DII+P and DUU+P; <<>> is
\* an unexpected number of arguments.
expand_macro(name, count, args) ==
    LET n == Len(args)
        plain(m) == IF n = 0 THEN <<m>> ELSE <<>>
        two(m) == IF n = 2 THEN <<m>> ELSE <<>>
    IN  CASE name = "CMPEQ" -> plain(MacroCmp("EQ"))
          [] name = "CMPLE" -> plain(MacroCmp("LE"))
          [] name = "IF_SOME" -> two(MSeq(<<prim2("IF_NONE", args[2], args[1])>>))
          [] name = "IFCMPEQ" ->
                 two(MSeq(<<prim0("COMPARE"), prim0("EQ"), prim2("IF", args[1], args[2])>>))
          [] name = "IFCMPLE" ->
                 two(MSeq(<<prim0("COMPARE"), prim0("LE"), prim2("IF", args[1], args[2])>>))
          [] name = "ASSERT" -> plain(MSeq(<<MacroAssert>>))
          [] name = "ASSERT_CMPEQ" -> plain(MSeq(<<MacroCmp("EQ"), MacroAssert>>))
          [] name = "ASSERT_CMPLE" -> plain(MSeq(<<MacroCmp("LE"), MacroAssert>>))
          [] name = "FAIL" -> plain(MacroFail)
          [] name = "DIIP" -> IF n = 1 THEN <<prim2("DIP", MInt(count), args[1])>> ELSE <<>>
          [] name = "DUUP" -> plain(prim1("DUP", MInt(count)))

-----------------------------------------------------------------------------
(* Annotations: <<"Field", chars>>, <<"Variable", chars>>, <<"Type",       *)
(* chars>> without their prefix, and <<"Special", chars>> verbatim.        *)

AnnotationPrefix == [Field |-> <<37>>, Variable |-> <<64>>, Type |-> <<58>>, Special |-> <<>>]

AnnotationSize(a) == Len(AnnotationPrefix[a[1]]) + Len(a[2])

\* At most one field annotation, which is the name of an entrypoint or of the
\* event of EMIT.
get_single_field_ann(anns) ==
    LET fields == SelectSeq(anns, LAMBDA a : a[1] = "Field")
    IN  CASE Len(fields) = 0 -> [out |-> "none"]
          [] Len(fields) = 1 -> [out |-> "some", ann |-> fields[1][2]]
          [] OTHER -> [out |-> "TooManyFieldAnns"]

---------------------------------------------------------------------------
(***************************************************************************)
(* The binary form of Micheline that PACK and UNPACK use                   *)
(* (contrib/mir/src/serializer/encode.rs and decode.rs).                   *)
(***************************************************************************)
NUMBER_TAG == 0
STRING_TAG == 1
SEQ_TAG == 2
BYTES_TAG == 10
APP_GENERIC == 9
PACK_TAG == 5

\* Applications to 0, 1 and 2 arguments, without and with annotations.
AppTag(nargs, annotated) == 3 + 2 * nargs + (IF annotated THEN 1 ELSE 0)

\* Length as 4 bytes, the most significant first (put_len, get_len).
put_len(n) == [k \in 1..4 |-> (n \div 256^(4 - k)) % 256]

WithLen(bytes) == put_len(Len(bytes)) \o bytes

\* Zarith::bin_write (tezos_data_encoding): sign in bit 6 of the first byte,
\* which carries 6 bits, then 7 bits a byte, the least significant first; bit 7
\* says that another byte follows.
RECURSIVE ZarithRest(_)
ZarithRest(n) == IF n < 128 THEN <<n>> ELSE <<128 + (n % 128)>> \o ZarithRest(n \div 128)

Zarith(n) ==
    LET a == IF n < 0 THEN -n ELSE n
        first == (a % 64) + (IF n < 0 THEN 64 ELSE 0)
    IN  IF a < 64 THEN <<first>> ELSE <<first + 128>> \o ZarithRest(a \div 64)

EncodeAnnotation(a) == AnnotationPrefix[a[1]] \o a[2]

\* Annotations::encode_bytes: separated by a space.
EncodeAnnotations(anns) ==
    WithLen(FlattenSeq([k \in 1..Len(anns) |->
                (IF k = 1 THEN <<>> ELSE <<32>>) \o EncodeAnnotation(anns[k])]))

RECURSIVE encode_micheline(_)
\* AppEncoder::encode: up to two arguments have tags of their own.
EncodeApp(prim, args, anns) ==
    LET body == FlattenSeq([k \in 1..Len(args) |-> encode_micheline(args[k])])
    IN  IF Len(args) <= 2
        THEN <<AppTag(Len(args), anns # <<>>), PrimCode(prim)>> \o body
                \o (IF anns = <<>> THEN <<>> ELSE EncodeAnnotations(anns))
        ELSE <<APP_GENERIC, PrimCode(prim)>> \o WithLen(body) \o EncodeAnnotations(anns)

encode_micheline(m) ==
    CASE m[1] = "Int" -> <<NUMBER_TAG>> \o Zarith(m[2])
      [] m[1] = "String" -> <<STRING_TAG>> \o WithLen(m[2])
      [] m[1] = "Bytes" -> <<BYTES_TAG>> \o WithLen(m[2])
      [] m[1] = "Seq" ->
             <<SEQ_TAG>> \o WithLen(FlattenSeq([k \in 1..Len(m[2]) |-> encode_micheline(m[2][k])]))
      [] m[1] = "App" -> EncodeApp(m[2], m[3], m[4])

encode_for_pack(m) == <<PACK_TAG>> \o encode_micheline(m)

-----------------------------------------------------------------------------
(* Decoding yields a value and the bytes left, or an error.                *)

Got(val, rest) == [err |-> "", val |-> val, rest |-> rest]
Fails(e) == [err |-> e, val |-> <<>>, rest |-> <<>>]

\* The ? operator: the rest of a function, given a value and what follows it.
Proceed(r, f(_, _)) == IF r.err # "" THEN r ELSE f(r.val, r.rest)

\* BytesIt::take.
take(bytes, n) ==
    IF Len(bytes) < n THEN Fails("UnexpectedEOF")
    ELSE Got(SubSeq(bytes, 1, n), SubSeq(bytes, n + 1, Len(bytes)))

\* A length above MaxLen cannot be met by the bytes at hand.
MaxLen == 65536
get_len(bytes) ==
    LET r == take(bytes, 4)
    IN  IF r.err # "" THEN r
        ELSE Got(IF r.val[1] # 0 \/ r.val[2] # 0 THEN MaxLen
                 ELSE r.val[3] * 256 + r.val[4], r.rest)

get_bytes(bytes) ==
    Proceed(get_len(bytes), LAMBDA n, rest : take(rest, n))

\* The bits of the bytes that follow the first, the weight of the next one given.
RECURSIVE decode_int_rest(_, _, _)
decode_int_rest(bytes, weight, acc) ==
    IF bytes = <<>> THEN Fails("UnexpectedEOF")
    ELSE LET b == Head(bytes)
             n == acc + (b % 128) * weight
         IN  IF b < 128 THEN Got(n, Tail(bytes))
             ELSE decode_int_rest(Tail(bytes), weight * 128, n)

decode_int(bytes) ==
    IF bytes = <<>> THEN Fails("UnexpectedEOF")
    ELSE LET b == Head(bytes)
             negative == (b \div 64) % 2 = 1
         IN  Proceed(IF b < 128 THEN Got(b % 64, Tail(bytes))
                      ELSE decode_int_rest(Tail(bytes), 64, b % 64),
                      LAMBDA n, rest : Got(MInt(IF negative THEN -n ELSE n), rest))

\* validate_str: printable ASCII and line ends.
PrintableChar(c) == c \in 32..126 \/ c \in {10, 13}

decode_string(bytes) ==
    Proceed(get_bytes(bytes), LAMBDA s, rest :
        IF \A k \in DOMAIN s : PrintableChar(s[k]) THEN Got(MString(s), rest)
        ELSE Fails("ForbiddenStringCharacter"))

decode_bytes(bytes) ==
    Proceed(get_bytes(bytes), LAMBDA b, rest : Got(MBytes(b), rest))

\* validate_ann and try_ann_from_str.
AlphaNum(c) == c = 95 \/ c \in 48..57 \/ c \in 97..122 \/ c \in 65..90

validate_ann(s) ==
    CASE s \in {<<64, 37>>, <<64, 37, 37>>, <<37, 64>>} -> Got(<<"Special", s>>, <<>>)
      [] /\ Len(s) >= 2
         /\ s[1] \in {37, 58, 64}
         /\ AlphaNum(s[2])
         /\ \A k \in 3..Len(s) : AlphaNum(s[k]) \/ s[k] \in {46, 37, 64} ->
             Got(<<CASE s[1] = 37 -> "Field" [] s[1] = 64 -> "Variable" [] s[1] = 58 -> "Type",
                   Tail(s)>>, <<>>)
      [] OTHER -> Fails("BadAnnotation")

\* The pieces of s between spaces.
RECURSIVE SplitSpaces(_)
SplitSpaces(s) ==
    IF \E k \in DOMAIN s : s[k] = 32
    THEN LET k == CHOOSE k \in DOMAIN s : s[k] = 32 /\ \A j \in 1..(k-1) : s[j] # 32
         IN  <<SubSeq(s, 1, k - 1)>> \o SplitSpaces(SubSeq(s, k + 1, Len(s)))
    ELSE <<s>>

validate_anns(pieces) == [k \in DOMAIN pieces |-> validate_ann(pieces[k])]

AllAnns(anns, rest) ==
    IF \E k \in DOMAIN anns : anns[k].err # "" THEN Fails("BadAnnotation")
    ELSE Got([k \in DOMAIN anns |-> anns[k].val], rest)

decode_anns(bytes) ==
    Proceed(get_bytes(bytes), LAMBDA s, rest :
        IF s = <<>> THEN Got(<<>>, rest) ELSE AllAnns(validate_anns(SplitSpaces(s)), rest))

RECURSIVE decode_micheline(_)

\* n consecutive nodes.
RECURSIVE decode_nodes(_, _)
decode_nodes(bytes, n) ==
    IF n = 0 THEN Got(<<>>, bytes)
    ELSE Proceed(decode_micheline(bytes), LAMBDA first, more :
             Proceed(decode_nodes(more, n - 1), LAMBDA others, rest :
                 Got(<<first>> \o others, rest)))

\* All the nodes of a buffer.
RECURSIVE decode_all(_)
decode_all(bytes) ==
    IF bytes = <<>> THEN Got(<<>>, <<>>)
    ELSE Proceed(decode_micheline(bytes), LAMBDA first, more :
             Proceed(decode_all(more), LAMBDA others, rest :
                 Got(<<first>> \o others, rest)))

decode_seq_raw(bytes) ==
    Proceed(get_bytes(bytes), LAMBDA body, rest :
        Proceed(decode_all(body), LAMBDA nodes, none : Got(nodes, rest)))

\* nargs is 0, 1, 2 or 3 for NumArgs::Many.
decode_app(nargs, annotated, bytes) ==
    IF bytes = <<>> THEN Fails("UnexpectedEOF")
    ELSE IF Head(bytes) >= Len(Prims) THEN Fails("UnknownPrim")
    ELSE Proceed(IF nargs = 3 THEN decode_seq_raw(Tail(bytes))
                  ELSE decode_nodes(Tail(bytes), nargs), LAMBDA args, more :
             Proceed(IF annotated THEN decode_anns(more) ELSE Got(<<>>, more),
                      LAMBDA anns, rest :
                 Got(<<"App", Prims[Head(bytes) + 1], args, anns>>, rest)))

decode_micheline(bytes) ==
    IF bytes = <<>> THEN Fails("UnexpectedEOF")
    ELSE LET tag == Head(bytes)
             body == Tail(bytes)
         IN  CASE tag = NUMBER_TAG -> decode_int(body)
               [] tag = STRING_TAG -> decode_string(body)
               [] tag = SEQ_TAG ->
                      Proceed(decode_seq_raw(body), LAMBDA nodes, rest :
                          Got(MSeq(nodes), rest))
               [] tag = BYTES_TAG -> decode_bytes(body)
               [] tag \in 3..8 -> decode_app((tag - 3) \div 2, (tag - 3) % 2 = 1, body)
               [] tag = APP_GENERIC -> decode_app(3, TRUE, body)
               [] OTHER -> Fails("UnknownTag")

decode_raw(bytes) ==
    Proceed(decode_micheline(bytes), LAMBDA node, rest :
        IF rest # <<>> THEN Fails("TrailingBytes") ELSE Got(node, <<>>))

decode_packed(bytes) ==
    IF bytes = <<>> \/ Head(bytes) # PACK_TAG THEN Fails("NoPackTag")
    ELSE decode_raw(Tail(bytes))
==============================================================================
