----------------------------- MODULE SdkMicheline -----------------------------
(***************************************************************************)
(* The Michelson encodings of the kernel SDK                               *)
(* (kernel_sdk/encoding/src/michelson.rs, michelson/micheline.rs,          *)
(* contract.rs, public_key_hash.rs): what a kernel reads from L1 messages  *)
(* and writes to the outbox.  The SDK has a codec of its own, beside the   *)
(* one MIR uses for PACK (MichelineCodec).                                 *)
(*                                                                         *)
(* Values and types are written as MIR's modules write them, so that the   *)
(* two implementations can be compared; a contract is an address value     *)
(* with the default entrypoint.  A node is <<"Int", n>>, <<"String", s>>,  *)
(* <<"Bytes", b>>, <<"Seq", nodes>> or <<"Prim", tag, args, annots>>, an   *)
(* annotation its characters.  A reader yields Got(value, rest) or Fails;  *)
(* every nom error is one error, on which alt tries the next parser.       *)
(***************************************************************************)
EXTENDS MichelsonValues

NomError == Fails("Error")

\* nom: the parser f applied after g, tag, alt.
and_then(r, f(_, _)) == IF r.err # "" THEN r ELSE f(r.val, r.rest)
nom_map(r, f(_)) == IF r.err # "" THEN r ELSE Got(f(r.val), r.rest)
tag(bytes, expected) ==
    LET n == Len(expected)
    IN  IF Len(bytes) >= n /\ SubSeq(bytes, 1, n) = expected
        THEN Got(expected, SubSeq(bytes, n + 1, Len(bytes))) ELSE NomError
alt(a, b) == IF a.err = "Error" THEN b ELSE a

\* tezos_data_encoding: a size of 4 bytes, then a body that must be consumed.
enc_dynamic(body) == WithLen(body)
nom_bytes(bytes) == LET r == get_bytes(bytes) IN IF r.err # "" THEN NomError ELSE r
all_consuming(r) == IF r.err = "" /\ r.rest # <<>> THEN NomError ELSE r
nom_dynamic(bytes, parser(_)) ==
    and_then(nom_bytes(bytes), LAMBDA body, rest :
        LET r == all_consuming(parser(body)) IN IF r.err # "" THEN r ELSE Got(r.val, rest))

\* Zarith::nom_read.
nom_zarith(bytes) ==
    LET r == decode_int(bytes) IN IF r.err # "" THEN NomError ELSE Got(r.val[2], r.rest)

\* String: valid UTF-8, of which the model keeps the one-byte characters.
nom_string(bytes) ==
    and_then(nom_bytes(bytes), LAMBDA s, rest :
        IF \A k \in DOMAIN s : s[k] < 128 THEN Got(s, rest) ELSE NomError)

-----------------------------------------------------------------------------
(* Addresses                                                               *)

\* PublicKeyHash: tz1, tz2 and tz3 by tag; tz4 is not known to the SDK.
PkhTags == [tz1 |-> 0, tz2 |-> 1, tz3 |-> 2]
pkh_bin_write(h) == <<PkhTags[h[1]]>> \o h[2]
pkh_nom_read(bytes) ==
    IF bytes = <<>> \/ ~ \E p \in DOMAIN PkhTags : PkhTags[p] = Head(bytes) THEN NomError
    ELSE LET r == take(Tail(bytes), HASH_SIZE)
         IN  IF r.err # "" THEN NomError
             ELSE Got(<<CHOOSE p \in DOMAIN PkhTags : PkhTags[p] = Head(bytes), r.val>>, r.rest)

\* Mutant: an originated contract is not padded.
contract_bin_write_unpadded(h) ==
    IF h[1] = "KT1" THEN <<1>> \o h[2] ELSE <<0>> \o pkh_bin_write(h)

contract_bin_write(h) ==
    IF h[1] = "KT1" THEN <<1>> \o h[2] \o <<0>> ELSE <<0>> \o pkh_bin_write(h)

\* delimited(tag([1]), ContractKt1Hash::nom_read, tag([0])).
originated_nom_read(bytes) ==
    and_then(tag(bytes, <<1>>), LAMBDA t, body :
        LET r == take(body, HASH_SIZE)
        IN  IF r.err # "" THEN NomError
            ELSE and_then(tag(r.rest, <<0>>), LAMBDA pad, rest : Got(<<"KT1", r.val>>, rest)))

contract_nom_read(bytes) ==
    alt(and_then(tag(bytes, <<0>>), LAMBDA t, body : pkh_nom_read(body)), originated_nom_read(bytes))

\* base58check: <<>> for an error.
pkh_from_b58check(s) ==
    IF B58Kind(s) \in DOMAIN PkhTags /\ Len(B58Payload(s)) = HASH_SIZE
    THEN <<<<B58Kind(s), B58Payload(s)>>>> ELSE <<>>
contract_from_b58check(s) ==
    IF B58Kind(s) = "KT1"
    THEN IF Len(B58Payload(s)) = HASH_SIZE THEN <<<<"KT1", B58Payload(s)>>>> ELSE <<>>
    ELSE pkh_from_b58check(s)
to_b58check(h) == B58(h[1], h[2])

-----------------------------------------------------------------------------
(* Micheline nodes                                                         *)

MICHELINE_INT_TAG == 0
MICHELINE_STRING_TAG == 1
MICHELINE_SEQ_TAG == 2
MICHELINE_PRIM_GENERIC_TAG == 9
MICHELINE_BYTES_TAG == 10
\* Tags 3 to 8: no, one or two arguments, without and with annotations.
PrimTags == [nargs \in 0..2 |-> [annotated \in BOOLEAN |->
                CASE nargs = 0 -> (IF annotated THEN 4 ELSE 3)
                  [] nargs = 1 -> (IF annotated THEN 6 ELSE 5)
                  [] nargs = 2 -> (IF annotated THEN 8 ELSE 7)]]

\* Display for Annotations: joined by spaces.
annots_bin_write(annots) ==
    enc_dynamic(FlattenSeq([k \in DOMAIN annots |->
        (IF k = 1 THEN <<>> ELSE <<32>>) \o annots[k]]))

\* ^[@:$&%!?][a-zA-Z0-9_.%@]*$
IsAnnotation(s) ==
    /\ s[1] \in {64, 58, 36, 38, 37, 33, 63}
    /\ \A k \in 2..Len(s) : AlphaNum(s[k]) \/ s[k] \in {46, 37, 64}

annots_nom_read(bytes) ==
    and_then(nom_string(bytes), LAMBDA s, rest :
        LET anns == SelectSeq(SplitSpaces(s), LAMBDA a : a # <<>>)
        IN  IF \A k \in DOMAIN anns : IsAnnotation(anns[k]) THEN Got(anns, rest) ELSE NomError)

\* nom_read_tagged_micheline and its three uses.
nom_read_micheline_int(bytes) ==
    and_then(tag(bytes, <<MICHELINE_INT_TAG>>), LAMBDA t, body : nom_zarith(body))
nom_read_micheline_string(bytes) ==
    and_then(tag(bytes, <<MICHELINE_STRING_TAG>>), LAMBDA t, body : nom_string(body))
nom_read_micheline_bytes(bytes, parser(_)) ==
    and_then(tag(bytes, <<MICHELINE_BYTES_TAG>>), LAMBDA t, body : nom_dynamic(body, parser))

\* nom_read::bytes: all that is left.
rest_of(bytes) == Got(bytes, <<>>)

bin_write_micheline_int(n) == <<MICHELINE_INT_TAG>> \o Zarith(n)
bin_write_micheline_string(s) == <<MICHELINE_STRING_TAG>> \o enc_dynamic(s)
bin_write_micheline_bytes(b) == <<MICHELINE_BYTES_TAG>> \o enc_dynamic(b)
bin_write_micheline_seq(body) == <<MICHELINE_SEQ_TAG>> \o enc_dynamic(body)

\* bin_write_prim_{no_args, 1_arg, 2_args}_{no, some}_annots, given the bytes of
\* the arguments.
bin_write_prim(nargs, prim, body, annots) ==
    <<PrimTags[nargs][annots # <<>>], prim>> \o body
        \o (IF annots = <<>> THEN <<>> ELSE annots_bin_write(annots))

bin_write_prim_generic(prim, body, annots) ==
    <<MICHELINE_PRIM_GENERIC_TAG, prim>> \o enc_dynamic(body) \o annots_bin_write(annots)

RECURSIVE node_bin_write(_)
node_bin_write(n) ==
    CASE n[1] = "Int" -> bin_write_micheline_int(n[2])
      [] n[1] = "String" -> bin_write_micheline_string(n[2])
      [] n[1] = "Bytes" -> bin_write_micheline_bytes(n[2])
      [] n[1] = "Seq" ->
             bin_write_micheline_seq(FlattenSeq([k \in DOMAIN n[2] |-> node_bin_write(n[2][k])]))
      [] n[1] = "Prim" ->
             LET body == FlattenSeq([k \in DOMAIN n[3] |-> node_bin_write(n[3][k])])
             IN  IF Len(n[3]) <= 2 THEN bin_write_prim(Len(n[3]), n[2], body, n[4])
                 ELSE bin_write_prim_generic(n[2], body, n[4])

RECURSIVE node_nom_read(_)

\* nom_read::list: as many nodes as the bytes hold, the first error ends it.
RECURSIVE nom_list(_)
nom_more(bytes, r) ==
    IF r.err # "" THEN Got(<<>>, bytes)
    ELSE nom_map(nom_list(r.rest), LAMBDA others : <<r.val>> \o others)
nom_list(bytes) == nom_more(bytes, IF bytes = <<>> THEN NomError ELSE node_nom_read(bytes))

\* n nodes, as pair and tuple read them.
RECURSIVE nom_nodes(_, _)
nom_nodes(bytes, n) ==
    IF n = 0 THEN Got(<<>>, bytes)
    ELSE and_then(node_nom_read(bytes), LAMBDA a, rest :
             nom_map(nom_nodes(rest, n - 1), LAMBDA others : <<a>> \o others))

\* nom_read_app_aux: the tag of the form, the primitive, then what follows.
nom_read_app_aux(bytes, form, next(_)) ==
    and_then(tag(bytes, <<form>>), LAMBDA t, body :
        IF body = <<>> THEN NomError
        ELSE nom_map(next(Tail(body)), LAMBDA p : <<"Prim", Head(body), p[1], p[2]>>))

\* The forms in the order they are tried: tag, number of arguments (3 is a
\* list), annotations.
PrimForms ==
    <<<<PrimTags[0][FALSE], 0, FALSE>>, <<PrimTags[0][TRUE], 0, TRUE>>,
      <<PrimTags[1][FALSE], 1, FALSE>>, <<PrimTags[1][TRUE], 1, TRUE>>,
      <<PrimTags[2][FALSE], 2, FALSE>>, <<PrimTags[2][TRUE], 2, TRUE>>,
      <<MICHELINE_PRIM_GENERIC_TAG, 3, TRUE>>>>

\* The arguments of a form with its annotations, if it has any.
args_and_annots(bytes, nargs, annotated) ==
    and_then(IF nargs = 3 THEN nom_dynamic(bytes, nom_list) ELSE nom_nodes(bytes, nargs),
         LAMBDA args, rest :
             IF annotated THEN nom_map(annots_nom_read(rest), LAMBDA anns : <<args, anns>>)
             ELSE Got(<<args, <<>>>>, rest))

nom_read_app(bytes) ==
    FoldLeft(LAMBDA r, f :
               alt(r, nom_read_app_aux(bytes, f[1], LAMBDA b : args_and_annots(b, f[2], f[3]))),
             NomError, PrimForms)

nom_read_seq(bytes) ==
    and_then(tag(bytes, <<MICHELINE_SEQ_TAG>>), LAMBDA t, body :
        nom_map(nom_dynamic(body, nom_list), LAMBDA ns : <<"Seq", ns>>))

node_nom_read(bytes) ==
    alt(nom_map(nom_read_micheline_int(bytes), LAMBDA n : <<"Int", n>>),
    alt(nom_map(nom_read_micheline_string(bytes), LAMBDA s : <<"String", s>>),
    alt(nom_map(nom_read_micheline_bytes(bytes, rest_of), LAMBDA b : <<"Bytes", b>>),
    alt(nom_read_seq(bytes), nom_read_app(bytes)))))

-----------------------------------------------------------------------------
(* Typed Michelson                                                         *)

LEFT_TAG == 5
NONE_TAG == 6
PAIR_TAG == 7
RIGHT_TAG == 8
SOME_TAG == 9
UNIT_TAG == 11
INT_TYPE_TAG == 91
NAT_TYPE_TAG == 98
OPTION_TYPE_TAG == 99
OR_TYPE_TAG == 100
PAIR_TYPE_TAG == 101
STRING_TYPE_TAG == 104
BYTES_TYPE_TAG == 105
UNIT_TYPE_TAG == 108
TICKET_TAG == 157

BytesV(b) == <<"bytes", b>>
ContractV(h) == <<"address", h, DefaultEp>>

\* MichelsonNat::new.
nat_new(n) == IF n >= 0 THEN <<NatV(n)>> ELSE <<>>

RECURSIVE bin_write(_)
pair_bin_write(v) == bin_write_prim(2, PAIR_TAG, bin_write(v[2]) \o bin_write(v[3]), <<>>)
or_bin_write(v) ==
    bin_write_prim(1, IF v[2] = "Left" THEN LEFT_TAG ELSE RIGHT_TAG, bin_write(v[3]), <<>>)
option_bin_write(v) ==
    IF v[2] = <<>> THEN bin_write_prim(0, NONE_TAG, <<>>, <<>>)
    ELSE bin_write_prim(1, SOME_TAG, bin_write(v[2][1]), <<>>)

bin_write(v) ==
    CASE v[1] = "address" -> bin_write_micheline_bytes(contract_bin_write(v[2]))
      [] v[1] = "unit" -> bin_write_prim(0, UNIT_TAG, <<>>, <<>>)
      [] v[1] = "pair" -> pair_bin_write(v)
      [] v[1] = "or" -> or_bin_write(v)
      [] v[1] = "option" -> option_bin_write(v)
      [] v[1] = "string" -> bin_write_micheline_string(v[2])
      [] v[1] = "bytes" -> bin_write_micheline_bytes(v[2])
      [] v[1] \in {"int", "nat"} -> bin_write_micheline_int(v[2])

RECURSIVE nom_read(_, _)
\* MichelinePrim{NoArgs, 1Arg, 2Args}NoAnnots::nom_read.
prim0_nom_read(bytes, prim, val) ==
    nom_map(tag(bytes, <<PrimTags[0][FALSE], prim>>), LAMBDA t : val)
prim1_nom_read(bytes, prim, ty, wrap(_)) ==
    and_then(tag(bytes, <<PrimTags[1][FALSE], prim>>), LAMBDA t, body :
        nom_map(nom_read(ty, body), wrap))

prim2_nom_read(bytes, prim, ty1, ty2, wrap(_, _)) ==
    and_then(tag(bytes, <<PrimTags[2][FALSE], prim>>), LAMBDA t, body :
        and_then(nom_read(ty1, body), LAMBDA a, rest :
            nom_map(nom_read(ty2, rest), LAMBDA b : wrap(a, b))))

address_nom_read(bytes) == nom_map(nom_read_micheline_bytes(bytes, contract_nom_read), ContractV)
unit_nom_read(bytes) == prim0_nom_read(bytes, UNIT_TAG, <<"unit">>)
pair_nom_read(ty, bytes) == prim2_nom_read(bytes, PAIR_TAG, ty[2], ty[3], PairV)
or_nom_read(ty, bytes) ==
    alt(prim1_nom_read(bytes, LEFT_TAG, ty[2], LAMBDA v : <<"or", "Left", v>>),
        prim1_nom_read(bytes, RIGHT_TAG, ty[3], LAMBDA v : <<"or", "Right", v>>))
option_nom_read(ty, bytes) ==
    alt(prim0_nom_read(bytes, NONE_TAG, NoneV), prim1_nom_read(bytes, SOME_TAG, ty[2], SomeV))
nat_nom_read(bytes) ==
    and_then(nom_read_micheline_int(bytes), LAMBDA n, rest :
        IF n >= 0 THEN Got(NatV(n), rest) ELSE NomError)

nom_read(ty, bytes) ==
    CASE ty[1] = "address" -> address_nom_read(bytes)
      [] ty[1] = "unit" -> unit_nom_read(bytes)
      [] ty[1] = "pair" -> pair_nom_read(ty, bytes)
      [] ty[1] = "or" -> or_nom_read(ty, bytes)
      [] ty[1] = "option" -> option_nom_read(ty, bytes)
      [] ty[1] = "string" ->
             nom_map(nom_read_micheline_string(bytes), LAMBDA s : <<"string", s>>)
      [] ty[1] = "bytes" -> nom_map(nom_read_micheline_bytes(bytes, rest_of), BytesV)
      [] ty[1] = "int" -> nom_map(nom_read_micheline_int(bytes), IntV)
      [] ty[1] = "nat" -> nat_nom_read(bytes)

-----------------------------------------------------------------------------
(* Ticket contents as nodes (MichelsonTicketContent)                       *)

Prim(t, args) == <<"Prim", t, args, <<>>>>
IsPrim(node, t, nargs) ==
    node[1] = "Prim" /\ node[2] = t /\ Len(node[3]) = nargs /\ node[4] = <<>>

\* typed_prim!: the types without arguments.
PlainTypeTag == [unit |-> UNIT_TYPE_TAG, nat |-> NAT_TYPE_TAG, int |-> INT_TYPE_TAG,
                 string |-> STRING_TYPE_TAG, bytes |-> BYTES_TYPE_TAG]
TypeTag == [option |-> OPTION_TYPE_TAG, pair |-> PAIR_TYPE_TAG, or |-> OR_TYPE_TAG]

RECURSIVE typecheck_node(_, _)
typecheck_node(ty, node) ==
    IF ty[1] \in DOMAIN PlainTypeTag THEN IsPrim(node, PlainTypeTag[ty[1]], 0)
    ELSE /\ IsPrim(node, TypeTag[ty[1]], Len(ty) - 1)
         /\ \A k \in DOMAIN node[3] : typecheck_node(ty[k + 1], node[3][k])

RECURSIVE node_of_type(_)
node_of_type(ty) ==
    IF ty[1] \in DOMAIN PlainTypeTag THEN Prim(PlainTypeTag[ty[1]], <<>>)
    ELSE Prim(TypeTag[ty[1]], [k \in 1..(Len(ty) - 1) |-> node_of_type(ty[k + 1])])

RECURSIVE to_node(_)
option_to_node(v) ==
    IF v[2] = <<>> THEN Prim(NONE_TAG, <<>>) ELSE Prim(SOME_TAG, <<to_node(v[2][1])>>)
pair_to_node(v) == Prim(PAIR_TAG, <<to_node(v[2]), to_node(v[3])>>)
or_to_node(v) ==
    Prim(IF v[2] = "Left" THEN LEFT_TAG ELSE RIGHT_TAG, <<to_node(v[3])>>)
to_node(v) ==
    CASE v[1] = "unit" -> Prim(UNIT_TAG, <<>>)
      [] v[1] \in {"int", "nat"} -> <<"Int", v[2]>>
      [] v[1] = "string" -> <<"String", v[2]>>
      [] v[1] = "bytes" -> <<"Bytes", v[2]>>
      [] v[1] = "option" -> option_to_node(v)
      [] v[1] = "pair" -> pair_to_node(v)
      [] v[1] = "or" -> or_to_node(v)

\* <<value>>, or <<>> for None.
RECURSIVE of_node(_, _)
option_of_node(ty, node) ==
    CASE IsPrim(node, NONE_TAG, 0) -> <<NoneV>>
      [] IsPrim(node, SOME_TAG, 1) ->
             LET v == of_node(ty[2], node[3][1]) IN [k \in DOMAIN v |-> SomeV(v[k])]
      [] OTHER -> <<>>
pair_of_node(ty, node) ==
    IF ~ IsPrim(node, PAIR_TAG, 2) THEN <<>>
    ELSE LET a == of_node(ty[2], node[3][1])
             b == of_node(ty[3], node[3][2])
         IN  IF a = <<>> \/ b = <<>> THEN <<>> ELSE <<PairV(a[1], b[1])>>
or_of_node(ty, node) ==
    CASE IsPrim(node, LEFT_TAG, 1) ->
             LET v == of_node(ty[2], node[3][1]) IN [k \in DOMAIN v |-> <<"or", "Left", v[k]>>]
      [] IsPrim(node, RIGHT_TAG, 1) ->
             LET v == of_node(ty[3], node[3][1]) IN [k \in DOMAIN v |-> <<"or", "Right", v[k]>>]
      [] OTHER -> <<>>
of_node(ty, node) ==
    CASE ty[1] = "unit" -> IF IsPrim(node, UNIT_TAG, 0) THEN <<<<"unit">>>> ELSE <<>>
      [] ty[1] = "nat" -> IF node[1] = "Int" THEN nat_new(node[2]) ELSE <<>>
      [] ty[1] = "int" -> IF node[1] = "Int" THEN <<IntV(node[2])>> ELSE <<>>
      [] ty[1] = "string" -> IF node[1] = "String" THEN <<<<"string", node[2]>>>> ELSE <<>>
      [] ty[1] = "bytes" -> IF node[1] = "Bytes" THEN <<BytesV(node[2])>> ELSE <<>>
      [] ty[1] = "option" -> option_of_node(ty, node)
      [] ty[1] = "pair" -> pair_of_node(ty, node)
      [] ty[1] = "or" -> or_of_node(ty, node)

-----------------------------------------------------------------------------
(* Tickets (michelson/ticket.rs).  A Ticket is held in its legacy form, a  *)
(* pair of the ticketer and of the contents and the amount.                *)

LegacyType(ty) == <<"pair", <<"address">>, <<"pair", ty, <<"int">>>>>>
Ticket(creator, contents, amount) ==
    PairV(ContractV(creator), PairV(contents, IntV(amount)))
creator(t) == t[2]
contents(t) == t[3][2]
amount(t) == t[3][3][2]

\* Ticket::new.
ticket_new(h, v, n) == IF n > 0 THEN <<Ticket(h, v, n)>> ELSE <<>>

\* TypedTicket::bin_write: the Ticket constructor, with the type of the contents.
typed_ticket_bin_write(ty, t) ==
    node_bin_write(Prim(TICKET_TAG,
        <<<<"Bytes", contract_bin_write(creator(t)[2])>>, node_of_type(ty), to_node(contents(t)),
          <<"Int", amount(t)>>>>))

get_ticket_arguments(bytes) ==
    and_then(node_nom_read(bytes), LAMBDA node, rest :
        IF IsPrim(node, TICKET_TAG, 4) THEN Got(node[3], rest) ELSE NomError)

\* The unwraps: the ticketer must be a contract and the contents of their type.
typed_ticket_nom_read(ty, bytes) ==
    and_then(get_ticket_arguments(bytes), LAMBDA args, rest :
        LET contract == contract_nom_read(args[1][2])
            value == of_node(ty, args[3])
        IN  CASE ~ typecheck_node(ty, args[2]) \/ args[1][1] # "Bytes" -> NomError
              [] OTHER ->
                 IF contract.err # "" \/ contract.rest # <<>> THEN Fails("Panic")
                 ELSE IF args[4][1] # "Int" THEN NomError
                 ELSE IF value = <<>> THEN Fails("Panic")
                 ELSE Got(Ticket(contract.val, value[1], args[4][2]), rest))

ticket_nom_read(ty, bytes) ==
    alt(nom_read(LegacyType(ty), bytes), typed_ticket_nom_read(ty, bytes))

ticket_bin_write(t) == bin_write(t)

\* What is hashed: the digest is taken to be injective.
ticket_hash(t) == bin_write(creator(t)) \o bin_write(contents(t))

---------------------------------------------------------------------------
(***************************************************************************)
(* Inbox and outbox messages of the kernel SDK                             *)
(* (kernel_sdk/encoding/src/inbox.rs, outbox.rs, entrypoint.rs,            *)
(* timestamp.rs, smart_rollup.rs), and the checks of the encodings on      *)
(* small values, against MIR's encodings of the same values.               *)
(***************************************************************************)
CONSTANTS SdkStampBytes,   \* bytes of a timestamp (8 in the code)
          SdkStamps,       \* timestamps, as offsets from the smallest
          SdkChars,        \* characters of entrypoints and annotations
          SdkNoise         \* bytes put in place of one of an encoding

VARIABLE sdEnc

-----------------------------------------------------------------------------
(* Entrypoints.  MAX_LEN (31) is MAX_EP_LEN; "default" is DefaultEp.       *)

entrypoint_try_from(s) ==
    CASE s = <<>> -> <<DefaultEp>>
      [] Len(s) > MAX_EP_LEN -> <<>>
      [] s # <<>> /\ Len(s) <= MAX_EP_LEN ->
             IF AlphaNum(s[1]) /\ \A k \in 2..Len(s) : AlphaNum(s[k]) \/ s[k] \in {46, 37, 64}
             THEN <<s>> ELSE <<>>

\* The longest prefix whose characters satisfy P.
take_while(s, P(_)) ==
    LET stops == {k \in DOMAIN s : ~ P(s[k])}
        n == IF stops = {} THEN Len(s) ELSE Min(stops) - 1
    IN  Got(SubSeq(s, 1, n), SubSeq(s, n + 1, Len(s)))

\* bounded_dynamic(MAX_LEN, alt(eof, recognize(take_while1, take_while))).
entrypoint_chars(s) ==
    IF s = <<>> THEN Got(<<>>, <<>>)
    ELSE LET first == take_while(s, AlphaNum)
             others == take_while(first.rest, LAMBDA c : AlphaNum(c) \/ c \in {46, 37, 64})
         IN  IF first.val = <<>> THEN NomError ELSE Got(first.val \o others.val, others.rest)

entrypoint_nom_read(bytes) ==
    and_then(nom_bytes(bytes), LAMBDA body, rest :
        LET r == IF Len(body) > MAX_EP_LEN THEN NomError ELSE all_consuming(entrypoint_chars(body))
        IN  IF r.err # "" THEN r ELSE Got(IF r.val = <<>> THEN DefaultEp ELSE r.val, rest))

entrypoint_bin_write(e) == enc_dynamic(e)

-----------------------------------------------------------------------------
(* Inbox messages                                                          *)

\* Timestamp: a signed integer, the most significant byte first.
StampModulus == 256^SdkStampBytes
as_u64(t) == t % StampModulus
timestamp_bin_write(t) == [k \in 1..SdkStampBytes |-> (as_u64(t) \div 256^(SdkStampBytes - k)) % 256]
timestamp_nom_read(bytes) ==
    and_then(take(bytes, SdkStampBytes), LAMBDA b, rest :
        LET n == FoldSeq(LAMBDA x, acc : x + acc, 0,
                         [k \in DOMAIN b |-> b[k] * 256^(SdkStampBytes - k)])
        IN  Got(IF 2 * n >= StampModulus THEN n - StampModulus ELSE n, rest))

\* A hash without a tag: KT1, smart rollup address, block hash.
hash_nom_read(bytes) ==
    LET r == take(bytes, HASH_SIZE) IN IF r.err # "" THEN NomError ELSE r

\* Transfer: payload, sender, source, destination.
transfer_bin_write(m) ==
    bin_write(m.payload) \o m.sender \o pkh_bin_write(m.source) \o m.destination
transfer_nom_read(ty, bytes) ==
    and_then(nom_read(ty, bytes), LAMBDA payload, r1 :
    and_then(hash_nom_read(r1), LAMBDA sender, r2 :
    and_then(pkh_nom_read(r2), LAMBDA source, r3 :
    nom_map(hash_nom_read(r3), LAMBDA destination :
        [kind |-> "Transfer", payload |-> payload, sender |-> sender, source |-> source,
         destination |-> destination]))))

info_bin_write(m) == timestamp_bin_write(m.predecessor_timestamp) \o m.predecessor
info_nom_read(bytes) ==
    and_then(timestamp_nom_read(bytes), LAMBDA t, rest :
    nom_map(hash_nom_read(rest), LAMBDA h :
        [kind |-> "InfoPerLevel", predecessor_timestamp |-> t, predecessor |-> h]))

\* InternalInboxMessage, the tags in the order of the variants.
internal_bin_write(m) ==
    CASE m.kind = "Transfer" -> <<0>> \o transfer_bin_write(m)
      [] m.kind = "StartOfLevel" -> <<1>>
      [] m.kind = "EndOfLevel" -> <<2>>
      [] m.kind = "InfoPerLevel" -> <<3>> \o info_bin_write(m)
internal_nom_read(ty, bytes) ==
    IF bytes = <<>> THEN NomError
    ELSE CASE Head(bytes) = 0 -> transfer_nom_read(ty, Tail(bytes))
           [] Head(bytes) = 1 -> Got([kind |-> "StartOfLevel"], Tail(bytes))
           [] Head(bytes) = 2 -> Got([kind |-> "EndOfLevel"], Tail(bytes))
           [] Head(bytes) = 3 -> info_nom_read(Tail(bytes))
           [] OTHER -> NomError

\* InboxMessage::serialize and parse: an external message is all the rest.
inbox_serialize(m) ==
    IF m.kind = "External" THEN <<1>> \o m.bytes ELSE <<0>> \o internal_bin_write(m)
inbox_parse(ty, bytes) ==
    IF bytes = <<>> \/ Head(bytes) \notin {0, 1} THEN NomError
    ELSE IF Head(bytes) = 0 THEN internal_nom_read(ty, Tail(bytes))
    ELSE Got([kind |-> "External", bytes |-> Tail(bytes)], <<>>)

\* ExternalMessageFrame: a message for one rollup.
TARGETTED_TAG == 0
frame_bin_write(f) == <<TARGETTED_TAG>> \o f.address \o f.contents
frame_parse(bytes) ==
    and_then(tag(bytes, <<TARGETTED_TAG>>), LAMBDA t, body :
    and_then(hash_nom_read(body), LAMBDA address, rest :
        Got([address |-> address, contents |-> rest], <<>>)))

-----------------------------------------------------------------------------
(* Outbox messages                                                         *)

transaction_bin_write(t) ==
    bin_write(t.parameters) \o contract_bin_write(t.destination) \o entrypoint_bin_write(t.entrypoint)
transaction_nom_read(ty, bytes) ==
    and_then(nom_read(ty, bytes), LAMBDA parameters, r1 :
    and_then(contract_nom_read(r1), LAMBDA destination, r2 :
    nom_map(entrypoint_nom_read(r2), LAMBDA entrypoint :
        [parameters |-> parameters, destination |-> destination, entrypoint |-> entrypoint])))

\* nom_read::list.
RECURSIVE list_of(_, _)
list_of(reader(_), bytes) ==
    LET r == IF bytes = <<>> THEN NomError ELSE reader(bytes)
    IN  IF r.err # "" THEN Got(<<>>, bytes)
        ELSE LET others == list_of(reader, r.rest) IN Got(<<r.val>> \o others.val, others.rest)

\* OutboxMessageWhitelistUpdate::try_from: <<>> for an error.
has_unique_elements(s) == \A j, k \in DOMAIN s : s[j] = s[k] => j = k
whitelist_try_from(list) ==
    IF list = <<>> THEN <<[kind |-> "WhitelistUpdate", whitelist |-> <<>>]>>
    ELSE IF list[1] = <<>> \/ ~ has_unique_elements(list[1]) THEN <<>>
    ELSE <<[kind |-> "WhitelistUpdate", whitelist |-> list]>>

\* OutboxMessage: tag 0 or 2; an absent whitelist is 0, one that is there 255.
outbox_bin_write(m) ==
    CASE m.kind = "AtomicTransactionBatch" ->
             <<0>> \o enc_dynamic(FlattenSeq([k \in DOMAIN m.batch |->
                                                  transaction_bin_write(m.batch[k])]))
      [] m.kind = "WhitelistUpdate" ->
             <<2>> \o (IF m.whitelist = <<>> THEN <<0>>
                       ELSE <<255>> \o enc_dynamic(FlattenSeq(
                                [k \in DOMAIN m.whitelist[1] |-> pkh_bin_write(m.whitelist[1][k])])))
whitelist_nom_read(bytes) ==
    alt(nom_map(tag(bytes, <<0>>), LAMBDA t : [kind |-> "WhitelistUpdate", whitelist |-> <<>>]),
        and_then(tag(bytes, <<255>>), LAMBDA t, body :
            nom_map(nom_dynamic(body, LAMBDA b : list_of(pkh_nom_read, b)),
                    LAMBDA l : [kind |-> "WhitelistUpdate", whitelist |-> <<l>>])))
outbox_nom_read(ty, bytes) ==
    IF bytes = <<>> \/ Head(bytes) \notin {0, 2} THEN NomError
    ELSE IF Head(bytes) = 2 THEN whitelist_nom_read(Tail(bytes))
    ELSE nom_map(nom_dynamic(Tail(bytes), LAMBDA b :
                     list_of(LAMBDA c : transaction_nom_read(ty, c), b)),
                 LAMBDA l : [kind |-> "AtomicTransactionBatch", batch |-> l])

-----------------------------------------------------------------------------
(* The encodings on small values                                           *)

SdkHashes == {[k \in 1..HASH_SIZE |-> b] : b \in {0, 7}}
SdkPkhs == (DOMAIN PkhTags) \X SdkHashes
SdkContracts == (DOMAIN PkhTags \cup {"KT1"}) \X SdkHashes

SdkPlain == {<<"unit">>, <<"nat">>, <<"int">>, <<"string">>, <<"bytes">>}
SdkFA2 == <<"pair", <<"nat">>, <<"option", <<"bytes">>>>>>
SdkContentTypes ==
    SdkPlain \cup {<<"option", t>> : t \in SdkPlain} \cup {SdkFA2}
        \cup {<<"pair", <<"int">>, t>> : t \in SdkPlain} \cup {<<"or", t, <<"nat">>>> : t \in SdkPlain}

RECURSIVE SdkValues(_)
SdkValues(ty) ==
    CASE ty[1] = "unit" -> {<<"unit">>}
      [] ty[1] = "nat" -> {NatV(n) : n \in {0, 63, 64, 130}}
      [] ty[1] = "int" -> {IntV(n) : n \in {-8200, -64, 0, 5}}
      [] ty[1] = "string" -> {<<"string", s>> : s \in {<<>>, <<97>>, <<32, 64>>}}
      [] ty[1] = "bytes" -> {BytesV(b) : b \in {<<>>, <<0, 255>>}}
      [] ty[1] = "address" -> {ContractV(h) : h \in SdkContracts}
      [] ty[1] = "option" -> {NoneV} \cup {SomeV(v) : v \in SdkValues(ty[2])}
      [] ty[1] = "pair" -> {PairV(a, b) : a \in SdkValues(ty[2]), b \in SdkValues(ty[3])}
      [] ty[1] = "or" -> {<<"or", "Left", v>> : v \in SdkValues(ty[2])}
                             \cup {<<"or", "Right", v>> : v \in SdkValues(ty[3])}

SdkSuffixes == {<<>>, <<0>>, <<10, 3>>}

\* Nodes of every form, with annotations, and their encodings with a byte changed
\* or cut.
SdkAnnotations == {<<>>, <<<<64, 37>>>>, <<<<58, 97>>, <<37, 97, 46>>>>}
SdkLeaves == {<<"Int", 0>>, <<"String", <<97>>>>, <<"Bytes", <<3>>>>, Prim(UNIT_TAG, <<>>)}
SdkNodes ==
    {<<"Prim", PAIR_TAG, args, annots>> :
         args \in {<<>>, <<<<"Int", 64>>>>, <<<<"Int", 0>>, <<"String", <<97>>>>>>,
                   <<<<"Int", 0>>, <<"Bytes", <<3>>>>, Prim(UNIT_TAG, <<>>)>>},
         annots \in SdkAnnotations}
        \cup SdkLeaves \cup {<<"Seq", <<>>>>, <<"Seq", <<<<"Int", -1>>, <<"Seq", <<>>>>>>>>}
SdkNoisy ==
    UNION {LET b == node_bin_write(n)
           IN  {[b EXCEPT ![k] = x] : k \in DOMAIN b, x \in SdkNoise}
                   \cup {SubSeq(b, 1, k) : k \in 0..Len(b)} : n \in SdkNodes}

SdkTickets(ty) ==
    {Ticket(h, v, n) : h \in {<<"KT1", [k \in 1..HASH_SIZE |-> 7]>>, <<"tz2", [k \in 1..HASH_SIZE |-> 0]>>},
                       v \in SdkValues(ty), n \in {1, 64}}

SdkPayload == <<"or", <<"bytes">>, <<"nat">>>>
SdkInbox ==
    {[kind |-> "Transfer", payload |-> p, sender |-> s, source |-> u, destination |-> d] :
         p \in SdkValues(SdkPayload), s \in SdkHashes, u \in SdkPkhs, d \in SdkHashes}
        \cup {[kind |-> "StartOfLevel"], [kind |-> "EndOfLevel"]}
        \cup {[kind |-> "InfoPerLevel", predecessor_timestamp |-> t - StampModulus \div 2,
               predecessor |-> h] : t \in SdkStamps, h \in SdkHashes}
        \cup {[kind |-> "External", bytes |-> b] : b \in SdkSuffixes}
SdkTransactions ==
    {[parameters |-> p, destination |-> d, entrypoint |-> e] :
         p \in {BytesV(<<>>), BytesV(<<1, 0>>)}, d \in {<<"KT1", h>> : h \in SdkHashes},
         e \in {DefaultEp, <<97, 46>>}}
SdkOutbox ==
    {[kind |-> "AtomicTransactionBatch", batch |-> b] :
         b \in {<<>>} \cup {<<t>> : t \in SdkTransactions}
                   \cup {<<t, u>> : t, u \in SdkTransactions}}
SdkWhitelists ==
    {<<>>} \cup {<<l>> : l \in {<<>>} \cup {<<h>> : h \in SdkPkhs}
                                  \cup {<<h, g>> : h, g \in SdkPkhs}}

SdkEncInit ==
    \/ \E ty \in SdkContentTypes \cup {<<"address">>}, suffix \in SdkSuffixes :
           \E v \in SdkValues(ty) :
               sdEnc = [kind |-> "value", ty |-> ty, val |-> v, suffix |-> suffix]
    \/ \E b \in SdkNoisy : sdEnc = [kind |-> "noise", bytes |-> b]
    \/ \E ty \in SdkContentTypes :
           \E t \in SdkTickets(ty) :
               sdEnc = [kind |-> "ticket", ty |-> ty, val |-> t, suffix |-> <<10, 3>>]
    \/ \E m \in SdkInbox : sdEnc = [kind |-> "inbox", val |-> m]
    \/ \E m \in SdkOutbox : sdEnc = [kind |-> "outbox", val |-> m]
    \/ \E l \in SdkWhitelists : sdEnc = [kind |-> "whitelist", val |-> l]
    \/ \E s \in BoundedSeq(SdkChars, MAX_EP_LEN + 1), suffix \in SdkSuffixes :
           sdEnc = [kind |-> "name", val |-> s, suffix |-> suffix]
    \/ \E h \in SdkContracts \cup ({"tz4", "sr1"} \X SdkHashes) : sdEnc = [kind |-> "b58", val |-> h]

\* MIR's Micheline as a node of the SDK.
RECURSIVE MirAsNode(_)
MirAsNode(m) ==
    CASE m[1] \in {"Int", "String", "Bytes"} -> m
      [] m[1] = "Seq" -> <<"Seq", [k \in DOMAIN m[2] |-> MirAsNode(m[2][k])]>>
      [] m[1] = "App" -> <<"Prim", PrimCode(m[2]), [k \in DOMAIN m[3] |-> MirAsNode(m[3][k])],
                           [k \in DOMAIN m[4] |-> EncodeAnnotation(m[4][k])]>>

\* The SDK's typed writers produce the bytes MIR packs for the same value, the typed
\* readers give the value back and leave what follows it, and the untyped reader sees in
\* the same bytes the node the ticket code converts from and to (michelson.rs,
\* micheline.rs against MIR's serializer).
SdkCodecsAgree ==
    sdEnc.kind = "value" =>
        LET bytes == bin_write(sdEnc.val)
        IN  /\ bytes = encode_micheline(ToMicheline(sdEnc.val))
            /\ nom_read(sdEnc.ty, bytes \o sdEnc.suffix) = Got(sdEnc.val, sdEnc.suffix)
            /\ sdEnc.ty \in SdkContentTypes =>
                   /\ node_nom_read(bytes \o sdEnc.suffix) = Got(to_node(sdEnc.val), sdEnc.suffix)
                   /\ of_node(sdEnc.ty, to_node(sdEnc.val)) = <<sdEnc.val>>
                   /\ node_bin_write(node_of_type(sdEnc.ty)) =
                          encode_micheline(TypeToMicheline(sdEnc.ty))

\* Bytes that MIR's decoder accepts, damaged encodings included, the SDK's untyped reader
\* accepts as the same node with the same rest; and what the SDK accepts it writes back to
\* bytes it reads as the same node (Node::nom_read, Node::bin_write).
SdkReadsWhatMirReads ==
    sdEnc.kind = "noise" =>
        \A mir \in {decode_micheline(sdEnc.bytes)}, node \in {node_nom_read(sdEnc.bytes)} :
            /\ mir.err = "" => node = Got(MirAsNode(mir.val), mir.rest)
            /\ node.err = "" => node_nom_read(node_bin_write(node.val)) = Got(node.val, <<>>)

SdkTyped(t) == typed_ticket_bin_write(sdEnc.ty, t) \o sdEnc.suffix

\* A ticket is read the same from the legacy pair and from the new constructor; the new
\* form is refused at any other type of contents; and the hash that identifies a ticket
\* tells creators and contents apart and ignores the amount (michelson/ticket.rs).
SdkTicketReprsAgree ==
    sdEnc.kind = "ticket" =>
        \A t \in {sdEnc.val} :
            /\ ticket_new(creator(t)[2], contents(t), amount(t)) = <<t>>
            /\ \A bytes \in {ticket_bin_write(t) \o sdEnc.suffix, SdkTyped(t)}, ty \in SdkContentTypes :
                   ty = sdEnc.ty \/ bytes = SdkTyped(t) =>
                       ticket_nom_read(ty, bytes) =
                           IF ty = sdEnc.ty THEN Got(t, sdEnc.suffix) ELSE NomError
            /\ \A u \in SdkTickets(sdEnc.ty) :
                   ticket_hash(u) = ticket_hash(t) <=>
                       creator(u) = creator(t) /\ contents(u) = contents(t)

\* Inbox messages, frames, outbox batches and whitelist updates are read back as they were
\* written, with nothing left; a whitelist is refused exactly when it is empty or repeats a
\* key; an entrypoint name is accepted from a string exactly when it is accepted from its
\* bytes; an address survives base58 (inbox.rs, outbox.rs, entrypoint.rs, contract.rs).
SdkMessagesRoundTrip ==
    CASE sdEnc.kind = "inbox" ->
             /\ inbox_parse(SdkPayload, inbox_serialize(sdEnc.val)) = Got(sdEnc.val, <<>>)
             /\ sdEnc.val.kind = "Transfer" =>
                    LET f == [address |-> sdEnc.val.destination,
                              contents |-> inbox_serialize(sdEnc.val)]
                    IN  frame_parse(frame_bin_write(f)) = Got(f, <<>>)
      [] sdEnc.kind = "outbox" ->
             outbox_nom_read(<<"bytes">>, outbox_bin_write(sdEnc.val)) = Got(sdEnc.val, <<>>)
      [] sdEnc.kind = "whitelist" ->
             LET l == sdEnc.val
                 m == whitelist_try_from(l)
             IN  /\ m = <<>> <=> l # <<>> /\ (l[1] = <<>> \/ Cardinality(ToSet(l[1])) # Len(l[1]))
                 /\ m # <<>> => outbox_nom_read(<<"bytes">>, outbox_bin_write(m[1])) = Got(m[1], <<>>)
      [] sdEnc.kind = "name" ->
             LET e == entrypoint_try_from(sdEnc.val)
                 r == entrypoint_nom_read(enc_dynamic(sdEnc.val) \o sdEnc.suffix)
             IN  /\ e = <<>> <=> r.err # ""
                 /\ e # <<>> => /\ r = Got(e[1], sdEnc.suffix)
                                /\ entrypoint_nom_read(entrypoint_bin_write(e[1])) = Got(e[1], <<>>)
      [] sdEnc.kind = "b58" ->
             contract_from_b58check(to_b58check(sdEnc.val)) =
                 IF sdEnc.val \in SdkContracts THEN <<sdEnc.val>> ELSE <<>>
      [] OTHER -> TRUE

\* The codecs of the SDK agree with themselves, with those of the Michelson
\* interpreter, and with the messages rollup and kernel exchange.
SdkEncodingsAgree ==
  SdkCodecsAgree /\ SdkReadsWhatMirReads /\ SdkTicketReprsAgree /\ SdkMessagesRoundTrip
==============================================================================
