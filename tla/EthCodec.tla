------------------------------ MODULE EthCodec -------------------------------
(***************************************************************************)
(* The ethereum crate of the EVM kernel: transactions of the three types   *)
(* as they are signed, sent and decoded (ethereum/src/tx_common.rs and     *)
(* tx_signature.rs), and the receipts, transaction objects and blocks the  *)
(* kernel stores (transaction.rs, block.rs), all through the helpers of    *)
(* rlp_helpers.rs.                                                         *)
(*                                                                         *)
(* An RLP item is [bytes |-> ...] or [items |-> ...]; how the rlp library  *)
(* frames it is left out.  A number of EthWord bytes stands for a U256 and *)
(* one of EthShort bytes for a u64 or u32, in base EthRadix; a hash is a   *)
(* sequence of EthHash bytes and an address one of EthAddress bytes.  A    *)
(* decoder returns <<>> for an error and <<value>> otherwise, and an       *)
(* option is written the same way.                                         *)
(***************************************************************************)
EXTENDS Integers, Sequences, SequencesExt

CONSTANTS EthRadix, EthWord, EthShort, EthHash, EthAddress,
          EthTxs,       \* unsigned transactions
          EthKeys,      \* r and s of the signatures made
          EthStored,    \* receipts, objects and blocks: [schema, value] records
          EthNoise      \* items laid in place of an item of an encoding

VARIABLE ethCase

EthErr    == <<>>
EthOk(v)  == <<v>>
EthThen(d, Next(_)) == IF d = EthErr THEN EthErr ELSE Next(d[1])

EthMax(n) == EthRadix ^ n - 1
U256Max   == EthMax(EthWord)

RlpData(bytes) == [bytes |-> bytes]
RlpList(items) == [items |-> items]
is_list(item)  == "items" \in DOMAIN item
is_data(item)  == "bytes" \in DOMAIN item

EthZeros(n) == [i \in 1 .. n |-> 0]

\* n bytes of a number, the least significant first; the number of bytes; and
\* the bytes of a number that RLP keeps, none of them a leading zero.
LeBytes(v, n)   == [i \in 1 .. n |-> (v \div EthRadix ^ (i - 1)) % EthRadix]
EthNumber(be)   == FoldLeft(LAMBDA acc, b : acc * EthRadix + b, 0, be)
EthStripped(be) == LET n == SelectInSeq(be, LAMBDA b : b # 0)
                   IN  IF n = 0 THEN <<>> ELSE SubSeq(be, n, Len(be))
EthMinimal(v)   == EthStripped(Reverse(LeBytes(v, EthWord)))

---------------------------------------------------------------------------
(* rlp_helpers: an item for each kind of field, and back.                  *)

append_uint(v) == RlpData(EthMinimal(v))
decode_uint(item, width) ==
  IF is_data(item) /\ Len(item.bytes) <= width /\ EthStripped(item.bytes) = item.bytes
  THEN EthOk(EthNumber(item.bytes)) ELSE EthErr

append_le(v, n) == RlpData(LeBytes(v, n))
decode_field_u256_le(item) ==
  IF is_data(item) THEN EthOk(EthNumber(Reverse(item.bytes))) ELSE EthErr
decode_field_u64_le(item) ==
  IF is_data(item) /\ Len(item.bytes) = EthShort
  THEN EthOk(EthNumber(Reverse(item.bytes))) ELSE EthErr

decode_fixed(item, n) ==
  IF is_data(item) /\ Len(item.bytes) = n THEN EthOk(item.bytes) ELSE EthErr
decode_bytes(item) == IF is_data(item) THEN EthOk(item.bytes) ELSE EthErr

\* Leading zeros may be missing, and all of them are for zero.
decode_h256(item) ==
  IF is_data(item) /\ Len(item.bytes) <= EthHash
  THEN EthOk(EthZeros(EthHash - Len(item.bytes)) \o item.bytes) ELSE EthErr
append_h256(h) == IF h = EthZeros(EthHash) THEN RlpData(<<>>) ELSE RlpData(h)

\* Both the empty string and the empty list are empty.
rlp_is_empty(item) == item \in {RlpData(<<>>), RlpList(<<>>)}

append_option(o) == IF o = <<>> THEN RlpData(<<>>) ELSE RlpData(o[1])
decode_option(item, decoded) ==
  IF rlp_is_empty(item) THEN EthOk(<<>>)
  ELSE IF decoded = EthErr THEN EthErr ELSE EthOk(decoded)

EthAll(ds) == IF \E i \in DOMAIN ds : ds[i] = EthErr THEN EthErr
              ELSE EthOk([i \in DOMAIN ds |-> ds[i][1]])

\* The iterator of an item that is no list is at its end.
rlp_iter(item) == IF is_list(item) THEN item.items ELSE <<>>
decode_list(item, Dec(_)) ==
  EthAll([i \in DOMAIN rlp_iter(item) |-> Dec(rlp_iter(item)[i])])

IsPairOfItems(item) == is_list(item) /\ Len(item.items) = 2

append_access(a) ==
  RlpList(<<RlpData(a.address),
            RlpList([i \in DOMAIN a.storage_keys |-> RlpData(a.storage_keys[i])])>>)
decode_access(item) ==
  IF ~ IsPairOfItems(item) THEN EthErr
  ELSE EthThen(decode_fixed(item.items[1], EthAddress), LAMBDA address :
         EthThen(decode_list(item.items[2], LAMBDA k : decode_fixed(k, EthHash)), LAMBDA keys :
           EthOk([address |-> address, storage_keys |-> keys])))

append_log(l) == RlpList(<<RlpData(l.log), append_le(l.index, EthShort)>>)
decode_log(item) ==
  IF ~ IsPairOfItems(item) THEN EthErr
  ELSE EthThen(decode_bytes(item.items[1]), LAMBDA log :
         EthThen(decode_field_u64_le(item.items[2]), LAMBDA index :
           EthOk([log |-> log, index |-> index])))

TransactionType   == <<"Legacy", "Eip2930", "Eip1559">>
TransactionStatus == <<"Failure", "Success">>
tag_of(names, v)  == SelectInSeq(names, LAMBDA n : n = v) - 1
decode_tag(item, names) ==
  LET tags == {t \in 0 .. Len(names) - 1 : decode_uint(item, 1) = EthOk(t)}
  IN  IF tags = {} THEN EthErr ELSE EthOk(names[(CHOOSE t \in tags : TRUE) + 1])

EncodeField(kind, v) ==
  CASE kind \in {"u64", "u256"} -> append_uint(v)
    [] kind = "chain"           -> append_uint(v[1])
    [] kind = "u256le"          -> append_le(v, EthWord)
    [] kind = "u64le"           -> append_le(v, EthShort)
    [] kind \in {"h160", "hash", "bloom", "bytes"} -> RlpData(v)
    [] kind \in {"to", "miner"} -> append_option(v)
    [] kind = "gas_limit"       -> IF v = <<>> THEN RlpData(<<>>) ELSE append_le(v[1], EthShort)
    [] kind = "hashes"          -> RlpList([i \in DOMAIN v |-> RlpData(v[i])])
    [] kind = "accesses"        -> RlpList([i \in DOMAIN v |-> append_access(v[i])])
    [] kind = "logs"            -> RlpList([i \in DOMAIN v |-> append_log(v[i])])
    [] kind = "type"            -> append_uint(tag_of(TransactionType, v))
    [] kind = "status"          -> append_uint(tag_of(TransactionStatus, v))

DecodeField(kind, item) ==
  CASE kind = "u64"       -> decode_uint(item, EthShort)
    [] kind = "u256"      -> decode_uint(item, EthWord)
    [] kind = "chain"     -> EthAll(<<decode_uint(item, EthWord)>>)
    [] kind = "u256le"    -> decode_field_u256_le(item)
    [] kind = "u64le"     -> decode_field_u64_le(item)
    [] kind = "h160"      -> decode_fixed(item, EthAddress)
    [] kind = "bloom"     -> decode_fixed(item, EthHash)
    [] kind = "hash"      -> decode_h256(item)
    [] kind = "bytes"     -> decode_bytes(item)
    [] kind = "to"        -> decode_option(item, decode_fixed(item, EthAddress))
    [] kind = "miner"     -> decode_option(item, decode_bytes(item))
    [] kind = "gas_limit" -> decode_option(item, decode_field_u64_le(item))
    [] kind = "hashes"    -> decode_list(item, decode_h256)
    [] kind = "accesses"  -> decode_list(item, decode_access)
    [] kind = "logs"      -> decode_list(item, decode_log)
    [] kind = "type"      -> decode_tag(item, TransactionType)
    [] kind = "status"    -> decode_tag(item, TransactionStatus)

\* A schema is a sequence of <<field, kind>>.
EthNames(schema) == {schema[i][1] : i \in DOMAIN schema}
EncodeFields(schema, v) == [i \in DOMAIN schema |-> EncodeField(schema[i][2], v[schema[i][1]])]
DecodeFields(schema, items) ==
  EthThen(EthAll([i \in DOMAIN schema |-> DecodeField(schema[i][2], items[i])]), LAMBDA ds :
    EthOk([name \in EthNames(schema) |-> ds[SelectInSeq(schema, LAMBDA f : f[1] = name)]]))

---------------------------------------------------------------------------
(* TxSignature.                                                            *)

EthIsZero(h) == h = EthZeros(EthHash)

signature_new(v, r, s) ==
  IF EthIsZero(r) \/ EthIsZero(s) THEN EthErr ELSE EthOk([v |-> v, r |-> r, s |-> s])

\* v of a legacy transaction.  U256 arithmetic is checked.
compute_v(chain, parity) ==
  IF chain = <<>> THEN EthOk(parity + 27)
  ELSE IF chain[1] = 0 \/ chain[1] * 2 + 35 + parity > U256Max THEN EthErr
  ELSE EthOk(chain[1] * 2 + 35 + parity)

legacy_compute_parity(v, chain) ==
  LET base == IF chain = <<>> THEN 27 ELSE chain[1] * 2 + 35
  IN  IF base > U256Max \/ ~ (v - base \in {0, 1}) THEN EthErr ELSE EthOk(v - base)

\* The recovery identifier, from v of the other types.
typed_parity(v) == IF v < 4 THEN EthOk(v) ELSE EthErr

append_signature(sig) == <<append_uint(sig.v), RlpData(sig.r), RlpData(sig.s)>>

rlp_append_opt(sig) ==
  IF sig = <<>> THEN <<append_uint(0), RlpData(EthZeros(EthHash)), RlpData(EthZeros(EthHash))>>
  ELSE append_signature(sig[1])

VrsSchema == <<<<"v", "u256">>, <<"r", "hash">>, <<"s", "hash">>>>
decode_vrs(items) == DecodeFields(VrsSchema, items)

rlp_decode_opt(items) ==
  EthThen(decode_vrs(items), LAMBDA vrs :
    IF vrs.v = 0 /\ EthIsZero(vrs.r) /\ EthIsZero(vrs.s) THEN EthOk(<<>>)
    ELSE EthAll(<<signature_new(vrs.v, vrs.r, vrs.s)>>))

---------------------------------------------------------------------------
(* EthereumTransactionCommon: a record of the fields below, `type_`,       *)
(* `chain_id` and `signature`.                                             *)

CommonSchema == <<<<"gas_limit", "u64">>, <<"to", "to">>, <<"value", "u256">>, <<"data", "bytes">>>>

TxSchema(type) ==
  CASE type = "Legacy"  -> <<<<"nonce", "u64">>, <<"max_fee_per_gas", "u256">>>> \o CommonSchema
    [] type = "Eip2930" -> <<<<"chain_id", "chain">>, <<"nonce", "u64">>, <<"max_fee_per_gas", "u256">>>>
                             \o CommonSchema \o <<<<"access_list", "accesses">>>>
    [] type = "Eip1559" -> <<<<"chain_id", "chain">>, <<"nonce", "u64">>,
                             <<"max_priority_fee_per_gas", "u256">>, <<"max_fee_per_gas", "u256">>>>
                             \o CommonSchema \o <<<<"access_list", "accesses">>>>

ItemCount(items, n) == Len(items) = n

\* Mutant: off by one.
LegacyChainId_36(v) ==
  CASE v > 36         -> EthOk(EthOk((v - 36) \div 2))
    [] v \in {27, 28} -> EthOk(<<>>)
    [] OTHER          -> EthErr

\* The chain of a signed legacy transaction, in an option, from v.
LegacyChainId(v) ==
  CASE v > 36         -> EthOk(EthOk((v - 35) \div 2))
    [] v \in {27, 28} -> EthOk(<<>>)
    [] OTHER          -> EthErr

EthTx(type, fields, chain, signature) ==
  [type_ |-> type, chain_id |-> chain, nonce |-> fields.nonce,
   max_priority_fee_per_gas |-> IF type = "Eip1559" THEN fields.max_priority_fee_per_gas
                                ELSE fields.max_fee_per_gas,
   max_fee_per_gas |-> fields.max_fee_per_gas, gas_limit |-> fields.gas_limit,
   to |-> fields.to, value |-> fields.value, data |-> fields.data,
   access_list |-> IF type = "Legacy" THEN <<>> ELSE fields.access_list,
   signature |-> signature]

rlp_decode_legacy_tx(items) ==
  IF ~ ItemCount(items, 9) THEN EthErr
  ELSE EthThen(DecodeFields(TxSchema("Legacy"), items), LAMBDA fields :
         EthThen(decode_vrs(SubSeq(items, 7, 9)), LAMBDA vrs :
           IF EthIsZero(vrs.r) /\ EthIsZero(vrs.s)
           THEN EthOk(EthTx("Legacy", fields, EthOk(vrs.v), <<>>))
           ELSE EthThen(LegacyChainId(vrs.v), LAMBDA chain :
                  EthThen(signature_new(vrs.v, vrs.r, vrs.s), LAMBDA sig :
                    EthOk(EthTx("Legacy", fields, chain, EthOk(sig)))))))

\* EIP-2930 and EIP-1559: the signature's items are there or they are not.
rlp_decode_typed_tx(type, items) ==
  LET n == Len(TxSchema(type))
  IN  IF ~ ItemCount(items, n) /\ ~ ItemCount(items, n + 3) THEN EthErr
      ELSE EthThen(DecodeFields(TxSchema(type), items), LAMBDA fields :
             IF ItemCount(items, n) THEN EthOk(EthTx(type, fields, fields.chain_id, <<>>))
             ELSE EthThen(decode_vrs(SubSeq(items, n + 1, n + 3)), LAMBDA vrs :
                    EthThen(signature_new(vrs.v, vrs.r, vrs.s), LAMBDA sig :
                      EthOk(EthTx(type, fields, fields.chain_id, EthOk(sig))))))

SignatureItems(tx) == IF tx.signature = <<>> THEN <<>> ELSE append_signature(tx.signature[1])

rlp_encode_legacy_pre_eip155(tx) == EncodeFields(TxSchema("Legacy"), tx) \o SignatureItems(tx)
rlp_encode_legacy_post_eip155(tx) ==
  EncodeFields(TxSchema("Legacy"), tx) \o
    IF tx.signature # <<>> THEN SignatureItems(tx)
    ELSE <<append_uint(tx.chain_id[1]), append_h256(EthZeros(EthHash)), append_h256(EthZeros(EthHash))>>
rlp_encode_legacy_tx(tx) ==
  IF tx.chain_id = <<>> THEN rlp_encode_legacy_pre_eip155(tx) ELSE rlp_encode_legacy_post_eip155(tx)

rlp_encode_typed_tx(tx) == EncodeFields(TxSchema(tx.type_), tx) \o SignatureItems(tx)

\* The byte before the list of a typed transaction, none (0) for a legacy one.
to_bytes(tx) ==
  [tag |-> tag_of(TransactionType, tx.type_),
   rlp |-> RlpList(IF tx.type_ = "Legacy" THEN rlp_encode_legacy_tx(tx) ELSE rlp_encode_typed_tx(tx))]

from_bytes(b) ==
  IF ~ is_list(b.rlp) THEN EthErr
  ELSE IF b.tag = 0 THEN rlp_decode_legacy_tx(b.rlp.items)
  ELSE rlp_decode_typed_tx(TransactionType[b.tag + 1], b.rlp.items)

EthMessage(tx) == to_bytes([tx EXCEPT !.signature = <<>>])

\* What ECDSA gives, of the one signature made: the signer's key recovers from
\* the message, r, s and the identifier it was made with, some other otherwise.
EthSign(tx, key, parity) ==
  EthThen(IF tx.type_ = "Legacy" THEN compute_v(tx.chain_id, parity) ELSE EthOk(parity), LAMBDA v :
    EthOk([tx EXCEPT !.signature = EthOk([v |-> v, r |-> key.r, s |-> key.s])]))

recover(made, message, sig, parity) ==
  IF [message |-> message, r |-> sig.r, s |-> sig.s, parity |-> parity] = made
  THEN "signer" ELSE "other"

EthParity(tx) == IF tx.type_ = "Legacy" THEN legacy_compute_parity(tx.signature[1].v, tx.chain_id)
                 ELSE typed_parity(tx.signature[1].v)

\* s above half of the order of the curve's group.
is_high(s) == 2 * EthNumber(s) > EthMax(EthHash)

EthCaller(made, tx) ==
  IF tx.signature = <<>> THEN "unsigned"
  ELSE IF is_high(tx.signature[1].s) \/ EthParity(tx) = EthErr THEN "invalid"
  ELSE recover(made, EthMessage(tx), tx.signature[1], EthParity(tx)[1])

---------------------------------------------------------------------------
(* What the kernel stores.                                                 *)

ReceiptSchema ==
  <<<<"hash", "hash">>, <<"index", "u64">>, <<"block_number", "u256le">>, <<"from", "h160">>,
    <<"to", "to">>, <<"cumulative_gas_used", "u256le">>, <<"effective_gas_price", "u256le">>,
    <<"gas_used", "u256le">>, <<"contract_address", "to">>, <<"logs", "logs">>,
    <<"logs_bloom", "bloom">>, <<"type_", "type">>, <<"status", "status">>>>

ObjectSchema ==
  <<<<"block_number", "u256le">>, <<"from", "h160">>, <<"gas_used", "u256le">>,
    <<"gas_price", "u256le">>, <<"hash", "hash">>, <<"input", "bytes">>, <<"nonce", "u64le">>,
    <<"to", "to">>, <<"index", "u64">>, <<"value", "u256le">>>>

BlockSchema ==
  <<<<"number", "u256le">>, <<"hash", "hash">>, <<"parent_hash", "hash">>, <<"logs_bloom", "bloom">>,
    <<"transactions_root", "bytes">>, <<"state_root", "bytes">>, <<"receipts_root", "bytes">>,
    <<"miner", "miner">>, <<"extra_data", "miner">>, <<"gas_limit", "gas_limit">>,
    <<"transactions", "hashes">>, <<"gas_used", "u256le">>, <<"timestamp", "u64le">>>>

encode_object(o) == EncodeFields(ObjectSchema, o) \o rlp_append_opt(o.signature)
decode_object(items) ==
  IF ~ ItemCount(items, 13) THEN EthErr
  ELSE EthThen(DecodeFields(ObjectSchema, items), LAMBDA fields :
         EthThen(rlp_decode_opt(SubSeq(items, 11, 13)), LAMBDA sig :
           EthOk([f \in EthNames(ObjectSchema) \cup {"signature"} |->
                    IF f = "signature" THEN sig ELSE fields[f]])))

decode_receipt(items) == IF ItemCount(items, 13) THEN DecodeFields(ReceiptSchema, items) ELSE EthErr
decode_block(items)   == IF ItemCount(items, 13) THEN DecodeFields(BlockSchema, items) ELSE EthErr

---------------------------------------------------------------------------
EthInit ==
  \/ \E tx \in EthTxs, key \in EthKeys, parity \in 0 .. 3 :
        ethCase = [kind |-> "tx", tx |-> tx, key |-> key, parity |-> parity]
  \/ \E stored \in EthStored :
        ethCase = [kind |-> stored.kind, value |-> stored.value]

EthRoundTrip(tx) == from_bytes(to_bytes(tx)) = EthOk(tx)

(***************************************************************************)
(* A transaction of any type that is signed, encoded, and decoded again is *)
(* the same transaction, and its caller is the signer: v carries the chain *)
(* and the parity through, up to the largest chain that v has room for,    *)
(* and r and s keep their leading zeros.  (A legacy v has no room for the  *)
(* identifiers 2 and 3, which ECDSA gives with negligible probability.)    *)
(* Unsigned ones decode too, but for those of before EIP-155.              *)
(***************************************************************************)
EthCallerIsSigner ==
  ethCase.kind = "tx" =>
    \A tx \in {ethCase.tx} \cup Range(EthSign(ethCase.tx, ethCase.key, ethCase.parity)) :
      IF tx.signature = <<>>
      THEN (tx.type_ = "Legacy" => tx.chain_id # <<>>) => EthRoundTrip(tx)
      ELSE (tx.type_ = "Legacy" => ethCase.parity < 2) =>
             /\ EthRoundTrip(tx)
             /\ EthCaller([message |-> EthMessage(ethCase.tx), r |-> ethCase.key.r,
                           s |-> ethCase.key.s, parity |-> ethCase.parity], tx) = "signer"

EthMessages == [tx \in EthTxs |-> EthMessage(tx)]

(***************************************************************************)
(* What is signed determines the transaction: no two transactions, of any  *)
(* types, chains, or with and without a chain, have one message, so that a *)
(* signature made for one is never the signature of another.               *)
(***************************************************************************)
EthMessageBinds ==
  ethCase.kind = "tx" /\ ethCase.parity = 0 =>
    \A tx \in EthTxs : EthMessages[tx] = EthMessages[ethCase.tx] => tx = ethCase.tx

\* A list as decode_list reads it, and a list of accesses with its lists of keys.
AsList(item) == RlpList(rlp_iter(item))
AsAccesses(item) ==
  RlpList([i \in DOMAIN rlp_iter(item) |->
             RlpList([AsList(rlp_iter(item)[i]).items EXCEPT ![2] = AsList(@)])])

\* The encoding as it is read: with no leading zeros of r and s, with the empty
\* string for no recipient, and with lists for the lists.
AsRead(b) ==
  LET n      == Len(b.rlp.items)
      schema == TxSchema(TransactionType[b.tag + 1])
      signed == b.tag = 0 \/ n = Len(schema) + 3
      Read(i, item) ==
        CASE signed /\ i > n - 2                -> RlpData(EthStripped(item.bytes))
          [] i > Len(schema)                    -> item
          [] schema[i][2] = "to"                -> IF rlp_is_empty(item) THEN RlpData(<<>>) ELSE item
          [] schema[i][2] = "accesses"          -> AsAccesses(item)
          [] OTHER                              -> item
  IN  [b EXCEPT !.rlp.items = [i \in 1 .. n |-> Read(i, @[i])]]

EthAltered(b) ==
  LET items == b.rlp.items
  IN  {[b EXCEPT !.rlp.items = alt] : alt \in
         {Append(items, item) : item \in EthNoise}
           \cup {RemoveAt(items, i) : i \in DOMAIN items}
           \cup {[items EXCEPT ![i] = item] : i \in DOMAIN items, item \in EthNoise}}

(***************************************************************************)
(* Decoding is strict: of all the lists near an encoding - an item more,   *)
(* an item less, an item that is a list, a string for a list, an item too  *)
(* long or padded with zeros - those that decode are themselves encodings  *)
(* of what they decode to, but for four forms the decoder takes for an     *)
(* encoding: r and s may have lost or been given leading zeros, the        *)
(* recipient may be the empty list, and the access list and its lists of   *)
(* keys may be any string, read as the empty list.                         *)
(***************************************************************************)
EthDecodingStrict ==
  ethCase.kind = "tx" /\ ethCase.parity = 0 =>
    \A tx \in {ethCase.tx} \cup Range(EthSign(ethCase.tx, ethCase.key, 0)) :
      \A b \in EthAltered(to_bytes(tx)) : \A decoded \in Range(from_bytes(b)) :
        AsRead(to_bytes(decoded)) = AsRead(b)

(***************************************************************************)
(* Receipts, transaction objects and blocks are read back as they were     *)
(* stored: a deposit's missing signature is not taken for one, nor the     *)
(* signature of parity zero for a missing one; a contract creation is not  *)
(* a call to the zero address; zero is not an absent gas limit.            *)
(***************************************************************************)
EthStoredRoundTrip ==
  LET v == ethCase.value
  IN  CASE ethCase.kind = "receipt" -> decode_receipt(EncodeFields(ReceiptSchema, v)) = EthOk(v)
        [] ethCase.kind = "object"  -> decode_object(encode_object(v)) = EthOk(v)
        [] ethCase.kind = "block"   -> decode_block(EncodeFields(BlockSchema, v)) = EthOk(v)
        [] OTHER                    -> TRUE

\* The encodings of the kernel are exact: a signed transaction binds its
\* signer to everything it says, nothing else decodes, and what is stored is
\* read back.
EthCodecExact ==
  EthCallerIsSigner /\ EthMessageBinds /\ EthDecodingStrict /\ EthStoredRoundTrip
=============================================================================
