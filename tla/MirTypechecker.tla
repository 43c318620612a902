--------------------------- MODULE MirTypechecker ---------------------------
(***************************************************************************)
(* The typechecker of MIR (contrib/mir/src/typechecker.rs).  It takes a    *)
(* Micheline node and the types on the stack and yields the instruction    *)
(* with its overload resolved, the types after it, and the gas it takes.   *)
(*                                                                         *)
(* A stack is a sequence with the top first.  The operators follow the     *)
(* arms of typecheck_instruction in the order of the source.  An overload  *)
(* is named by the types it consumes.  The texts of the errors are left    *)
(* out; "panic" is an error of its own.                                    *)
(***************************************************************************)
EXTENDS MichelsonValues

CONSTANTS KnownContracts,   \* ctx.lookup_contract: hash |-> entrypoints
          BigMaps,          \* ctx.big_map_storage: id |-> [key, value, map]
          MUTEZ_MAX         \* i64::MAX, scaled

Failed == <<<<"failed">>>>   \* FailingTypeStack::Failed
Drop(s, n) == SubSeq(s, n + 1, Len(s))
Take(s, n) == SubSeq(s, 1, n)

\* The instruction i replaces the n types on top by pushed.
Step(i, n, pushed, s) == Ok([i |-> i, s |-> pushed \o Drop(s, n)], 0)
NoMatch == Er("NoMatchingOverload", 0)
Unexpected == Er("UnexpectedMicheline", 0)
Charge(cost) == Ok(<<>>, cost)
Require(cond, e) == IF cond THEN Ok(<<>>, 0) ELSE Er(e, 0)

\* The constructors on top of the stack; "_" is any.
Shape(s, cons) ==
    Len(s) >= Len(cons) /\ \A k \in DOMAIN cons : cons[k] \in {"_", s[k][1]}

ensure_stack_len(s, n) == Require(Len(s) >= n, "NoMatchingOverload")

ensure_ty_eq(t, u) ==
    Plus(Require(t = u, "TypesNotEqual"), ty_eq_cost(size_for_gas(t), size_for_gas(u)))

ensure_stacks_eq(s, t) ==
    IF Len(s) # Len(t) THEN Er("StacksNotEqual", 0)
    ELSE FoldLeft(LAMBDA r, k : Then(r, LAMBDA v : ensure_ty_eq(s[k], t[k])),
                  Ok(<<>>, 0), [k \in DOMAIN s |-> k])

\* A failed stack unifies with anything.
unify_stacks(dest, aux) ==
    CASE dest = Failed -> Ok(aux, 0)
      [] dest # Failed /\ aux = Failed -> Ok(dest, 0)
      [] OTHER -> Then(ensure_stacks_eq(dest, aux), LAMBDA v : Ok(dest, 0))

validate_u10(n) == IF n \in 0..1023 THEN Ok(n, 0) ELSE Er("ExpectedU10", 0)
IsInt(m) == m[1] = "Int"
IsSeq(m) == m[1] = "Seq"

\* The optional depth of DROP and DUP: <<>> or <<n>>.
OptHeight(args) ==
    CASE args = <<>> -> Ok(<<>>, 0)
      [] Len(args) = 1 /\ IsInt(args[1]) ->
             Then(validate_u10(args[1][2]), LAMBDA n : Ok(<<n>>, 0))
      [] OTHER -> Unexpected
HeightOr1(h) == IF h = <<>> THEN 1 ELSE h[1]

-----------------------------------------------------------------------------
(* Instructions whose overloads are fixed lists of types                   *)

On(in, out) == <<in, out>>

ArithmeticOverloads(prim) ==
    CASE prim = "ADD" ->
             {On(<<t, t>>, <<t>>) : t \in {Nat_, Int_, Mutez_, Fr_, G1_, G2_}}
             \cup {On(<<Int_, Nat_>>, <<Int_>>), On(<<Nat_, Int_>>, <<Int_>>)}
      [] prim = "MUL" ->
             {On(<<t, u>>, <<IF Int_ \in {t, u} THEN Int_ ELSE Nat_>>) :
                  t, u \in {Nat_, Int_}}
             \cup {On(<<Nat_, Mutez_>>, <<Mutez_>>), On(<<Mutez_, Nat_>>, <<Mutez_>>),
                   On(<<G1_, Fr_>>, <<G1_>>), On(<<G2_, Fr_>>, <<G2_>>)}
             \cup {On(<<t, Fr_>>, <<Fr_>>) : t \in {Fr_, Nat_, Int_}}
             \cup {On(<<Fr_, t>>, <<Fr_>>) : t \in {Nat_, Int_}}

BitwiseOverloads(prim) ==
    CASE prim = "NEG" ->
             {On(<<t>>, <<t>>) : t \in {Int_, G1_, G2_, Fr_}} \cup {On(<<Nat_>>, <<Int_>>)}
      [] prim = "SUB_MUTEZ" -> {On(<<Mutez_, Mutez_>>, <<OptionT(Mutez_)>>)}
      [] prim \in {"OR", "XOR"} -> {On(<<t, t>>, <<t>>) : t \in {Nat_, Bool_, Bytes_}}
      [] prim = "AND" ->
             {On(<<t, t>>, <<t>>) : t \in {Nat_, Bool_, Bytes_}}
             \cup {On(<<Int_, Nat_>>, <<Nat_>>)}
      [] prim = "NOT" ->
             {On(<<t>>, <<t>>) : t \in {Bool_, Int_, Bytes_}} \cup {On(<<Nat_>>, <<Int_>>)}

ComparisonPrims == {"GT", "GE", "EQ", "NEQ", "LE", "LT"}
ComparisonOverloads == {On(<<Int_>>, <<Bool_>>)}

ConversionOverloads(prim) ==
    CASE prim = "INT" -> {On(<<t>>, <<Int_>>) : t \in {Nat_, Fr_, Bytes_}}
      [] prim = "NAT" -> {On(<<Bytes_>>, <<Nat_>>)}
      [] prim = "BYTES" -> {On(<<t>>, <<Bytes_>>) : t \in {Int_, Nat_}}
      [] prim = "ABS" -> {On(<<Int_>>, <<Nat_>>)}
      [] prim = "ISNAT" -> {On(<<Int_>>, <<OptionT(Nat_)>>)}

SignatureOverloads(prim) ==
    CASE prim = "SET_DELEGATE" -> {On(<<OptionT(<<"key_hash">>)>>, <<Operation_>>)}
      [] prim = "CHECK_SIGNATURE" ->
             {On(<<<<"key">>, <<"signature">>, Bytes_>>, <<Bool_>>)}
      [] prim = "SLICE" -> {On(<<Nat_, Nat_, t>>, <<OptionT(t)>>) : t \in {String_, Bytes_}}

HashPrims == {"BLAKE2B", "KECCAK", "SHA256", "SHA3", "SHA512"}
HashOverloads == {On(<<Bytes_>>, <<Bytes_>>)}

\* The instructions that push something of the context.
ContextType ==
    [ AMOUNT |-> Mutez_, BALANCE |-> Mutez_, LEVEL |-> Nat_, MIN_BLOCK_TIME |-> Nat_,
      SELF_ADDRESS |-> Address_, SENDER |-> Address_, SOURCE |-> Address_,
      NOW |-> <<"timestamp">>, TOTAL_VOTING_POWER |-> Nat_ ]
AccountOverloads(prim) ==
    CASE prim = "IMPLICIT_ACCOUNT" -> {On(<<<<"key_hash">>>>, <<<<"contract", Unit_>>>>)}
      [] prim = "VOTING_POWER" -> {On(<<<<"key_hash">>>>, <<Nat_>>)}
      [] prim = "HASH_KEY" -> {On(<<<<"key">>>>, <<<<"key_hash">>>>)}
      [] prim = "PAIRING_CHECK" -> {On(<<ListT(PairT(G1_, G2_))>>, <<Bool_>>)}

OverloadsOf(prim) ==
    CASE prim \in {"ADD", "MUL"} -> ArithmeticOverloads(prim)
      [] prim \in {"NEG", "SUB_MUTEZ", "OR", "XOR", "AND", "NOT"} -> BitwiseOverloads(prim)
      [] prim \in ComparisonPrims -> ComparisonOverloads
      [] prim \in {"INT", "NAT", "BYTES", "ABS", "ISNAT"} -> ConversionOverloads(prim)
      [] prim \in {"SET_DELEGATE", "CHECK_SIGNATURE", "SLICE"} -> SignatureOverloads(prim)
      [] prim \in {"IMPLICIT_ACCOUNT", "VOTING_POWER", "HASH_KEY", "PAIRING_CHECK"} ->
             AccountOverloads(prim)
      [] prim \in HashPrims -> HashOverloads
      [] prim \in DOMAIN ContextType -> {On(<<>>, <<ContextType[prim]>>)}
      [] prim = "UNIT" -> {On(<<>>, <<Unit_>>)}
      [] prim = "CHAIN_ID" -> {On(<<>>, <<<<"chain_id">>>>)}
      [] OTHER -> {}

TcOverload(prim, args, s) ==
    LET hits == {o \in OverloadsOf(prim) : Len(s) >= Len(o[1]) /\ Take(s, Len(o[1])) = o[1]}
    IN  CASE args # <<>> -> Unexpected
          [] args = <<>> /\ hits = {} -> NoMatch
          [] OTHER -> LET o == CHOOSE o \in hits : TRUE
                      IN  Step(<<prim, o[1]>>, Len(o[1]), o[2], s)

-----------------------------------------------------------------------------
(* DROP, DUP, DIG, DUG; DIP is below with the other blocks                 *)

TcStack(prim, args, s) ==
    CASE prim = "DROP" ->
             Then(OptHeight(args), LAMBDA h :
               Then(Charge(tc_variadic(h)), LAMBDA v :
                 Then(ensure_stack_len(s, HeightOr1(h)), LAMBDA w :
                   Step(<<"DROP", h>>, HeightOr1(h), <<>>, s))))
      [] prim = "DUP" ->
             IF args = <<MInt(0)>> THEN Er("Dup0", 0)
             ELSE Then(OptHeight(args), LAMBDA h :
                    Then(ensure_stack_len(s, HeightOr1(h)), LAMBDA v :
                      Then(ensure_prop(s[HeightOr1(h)], "Duplicable"), LAMBDA w :
                        Step(<<"DUP", h>>, 0, <<s[HeightOr1(h)]>>, s))))
      [] prim \in {"DIG", "DUG"} /\ (Len(args) # 1 \/ ~IsInt(args[1])) -> Unexpected
      [] prim = "DIG" /\ Len(args) = 1 /\ IsInt(args[1]) ->
             Then(validate_u10(args[1][2]), LAMBDA n :
               Then(ensure_stack_len(s, n), LAMBDA v :
                 Plus(CASE n = 0 -> Step(<<"DIG", n>>, 0, <<>>, s)
                        [] n > 0 /\ Len(s) = n -> Er("panic", 0)
                        [] OTHER -> Step(<<"DIG", n>>, n + 1, <<s[n + 1]>> \o Take(s, n), s),
                      tc_depth(n))))
      [] prim = "DUG" /\ Len(args) = 1 /\ IsInt(args[1]) ->
             Then(validate_u10(args[1][2]), LAMBDA n :
               Plus(CASE n = 0 -> Step(<<"DUG", n>>, 0, <<>>, s)
                      [] n > 0 /\ Len(s) < n -> NoMatch
                      [] n > 0 /\ Len(s) = n -> Er("panic", 0)
                      [] OTHER -> Step(<<"DUG", n>>, n + 1,
                                       SubSeq(s, 2, n + 1) \o <<s[1]>>, s),
                    tc_depth(n)))

\* SWAP, FAILWITH, NEVER.
TcFail(prim, s) ==
    CASE prim = "SWAP" ->
             IF Len(s) >= 2 THEN Step(<<"SWAP">>, 2, <<s[2], s[1]>>, s) ELSE NoMatch
      [] prim = "FAILWITH" ->
             IF s = <<>> THEN NoMatch
             ELSE Then(ensure_prop(s[1], "Pushable"), LAMBDA v :
                    Ok([i |-> <<"FAILWITH", s[1]>>, s |-> Failed], 0))
      [] prim = "NEVER" ->
             IF Shape(s, <<"never">>) THEN Ok([i |-> <<"NEVER">>, s |-> Failed], 0)
             ELSE NoMatch

-----------------------------------------------------------------------------
(* Pairs                                                                   *)

\* A right comb of the sequence.
Comb(ts) ==
    FoldLeft(LAMBDA acc, k : PairT(ts[Len(ts) - k], acc), ts[Len(ts)],
             [k \in 1..(Len(ts) - 1) |-> k])

\* The n leaves of a comb, <<>> when it is too short.
RECURSIVE Leaves(_, _)
Leaves(t, n) ==
    CASE n = 1 -> <<t>>
      [] n > 1 /\ t[1] = "pair" ->
             LET rest == Leaves(t[3], n - 1)
             IN  IF rest = <<>> THEN <<>> ELSE <<t[2]>> \o rest
      [] OTHER -> <<>>

\* get_nth_field_ref: even n is a tail of the comb, odd n a component.  The
\* result is <<>> or <<type>>.
RECURSIVE get_nth_field(_, _)
get_nth_field(n, t) ==
    CASE n = 0 -> <<t>>
      [] n # 0 /\ t[1] # "pair" -> <<>>
      [] n = 1 /\ t[1] = "pair" -> <<t[2]>>
      [] OTHER -> get_nth_field(n - 2, t[3])

RECURSIVE set_nth_field(_, _, _)
set_nth_field(n, t, x) ==
    CASE n = 0 -> x
      [] n = 1 -> <<t[1], x, t[3]>>
      [] OTHER -> <<t[1], t[2], set_nth_field(n - 2, t[3], x)>>

TcPair(prim, args, s) ==
    CASE prim \in {"CAR", "CDR"} ->
             CASE args # <<>> -> Unexpected
               [] args = <<>> /\ ~Shape(s, <<"pair">>) -> NoMatch
               [] OTHER -> Step(<<prim>>, 1, <<s[1][IF prim = "CAR" THEN 2 ELSE 3]>>, s)
      [] prim = "PAIR" /\ args = <<>> ->
             IF Len(s) >= 2 THEN Step(<<"PAIR">>, 2, <<PairT(s[1], s[2])>>, s) ELSE NoMatch
      [] prim = "UNPAIR" /\ args = <<>> ->
             IF Shape(s, <<"pair">>) THEN Step(<<"UNPAIR">>, 1, <<s[1][2], s[1][3]>>, s)
             ELSE NoMatch
      [] prim \in {"PAIR", "UNPAIR"} /\ Len(args) = 1 /\ IsInt(args[1]) ->
             IF prim = "UNPAIR" /\ s = <<>> THEN NoMatch
             ELSE Then(validate_u10(args[1][2]), LAMBDA n :
                    CASE n < 2 -> Er("PairN01", 0)
                      [] n >= 2 /\ prim = "PAIR" ->
                             IF Len(s) < n THEN NoMatch
                             ELSE Plus(Step(<<"PAIR_N", n>>, n, <<Comb(Take(s, n))>>, s),
                                       tc_depth(n))
                      [] OTHER ->
                             Plus(IF Leaves(s[1], n) = <<>> THEN NoMatch
                                  ELSE Step(<<"UNPAIR_N", n>>, 1, Leaves(s[1], n), s),
                                  tc_depth(n)))
      [] prim = "SOME" ->
             CASE args # <<>> -> Unexpected
               [] args = <<>> /\ s = <<>> -> NoMatch
               [] OTHER -> Step(<<"SOME">>, 1, <<OptionT(s[1])>>, s)
      [] OTHER -> Unexpected

-----------------------------------------------------------------------------
(* Lists, CONCAT and COMPARE                                               *)

TcCompare(s) ==
    IF Len(s) < 2 THEN NoMatch
    ELSE Then(ensure_ty_eq(s[1], s[2]), LAMBDA v :
           Then(ensure_prop(s[1], "Comparable"), LAMBDA w : Step(<<"COMPARE">>, 2, <<Int_>>, s)))

TcSize(s) ==
    IF s # <<>> /\ s[1][1] \in {"string", "bytes", "list", "set", "map"}
    THEN Step(<<"SIZE", s[1][1]>>, 1, <<Nat_>>, s) ELSE NoMatch

TcList(prim, s) ==
    CASE prim = "CONS" ->
             IF Shape(s, <<"_", "list">>)
             THEN Then(ensure_ty_eq(s[2][2], s[1]), LAMBDA v : Step(<<"CONS">>, 1, <<>>, s))
             ELSE NoMatch
      [] prim = "CONCAT" ->
             CASE Shape(s, <<"string", "string">>) \/ Shape(s, <<"bytes", "bytes">>) ->
                      Step(<<"CONCAT", <<s[1], s[2]>>>>, 1, <<>>, s)
               [] Shape(s, <<"list">>) /\ s[1][2] \in {String_, Bytes_} ->
                      Step(<<"CONCAT", <<s[1]>>>>, 1, <<s[1][2]>>, s)
               [] OTHER -> NoMatch

(* Sets, maps and big_maps.  The key is on top, the new value below it.    *)

TcMapAccess(prim, s) ==
    LET at == IF prim \in {"MEM", "GET"} THEN 2 ELSE 3
        coll == s[at]
        kinds == CASE prim = "GET" -> {"map", "big_map"}
                   [] prim = "GET_AND_UPDATE" -> {"map", "big_map"}
                   [] OTHER -> {"set", "map", "big_map"}
        new == IF coll[1] = "set" THEN Bool_ ELSE OptionT(coll[3])
    IN  IF \/ Len(s) < at
           \/ coll[1] \notin kinds
           \/ at = 3 /\ s[2][1] # (IF coll[1] = "set" THEN "bool" ELSE "option")
        THEN NoMatch
        ELSE Then(ensure_ty_eq(coll[2], s[1]), LAMBDA v :
               CASE prim = "MEM" -> Step(<<"MEM", coll[1]>>, 2, <<Bool_>>, s)
                 [] prim = "GET" -> Step(<<"GET", coll[1]>>, 2, <<OptionT(coll[3])>>, s)
                 [] OTHER ->
                        Then(IF coll[1] = "set" THEN Charge(0)
                             ELSE ensure_ty_eq(coll[3], s[2][2]), LAMBDA w :
                          Step(<<prim, coll[1]>>, IF prim = "UPDATE" THEN 2 ELSE 1, <<>>, s)))

\* GET n and UPDATE n; the latter charges nothing.
TcField(prim, args, s) ==
    LET width == IF prim = "GET" THEN 1 ELSE 2
    IN  CASE Len(args) # 1 \/ ~IsInt(args[1]) -> Unexpected
          [] Len(args) = 1 /\ IsInt(args[1]) /\ Len(s) < width -> NoMatch
          [] OTHER ->
                 Then(validate_u10(args[1][2]), LAMBDA n :
                   LET field == get_nth_field(n, s[width])
                   IN  Plus(CASE field = <<>> -> NoMatch
                              [] field # <<>> /\ prim = "GET" ->
                                     Step(<<"GET_N", n>>, 1, field, s)
                              [] OTHER -> Step(<<"UPDATE_N", n>>, 2,
                                               <<set_nth_field(n, s[2], s[1])>>, s),
                            IF prim = "GET" THEN tc_depth(n) ELSE 0))

-----------------------------------------------------------------------------
(* Contracts, lambdas and tickets, without arguments                       *)

TcOperation(prim, s) ==
    CASE prim = "ADDRESS" ->
             IF Shape(s, <<"contract">>) THEN Step(<<"ADDRESS">>, 1, <<Address_>>, s)
             ELSE NoMatch
      [] prim = "PACK" ->
             IF s = <<>> THEN NoMatch
             ELSE Then(ensure_prop(s[1], "Packable"), LAMBDA v :
                    Step(<<"PACK">>, 1, <<Bytes_>>, s))
      [] prim = "TRANSFER_TOKENS" ->
             IF Shape(s, <<"_", "mutez", "contract">>)
             THEN Then(ensure_ty_eq(s[3][2], s[1]), LAMBDA v :
                    Step(<<"TRANSFER_TOKENS">>, 3, <<Operation_>>, s))
             ELSE NoMatch

TcLambdaUse(prim, s) ==
    CASE ~Shape(s, <<"_", "lambda">>) -> NoMatch
      [] Shape(s, <<"_", "lambda">>) /\ prim = "EXEC" ->
             Then(ensure_ty_eq(s[2][2], s[1]), LAMBDA v : Step(<<"EXEC">>, 2, <<s[2][3]>>, s))
      [] OTHER ->
             IF s[2][2][1] # "pair" THEN NoMatch
             ELSE Then(ensure_ty_eq(s[2][2][2], s[1]), LAMBDA v :
                    Step(<<"APPLY", s[1]>>, 2, <<LambdaT(s[2][2][3], s[2][3])>>, s))

TcTicket(prim, s) ==
    CASE prim = "TICKET" ->
             IF Shape(s, <<"_", "nat">>)
             THEN Step(<<"TICKET">>, 2, <<OptionT(TicketT(s[1]))>>, s) ELSE NoMatch
      [] prim = "READ_TICKET" ->
             IF Shape(s, <<"ticket">>)
             THEN Step(<<"READ_TICKET">>, 0, <<PairT(Address_, PairT(s[1][2], Nat_))>>, s)
             ELSE NoMatch
      [] prim = "SPLIT_TICKET" ->
             IF Shape(s, <<"ticket", "pair">>) /\ s[2] = PairT(Nat_, Nat_)
             THEN Step(<<"SPLIT_TICKET">>, 2, <<OptionT(PairT(s[1], s[1]))>>, s) ELSE NoMatch
      [] prim = "JOIN_TICKETS" ->
             IF Shape(s, <<"pair">>) /\ s[1][2][1] = "ticket" /\ s[1][3][1] = "ticket"
             THEN Then(ensure_ty_eq(s[1][2][2], s[1][3][2]), LAMBDA v :
                    Step(<<"JOIN_TICKETS">>, 1, <<OptionT(s[1][2])>>, s))
             ELSE NoMatch

-----------------------------------------------------------------------------
(* Instructions with a type, an annotation or a script as argument         *)

\* LEFT, RIGHT.
TcOr(prim, arg, s) ==
    IF s = <<>> THEN NoMatch
    ELSE Then(parse_ty(arg), LAMBDA t :
           Step(<<prim>>, 1, <<<<"or">> \o IF prim = "LEFT" THEN <<s[1], t>> ELSE <<t, s[1]>>>>, s))

TcTyped1(prim, arg, s) ==
    CASE prim = "UNPACK" /\ ~Shape(s, <<"bytes">>) -> NoMatch
      [] prim \in {"LEFT", "RIGHT"} -> TcOr(prim, arg, s)
      [] OTHER ->
             Then(parse_ty(arg), LAMBDA t :
               CASE prim = "NONE" -> Step(<<"NONE">>, 0, <<OptionT(t)>>, s)
                 [] prim = "NIL" -> Step(<<"NIL">>, 0, <<ListT(t)>>, s)
                 [] prim = "EMPTY_SET" ->
                        Then(ensure_prop(t, "Comparable"), LAMBDA v :
                          Step(<<"EMPTY_SET">>, 0, <<<<"set", t>>>>, s))
                 [] prim = "UNPACK" ->
                        Then(ensure_prop(t, "Pushable"), LAMBDA v :
                          Step(<<"UNPACK", t>>, 1, <<OptionT(t)>>, s)))

TcEmptyBigMap(args, s) ==
    Then(ParseArg(args[1], "Comparable"), LAMBDA k :
      Then(ParseArg(args[2], "BigMapValue"), LAMBDA v :
        Step(<<"EMPTY_BIG_MAP", k, v>>, 0, <<<<"big_map", k, v>>>>, s)))

\* The entrypoint an annotation names: <<>>, <<name>>, or an error.
FieldEntrypoint(anns) ==
    LET ann == get_single_field_ann(anns)
    IN  CASE ann.out = "TooManyFieldAnns" -> Er("TooManyFieldAnns", 0)
          [] ann.out = "none" -> Ok(<<>>, 0)
          [] OTHER -> IF check_ep_name_len(ann.ann) THEN Ok(<<ann.ann>>, 0)
                      ELSE Er("EntrypointError", 0)
OrDefault(ep) == IF ep = <<>> THEN DefaultEp ELSE ep[1]

\* eps is <<>> where SELF is forbidden.
TcSelf(anns, eps, s) ==
    Then(FieldEntrypoint(anns), LAMBDA f :
      CASE eps = <<>> -> Er("SelfForbidden", 0)
        [] eps # <<>> /\ OrDefault(f) \notin DOMAIN eps[1] -> Er("NoSuchEntrypoint", 0)
        [] OTHER -> Step(<<"SELF", OrDefault(f)>>, 0,
                         <<<<"contract", eps[1][OrDefault(f)]>>>>, s))

TcContract(arg, anns, s) ==
    IF ~Shape(s, <<"address">>) THEN NoMatch
    ELSE Then(FieldEntrypoint(anns), LAMBDA f :
           Then(Require(f # <<DefaultEp>>, "ExplicitDefaultEntrypoint"), LAMBDA v :
             Then(parse_ty(arg), LAMBDA t :
               Step(<<"CONTRACT", t, OrDefault(f)>>, 1, <<OptionT(<<"contract", t>>)>>, s))))

TcEmit(args, anns, s) ==
    CASE Len(args) > 1 -> Unexpected
      [] Len(args) <= 1 /\ s = <<>> -> NoMatch
      [] OTHER ->
             Then(IF args = <<>> THEN Charge(0)
                  ELSE Then(parse_ty(args[1]), LAMBDA t : ensure_ty_eq(t, s[1])), LAMBDA v :
               Then(ensure_prop(s[1], "Pushable"), LAMBDA w :
                 Then(FieldEntrypoint(anns), LAMBDA f :
                   Step(<<"EMIT", f, IF args = <<>> THEN TypeToMicheline(s[1]) ELSE args[1]>>,
                        1, <<Operation_>>, s))))

-----------------------------------------------------------------------------
(* Values and blocks, which contain each other                             *)

RECURSIVE typecheck_value(_, _)
RECURSIVE typecheck_instruction(_, _, _)
RECURSIVE typecheck_script(_)

typecheck(ms, eps, s) ==
    FoldLeft(LAMBDA r, m :
               Then(r, LAMBDA v :
                 Then(typecheck_instruction(m, eps, v.s), LAMBDA w :
                   Ok([code |-> Append(v.code, w.i), s |-> w.s], 0))),
             Ok([code |-> <<>>, s |-> s], 0), ms)

\* A lambda starts from its argument alone, a recursive one from its argument
\* above itself; SELF is forbidden in it.
typecheck_lambda(ms, in_ty, out_ty, recursive) ==
    Then(typecheck(ms, <<>>, IF recursive THEN <<in_ty, LambdaT(in_ty, out_ty)>>
                             ELSE <<in_ty>>), LAMBDA v :
      Then(unify_stacks(v.s, <<out_ty>>), LAMBDA w :
        Ok([kind |-> IF recursive THEN "LambdaRec" ELSE "Lambda", code |-> MSeq(ms),
            instrs |-> v.code, in_ty |-> in_ty, out_ty |-> out_ty], 0)))

\* Among the entrypoints of the address and of the instruction the default one
\* gives way.
typecheck_contract_address(hash, aep, ep, typ) ==
    LET entrypoint == IF aep = DefaultEp THEN ep ELSE aep
        implicit == hash[1] \in DOMAIN KeyHashTag
        eps == KnownContracts[hash]
    IN  CASE DefaultEp \notin {aep, ep} -> Er("EntrypointAmbiguity", 0)
          [] DefaultEp \in {aep, ep} /\ implicit ->
                 IF entrypoint # DefaultEp THEN Er("NoSuchEntrypoint", 0)
                 ELSE IF typ[1] \in {"unit", "ticket"}
                      THEN Ok([hash |-> hash, ep |-> entrypoint], 0)
                      ELSE Er("UnexpectedImplicitAccountType", 0)
          [] OTHER ->
                 CASE hash \notin DOMAIN KnownContracts -> Er("NoSuchContract", 0)
                   [] hash \in DOMAIN KnownContracts /\ entrypoint \notin DOMAIN eps ->
                          Er("NoSuchEntrypoint", 0)
                   [] OTHER -> Then(ensure_ty_eq(typ, eps[entrypoint]), LAMBDA v :
                                 Ok([hash |-> hash, ep |-> entrypoint], 0))

\* OrderValidatingIterator: each element is compared with the one before it.
InOrder(acc, key_of(_), x) ==
    IF acc = <<>> THEN Ok(<<x>>, 0)
    ELSE LET prev == key_of(Last(acc))
         IN  Plus(CASE partial_cmp(prev, key_of(x)) = "lt" -> Ok(Append(acc, x), 0)
                    [] partial_cmp(prev, key_of(x)) = "eq" -> Er("DuplicateElements", 0)
                    [] OTHER -> Er("ElementsNotSorted", 0),
                  compare_cost(prev, key_of(x)))

typecheck_set(elem_ty, ms) ==
    Plus(FoldLeft(LAMBDA r, m :
                    Then(r, LAMBDA acc :
                      Then(typecheck_value(m, elem_ty), LAMBDA v :
                        InOrder(acc, LAMBDA x : x, v))),
                  Ok(<<>>, 0), ms),
         construct_set(size_for_gas(elem_ty), Len(ms)))

\* wrap is the value_mapper: Some in the overlay of a big_map.
typecheck_map(kt, vt, ms, wrap(_)) ==
    LET elt(m) ==
            IF IsApp(m, "Elt") /\ Len(m[3]) = 2
            THEN Then(typecheck_value(m[3][1], kt), LAMBDA k :
                   Then(typecheck_value(m[3][2], vt), LAMBDA v : Ok(<<k, wrap(v)>>, 0)))
            ELSE Er("InvalidEltForMap", 0)
    IN  Plus(FoldLeft(LAMBDA r, m :
                        Then(r, LAMBDA acc :
                          Then(elt(m), LAMBDA e : InOrder(acc, LAMBDA x : x[1], e))),
                      Ok(<<>>, 0), ms),
             construct_map(size_for_gas(kt), Len(ms)))

\* A big_map literal is an id, a list of entries, or both; the types of a
\* stored one must be the ones expected.
TcBigMap(m, kt, vt) ==
    LET both == IsApp(m, "Pair") /\ Len(m[3]) = 2 /\ IsInt(m[3][1]) /\ IsSeq(m[3][2])
        id == IF IsInt(m) THEN <<m[2]>> ELSE IF both THEN <<m[3][1][2]>> ELSE <<>>
        elts == IF IsSeq(m) THEN <<m[2]>> ELSE IF both THEN <<m[3][2][2]>> ELSE <<>>
        stored == IF id = <<>> THEN Charge(0)
                  ELSE IF id[1] \notin DOMAIN BigMaps THEN Er("BigMapNotFound", 0)
                  ELSE Then(ensure_ty_eq(BigMaps[id[1]].key, kt), LAMBDA v :
                         ensure_ty_eq(BigMaps[id[1]].value, vt))
    IN  IF id = <<>> /\ elts = <<>> THEN Er("InvalidValueForType", 0)
        ELSE Then(stored, LAMBDA v :
               Then(IF elts = <<>> THEN Ok(<<>>, 0)
                    ELSE typecheck_map(kt, vt, elts[1], LAMBDA x : <<x>>), LAMBDA o :
                 Ok(<<"big_map", id, o, kt, vt>>, 0)))

\* parse_from_rfc3339: <<>> or the seconds (external).
ParseDate(s) == IF s # <<>> /\ s[1] = 50 THEN <<Len(s)>> ELSE <<>>

\* A literal read from its text or its bytes, and what decoding it costs.
TcEncoded(t, m) ==
    LET text == m[1] = "String"
        made(opt, f(_), cost) ==
            IF opt = <<>> THEN Er("ByteReprError", cost) ELSE Ok(f(opt[1]), cost)
        decoding(con) == IF text THEN Decoding[con].readable ELSE Decoding[con].optimized
    IN  CASE t = "address" ->
                 made(IF text THEN AddressFromB58(m[2]) ELSE AddressFromBytes(m[2]),
                      LAMBDA a : AddressV(a), decoding("key_hash"))
          [] t = "key_hash" ->
                 made(IF text THEN KeyHashFromB58(m[2]) ELSE KeyHashFromBytes(m[2]),
                      LAMBDA h : <<"key_hash", h>>, decoding("key_hash"))
          [] t = "key" ->
                 made(IF text THEN KeyFromB58(m[2]) ELSE KeyFromBytes(m[2]),
                      LAMBDA k : k, decoding("key"))
          [] t = "signature" ->
                 made(IF text THEN SignatureFromB58(m[2]) ELSE SignatureFromBytes(m[2]),
                      LAMBDA g : g, decoding("key"))
          [] t = "chain_id" ->
                 LET bytes == IF text THEN B58Payload(m[2]) ELSE m[2]
                 IN  made(IF Len(bytes) = 4 /\ (text => B58Kind(m[2]) = "Net")
                          THEN <<bytes>> ELSE <<>>,
                          LAMBDA b : <<"chain_id", b>>, decoding("chain_id"))
          [] t = "timestamp" /\ text ->
                 made(ParseDate(m[2]), LAMBDA n : <<"timestamp", n>>, timestamp_decoding(Len(m[2])))
          [] t = "bls12_381_fr" /\ ~text ->
                 made(FrFromBytes(m[2]), LAMBDA x : <<t, x>>, Decoding.bls.fr)
          [] t \in {"bls12_381_g1", "bls12_381_g2"} /\ ~text ->
                 made(PointFromBytes(m[2]), LAMBDA x : <<t, x>>,
                      IF t = "bls12_381_g1" THEN Decoding.bls.g1 ELSE Decoding.bls.g2)
          [] OTHER -> Er("InvalidValueForType", 0)

TcNumber(t, n) ==
    CASE t = "nat" -> IF n >= 0 THEN Ok(NatV(n), 0) ELSE Er("NegativeNat", 0)
      [] t \in {"int", "timestamp"} -> Ok(<<t, n>>, 0)
      [] t = "mutez" ->
             IF n \in 0..MUTEZ_MAX THEN Ok(<<"mutez", n>>, 0) ELSE Er("InvalidValueForType", 0)
      [] t = "bls12_381_fr" -> Ok(<<t, FrFromBigInt(n)>>, Decoding.bls.fr)
      [] OTHER -> Er("InvalidValueForType", 0)

\* Constructors applied to values; a comb of pairs may also be a sequence.
TcConstructed(m, t) ==
    LET args == IF m[1] = "Seq" THEN m[2] ELSE m[3]
        is(prim, n) == IsApp(m, prim) /\ Len(args) = n
    IN  CASE t[1] = "pair" /\ (IsSeq(m) \/ IsApp(m, "Pair")) /\ Len(args) >= 2 ->
                 Then(typecheck_value(args[1], t[2]), LAMBDA l :
                   Then(typecheck_value(IF Len(args) = 2 THEN args[2]
                                        ELSE <<"App", "Pair", Tail(args), <<>>>>, t[3]), LAMBDA r :
                     Ok(PairV(l, r), 0)))
          [] t[1] = "bool" /\ (is("True", 0) \/ is("False", 0)) ->
                 Ok(BoolV(m[2] = "True"), 0)
          [] t[1] = "unit" /\ is("Unit", 0) -> Ok(UnitV, 0)
          [] t[1] = "or" /\ (is("Left", 1) \/ is("Right", 1)) ->
                 Then(typecheck_value(args[1], t[IF m[2] = "Left" THEN 2 ELSE 3]), LAMBDA v :
                   Ok(<<"or", m[2], v>>, 0))
          [] t[1] = "option" /\ is("Some", 1) ->
                 Then(typecheck_value(args[1], t[2]), LAMBDA v : Ok(SomeV(v), 0))
          [] t[1] = "option" /\ is("None", 0) -> Ok(NoneV, 0)
          [] t[1] = "list" /\ IsSeq(m) ->
                 FoldLeft(LAMBDA r, x :
                            Then(r, LAMBDA acc :
                              Then(typecheck_value(x, t[2]), LAMBDA v :
                                Ok(<<"list", Append(acc[2], v)>>, 0))),
                          Ok(<<"list", <<>>>>, 0), args)
          [] t[1] = "set" /\ IsSeq(m) ->
                 Then(typecheck_set(t[2], args), LAMBDA v : Ok(<<"set", v>>, 0))
          [] t[1] = "map" /\ IsSeq(m) ->
                 Then(typecheck_map(t[2], t[3], args, LAMBDA x : x), LAMBDA v :
                   Ok(<<"map", v>>, 0))
          [] t[1] = "lambda" /\ (IsSeq(m) \/ (is("Lambda_rec", 1) /\ IsSeq(args[1]))) ->
                 Then(typecheck_lambda(IF IsSeq(m) THEN args ELSE args[1][2],
                                       t[2], t[3], ~IsSeq(m)), LAMBDA c :
                   Ok(<<"lambda", c>>, 0))
          [] OTHER -> Er("InvalidValueForType", 0)

typecheck_value(m, t) ==
    Plus(CASE t[1] = "big_map" -> TcBigMap(m, t[2], t[3])
           [] t[1] = "contract" ->
                  Then(typecheck_value(m, Address_), LAMBDA a :
                    Then(typecheck_contract_address(a[2], a[3], DefaultEp, t[2]), LAMBDA b :
                      Ok(<<"contract", b.hash, b.ep>>, 0)))
           [] t[1] = "ticket" ->
                  LET r == typecheck_value(m, PairT(Address_, PairT(t[2], Nat_)))
                  IN  IF r.err # "" THEN Er("InvalidValueForType", r.cost)
                      ELSE Ok(<<"ticket", [ticketer |-> r.val[2][2], content |-> r.val[3][2],
                                           amount |-> r.val[3][3][2]]>>, r.cost)
           [] t[1] \notin {"big_map", "contract", "ticket"} ->
                  CASE m[1] = "Int" -> TcNumber(t[1], m[2])
                    [] m[1] = "String" /\ t[1] = "string" -> Ok(<<"string", m[2]>>, 0)
                    [] m[1] = "Bytes" /\ t[1] = "bytes" -> Ok(<<"bytes", m[2]>>, 0)
                    [] m[1] \in {"String", "Bytes"} /\ t[1] \notin {"string", "bytes"} ->
                           TcEncoded(t[1], m)
                    [] m[1] \in {"App", "Seq"} -> TcConstructed(m, t)
                    [] OTHER -> Er("InvalidValueForType", 0),
         VALUE_STEP)

-----------------------------------------------------------------------------
\* DIP n protects n types from its block.
TcDip(args, eps, s) ==
    LET n == Len(args)
    IN  IF n \notin {1, 2} \/ ~IsSeq(args[n]) \/ (n = 2 /\ ~IsInt(args[1])) THEN Unexpected
        ELSE Then(OptHeight(Front(args)), LAMBDA h :
               Then(Charge(tc_variadic(h)), LAMBDA u :
                 Then(ensure_stack_len(s, HeightOr1(h)), LAMBDA v :
                   Then(typecheck(args[n][2], eps, Drop(s, HeightOr1(h))), LAMBDA w :
                     IF w.s = Failed THEN Er("FailNotInTail", 0)
                     ELSE Ok([i |-> <<"DIP", h, w.code>>,
                              s |-> Take(s, HeightOr1(h)) \o w.s], 0)))))

\* The two branches of a conditional start from the stacks a and b.
TcBranches(prim, args, eps, enter) ==
    Then(typecheck(args[1][2], eps, enter[1]), LAMBDA v :
      Then(typecheck(args[2][2], eps, enter[2]), LAMBDA w :
        Then(unify_stacks(v.s, w.s), LAMBDA u :
          Ok([i |-> <<prim, v.code, w.code>>, s |-> u], 0))))

\* The stacks the two branches start from, or <<>> where the top does not match.
BranchStacks(prim, s) ==
    CASE prim = "IF" /\ Shape(s, <<"bool">>) -> <<Tail(s), Tail(s)>>
      [] prim = "IF_NONE" /\ Shape(s, <<"option">>) -> <<Tail(s), <<s[1][2]>> \o Tail(s)>>
      [] prim = "IF_CONS" /\ Shape(s, <<"list">>) -> <<<<s[1][2]>> \o s, Tail(s)>>
      [] prim = "IF_LEFT" /\ Shape(s, <<"or">>) ->
             <<<<s[1][2]>> \o Tail(s), <<s[1][3]>> \o Tail(s)>>
      [] OTHER -> <<>>

TcIf(prim, args, eps, s) ==
    CASE Len(args) # 2 \/ \E k \in DOMAIN args : ~IsSeq(args[k]) -> Unexpected
      [] BranchStacks(prim, s) = <<>> -> NoMatch
      [] OTHER -> TcBranches(prim, args, eps, BranchStacks(prim, s))

ElementType(t) == IF t[1] = "map" THEN PairT(t[2], t[3]) ELSE t[2]

\* The stacks the body of a loop starts from and must come back to.
LoopStacks(prim, s) ==
    CASE prim = "LOOP" /\ Shape(s, <<"bool">>) -> <<Tail(s), s>>
      [] prim = "LOOP_LEFT" /\ Shape(s, <<"or">>) -> <<<<s[1][2]>> \o Tail(s), s>>
      [] prim = "ITER" /\ s # <<>> /\ s[1][1] \in {"list", "set", "map"} ->
             <<<<ElementType(s[1])>> \o Tail(s), Tail(s)>>
      [] OTHER -> <<>>

\* The instruction and the stack after it, where u is the stack of the body.
LoopDone(prim, code, s, u) ==
    CASE prim = "LOOP" -> [i |-> <<prim, code>>, s |-> Tail(u)]
      [] prim = "LOOP_LEFT" -> [i |-> <<prim, code>>, s |-> <<s[1][3]>> \o Tail(u)]
      [] prim = "ITER" -> [i |-> <<prim, s[1][1], code>>, s |-> Tail(s)]

TcLoop(prim, args, eps, s) ==
    CASE Len(args) # 1 \/ \E k \in DOMAIN args : ~IsSeq(args[k]) -> Unexpected
      [] LoopStacks(prim, s) = <<>> -> NoMatch
      [] OTHER -> Then(typecheck(args[1][2], eps, LoopStacks(prim, s)[1]), LAMBDA v :
                    Then(unify_stacks(v.s, LoopStacks(prim, s)[2]), LAMBDA u :
                      Ok(LoopDone(prim, v.code, s, u), 0)))

\* typecheck_map_block: the body may not fail, and leaves one value.
MapBlock(code, eps, elem, rest) ==
    Then(typecheck(code, eps, <<elem>> \o rest), LAMBDA v :
      CASE v.s = Failed -> Er("MapBlockFail", 0)
        [] v.s = <<>> -> Er("MapBlockEmptyStack", 0)
        [] OTHER -> Then(ensure_stacks_eq(rest, Tail(v.s)), LAMBDA w : Ok(v, 0)))

TcMap(args, eps, s) ==
    LET rest == Tail(s)
        con == s[1][1]
    IN  CASE Len(args) # 1 \/ \E k \in DOMAIN args : ~IsSeq(args[k]) -> Unexpected
          [] s # <<>> /\ con \in {"list", "option", "map"} ->
                 Then(MapBlock(args[1][2], eps, ElementType(s[1]), rest), LAMBDA v :
                   Ok([i |-> <<"MAP", con, v.code>>,
                       s |-> <<IF con = "map" THEN <<"map", s[1][2], v.s[1]>>
                               ELSE <<con, v.s[1]>>>> \o rest], 0))
          [] OTHER -> NoMatch

TcPush(args, s) ==
    Then(ParseArg(args[1], "Pushable"), LAMBDA t :
      Then(typecheck_value(args[2], t), LAMBDA v : Step(<<"PUSH", v>>, 0, <<t>>, s)))

TcLambda(prim, args, s) ==
    IF Len(args) # 3 \/ ~IsSeq(args[3]) THEN Unexpected
    ELSE Then(parse_ty(args[1]), LAMBDA a :
           Then(parse_ty(args[2]), LAMBDA b :
             Then(typecheck_lambda(args[3][2], a, b, prim = "LAMBDA_REC"), LAMBDA c :
               Step(<<"LAMBDA", c>>, 0, <<LambdaT(a, b)>>, s))))

TcCreateContract(arg, s) ==
    IF Shape(s, <<"option", "mutez", "_">>) /\ s[1] = OptionT(<<"key_hash">>)
    THEN Then(typecheck_script(arg), LAMBDA script :
           Then(ensure_ty_eq(script.storage, s[3]), LAMBDA v :
             Step(<<"CREATE_CONTRACT", arg>>, 3, <<Operation_, Address_>>, s)))
    ELSE NoMatch

-----------------------------------------------------------------------------
NullaryPrims ==
    {"SWAP", "FAILWITH", "NEVER", "COMPARE", "CONS", "CONCAT", "SIZE", "MEM",
     "GET_AND_UPDATE", "ADDRESS", "PACK", "TRANSFER_TOKENS", "EXEC", "APPLY",
     "TICKET", "READ_TICKET", "SPLIT_TICKET", "JOIN_TICKETS", "SELF"}
UnaryPrims == {"NONE", "NIL", "LEFT", "RIGHT", "EMPTY_SET", "UNPACK", "CONTRACT",
               "CREATE_CONTRACT"}
BlockPrims == {"DIP", "IF", "IF_NONE", "IF_CONS", "IF_LEFT", "LOOP", "LOOP_LEFT",
               "ITER", "MAP"}

TcNullary(prim, anns, eps, s) ==
    CASE prim \in {"SWAP", "FAILWITH", "NEVER"} -> TcFail(prim, s)
      [] prim = "COMPARE" -> TcCompare(s)
      [] prim = "SIZE" -> TcSize(s)
      [] prim \in {"CONS", "CONCAT"} -> TcList(prim, s)
      [] prim \in {"MEM", "GET_AND_UPDATE"} -> TcMapAccess(prim, s)
      [] prim \in {"ADDRESS", "PACK", "TRANSFER_TOKENS"} -> TcOperation(prim, s)
      [] prim \in {"EXEC", "APPLY"} -> TcLambdaUse(prim, s)
      [] prim \in {"TICKET", "READ_TICKET", "SPLIT_TICKET", "JOIN_TICKETS"} -> TcTicket(prim, s)
      [] prim = "SELF" -> TcSelf(anns, eps, s)

TcBlock(prim, args, eps, s) ==
    CASE prim = "DIP" -> TcDip(args, eps, s)
      [] prim \in {"IF", "IF_NONE", "IF_CONS", "IF_LEFT"} -> TcIf(prim, args, eps, s)
      [] prim \in {"LOOP", "LOOP_LEFT", "ITER"} -> TcLoop(prim, args, eps, s)
      [] prim = "MAP" -> TcMap(args, eps, s)

TcApp(prim, args, anns, eps, s) ==
    CASE OverloadsOf(prim) # {} -> TcOverload(prim, args, s)
      [] prim \in {"DROP", "DUP", "DIG", "DUG"} -> TcStack(prim, args, s)
      [] prim \in {"CAR", "CDR", "PAIR", "UNPAIR", "SOME"} -> TcPair(prim, args, s)
      [] prim \in NullaryPrims ->
             IF args = <<>> THEN TcNullary(prim, anns, eps, s) ELSE Unexpected
      [] prim \in {"GET", "UPDATE"} ->
             IF args = <<>> THEN TcMapAccess(prim, s) ELSE TcField(prim, args, s)
      [] prim \in UnaryPrims ->
             CASE Len(args) # 1 -> Unexpected
               [] Len(args) = 1 /\ prim = "CONTRACT" -> TcContract(args[1], anns, s)
               [] Len(args) = 1 /\ prim = "CREATE_CONTRACT" -> TcCreateContract(args[1], s)
               [] OTHER -> TcTyped1(prim, args[1], s)
      [] prim \in {"PUSH", "EMPTY_BIG_MAP"} ->
             CASE Len(args) # 2 -> Unexpected
               [] Len(args) = 2 /\ prim = "PUSH" -> TcPush(args, s)
               [] OTHER -> TcEmptyBigMap(args, s)
      [] prim = "EMIT" -> TcEmit(args, anns, s)
      [] prim \in {"LAMBDA", "LAMBDA_REC"} -> TcLambda(prim, args, s)
      [] prim \in BlockPrims -> TcBlock(prim, args, eps, s)
      [] OTHER -> Unexpected

typecheck_instruction(m, eps, s) ==
    IF s = Failed THEN Er("FailNotInTail", 0)
    ELSE Plus(CASE m[1] = "Seq" ->
                       Then(typecheck(m[2], eps, s), LAMBDA v :
                         Ok([i |-> <<"SEQ", v.code>>, s |-> v.s], 0))
                [] m[1] = "App" -> TcApp(m[2], m[3], m[4], eps, s)
                [] OTHER -> Unexpected,
              INSTR_STEP)

\* The fields of a script, each exactly once, at most one level deep.
typecheck_script(m) ==
    LET nested == IsSeq(m) /\ Len(m[2]) = 1 /\ IsSeq(m[2][1])
        elts == IF nested THEN m[2][1][2] ELSE m[2]
        field(prim) == {k \in DOMAIN elts : IsApp(elts[k], prim)}
        content(prim) == elts[CHOOSE k \in field(prim) : TRUE][3][1]
        good(e) == /\ e[1] = "App"
                   /\ e[2] \in {"code", "parameter", "storage"}
                   /\ Len(e[3]) = 1
                   /\ e[4] = <<>>
    IN  CASE ~IsSeq(m) \/ \E k \in DOMAIN elts : ~good(elts[k]) -> Unexpected
          [] IsSeq(m) /\ \E p \in {"code", "parameter", "storage"} : Cardinality(field(p)) # 1 ->
                 Er("TopLevelElt", 0)
          [] OTHER ->
                 Then(parse_parameter_ty_with_entrypoints(content("parameter")), LAMBDA p :
                   Then(parse_ty(content("storage")), LAMBDA st :
                     Then(ensure_prop(p.ty, "Passable"), LAMBDA u :
                       Then(ensure_prop(st, "Storable"), LAMBDA v :
                         Then(typecheck_instruction(content("code"), <<p.eps>>,
                                                    <<PairT(p.ty, st)>>), LAMBDA w :
                           Then(unify_stacks(<<PairT(ListT(Operation_), st)>>, w.s), LAMBDA z :
                             Ok([code |-> w.i, parameter |-> p.ty, storage |-> st], 0)))))))
=============================================================================
