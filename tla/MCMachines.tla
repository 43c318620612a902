----------------------------- MODULE MCMachines ------------------------------
(* The interpreters, side by side: the Michelson interpreter and its lazy   *)
(* storage, the RISC-V hart with its instructions and their encodings, the  *)
(* EVM under the kernel's handler, and the encodings of messages, which are *)
(* compared with the interpreter's own.  `part` says which one moves in a   *)
(* behaviour, the others stay as they begin.                                *)
EXTENDS MirMachine, RvHart, RvAlu, EvmExecution, SdkMicheline

---------------------------------------------------------------------------
(***************************************************************************)
(* The programs MirMachine is checked on: themes of instructions with the  *)
(* stacks they start from, a known contract, a stored big_map, and scripts.*)
(***************************************************************************)
P(p) == prim0(p)
Block(s) == MSeq(s)
On1(t, v) == [ts |-> <<t>>, s |-> <<v>>]
Nothing == [ts |-> <<>>, s |-> <<>>]
N(n) == <<"nat", n>>
TNat == P("nat")
PushNat(n) == prim2("PUSH", TNat, MInt(n))
Str(s) == <<"string", s>>
FailBlock == Block(<<P("UNIT"), P("FAILWITH")>>)
Macro(name, count, args) == expand_macro(name, count, args)[1]

Kt == <<"KT1", <<7, 7>>>>
Me == <<"KT1", <<1, 2>>>>
Tz == <<"tz1", <<5, 6>>>>
Ep == <<101>>
MirEps == <<100>> :> <<"unit">> @@ Ep :> <<"nat">>
MirContracts == Kt :> (<<100>> :> <<"nat">> @@ Ep :> <<"string">>) @@ Me :> MirEps
MirStored == 0 :> [key |-> <<"nat">>, value |-> <<"string">>,
                   map |-> <<<<N(0), Str(<<97>>)>>, <<N(1), Str(<<98>>)>>>>]
MirCtx == [amount |-> 4, balance |-> 30, level |-> 3, now |-> 9, min_block_time |-> 1,
           chain_id |-> <<1, 2, 3, 4>>, self_address |-> Me, sender |-> Tz, source |-> Tz,
           total_voting_power |-> 5, voting_powers |-> [h \in {Tz} |-> 2], group |-> 9]

Arith ==
    [instrs |-> {P(p) : p \in {"ADD", "MUL", "NEG", "ABS", "ISNAT", "INT", "NOT", "AND", "OR",
                               "XOR", "SWAP", "DUP", "COMPARE", "GT", "LE", "EQ", "SUB_MUTEZ",
                               "AMOUNT", "BYTES", "NAT", "FAILWITH"}}
                \cup {PushNat(3), prim2("PUSH", P("int"), MInt(-130)),
                      prim2("PUSH", P("mutez"), MInt(30)),
                      prim2("PUSH", P("bytes"), MBytes(<<255, 1>>))},
     starts |-> {[ts |-> <<<<"nat">>, <<"int">>>>, s |-> <<N(5), <<"int", -7>>>>],
                 [ts |-> <<<<"mutez">>, <<"nat">>, <<"mutez">>>>,
                  s |-> <<<<"mutez", 9>>, N(4), <<"mutez", 20>>>>],
                 [ts |-> <<<<"bytes">>, <<"bytes">>, <<"bool">>>>,
                  s |-> <<<<"bytes", <<128, 3>>>>, <<"bytes", <<6>>>>, <<"bool", TRUE>>>>]},
     gas |-> {60, 100000}, depth |-> 3]

Texts ==
    [instrs |-> {P(p) : p \in {"CONCAT", "SLICE", "SIZE", "PACK", "BLAKE2B", "KECCAK", "SWAP",
                               "DUP", "COMPARE", "CONS"}}
                \cup {prim1("UNPACK", TNat), prim1("UNPACK", P("string")),
                      prim1("NIL", P("string")), PushNat(0), PushNat(2), prim1("DROP", MInt(2)),
                      prim2("UNPACK", TNat, TNat)},
     starts |-> {[ts |-> <<<<"string">>, <<"string">>>>, s |-> <<Str(<<97, 98>>), Str(<<97>>)>>],
                 [ts |-> <<<<"nat">>, <<"nat">>, <<"bytes">>>>,
                  s |-> <<N(1), N(1), <<"bytes", <<5, 0, 66>>>>>>],
                 On1(<<"list", <<"bytes">>>>,
                     <<"list", <<<<"bytes", <<1>>>>, <<"bytes", <<2, 3>>>>>>>>)},
     gas |-> {40, 200000}, depth |-> 3]

Maps ==
    [instrs |-> {P(p) : p \in {"GET", "MEM", "UPDATE", "GET_AND_UPDATE", "SIZE", "SOME", "SWAP",
                               "DUP", "PAIR"}}
                \cup {PushNat(1), PushNat(2), prim2("PUSH", P("bool"), P("True")),
                      prim2("PUSH", P("string"), MString(<<99>>)),
                      prim1("NONE", P("string")), prim1("EMPTY_SET", TNat),
                      prim2("EMPTY_BIG_MAP", TNat, P("string")),
                      prim1("ITER", Block(<<P("DROP")>>)),
                      prim1("ITER", Block(<<P("CAR"), P("DROP")>>)),
                      prim1("MAP", Block(<<P("CDR"), P("SIZE")>>)),
                      prim1("MAP", Block(<<PushNat(1), P("ADD")>>))},
     starts |-> {[ts |-> <<<<"nat">>, <<"option", <<"string">>>>,
                           <<"big_map", <<"nat">>, <<"string">>>>>>,
                  s |-> <<N(1), <<"option", <<>>>>,
                          <<"big_map", <<0>>, <<>>, <<"nat">>, <<"string">>>>>>],
                 On1(<<"map", <<"nat">>, <<"string">>>>,
                     <<"map", <<<<N(0), Str(<<97>>)>>, <<N(2), Str(<<>>)>>>>>>),
                 On1(<<"set", <<"nat">>>>, <<"set", <<N(1), N(3)>>>>),
                 On1(<<"list", <<"nat">>>>, <<"list", <<N(4), N(1)>>>>)},
     gas |-> {100000}, depth |-> 3]

Tickets ==
    [instrs |-> {P(p) : p \in {"TICKET", "READ_TICKET", "SPLIT_TICKET", "JOIN_TICKETS", "PAIR",
                               "SWAP", "DUP", "DROP", "SOME", "GET_AND_UPDATE", "UPDATE"}}
                \cup {PushNat(1), PushNat(3), prim2("IF_NONE", FailBlock, Block(<<>>)),
                      prim2("PUSH", prim2("pair", TNat, TNat), prim2("Pair", MInt(1), MInt(2))),
                      Block(<<P("SWAP"), P("PAIR"), P("SWAP"), P("SPLIT_TICKET")>>)},
     starts |-> {[ts |-> <<<<"ticket", <<"unit">>>>, <<"pair", <<"nat">>, <<"nat">>>>>>,
                  s |-> <<<<"ticket", [ticketer |-> Kt, content |-> <<"unit">>, amount |-> n]>>,
                          <<"pair", N(1), N(2)>>>>] : n \in {2, 3}}
                \cup
                {[ts |-> <<<<"unit">>, <<"nat">>, <<"unit">>, <<"nat">>>>,
                  s |-> <<<<"unit">>, N(3), <<"unit">>, N(1)>>],
                 [ts |-> <<<<"nat">>, <<"map", <<"nat">>, <<"ticket", <<"unit">>>>>>,
                           <<"lambda", <<"pair", <<"nat">>, <<"unit">>>>, <<"nat">>>>>>,
                  s |-> <<N(3), <<"map", <<>>>>,
                          <<"lambda", [kind |-> "Lambda", code |-> Block(<<P("CAR")>>),
                                       instrs |-> <<<<"CAR">>>>, out_ty |-> <<"nat">>,
                                       in_ty |-> <<"pair", <<"nat">>, <<"unit">>>>]>>>>]},
     gas |-> {3000}, depth |-> 4]

\* Two tickets of equal contents, to be joined: contents the typechecker can
\* compare, and a list, which it accepts too.
Contents(c, v) == [ts |-> <<c, <<"nat">>, c, <<"nat">>>>, s |-> <<v, N(2), v, N(1)>>]
TicketPairs ==
    [instrs |-> {P("PAIR"), P("SWAP"), P("JOIN_TICKETS"), P("TICKET"),
                 prim2("IF_NONE", FailBlock, Block(<<>>)),
                 prim1("DIP", Block(<<P("TICKET"), prim2("IF_NONE", FailBlock, Block(<<>>))>>))},
     starts |-> {Contents(<<"unit">>, <<"unit">>),
                 Contents(<<"option", <<"nat">>>>, <<"option", <<N(4)>>>>)},
     gas |-> {60, 3000}, depth |-> 5]

ListTickets ==
    [TicketPairs EXCEPT !.starts = {Contents(<<"list", <<"unit">>>>, <<"list", <<>>>>)}]

Operations ==
    [instrs |-> {P(p) : p \in {"TRANSFER_TOKENS", "SET_DELEGATE", "SELF", "ADDRESS", "EMIT",
                               "IMPLICIT_ACCOUNT", "CONS", "UNIT", "DUP", "SWAP", "BALANCE",
                               "SENDER", "PAIR", "VOTING_POWER"}}
                \cup {prim1("NIL", P("operation")), prim1("CONTRACT", TNat),
                      prim1("CONTRACT", P("unit")), prim1("NONE", P("key_hash")),
                      <<"App", "CONTRACT", <<P("string")>>, <<<<"Field", Ep>>>>>>,
                      <<"App", "SELF", <<>>, <<<<"Field", Ep>>>>>>, PushNat(1),
                      prim2("IF_NONE", FailBlock, Block(<<>>)),
                      prim1("CREATE_CONTRACT",
                            Block(<<prim1("parameter", P("unit")), prim1("storage", P("unit")),
                                    prim1("code", Block(<<P("CDR"), prim1("NIL", P("operation")),
                                                          P("PAIR")>>))>>))},
     starts |-> {[ts |-> <<<<"nat">>, <<"mutez">>, <<"contract", <<"nat">>>>, <<"unit">>>>,
                  s |-> <<N(1), <<"mutez", 2>>, <<"contract", Kt, <<100>>>>, <<"unit">>>>],
                 [ts |-> <<<<"option", <<"key_hash">>>>, <<"mutez">>, <<"unit">>,
                           <<"key_hash">>>>,
                  s |-> <<<<"option", <<>>>>, <<"mutez", 0>>, <<"unit">>, <<"key_hash", Tz>>>>],
                 On1(<<"address">>, <<"address", Kt, <<100>>>>)},
     gas |-> {250, 100000}, depth |-> 3]

\* What the context of the execution answers.
Context ==
    [instrs |-> {P(p) : p \in {"CHAIN_ID", "SELF_ADDRESS", "NOW", "SOURCE", "LEVEL",
                               "MIN_BLOCK_TIME", "TOTAL_VOTING_POWER", "PACK", "COMPARE"}},
     starts |-> {Nothing}, gas |-> {100000}, depth |-> 3]

Codes ==
    [instrs |-> {P(p) : p \in {"EXEC", "APPLY", "SWAP", "DUP", "PACK", "LOOP", "FAILWITH"}}
                \cup {prim3("LAMBDA", prim2("pair", TNat, TNat), TNat,
                            Block(<<P("UNPAIR"), P("ADD")>>)),
                      prim3("LAMBDA_REC", prim2("pair", TNat, TNat), TNat,
                            Block(<<prim1("DIP", Block(<<P("DROP")>>)), P("CAR")>>)),
                      prim1("UNPACK", prim2("lambda", TNat, TNat)), PushNat(1),
                      prim2("PUSH", P("bool"), P("True")),
                      prim1("LOOP", Block(<<prim2("PUSH", P("bool"), P("True"))>>)),
                      prim1("LOOP", Block(<<prim2("PUSH", P("bool"), P("False"))>>)),
                      prim1("LOOP_LEFT", Block(<<P("DROP"), PushNat(2), prim1("RIGHT", TNat)>>)),
                      prim1("LEFT", TNat), prim2("IF_LEFT", Block(<<>>), Block(<<>>)),
                      prim1("DIP", Block(<<PushNat(4)>>)), Macro("DIIP", 2, <<Block(<<>>)>>),
                      prim1("DIG", MInt(1)), prim1("DIG", MInt(2)), prim1("DUG", MInt(2)),
                      Macro("DUUP", 2, <<>>)},
     starts |-> {[ts |-> <<<<"nat">>, <<"nat">>>>, s |-> <<N(1), N(2)>>]},
     gas |-> {45, 450}, depth |-> 3]

Combs ==
    [instrs |-> {P(p) : p \in {"PAIR", "UNPAIR", "CAR", "CDR", "SOME", "DUP", "SWAP"}}
                \cup {prim1(p, MInt(n)) : p \in {"PAIR", "UNPAIR", "GET", "UPDATE"}, n \in 1..4}
                \cup {prim2("IF_CONS", Block(<<P("SWAP"), P("DROP")>>), FailBlock),
                      prim1("NIL", TNat), P("CONS"),
                      Macro("ASSERT_CMPEQ", 0, <<>>),
                      Macro("IFCMPLE", 0, <<Block(<<PushNat(7)>>), Macro("FAIL", 0, <<>>)>>),
                      Macro("IF_SOME", 0, <<Block(<<>>), Macro("FAIL", 0, <<>>)>>)},
     starts |-> {[ts |-> <<<<"nat">>, <<"nat">>, <<"string">>, <<"bool">>>>,
                  s |-> <<N(1), N(2), Str(<<120>>), <<"bool", FALSE>>>>]},
     gas |-> {30, 3000}, depth |-> 3]

Crypto ==
    [instrs |-> {P(p) : p \in {"CHECK_SIGNATURE", "HASH_KEY", "SHA256", "SHA3", "SHA512", "ADD",
                               "MUL", "NEG", "INT", "PAIRING_CHECK", "PACK", "DUP", "PAIR", "SWAP",
                               "CONS", "COMPARE", "VOTING_POWER"}}
                \cup {prim1("UNPACK", P("key")), prim1("UNPACK", P("bls12_381_g1")),
                      prim1("NIL", prim2("pair", P("bls12_381_g1"), P("bls12_381_g2"))),
                      prim2("PUSH", P("bls12_381_fr"), MInt(-1)),
                      prim2("PUSH", P("bls12_381_fr"), MBytes(<<3>>))},
     starts |-> {[ts |-> <<<<"key">>, <<"signature">>, <<"bytes">>>>,
                  s |-> <<<<"key", c, [k \in 1..n |-> k]>>, <<"signature", g, [k \in 1..m |-> k + 1]>>,
                          <<"bytes", <<9>>>>>>] :
                    <<c, n, g, m>> \in {<<"ed25519", 3, "generic", 4>>, <<"bls", 5, "generic", 4>>,
                                        <<"bls", 5, "bls", 5>>}}
                \cup {[ts |-> <<<<"bls12_381_g1">>, <<"bls12_381_g2">>, <<"bls12_381_fr">>>>,
                       s |-> <<<<"bls12_381_g1", 3>>, <<"bls12_381_g2", 5>>,
                               <<"bls12_381_fr", 6>>>>]},
     gas |-> {1000000}, depth |-> 3]

MirThemeSet == [arith |-> Arith, texts |-> Texts, maps |-> Maps, tickets |-> Tickets,
                ticket_pairs |-> TicketPairs, operations |-> Operations, context |-> Context, codes |-> Codes,
                combs |-> Combs, crypto |-> Crypto]

Script(param, storage, code) ==
    Block(<<prim1("parameter", param), prim1("storage", storage), prim1("code", Block(code))>>)
MirScripts ==
    {[script |-> Script(TNat, TNat, <<P("UNPAIR"), P("ADD"), prim1("NIL", P("operation")),
                                      P("PAIR")>>),
      parameter |-> MInt(p), storage |-> MInt(2)] : p \in {-1, 3}}
    \cup {[script |-> Script(P("unit"), P("unit"), <<P("FAILWITH")>>),
           parameter |-> P("Unit"), storage |-> P("Unit")]}

---------------------------------------------------------------------------
VARIABLE part

-----------------------------------------------------------------------------
(* Michelson: programs of each theme over small stacks.                     *)
MCThemes == MirThemeSet
MCListTickets == [ticket_pairs |-> ListTickets]
MCScripts == MirScripts
MCSelfEps == MirEps
MCKnownContracts == MirContracts
MCBigMaps == MirStored
MCCtx == MirCtx

-----------------------------------------------------------------------------
(* RISC-V: guests of the hart, operands and encodings.                      *)
Op(op) == [op |-> op]
Csr(op, reg, value) ==
    [op |-> op, csr |-> reg, value |-> value, imm |-> FALSE, x0 |-> FALSE]
CsrI(op, reg, value) == [Csr(op, reg, value) EXCEPT !.imm = TRUE]
CsrX0(op, reg) == [Csr(op, reg, {}) EXCEPT !.x0 = TRUE]

\* Traps, returns and the enable and pending bits, from the sandbox's boot.
Trapping ==
    {Op("ecall"), Op("ebreak"), Op("mret"), Op("sret"), Op("alu"),
     [op |-> "jal", imm |-> 4],
     Csr("csrrs", mstatus, {1, 3, 17}), Csr("csrrc", mstatus, {11, 12}),
     Csr("csrrw", mip, {1, 7}), Csr("csrrw", mie, {1, 7}),
     Csr("csrrw", mideleg, {1}), Csr("csrrw", sstatus, Bits64),
     Csr("csrrw", stvec, {3})}

\* A guest of the reset machine, in any mode, whose supervisor writes
\* through the shadow registers.
Shadowing ==
    {Op("sret"), Op("mret"), Op("unknown"), Op("wfi"),
     CsrI("csrrw", sstatus, {1}), Csr("csrrw", sstatus, {7, 11, 13, 14, 17, 22}),
     Csr("csrrs", sip, {5, 11}), Csr("csrrc", sie, {5, 7}),
     Csr("csrrw", mie, {5, 11}), Csr("csrrw", stvec, {0, 1, 3}),
     [op |-> "load", address |-> 0]}

\* Illegal values, read-only registers and registers of other modes.
Probing ==
    {CsrX0("csrrs", cycle), Csr("csrrs", cycle, {0}), CsrI("csrrc", cycle, {}),
     Csr("csrrw", mcause, {63, 2}), Csr("csrrw", scause, {0, 1, 3}),
     Csr("csrrw", satp, {0, 60}), Csr("csrrw", satp, {0, 63}),
     Csr("csrrw", mepc, {0, 2, 3}), Csr("csrrw", mtvec, {0, 1, 3}),
     Csr("csrrw", mstatus, Bits64 \ {11}), Csr("csrrs", medeleg, {2, 11}),
     Csr("csrrw", misa, {}), Csr("csrrw", mnstatus, Bits64),
     Op("mnret"), Op("fence"), Op("mret"), [op |-> "store", address |-> 4]}

\* A machine that keeps an interrupt to itself: its handler may return within
\* the step in which the interrupt is taken.
Undelegated ==
    {Op("mret"), Csr("csrrw", mip, {7}), Csr("csrrw", mideleg, {}), Csr("csrrw", mtvec, {3})}

MCScenarios ==
    <<[instrs |-> Trapping, boot |-> "new", budgets |-> {6}, calls |-> 1,
      exits |-> {User}],
     [instrs |-> Shadowing, boot |-> "reset", budgets |-> {5}, calls |-> 1,
      exits |-> {Supervisor}],
     [instrs |-> Probing, boot |-> "reset", budgets |-> {4}, calls |-> 1,
      exits |-> {Supervisor}],
     [instrs |-> {Op("ecall"), Op("alu"), Op("ebreak")}, boot |-> "new",
      budgets |-> {0, 2, 6}, calls |-> 2, exits |-> Modes],
     [instrs |-> Undelegated, boot |-> "new", budgets |-> {5}, calls |-> 1,
      exits |-> {User}]>>

MCOperands == {0, 1, 2, 3, 4, 5, 7, 8, 15, 16, 127, 128, 129, 200, 254, 255}
MCImms == {{}, 0 .. 63, {0, 2, 4, 6, 8, 10, 12, 14, 16, 18, 20, 22, 24, 26, 28, 30},
           {1, 3, 5, 7, 9, 11}, {11}, {12, 20}}

-----------------------------------------------------------------------------
(* The EVM.  The numbers of gas and ticks are those of the code; ticks are  *)
(* allocated so that one SSTORE fits and two do not.                        *)
MCAddresses == {"user", "c", "d", "n", "withdrawal", "blake2f"}
MCPrecompiles == {"withdrawal", "blake2f"}
MCInputs == {[size |-> 213, rounds |-> 1, ok |-> TRUE], [size |-> 0, rounds |-> 0, ok |-> FALSE]}

MCWorld ==
  [a \in MCAddresses |->
     [bal |-> CASE a = "user" -> 360000 [] a = "c" -> 1 [] OTHER -> 0,
      nonce |-> IF a \in {"c", "d"} THEN 1 ELSE 0, code |-> a \in {"c", "d"}, slot |-> 0]]

Tx(to, value, gas, nonce) ==
  [to |-> to, value |-> value, gas |-> gas, nonce |-> nonce, maxFee |-> 3, delayed |-> FALSE]

\* A deposit, and then a transaction of any kind.
MCTransactions ==
  <<{}, {Tx("c", 1, 45000, 0), Tx(None, 0, 80000, 0), Tx("withdrawal", 1, 30000, 0),
         Tx("c", 297000, 21834, 0), Tx("c", 0, 30000, 1)}>>

MCTargets(a) ==
  CASE a = "c" -> {"d"} [] a = "d" -> {"c", "blake2f"} [] OTHER -> {"withdrawal"}

MCDepositors == {"c"}

MCNewAddress(a, nonce) == "n"

MCOpGas(op) ==
  CASE op = "baseCall" -> 21000 [] op = "baseCreate" -> 53000 [] op = "call" -> 100
    [] op = "value" -> 9000 [] op = "sstore" -> 20000 [] op = "log" -> 375
    [] op = "selfdestruct" -> 5000 [] op = "create" -> 32000 [] OTHER -> 200

-----------------------------------------------------------------------------
(* How a component is while another one moves: as it begins, or with no     *)
(* input.                                                                   *)
MirIdle == /\ mir_theme = "arith" /\ mir_ts = Failed
           /\ mir_st = MirStart(0, <<>>) /\ mir_code = <<>>
HartIdle == /\ rvGuest = 1 /\ rvHart = setup_boot(ZeroCsr, Machine)
            /\ rvPosix = [exited |-> 0, code |-> 0, exitMode |-> User]
            /\ rvRun = Running("pvm", 0) /\ rvSteps = 0
            /\ rvSaved = [m \in TrapModes |-> NotSaved]

MCInit ==
  /\ part \in {"mir", "lazy", "hart", "alu", "decode", "evm", "encoding"}
  /\ IF part = "mir" THEN MirInit ELSE MirIdle
  /\ LzInit
  /\ IF part = "hart" THEN RvInit ELSE HartIdle
  /\ IF part = "alu" THEN AluInit ELSE rvAlu = [op |-> "none", a |-> 0]
  /\ IF part = "decode" THEN DecodeInit ELSE rvWord = [arm |-> [name |-> "none"]]
  /\ EvmInit
  /\ IF part = "encoding" THEN SdkEncInit ELSE sdEnc = [kind |-> "none"]

inputs == <<rvAlu, rvWord, sdEnc>>
mcVars == <<part, mir_vars, lz_vars, rvVars, evmVars, inputs>>

MirPart == part = "mir" /\ MirNext /\ UNCHANGED <<part, lz_vars, rvVars, evmVars, inputs>>
LazyPart == part = "lazy" /\ LzNext /\ UNCHANGED <<part, mir_vars, rvVars, evmVars, inputs>>
HartPart == part = "hart" /\ RvNext /\ UNCHANGED <<part, mir_vars, lz_vars, evmVars, inputs>>
EvmPart == part = "evm" /\ EvmNext /\ UNCHANGED <<part, mir_vars, lz_vars, rvVars, inputs>>

\* The programs are bounded; the EVM goes on until its last transaction, and
\* is never stuck before it.
Ended == part # "evm" /\ UNCHANGED mcVars

MCNext == MirPart \/ LazyPart \/ HartPart \/ EvmPart \/ Ended

MCSpec == MCInit /\ [][MCNext]_mcVars

\* The Michelson interpreter alone.
MCMirSpec == MCInit /\ part = "mir" /\ [][MirPart \/ Ended]_mcVars

-----------------------------------------------------------------------------
(* What takes long to evaluate is stated for the behaviours in which the    *)
(* component moves; in the others it does not change.                       *)

\* The interpreter is sound: what the typechecker accepted keeps its type,
\* stops only where it may, neither makes nor loses tickets, numbers its
\* operations, packs what it can unpack, agrees with its own unit test
\* format, and stores big maps as the handles say.
MirSound ==
  /\ part = "mir" =>
       /\ MirTypesPreserved /\ MirProgress /\ MirTicketsConserved /\ MirOperationsUnique
       /\ MirPackRoundTrip /\ MirTztConsistent
  /\ part = "lazy" => LzHandlesIsolated /\ LzStoreExact

\* Executing a transaction is sound: its layers and its gas are nested, the
\* ether is conserved, and failing, waiting for a reboot and a static call
\* leave no effect but the ones they must.
EvmExecutionSound ==
  part = "evm" =>
    /\ EvmTypeOK /\ LayersAgree /\ GasNested /\ EtherConserved
    /\ FailureOnlyCosts /\ RetriableHasNoImpact /\ StaticReadsOnly
==============================================================================
