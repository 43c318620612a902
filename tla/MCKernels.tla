------------------------------ MODULE MCKernels ------------------------------
(* The kernels, the library they are built on and the sandbox that runs     *)
(* them, side by side: `part` says which component moves in a behaviour,    *)
(* the others stay as they begin.  Components that only compute (codecs,    *)
(* validation, precompiled contracts, reveals, paths) have one behaviour    *)
(* for each of their inputs and no step.                                    *)
EXTENDS EvmKernel, EvmProxyInbox, EvmGasPrice, EthCodec, Precompiles, TxKernel,
        SdkHost, SdkInstaller, SdkLayers, RvSandbox

CONSTANTS s1, s2, t1, t2, t3, d1, d2, k1, k2

VARIABLE part

-----------------------------------------------------------------------------
(* The EVM kernel: blueprints in two chunks with a delayed transaction,     *)
(* upgrades of the kernel, a change of sequencer, and delayed transactions  *)
(* sent twice.                                                              *)
MCStorageVersions == k1 :> 1 @@ k2 :> 2

Tx(h) == [kind |-> "eth", hash |-> h]
Delayed(h) == [kind |-> "delayed", hash |-> h]

Blueprint(number, nb, parent, ts, hashes, txs, signer) ==
  [number |-> number, nb |-> nb, parent |-> parent, ts |-> ts, delayed |-> hashes,
   txs |-> txs, signer |-> signer]

B0 == Blueprint(0, 2, GenesisParent, 1, <<d1>>, <<Tx(t1)>>, s1)
B1 == Blueprint(1, 1, <<0, <<Delayed(d1), Tx(t1)>>, 1>>, 2, << >>, <<Tx(t2), Tx(t1)>>, s1)
C0 == Blueprint(0, 1, GenesisParent, 1, << >>, <<Tx(t3)>>, s2)
D0 == Blueprint(0, 1, GenesisParent, 1, <<d1>>, << >>, s1)
D1 == Blueprint(1, 1, <<0, <<Delayed(d1)>>, 1>>, 1, <<d2>>, << >>, s1)

ChunkMessage(bp, i) == [type |-> "chunk", bp |-> bp, i |-> i]
Bridge(h, id) == [type |-> "delayed", tx |-> Delayed(h), id |-> id]

Execution == {ChunkMessage(B0, 0), ChunkMessage(B0, 1), ChunkMessage(B1, 0), Bridge(d1, 1),
              [type |-> "deposit", deposit |-> "x"]}
KernelUpgrades ==
  {ChunkMessage(D0, 0), Bridge(d1, 1), [type |-> "upgrade", kernel |-> k2, at |-> 1], [type |-> "force"]}
Sequencers ==
  {ChunkMessage(D0, 0), ChunkMessage(C0, 0), [type |-> "simple", tx |-> Tx(t3)],
   [type |-> "deposit", deposit |-> "x"],
   [type |-> "sequencer_upgrade", sequencer |-> s2, at |-> 2], [type |-> "remove_sequencer"]}
Resent == {Bridge(d1, 1), Bridge(d2, 1), Bridge(d1, 2), ChunkMessage(D0, 0), ChunkMessage(D1, 0)}
Overdue == {Bridge(d1, 1), Bridge(d2, 1), [type |-> "deposit", deposit |-> "x"]}

MCMenus == {Execution, KernelUpgrades, Sequencers, Resent, Overdue}

MCTxTicks(h) == IF h \in {t1, d1} THEN 2 ELSE IF h = t2 THEN 5 ELSE 1
MCOutcome(h) == IF h = t3 THEN "error" ELSE "ok"
MCWithdraws(h) == h \in {t1, d1}

-----------------------------------------------------------------------------
(* What the precompiled contracts promise the handler that calls them, and   *)
(* how they read their input: every precompile over small sets of handlers   *)
(* and inputs, and the padding and ABI helpers over short byte strings.      *)
CONSTANTS PcGas,       \* the gas left when the call is made
          PcAllocated, \* the ticks allocated
          PcSizes,     \* the sizes of inputs
          PcLengths,   \* the lengths in a header of modexp
          PcBytes,     \* the bytes of short inputs
          PcMaxLen     \* bound: bytes of a short input

VARIABLE pcCase

\* Bytes of an ABI word, and their base.
PcWord == 2
PcBase == 4

PcHandlers == [gas : PcGas, ticks : {0, 50000}, allocated : PcAllocated]
PcShort    == UNION {[1 .. n -> PcBytes] : n \in 0 .. PcMaxLen}

PcInput(size, ok) ==
  [size |-> size, ok |-> ok, rounds |-> size, baseLen |-> 1, expLen |-> 1, modLen |-> 1,
   expHighp |-> 1, oversized |-> "no"]
PcHeaders ==
  {[PcInput(96, TRUE) EXCEPT !.baseLen = b, !.expLen = e, !.modLen = m, !.expHighp = x, !.oversized = o] :
     b \in PcLengths, e \in PcLengths, m \in PcLengths, x \in {0, 5, 255}, o \in {"no", "exp", "other"}}

PcHashing  == {"sha256", "ripemd160", "identity", "ecrecover", "blake2f", "withdrawal"}
PcDraining == {"ecadd", "ecmul", "ecpairing", "blake2f"}

PcInit ==
  \/ \E name \in PcHashing \cup PcDraining, h \in PcHandlers, size \in PcSizes, ok \in BOOLEAN :
        pcCase = [kind |-> "call", name |-> name, h |-> h, in |-> PcInput(size, ok)]
  \/ \E h \in PcHandlers, in \in PcHeaders :
        pcCase = [kind |-> "call", name |-> "modexp", h |-> h, in |-> in]
  \/ \E data \in PcShort : pcCase = [kind |-> "bytes", data |-> data]

(***************************************************************************)
(* A precompile never records more gas than its caller has left, and       *)
(* succeeds only if the gas left covers what it would cost with all the    *)
(* gas in the world; those that drain the gas leave none after a failure.  *)
(* Nothing is said of the ticks, which half of them do not check.          *)
(***************************************************************************)
PcMetered ==
  pcCase.kind = "call" =>
    LET h    == pcCase.h
        out  == PcCall(pcCase.name, h, pcCase.in)
        rich == PcCall(pcCase.name, [h EXCEPT !.gas = 2000000000], pcCase.in)
    IN  /\ out.gas <= h.gas
        /\ out.exit \in {"Succeed", "Revert"} => rich.exit = out.exit /\ rich.gas = out.gas
        /\ out.exit \in {"Failed", "OutOfTicks"} /\ pcCase.name \in PcDraining => out.gas = h.gas

(***************************************************************************)
(* Bytes outside the input read as zero, from any offset and for any       *)
(* length: the padding helpers agree with the infinite strings they stand  *)
(* for.                                                                    *)
(***************************************************************************)
PcPaddingExact ==
  pcCase.kind = "bytes" =>
    LET data == pcCase.data
        at(i) == IF i \in DOMAIN data THEN data[i] ELSE 0
    IN  \A offset \in 0 .. PcMaxLen + 1, len \in 0 .. PcMaxLen + 1 :
          /\ get_right_padded(data, offset, len) = [i \in 1 .. len |-> at(offset + i)]
          /\ len >= Len(data) =>
               left_padding(data, len) = [i \in 1 .. len |-> at(i - (len - Len(data)))]
          /\ LET e == erec_parse_inputs(data, 1)
             IN  e.hash \o e.v \o e.rs = [i \in 1 .. 4 |-> at(i)]

AbiWord(v)     == <<v \div PcBase, v % PcBase>>
AbiEncode(s) == AbiWord(PcWord) \o AbiWord(Len(s)) \o s

(***************************************************************************)
(* A string parameter encoded as the ABI says - the word of its location,  *)
(* its length, its bytes - is found and read back, and never from an input *)
(* that was cut short.                                                     *)
(***************************************************************************)
PcAbiExact ==
  pcCase.kind = "bytes" =>
    LET whole == AbiEncode(pcCase.data)
    IN  /\ bytes_parameter(whole, 0, PcWord, PcBase) = [found |-> TRUE, bytes |-> pcCase.data]
        /\ \A n \in 0 .. Len(whole) - 1 :
              ~ bytes_parameter(SubSeq(whole, 1, n), 0, PcWord, PcBase).found
        /\ u256_parameter(AbiWord(Len(pcCase.data)), 0, PcWord, PcBase) = Len(pcCase.data)

\* A precompiled contract is metered before it works, and reads its input as
\* the padding rules and the ABI of the bridge say.
PrecompilesExact == PcMetered /\ PcPaddingExact /\ PcAbiExact

-----------------------------------------------------------------------------
(* The proxy inbox: two transactions in two chunks, one of them made of     *)
(* equal chunks, chunks under the wrong index, and a simulation's messages. *)
ExternalMessage(ours, b) == [kind |-> "external", ours |-> ours, bytes |-> b]
Announce(tx_) ==
  ExternalMessage(TRUE, <<1>> \o Digest(tx_) \o le16(Parts(tx_)) \o
                        FlattenSeq([i \in 1 .. Parts(tx_) |-> Digest(Part(tx_, i - 1))]))
ChunkOf(tx_, i, j) ==
  ExternalMessage(TRUE, <<2>> \o Digest(tx_) \o le16(i) \o Digest(Part(tx_, j)) \o Part(tx_, j))
SimMessage(b) == [kind |-> "simulation", ours |-> TRUE, bytes |-> <<255>> \o b]

MCPrLarge == {<<1, 2, 3>>, <<3, 3, 3, 3>>}
MCPrMessages ==
  {Announce(l) : l \in MCPrLarge}
  \cup {ChunkOf(l, i, i) : l \in MCPrLarge, i \in 0 .. 1}
  \cup {ChunkOf(<<1, 2, 3>>, 0, 1), ChunkOf(<<1, 2, 3>>, 1, 0),
        ExternalMessage(TRUE, <<0>> \o Digest(<<2>>) \o <<2>>), ExternalMessage(FALSE, <<255>>),
        ExternalMessage(TRUE, <<255>>),
        [kind |-> "deposit", ours |-> TRUE, ticketer |-> TRUE, address |-> TRUE, amount |-> 1],
        [kind |-> "bytes", ours |-> TRUE, from |-> "security", kernel |-> 7],
        [kind |-> "bytes", ours |-> TRUE, from |-> "sequencer_governance", kernel |-> 7]}
MCPrSim ==
  {SimMessage(b) : b \in {<<>>, <<1, 0, 4>>, <<1, 7, 4>>, <<2, 2, 0>>, <<2, 0, 0>>, <<2, 1>>,
                          <<3, 0, 0, 1, 2>>, <<3, 1, 0, 1, 3>>, <<3, 0, 0>>}}

\* A rising step function in the place of the exponential.
MCGpExp(x) == 1 + x \div 2

-----------------------------------------------------------------------------
(* Transactions of each type, at the boundaries of the chain identifier and *)
(* with numbers and fields that are zero, and the stored objects.           *)
MCEthTx(type, chains, fees, accesses) ==
  {[type_ |-> type, chain_id |-> c, nonce |-> n,
    max_priority_fee_per_gas |-> IF type = "Eip1559" THEN f ELSE 16,
    max_fee_per_gas |-> 16, gas_limit |-> 1, to |-> to, value |-> 255,
    data |-> d, access_list |-> a, signature |-> <<>>] :
     c \in chains, n \in {0, 15}, f \in fees, to \in {<<>>, <<<<0>>>>}, d \in {<<>>, <<0>>},
     a \in accesses}
MCEthAccesses == {<<>>, <<[address |-> <<0>>, storage_keys |-> <<<<0, 0>>, <<0, 1>>>>]>>}
MCEthTxs ==
  MCEthTx("Legacy", {<<>>, <<0>>, <<1>>, <<2>>, <<109>>, <<110>>, <<111>>, <<255>>}, {16}, {<<>>})
    \cup MCEthTx("Eip2930", {<<0>>, <<1>>, <<255>>}, {16}, MCEthAccesses)
    \cup MCEthTx("Eip1559", {<<0>>, <<1>>, <<255>>}, {0, 16}, MCEthAccesses)
MCEthKeys == {[r |-> <<0, 5>>, s |-> <<4, 0>>], [r |-> <<15, 15>>, s |-> <<0, 1>>]}
MCEthLogs == {<<>>, <<[log |-> <<1>>, index |-> 0], [log |-> <<>>, index |-> 15]>>}
MCEthSigs == {<<>>, <<[v |-> 0, r |-> <<0, 1>>, s |-> <<3, 0>>]>>, <<[v |-> 37, r |-> <<1, 1>>, s |-> <<0, 2>>]>>}
MCEthTos == {<<>>, <<<<0>>>>, <<<<9>>>>}
MCEthStored ==
  {[kind |-> "receipt", value |->
     [hash |-> <<0, 3>>, index |-> i, block_number |-> n, from |-> <<0>>, to |-> to,
      cumulative_gas_used |-> 16, effective_gas_price |-> 0, gas_used |-> 255,
      contract_address |-> ca, logs |-> l, logs_bloom |-> <<0, 0>>, type_ |-> ty, status |-> st]] :
     i \in {0, 15}, n \in {0, 16}, to \in MCEthTos, ca \in MCEthTos, l \in MCEthLogs,
     ty \in {"Legacy", "Eip2930", "Eip1559"}, st \in {"Failure", "Success"}}
  \cup
  {[kind |-> "object", value |->
     [block_number |-> n, from |-> <<0>>, gas_used |-> 16, gas_price |-> 0, hash |-> <<0, 0>>,
      input |-> d, nonce |-> nn, to |-> to, index |-> i, value |-> 255, signature |-> sig]] :
     n \in {0, 255}, d \in {<<>>, <<0>>, <<0, 7>>}, nn \in {0, 15}, to \in MCEthTos, i \in {0, 15},
     sig \in MCEthSigs}
  \cup
  {[kind |-> "block", value |->
     [number |-> n, hash |-> <<0, 1>>, parent_hash |-> <<0, 0>>, logs_bloom |-> <<0, 1>>,
      transactions_root |-> <<1>>, state_root |-> <<0>>, receipts_root |-> <<2, 2>>, miner |-> m,
      extra_data |-> <<>>, gas_limit |-> g, transactions |-> t, gas_used |-> 16, timestamp |-> ts]] :
     n \in {0, 16, 255}, m \in {<<>>, <<<<0>>>>}, g \in {<<>>, <<0>>, <<15>>},
     t \in {<<>>, <<<<0, 0>>>>, <<<<0, 1>>, <<3, 0>>>>}, ts \in {0, 15}}
MCEthNoise == {RlpData(<<>>), RlpData(<<0>>), RlpData(<<0, 5>>), RlpData(<<3, 7>>),
               RlpData(<<1, 0, 0>>), RlpList(<<RlpData(<<1>>)>>), RlpList(<<>>),
               RlpList(<<RlpList(<<RlpData(<<1>>), RlpData(<<9>>)>>)>>)}

-----------------------------------------------------------------------------
(* The transaction kernel: deposits, batches, payloads on the data          *)
(* availability committee with and without signatures and pages, and slots. *)
Op(s, key, sig, c, kind, d, t, n) ==
  [signer |-> s, key |-> key, sig |-> sig, counter |-> c, kind |-> kind, dest |-> d, ticket |-> t, amount |-> n]
MCTxOps == << Op(1, TRUE, TRUE, 0, "Transfer", 2, 10, 1),
              Op(1, FALSE, TRUE, 1, "Withdraw", 0, 10, 1),
              Op(1, TRUE, FALSE, 0, "Transfer", 2, 10, 1),
              Op(2, TRUE, TRUE, 0, "CTransfer", 1, 0, 2),
              Op(1, FALSE, TRUE, 2, "Transfer", 1, 11, 1),
              Op(2, FALSE, TRUE, 1, "Withdraw", 0, 11, 1),
              Op(2, TRUE, TRUE, 0, "Transfer", 1, 11, 2) >>
MCTxOpSize == <<2, 5, 1, 6, 3, 4, 5>>
Dep(a, t, n) == [kind |-> "deposit", to |-> a, ticket |-> t, amount |-> n]
Ext(b) == [kind |-> "external", body |-> b]
Batch(l) == Ext([kind |-> "batch", ops |-> l])
Dac(l, signed, available, garbled) ==
  Ext([kind |-> "dac", ops |-> l, signed |-> signed, available |-> available, garbled |-> garbled])
In(msgs) == [dal |-> <<>>, msgs |-> msgs]
Slot(l) == <<[id |-> <<0, 0>>, kind |-> "batch", ops |-> l]>>
MCTxInboxes ==
  {In(<<Dep(1, 10, 2), Dep(2, 11, 2), Batch(<<3, 1, 2>>)>>),
   In(<<Dep(1, 10, 2), Dep(1, 11, 2), Dep(2, 10, 3), Dac(<<1, 2, 4, 5>>, TRUE, TRUE, FALSE)>>),
   In(<<Dep(2, 11, 3), [kind |-> "other"], Batch(<<1, 7>>),
        Ext([kind |-> "junk", ops |-> <<>>]), Batch(<<1, 4>>)>>),
   In(<<Dac(<<2, 1, 4, 2>>, TRUE, TRUE, TRUE), Batch(<<5, 6>>)>>),
   In(<<Dac(<<1, 7>>, FALSE, TRUE, FALSE), Dac(<<6, 4>>, TRUE, FALSE, FALSE)>>),
   In(<<Dac(<<7>>, TRUE, TRUE, FALSE), Dep(1, 11, 1)>>),
   [dal |-> Slot(<<1, 6>>), msgs |-> <<Dep(2, 11, 1), Batch(<<4>>)>>],
   [dal |-> Slot(<<4, 2>>), msgs |-> <<Dep(1, 10, 3)>>],
   [dal |-> <<[id |-> <<0, 0>>, kind |-> "junk", ops |-> <<>>]>>, msgs |-> <<>>]}

\* Deposits that every balance can take, and a transfer that one cannot.
MCTxTransfers ==
  {In(<<Dep(1, 10, 2), Batch(<<1, 2>>)>>), In(<<Dep(1, 11, 2), Dep(2, 11, 2), Batch(<<7>>)>>)}

-----------------------------------------------------------------------------
MCSdkPaths == {<<1>>, <<1, 2>>, <<2>>}
MCSdkSources == {<<1>>, <<1, 2, 3>>}
MCSdkFields == {<<2, 3, 4>>}
MCSdkKernel == [i \in 1 .. 7 |-> 20 + i]
SetAt(p, v) == [op |-> "Set", value |-> v, to |-> p]
MoveTo(p, q) == [op |-> "Move", from |-> p, to |-> q]
MCSdkSetups ==
  {<<>>, <<SetAt(<<13>>, <<1, 2>>)>>, <<SetAt(<<13, 14>>, <<1, 2>>), SetAt(<<13, 14>>, <<3>>)>>,
   <<SetAt(<<13, 14>>, <<1, 2>>), MoveTo(<<13>>, <<15>>), SetAt(<<13>>, <<3>>)>>,
   <<MoveTo(<<14>>, <<13>>)>>, <<MoveTo(<<14>>, <<13>>), SetAt(<<13>>, <<3>>)>>}

MCStLeaves == {Leaf(1, 1), Leaf(1, 3), Leaf(2, 1), Leaf(2, 2), Leaf(4, 1)}

-----------------------------------------------------------------------------
(* How a component is while another one moves: as it begins, with nothing   *)
(* to read; a component that only computes has no input.                    *)
KernelIdle == FirstBoot /\ unsent = {}
GasIdle == gpBacklog = [time |-> -1, ticks |-> 0] /\ gpMinimum = 1 /\ gpNumber = 0 /\ gpBlocks = <<>>
ValidationIdle ==
  evCase = [signed |-> FALSE, chain |-> 0, nonce |-> 0, maxFee |-> 1, limit |-> 1, da |-> 0, price |-> 1,
            account |-> [nonce |-> 1, balance |-> 0, code |-> FALSE], used |-> 0, outcome |-> "Error"]
TxIdle == TxInit /\ ~ txStore.committee
IteratorIdle == txPay = <<>> /\ txIt = <<>> /\ txDisk = <<>> /\ txGot = <<>> /\ txEnd = ""
LayersIdle == sdStack = 0 /\ sdLayers = <<>> /\ sdStale = TRUE /\ sdAborts = 0
StateIdle == stLayout = <<Leaf(1, 1)>> /\ stBytes = <<0>> /\ stValues = <<<<0>>>> /\ stWrites = 0

Computing == {"validation", "codec", "precompiles", "path", "dac"}
Bounded == {"proxy", "gas", "tx", "iterator", "host", "installer", "program", "state", "sandbox"}
Endless == {"kernel", "store", "layers"}

MCInit ==
  /\ part \in Computing \cup Bounded \cup Endless
  /\ IF part = "kernel" THEN Init ELSE KernelIdle
  /\ PrInit
  /\ IF part = "gas" THEN GpInit ELSE GasIdle
  /\ IF part = "validation" THEN EvInit ELSE ValidationIdle
  /\ IF part = "codec" THEN EthInit ELSE ethCase = [kind |-> "none"]
  /\ IF part = "precompiles" THEN PcInit ELSE pcCase = [kind |-> "none"]
  /\ IF part = "tx" THEN TxInit ELSE TxIdle
  /\ IF part = "iterator" THEN TxIterInit ELSE IteratorIdle
  /\ IF part = "path" THEN SdkPathInit ELSE sdPath = <<>> /\ sdSuffix = <<>>
  /\ SdkHostInit
  /\ IF part = "dac" THEN SdkDacInit ELSE sdDac = [case |-> "none"]
  /\ IF part = "installer" THEN SdkInstInit ELSE sdInst = [status |-> "none"] /\ SdkStoreInit
  /\ IF part = "layers" THEN Storage_init ELSE LayersIdle
  /\ IF part = "program" THEN LoadInit ELSE LoadInit /\ rvDisk = NoInitrd
  /\ IF part = "state" THEN StInit ELSE StateIdle
  /\ IF part = "sandbox" THEN SbInit ELSE SbInit /\ sbKeepGoing /\ sbGuest.max = 0

evmVars == <<vars, prVars, gpVars, evCase, ethCase, pcCase>>
txDemoVars == <<txVars, txIterVars>>
layerVars == <<sdStack, sdLayers, sdStale, sdAborts>>
sdkVars == <<sdPathVars, sdHostVars, sdDac, sdStoreVars, sdInst, layerVars>>
rvVars == <<loadVars, stVars, sbVars>>
mcVars == <<part, evmVars, txDemoVars, sdkVars, rvVars>>

KernelStep == /\ part = "kernel" /\ Next
              /\ UNCHANGED <<part, prVars, gpVars, evCase, ethCase, pcCase, txDemoVars, sdkVars, rvVars>>
ProxyStep == /\ part = "proxy" /\ PrNext
             /\ UNCHANGED <<part, vars, gpVars, evCase, ethCase, pcCase, txDemoVars, sdkVars, rvVars>>
GasStep == /\ part = "gas" /\ GpNext
           /\ UNCHANGED <<part, vars, prVars, evCase, ethCase, pcCase, txDemoVars, sdkVars, rvVars>>
TxStep == /\ part = "tx" /\ TxKernelNext
          /\ UNCHANGED <<part, evmVars, txIterVars, sdkVars, rvVars>>
IteratorStep == /\ part = "iterator" /\ TxIterNextState
                /\ UNCHANGED <<part, evmVars, txVars, sdkVars, rvVars>>
HostStep == /\ part = "host" /\ SdkHostNext
            /\ UNCHANGED <<part, evmVars, txDemoVars, sdPathVars, sdDac, sdStoreVars, sdInst, layerVars, rvVars>>
StoreStep == /\ part = "store" /\ SdkStoreNext
             /\ UNCHANGED <<part, evmVars, txDemoVars, sdPathVars, sdHostVars, sdDac, sdInst, layerVars, rvVars>>
LayersStep == /\ part = "layers" /\ SdkLayersNext
              /\ UNCHANGED <<part, evmVars, txDemoVars, sdPathVars, sdHostVars, sdDac, sdInst, rvVars>>
InstallerStep == /\ part = "installer" /\ SdkInstNext
                 /\ UNCHANGED <<part, evmVars, txDemoVars, sdPathVars, sdHostVars, sdDac, layerVars, rvVars>>
ProgramStep == /\ part = "program" /\ LoadNext
               /\ UNCHANGED <<part, evmVars, txDemoVars, sdkVars, stVars, sbVars>>
StateStep == /\ part = "state" /\ StNext
             /\ UNCHANGED <<part, evmVars, txDemoVars, sdkVars, loadVars, sbVars>>
SandboxStep == /\ part = "sandbox" /\ SbNext
               /\ UNCHANGED <<part, evmVars, txDemoVars, sdkVars, loadVars, stVars>>

\* A computation has no step, and the bounded ones may have come to an end;
\* the kernel, the store and the layers never do.
Ended == part \in Computing \cup Bounded /\ UNCHANGED mcVars

MCNext ==
  \/ KernelStep \/ ProxyStep \/ GasStep \/ TxStep \/ IteratorStep \/ HostStep \/ StoreStep
  \/ LayersStep \/ InstallerStep \/ ProgramStep \/ StateStep \/ SandboxStep
  \/ Ended

\* Fairness is that of EvmKernel: the rollup node goes on running the kernel.
MCSpec == MCInit /\ [][MCNext]_mcVars /\ Fairness

\* The transactions kernel alone.
MCTxSpec == MCInit /\ part = "tx" /\ [][TxStep]_mcVars

-----------------------------------------------------------------------------
(* The store, the layers and the installer work on the one durable tree, so *)
(* their properties are stated for the behaviours in which they move; so    *)
(* are the properties of other components that take long to evaluate.       *)

\* The tree the host functions build is one the store can be in: every node
\* has its ancestors, and no value is longer than a file may be.
StoreTypeOK == part = "store" => SdkStoreTypeOK

\* Reading a value at once, in chunks or from an offset gives the same bytes
\* (store_read, store_read_slice, store_read_all).
StoreReadsAgree == part = "store" => SdkReadsAgree

\* store_has sees a value wherever there is one, and below a node where there
\* is one below it.
StoreHasSeesValues == part = "store" => SdkHasSeesValues

\* The host functions of the store implement the map of SdkKv: a write in
\* chunks is one overlay of the value, a move or a copy replaces all that is
\* below its target, and nothing else changes.
StoreImplementsMap ==
  /\ part = "store" => SdkMap!KvInit
  /\ [][part = "store" /\ sdTree' # sdTree => [SdkMap!KvNext]_(SdkMapOf(sdTree))]_mcVars

\* Whatever run the installer is stopped in, the boot path holds the whole
\* installer or the whole kernel, never a part of either.
InstallerBootWhole == part = "installer" => SdkBootWhole

\* Once the installer has rebooted, the store holds the kernel and what its
\* setup instructions wrote, and nothing of the installer.
InstallerExact == part = "installer" => SdkInstallExact

\* The store is sound: its tree is well formed, its reads agree with each
\* other, its store_has misses nothing, and its paths are well formed.
StoreSound == StoreTypeOK /\ StoreReadsAgree /\ StoreHasSeesValues /\ SdkPathsWellFormed

\* An installation is sound: content is revealed exactly, certificates are
\* signed, and the installer leaves the kernel whole and nothing of itself.
InstallationSound ==
  SdkRevealsContent /\ SdkCertificateSigned /\ InstallerBootWhole /\ InstallerExact

\* The fee market is sound: the backlog, the price it gives, the floats it
\* goes through, and what validation and estimation make of the price.  Each is
\* a matter of the behaviours in which the blocks, or the transaction, vary.
FeeMarketSound ==
  /\ part = "gas" => GasBacklogIsWorkLeft /\ GasPriceSound /\ GasFloatNearest
  /\ part = "validation" => EvValidationAgrees /\ EvEstimateSuffices

\* The inbox of the proxy is read exactly: large transactions come out whole
\* and once, under their hash, upgrades are found, and a simulation runs on
\* its own chunks.
ProxyInboxExact ==
  part = "proxy" => PrChunksExact /\ PrDeliveredIsAnnounced /\ PrUpgradeRetrieved /\ PrSimulationExact

\* The transactions kernel makes no tickets, takes every signature once,
\* executes messages in order and in full, and reads every inbox, over stages,
\* reboots and levels.
TxKernelSound ==
  /\ part = "tx" => TxTicketsBacked /\ TxCountersSpent /\ TxMessagesInOrder /\ TxInboxesRead
  /\ part = "iterator" => TxIteratorExact

\* What a kernel and the host exchange is exact over reboots: every message
\* is read once, every output is written once, and the reboot flag tells the
\* kernel the truth.
HostExchangesExact == part = "host" => SdkOutboxExactlyOnce /\ SdkInboxOnce /\ SdkRebootsReported

\* A RISC-V program is laid out soundly and is given its inbox exactly.
RvSandboxSound ==
  /\ part \in {"program", "state"} => RvLayoutSound
  /\ part = "sandbox" => SandboxExact
==============================================================================
