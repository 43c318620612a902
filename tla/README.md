# A verification of the Octez baker and of the rollup kernels

This directory holds TLA+ models of two parts of this repository: what a Tezos
baker signs (the baker daemon of protocol alpha, `src/src/proto_alpha/lib_delegate`,
in OCaml), and what runs inside a smart rollup (the EVM kernel, the transactions
kernel, the kernel SDK, the Michelson interpreter MIR and the RISC-V interpreter,
in Rust). TLC checks the models on small instances and TLAPS proves the central
results for every instance. Line numbers are those of the repository;
`PROJECT.json` maps each definition to the lines it stands for.

## 1. The system

The repository is the Octez suite: a node (peer-to-peer layer, distributed
database, validators, mempool, store, context), the economic protocols, the
daemons around the node (baker, accuser, smart rollup node, DAL node, DAC node,
EVM node, injector), and the programs that a rollup executes. The parts:

| part | hard behaviour | modules |
|---|---|---|
| baker: operation worker | two threads, one lock; streams that end | `OperationWorker` |
| baker: automaton, actions | five event streams in any order | `StateTransitions` |
| baker: loop, forge worker, watermarks, recorded state | crashes, failing calls, late signatures | `Baker` |
| Tenderbake: the bakers of a level | asynchrony, faulty bakers | `Committee`, `Tenderbake`, `TenderbakeNet` |
| EVM kernel: stages, blocks, upgrades | reboots in the middle of a block | `EvmKernel`, `Blueprints` |
| EVM kernel: proxy inbox, fees, gas price | chunks in any order; fixed widths | `EvmProxyInbox`, `EvmFees`, `EvmGasPrice` |
| EVM execution, precompiled contracts, Ethereum types | nested failures, gas, ticks | `EvmExecution`, `Precompiles`, `EthCodec` |
| transactions kernel | stages over reboots and levels | `TxKernel`, `TxLedger` |
| kernel SDK | chunked host calls, full outboxes, aborted runs | `SdkStore`, `SdkKv`, `SdkHost`, `SdkInstaller`, `SdkLayers`, `SdkMicheline` |
| MIR | typechecker against interpreter, gas | `Micheline`, `MichelsonValues`, `MirGas`, `MirTypechecker`, `MirInterpreter`, `MirMachine` |
| RISC-V interpreter and sandbox | traps, delegation, masks, step counts | `RvCsr`, `RvHart`, `RvAlu`, `RvSandbox` |
| node, other daemons, protocol, cryptography, clients | | not modelled (section 6) |

### How the parts of the baker interact

The node announces blocks on two streams: *valid* blocks, which may not be
applied yet, and *heads*. The loop (`baking_scheduling.ml`) takes the next event
of its streams or the timeout, and calls the automaton
(`state_transitions.ml: step`), which returns a new state and an action. The
action (`baking_actions.ml`) pushes requests to the forge worker, asks the
operation worker to watch a candidate, or injects a vote or a block in the node.
The forge worker checks and records the high watermarks, signs in a queue per
delegate and streams back what it has signed. The operation worker mirrors the
mempool and streams a *prequorum* or *quorum* event when the watched candidate
has enough votes. After each action the loop records level, lock and attestable
payload on disk, computes the next timeout, and waits.

A baker preattests a proposal, attests it once it has seen a quorum of
preattestations (a prequorum), and then *locks* on its payload: at later rounds
of the level it votes for another payload only if the proposal shows a more
recent prequorum. A quorum of attestations elects the block.

### How the parts of a rollup interact

The rollup node runs the kernel on the inbox of each level; a run that asks for it
is repeated within the level (a *reboot*), up to a limit. All state that outlives
a run is in the durable storage, which the SDK (`Runtime`) shows as a map of paths.
The EVM kernel reads the inbox in *stage one* (blueprints of the sequencer in
chunks, delayed transactions from the bridge, upgrades) and executes blueprints in
*stage two*. A block whose transactions exceed the ticks of a run stays in
progress in a temporary copy of the world state until a later run promotes it.
Other kernels are built on the same SDK: the transactions kernel, and the
installer that replaces itself by the kernel it carries. MIR is the Michelson
interpreter for such kernels. The RISC-V interpreter and its sandbox run a kernel
compiled for another machine, and serve its environment calls.

## 2. The modules

### Baker and Tenderbake

- `OperationWorker`: the pool, the current watch, the loop of the worker and the
  event stream. A batch has two steps, since `worker_loop` puts it into the pool
  before it waits for the mutex: calls of the automaton fall in between. The end
  of a stream, the reset of the count, the retention of the pool and the failure
  of the loop are actions. Voting power is the set of slots behind the votes.
- `StateTransitions`: every handler of the automaton as an operator from a state
  and an event to a state, an action, and whether pending signatures are dropped;
  and the requests, injections and watches that an action stands for. Options are
  sets with at most one element. Two equal proposal records are two equal block
  hashes.
- `Baker`: one daemon. `loop` is `"boot"` before the bootstrap event, `"wait"`
  while the loop waits for an event, and `"record"` between the action and the
  record of the state, so that a crash can fall there. `stepped` is the state
  between `step` and `perform_action`, to which the loop returns when the action
  or the record fails. Actions: the events (`NewValidProposal`,
  `NewHeadProposal`, `QCReached`, `NewForgeEvent`, `Timeout`, `Bootstrap`), the
  record (`may_record_new_state`, `RecordRefused`), the forge worker
  (`ProcessRequest`, `Sign`, `SigningFails`), `Restart`, and the environment
  (`Tick`, `QuorumObserved`, which stands for `OperationWorker`). The unit of
  time is a round.
- `Committee`: the slots of a level, their owners and the threshold.
- `Tenderbake`: what the bakers of a level promise together: two kinds of votes,
  one lock, and the rule that relates them. Faulty bakers are counted in every
  quorum, as they may vote for anything.
- `TenderbakeNet`: the honest bakers of a level, each with the automaton of
  `StateTransitions`, on the votes of all. It implements `Tenderbake`: votes are
  the votes injected, and the lock is the field `locked_round`. `Agreement` and
  `QuorumIsFinal` are stated of its votes, and `ElectedAgree` of the elected blocks.

### Kernels and the SDK below them

- `Blueprints`, `EvmKernel`: the EVM kernel. The linked list of
  the delayed inbox keeps its two copies of a node, in the struct and in the
  storage. `EvmKernel` is a program counter `pc` over the steps of a kernel run,
  the storage (`bps`, `delayed`, `world`, `tmp`, `sequencer`, `kernel`, ...), the
  local state of the run (`run`) and the inbox. What the EVM does with a
  transaction is an outcome and a number of ticks.
- `EvmProxyInbox`: parsing, chunked transactions and simulations in proxy mode.
- `EvmFees`, `EvmGasPrice`: fees of a transaction, the price from the backlog with
  its conversions to and from floating point at a scaled width, and the
  validation a node asks for against the one of the block.
- `EvmExecution`: the handler's stack of layers under any sequence of opcodes that
  reach it; `Precompiles`: metering and argument reading of the precompiled
  contracts; `EthCodec`: transactions and stored objects as RLP
  trees.
- `TxLedger`, `TxKernel`: accounts and operations, and the stages of a level with
  the inbox, the DAC iterator and the DAL slot.
- `SdkStore`: the store as a tree and the calls of the runtime in chunks; `SdkKv`
  is the map they implement. `SdkHost`: inbox, outbox queue and reboots under an
  arbitrary kernel; the reboot counter and its flag, here and in `TxKernel`, are those
  of the WASM PVM (`wasm_vm.ml: mark_for_reboot`, `next_reboot_counter`), where the
  last run of a level finds the counter at 0. The mock host of the SDK ends the
  level one run earlier, at a counter of 1. `SdkInstaller`: preimages, setup programs, certificates.
  `SdkLayers`: transactional storage. `SdkMicheline`: the codecs.
- `RvSandbox`: the inbox server, loading a program, and the layout of its state.

### Machines

- `Micheline`, `MichelsonValues`, `MirGas`, `MirTypechecker`, `MirInterpreter`: MIR
  as operators, in the order of the arms of the code; `MirMachine` runs both
  passes side by side over programs chosen as they run, and models lazy storage.
- `RvCsr`, `RvHart`, `RvAlu`: control registers as sets of bits, one hart with its
  environment and its two drivers, and instructions at a scaled width.

### Proofs and instances

- `OperationWorkerProofs`, `TenderbakeProofs`, `TenderbakeNetProofs`: theorems
  about the module of that name. `RollupProofs`: theorems about `RvHart` and `EvmFees`.
- `BakerInvariants`: the words and the inductive invariants of the proofs about
  `Baker`. `BakerProofs`: what each handler and each step does, and the theorems
  that hold on any branches. `BakerIterationProofs`: on one branch an iteration is a
  turn. `BakerTurnProofs`: what a turn keeps. `BakerRoundProofs`: the
  theorems that follow.
- `MC*`: instances for TLC. `MCBakerWorker` puts the operation worker beside the
  daemon of `MCBaker`: they share no state. `MCKernels` and `MCMachines` put independent
  components side by side: `part` says which one moves in a behaviour, and the
  others keep their first state. Their states add up; they do not multiply.
  Several of their invariants begin with `part = ...`: where a component does not
  move there is nothing new to evaluate.

Operators named in a comment as mutants are faulty variants of the definition
that follows them. Each shows that a property notices such a fault; the
specifications do not use them.


## 3. What is checked

| run | question | instance |
|---|---|---|
| `operation_worker_variants` | votes counted once, with two variants of one attestation in the mempool: **violated** | one batch of two variants |
| `baker` | votes, locks, watches and the record on one branch; the loop catches up with the clock | time 3: a proposal, its round 1, a block of the next level, the daemon's own rounds |
| `baker_branches` | the lock never goes back, and something as recent can be reproposed, over a change of branch; in the operation worker, every vote of the pool counted once and every quorum told, over streams that end and resets | time 4, two branches with rival prequorums; batches of 2, 2 watches, 2 streams, threshold 3 of 4 |
| `baker_faults` | no double signing, no deaf wait, with one fault anywhere | time 2, three levels, one crash, failed signature, failed call of the node or failed write |
| `baker_late` | a signature that comes back after its round: **violated** | `PromptSigning` FALSE, time 2 |
| `baker_unsaved` | the record on disk over a change of branch: **violated** | the branches, time 4 |
| `baker_elected` | the comment on lock and election: **violated** | a reproposal after the election, time 3 |
| `tenderbake_net` | the automata agree on one payload, and implement the voting rules | 3 automata and a faulty baker, 3 rounds, rival blocks, reproposals, late blocks |
| `kernels` | blocks, inboxes, fees, codecs, ledgers, storage, installation, sandbox | below |
| `machines` | MIR, RISC-V harts and instructions, EVM calls, codecs of the SDK | below |
| `tx_tickets` | the tickets of the accounts add up to those of the rollup: **violated** | the transactions kernel of `kernels`, one level |
| `mir_tickets` | a typechecked program meets no state held unreachable: **violated** | the MIR of `machines`, tickets of lists |

`kernels` and `machines` hold one component per value of `part`:

- *EVM kernel* (4 menus of messages: execution over reboots, kernel upgrades,
  changes of sequencer, delayed transactions sent twice; levels up to 5, 2 reboots,
  3 messages a level, 2 blocks, 2 forced transactions a block). `BlocksSound`: the
  chain is linked, the block in progress belongs to it, a former sequencer's
  blueprints are out. `EffectsOnce`: no reboot, revert or full outbox repeats or
  loses an executed transaction or a withdrawal. `DelayedKept`: the steps that may
  drop a delayed transaction are the ones section 5 lists. `TakenInEnds`: a block in
  progress ends, a delayed transaction leaves the inbox.
- *Proxy inbox, fee market, Ethereum types, precompiles*: `ProxyInboxExact`,
  `FeeMarketSound`, `EthCodecExact`, `PrecompilesExact` - what is chunked, priced,
  encoded or padded is what comes out, at scaled widths, over all inputs of the
  instance.
- *Transactions kernel* (3 levels, 3 reboots): `TxKernelSound` - no ticket is made
  (accounts and withdrawals hold no more than was deposited), signatures are spent
  once, messages run in order and in full, every inbox is read.
- *SDK*: `StoreSound` and `StoreImplementsMap` (calls in chunks are single steps
  of the map `SdkKv`), `HostExchangesExact` (every message read once, every output
  written once, the counter of reboots and the flag of a forced restart tell the
  truth), `InstallationSound` (whatever run the
  installer stops in, the boot path holds one whole kernel), `LayersSound`.
- *RISC-V sandbox*: `RvSandboxSound` - messages reach the guest once and in order,
  the boot image is what the segments, the RAM disk and the device tree say, regions
  of the state do not overlap.
- *MIR* (themes of instructions, each with its inputs): `MirSound` - what the
  typechecker accepts keeps its types, reaches no state held unreachable, neither
  makes nor copies tickets, names operations and packs values apart. The theme of
  tickets has contents that can be compared, and leaves out `GET` and `APPLY`, which
  copy their argument (section 5). `MirGasMonotone`.
- *RISC-V hart* (5 scenarios: traps, shadowed registers, probing the masks,
  environment calls, an undelegated interrupt): `RvHartSound`, `RvConfined`, and
  `RvInstructionsExact` at a scaled width.
- *EVM execution*: `EvmExecutionSound` - layers and gas nest, ether is conserved,
  a failed or retriable or static call leaves only the effects it must.
- *Codecs of the SDK against MIR's*: `SdkEncodingsAgree`.

Why the bounds are enough. A lock needs one round, a contradicting proposal a
second, and its release by a newer prequorum a third, so three rounds have all
cases of `handle_proposal`; the levels before and after exercise the level update
and the preparation of the next level; two branches with prequorums at rounds 0
and 1 reach each case of `may_switch_branch`; one fault is placed at every point
of every behaviour. Four slots with threshold 3 are the smallest committee that
tolerates a faulty baker. In the EVM kernel two reboots are the least in which a
block stays in progress over a run and a second block follows; two chunks are the
least that can arrive out of order; with two forced transactions a block a flush that
fails can do so on the first or the second of a block. Paths are probed up to one byte
more than the longest. Widths are scaled so that each overflow, mask and rounding happens.
Symmetry is used in `tenderbake_net`, where only safety is checked,
over bakers and payloads that nothing tells apart. Between them the runs take
every action. A component that ends stutters in its last state (`Ended`), so
deadlock stays checked for the others.

### Assumptions

- `PromptSigning` (the `baker` runs but `baker_late`): a signature is back, and has
  been handled, before the round it was asked in ends. The code does not wait for
  it; without it `AttestsAfterPrequorum` fails (section 5). `TenderbakeNet` signs a
  vote in the step that asks for it: the same assumption.
- The node announces blocks as their fitness allows and never before their
  timestamp; a block that shows a prequorum shows one that exists.
- `OneVariant` (theorems on the operation worker): the mempool holds one variant of
  a vote. `operation_worker_variants` shows that it is needed.
- Faulty bakers: `Cardinality(Slots) + Cardinality(FaultySlots) < 2 * Threshold`;
  with two thirds of the slots as threshold, less than a third is faulty.

### Fairness

`baker` assumes weak fairness of the bootstrap, the record, the forge worker and
the clock: each is an Lwt promise that nothing in the daemon can stop. The
timeout, the forge events and the quorum events have strong fairness, because
each turn of the loop offers them with the other streams and `Lwt.choose` picks
one of those ready at random. Nothing is assumed of the node, the other bakers or
faults. The EVM kernel assumes that the rollup node goes on delivering levels and
running the kernel (some step is always taken); no action is preferred.

## 4. What is proved

TLAPS checks these for every value of the constants that satisfies the named
assumptions of the modules.

**The operation worker** (`OperationWorkerProofs`): `TypeCorrect`, `PowerCorrect`,
`QuorumBacked`, `QuorumNotified`, `PooledVotesCounted`. The invariant joins the
properties with types and with the fact that a batch is part of the pool while the
worker waits for the lock; without it the step that counts the batch could not be
shown to leave nothing behind. The key lemma is that the power of a disjoint union
is the sum.

**The voting rules** (`TenderbakeProofs`): `Finality` and `AgreementHolds`, from the
invariant `Good`: bakers preattest once per round; an attestation stands on a
prequorum of its round; the lock is as recent as every attestation; a
preattestation against an earlier attestation of its baker is justified by a
prequorum of a round in between. The last is only true of votes sent before a
prequorum of their own round exists (a baker that missed one may lock and
preattest late), so the invariant speaks of those. Take the least later round
with a prequorum on another payload: it shares an honest slot with the quorum,
that baker was justified by a prequorum in between, a contradiction.

**The automata implement the voting rules** (`TenderbakeNetProofs`): `NetInvariant`,
`NetImplementsTenderbake` (initial states and steps; `Spec => Abstract!Spec`), and what
the refinement carries over from `TenderbakeProofs`: `NetAgrees` (the `Agreement` and
`QuorumIsFinal` of the run `tenderbake_net`) and `ElectedBlocksAgree`.

**One daemon** (`BakerInvariants` holds the words, `BakerProofs`,
`BakerIterationProofs`, `BakerTurnProofs` and `BakerRoundProofs` the proofs). Lemmas
first say what each handler returns; the loop is then one step `Iteration` whose
action and continuation are settled.

| theorem | property | needs | invariant |
|---|---|---|---|
| `NeverSignsTwice` | `NoDoubleSigning` | nothing: any faults | `SignInv`: every place signed, or about to be, is guarded by a watermark |
| `LockCovered` | `AttestableCoversLock` | nothing | `CoverInv`: in memory, between step and action, and on disk |
| `LockMonotone` | `LockNeverDecreases` | no faults | `BelowInv`: the lock is not above the round of the proposal |
| `WaitsInItsRound` | `WaitsForCurrentRound` | one branch | `RoundInv` |
| `ToldOfItsQuorum` | `QuorumIsWatched` | one branch | `RoundInv` |
| `LockOnDisk` | `DiskCoversLock` | one branch, no faults | `DiskInv` |
| `AttestsOnlyAfterPrequorum` | `AttestsAfterPrequorum` | one branch, prompt signing, no faults or no record | `PendInv` |
| `LockRemembersAttestations` | `LockCoversAttestations` | one branch, prompt signing, no faults | `VoteInv` |
| `PreattestsByItsLock` | `PreattestsRespectLock` | one branch, prompt signing, no faults | `VoteInv` |

The last six share one argument. On one branch (`OneBranch`: the proposals of a
level have one predecessor) an iteration is a *turn*: `IterationTurns` shows that
whatever event it takes, the new state and the action are related to the old state
by one of five relations (`ByProposal`, `ByLevel`, `ByTimeout`, `ByQuorum`,
`ByForge`), which say what follows, and not how. The lemmas that follow are then
about turns alone. `RoundInv` says that a state that waits for votes waits in the
round of its proposal, and that whoever waits for a quorum watches that candidate,
or the event is in the stream, or a failed record threw it back; it must speak of
`stepped` and `previous` too, since a failing action or record goes back to them.
`DiskInv` adds that every state the loop may go back to has its lock on disk, and
that no attestable block is of a later round. `PendInv` relates the votes in the
forge worker to the state: a vote on its way is of an earlier level, or for the
current proposal, and an attestation on its way is injected only in a phase that the
prequorum of that proposal has ended. `VoteInv` adds what was sent: an attestation
of the level is covered by the lock, and a preattestation against an earlier
attestation has a prequorum, granted in between, on its payload.

The hypotheses are needed. Late signatures break `AttestsAfterPrequorum` (run
`baker_late`); a crash between the vote and the record loses the lock; on two
branches the daemon may come back to a proposal it had left, with votes on their
way that `PendInv` would have to follow through the switch. `DiskCoversLock` itself fails
over branches (run `baker_unsaved`).

**RISC-V hart** (`RollupProofs`): `HartIsSound` (`RvHartSound`: registers legal,
traps return, no more steps reported than allowed) from `RvInv`; `HartIsConfined` (`RvConfined`): no
step below machine mode touches what the machine owns, from what each instruction
may write (`StepConfined`). The proof found that the property must look at the
mode in which the instruction runs (section 5).

**Fees** (`RollupProofs`): `FeesBalance` (what a transaction pays is what is burned,
kept by the sequencer and given back), `OverallGasWithinLimit`,
`EstimateCoversFees`.

### Only model-checked, and why

- Liveness (`TimeoutsCatchUp`, `TakenInEnds`): out of the proof system's reach.
- EVM kernel (`BlocksSound`, `EffectsOnce`, `DelayedKept`): the flush, the reading of
  a forced blueprint and the walk along the linked list are recursive functions, and
  the outbox is a flattened sequence; neither can be unfolded by the provers for a
  length that is not fixed. The same holds of the proxy inbox (digests and
  concatenations), the sandbox's answers and `SdkHost`.
- `FeeMarketSound`: nearest floats need reasoning about powers of two;
  `EvmExecutionSound`: the conservation of ether is a sum over a set of accounts,
  folded.
- MIR, the store, the installer, the layers, the transactions kernel, the SDK's
  Micheline: recursion over trees (`RECURSIVE`), out of the proof system's reach.
- `EthCodecExact`, `PrecompilesExact`, `RvInstructionsExact`, `RvSandboxSound`:
  agreement of computations over inputs, checked over all small inputs.
- `MirGasMonotone`, `StoreImplementsMap`: action properties of
  the modules above.

## 5. Where code and comments disagree

Each of these six is a run in which TLC finds the quoted sentence violated
(`findings` in `PROJECT.json` has the quotations).

- `operation_worker_variants`: two attestations that differ in their DAL content
  only count twice when they come in one batch, as the batch is compared with what
  was received before it and not with itself.
- `baker_late`: an attestation signed after the end of its round is injected without
  a prequorum: the phase is `Idle` again, and the latest proposal is still the one
  voted for. The lock does not cover this attestation, and agreement needs that it
  does.
- `baker_unsaved`: the record is refused when the attestable *block* is of an older
  round although its *prequorum* is newer; this happens when the branch changes, and
  a lock taken afterwards stays in memory.
- `baker_elected`: after an election the rounds go on, and a lock on a reproposal may
  be later than the elected round.
- `tx_tickets`: a transfer debits the signer, its credit overflows, and the error makes
  no caller roll back (`verifiable.rs:134` assumes that one does): the amount is in no
  account any more.
- `mir_tickets`: `TICKET` is typechecked for contents of any type; `JOIN_TICKETS` of two
  tickets of lists then compares what has no order, and panics where the code says that
  a typechecked program cannot come.

These sentences the models contradict as well. No run of its own shows them; the
properties say nothing of the cases they are about.

- `precompiles/mod.rs:53`: "the implementation of the contract is responsible for failing
  with EthereumError::OutOfTicks". `ecadd`, `ecmul`, `ecpairing` and `modexp` do not look
  at the ticks left. `PrecompilesExact` is about gas, input and output.
- `outbox.rs:236`: "We know this path fits into `PATH_MAX_LEN` from `Self::new`". The check
  of `new` (`:122` "Ensure we have enough room for the hex-encoded u32 indexes") lets
  through roots of the two greatest lengths, whose index paths are too long. `StoreSound`
  says only that roots with enough room are accepted and have paths for their messages.
- `pvm/src/state.rs:103`: "Returns the actual number of steps performed (retired
  instructions)". After an environment call `step_many_accum` counts too few remaining
  steps. `RvHartSound` says that no more steps are reported than were allowed, and that
  the number is exact for the interpreter and for a PVM that met no environment call.
- `parser.rs:368`: "imm[0:4] -> shift amount". The decoder also takes word shifts with bit
  5 of the amount set; `rv64i.rs:123` ("SRLIW encoding allows to consider the whole
  immediate as the shift amount") then shifts a 32-bit word by 32 or more, which panics or
  wraps by the build. `SLLW` is decoded for any `funct7` (`parser.rs:315`).
  `RvInstructionsExact` checks word shifts for the amounts of five bits.
- `big_map.rs:491`: of a lambda, "Can contain only pushable values, thus no big maps".
  `APPLY` takes what is neither pushable nor duplicable into a closure
  (`interpreter.rs:1192`), and `GET` on a map clones its value (`interpreter.rs:927`):
  tickets can be copied. `MirSound` is checked without these two on tickets.
- `program.rs:40`: "we simply shrink the existing chunk". A write inside a chunk also drops
  the bytes behind it. `RvSandboxSound` asks for the bytes of the segments when there is
  no such write.

Other behaviours the models show. The properties are stated so that they hold with
them, and where a sentence of the repository speaks of them it is named.

*Baker.* The votes leave before the lock is recorded. The recorded state is used only
if the head at the restart has its level. A daemon does not preattest the head it
starts on. After a failed record of a change of level the daemon is thrown back
while its watch has moved (the exception in `QuorumIsWatched`).

*EVM kernel.* A delayed transaction is lost when the flush meets a number that has
other chunks, or the number of the block in progress (dropped when it is promoted),
when a kernel upgrade is due, when a block is reverted, and when a blueprint is
refused after some of its hashes were removed (`CHANGES_KERNEL.md:127` "Support
forcing the execution of overdue transactions in the delayed inbox."; `:106` "Flush
every transactions in the delayed inbox in case one is overdue."). A hash sent again
can leave the list with a front that is missing, which stops stage one. Ticks that
run out exactly at the end of the inbox skip the flush. The average block time is
always 0. Empty blocks and invalid transactions are not bounded by ticks.
`retrieve_block_fees` writes outside the temporary world state.

*EVM execution.* A failing nested precompile surfaces as `Err` (`lib.rs:126` "The
function returns `Err` only if something is wrong with the kernel and/or the rollup
node."). After an error the caller loses all the gas they prepaid, while the gas
used is what is recorded as burned. The DA fee is not prepaid, so that
`FeeUpdates::apply` can fail and the block is reverted. Validation lets through a
later nonce, a sender with code, and a balance below the maximal fee.

*Proxy inbox.* An announcement of no chunks never completes; the index of a chunk is
not tied to its hash; a short chunk that is not the last removes the transaction.

*Ethereum types.* Legacy recovery ids 2 and 3 do not fit `v`.

*MIR.* The typechecker panics on `DIG n` and `DUG n` with exactly n elements, and any
use of gas after it ran out panics (`gas.rs:45`). `XOR` on bytes, `FAILWITH` and the
typechecking of `UPDATE n` charge no gas. `UNPACK` and `CONTRACT` swallow `OutOfGas`.

*RISC-V.* A step that begins and ends below machine mode may change machine
registers: an undelegated interrupt goes to the machine's handler, whose first
instruction `mret` runs in the same step. After an environment call forwarded to the
guest's handler breakpoints are ignored. The program counter is stale after an
interrupt (`rv32i.rs:229`). `scause` is not written for machine interrupts delegated
to the supervisor (`hart_state.rs:92`). User mode ignores `mie`/`sie`
(`csregisters.rs:1273`). The interpreter boots in machine mode (`lib.rs:83`,
`machine_state.rs:484` "Start in supervisor mode").
A PVM that has exited panics on the next `step_many`.

*SDK.* `delete_value` leaves an empty node, so
that `store_has` of its parent answers a subtree. `/readonly` paths are refused by
`store_has`. The rule of `path.rs:84` leaves out `_` and `-`. `Set` and `Reveal` write
at offset 0 and leave an older, longer tail. Setup instructions with moves are not
idempotent on retry. `prepare_preimages` of nothing panics. A transaction begun while
the layer below is missing adopts a layer that an aborted run left (`layer.rs:51`).

*Transactions kernel.* The DAC iterator keeps
stale state; without a committee the same message is tried again; a payload below
four bytes panics.

## 6. What is not modelled

*Baker*: the content of blocks and operations, DAL content, several delegates of one
daemon, `--force`, the one-fifth delay of a baker's own round, the end of the daemon
and its one-shot commands. `QuorumObserved` may grant a quorum on whatever is watched,
which is more than `OperationWorker` can. `TenderbakeNet` has one predecessor;
agreement between the branches of a level rests on the quorum of the level before.

*Kernels*: what bytes a hash, a signature or a curve operation computes; RLP byte
framing, bloom filters and block hashes; `CALLCODE` and the record of warm and cold
slots (off in this kernel); overflows of 16- and 32-bit counters of the proxy inbox;
errors of the storage itself; `kernel_dal_echo`, the collector and
`ChangeDalSlot` of the transactions kernel. *MIR*: lexing and annotations, BLS,
Sapling and chest instructions. *RISC-V*: floating point and atomics, the ELF format,
the device tree, the debugger (an interactive view that steps the same hart).

*The rest of the repository*: the node (peer-to-peer layer, distributed database,
validators, mempool, store, context), the protocol's own OCaml, the other daemons, the
WASM PVM (but the reboots `SdkHost` and `TxKernel` take from it), the cryptography,
clients, build and test code. They are OCaml programs of
the same kind as the baker and would each need a project of this size, or they are
pure computation and I/O.

## 7. Plan

1. The requester (`lib_requester`): pending requests, waiters, retries, peers that
   leave, against an abstract fetch.
2. Bounded queues (`lwt_pipe`, `lwt_dropbox`) and the workers over them.
3. `Baker` over two branches: an inductive invariant that follows the votes on their
   way through a switch.
4. `OperationWorker` inside `Baker`, in the place of `QuorumObserved`.
5. The store: merge and cementing under crashes.
