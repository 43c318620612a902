------------------------------- MODULE EvmKernel -------------------------------
(****************************************************************************)
(* The EVM rollup kernel: kernel runs and reboots (lib.rs), stage one       *)
(* (stage_one.rs, inbox.rs, parsing.rs), stage two (block.rs,               *)
(* block_in_progress.rs, apply.rs), the temporary copy of the world state   *)
(* (safe_storage.rs) and the upgrades (upgrade.rs, migration.rs).           *)
(*                                                                          *)
(* A kernel run is a sequence of steps; pc says where it is.  A run ends in *)
(* "end": it reboots within the level when it asked to and reboots are      *)
(* left, otherwise the next level starts the next run.  What the EVM does   *)
(* with a transaction is abstracted to an outcome.                          *)
(****************************************************************************)
EXTENDS Blueprints, Integers

CONSTANTS
  Menus,            \* sets of messages: those of one set may enter the inbox, once each
  StorageVersions,  \* kernel |-> its STORAGE_VERSION
  FirstKernel,      \* the kernel at origination
  FirstSequencer,   \* the sequencer at origination, or None
  ForceDelay,       \* 86400 seconds: when an upgrade may be forced
  InboxTicks,       \* chunks, bridge transactions and deposits one run can read
  RunTicks,         \* MAX_ALLOWED_TICKS, for transactions
  TxTicks(_),       \* hash |-> ticks the transaction needs
  Outcome(_),       \* hash |-> "ok", "invalid" or "error": its execution by the EVM
  Withdraws(_),     \* hash |-> whether the transaction withdraws
  MaxReboots,       \* reboots in a level
  OutboxRoom,       \* messages the outbox of a level holds
  MaxLevel,         \* bound: levels with messages
  LastLevel,        \* bound: the level at which the clock stays
  MaxPerLevel,      \* bound: messages of a level
  MaxBlocks         \* bound: blocks after which the empty levels add no block

ASSUME EvmKernelAssumption ==
  /\ {ForceDelay, InboxTicks, RunTicks, MaxReboots, OutboxRoom, MaxLevel, LastLevel,
      MaxPerLevel, MaxBlocks} \subseteq Nat /\ MaxLevel <= LastLevel
  /\ FirstKernel \in DOMAIN StorageVersions

VARIABLES
  pc,          \* where the kernel run is
  run,         \* what the run keeps in memory
  inbox,       \* messages of the level not read yet
  level,       \* the level of the inbox
  reboots,     \* reboots left in the level
  room,        \* messages the outbox of the level still takes
  unsent,        \* messages that have not entered the inbox yet
  world,       \* /evm/world_state: the blocks and the outbox queue
  tmp,         \* /tmp/evm/world_state: the same and the block in progress, or None
  bps,         \* /evm/blueprints
  delayed,     \* /evm/delayed-inbox
  ipl,         \* timestamp and level of the last info per level
  nonce,       \* /evm/deposit_nonce
  sequencer,   \* /evm/sequencer, or None
  seqUpgrade,  \* /evm/sequencer_upgrade, or None
  upgrade,     \* /evm/kernel_upgrade, or None
  kernel,      \* the kernel at the boot path
  version,     \* /evm/storage_version
  outbox       \* withdrawals written to the outbox

environment == <<inbox, level, reboots, room, unsent>>
governance == <<sequencer, seqUpgrade, upgrade, kernel, version>>
storage == <<world, tmp, bps, delayed, ipl, nonce>>
vars == <<pc, run, environment, storage, governance, outbox>>

NewRun == [sequencer |-> None, empty |-> TRUE, ticks |-> InboxTicks, txs |-> << >>,
           reboot |-> FALSE, upgrade |-> None, used |-> 0, firstBlock |-> TRUE,
           firstTx |-> TRUE, resumed |-> FALSE, bip |-> None]

FirstBoot ==
  /\ pc = "idle" /\ run = NewRun
  /\ inbox = << >> /\ level = 0 /\ reboots = 0 /\ room = OutboxRoom
  /\ world = [blocks |-> << >>, queue |-> << >>] /\ tmp = None
  /\ bps = << >> /\ delayed = EmptyList
  /\ ipl = [timestamp |-> 0, level |-> 0] /\ nonce = 0
  /\ sequencer = FirstSequencer /\ seqUpgrade = None
  /\ upgrade = None /\ kernel = FirstKernel /\ version = StorageVersions[FirstKernel]
  /\ outbox = << >>

Init == FirstBoot /\ unsent \in Menus

--------------------------------------------------------------------------------
(* The rollup node delivers the inbox of a level and runs the kernel.  Past *)
(* MaxLevel the levels hold the info message alone.  In proxy mode that     *)
(* message makes a block; past MaxBlocks it is not delivered any more.      *)

Batches == {s \in UNION {[1..n -> unsent] : n \in 0..MaxPerLevel} :
              \A i, j \in DOMAIN s : i # j => s[i] # s[j]}

NewLevel ==
  /\ pc = "idle"
  /\ level' = IF level < LastLevel THEN level + 1 ELSE level
  /\ \E batch \in IF level < MaxLevel THEN Batches ELSE {<< >>} :
       /\ inbox' = IF level >= MaxLevel /\ sequencer = None /\ Len(world.blocks) >= MaxBlocks
                   THEN << >>
                   ELSE <<[type |-> "info"]>> \o batch
       /\ unsent' = unsent \ Range(batch)
  /\ reboots' = MaxReboots /\ room' = OutboxRoom
  /\ pc' = "main" /\ run' = NewRun
  /\ UNCHANGED <<storage, governance, outbox>>

(* main: a migration takes the run for itself; otherwise the configuration  *)
(* is read, once for the whole run.                                         *)
Main ==
  /\ pc = "main"
  /\ IF StorageVersions[kernel] = version + 1
     THEN /\ version' = StorageVersions[kernel]
          /\ run' = [run EXCEPT !.reboot = TRUE]
          /\ pc' = "end"
     ELSE /\ run' = [run EXCEPT !.sequencer = sequencer]
          /\ pc' = "stage_one"
          /\ UNCHANGED version
  /\ UNCHANGED <<environment, storage, sequencer, seqUpgrade, upgrade, kernel, outbox>>

EndRun ==
  /\ pc = "end"
  /\ IF run.reboot /\ reboots > 0
     THEN /\ pc' = "main" /\ run' = NewRun /\ reboots' = reboots - 1
     ELSE /\ pc' = "idle" /\ run' = NewRun /\ UNCHANGED reboots
  /\ UNCHANGED <<inbox, level, room, unsent, storage, governance, outbox>>

--------------------------------------------------------------------------------
(* Stage one: the inbox is read into the storage.                           *)

ProxyMode == run.sequencer = None

Costly == {"chunk", "delayed", "deposit"}

(* read_sequencer_inbox: no ticks left for another chunk.                   *)
StageOneReboot ==
  /\ pc = "stage_one" /\ ~ProxyMode /\ run.ticks = 0
  /\ run' = [run EXCEPT !.reboot = TRUE] /\ pc' = "end"
  /\ UNCHANGED <<environment, storage, governance, outbox>>

(* read_input: the next message; the parsing of a costly one uses ticks     *)
(* whether it is accepted or not.                                           *)
ReadInput(type) ==
  /\ pc = "stage_one" /\ (ProxyMode \/ run.ticks > 0)
  /\ inbox # << >> /\ Head(inbox).type = type
  /\ inbox' = Tail(inbox)
  /\ UNCHANGED <<pc, level, reboots, room, unsent, world, tmp, version, outbox>>

Read(r) ==
  [r EXCEPT !.empty = FALSE,
            !.ticks = IF ~ProxyMode /\ Head(inbox).type \in Costly THEN @ - 1 ELSE @]

(* Input::Info: the timestamp of the level is its number.                   *)
ReadInfo ==
  /\ ReadInput("info")
  /\ ipl' = [timestamp |-> level, level |-> level]
  /\ run' = Read(run)
  /\ UNCHANGED <<bps, delayed, nonce, sequencer, seqUpgrade, upgrade, kernel>>

(* A chunk of a blueprint signed by the sequencer of the configuration.     *)
ReadBlueprintChunk ==
  /\ ReadInput("chunk")
  /\ LET m == Head(inbox)
     IN  bps' = IF m.bp.signer = run.sequencer THEN StoreSequencerBlueprint(bps, m.bp, m.i) ELSE bps
  /\ run' = Read(run)
  /\ UNCHANGED <<delayed, ipl, nonce, sequencer, seqUpgrade, upgrade, kernel>>

(* A transaction of the delayed bridge; proxy mode does not parse it.       *)
ReadDelayed ==
  /\ ReadInput("delayed")
  /\ LET tx == Head(inbox).tx
     IN  delayed' = IF ProxyMode THEN delayed
                    ELSE SaveTransaction(delayed, tx, ipl.timestamp, ipl.level)
  /\ run' = Read(run)
  /\ UNCHANGED <<bps, ipl, nonce, sequencer, seqUpgrade, upgrade, kernel>>

(* handle_deposit: the hash covers the nonce.                               *)
ReadDeposit ==
  /\ ReadInput("deposit")
  /\ LET tx == [kind |-> "deposit", hash |-> <<Head(inbox).deposit, nonce>>]
     IN  IF ProxyMode
         THEN /\ run' = Read([run EXCEPT !.txs = Append(@, tx)])
              /\ UNCHANGED delayed
         ELSE /\ delayed' = SaveTransaction(delayed, tx, ipl.timestamp, ipl.level)
              /\ run' = Read(run)
  /\ nonce' = nonce + 1
  /\ UNCHANGED <<bps, ipl, sequencer, seqUpgrade, upgrade, kernel>>

(* A transaction sent to the inbox, which only proxy mode takes.            *)
ReadSimpleTransaction ==
  /\ ReadInput("simple")
  /\ run' = Read(IF ProxyMode THEN [run EXCEPT !.txs = Append(@, Head(inbox).tx)] ELSE run)
  /\ UNCHANGED <<bps, delayed, ipl, nonce, sequencer, seqUpgrade, upgrade, kernel>>

ReadKernelUpgrade ==
  /\ ReadInput("upgrade")
  /\ upgrade' = [kernel |-> Head(inbox).kernel, at |-> Head(inbox).at]
  /\ run' = Read(run)
  /\ UNCHANGED <<bps, delayed, ipl, nonce, sequencer, seqUpgrade, kernel>>

ReadSequencerUpgrade ==
  /\ ReadInput("sequencer_upgrade")
  /\ seqUpgrade' = [sequencer |-> Head(inbox).sequencer, at |-> Head(inbox).at]
  /\ run' = Read(run)
  /\ UNCHANGED <<bps, delayed, ipl, nonce, sequencer, upgrade, kernel>>

ReadRemoveSequencer ==
  /\ ReadInput("remove_sequencer")
  /\ sequencer' = None
  /\ run' = Read(run)
  /\ UNCHANGED <<bps, delayed, ipl, nonce, seqUpgrade, upgrade, kernel>>

(* upgrade::upgrade: the kernel at the boot path changes, the run asks for  *)
(* a reboot.                                                                *)
UpgradeKernel(k) ==
  /\ kernel' = k /\ upgrade' = None

(* force_kernel_upgrade: one day after the activation timestamp.            *)
ReadForceUpgrade ==
  /\ ReadInput("force")
  /\ IF upgrade # None /\ ipl.timestamp >= upgrade.at + ForceDelay
     THEN /\ UpgradeKernel(upgrade.kernel)
          /\ run' = [Read(run) EXCEPT !.reboot = TRUE]
     ELSE run' = Read(run) /\ UNCHANGED <<kernel, upgrade>>
  /\ UNCHANGED <<bps, delayed, ipl, nonce, sequencer, seqUpgrade>>

(* fetch_delayed_transactions: the whole delayed inbox becomes blueprints   *)
(* from the next number on, up to the first call that fails.                *)
FetchDelayed(store, list, base, ts) ==
  LET n == Cardinality(DOMAIN list.stored) + 1
      put(acc, k, nx) ==
        [bps |-> IF nx.txs = << >> THEN acc.bps
                 ELSE StoreInboxBlueprint(acc.bps, base + k - 1, nx.txs, ts),
         inbox |-> nx.inbox, failed |-> nx.failed]
      more(acc, k) == IF acc.failed THEN acc ELSE put(acc, k, NextDelayedBlueprint(acc.inbox))
      flush[k \in 0..n] == IF k = 0 THEN [bps |-> store, inbox |-> list, failed |-> FALSE]
                           ELSE more(flush[k - 1], k)
  IN  flush[n]

(* The end of the inbox in sequencer mode.  A run that read something asks  *)
(* for a reboot; one that found the inbox already consumed goes on to stage *)
(* two.  A front that is gone makes first_has_timed_out fail, or the flush  *)
(* in the middle, and the run with it, which then asks for no reboot.       *)
EndSequencerInbox ==
  /\ pc = "stage_one" /\ ~ProxyMode /\ run.ticks > 0 /\ inbox = << >>
  /\ \/ /\ run.empty
        /\ pc' = "produce"
        /\ UNCHANGED <<run, bps, delayed>>
     \/ /\ ~run.empty /\ ~FrontLost(delayed)
        /\ ~FirstHasTimedOut(delayed, ipl.timestamp, ipl.level)
        /\ run' = [run EXCEPT !.reboot = TRUE]
        /\ pc' = "end"
        /\ UNCHANGED <<bps, delayed>>
     \/ /\ ~run.empty /\ ~FrontLost(delayed)
        /\ FirstHasTimedOut(delayed, ipl.timestamp, ipl.level)
        /\ \E all \in {FetchDelayed(bps, delayed, NextNumber(world.blocks), ipl.timestamp)} :
             /\ bps' = all.bps /\ delayed' = all.inbox
             /\ run' = [run EXCEPT !.reboot = @ \/ ~all.failed]
        /\ pc' = "end"
  /\ UNCHANGED <<environment, world, tmp, ipl, nonce, governance, outbox>>

FrontMissing ==
  /\ pc = "stage_one" /\ ~ProxyMode /\ run.ticks > 0 /\ inbox = << >> /\ ~run.empty
  /\ FrontLost(delayed)
  /\ pc' = "end"
  /\ UNCHANGED <<run, environment, storage, governance, outbox>>

(* fetch_proxy_blueprints: what was read becomes the next blueprint.        *)
EndProxyInbox ==
  /\ pc = "stage_one" /\ ProxyMode /\ inbox = << >>
  /\ bps' = IF run.empty THEN bps
            ELSE StoreInboxBlueprint(bps, NextNumber(world.blocks), run.txs, ipl.timestamp)
  /\ pc' = "produce"
  /\ UNCHANGED <<run, environment, world, tmp, delayed, ipl, nonce, governance, outbox>>

--------------------------------------------------------------------------------
(* Stage two: the blueprints are executed.                                  *)

(* produce: the kernel upgrade is read once, and a block in progress left   *)
(* by an earlier run is resumed first.                                      *)
Produce ==
  /\ pc = "produce"
  /\ IF tmp # None /\ tmp.bip # None
     THEN /\ run' = [run EXCEPT !.upgrade = upgrade, !.bip = tmp.bip, !.resumed = TRUE]
          /\ pc' = "compute"
     ELSE /\ run' = [run EXCEPT !.upgrade = upgrade]
          /\ pc' = "sequencer_upgrade"
  /\ UNCHANGED <<environment, storage, governance, outbox>>

(* possible_sequencer_upgrade: the blueprints of the former sequencer go.   *)
SequencerUpgrade ==
  /\ pc = "sequencer_upgrade"
  /\ IF seqUpgrade # None /\ ipl.timestamp >= seqUpgrade.at
     THEN /\ sequencer' = seqUpgrade.sequencer /\ seqUpgrade' = None
          /\ bps' = << >>
     ELSE UNCHANGED <<sequencer, seqUpgrade, bps>>
  /\ pc' = "next"
  /\ UNCHANGED <<run, environment, world, tmp, delayed, ipl, nonce, upgrade, kernel, version,
                 outbox>>

BlockInProgress(number, parent, txs, ts) ==
  [number |-> number, parent |-> parent, queue |-> txs, txs |-> << >>, ts |-> ts,
   seen |-> << >>, withdrawn |-> << >>]

Due(ts) == run.upgrade # None /\ ts >= run.upgrade.at

(* next_bip_from_blueprints and safe_host.start().                          *)
NextBlueprint ==
  /\ pc = "next"
  /\ \E r \in {ReadNextBlueprint(bps, delayed, world.blocks, ~ProxyMode)} :
       /\ bps' = r.bps /\ delayed' = r.inbox
       /\ \/ /\ r.status # "some"
             /\ pc' = "end" /\ UNCHANGED <<run, tmp, kernel, upgrade>>
          \/ /\ r.status = "some" /\ Due(r.ts)
             /\ UpgradeKernel(run.upgrade.kernel)
             /\ run' = [run EXCEPT !.reboot = TRUE]
             /\ pc' = "end" /\ UNCHANGED tmp
          \/ /\ r.status = "some" /\ ~Due(r.ts)
             /\ tmp' = [blocks |-> world.blocks, queue |-> world.queue, bip |-> None]
             /\ run' = [run EXCEPT !.firstTx = TRUE, !.resumed = FALSE,
                          !.bip = BlockInProgress(NextNumber(world.blocks),
                                                  ReadCurrentHash(world.blocks), r.txs, r.ts)]
             /\ pc' = "compute" /\ UNCHANGED <<kernel, upgrade>>
  /\ UNCHANGED <<environment, world, ipl, nonce, sequencer, seqUpgrade, version, outbox>>

(* apply_transaction: the nonce makes a transaction that was executed       *)
(* invalid; a deposit is always valid.                                      *)
Executed(blocks, hash) ==
  \E i \in DOMAIN blocks : \E j \in DOMAIN blocks[i].txs : blocks[i].txs[j].hash = hash

Verdict(tx) ==
  IF tx.kind = "deposit" THEN "ok"
  ELSE IF Executed(<<run.bip>>, tx.hash) \/ Executed(tmp.blocks, tx.hash) THEN "invalid"
  ELSE Outcome(tx.hash)

OutOfTicks(tx) == tx.kind # "deposit" /\ run.used + TxTicks(tx.hash) > RunTicks

\* Mutant: a transaction waits for another run however large it is.
AlwaysRetriable == TRUE

(* A transaction can wait for a run with more ticks unless it is the first  *)
(* one this run executes.                                                   *)
Retriable == ~run.firstTx \/ ~run.firstBlock

NextTx == Head(run.bip.queue)

Popped == [run EXCEPT !.bip.queue = Tail(@), !.bip.seen = Append(@, NextTx), !.firstTx = FALSE]

(* register_valid_transaction, with the withdrawals posted to the queue.    *)
(* One that exhausts the ticks and cannot wait is valid and has failed.     *)
ApplyValid ==
  /\ pc = "compute" /\ run.bip.queue # << >> /\ Verdict(NextTx) = "ok"
  /\ ~ (OutOfTicks(NextTx) /\ Retriable)
  /\ LET posted == IF Withdraws(NextTx.hash) /\ ~OutOfTicks(NextTx) THEN <<NextTx.hash>> ELSE << >>
     IN  /\ run' = [Popped EXCEPT !.bip.txs = Append(@, NextTx), !.used = @ + TxTicks(NextTx.hash),
                                  !.bip.withdrawn = @ \o posted]
         /\ tmp' = [tmp EXCEPT !.queue = @ \o posted]
  /\ UNCHANGED <<pc, environment, world, bps, delayed, ipl, nonce, governance, outbox>>

ApplyInvalid ==
  /\ pc = "compute" /\ run.bip.queue # << >> /\ Verdict(NextTx) = "invalid"
  /\ run' = Popped
  /\ UNCHANGED <<pc, environment, storage, governance, outbox>>

\* Mutant: the block in progress is not stored.
ApplyRetriableForgets ==
  /\ pc = "compute" /\ run.bip.queue # << >> /\ Verdict(NextTx) = "ok"
  /\ OutOfTicks(NextTx) /\ Retriable
  /\ tmp' = None
  /\ run' = [run EXCEPT !.reboot = TRUE, !.bip = None] /\ pc' = "end"
  /\ UNCHANGED <<environment, world, bps, delayed, ipl, nonce, governance, outbox>>

(* ExecutionResult::Retriable: the block in progress is stored in the       *)
(* temporary world state and the run asks for a reboot.                     *)
ApplyRetriable ==
  /\ pc = "compute" /\ run.bip.queue # << >> /\ Verdict(NextTx) = "ok"
  /\ OutOfTicks(NextTx) /\ Retriable
  /\ tmp' = [tmp EXCEPT !.bip = run.bip]
  /\ run' = [run EXCEPT !.reboot = TRUE, !.bip = None] /\ pc' = "end"
  /\ UNCHANGED <<environment, world, bps, delayed, ipl, nonce, governance, outbox>>

(* revert_block: the temporary world state and the blueprint are dropped.   *)
RevertBlock ==
  /\ pc = "compute" /\ run.bip.queue # << >> /\ Verdict(NextTx) = "error"
  /\ tmp' = None /\ bps' = DropBlueprint(bps, run.bip.number)
  /\ run' = [run EXCEPT !.reboot = TRUE, !.bip = None] /\ pc' = "end"
  /\ UNCHANGED <<environment, world, delayed, ipl, nonce, governance, outbox>>

(* finalize_and_store                                                       *)
FinalizedBlock ==
  [number |-> run.bip.number, parent |-> run.bip.parent, txs |-> run.bip.txs,
   ts |-> run.bip.ts, seen |-> run.bip.seen, withdrawn |-> run.bip.withdrawn]

(* flush_queue stops when the outbox of the level is full.                  *)
Flushed(queue) == SubSeq(queue, 1, IF Len(queue) < room THEN Len(queue) ELSE room)

\* Mutant: the promoted block stays in the temporary world state.
PromoteKeepsTmp ==
  /\ pc = "compute" /\ run.bip.queue = << >>
  /\ LET out == Flushed(tmp.queue)
     IN  /\ world' = [blocks |-> Append(tmp.blocks, FinalizedBlock),
                      queue |-> SubSeq(tmp.queue, Len(out) + 1, Len(tmp.queue))]
         /\ outbox' = outbox \o out
         /\ room' = room - Len(out)
  /\ tmp' = tmp
  /\ bps' = DropBlueprint(bps, run.bip.number)
  /\ run' = [run EXCEPT !.bip = None, !.firstBlock = FALSE]
  /\ pc' = IF run.resumed THEN "sequencer_upgrade" ELSE "next"
  /\ UNCHANGED <<inbox, level, reboots, unsent, delayed, ipl, nonce, governance>>

(* promote_block: the temporary world state replaces the world state, the   *)
(* blueprint is dropped and the withdrawals go out.                         *)
PromoteBlock ==
  /\ pc = "compute" /\ run.bip.queue = << >>
  /\ LET out == Flushed(tmp.queue)
     IN  /\ world' = [blocks |-> Append(tmp.blocks, FinalizedBlock),
                      queue |-> SubSeq(tmp.queue, Len(out) + 1, Len(tmp.queue))]
         /\ outbox' = outbox \o out
         /\ room' = room - Len(out)
  /\ tmp' = None
  /\ bps' = DropBlueprint(bps, run.bip.number)
  /\ run' = [run EXCEPT !.bip = None, !.firstBlock = FALSE]
  /\ pc' = IF run.resumed THEN "sequencer_upgrade" ELSE "next"
  /\ UNCHANGED <<inbox, level, reboots, unsent, delayed, ipl, nonce, governance>>

StageOne ==
  \/ StageOneReboot \/ ReadInfo \/ ReadBlueprintChunk \/ ReadDelayed \/ ReadDeposit
  \/ ReadSimpleTransaction \/ ReadKernelUpgrade \/ ReadSequencerUpgrade
  \/ ReadRemoveSequencer \/ ReadForceUpgrade
  \/ EndSequencerInbox \/ FrontMissing \/ EndProxyInbox

StageTwo ==
  \/ Produce \/ SequencerUpgrade \/ NextBlueprint
  \/ ApplyValid \/ ApplyInvalid \/ ApplyRetriable \/ RevertBlock \/ PromoteBlock

Next == NewLevel \/ Main \/ EndRun \/ StageOne \/ StageTwo

(* The rollup node delivers every level and executes the kernel on it: a    *)
(* step is always enabled and one is always taken, which is WF_vars(Next).  *)
Fairness == []<><<TRUE>>_vars

Spec == Init /\ [][Next]_vars /\ Fairness

--------------------------------------------------------------------------------
(* Properties.                                                              *)

Hashes(txs) == {txs[i].hash : i \in DOMAIN txs}
Bip == IF run.bip # None THEN run.bip ELSE IF tmp # None THEN tmp.bip ELSE None

(* The state has the shape the kernel's storage has: the run is at a known  *)
(* step, a temporary world state exists in the middle of a block only, and  *)
(* counters stay within their limits.                                       *)
TypeOK ==
  /\ pc \in {"idle", "main", "stage_one", "produce", "sequencer_upgrade", "next", "compute", "end"}
  /\ level \in 0..LastLevel /\ reboots \in 0..MaxReboots /\ room \in 0..OutboxRoom
  /\ unsent \subseteq UNION Menus /\ kernel \in DOMAIN StorageVersions
  /\ ipl.timestamp \in 0..LastLevel /\ ipl.level \in 0..LastLevel /\ nonce \in Nat
  /\ run.ticks \in 0..InboxTicks
  /\ pc = "compute" => run.bip # None /\ tmp # None

(* Block n is the n-th block and points to the hash of its predecessor, and *)
(* a block in progress, resumed or new, extends the last block: nothing     *)
(* that happens between the run that started a block and the run that ends  *)
(* it moves the chain under it (block.rs: produce).                         *)
ChainLinked ==
  /\ \A i \in DOMAIN world.blocks :
       /\ world.blocks[i].number = i - 1
       /\ world.blocks[i].parent = ReadCurrentHash(SubSeq(world.blocks, 1, i - 1))
  /\ Bip # None => /\ Bip.number = NextNumber(world.blocks)
                   /\ Bip.parent = ReadCurrentHash(world.blocks)
                   /\ tmp.blocks = world.blocks

(* The withdrawals of the executed blocks reach the outbox in their order   *)
(* and once each, or wait in the queue for room; those of a block that was  *)
(* reverted or is still in progress never do (promote_block, flush_queue).  *)
OutboxIsWithdrawals ==
  outbox \o world.queue =
    FlattenSeq([i \in DOMAIN world.blocks |-> world.blocks[i].withdrawn])

(* No transaction is executed twice, whether it comes from a blueprint, the *)
(* delayed inbox or both, and across reboots and reverts; for a deposit no  *)
(* nonce protects it but the delayed inbox.                                 *)
ExecutedOnce ==
  LET txs == FlattenSeq([i \in DOMAIN world.blocks |-> world.blocks[i].txs])
             \o IF Bip = None THEN << >> ELSE Bip.txs
  IN  \A i, j \in DOMAIN txs : txs[i].hash = txs[j].hash => i = j

(* A block in progress that waits for a reboot has its blueprint stored, or *)
(* no sequencer change has happened since: promote_block and revert_block   *)
(* drop the blueprint they executed and no other.                           *)
BipHasBlueprint ==
  tmp # None /\ tmp.bip # None => tmp.bip.number \in DOMAIN bps

(* In stage two, after possible_sequencer_upgrade, the blueprints about to  *)
(* be executed were signed by the sequencer in place.                       *)
FormerSequencerOut ==
  pc \in {"next", "compute"} /\ sequencer # None =>
    \A n \in DOMAIN bps : \A i \in DOMAIN bps[n].chunks :
      LET c == bps[n].chunks[i] IN c.from = "sequencer" => c.bp.signer = sequencer

(* A transaction the kernel has taken in waits in the delayed inbox, in a   *)
(* blueprint made from it or in the block in progress, or a block has seen  *)
(* it.  Executing, waiting for a reboot, resuming and promoting lose none   *)
(* of them: only a step that drops, refuses or writes over the blueprint    *)
(* that carries them, or replaces the kernel instead of executing it, does  *)
(* (a flush at the number of the block in progress is such a blueprint: it  *)
(* is dropped with the block), and a flush that comes upon a front that is  *)
(* gone, whose error drops what it has popped for the blueprint it is at    *)
(* (next_delayed_inbox_blueprint).                                          *)
Stored ==
  UNION {UNION {Hashes(c.txs) : c \in {d \in Range(bps[n].chunks) : d.from = "inbox"}} : n \in DOMAIN bps}
Carried ==
  (DOMAIN delayed.stored) \cup Stored
    \cup (IF Bip = None THEN {} ELSE Hashes(Bip.queue) \cup Hashes(Bip.seen))
    \cup UNION {Hashes(world.blocks[i].seen) : i \in DOMAIN world.blocks}
DelayedKept ==
  [][\A hash \in Carried \ Carried' :
       \/ bps' # bps /\ (hash \in Stored \/ world' = world)
       \/ kernel' # kernel
       \/ pc = "stage_one" /\ FrontLost(delayed')]_vars

(* A block in progress is eventually finished or reverted: a transaction    *)
(* that exhausts the ticks of a run is the first of the next one, where it  *)
(* is not retriable.  A delayed inbox whose front is gone stops stage one   *)
(* before that.                                                             *)
BipEnds == (tmp # None /\ tmp.bip # None) ~> (tmp = None \/ FrontLost(delayed))

(* A transaction on the list of the delayed inbox does not stay there: with *)
(* or without the sequencer it is taken out to be executed, unless the      *)
(* kernel turns to proxy mode.  The flush happens only in the run that      *)
(* reads the last message of a level (stage_one.rs).                        *)
DelayedLeaves ==
  \A hash \in {m.tx.hash : m \in {n \in UNION Menus : n.type = "delayed"}} :
    (hash \in Range(Elements(delayed))) ~>
      (hash \notin Range(Elements(delayed)) \/ sequencer = None \/ FrontLost(delayed))

(* The blocks are sound: the state of the storage is well formed, the chain *)
(* is linked, and the block in progress and the blueprints about to be      *)
(* executed belong to it.                                                   *)
BlocksSound == TypeOK /\ ChainLinked /\ BipHasBlueprint /\ FormerSequencerOut

(* What a block does happens once: neither a reboot, nor a revert, nor a    *)
(* full outbox repeats or loses an executed transaction or a withdrawal.    *)
EffectsOnce == ExecutedOnce /\ OutboxIsWithdrawals

(* Nothing that was taken in waits for ever: neither a block in progress    *)
(* nor a transaction of the delayed inbox.                                  *)
TakenInEnds == BipEnds /\ DelayedLeaves
===============================================================================
