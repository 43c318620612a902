------------------------------ MODULE EvmProxyInbox ------------------------------
(****************************************************************************)
(* The inbox of a kernel in proxy mode: how a message is parsed             *)
(* (parsing.rs), how transactions too large for one message are announced   *)
(* and gathered chunk by chunk in the durable storage (inbox.rs,            *)
(* storage.rs), and how a simulation is read (simulation.rs).  Bytes are    *)
(* numbers; a hash takes one byte and a chunk MAX_SIZE_PER_CHUNK of them.   *)
(* A level of the chain has the kind "real"; the rollup node also runs the  *)
(* kernel on levels of its own that only hold messages of a simulation.     *)
(****************************************************************************)
EXTENDS Integers, Sequences, FiniteSets, Functions, SequencesExt

CONSTANTS PrMessages,         \* the messages of a real level
          PrSimMessages,      \* the messages of a level made for a simulation
          PrLarge,            \* the transactions sent in chunks, as bytes
          MAX_SIZE_PER_CHUNK,
          PrMaxReads,         \* bound: messages of a level
          PrMaxLevels         \* bound: levels

VARIABLES prChunked,          \* /chunked_transactions, by transaction hash
          prNonce,            \* the nonce of the next deposit
          prUpgrade,          \* the kernel upgrade that waits, 0 if none
          prInbox,            \* read_proxy_inbox, at work on a level
          prPast              \* history: what was sent and what was delivered

prVars == <<prChunked, prNonce, prUpgrade, prInbox, prPast>>

\* Keccak256: no two of the values at hand have the same hash.
Digest(b) == <<1000 + FoldLeft(LAMBDA n, x : 8 * n + x + 1, 0, b)>>

\* EthereumTransactionCommon::from_bytes refuses the empty string; of the
\* others, those that begin with 0 stand for the ones that do not decode.
tx_from_bytes(b) == b # <<>> /\ b[1] # 0

TRANSACTION_HASH_SIZE == 1

PrLeft(b, n) == SubSeq(b, 1, n)
PrRight(b, n) == SubSeq(b, n + 1, Len(b))

u16(b) == b[1] + 256 * b[2]

le16(n) == <<n % 256, n \div 256>>

Unparsable == [input |-> "Unparsable"]

--------------------------------------------------------------------------------
\* parsing.rs

parse_simple_transaction(b) ==
  LET tx == PrRight(b, TRANSACTION_HASH_SIZE)
  IN IF /\ Len(b) >= TRANSACTION_HASH_SIZE
        /\ PrLeft(b, TRANSACTION_HASH_SIZE) = Digest(tx)
        /\ tx_from_bytes(tx)
     THEN [input |-> "SimpleTransaction", tx |-> [hash |-> Digest(tx), data |-> tx]]
     ELSE Unparsable

parse_new_chunked_transaction(b) ==
  LET body == PrRight(b, TRANSACTION_HASH_SIZE)
      hashes == PrRight(body, 2)
  IN IF /\ Len(b) >= TRANSACTION_HASH_SIZE + 2
        /\ Len(hashes) = TRANSACTION_HASH_SIZE * u16(body)
     THEN [input |-> "NewChunkedTransaction", hash |-> PrLeft(b, TRANSACTION_HASH_SIZE),
           num |-> u16(body), hashes |-> {<<hashes[i]>> : i \in DOMAIN hashes}]
     ELSE Unparsable

parse_transaction_chunk(b) ==
  LET body == PrRight(b, TRANSACTION_HASH_SIZE)
      data == PrRight(body, 2 + TRANSACTION_HASH_SIZE)
  IN IF /\ Len(b) >= 2 * TRANSACTION_HASH_SIZE + 2
        /\ PrLeft(PrRight(body, 2), TRANSACTION_HASH_SIZE) = Digest(data)
     THEN [input |-> "TransactionChunk", hash |-> PrLeft(b, TRANSACTION_HASH_SIZE),
           i |-> u16(body), data |-> data]
     ELSE Unparsable

SIMPLE_TRANSACTION_TAG == 0
NEW_CHUNKED_TRANSACTION_TAG == 1
TRANSACTION_CHUNK_TAG == 2
FORCE_KERNEL_UPGRADE_TAG == 255

ProxyInput(tag, b) ==
  CASE tag = SIMPLE_TRANSACTION_TAG -> parse_simple_transaction(b)
    [] tag = NEW_CHUNKED_TRANSACTION_TAG -> parse_new_chunked_transaction(b)
    [] tag = TRANSACTION_CHUNK_TAG -> parse_transaction_chunk(b)
    [] OTHER -> Unparsable

\* The frame of an external message names the rollup it is for.
parse_external(m) ==
  CASE ~m.ours \/ m.bytes = <<>> -> Unparsable
    [] m.ours /\ m.bytes # <<>> /\ m.bytes[1] = FORCE_KERNEL_UPGRADE_TAG ->
         [input |-> "ForceKernelUpgrade"]
    [] OTHER -> ProxyInput(m.bytes[1], Tail(m.bytes))

\* A deposit counts when the ticket comes from the ticketer of the rollup
\* and the receiver is an address.
parse_deposit(m) ==
  IF m.ticketer /\ m.address
  THEN [input |-> "Deposit", amount |-> m.amount] ELSE Unparsable

parse_kernel_upgrade(kernel) == [input |-> "Upgrade", kernel |-> kernel]

\* A sequencer update with no bytes removes the sequencer.
parse_sequencer_update == [input |-> "RemoveSequencer"]

\* from: who sent the transfer, as TezosContracts knows them.
parse_internal_transfer(m) ==
  CASE ~m.ours -> Unparsable
    [] m.ours /\ m.kind = "deposit" -> parse_deposit(m)
    [] m.ours /\ m.kind = "bytes" /\ m.from \in {"admin", "governance", "security"} ->
         parse_kernel_upgrade(m.kernel)
    [] m.ours /\ m.kind = "bytes" /\ m.from = "sequencer_governance" -> parse_sequencer_update
    [] OTHER -> Unparsable

SIMULATION_TAG == 255

parse_simulation(m) ==
  IF Len(m.bytes) = 1 THEN [input |-> "Simulation"] ELSE Unparsable

InputResult(m) ==
  CASE m.kind = "external" -> parse_external(m)
    [] m.kind = "simulation" -> parse_simulation(m)
    [] OTHER -> parse_internal_transfer(m)
--------------------------------------------------------------------------------
\* storage.rs: a chunked transaction is a directory with the number of its
\* chunks, the hashes that were announced and the chunks that came.

num_chunks(c) == c.num

store_count_subkeys(c) ==
  1 + (IF c.hashes = {} THEN 0 ELSE 1) + Cardinality(DOMAIN c.chunks)

is_transaction_complete(c) == store_count_subkeys(c) >= num_chunks(c) + 2

\* A chunk that is already there is kept.
store_transaction_chunk_data(c, i, data) ==
  IF i \in DOMAIN c.chunks THEN c
  ELSE [c EXCEPT !.chunks = [j \in DOMAIN c.chunks \cup {i} |->
                               IF j = i THEN data ELSE c.chunks[j]]]

get_full_transaction(c) ==
  FlattenSeq([k \in 1 .. num_chunks(c) |-> c.chunks[k - 1]])

remove_chunked_transaction(store, h) == Restrict(store, DOMAIN store \ {h})

Chunked(store, h, c) == [k \in DOMAIN store \cup {h} |-> IF k = h THEN c ELSE store[k]]

\* An announcement is ignored while the transaction is being gathered.
create_chunked_transaction(store, in) ==
  IF in.hash \in DOMAIN store THEN store
  ELSE Chunked(store, in.hash, [num |-> in.num, hashes |-> in.hashes, chunks |-> <<>>])

\* The store, and the bytes of the transaction if that was its last chunk.
store_transaction_chunk(store, in) ==
  LET c == store_transaction_chunk_data(store[in.hash], in.i, in.data)
  IN IF is_transaction_complete(c)
     THEN [store |-> remove_chunked_transaction(store, in.hash),
           full |-> {get_full_transaction(c)}]
     ELSE [store |-> Chunked(store, in.hash, c), full |-> {}]

\* inbox.rs: the store and the transaction a chunk completes, if any.
KnownChunk(store, in) ==
  /\ in.hash \in DOMAIN store
  /\ in.i < num_chunks(store[in.hash])
  /\ Digest(in.data) \in store[in.hash].hashes

ShortChunk(store, in) ==
  /\ in.i # num_chunks(store[in.hash]) - 1
  /\ Len(in.data) < MAX_SIZE_PER_CHUNK

\* Mutant: the hash of the whole is not checked.
handle_transaction_chunk_unhashed(store, in) ==
  CASE ~KnownChunk(store, in) -> [store |-> store, txs |-> <<>>]
    [] KnownChunk(store, in) /\ ShortChunk(store, in) ->
         [store |-> remove_chunked_transaction(store, in.hash), txs |-> <<>>]
    [] OTHER ->
         LET r == store_transaction_chunk(store, in)
         IN [store |-> r.store,
             txs |-> SetToSeq({[hash |-> in.hash, data |-> d] : d \in
                                 {d \in r.full : tx_from_bytes(d)}})]

handle_transaction_chunk(store, in) ==
  CASE ~KnownChunk(store, in) -> [store |-> store, txs |-> <<>>]
    [] KnownChunk(store, in) /\ ShortChunk(store, in) ->
         [store |-> remove_chunked_transaction(store, in.hash), txs |-> <<>>]
    [] OTHER ->
         LET r == store_transaction_chunk(store, in)
         IN [store |-> r.store,
             txs |-> SetToSeq({[hash |-> in.hash, data |-> d] : d \in
                                 {d \in r.full : Digest(d) = in.hash /\ tx_from_bytes(d)}})]

get_and_increment_deposit_nonce(n) == n + 1

\* The hash of a deposit covers its amount and its nonce.
handle_deposit(amount, nonce) ==
  [hash |-> Digest(<<0, amount, nonce>>), data |-> <<0, amount>>]
--------------------------------------------------------------------------------
\* simulation.rs: what follows the message that starts a simulation.

SIMULATION_SIMPLE_TAG == 1
SIMULATION_CREATE_TAG == 2
SIMULATION_CHUNK_TAG == 3

\* An evaluation or a validation, tagged, and a body that decodes.
SimulationDecodes(b) == b # <<>> /\ b[1] \in {0, 1} /\ tx_from_bytes(Tail(b))

SimulationInput(b) ==
  LET data == PrRight(b, 2)
  IN CASE Len(b) <= 3 \/ b[1] # SIMULATION_TAG -> Unparsable
       [] Len(b) > 3 /\ b[2] = SIMULATION_SIMPLE_TAG /\ SimulationDecodes(data) ->
            [input |-> "Simple", data |-> data]
       [] Len(b) > 3 /\ b[2] = SIMULATION_CREATE_TAG /\ Len(data) = 2 ->
            [input |-> "NewChunked", num |-> u16(data)]
       [] Len(b) > 3 /\ b[2] = SIMULATION_CHUNK_TAG ->
            [input |-> "Chunk", i |-> u16(data), data |-> PrRight(data, 2)]
       [] OTHER -> Unparsable

NoSimulation == [on |-> FALSE, num |-> 0, next |-> 0, buffer |-> <<>>]
SimulationStarts == [NoSimulation EXCEPT !.on = TRUE]

\* What reading one more message makes of a simulation: it goes on, it is
\* decoded, or it fails and the reading of the inbox resumes.
read_chunks(sim, in) ==
  LET buffer == sim.buffer \o in.data
  IN CASE in.input # "Chunk" -> [sim |-> NoSimulation, result |-> <<>>]
       [] in.input = "Chunk" /\ in.i # sim.next -> [sim |-> NoSimulation, result |-> <<>>]
       [] in.input = "Chunk" /\ in.i = sim.next /\ sim.next + 1 < sim.num ->
            [sim |-> [sim EXCEPT !.next = @ + 1, !.buffer = buffer], result |-> <<>>]
       [] OTHER -> [sim |-> NoSimulation,
                    result |-> IF SimulationDecodes(buffer) THEN buffer ELSE <<>>]

parse_inbox(sim, in) ==
  CASE sim.num > 0 -> read_chunks(sim, in)
    [] sim.num = 0 /\ in.input = "Simple" -> [sim |-> NoSimulation, result |-> in.data]
    [] sim.num = 0 /\ in.input = "NewChunked" /\ in.num > 0 ->
         [sim |-> [sim EXCEPT !.num = in.num], result |-> <<>>]
    [] OTHER -> [sim |-> NoSimulation, result |-> <<>>]
--------------------------------------------------------------------------------
\* read_proxy_inbox

Inputs == {InputResult(m) : m \in PrMessages}

NewInbox(kind) == [kind |-> kind, reads |-> 0, txs |-> <<>>, over |-> FALSE,
                   sim |-> NoSimulation, seen |-> <<>>, result |-> <<>>]

Parts(tx) == (Len(tx) + MAX_SIZE_PER_CHUNK - 1) \div MAX_SIZE_PER_CHUNK
Part(tx, i) == SubSeq(tx, i * MAX_SIZE_PER_CHUNK + 1,
                      IF i = Parts(tx) - 1 THEN Len(tx) ELSE (i + 1) * MAX_SIZE_PER_CHUNK)

HashOf == [tx \in PrLarge |-> Digest(tx)]

PrInit ==
  /\ prChunked = <<>>
  /\ prNonce = 0
  /\ prUpgrade = 0
  /\ prInbox = NewInbox("real")
  /\ prPast = [levels |-> 0, made |-> <<>>, upgrade |-> 0,
               sent |-> [tx \in PrLarge |->
                           [open |-> FALSE, got |-> {}, whole |-> 0, mixed |-> FALSE]]]

\* What the sender of a large transaction has sent of it: mixed when a
\* chunk came under the number of another one.
Track(s, tx, in) ==
  CASE in.input = "NewChunkedTransaction" /\ in.hash = HashOf[tx] /\ ~s.open ->
         [s EXCEPT !.open = TRUE, !.got = {}]
    [] /\ in.input = "TransactionChunk" /\ in.hash = HashOf[tx] /\ s.open
       /\ in.i < Parts(tx) /\ in.data = Part(tx, in.i) ->
         LET got == s.got \cup {in.i}
         IN IF Cardinality(got) = Parts(tx)
            THEN [s EXCEPT !.open = FALSE, !.got = {}, !.whole = @ + 1]
            ELSE [s EXCEPT !.got = got]
    [] /\ in.input = "TransactionChunk" /\ in.hash = HashOf[tx] /\ s.open
       /\ ~(in.i < Parts(tx) /\ in.data = Part(tx, in.i)) -> [s EXCEPT !.mixed = TRUE]
    [] OTHER -> s

Tracked(in) ==
  [prPast EXCEPT !.sent = [tx \in PrLarge |-> Track(@[tx], tx, in)],
                 !.upgrade = IF in.input = "Upgrade" THEN in.kernel ELSE @]

Pushed(txs) == [prInbox EXCEPT !.reads = @ + 1, !.txs = @ \o txs]

Transactions(in) ==
  /\ \/ /\ in.input = "SimpleTransaction"
        /\ prInbox' = Pushed(<<in.tx>>)
        /\ UNCHANGED prChunked
     \/ /\ in.input = "NewChunkedTransaction"
        /\ prInbox' = Pushed(<<>>)
        /\ prChunked' = create_chunked_transaction(prChunked, in)
     \/ /\ in.input = "TransactionChunk"
        /\ \E r \in {handle_transaction_chunk(prChunked, in)} :
             /\ prInbox' = Pushed(r.txs)
             /\ prChunked' = r.store
  /\ UNCHANGED <<prNonce, prUpgrade>>

Deposits(in) ==
  /\ in.input = "Deposit"
  /\ prInbox' = Pushed(<<handle_deposit(in.amount, prNonce)>>)
  /\ prNonce' = get_and_increment_deposit_nonce(prNonce)
  /\ UNCHANGED <<prChunked, prUpgrade>>

Upgrades(in) ==
  /\ in.input = "Upgrade"
  /\ prUpgrade' = in.kernel
  /\ prInbox' = Pushed(<<>>)
  /\ UNCHANGED <<prChunked, prNonce>>

\* There is no sequencer to remove: the input fails.
FailureIgnored(inbox) == [inbox EXCEPT !.reads = @ + 1]

Fails(in) ==
  /\ in.input = "RemoveSequencer"
  /\ prInbox' = FailureIgnored(prInbox)
  /\ UNCHANGED <<prChunked, prNonce, prUpgrade>>

Ignored(in) ==
  /\ in.input = "Unparsable"
  /\ prInbox' = Pushed(<<>>)
  /\ UNCHANGED <<prChunked, prNonce, prUpgrade>>

ReadReal ==
  /\ prInbox.kind = "real" /\ prInbox.reads < PrMaxReads
  /\ \E in \in Inputs :
       /\ in.input # "ForceKernelUpgrade"
       /\ prPast' = Tracked(in)
       /\ IF prInbox.over
          THEN /\ prInbox' = Pushed(<<>>)
               /\ UNCHANGED <<prChunked, prNonce, prUpgrade>>
          ELSE Transactions(in) \/ Deposits(in) \/ Upgrades(in) \/ Fails(in) \/ Ignored(in)

\* Anyone may force an upgrade that has been due for a day.
force_kernel_upgrade ==
  /\ prInbox.kind = "real" /\ prInbox.reads < PrMaxReads /\ ~prInbox.over
  /\ [input |-> "ForceKernelUpgrade"] \in Inputs
  /\ prInbox' = Pushed(<<>>)
  /\ \E due \in BOOLEAN :
       /\ prUpgrade' = IF due THEN 0 ELSE prUpgrade
       /\ prPast' = [prPast EXCEPT !.upgrade = IF due THEN 0 ELSE @]
  /\ UNCHANGED <<prChunked, prNonce>>

\* A level made for a simulation: what comes before its start and after a
\* failure is not parsable, what comes after its end is not read.
ReadSimulated ==
  /\ prInbox.kind = "simulated" /\ prInbox.reads < PrMaxReads /\ ~prInbox.over
  /\ \E m \in PrSimMessages :
       prInbox' =
         IF prInbox.sim.on
         THEN LET r == parse_inbox(prInbox.sim, SimulationInput(m.bytes))
              IN [prInbox EXCEPT !.reads = @ + 1, !.sim = r.sim, !.result = r.result,
                                 !.over = r.result # <<>>, !.seen = Append(@, m.bytes)]
         ELSE IF InputResult(m).input = "Simulation"
         THEN [prInbox EXCEPT !.reads = @ + 1, !.sim = SimulationStarts, !.seen = <<>>]
         ELSE Pushed(<<>>)
  /\ UNCHANGED <<prChunked, prNonce, prUpgrade, prPast>>

\* The inbox is read to its end: its transactions are a blueprint.
EndLevel ==
  /\ prPast.levels + 1 < PrMaxLevels
  /\ \E kind \in {"real", "simulated"} : prInbox' = NewInbox(kind)
  /\ prPast' = [prPast EXCEPT !.levels = @ + 1,
                              !.made = IF prInbox.over THEN @ ELSE @ \o prInbox.txs]
  /\ UNCHANGED <<prChunked, prNonce, prUpgrade>>

PrNext == ReadReal \/ force_kernel_upgrade \/ ReadSimulated \/ EndLevel

PrSpec == PrInit /\ [][PrNext]_prVars
--------------------------------------------------------------------------------
Delivered == prPast.made \o prInbox.txs

\* A large transaction whose chunks come in any order, some of them twice,
\* among those of other transactions and over several levels, is delivered
\* each time all of its chunks came since it was announced and at no other
\* time; nothing of it stays behind (handle_transaction_chunk and
\* store_transaction_chunk).
PrChunksExact ==
  \A tx \in PrLarge :
    LET s == prPast.sent[tx]
    IN ~s.mixed =>
         /\ Cardinality({k \in DOMAIN Delivered : Delivered[k].hash = HashOf[tx]}) = s.whole
         /\ (HashOf[tx] \in DOMAIN prChunked) = s.open
         /\ s.open => DOMAIN prChunked[HashOf[tx]].chunks = s.got

\* Whatever was gathered, a transaction in a blueprint is the one its hash
\* names, and no two deposits have the same hash, not even two equal ones
\* (the checks of the hashes, get_and_increment_deposit_nonce).
PrDeliveredIsAnnounced ==
  \A k \in DOMAIN Delivered :
    \/ Delivered[k].hash = Digest(Delivered[k].data)
    \/ /\ Delivered[k].data[1] = 0
       /\ \A l \in DOMAIN Delivered : Delivered[l].hash = Delivered[k].hash => l = k

\* An input that cannot be handled does not keep the kernel from the
\* upgrades in the rest of the inbox: "We allow ourselves to continue with
\* the inbox consumption. In order to make sure we can retrieve any kernel
\* upgrade present in the inbox." (read_proxy_inbox)
PrUpgradeRetrieved == prUpgrade = prPast.upgrade

\* A simulation has a result only if the messages read since its start are
\* the simulated message, or its chunks in their order with none missing
\* (parse_inbox, read_chunks).
PrSimulationExact ==
  prInbox.result # <<>> =>
    LET seen == prInbox.seen
        n == Len(seen) - 1
    IN \/ seen = << <<SIMULATION_TAG, SIMULATION_SIMPLE_TAG>> \o prInbox.result >>
       \/ /\ seen[1] = <<SIMULATION_TAG, SIMULATION_CREATE_TAG>> \o le16(n)
          /\ \A k \in 1 .. n :
               PrLeft(seen[k + 1], 4) =
                 <<SIMULATION_TAG, SIMULATION_CHUNK_TAG>> \o le16(k - 1)
          /\ prInbox.result = FlattenSeq([k \in 1 .. n |-> PrRight(seen[k + 1], 4)])
================================================================================
