# A TLA+ verification project for hathor-core (thoth-id)

This directory holds TLA+ models of the core of the full node under `src/`, TLC
configurations that check them on small instances, and TLAPS proofs of the
properties that hold for every value of the constants. `PROJECT.json` lists the
components, runs, mutants, findings, hazards and theorems, and maps every
definition to the source lines it models.

## 1. The system

A full node keeps a DAG of *vertices*: blocks, each with one parent block and
two parent transactions, and transactions, with two parent transactions and the
outputs they spend. Everything runs on one Twisted reactor thread, so two
handlers interleave only where one of them returns to the reactor (`callLater`,
a `yield` on a deferred, the pubsub queue). A kill can fall between any two
durable writes.

| Component | State | Operations | What is hard |
|---|---|---|---|
| Vertex handler (`hathor/vertex_handler`) | none of its own | validate, save, run consensus, publish; crash on an exception | yields between the dependencies of a block |
| Consensus (`hathor/consensus`) | `voided_by`, `conflict_with`, `accumulated_weight`, `score`, `first_block` of every vertex | one update per accepted vertex | recursion between walks, ties, lazily stored weights, cached tips |
| Indexes (`hathor/indexes`) | height index, interval trees of tips, ... | add, delete, update, re-org | follow consensus step by step |
| Event queue: manager (`hathor/event`) | the event log, last group id, stream id, node state; last event and group in memory | start, load, handle an event, stop, crash, reset | several durable writes per operation; restart from any of them |
| Event queue: WebSocket (`hathor/event/websocket`) | per connection: last sent id, acknowledged id, window, active flag | START_STREAM, ACK, STOP_STREAM, broadcast, send chain | several send chains and broadcasts on one connection |
| PubSub (`hathor/pubsub.py`) | queue of calls | publish, drain | the only link from consensus to the event queue; in memory |
| Feature activation (`hathor/feature_activation`) | bit counts per block, feature state per interval, support sets | new block, state transition, mandatory signalling | boundaries, timeouts, reuse of bits, caches and re-orgs |
| Manager and storage start-up (`hathor/manager.py`, `transaction_storage.py`, `indexes/manager.py`) | running and crashed flags, states of the migrations, stamps of the last start of the database and of every index | start, migrate, choose, clear and rebuild indexes, stop, crash | many durable writes in a start; which index on disk may be trusted |
| Transaction cache (`transaction/storage/cache_storage.py`) | LRU cache, dirty set, weak references | get, save, remove, evict, flush | the flush runs in a thread |
| Sync-v2 (`hathor/p2p/sync_v2`) | pending deferreds, streaming clients and servers, missing tips | the run loop and 20 messages | state across yields, late answers, stalled peers |
| P2P connections (`hathor/p2p`) | connection pools, protocol states, enabled syncs | handshake, connect, disconnect, rotate | both ends connecting at once, an await in a handler, limits |
| PoA producer (`hathor/consensus/poa`) | one delayed call, last seen best block | schedule, produce, retry | stale calls, syncing, outages |
| Wallet (`hathor/wallet`) | unspent, maybe spent and spent outputs | new transaction, winner and voided events, input selection | events handled late and in another order |
| History streamer (`hathor/websocket`) | stream state, window, acks, pending addresses | open, ack, stop, pause, resume, main loop | wakeups, re-entrance of the transport |
| Stratum server (`hathor/stratum`) | jobs, transaction queue and pool, deferreds | subscribe, submit, timeouts, new block | several sources of new jobs |
| Merged mining (`hathor/merged_mining`, `hathor/client.py`, `hathor/mining/ws.py`) | templates, merged job, shares | two kinds of task, miners, estimator | awaits between reading templates and publishing the job |
| Nano contract storage (`hathor/nanocontracts/storage`) | Patricia trie, node store | update, commit, open a root | nodes shared by versions |
| Nano contract runner (`hathor/nanocontracts/runner`) | storages, call stack, one tracker of changes per contract, token totals | calls, views, creation, system calls on tokens, commit | everything is checked at the end of a call; what a failed one leaves behind |

Interactions: a peer's message, a miner or the API hands a vertex to the vertex
handler. It saves the vertex, adds it to the indexes and calls
`ConsensusAlgorithm.unsafe_update`, which rewrites metadata and indexes and
publishes the affected vertices, bracketed by REORG_STARTED and REORG_FINISHED
when the best chain changed. The vertex handler then publishes the vertex. The
pubsub queue is drained by a later reactor call, in which the EventManager
stores one event per publication and broadcasts it to the WebSocket clients.
Feature activation reads block metadata during verification. An exception in
consensus ends in `ExecutionManager.crash_and_exit`.

What makes each component correct:

* *Consensus*: no double spend; what voids a vertex voids its descendants; the
  executed blocks form one chain, the one with the highest score; `first_block`
  is exact; a conflict is won by the heaviest; no assertion fails.
* *Event manager*: contiguous ids; bracketed groups with ids used once; whatever
  is interrupted, the next start either resumes a consistent log or reloads;
  every vertex gets its event; under one stream id the log only grows.
* *Event WebSocket*: after a request the client gets the events it asked for, in
  order and no more than its window; no gap, no lost wakeup, eventual delivery.
* *Feature activation*: votes decide and count once, timeouts hold, forced
  features activate, verification never stops the chain, every vote ends.
* *Sync-v2*: the storage stays closed under dependencies; honest nodes close their
  connection for nothing but late relays; a synced flag means synced; the node
  catches up.
* *Connections*: both ends agree on which connection exists; two nodes that dial
  each other end up with one; few peers are synced from at a time.
* *Start-up*: a node runs only on indexes that match its storage and on vertices
  in the format it expects.
* *Cache*: the last save of a transaction survives. *Wallet*: its unspent outputs
  are those of the ledger. *History streamer*: no lost wakeup. *PoA*: the network
  goes on producing blocks. *Stratum*: no miner is left idle. *Merged mining*: no
  share is paid twice. *Trie*: it holds what was stored, in one structure only.
  *Runner*: no token appears from nothing.

## 2. Modules

| Module | Models | Checked by | Proved in |
|---|---|---|---|
| `EventStream` | `event/websocket/protocol.py`, `factory.py` | `MCEvents` | `WebSocketProofs` |
| `EventManager` | `event/event_manager.py`, `event/storage/rocksdb_storage.py`, the parts of `pubsub.py`, `manager.py`, `execution_manager.py` they depend on, `cli/reset_event_queue.py` | `MCEvents` | `EventManagerProofs` |
| `Consensus` | `consensus/*.py`, accumulated weights, block tips, best-tips cache, height index | `MCLedger` | TLC only |
| `EventLog` | what the event queue promises its clients (abstract) | as `ImplementsEventLog` in `MCEvents` | `EventManagerProofs` |
| `FeatureLifecycle` | `feature_activation/feature_service.py`, `model/criteria.py`, `settings.py`, the bit counts of `static_metadata.py`, `verify_mandatory_signaling` | `MCLedger`, `MCFeatureLifecycle` | `LedgerProofs` |
| `TxStreaming` | `p2p/sync_v2/transaction_streaming_client.py`, the transaction server of `streamers.py`, the part of `agent.py` around them, the yields of `vertex_handler.py` | `MCSync` | `P2PProofs` |
| `SyncAgent` | `p2p/sync_v2/agent.py`, `mempool.py`, the block server and client | `MCSync` | `SyncAgentProofs` |
| `ConnectionPool`, `Connections` | `p2p/manager.py`, `protocol.py`, `states/*.py` | `MCServices` | `P2PProofs` |
| `PoaProducer` | `consensus/poa/*.py` | `MCServices`, `MCPoa` | TLC only |
| `Stratum` | `stratum/stratum.py`, `wallet/resources/thin_wallet/send_tokens.py` | `MCServices` | `MiningProofs` |
| `MergedMining` | `merged_mining/coordinator.py`, `client.py`, `mining/ws.py` | `MCServices` | `MiningProofs` |
| `HistoryStreamer` | `websocket/streamer.py`, `protocol.py`, `iterators.py` | `MCServices`, `MCHistory` | `WebSocketProofs` |
| `TxCache` | `transaction/storage/cache_storage.py`, weak references of `transaction_storage.py`, `_save_transaction` of `rocksdb_storage.py` | `MCServices`, itself | `TxCacheProofs` |
| `Wallet` | `wallet/base_wallet.py`, the queue of `pubsub.py`, `_sorted_affected_txs` and `_remove_transactions` of `consensus.py` | `MCServices` | `LedgerProofs` |
| `NodeStartup` | `manager.py`, `transaction_storage.py`, `indexes/manager.py` | `MCServices` | `NodeStartupProofs` |
| `PatriciaTrie` | `nanocontracts/storage/patricia_trie.py` | `MCServices` | TLC only |
| `NcRunner` | `nanocontracts/runner/*.py`, `balance_rules.py`, `storage/changes_tracker.py` | `MCServices` | `LedgerProofs` |

`EventManager` and `EventStream` meet at the log: the manager shows that ids are
consecutive, so the stream module keeps only the number of stored events, and
its `BroadcastEvent` is the manager's `save_event` followed by `broadcast_event`
in the same reactor call. `Published` in `EventManager` abstracts what
`Consensus` publishes: an optional re-org group, then the vertex. `Wallet` takes
what `Consensus` promises about executed transactions as its ledger, `TxCache`
refines the eviction that `NodeStartup` has as one step, and `SyncAgent` leaves
the transactions of a block to `TxStreaming`. `Connections` is built on
`ConnectionPool`, the part of it that is the state of one node.

`MCServices` holds the services that share no state with each other. They are
instances of their modules side by side, with a variable that says which one a
behaviour is about; the product of independent services would add states and no
behaviours. `MCSync` does the same for the two halves of sync-v2, `MCEvents` for the
event manager and the event WebSocket, `MCLedger` for consensus and the feature
life cycle. The violation runs of `EventManager`, `Consensus` and `TxCache` are of
the modules themselves. The properties of `EventStream`, `MergedMining`, `Stratum`, `HistoryStreamer`, `TxCache`, `Wallet`, `NodeStartup`,
`NcRunner`, `Connections`, `TxStreaming` and `SyncAgent` that are both checked and proved are in
modules of their own (`MergedMiningSafety` and so on), which the component, the
composition and, where it has the component as a named instance, the proof module
extend or instantiate, so that the run and the theorem state the same definition.

Definitions whose names say what is wrong with them (`...OffByOne`,
`...Forgets...`, `...KeepingMarkers` and so on) or that follow the words "a mutant" are
mutants. No specification
uses them; each stands just before the definition it would replace, and with it
TLC finds the property named in `PROJECT.json` violated.

### EventStream

One record per protocol object: `link` (registered, opened while the factory was
stopped, closing, closed), `active`, `lastSent`, `ack`, `window`, the number of
scheduled `send_next_event_to_connection` calls, and the messages on the wire.
`None` is -1, so that "next expected" is `lastSent + 1` throughout. Each request
handler is one action per outcome, with the order of its assignments kept:
START_STREAM overwrites `lastSent` before the ack is validated (`RewindTo`), and
an accepted ACK rewinds it. The client may send any request at any time. `base`,
`got` and `since` are history: where the stream started, what it has sent, and what
was sent since the last accepted request, in order. `VALIDATION_ERROR` replies
change no state.

`WindowRespected` is about what the client gets and not about the server's counter,
which an ACK rewinds: after an accepted request that names event n and a window w,
and until the next one, `since` is n + 1, n + 2, ... and no longer than w. This is
how `docs/event-queue-feature.md:171` describes `window_size`: "The number of events
the client is able to process before acknowledging another event." It says nothing
of events sent under an earlier, larger window: those may exceed the new one, and
are sent again after an ACK below them.

`docs/event-queue-feature.md:212` says that ACK_TOO_LARGE is sent for an id
"larger than the last event the Server has sent". After an ACK below what was
already sent the code compares with the rewound `_last_sent_event_id`, so an id
that was sent is refused too until it has been sent again.

### EventManager

Durable state: the log, `last-group-id`, `stream-id`, `node-state`,
`event-queue-enabled`, and the running and crashed flags of the transaction
storage. `pc` says which durable write comes next, and `Kill` is possible at
every value of it. One action per write: `reset_events` is three of them,
`_save_event` of a grouped event is two (`HandleEvent`, `PutGroup`), a load
batch is one `WriteBatch`. `Stop` is possible only between reactor calls
(`serving`), which is where the signal handler runs. `Crash` is
`crash_and_exit`: the EventManager's callback writes FULL_NODE_CRASHED before
the storage's callback sets the crashed flag. `lost` and `torn` are history:
vertices whose event was in the queue at a stop, and a reset command killed
after its first deletion.

### Consensus

The storage is one record; the operators are named after the methods they model
and take and return it. One action is one whole `unsafe_update`, which the node
runs without yielding. A failing assertion or exception adds to `failures`, and
`Running` then stops the model as `crash_and_exit` stops the node. Vertices are
numbered in order of arrival. Weights are given as work, with BlockWorks and
TxWorks small enough for ties and for one transaction to outweigh several. The
sets of hashes that Python iterates over are walked in two orders (`Orders`).
Timestamps are either just after the newest of the past or after everything.
Left out: soft-voided transactions, twins (identical funds), block outputs that
are spent, removal of mempool transactions when the height decreases, nano
contracts.

### FeatureLifecycle

A height is `epoch * Interval + offset`. The validators make all heights of a
criterion multiples of the interval, so they are counted in intervals. The
configuration is a variable chosen initially among the validated ones. A step is
one block that passes `verify_mandatory_signaling`, with any set of signal bits.
`TimeoutDecides` and `ForcedFeatureIsActive` exclude features that start at
height 0: the genesis is DEFINED by definition, so such a feature starts one
interval late, and with the smallest timeout its vote is not over at
`timeout_height` as the docstring of `Criteria` says.

### TxStreaming and SyncAgent

Both are about two honest nodes, with everything that happens to honest nodes:
vertices from other peers between any two steps, a re-org at the peer in the
middle of a stream, streams cut at the limit and resumed, a peer that goes
silent. `TxStreaming` has the client's queue, the block being added across the
yields of `on_new_block` (`busy`), blocks an earlier client is still adding
(`orphans`), and the server's walk over the transactions of each block.
`HonestPeerIsKept` names the ways an undisturbed stream can still end in an
error: a stream that reaches its limit with its last transaction, more
transactions to wait for than a request may name, and a resume in the middle of
a block (`torn`). `SyncAgent` has the n-ary search for the common block, the
block stream, `is_synced`, the relay flag, the misbehaviour score and the mempool
search with its bounded stack. A vertex that the peer relayed before it learned that
the relay is off is unsolicited for `handle_data`, which raises the score; past
MISBEHAVIOR_THRESHOLD within an hour the connection is closed
(`HandleUnsolicited`, `IncreaseMisbehaviorScore`; hits expire at any time in the
model). The comment there asks whether a grace period is needed:
`OnlyLateRelaysClose` says that this is the only way in which two honest nodes
lose their connection, and the run reaches it.

### Connections and ConnectionPool

One record per end of a connection and one pool per node. A handler is one
action; `handle_peer_id` is two, around its `await`. Refusals, timeouts and
closes from outside are counted in `faults`. A drop scheduled by
`drop_connection` is a step of its own.

### PoaProducer, Stratum, MergedMining

In `PoaProducer` a block is the sequence of the signers that produced it, and a
delayed call may fire at any time. `missed` is history: the best block at the last
event a running producer gave up on because its node had no synced peer
(`GiveUp`). `OnlyOutagesOrTiesStall` says what else it takes for the network to
stop; that it does stop is the finding `poa_stall`. In `Stratum` a job is what it mines and
whether that is still current; the two callbacks that `send_tokens.py` binds to
the wrong arguments raise, as they do in the code. In `MergedMining` an action is
what runs between two awaits; templates are version numbers. An answer of the
Bitcoin node is two steps: the node gives it, on the tip it has then
(`TemplateSent`, `PollerJudged`, `HathorJudged`), and the task resumes with it later
(`PollAnswer`, `PollerVerified`, `HathorVerified`).

### HistoryStreamer

The main loop is a coroutine that runs inside the call that resumes it, so
`loop = "run"` excludes everything but the transport, which may pause its
producer during a write. `then` is what the interrupted call has left to do.

### TxCache

A call of the reactor is a sequence of steps on the cache, the dirty set or the
disk, with the flush thread between any two; `obj` is the object shared through
the weak references. The thread takes five steps for a transaction: it checks the
cache, fetches the object, clears the mark, serialises (`FlushSerialize`, the bytes
are kept in `thread.val`) and puts (`FlushPut`). `LastSaveSurvives` leaves out
transactions removed while the thread held them (`torn`) and those that the reactor
wrote to disk between the two last steps of the thread (`overtaken`): the latter is
the finding `tx_cache_update`.

### Wallet

One output per transaction. The loops over the inputs of a transaction touch one
output each, so `Spend`, `VoidedInputs` and `NewInputs` say for all of them at once
what becomes of each; the loop of `_call_next` over the queue is a function of the
number of events handled (`Handled`). `OnTxUpdate` reads the metadata when the event
is handled and not when it was published. `raised` marks a handler that met an input
transaction that had been removed; the property leaves those behaviours out.

### NodeStartup

Each durable write of `start`, the migrations, `_manually_initialize` and
`update_last_started_at` is a step. A start chooses its indexes and may be of a
newer version. `RunsOnSoundStorage` needs that two starts do not see the same
second of the clock: `started_at` is `int(time.time())`, and an index that was
disabled for a run whose stamp equals its own would be taken for current.

### PatriciaTrie

A node is its own id and contains its children, as the hash in the code does.
`TrieRepresentsMap` compares the trie with the mapping it stands for and its keys
with the only structure that mapping may have.

### NcRunner

What a method of a blueprint does is left open: it makes any system calls, each a
step on top of the call stack, and may fail at any point, which ends the whole
execution. A runner is used again after a call, failed or not, or replaced.
`BooksBalance` says that at every moment of an execution the trackers of all
contracts add up to what the caller brought and what was minted or melted, and
that in the block no balance is negative and the tokens created are covered by
the HTR given up for them, with the rounding of both directions. A contract with
a tracker cannot be entered again (see section 4), so one tracker per contract is
all of the stack the code keeps. A call carries at most one action, and the
percentage of the deposit is exact.

## 3. Runs

| Run | Instance | Shows |
|---|---|---|
| `events` | stream: 1 connection, 3 events, windows 0..2, 2 accepted starts; manager: 3 vertices, batches of 2, 4 starts or resets | `NoLostWakeup`, `WindowRespected`, `StreamHasNoGap`, `DeliveryProgress`; `GroupsBracketed`, `GroupIdsNeverReused`, `NoAssertionFails`, `ResumableIsConsistent`, `NoGapExceptLost`, `ImplementsEventLog` |
| `event_manager_stop` | the manager's | a clean stop loses the events waiting in the pubsub queue |
| `ledger` | consensus: at most 4 vertices after the first block, 2 blocks, 3 transactions, works 1 and 4; features: 2 features, interval of 2 blocks, 2 bits, 8 intervals | `NoDoubleSpend`, `VoidednessPropagates`, `ExecutedBlocksAreAChain`, `FirstBlockIsFirst`, `LoserIsOutweighed`; `ChainCanGrow`, `TimeoutDecides`, `ForcedFeatureIsActive`, `VotesAreUnambiguous`, `LockInIsEarned`, `EveryFeatureSettles` |
| `consensus_assertions` | 4 vertices: 2 blocks, 2 transactions | an assertion of the block consensus can fail |
| `consensus_best_chain` | same | a block that a transaction voids can void the best chain |
| `consensus_voided_tx` | same | an executed block can confirm a voided transaction |
| `feature_bits` | the features with 1 bit | an assertion of the signalling service fails under validated settings |
| `sync` | DAGs of 2 to 4 blocks and 3 or 4 transactions; trees of 11 blocks with 2 mempool transactions | `StorageIsClosed`, `HonestPeerIsKept`, `SyncEnds`, `OnlyLateRelaysClose`, `SyncedMeansStored`, `Converges` |
| `services` | see the bounds | `EndsAgreeAtRest`, `CrossedDialsLeaveOne`, `EnabledSyncsAreBounded`, `NoIdleMiner`, `OnlyOutagesOrTiesStall`, `SharesAreRemembered`, `StreamNeverStalls`, `LastSaveSurvives`, `WalletMatchesLedger`, `RunsOnSoundStorage`, `TrieRepresentsMap`, `BooksBalance` |
| `history_begin` | 2 addresses, windows 0..2 | a history stream opened with a window starts before its begin message |
| `poa_stall` | 2 signers, 2 outages | the network of signers can stop for ever |
| `tx_cache_update` | 2 transactions, capacity 1, 2 versions | the flush thread can overwrite a newer version on disk |

Bounds. *EventStream*: connections do not interact except through the log, so
one is enough; three events and a window of two reach a full window, a rewind
into it, a shrunk window and concurrent send chains. *EventManager*: three
vertices give a full and a partial batch and several re-org groups, and four
boots give reload, resume, reset and a further resume. *Consensus*: the first
block plus two more give a tie and a re-org, three transactions give three-way
conflicts and descendants of a conflict; four vertices at a time keep the run
exhaustive, and re-orgs deeper than two blocks are not reached.
*FeatureLifecycle*: intervals of two
blocks are the smallest in which `remaining_blocks` differs between blocks, and
eight intervals lie past every height of the configurations, so
`EveryFeatureSettles` is not cut short.
*Sync*: a limit of two transactions cuts a block and a stream in
the middle and at the end; every tangle of three transactions is tried; the block
trees have forks at two depths, so that both nodes re-org during the search; a
misbehaviour threshold of two (`MaxScore`, 100 in the code) is passed by the late
relays of one disabling of the relay.
*Connections*: two nodes dial each other while one of them has a third peer; with
a limit of two or three connections the dials also meet a full pool; one fault
besides. *Stratum*: two miners, one of them with a refused address, and two
requests for one transaction. *PoaProducer*: two signers, two blocks, two
outages, so that both signers may have one, and a restart; two signers whose blocks
cross also tie. *MergedMining*: one miner, one template beyond the first of each
chain, one poller next to the Hathor task and one failure, which is enough for a
job to finish after a later one; the restart of a poller is reached after it has
died, and the theorem is for any number of them. *HistoryStreamer*: two addresses, one without history, gap
limit two, windows of none to two. *TxCache*: two transactions, capacities one
and two, two versions; the transactions are symmetric, and the run checks invariants
only. *Wallet*: a chain of two spends with a rival, five queued
events. *NodeStartup*: three starts with two vertices, two indexes on disk, one
of which may be disabled, and one in memory, and two migrations. *PatriciaTrie*:
four keys that branch at two depths with one a prefix of others, two committed
roots. *NcRunner*: two contracts, one of which can create a token, two
executions with one change of tokens each and amounts that both roundings tell
apart; the limits on depth and number of calls are not reached with two
contracts, each of which can be called once.

Deadlock checking is off: every model stops at its bounds, and the real
components may be idle.

Fairness. `EventStream` assumes weak fairness of `RunScheduledSend` alone: the
reactor runs the calls it was given with delay 0. Nothing is assumed of the
client. `FeatureLifecycle` assumes that blocks keep coming, which is what mining
does and what `ChainCanGrow` shows verification does not prevent. `TxStreaming`
and `SyncAgent` assume weak fairness of the steps the reactor has been asked to
run (sends, lines that arrived, deferreds that fired, the looping call of
`run_sync`) on an open connection; nothing is assumed of re-orgs and other
peers, and `Converges` asks that the peer answers and that new vertices stop.

## 4. Findings

Each violation run states what a comment, assertion or document of the
repository says and shows a behaviour of the code that contradicts it; the
details are in `PROJECT.json`.

1. `event_manager_stop`: `HathorManager.stop` does not drain the pubsub queue, so
   the last accepted vertex may never get its event, although the document
   promises that generation continues where it stopped.
2. `consensus_assertions`: a block on a fork confirms a transaction tied with one
   the best chain confirms; the tie voids the best chain, the new block is the
   only cached tip, and `assert best_heads[0].hash != block.hash` fails.
3. `consensus_best_chain`: a block that confirms two conflicting transactions, and
   is voided by one of them, ties in score with the best chain. The heads of the best
   chain are voided as soon as the score is not below theirs, before anything looks
   at what voids the new block, and in a tie nothing restores them: the genesis is
   the head although the only chain no transaction voids has a higher score.
4. `consensus_voided_tx`: the branch of `update_voided_info` for equal scores does
   not propagate voidedness from the block's parents.
5. `feature_bits`: LOCKED_IN counts as a signaling state, a feature is LOCKED_IN for
   at least one interval after its vote, and the validator of bits compares only
   start and timeout heights. A feature forced by `lock_in_on_timeout` is LOCKED_IN
   in the interval in which the next one on its bit is STARTED.
6. `history_begin`: `_create_streamer` sets the window before `start()`, and
   setting it runs the main loop: addresses and vertices are sent before
   `stream:history:begin`, and the assertion in `start()` fails.
7. `poa_stall`: "We're syncing, so we'll try again later", says
   `_schedule_block`, but once production has started the loop that would try again
   is stopped. When every signer handles the event of the last block while it has no
   synced peer, no block is ever scheduled again, although all are synced soon after.
8. `tx_cache_update`: an eviction writes "so we don't lose the last update", but the
   flush thread may have serialised the transaction before that write and put its
   older bytes after it, when nothing is marked any more.

Seen while modelling and not given a run:

* *Consensus and features.* The height index is not rewritten when a conflict
  voids the best block, and `FeatureService` looks ancestors up in it; the cached
  tips differ from the computed ones (the assertion in
  `update_best_block_tips_cache` is commented out for that reason); a third
  transaction of equal weight wins a tie, because voided rivals are compared with
  `>` only. Support for a MUST_SIGNAL feature is added only when its state is
  first computed, so a restarted node no longer signals it.
* *Sync-v2.* A duplicate transaction after a resume ends the stream with an error,
  where the comment in `transaction_streaming_client.py` says that the sync goes
  on. The watchdog of `run_sync` never runs while a run waits, because a
  `LoopingCall` does not call a function whose deferred has not fired.
* *PoA.* A shorter chain that was there first stays the best one in a tie, and the
  block on top of it would not be higher than the other, so a tie may leave nobody
  with a scheduled block.
* *Sync-v2 relays.* More than 100 vertices relayed by an honest peer and on their way
  when the relay is disabled close the connection (`agent.py:1130` asks whether a
  grace period is needed).
* *Stratum.* `_stratum_timeout` and `_stratum_deferred_resolve` are bound to
  arguments they do not take and raise `TypeError`; `miner_job` compares bytes
  with a list, so the stratum client never mines.
* *Merged mining.* A closed WebSocket leaves the future of `MiningChannel`
  pending, so the Hathor task never reconnects; a second template that arrives
  before the first is taken replaces it; an older job, of either chain, may replace a
  newer one across the await of `verify_block_proposal`, because the verdict was given
  on the tip of an earlier moment and is not asked for again (the docstring of
  `MergedMiningCoordinator` only says that it keeps "mining jobs up to date"); an
  exception of `verify_block_proposal` ends its
  task; `submit_to_bitcoin` awaits a further endless poller; `handle_subscribe`
  says that it triggers a job request and sends none; `MAX_XNONCE1` is
  `2**2 - 1`; shares of a burst are accepted and not forwarded.
* *History streamer.* END is sent twice when the transport pauses during its
  write; a stop is ignored before the stream has started; an ack that ends the
  stream and carries a window, and a list of addresses for an xpub stream, raise;
  `disable_history_streaming` of the factory calls itself.
* *Cache.* A transaction removed while the flush thread holds it is written back
  without its static metadata, and loading it then fails an assertion; an
  eviction between the check and the read of the thread ends that flush, which is
  retried; a capacity of 0 makes an eviction fail on an empty cache.
* *Wallet.* The voided event of a removed transaction whose input transaction was
  removed too raises, and its later inputs are not given back; an output that
  `on_tx_winner` recreates without having seen it voided does not update the
  balance; the wallet is not filled from the storage at a restart.
* *Start and stop.* `stop` clears the running flag before it flushes the cache. A
  kill in between loses the dirty vertices, and the next start accepts the
  storage although the comment in `start` takes the flag for the sign of a sudden
  crash.
* *Nano contracts.* `PatriciaTrie.rollback` drops local changes and keeps the
  root (it has no caller); `NCChangesTracker` does not override the blueprint id
  and has no trie, so a second call to a contract within a call raises, as do every
  proxy call and change of blueprint. A call that fails leaves the totals of the
  tokens it minted, so that every later call of the same runner fails, although
  the comment where they are reset speaks of reuse; and a contract whose
  `initialize` failed stays known to the runner, which then lets it be called.

## 5. Proofs

The theorems hold for every value of the constants under the named assumptions,
which TLC evaluates in the runs. A proof module is about one component or a few
that belong together; `MiningProofs`, `P2PProofs`, `WebSocketProofs` and
`LedgerProofs` have the others as named instances (`Stratum`, `Tx`, `History`,
`Wallet`, `Nc`).

| Assumption | Asks |
|---|---|
| `StreamAssumption` (EventStream), `ManagerAssumption`, `FeatureAssumption` | bounds are naturals, batches and intervals are not empty, configurations are validated |
| `CacheAssumption` | the capacity is not 0: `set_capacity` takes 0, but then `_update_cache` pops from an empty cache |
| `StartupAssumption` | indexes and migrations are numbered in the order in which the code goes through them |
| `StreamAssumption` (HistoryStreamer) | histories have a length, requests name known addresses, a window is not negative (a negative one turns flow control off) |
| `AgentAssumption` | the blocks form a tree with the genesis as its root and heights that count from it; the dependencies of a transaction are transactions; the mempool has no more transactions than MAX_MEMPOOL_RECEIVING_TIPS, over which the code closes the connection on purpose |
| `StratumAssumption` | there are finitely many connections |
| `TxAssumption` | timestamps increase along dependencies, and a best chain is one of blocks of the DAG |
| `ConnectionsAssumption` | a connection has two different ends, both modelled unless it is static (present from the start), and the static connections of a node lead to different peers |
| `WalletAssumption` | transactions are finitely many, and an output is spent by later ones only |
| `NcAssumption` | contracts and tokens are finitely many, HTR is no custom token, amounts are not negative and the deposit is 1 / `Unit` of what is minted |

The part of `MiningProofs` about merged mining assumes nothing. Each inductive
invariant was checked by TLC on the instance of its run, or on smaller ones of its
component alone, before it was proved.

* **WebSocketProofs, event stream.** `Invariance` proves an inductive invariant, from which
  `TypeCorrect`, `NeverLosesAWakeup`, `FlowControl` and `GapFree` follow;
  `AcksAreMonotone`, that no request moves the acknowledged id back, is an action
  property proved from it. `NoLostWakeup` and
  `StreamHasNoGap` are not inductive alone. The invariant relates `ack`,
  `lastSent`, the window, `got` and `since`: while a stream is active `base <= ack <=
  lastSent`, everything in `base + 1 .. lastSent` has been sent, so that a
  rewind stays inside what was sent, and `since` is exactly `ack + 1 .. lastSent`
  (`Answers`), which is what makes the guard on the server's counter a bound on what
  the client got.
* **EventManagerProofs.** The invariant `IInv` carries the memory of the manager
  next to the log: while the process is past `load_started`, `last` is the last
  stored event; the group counter in memory bounds every group id in the log; and
  `last-group-id` does so in a database that may be resumed. `put_group` is the
  one place where it lags behind, and the running flag keeps that state from
  being resumed. From it follow `TypeCorrect`, `GroupsAreBracketed` and
  `GroupIdsAreUnique`; `LogIsAppendOnly` is an action property.
  `ManagerImplementsLog` is the refinement: the log, the stream id and the ids
  used so far are a behaviour of `EventLog`. Every durable write is a step of it
  or a stutter: a boot with a new id is `Open`, a batch or an event is `Extend`,
  and the deletions of a reset are `Revoke` and `Discard` in this order.
  A second invariant, `JInv`, adds the pubsub queue: what waits in it continues
  the log (replaying it from the group state of the log ends outside a group),
  the load phase has stored a prefix of the vertices, and every vertex is in the
  log, in the queue or in `lost`. From it follow `AssertionsHold`,
  `ResumedLogsAreConsistent` and `NoGap`. `GapsComeFromStops` sharpens the finding
  of `event_manager_stop`: the promise of the document is broken by a stop that
  finds events in the queue and by nothing else.
* **LedgerProofs, features.** The invariant says for each state where in its
  schedule the feature can be: STARTED only before the timeout, MUST_SIGNAL only
  in the interval before it, and in MUST_SIGNAL that the votes still missing fit
  in the blocks left. From it follow `VoteEndsAtTimeout`, `ForcedActivation`,
  `OneFeaturePerVote`, `ChainIsNeverStuck` and `LockInNeedsVotes`, the last two
  being the two sides of the same arithmetic.
* **TxCacheProofs.** `LastSaveSurvives` says where the last save of a transaction
  is: on disk, marked dirty and still in the cache, or in the hands of the call or
  of the flush thread. It is inductive only together with the order of the steps
  of a call (`Shape`), that what is about to be marked is referenced and in the
  cache (`MarksHeld`, `MarksCached`), that a transaction being removed counts as
  unsaved (`RemovalsUnsaved`, `TornIsGone`), and that the shared object is never
  older than the last save (`MemoryIsNewest`), because the thread serialises the
  object as it is when it gets to it. Bytes that wait for their put are of the last
  save, or a newer one is marked or about to be written (`PutIsCovered`); a
  transaction that the reactor writes in that gap is `overtaken` and set apart.
  `NoSaveIsLost` and `ReloadSeesLastSave` follow: they say that the finding
  `tx_cache_update` is the only way to lose a save.
* **NodeStartupProofs.** A start trusts an index whose stamp equals that of the
  database, so the invariant says what that equality is worth in every phase:
  such an index is complete for the storage on disk (`FreshIsComplete`), the stale
  ones are exactly those the start rebuilds (`Rebuilding`), no stamp of an index is
  ahead of that of the database (`Stamps`), and a completed migration leaves no
  older vertex (`Formats`).
  `StartIsSound` and `TrustedIndexIsComplete` follow, for any sequence of
  starts, versions, choices of indexes and kills. As in the run, behaviours in
  which `stop` was killed between the flag and the flush are set apart (`lost`).
* **WebSocketProofs, history streamer.** The invariant lists where the loop can have stopped:
  for the transport, which then has a full buffer (`PausedIsFull`), for the window
  (`StopsForAck`), or because the stream is closed (`ClosedIsGone`).
  `HistoryNeverStalls` proves `StreamNeverStalls`; the other two theorems are the assertions
  of the code about the loop, the sequence numbers and the pauses.
* **SyncAgentProofs.** The connection keeps the order of messages and the run is
  sequential, so what is in the two channels and in the peer's server is
  determined by where the run is: `Conversation` says for each of its states which
  request or answer is on its way and what may come before it. A stream that was
  given up leaves traffic behind; `Leftovers` says that it is harmless and that
  the stop that ends it was sent before the next request. `KnownToPeer` and
  `KnownToMe` say that what either side names has been stored by the side that is
  asked, which growth and re-orgs keep. `Conduct` bounds the score by
  the late relays that have come. `PairClosesOnlyForLateRelays` and `SyncedIsStored`
  follow. The n-ary search needs that the chain of a block has one block of each
  height below it, proved by taking the least height at which it fails.
* **MiningProofs, merged mining.** The invariant says that nothing the coordinator
  holds or awaits is newer than the node's tip and that, without an RPC, where no
  verdict is asked for, it is the dummy template; it holds with any number of
  pollers and of verdicts on their way. `NoShareIsPaidTwice` follows from the
  operators on a protocol, one at a time.
* **MiningProofs, Stratum.** `NoMinerIsIdle` is about every miner at once
  because `update_jobs` goes through all of them, and a job request may close the
  connection of the one it serves: `AllBusy` says that each one that is listed and
  open has an unsubmitted job with a running timeout or a call that will replace it.
  That a pass over the miners keeps this is proved by the least prefix that fails.
* **P2PProofs, transaction phase.** `StorageIsClosed` is inductive only with what
  each client still owes the block it works on (`SafeClient`): while it gathers
  dependencies, whatever the block and the received transactions depend on is stored,
  received or waited for (`Gathers`); while it adds them, what is left depends on
  stored vertices and on what is left (`Adds`), so the one with the least timestamp
  can be added. Clients that were replaced while they add a block (`orphans`) keep
  this too, because the storage only grows. `StoredIsClosed` follows, whatever the
  server sends.
* **P2PProofs, connections.** `ConnInv` relates three pieces of state. `SoundPool`:
  `connected_peers` has a connection under the peer it leads to, syncs are enabled
  only after the handshake and not on more than `MAX_ENABLED_SYNC` counted peers.
  `SoundEnd`: a pool knows of no connection that is not open, and a READY end is in
  `connected_peers` or about to be dropped. `SoundPair`: a line that an end needs
  to go on is on its way once the other end has sent it. `OpenConnectionsAgree`
  (with nothing on its way the two ends of an open connection are READY and the pools
  of both nodes hold it) and `SyncsAreBounded` follow. The operations of
  `ConnectionPool` are lemmas, one each.
* **LedgerProofs, wallet.** Between the acceptance of a vertex and the handling
  of its events the wallet disagrees with the ledger. `Settled(w, P, E)` says by how
  much: for transactions outside P, the ones with events in the queue, exactly the
  executed ones are recorded as spenders of their inputs, and their outputs can be
  taken when executed and not recorded as spent. Each event that is handled takes its
  transaction out of P, whatever the order (`UpdateSettles`), a new vertex
  puts in those it voids or restores, and with an empty queue P is empty
  (`WalletFollowsLedger`). That on_tx_winner records a spend of an output not seen
  yet, and that on_tx_voided forgets the spenders of a voided output, are used.
  Handlers that raised are set apart, as in the run.
* **LedgerProofs, runner.** `BooksBalance` compares sums over the contracts and over
  the tokens, so the module first proves what `SumOf` of a finite set is: the
  function that the fold chooses exists and no other adds up in the same way, both
  by a smallest set that fails in place of an induction; then that a sum changes by
  what one term changes by, that sums add, and that terms of 0 may be left out.
  `NcInv` needs more than the books: the runner's storage of a contract has the
  balances of the block or is empty, a contract with a tracker is known to the
  runner (`Sound`), and every call on the stack is one of a contract with a tracker
  (`Framed`), so that the caller's side of an action has a tracker to go to. A call
  to another contract moves the action from one tracker to another (`CalledStep`),
  and the totals are `Covered` also after a failure, because a deposit is rounded
  up and a withdrawal down. A commit adds what the trackers hold to the block
  (`FinishStep`). `BooksAlwaysBalance` follows.

Only model-checked:

* `DeliveryProgress`, `EveryFeatureSettles`, `SyncEnds` and `Converges`: liveness is
  beyond the prover.
* `Consensus` and `PatriciaTrie`: recursive operators, for which the prover has no
  backend.
* `HonestPeerIsKept` (TxStreaming) relates the peer's walk over sorted lists
  (`SetToSortSeq`, about which the library has no facts), restarted from what the
  client waits for, to the position of the client: no inductive invariant for it
  was found.
* `OnlyOutagesOrTiesStall` (PoaProducer) relates scores, sums along a chain, to the
  order in which the blocks reach every signer; a proof was not attempted.
* `CrossedDialsLeaveOne` (Connections) is a fact about the scenario of the run and not
  about all constants: it needs at most one connection in each direction, because of
  two dials from the same node each end may drop a different one.

## 6. Plan

Done: the event queue, consensus, the feature life cycle along one chain, sync-v2,
`EventLog` with its refinement, the services, and the proofs of section 5. Left, in
this order:

1. `FeatureService`: states cached over a tree of blocks, looked up through the
   height index, against `FeatureLifecycle` along every chain.
2. `Consensus` with recursive functions in place of recursive operators, to bring
   `NoDoubleSpend` and `VoidednessPropagates` within reach of the prover.

## 7. Not modelled

The map covers about a ninth of the implementation: the parts with state that
several actors or failures can disturb. The rest is of three kinds. Pure
computation over formats: scripts, serialization, Bitcoin blocks and coinbases,
addresses and keys, difficulty adjustment (floating point), reward locks, the
verification rules one by one. Input and output and wiring: HTTP resources, CLI,
builder, settings, metrics, logging. Tooling: simulator, DAG builder, event
simulator. A model of these would repeat their code. Of the nano contracts,
blueprints are arbitrary Python, and `execute_from_tx` with its sequence numbers
has no caller at this commit (`get_nc_runner` raises `NotImplementedError`);
`NcRunner` models the calls it would make. Discovery and rate limits
of P2P, the other indexes one by one and the HD wallet are small state machines
that are left for later.
