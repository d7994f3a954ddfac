----------------------------- MODULE MCServices -----------------------------
(***************************************************************************)
(* Services around the node that do not touch each other's state: the P2P  *)
(* connections, the stratum server, the block producers of a proof-of-     *)
(* authority network, the merged mining coordinator, the history streamer, *)
(* the transaction cache, the wallet, the start-up over a storage, and the *)
(* trie and the runner of the nano contracts.  As they are independent     *)
(* their interleavings add nothing: a behaviour is one of one service,     *)
(* chosen at the start, and the variables of the others keep the value of  *)
(* a service that was never used, or none.                                 *)
(***************************************************************************)
EXTENDS Naturals, TLC

CONSTANTS
    Nodes, Peers, Static, Limits, MaxEnabledSync, MaxFaults,
    StratumMiners, BadAddress, Requests, MaxSoon,
    Signers, MaxHeight, MaxOutages, MaxStops,
    MergedMiners, Nonces, Pollers, MaxBtc, MaxHtr, MaxJobs, MaxSubmitting, MaxShares, MaxErrors,
    GapLimit, WindowSizes, MaxPending, MaxSeq,
    CachedTxs, Capacities, MaxVersion,
    Mine, MaxQueue,
    Stored, Indexes, InMemory, EnabledChoices, Migrations, MaxStarts,
    MaxVersions,
    Contracts, Tokens, Htr, Amounts, RightSets, Unit, MaxDepth, MaxCalls, MaxUpdates, MaxExecutions

VARIABLES
    service,
    end, ch, pool, faults,
    miner, txQueue, txPool, deferred, request, txOf,
    signer, outages, stops,
    btc, htr, open, wire, queue, rpc, btcJob, htrJob, merged, pollers, htask,
    protocol, lastHeight, submitting, errors,
    connected, full, streamer, search, then,
    cache, dirty, capacity, obj, held, disk, todo, thread, saved, torn, overtaken,
    stored, executed, events, wallet, raised,
    onDisk, cached, content, lastStarted, indexStarted, migration, running, crashed,
    pc, enabled, version, left, toInit, now, format, lost,
    root, local, db, map, versions,
    block, tokens, storages, totals, stack, trackers, recorded, main, calls, updates,
    executions, net

\* Node 1 and node 2 dial each other; node 2 is also connected to peer 3.
MCFrom == "c" :> 1 @@ "d" :> 2 @@ "s" :> 3
MCTo == "c" :> 2 @@ "d" :> 1 @@ "s" :> 2
MCAlwaysLists == 1 :> {} @@ 2 :> {{}, {1}, {3}}

\* Two requests for the same transaction.
MCTxChoices == {[r1 |-> "t1", r2 |-> "t1"]}

\* The cached transactions are alike.
CacheSymmetry == Permutations(CachedTxs)

MCStartHeight == [n \in Signers |-> 0]
MCEndHeight == [n \in Signers |-> MaxHeight]

\* Address 1 has a history, address 2 has none.
MCVertices == 1 :> 1 @@ 2 :> 0
MCLists == {<<>>, <<1>>, <<2, 1>>}
MCXpubList == <<1, 2, 2>>

\* Transactions 2 and 3 conflict, 4 spends the output of 2.
MCInputs == 1 :> {} @@ 2 :> {1} @@ 3 :> {1} @@ 4 :> {2}

\* Keys that branch at two depths, one of them a prefix of two others.
MCKeys == {<<0>>, <<0, 0, 0>>, <<0, 0, 1>>, <<0, 1>>}
MCContents == [k \in MCKeys |-> IF k = <<0>> THEN {1, 2} ELSE {1}]

\* Contract "a" can create the token "t".
MCChildToken == "a" :> "t"
MCActions ==
    {[type |-> "none"],
     [type |-> "deposit", token |-> Htr, amount |-> 2],
     [type |-> "withdrawal", token |-> "t", amount |-> 1],
     [type |-> "grant", token |-> "t", rights |-> {"mint", "melt"}],
     [type |-> "acquire", token |-> "t", rights |-> {"mint", "melt"}]}

Connections == INSTANCE Connections WITH
    From <- MCFrom, To <- MCTo, AlwaysLists <- MCAlwaysLists
Stratum == INSTANCE Stratum WITH
    Miners <- StratumMiners, TxChoices <- MCTxChoices, queue <- txQueue, pool <- txPool
Poa == INSTANCE PoaProducer WITH StartHeight <- MCStartHeight, EndHeight <- MCEndHeight
Merged == INSTANCE MergedMining WITH
    Miners <- MergedMiners, MaxFaults <- MaxErrors, faults <- errors
History == INSTANCE HistoryStreamer WITH
    Vertices <- MCVertices, Lists <- MCLists, XpubList <- MCXpubList, open <- connected
Cache == INSTANCE TxCache WITH Txs <- CachedTxs
Wallet == INSTANCE Wallet WITH Inputs <- MCInputs, queue <- events
Startup == INSTANCE NodeStartup WITH Vertices <- Stored, disk <- onDisk, todo <- left
Trie == INSTANCE PatriciaTrie WITH Keys <- MCKeys, Contents <- MCContents
Runner == INSTANCE NcRunner WITH ChildToken <- MCChildToken, Actions <- MCActions

\* What the theorems of TxCacheProofs assume of the capacities.
ASSUME CacheAssumed == Cache!CacheAssumption

\* What those of NodeStartupProofs assume.
ASSUME StartupAssumed == Startup!StartupAssumption

\* What those about the history streamer in WebSocketProofs assume.
ASSUME HistoryAssumed == History!StreamAssumption

\* What the theorem about the stratum server in MiningProofs assumes.
ASSUME StratumAssumed == Stratum!StratumAssumption

\* What the theorem about the wallet in LedgerProofs assumes.
ASSUME WalletAssumed == Wallet!WalletAssumption

\* What the theorem about the runner in LedgerProofs assumes.
ASSUME RunnerAssumed == Runner!NcAssumption

\* What those about the connections in P2PProofs assume.
ASSUME ConnectionsAssumed == Connections!ConnectionsAssumption

connectionVars == <<end, ch, pool, faults>>
stratumVars == <<miner, txQueue, txPool, deferred, request, txOf>>
poaVars == <<signer, outages, stops>>
mergedVars == <<btc, htr, open, wire, queue, rpc, btcJob, htrJob, merged, pollers, htask,
                protocol, lastHeight, submitting, errors>>
historyVars == <<connected, full, streamer, search, then>>
cacheVars == <<cache, dirty, capacity, obj, held, disk, todo, thread, saved, torn,
              overtaken>>
walletVars == <<stored, executed, events, wallet, raised>>
startupVars == <<onDisk, cached, content, lastStarted, indexStarted, migration, running,
                 crashed, pc, enabled, version, left, toInit, now, format, lost>>
trieVars == <<root, local, db, map, versions>>
runnerVars == <<block, tokens, storages, totals, stack, trackers, recorded, main, calls,
                updates, executions, net>>
allVars == <<service, connectionVars, stratumVars, poaVars, mergedVars, historyVars,
             cacheVars, walletVars, startupVars, trieVars, runnerVars>>

NoConnections ==
    /\ end = [e \in Connections!Ends |-> Connections!NewEnd] /\ ch = [e \in Connections!Ends |-> <<>>]
    /\ pool = [n \in Nodes |-> Connections!EmptyPool(0)] /\ faults = 0
NoStratum ==
    /\ miner = [m \in StratumMiners |-> Stratum!Newcomer]
    /\ txQueue = 0 /\ txPool = 0 /\ deferred = 0 /\ request = 0 /\ txOf = 0
NoPoa ==
    /\ signer = 0 /\ outages = 0 /\ stops = 0
NoMerged ==
    /\ btc = 0 /\ htr = 0 /\ open = 0 /\ wire = 0 /\ queue = 0 /\ rpc = 0
    /\ btcJob = 0 /\ htrJob = 0 /\ pollers = 0 /\ htask = 0
    /\ merged = Merged!NoJob /\ protocol = [m \in MergedMiners |-> Merged!Off]
    /\ lastHeight = 0 /\ submitting = 0 /\ errors = 0
NoHistory ==
    /\ connected = 0 /\ full = 0 /\ streamer = History!NoStreamer /\ search = 0 /\ then = 0

NoCache ==
    /\ cache = 0 /\ dirty = 0 /\ capacity = 0 /\ obj = 0 /\ held = 0 /\ disk = 0
    /\ todo = 0 /\ thread = 0 /\ saved = 0 /\ torn = CachedTxs /\ overtaken = {}
NoWallet ==
    /\ stored = 0 /\ executed = 0 /\ events = <<>> /\ wallet = 0 /\ raised = TRUE
NoStartup ==
    /\ onDisk = 0 /\ cached = 0 /\ content = 0 /\ lastStarted = 0 /\ indexStarted = 0
    /\ migration = 0 /\ running = 0 /\ crashed = 0 /\ pc = "down" /\ enabled = 0 /\ version = 0
    /\ left = 0 /\ toInit = 0 /\ now = 0 /\ format = 0 /\ lost = 0
NoTrie ==
    /\ root = 0 /\ local = 0 /\ db = 0 /\ map = 0 /\ versions = 0
NoRunner ==
    /\ block = [c \in Contracts |-> Runner!NoStorage] /\ net = Runner!Zero /\ stack = <<>>
    /\ tokens = 0 /\ storages = 0 /\ totals = 0 /\ trackers = 0
    /\ recorded = 0 /\ main = 0 /\ calls = 0 /\ updates = 0 /\ executions = 0

MCInit ==
    \/ /\ service = "connections" /\ Connections!Init
       /\ NoStratum /\ NoPoa /\ NoMerged /\ NoHistory
       /\ NoCache /\ NoWallet /\ NoStartup /\ NoTrie /\ NoRunner
    \/ /\ service = "stratum" /\ Stratum!Init
       /\ NoConnections /\ NoPoa /\ NoMerged /\ NoHistory
       /\ NoCache /\ NoWallet /\ NoStartup /\ NoTrie /\ NoRunner
    \/ /\ service = "poa" /\ Poa!Init
       /\ NoConnections /\ NoStratum /\ NoMerged /\ NoHistory
       /\ NoCache /\ NoWallet /\ NoStartup /\ NoTrie /\ NoRunner
    \/ /\ service = "merged" /\ Merged!Init
       /\ NoConnections /\ NoStratum /\ NoPoa /\ NoHistory
       /\ NoCache /\ NoWallet /\ NoStartup /\ NoTrie /\ NoRunner
    \/ /\ service = "history" /\ History!Init
       /\ NoConnections /\ NoStratum /\ NoPoa /\ NoMerged
       /\ NoCache /\ NoWallet /\ NoStartup /\ NoTrie /\ NoRunner
    \/ /\ service = "cache" /\ Cache!Init
       /\ NoConnections /\ NoStratum /\ NoPoa /\ NoMerged
       /\ NoHistory /\ NoWallet /\ NoStartup /\ NoTrie /\ NoRunner
    \/ /\ service = "wallet" /\ Wallet!Init
       /\ NoConnections /\ NoStratum /\ NoPoa /\ NoMerged
       /\ NoHistory /\ NoCache /\ NoStartup /\ NoTrie /\ NoRunner
    \/ /\ service = "startup" /\ Startup!Init
       /\ NoConnections /\ NoStratum /\ NoPoa /\ NoMerged
       /\ NoHistory /\ NoCache /\ NoWallet /\ NoTrie /\ NoRunner
    \/ /\ service = "trie" /\ Trie!Init
       /\ NoConnections /\ NoStratum /\ NoPoa /\ NoMerged
       /\ NoHistory /\ NoCache /\ NoWallet /\ NoStartup /\ NoRunner
    \/ /\ service = "runner" /\ Runner!Init
       /\ NoConnections /\ NoStratum /\ NoPoa /\ NoMerged
       /\ NoHistory /\ NoCache /\ NoWallet /\ NoStartup /\ NoTrie

MCNext ==
    \/ /\ service = "connections" /\ Connections!Next
       /\ UNCHANGED <<service, stratumVars, poaVars, mergedVars, historyVars,
                      cacheVars, walletVars, startupVars, trieVars, runnerVars>>
    \/ /\ service = "stratum" /\ Stratum!Next
       /\ UNCHANGED <<service, connectionVars, poaVars, mergedVars, historyVars,
                      cacheVars, walletVars, startupVars, trieVars, runnerVars>>
    \/ /\ service = "poa" /\ Poa!Next
       /\ UNCHANGED <<service, connectionVars, stratumVars, mergedVars, historyVars,
                      cacheVars, walletVars, startupVars, trieVars, runnerVars>>
    \/ /\ service = "merged" /\ Merged!Next
       /\ UNCHANGED <<service, connectionVars, stratumVars, poaVars, historyVars,
                      cacheVars, walletVars, startupVars, trieVars, runnerVars>>
    \/ /\ service = "history" /\ History!Next
       /\ UNCHANGED <<service, connectionVars, stratumVars, poaVars, mergedVars,
                      cacheVars, walletVars, startupVars, trieVars, runnerVars>>
    \/ /\ service = "cache" /\ Cache!Next
       /\ UNCHANGED <<service, connectionVars, stratumVars, poaVars, mergedVars,
                      historyVars, walletVars, startupVars, trieVars, runnerVars>>
    \/ /\ service = "wallet" /\ Wallet!Next
       /\ UNCHANGED <<service, connectionVars, stratumVars, poaVars, mergedVars,
                      historyVars, cacheVars, startupVars, trieVars, runnerVars>>
    \/ /\ service = "startup" /\ Startup!Next
       /\ UNCHANGED <<service, connectionVars, stratumVars, poaVars, mergedVars,
                      historyVars, cacheVars, walletVars, trieVars, runnerVars>>
    \/ /\ service = "trie" /\ Trie!Next
       /\ UNCHANGED <<service, connectionVars, stratumVars, poaVars, mergedVars,
                      historyVars, cacheVars, walletVars, startupVars, runnerVars>>
    \/ /\ service = "runner" /\ Runner!Next
       /\ UNCHANGED <<service, connectionVars, stratumVars, poaVars, mergedVars,
                      historyVars, cacheVars, walletVars, startupVars, trieVars>>

MCSpec == MCInit /\ [][MCNext]_allVars

\* Two nodes that dial each other end up connected, see Connections.
CrossedDialsLeaveOne == service = "connections" => Connections!CrossedDialsLeaveOne

\* A proof-of-authority network stops producing blocks only when all signers
\* missed an event in an outage, or at a tie, see PoaProducer.
OnlyOutagesOrTiesStall == service = "poa" => Poa!OnlyOutagesOrTiesStall

\* The trie holds what was stored, in one shape only, see PatriciaTrie.
TrieRepresentsMap == service = "trie" => Trie!TrieRepresentsMap

(***************************************************************************)
(* The properties that are also proved: the proofs and this run state the  *)
(* same definitions.                                                       *)
(***************************************************************************)
INSTANCE ConnectionsSafety WITH From <- MCFrom, To <- MCTo
INSTANCE MergedMiningSafety WITH Miners <- MergedMiners
INSTANCE StratumSafety WITH Miners <- StratumMiners
INSTANCE HistoryStreamerSafety
INSTANCE TxCacheSafety WITH Txs <- CachedTxs
INSTANCE WalletSafety WITH Inputs <- MCInputs, queue <- events
INSTANCE NodeStartupSafety WITH disk <- onDisk
INSTANCE NcRunnerSafety
=============================================================================
