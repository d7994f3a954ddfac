----------------------------- MODULE SyncAgent -----------------------------
(***************************************************************************)
(* NodeBlockSync, SyncMempoolManager and BlockchainStreamingServer: a node *)
(* ("I") syncs its blocks and then its mempool from a peer.  Every answer  *)
(* resumes the run where its Deferred was yielded, while both nodes get    *)
(* vertices from elsewhere and the peer relays what it accepts.            *)
(*                                                                         *)
(* Transactions of blocks are left to TxStreaming: here a block can be     *)
(* validated as soon as its parent is stored.  A block is a node of a tree *)
(* with genesis 0; the best block is the first one of the greatest height. *)
(***************************************************************************)
EXTENDS Integers, Sequences, FiniteSets, SequencesExt, FiniteSetsExt

CONSTANTS
    Parent, Height,     \* of every block; Parent[0] = 0
    Txs, TxDeps,        \* mempool transactions and what they depend on
    Scenarios,          \* [me, peer, iGet, peerGets]: the best blocks the nodes start
                        \* with and what each may get from elsewhere
    Fanout,             \* parts of an n-ary search step, 10 in the code
    Limit,              \* DEFAULT_STREAMING_LIMIT
    MaxRepeated,        \* BlockchainStreamingClient.max_repeated_blocks
    MaxTips,            \* MAX_MEMPOOL_RECEIVING_TIPS
    MaxStack,           \* SyncMempoolManager.MAX_STACK_LENGTH
    MaxScore            \* MISBEHAVIOR_THRESHOLD, 100 in the code

VARIABLES
    elsewhere,  \* [me, peer]: the vertices each node may still get from others
    me, peer,   \* the storage of each node: [blocks, best, txs]
    server,     \* the peer's _blk_streaming_server
    relays,     \* the peer's _outbound_relay_enabled
    silent,     \* the peer no longer answers, but keeps the connection alive
    toPeer, toMe,
    run,        \* where the current run of run_sync is
    blkClient,  \* _blk_streaming_client
    mempool,    \* SyncMempoolManager and the tips being received
    score,      \* the hits in my _misbehavior_score for the peer
    unsolicited,\* history: how many DATA came while I had the relay disabled
    closed      \* why the connection was closed, "" while it is open

vars == <<elsewhere, me, peer, server, relays, silent, toPeer, toMe, run, blkClient, mempool,
          score, unsolicited, closed>>
peerVars == <<peer, server, relays, silent>>
agentVars == <<run, blkClient, mempool>>
conduct == <<score, unsolicited>>

Blocks == DOMAIN Parent

(* What the proofs assume: the blocks are a tree with root 0 and its       *)
(* heights, nodes start at one of them, and the whole mempool fits in one  *)
(* answer (more than MAX_MEMPOOL_RECEIVING_TIPS tips do close the          *)
(* connection).  The other limits may be anything.                         *)
AgentAssumption ==
    /\ Parent \in [Blocks -> Blocks] /\ Height \in [Blocks -> Nat]
    /\ 0 \in Blocks /\ -1 \notin Blocks /\ Parent[0] = 0 /\ Height[0] = 0
    /\ \A b \in Blocks \ {0} : Height[b] = Height[Parent[b]] + 1
    /\ TxDeps \in [Txs -> SUBSET Txs]
    /\ IsFiniteSet(Txs) /\ Cardinality(Txs) <= MaxTips /\ MaxTips \in Nat /\ Limit \in Int
    /\ MaxScore \in Nat
    /\ \A s \in Scenarios : s.me \in Blocks /\ s.peer \in Blocks

Chain(b) == {c \in Blocks : \E n \in 0 .. Height[b] :
                LET up[k \in 0 .. n] == IF k = 0 THEN b ELSE Parent[up[k - 1]]
                IN up[n] = c}
(* The height index of a node whose best block is `best`.                  *)
AtHeight(best, h) == {b \in Chain(best) : Height[b] = h}

NoServer == [running |-> FALSE, cur |-> 0, end |-> 0, left |-> 0]
NoBlkClient == [exists |-> FALSE, fired |-> TRUE, got |-> 0, max |-> 0, repeated |-> 0, last |-> -1]
Idle == [pc |-> "idle", state |-> "unknown", myBest |-> 0, peerBest |-> 0, lo |-> 0, hi |-> 0,
         synced |-> FALSE, syncedBlock |-> 0, relay |-> FALSE]

NodeAt(b) == [blocks |-> Chain(b), best |-> b, txs |-> {}]

Init ==
    /\ \E s \in Scenarios : /\ me = NodeAt(s.me) /\ peer = NodeAt(s.peer)
                            /\ elsewhere = [me |-> s.iGet, peer |-> s.peerGets]
    /\ server = NoServer /\ relays = FALSE /\ silent = FALSE
    /\ toPeer = <<>> /\ toMe = <<>>
    /\ run = Idle /\ blkClient = NoBlkClient
    /\ mempool = [missing |-> {}, stack |-> <<>>, cache |-> {}, asked |-> {},
                  tips |-> {}, receiving |-> FALSE]
    /\ score = 0 /\ unsolicited = 0
    /\ closed = ""

Open == closed = ""
(* While the search of the mempool runs it does not leave the reactor.     *)
ReactorFree == run.pc # "dfs"

AddBlock(node, b) ==
    [node EXCEPT !.blocks = @ \cup {b}, !.best = IF Height[b] > Height[@] THEN b ELSE @]

CanAddBlock(node, b) == b \notin node.blocks /\ Parent[b] \in node.blocks
CanAddTx(node, t) == t \notin node.txs /\ TxDeps[t] \subseteq node.txs

----------------------------------------------------------------------------
(* The peer.                                                               *)

Ask(m) == toPeer' = Append(toPeer, m)
Answer(ms) == toMe' = toMe \o ms

BlocksEnd(code) == [type |-> "BLOCKS-END", code |-> code]

(* handle_get_peer_block_hashes: the hashes up to the first height the     *)
(* peer does not have.                                                     *)
PeerBlockHashes(heights) ==
    {b \in Chain(peer.best) : Height[b] \in heights}

(* Tips of the mempool.                                                    *)
MempoolTips == {t \in peer.txs : \A u \in peer.txs : t \notin TxDeps[u]}

HandleGetNextBlocks(m) ==
    IF server.running
    THEN closed' = "GET-NEXT-BLOCKS before previous one finished" /\ UNCHANGED <<server, toMe>>
    ELSE IF ~({m.start, m.end} \subseteq peer.blocks)
    THEN Answer(<<[type |-> "NOT-FOUND"]>>) /\ UNCHANGED <<server, closed>>
    ELSE /\ server' = [running |-> TRUE, cur |-> m.start, end |-> m.end,
                       left |-> Min({m.quantity, Limit})]
         /\ UNCHANGED <<toMe, closed>>

HandleStop ==
    /\ server' = NoServer
    /\ IF server.running THEN Answer(<<BlocksEnd("PER_REQUEST")>>) ELSE UNCHANGED toMe
    /\ UNCHANGED closed

HandleGetTips ==
    /\ LET tip(t) == [type |-> "TIPS", tx |-> t]
           tips == SetToSeq(MempoolTips)
       IN IF server.running THEN Answer(<<[type |-> "MEMPOOL-END"]>>)
          ELSE Answer([i \in 1 .. Len(tips) |-> tip(tips[i])] \o <<[type |-> "TIPS-END"]>>)
    /\ UNCHANGED <<server, closed>>

HandleGetData(m) ==
    /\ IF m.tx \in peer.txs
       THEN Answer(<<[type |-> "DATA", origin |-> "mempool", tx |-> m.tx]>>)
       ELSE Answer(<<[type |-> "NOT-FOUND"]>>)
    /\ UNCHANGED <<server, closed>>

PeerReceive ==
    /\ Open /\ ~silent /\ toPeer # <<>>
    /\ LET m == Head(toPeer)
       IN /\ relays' = IF m.type = "RELAY" THEN m.enable ELSE relays
          /\ CASE m.type = "GET-BEST-BLOCK" ->
                    /\ Answer(<<[type |-> "BEST-BLOCK", block |-> peer.best]>>)
                    /\ UNCHANGED <<server, closed>>
               [] m.type = "GET-PEER-BLOCK-HASHES" ->
                    /\ Answer(<<[type |-> "PEER-BLOCK-HASHES", list |-> PeerBlockHashes(m.heights)]>>)
                    /\ UNCHANGED <<server, closed>>
               [] m.type = "GET-NEXT-BLOCKS" -> HandleGetNextBlocks(m)
               [] m.type = "STOP-BLOCK-STREAMING" -> HandleStop
               [] m.type = "GET-TIPS" -> HandleGetTips
               [] m.type = "GET-DATA" -> HandleGetData(m)
               [] m.type = "RELAY" -> UNCHANGED <<toMe, server, closed>>
    /\ toPeer' = Tail(toPeer)
    /\ UNCHANGED <<elsewhere, me, peer, silent, agentVars, conduct>>

(* BlockchainStreamingServer.send_next                                     *)
PeerSend ==
    /\ Open /\ ~silent /\ server.running
    /\ LET cur == server.cur
           block == [type |-> "BLOCKS", block |-> cur]
           next == AtHeight(peer.best, Height[cur] + 1)
           stop(ms) == server' = NoServer /\ Answer(ms)
       IN IF cur \notin Chain(peer.best)
          THEN stop(<<BlocksEnd("STREAM_BECAME_VOIDED")>>)
          ELSE IF cur = server.end
          THEN stop(<<block, BlocksEnd("END_HASH_REACHED")>>)
          ELSE IF next = {}
          THEN stop(<<block, BlocksEnd("NO_MORE_BLOCKS")>>)
          ELSE IF server.left <= 1
          THEN stop(<<block, BlocksEnd("LIMIT_EXCEEDED")>>)
          ELSE /\ server' = [server EXCEPT !.left = @ - 1, !.cur = CHOOSE b \in next : TRUE]
               /\ Answer(<<block>>)
    /\ UNCHANGED <<elsewhere, me, peer, relays, silent, toPeer, agentVars, conduct, closed>>

(* The peer accepts a vertex and relays it, if it was asked to.            *)
Relay(v) ==
    IF relays /\ ~silent THEN Answer(<<[type |-> "DATA", origin |-> "", tx |-> v]>>)
    ELSE UNCHANGED toMe

PeerAccepts ==
    /\ Open
    /\ \E v \in elsewhere.peer :
          /\ \/ v \in Blocks /\ CanAddBlock(peer, v) /\ peer' = AddBlock(peer, v)
             \/ v \in Txs /\ CanAddTx(peer, v) /\ peer' = [peer EXCEPT !.txs = @ \cup {v}]
          /\ elsewhere' = [elsewhere EXCEPT !.peer = @ \ {v}]
          /\ Relay(v)
    /\ UNCHANGED <<me, server, relays, silent, toPeer, agentVars, conduct, closed>>

PeerGoesSilent ==
    /\ Open /\ ~silent
    /\ silent' = TRUE
    /\ UNCHANGED <<elsewhere, me, peer, server, relays, toPeer, toMe, agentVars, conduct, closed>>

----------------------------------------------------------------------------
(* The run.                                                                *)

(* run_sync.  LoopingCall does not call it again before the Deferred of    *)
(* the last call has fired, so it never finds a run in progress.           *)
RunSync ==
    /\ Open /\ run.pc = "idle"
    /\ run' = [run EXCEPT !.pc = "best", !.state = "blocks", !.myBest = me.best]
    /\ Ask([type |-> "GET-BEST-BLOCK"])
    /\ UNCHANGED <<elsewhere, me, peerVars, toMe, blkClient, mempool, conduct, closed>>

RelayRequest(on) == [type |-> "RELAY", enable |-> on]

(* A mutant of Quantity: the common block is not counted.                  *)
QuantityOffByOne(start, end) == Height[end] - Height[start]

(* How many blocks a stream from `start` to `end` has, both included.      *)
Quantity(start, end) == Height[end] - Height[start] + 1

(* start_blockchain_streaming or the next step of find_best_common_block.  *)
(* With a step of ceil((hi - lo) / Fanout), heights lo, lo + step, ..., hi.*)
SearchOrStream(r, before) ==
    LET lo == Height[r.lo]
        hi == Height[r.hi]
        step == (hi - lo + Fanout - 1) \div Fanout
        heights == {h \in lo .. hi - 1 : (h - lo) % step = 0} \cup {hi}
        quantity == Quantity(r.lo, r.peerBest)
    IN IF hi - lo > 1
       THEN /\ run' = [r EXCEPT !.pc = "search"]
            /\ toPeer' = toPeer \o before \o
                   <<[type |-> "GET-PEER-BLOCK-HASHES", heights |-> heights]>>
            /\ UNCHANGED blkClient
       ELSE /\ run' = [r EXCEPT !.pc = "stream", !.syncedBlock = r.lo]
            /\ toPeer' = toPeer \o before \o
                   <<[type |-> "GET-NEXT-BLOCKS", start |-> r.lo, end |-> r.peerBest,
                      quantity |-> quantity]>>
            /\ blkClient' = [NoBlkClient EXCEPT !.exists = TRUE, !.fired = FALSE, !.max = quantity]

(* A mutant of IsSynced: heights alone are compared.                       *)
IsSyncedByHeight(p) == Height[p] <= Height[run.myBest]

(* The peer's best block is my best block as it was when the run started,  *)
(* or is on my best chain now.                                             *)
IsSynced(p) ==
    \/ p = run.myBest
    \/ Height[p] <= Height[run.myBest] /\ p \in AtHeight(me.best, Height[p])

(* get_tips, unless tips of an earlier run are still missing.              *)
StartMempool(r) ==
    IF mempool.missing = {}
    THEN /\ run' = [r EXCEPT !.pc = "tips", !.state = "mempool"]
         /\ toPeer' = toPeer \o <<RelayRequest(TRUE), [type |-> "GET-TIPS"]>>
         /\ mempool' = [mempool EXCEPT !.receiving = TRUE, !.tips = {}]
    ELSE /\ run' = [r EXCEPT !.pc = "dfs", !.state = "mempool"]
         /\ toPeer' = Append(toPeer, RelayRequest(TRUE))
         /\ UNCHANGED mempool

(* handle_best_block; without a Deferred the answer is dropped.            *)
HandleBestBlock(m) ==
    /\ IF run.pc # "best" THEN UNCHANGED <<agentVars, toPeer>>
       ELSE IF IsSynced(m.block)
       THEN /\ StartMempool([run EXCEPT !.peerBest = m.block, !.synced = TRUE, !.relay = TRUE,
                                        !.syncedBlock = m.block])
            /\ UNCHANGED blkClient
       ELSE /\ SearchOrStream([run EXCEPT !.peerBest = m.block, !.synced = FALSE, !.relay = FALSE,
                                  !.lo = 0,
                                  !.hi = IF Height[m.block] <= Height[run.myBest]
                                         THEN m.block ELSE run.myBest],
                              <<RelayRequest(FALSE)>>)
            /\ UNCHANGED mempool
    /\ UNCHANGED <<me, closed>>

(* handle_peer_block_hashes: lo becomes the highest answer I have, hi the  *)
(* lowest one above it that I do not have.  A list that does not reach     *)
(* down to lo ends the run.                                                *)
HandlePeerBlockHashes(m) ==
    LET known == {b \in m.list : b \in me.blocks}
        lo == CHOOSE b \in known : \A c \in known : Height[c] <= Height[b]
        above == {b \in m.list : \A c \in known : Height[b] > Height[c]}
        hi == CHOOSE b \in above : \A c \in above : Height[b] <= Height[c]
    IN /\ IF run.pc # "search" THEN UNCHANGED <<run, blkClient, toPeer>>
          ELSE IF run.lo \notin m.list
          THEN run' = [run EXCEPT !.pc = "idle"] /\ UNCHANGED <<blkClient, toPeer>>
          ELSE SearchOrStream([run EXCEPT !.lo = lo, !.hi = IF above = {} THEN @ ELSE hi], <<>>)
       /\ UNCHANGED <<me, mempool, closed>>

(* A mutant of BlkFails: the stream is not stopped.                        *)
BlkFailsQuietly(c) ==
    /\ blkClient' = [c EXCEPT !.fired = TRUE]
    /\ run' = [run EXCEPT !.pc = "idle"]
    /\ UNCHANGED <<me, toPeer, mempool, closed>>

(* BlockchainStreamingClient.fails: the run stops the stream and ends.     *)
BlkFails(c) ==
    /\ blkClient' = [c EXCEPT !.fired = TRUE]
    /\ run' = [run EXCEPT !.pc = "idle"]
    /\ Ask([type |-> "STOP-BLOCK-STREAMING"])
    /\ UNCHANGED <<me, mempool, closed>>

HandleBlocks(m) ==
    LET c == [blkClient EXCEPT !.got = @ + 1]
        b == m.block
    IN IF run.state # "blocks" \/ ~blkClient.exists
       THEN closed' = "not expecting BLOCKS" /\ UNCHANGED <<me, agentVars, toPeer>>
       ELSE IF blkClient.fired THEN UNCHANGED <<me, agentVars, toPeer, closed>>
       ELSE IF c.got > c.max THEN BlkFails(c)
       ELSE IF b \in me.blocks
       THEN IF c.repeated + 1 > MaxRepeated THEN BlkFails([c EXCEPT !.last = b])
            ELSE /\ blkClient' = [c EXCEPT !.repeated = @ + 1, !.last = b]
                 /\ UNCHANGED <<me, run, mempool, toPeer, closed>>
       ELSE IF c.last # -1 /\ Parent[b] # c.last THEN BlkFails(c)
       ELSE /\ me' = AddBlock(me, b)
            /\ blkClient' = [c EXCEPT !.repeated = 0, !.last = b]
            /\ UNCHANGED <<run, mempool, toPeer, closed>>

HandleBlocksEnd(m) ==
    /\ IF run.state # "blocks" \/ ~blkClient.exists
       THEN closed' = "not expecting BLOCKS-END" /\ UNCHANGED <<run, blkClient>>
       ELSE IF blkClient.fired THEN UNCHANGED <<run, blkClient, closed>>
       ELSE /\ run' = [run EXCEPT !.pc = "idle"]
            /\ blkClient' = NoBlkClient
            /\ UNCHANGED closed
    /\ UNCHANGED <<me, mempool, toPeer>>

HandleTips(m) ==
    /\ mempool' = [mempool EXCEPT !.tips = @ \cup ({m.tx} \ me.txs)]
    /\ closed' = IF ~mempool.receiving THEN "TIPS not expected"
                 ELSE IF Cardinality(mempool'.tips) > MaxTips THEN "too many tips" ELSE closed
    /\ UNCHANGED <<me, run, blkClient, toPeer>>

HandleTipsEnd(m) ==
    /\ IF ~mempool.receiving
       THEN closed' = "TIPS-END not expected" /\ UNCHANGED <<run, mempool>>
       ELSE /\ mempool' = [mempool EXCEPT !.receiving = FALSE, !.missing = mempool.tips \ me.txs,
                                          !.tips = {}]
            /\ run' = [run EXCEPT !.pc = "dfs"]
            /\ UNCHANGED closed
    /\ UNCHANGED <<me, blkClient, toPeer>>

(* increase_misbehavior_score: one hit on a leaky bucket, of which any     *)
(* part has leaked since the last one.  When it overflows the connection   *)
(* is closed.                                                              *)
IncreaseMisbehaviorScore ==
    \E hits \in 0 .. score :
        \/ hits < MaxScore /\ score' = hits + 1 /\ UNCHANGED closed
        \/ hits >= MaxScore /\ score' = MaxScore /\ closed' = "Misbehavior score is too high"

(* handle_data and _on_get_data                                            *)
HandleUnsolicited ==
    /\ unsolicited' = unsolicited + 1
    /\ IncreaseMisbehaviorScore
    /\ UNCHANGED <<me, agentVars, toPeer>>

HandleRequested(v) ==
    /\ IF v \notin mempool.asked
       THEN closed' = "DATA that was not requested" /\ UNCHANGED <<run, mempool>>
       ELSE /\ mempool' = [mempool EXCEPT !.asked = @ \ {v}, !.cache = @ \cup {v},
                                          !.stack = Append(@, v)]
            /\ run' = [run EXCEPT !.pc = "dfs"]
            /\ UNCHANGED closed
    /\ UNCHANGED <<me, blkClient, toPeer, conduct>>

HandleRelayed(v) ==
    /\ me' = IF v \in Txs
             THEN IF CanAddTx(me, v) THEN [me EXCEPT !.txs = @ \cup {v}] ELSE me
             ELSE IF CanAddBlock(me, v) THEN AddBlock(me, v) ELSE me
    /\ UNCHANGED <<agentVars, toPeer, conduct, closed>>

HandleData(m) ==
    IF ~run.relay THEN HandleUnsolicited
    ELSE IF m.origin = "mempool" THEN HandleRequested(m.tx)
    ELSE HandleRelayed(m.tx)

(* NOT-FOUND is refused, and MEMPOOL-END is no command of this state.      *)
HandleUnexpected(m) ==
    /\ m.type \in {"NOT-FOUND", "MEMPOOL-END"}
    /\ closed' = "unexpected " \o m.type
    /\ UNCHANGED <<me, agentVars, toPeer>>

Receive ==
    /\ Open /\ ReactorFree /\ toMe # <<>>
    /\ LET m == Head(toMe)
       IN \/ m.type = "DATA" /\ HandleData(m)
          \/ /\ \/ m.type = "BEST-BLOCK" /\ HandleBestBlock(m)
                \/ m.type = "PEER-BLOCK-HASHES" /\ HandlePeerBlockHashes(m)
                \/ m.type = "BLOCKS" /\ HandleBlocks(m)
                \/ m.type = "BLOCKS-END" /\ HandleBlocksEnd(m)
                \/ m.type = "TIPS" /\ HandleTips(m)
                \/ m.type = "TIPS-END" /\ HandleTipsEnd(m)
                \/ HandleUnexpected(m)
             /\ UNCHANGED conduct
    /\ toMe' = Tail(toMe)
    /\ UNCHANGED <<elsewhere, peerVars>>

(* get_tx of a transaction I do not have: from the cache, or asked for.    *)
PushOrAsk(t, stack) ==
    IF t \in mempool.cache \cup me.txs
    THEN /\ mempool' = [mempool EXCEPT !.stack = stack \o <<t>>]
         /\ UNCHANGED <<run, toPeer>>
    ELSE /\ mempool' = [mempool EXCEPT !.stack = stack, !.asked = @ \cup {t}]
         /\ run' = [run EXCEPT !.pc = "data"]
         /\ Ask([type |-> "GET-DATA", tx |-> t])

(* One turn of the loops of _unsafe_run and _dfs; the transaction at the   *)
(* bottom is dropped when the stack is too long.                           *)
MempoolStep ==
    /\ Open /\ run.pc = "dfs"
    /\ LET stack == IF Len(mempool.stack) > MaxStack THEN Tail(mempool.stack) ELSE mempool.stack
           top == Last(stack)
           absent == TxDeps[top] \ me.txs
       IN IF stack # <<>>
          THEN IF absent = {}
               THEN /\ me' = [me EXCEPT !.txs = @ \cup {top}]
                    /\ mempool' = [mempool EXCEPT !.stack = Front(stack), !.missing = @ \ {top}]
                    /\ UNCHANGED <<run, toPeer>>
               ELSE \E t \in absent : PushOrAsk(t, stack) /\ UNCHANGED me
          ELSE IF mempool.missing = {}
          THEN run' = [run EXCEPT !.pc = "idle"] /\ UNCHANGED <<me, mempool, toPeer>>
          ELSE \E t \in mempool.missing : PushOrAsk(t, <<>>) /\ UNCHANGED me
    /\ UNCHANGED <<elsewhere, peerVars, toMe, blkClient, conduct, closed>>

(* A vertex reaches me from another peer.                                  *)
IAccept ==
    /\ Open /\ ReactorFree
    /\ \E v \in elsewhere.me :
          /\ \/ v \in Blocks /\ CanAddBlock(me, v) /\ me' = AddBlock(me, v)
             \/ v \in Txs /\ CanAddTx(me, v) /\ me' = [me EXCEPT !.txs = @ \cup {v}]
          /\ elsewhere' = [elsewhere EXCEPT !.me = @ \ {v}]
    /\ UNCHANGED <<peerVars, toPeer, toMe, agentVars, conduct, closed>>

Next == \/ PeerReceive \/ PeerSend \/ PeerAccepts \/ PeerGoesSilent
        \/ RunSync \/ Receive \/ MempoolStep \/ IAccept

(* The reactors run what is due; nobody owes new vertices.                 *)
Fairness ==
    /\ WF_vars(PeerReceive) /\ WF_vars(PeerSend)
    /\ WF_vars(RunSync) /\ WF_vars(Receive) /\ WF_vars(MempoolStep)

Spec == Init /\ [][Next]_vars /\ Fairness

----------------------------------------------------------------------------
\* The safety properties.
INSTANCE SyncAgentSafety

(* With a peer that goes on answering, and when neither of us gets new     *)
(* vertices any more, I end up at its height or above, and with its whole  *)
(* mempool if its best block is on my chain; unless late relays closed the *)
(* connection.                                                             *)
Converges ==
    <>[](\/ silent \/ closed # ""
         \/ /\ Height[me.best] >= Height[peer.best]
            /\ peer.best \in Chain(me.best) => peer.txs \subseteq me.txs)
=============================================================================
