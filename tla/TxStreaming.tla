---------------------------- MODULE TxStreaming ----------------------------
(***************************************************************************)
(* The transaction phase of sync-v2 between two honest nodes: the          *)
(* TransactionStreamingClient of the node that is behind, the              *)
(* TransactionsStreamingServer of its peer, and the part of NodeBlockSync  *)
(* that starts, resumes and repeats the streams.                           *)
(*                                                                         *)
(* The peer's DAG is `dag`, fixed but for one possible re-org.  Vertices   *)
(* older than the first missing block are left out.  Meanwhile other peers *)
(* may hand the client any vertex whose dependencies it has.  The client   *)
(* gives the reactor back after every dependency of a block it adds, so    *)
(* messages arrive while a block is half added (busy).                     *)
(***************************************************************************)
EXTENDS Integers, Sequences, FiniteSets, SequencesExt

CONSTANTS
    Dags,           \* the DAGs a behaviour may start with, see Dag below
    Limit,          \* DEFAULT_STREAMING_LIMIT
    MaxStartFrom    \* MAX_GET_TRANSACTIONS_BFS_LEN

VARIABLES
    dag,        \* [deps, owns, height, before, after, elsewhere]: the dependencies
                \* of each vertex, the transactions each block is the first to
                \* confirm, the peer's best chain before and after its re-org,
                \* and the vertices the client may get from elsewhere
    chain,      \* the peer's best chain above the common block
    server,     \* _tx_streaming_server, NoServer when it is None
    toServer, toClient,  \* the two directions of the connection
    stored,     \* vertices in the client's storage
    others,     \* vertices other peers may still deliver
    client,     \* _tx_streaming_client, ~exists when it is None
    orphans,    \* earlier clients that are still adding a block
    agent,      \* where run_sync_blocks is: idle, blocks, txs, resumed
    closed      \* why the connection was closed, "" while it is open

\* What the client promises of its storage.
INSTANCE TxStreamingSafety

(* Timestamps, here the numbers of the vertices, increase along            *)
(* dependencies; a best chain is one of blocks.                            *)
WellFormed(d) ==
    LET Vertices == DOMAIN d.deps
    IN /\ Vertices \subseteq Nat
       /\ d.deps \in [Vertices -> SUBSET Vertices]
       /\ \A v \in Vertices : \A u \in d.deps[v] : u < v
       /\ d.owns \in [DOMAIN d.owns -> SUBSET Vertices]
       /\ DOMAIN d.owns \subseteq Vertices
       /\ d.before \in Seq(DOMAIN d.owns) /\ d.after \in Seq(DOMAIN d.owns)
TxAssumption == \A d \in Dags : WellFormed(d)

vars == <<dag, chain, server, toServer, toClient, stored, others, client, orphans, agent, closed>>
peerVars == <<dag, chain, server>>
wire == <<toServer, toClient>>

NoServer == [running |-> FALSE]
NoClient == [exists |-> FALSE, blocks |-> <<>>, idx |-> 1, waiting |-> {}, db |-> {},
             existing |-> {}, queue |-> <<>>, code |-> "", fired |-> TRUE, received |-> 0,
             scheduled |-> FALSE, busy |-> FALSE, todo |-> {},
             torn |-> FALSE]  \* torn: resumed while a block was half added

Init ==
    /\ dag \in Dags
    /\ chain = dag.before
    /\ server = NoServer
    /\ toServer = <<>> /\ toClient = <<>>
    /\ stored = {}
    /\ others \in SUBSET dag.elsewhere
    /\ client = NoClient /\ orphans = {}
    /\ agent = "idle"
    /\ closed = ""

Open == closed = ""
Blocks == DOMAIN dag.owns
Height(b) == dag.height[b]
Voided(b) == b \notin ToSet(chain)

(* meta.first_block on the peer's side is the block of the best chain that *)
(* owns the transaction, if there is one.                                  *)
Confirmed(t) == \E b \in ToSet(chain) : t \in dag.owns[b]
FirstBlock(t) == CHOOSE b \in ToSet(chain) : t \in dag.owns[b]

(* Lists are sorted by timestamp, which increases with the number.         *)
Sorted(S) == SetToSortSeq(S, <)
TxDeps(v) == dag.deps[v] \ Blocks

----------------------------------------------------------------------------
(* The server.                                                             *)

(* TransactionsStreamingServer.__init__ and start.  The walk keeps `seen`  *)
(* for all blocks; block parents are visited and skipped, so left out.     *)
StartServer(from, first, last) ==
    [running |-> TRUE, cur |-> first, last |-> last, counter |-> 0,
     visit |-> Sorted(IF from = {} THEN TxDeps(first) ELSE from),
     seen |-> IF from = {} THEN TxDeps(first) ELSE from]

(* The blocks get_iter goes on to when the walk of the current one is over,*)
(* following the best chain up to the last block requested.                *)
Ahead(s) ==
    IF s.cur = s.last \/ Voided(s.cur) THEN {}
    ELSE LET stop == IF Voided(s.last) THEN Len(chain) ELSE Height(s.last)
         IN {b \in ToSet(chain) : Height(b) \in Height(s.cur) + 1 .. stop}

(* next(self.iter): the walk with its next vertex at the head.  A block    *)
(* all of whose parents were seen yields nothing.                          *)
Advance(s) ==
    LET fresh == {b \in Ahead(s) : TxDeps(b) \ s.seen # {}}
        next == CHOOSE b \in fresh : \A c \in fresh : Height(b) <= Height(c)
    IN IF s.visit # <<>> \/ fresh = {} THEN s
       ELSE [s EXCEPT !.cur = next, !.visit = Sorted(TxDeps(next) \ s.seen),
                      !.seen = @ \cup TxDeps(next)]

(* The walk goes on to what the transaction depends on.                    *)
Forward(s, t) ==
    [s EXCEPT !.visit = Tail(@) \o Sorted(TxDeps(t) \ s.seen),
              !.seen = @ \cup TxDeps(t), !.counter = @ + 1]

End(code) == [type |-> "TRANSACTIONS-END", code |-> code]
StopServer(messages) == server' = NoServer /\ toClient' = toClient \o messages

(* safe_send_next                                                          *)
ServerSend ==
    /\ Open /\ server.running
    /\ LET s == Advance(server)
           t == Head(s.visit)
       IN IF s.visit = <<>>
          THEN StopServer(<<End(IF s.cur # s.last /\ Voided(s.cur)
                                THEN "STREAM_BECAME_VOIDED" ELSE "END_HASH_REACHED")>>)
          ELSE IF ~Confirmed(t)
          THEN StopServer(<<End("TX_NOT_CONFIRMED")>>)
          ELSE IF Height(FirstBlock(t)) < Height(s.cur)
          THEN server' = [s EXCEPT !.visit = Tail(@)] /\ UNCHANGED toClient
          ELSE LET sent == [type |-> "TRANSACTION", tx |-> t]
               IN IF s.counter + 1 >= Limit
                  THEN StopServer(<<sent, End("LIMIT_EXCEEDED")>>)
                  ELSE /\ server' = Forward(s, t)
                       /\ toClient' = Append(toClient, sent)
    /\ UNCHANGED <<dag, chain, toServer, stored, others, client, orphans, agent, closed>>

(* handle_get_transactions_bfs: a request during a stream is ignored, one  *)
(* that starts from too many transactions closes the connection.           *)
HandleGetTransactions(m) ==
    /\ m.type = "GET-TRANSACTIONS-BFS"
    /\ closed' = IF ~server.running /\ Cardinality(m.from) > MaxStartFrom
                 THEN "too many transactions in GET-TRANSACTIONS-BFS" ELSE ""
    /\ IF server.running \/ Cardinality(m.from) > MaxStartFrom
       THEN UNCHANGED <<server, toClient>>
       ELSE IF \A t \in m.from : Confirmed(t) /\ FirstBlock(t) = m.first
       THEN server' = StartServer(m.from, m.first, m.last) /\ UNCHANGED toClient
       ELSE toClient' = Append(toClient, End("INVALID_PARAMS")) /\ UNCHANGED server

HandleStop(m) ==
    /\ m.type = "STOP-TRANSACTIONS-STREAMING"
    /\ IF server.running THEN StopServer(<<End("PER_REQUEST")>>)
       ELSE UNCHANGED <<server, toClient>>
    /\ UNCHANGED closed

(* handle_get_next_blocks, with the stream of blocks it starts in one      *)
(* message.                                                                *)
HandleGetNextBlocks(m) ==
    /\ m.type = "GET-NEXT-BLOCKS"
    /\ IF server.running
       THEN /\ closed' = "GET-NEXT-BLOCKS received before previous one finished"
            /\ UNCHANGED <<server, toClient>>
       ELSE /\ toClient' = Append(toClient, [type |-> "BLOCKS", blocks |-> chain])
            /\ UNCHANGED <<server, closed>>

ServerReceive ==
    /\ Open /\ toServer # <<>>
    /\ LET m == Head(toServer)
       IN HandleGetTransactions(m) \/ HandleStop(m) \/ HandleGetNextBlocks(m)
    /\ toServer' = Tail(toServer)
    /\ UNCHANGED <<dag, chain, stored, others, client, orphans, agent>>

Reorg ==
    /\ Open /\ chain = dag.before /\ dag.after # dag.before
    /\ chain' = dag.after
    /\ UNCHANGED <<dag, server, wire, stored, others, client, orphans, agent, closed>>

----------------------------------------------------------------------------
(* The client.                                                             *)

Missing(v, known) == dag.deps[v] \ known

(* A mutant of UpdateDependencies: only parents are waited for.            *)
UpdateDependenciesNever(c, v) == c

(* _update_dependencies                                                    *)
UpdateDependencies(c, v) ==
    [c EXCEPT !.waiting = @ \cup Missing(v, stored \cup c.db),
              !.existing = @ \cup (dag.deps[v] \ Missing(v, stored \cup c.db))]

(* _prepare_block, for the block at idx with `known` in the storage; after *)
(* the last block nothing is reset.                                        *)
PrepareBlock(c, idx, known) ==
    IF idx > Len(c.blocks) THEN [c EXCEPT !.idx = idx]
    ELSE [c EXCEPT !.idx = idx, !.db = {}, !.waiting = Missing(c.blocks[idx], known),
                   !.existing = dag.deps[c.blocks[idx]] \cap known]

NewClient(blocks, known) ==
    PrepareBlock([NoClient EXCEPT !.exists = TRUE, !.fired = FALSE, !.blocks = blocks], 1, known)

Requested(from, first, last) ==
    [type |-> "GET-TRANSACTIONS-BFS", from |-> from, first |-> first, last |-> last]

(* A mutant of OnStreamEnd: the client forgets where it stopped.           *)
OnStreamEndFromScratch(c, code) ==
    IF code # "LIMIT_EXCEEDED"
    THEN /\ client' = [c EXCEPT !.fired = TRUE, !.exists = FALSE]
         /\ agent' = "idle" /\ UNCHANGED <<toServer, closed>>
    ELSE /\ client' = [c EXCEPT !.received = 0, !.code = ""]
         /\ toServer' = Append(toServer, Requested({}, c.blocks[1], Last(c.blocks)))
         /\ agent' = "resumed" /\ UNCHANGED closed

(* The deferred fires with the code of TRANSACTIONS-END and                *)
(* run_sync_blocks goes on in the same call: resume_transactions_streaming *)
(* reads the client's position as it is, or the run is over.               *)
OnStreamEnd(c, code) ==
    IF code # "LIMIT_EXCEEDED"
    THEN /\ client' = [c EXCEPT !.fired = TRUE, !.exists = FALSE]
         /\ agent' = "idle" /\ UNCHANGED <<toServer, closed>>
    ELSE IF c.idx > Len(c.blocks)
    THEN /\ closed' = "internal error: nothing to resume"
         /\ UNCHANGED <<client, agent, toServer>>
    ELSE /\ client' = [c EXCEPT !.received = 0, !.code = "", !.torn = @ \/ c.busy]
         /\ toServer' = Append(toServer, Requested(c.waiting, c.blocks[c.idx], Last(c.blocks)))
         /\ agent' = "resumed" /\ UNCHANGED closed

(* check_end                                                               *)
CheckEnd(c) ==
    IF c.code = "" \/ c.queue # <<>>
    THEN client' = c /\ UNCHANGED <<agent, toServer, closed>>
    ELSE OnStreamEnd(c, c.code)

(* fails: the run ends, and the stream is stopped, unless it was a resumed *)
(* one, whose error nothing catches.                                       *)
Fails(c) ==
    IF c.fired
    THEN client' = c /\ UNCHANGED <<agent, toServer, closed>>
    ELSE /\ client' = [c EXCEPT !.fired = TRUE]
         /\ IF agent = "resumed"
            THEN closed' = "internal error: streaming error" /\ UNCHANGED <<agent, toServer>>
            ELSE /\ agent' = "idle"
                 /\ toServer' = Append(toServer, [type |-> "STOP-TRANSACTIONS-STREAMING"])
                 /\ UNCHANGED closed

(* handle_transaction                                                      *)
HandleTransaction(m) ==
    /\ m.type = "TRANSACTION"
    /\ IF ~client.exists
       THEN closed' = "error processing TRANSACTION" /\ UNCHANGED <<client, agent, toServer>>
       ELSE IF client.fired
       THEN UNCHANGED <<client, agent, toServer, closed>>
       ELSE IF client.received + 1 > Limit
       THEN Fails([client EXCEPT !.received = @ + 1])
       ELSE /\ client' = [client EXCEPT !.received = @ + 1, !.queue = Append(@, m.tx),
                                        !.scheduled = @ \/ ~client.busy]
            /\ UNCHANGED <<agent, toServer, closed>>
    /\ UNCHANGED stored

(* handle_transactions_end; the agent's state stays SYNCING_TRANSACTIONS   *)
(* until the next run.                                                     *)
HandleTransactionsEnd(m) ==
    /\ m.type = "TRANSACTIONS-END"
    /\ IF agent = "blocks"
       THEN /\ closed' = "not expecting TRANSACTIONS-END"
            /\ UNCHANGED <<client, agent, toServer>>
       ELSE IF ~client.exists \/ (~client.fired /\ client.code # "")
       THEN /\ closed' = "error processing TRANSACTIONS-END"
            /\ UNCHANGED <<client, agent, toServer>>
       ELSE IF client.fired
       THEN UNCHANGED <<client, agent, toServer, closed>>
       ELSE CheckEnd([client EXCEPT !.code = m.code])
    /\ UNCHANGED stored

(* handle_blocks of BlockchainStreamingClient, for one block: one that is  *)
(* known is skipped, one that can be validated in full is added,           *)
(* transactions will be requested for the others.                          *)
ReceiveBlock(r, b) ==
    IF b \in r.stored THEN r
    ELSE IF dag.deps[b] \subseteq r.stored THEN [r EXCEPT !.stored = @ \cup {b}]
    ELSE [r EXCEPT !.partial = Append(@, b)]

ReceiveBlocks(blocks) ==
    LET after[i \in 0 .. Len(blocks)] ==
            IF i = 0 THEN [stored |-> stored, partial |-> <<>>]
            ELSE ReceiveBlock(after[i - 1], blocks[i])
    IN after[Len(blocks)]

HandleBlocks(m) ==
    LET added == ReceiveBlocks(m.blocks).stored
        partial == ReceiveBlocks(m.blocks).partial
    IN /\ m.type = "BLOCKS"
       /\ stored' = added
       /\ orphans' = IF client.busy THEN orphans \cup {client} ELSE orphans
       /\ IF partial = <<>>
          THEN agent' = "idle" /\ client' = NoClient /\ UNCHANGED toServer
          ELSE /\ agent' = "txs"
               /\ client' = NewClient(partial, added)
               /\ toServer' = Append(toServer, Requested({}, Head(partial), Last(partial)))
       /\ UNCHANGED closed

ClientReceive ==
    /\ Open /\ toClient # <<>>
    /\ LET m == Head(toClient)
       IN \/ HandleTransaction(m) /\ UNCHANGED orphans
          \/ HandleTransactionsEnd(m) /\ UNCHANGED orphans
          \/ HandleBlocks(m)
    /\ toClient' = Tail(toClient)
    /\ UNCHANGED <<peerVars, others>>

(* The end of on_new_block and of _execute_and_prepare_next: the block is  *)
(* added, then those after it that need nothing more.                      *)
LastReady(c) ==
    LET deps(i) == dag.deps[c.blocks[i]]
        ready(j) == \A i \in c.idx + 1 .. j :
                        deps(i) \subseteq stored \cup {c.blocks[k] : k \in c.idx .. i - 1}
    IN CHOOSE j \in c.idx .. Len(c.blocks) :
           ready(j) /\ (j = Len(c.blocks) \/ ~ready(j + 1))

(* A mutant of AddNext: process_queue is not called again.                 *)
AddNextAndStop(c) ==
    LET todo == c.todo \ stored
        done == [c EXCEPT !.busy = FALSE, !.todo = {}, !.scheduled = FALSE]
        added == stored \cup {c.blocks[k] : k \in c.idx .. LastReady(c)}
    IN IF todo = {}
       THEN [stored |-> added, client |-> PrepareBlock(done, LastReady(c) + 1, added)]
       ELSE [stored |-> stored \cup {Min(todo)},
             client |-> [c EXCEPT !.busy = TRUE, !.todo = todo \ {Min(todo)}]]

(* on_new_block up to its next yield: the dependencies are added in the    *)
(* order of their timestamps, those that exist are skipped.                *)
AddNext(c) ==
    LET todo == c.todo \ stored
        done == [c EXCEPT !.busy = FALSE, !.todo = {}, !.scheduled = TRUE]
        added == stored \cup {c.blocks[k] : k \in c.idx .. LastReady(c)}
    IN IF todo = {}
       THEN [stored |-> added, client |-> PrepareBlock(done, LastReady(c) + 1, added)]
       ELSE [stored |-> stored \cup {Min(todo)},
             client |-> [c EXCEPT !.busy = TRUE, !.todo = todo \ {Min(todo)}]]

(* process_queue and _process_transaction, up to the first yield.          *)
ProcessQueue ==
    /\ Open /\ client.scheduled /\ ~client.busy
    /\ IF client.fired
       THEN /\ client' = [client EXCEPT !.scheduled = FALSE]
            /\ UNCHANGED <<stored, agent, toServer, closed>>
       ELSE IF client.queue = <<>>
       THEN CheckEnd([client EXCEPT !.scheduled = FALSE]) /\ UNCHANGED stored
       ELSE LET t == Head(client.queue)
                c == [client EXCEPT !.queue = Tail(@)]
                d == [UpdateDependencies([c EXCEPT !.waiting = @ \ {t}], t)
                        EXCEPT !.db = @ \cup {t}]
            IN IF t \notin c.waiting
               THEN /\ IF t \in c.db \cup c.existing
                       THEN /\ client' = UpdateDependencies(c, t)
                            /\ UNCHANGED <<agent, toServer, closed>>
                       ELSE Fails(c)
                    /\ UNCHANGED stored
               ELSE IF d.waiting # {}
               THEN client' = d /\ UNCHANGED <<stored, agent, toServer, closed>>
               ELSE LET r == AddNext([d EXCEPT !.todo = d.db])
                    IN /\ stored' = r.stored /\ client' = r.client
                       /\ UNCHANGED <<agent, toServer, closed>>
    /\ UNCHANGED <<peerVars, toClient, others, orphans>>

(* on_new_block resumes after a yield, for the current client or for one   *)
(* whose run is over.                                                      *)
ContinueBlock ==
    /\ Open /\ client.busy
    /\ stored' = AddNext(client).stored /\ client' = AddNext(client).client
    /\ UNCHANGED <<peerVars, wire, others, orphans, agent, closed>>

ContinueOrphan ==
    /\ Open
    /\ \E c \in orphans :
          LET r == AddNext(c)
          IN /\ stored' = r.stored
             /\ orphans' = (orphans \ {c}) \cup (IF r.client.busy THEN {r.client} ELSE {})
    /\ UNCHANGED <<peerVars, wire, others, client, agent, closed>>

(* LoopingCall calls run_sync again; there is something to sync.           *)
RunSync ==
    /\ Open /\ agent = "idle" /\ ~(ToSet(chain) \subseteq stored)
    /\ agent' = "blocks"
    /\ toServer' = Append(toServer, [type |-> "GET-NEXT-BLOCKS"])
    /\ UNCHANGED <<peerVars, toClient, stored, others, client, orphans, closed>>

(* Another peer's sync or relay adds a vertex.                             *)
OtherPeerAdds ==
    /\ Open
    /\ \E v \in others :
          /\ v \notin stored /\ dag.deps[v] \subseteq stored
          /\ stored' = stored \cup {v} /\ others' = others \ {v}
    /\ UNCHANGED <<peerVars, wire, client, orphans, agent, closed>>

Next == \/ ServerSend \/ ServerReceive \/ Reorg
        \/ ClientReceive \/ ProcessQueue \/ ContinueBlock \/ ContinueOrphan
        \/ RunSync \/ OtherPeerAdds

(* The reactors of both nodes run what is due; neither a re-org nor other  *)
(* peers are owed anything.                                                *)
Fairness ==
    /\ WF_vars(ServerSend) /\ WF_vars(ServerReceive) /\ WF_vars(ClientReceive)
    /\ WF_vars(ProcessQueue) /\ WF_vars(ContinueBlock) /\ WF_vars(ContinueOrphan)
    /\ WF_vars(RunSync)

Spec == Init /\ [][Next]_vars /\ Fairness

----------------------------------------------------------------------------
(* An undisturbed sync between two honest nodes (no other source of        *)
(* vertices, no re-org) is never taken for misbehaviour or an error, but   *)
(* for a stream that reaches its limit with its very last transaction,     *)
(* with more transactions to wait for than a request may name, or while a  *)
(* block is half added.                                                    *)
Undisturbed == dag.elsewhere = {} /\ dag.after = dag.before
HonestPeerIsKept ==
    Undisturbed /\ ~client.torn =>
        closed \in {"", "internal error: nothing to resume",
                    "too many transactions in GET-TRANSACTIONS-BFS"}

(* The sync ends: the client gets every block of the peer's best chain, or *)
(* the connection is closed.                                               *)
SyncEnds == <>(~Open \/ ToSet(chain) \subseteq stored)
=============================================================================
