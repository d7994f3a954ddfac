------------------------------ MODULE Stratum ------------------------------
(***************************************************************************)
(* The stratum server of the node: StratumProtocol and StratumFactory      *)
(* (hathor/stratum/stratum.py), and the requests of SendTokensResource     *)
(* (hathor/wallet/resources/thin_wallet/send_tokens.py) whose transactions *)
(* the miners solve.                                                       *)
(*                                                                         *)
(* Of a job we keep what it mines, whether that content is still what the  *)
(* server would check a nonce against, and whether it was submitted.  Job  *)
(* ids and the JOBS_HISTORY older jobs only tell STALE_JOB and             *)
(* JOB_NOT_FOUND apart; both are answers that change nothing.              *)
(***************************************************************************)
EXTENDS Naturals, FiniteSets, SequencesExt

CONSTANTS
    Miners,     \* connections of miners
    BadAddress, \* the miners whose address is of another network
    Requests,   \* POSTs to send_tokens
    TxChoices,  \* what they ask for: a set of [Requests -> funds hash]
    MaxSoon     \* bound: job requests scheduled for one miner

VARIABLES
    miner,      \* per connection: the StratumProtocol
    queue,      \* StratumFactory.tx_queue
    pool,       \* keys of mining_tx_pool
    deferred,   \* deferreds_tx: a set of requests
    request,    \* where each request is
    txOf        \* the transaction of each request

\* Connections are finitely many.
StratumAssumption == IsFiniteSet(Miners)

factory == <<queue, pool, deferred, request>>
vars == <<miner, factory, txOf>>

\* What the server promises.
INSTANCE StratumSafety

Block == "block"
NoJob == [work |-> Block, fresh |-> FALSE, submitted |-> TRUE]

(* link     "closing" after loseConnection()                               *)
(* listed   in factory.miner_protocols                                     *)
(* txs      mine_txs                                                       *)
(* timer    timeoutTask of the current job is active                       *)
(* soon     pending callLater(0, job_request)                              *)
Newcomer ==
    [link |-> "open", listed |-> FALSE, txs |-> FALSE,
     job |-> NoJob, timer |-> FALSE, soon |-> 0]

Init ==
    /\ miner = [m \in Miners |-> Newcomer]
    /\ queue = <<>>
    /\ pool = {}
    /\ deferred = {}
    /\ request = [r \in Requests |-> "none"]
    /\ txOf \in TxChoices

----------------------------------------------------------------------------
(* Jobs.  The transaction object is shared by all the jobs that mine it:   *)
(* create_job_tx gives it a new timestamp and new parents, unless they     *)
(* happen to come out the same.                                            *)

WorkFor(k, q) == IF k.txs /\ q # <<>> THEN Head(q) ELSE Block

MakeStale(ms, m, work, changed) ==
    [x \in Miners |->
       IF changed /\ work # Block /\ x # m /\ ms[x].job.work = work
       THEN [ms[x] EXCEPT !.job.fresh = FALSE] ELSE ms[x]]

(* create_job: the timeout of the old job is cancelled before the new job  *)
(* gets its own.                                                           *)
NewJob(k, work) ==
    [k EXCEPT !.job = [work |-> work, fresh |-> TRUE, submitted |-> FALSE],
              !.timer = TRUE]

Refused(k) ==
    [k EXCEPT !.timer = FALSE, !.link = IF @ = "open" THEN "closing" ELSE @]

(* job_request.  A block cannot be paid to an address of another network:  *)
(* the INVALID_PARAMS error closes the connection, after the old timeout   *)
(* was cancelled.                                                          *)
JobRequest(ms, m, q, changed) ==
    LET work == WorkFor(ms[m], q)
        fails == work = Block /\ m \in BadAddress
    IN IF fails
       THEN [ms EXCEPT ![m] = Refused(@)]
       ELSE [MakeStale(ms, m, work, changed) EXCEPT ![m] = NewJob(@, work)]

(* update_jobs, in the order of the miner_protocols dict.                  *)
Orders == SetToSeqs(Miners)

UpdateJobs(ms, order, q, changed) ==
    LET after[i \in 0 .. Len(order)] ==
            IF i = 0 THEN ms
            ELSE IF after[i - 1][order[i]].listed
            THEN JobRequest(after[i - 1], order[i], q, changed)
            ELSE after[i - 1]
    IN after[Len(order)]

----------------------------------------------------------------------------
(* Requests of miners.  Until the node is synced they are answered         *)
(* NODE_SYNCING, which changes nothing.                                    *)

(* handle_subscribe                                                        *)
Subscribe(m, txs, changed) ==
    /\ miner[m].link = "open"
    /\ miner' = JobRequest([miner EXCEPT ![m] = [@ EXCEPT !.txs = txs, !.listed = TRUE]],
                           m, queue, changed)
    /\ UNCHANGED <<factory, txOf>>

(* An undecodable address, or merged_mining with mine_txs.                 *)
SubscribeRefused(m) ==
    /\ miner[m].link = "open"
    /\ miner' = [miner EXCEPT ![m].link = "closing"]
    /\ UNCHANGED <<factory, txOf>>

(* A transaction solved in full leaves the pool and the queue, and the     *)
(* deferred of its request is called.  The callback is registered as       *)
(* _stratum_deferred_resolve(tx, request) but takes one context: it        *)
(* raises, so mined_txs keeps the transaction and nothing is answered;     *)
(* nothing else reads mined_txs, it is left out.                           *)
Solved(t) ==
    IF t \notin pool THEN UNCHANGED factory
    ELSE /\ pool' = pool \ {t}
         /\ queue' = RemoveFirst(queue, t)
         /\ deferred' = {r \in deferred : txOf[r] # t}
         /\ request' = [r \in Requests |->
                          IF r \in deferred /\ txOf[r] = t /\ request[r] = "waiting"
                          THEN "resolved" ELSE request[r]]

(* A mutant of Submit: no new job follows a solution.                     *)
SubmitForgetsMiner(m, full) ==
    /\ miner[m].link = "open" /\ miner[m].listed
    /\ ~miner[m].job.submitted /\ miner[m].job.fresh
    /\ miner[m].soon < MaxSoon
    /\ miner' = [miner EXCEPT ![m].job.submitted = TRUE,
                              ![m].soon = IF full THEN @ ELSE @ + 1]
    /\ IF full /\ miner[m].job.work # Block THEN Solved(miner[m].job.work)
       ELSE UNCHANGED factory
    /\ UNCHANGED txOf

(* handle_submit of a nonce that solves the current job: a share, or, with *)
(* the full weight, the vertex itself.  A solution of a job whose          *)
(* transaction was changed meanwhile is INVALID_SOLUTION.                  *)
Submit(m, full) ==
    /\ miner[m].link = "open" /\ miner[m].listed
    /\ ~miner[m].job.submitted /\ miner[m].job.fresh
    /\ miner[m].soon < MaxSoon
    /\ miner' = [miner EXCEPT ![m].job.submitted = TRUE, ![m].soon = @ + 1]
    /\ IF full /\ miner[m].job.work # Block THEN Solved(miner[m].job.work)
       ELSE UNCHANGED factory
    /\ UNCHANGED txOf

(* The job_request that handle_submit scheduled.                           *)
RequestSoon(m, changed) ==
    /\ miner[m].soon > 0
    /\ miner' = JobRequest([miner EXCEPT ![m].soon = @ - 1], m, queue, changed)
    /\ UNCHANGED <<factory, txOf>>

(* jobTimeout                                                              *)
JobTimeout(m, changed) ==
    LET k == [miner EXCEPT ![m].timer = FALSE]
    IN
    /\ miner[m].timer
    /\ miner' = IF ~miner[m].job.submitted /\ miner[m].listed
                THEN JobRequest(k, m, queue, changed) ELSE k
    /\ UNCHANGED <<factory, txOf>>

ConnectionLost(m) ==
    /\ miner[m].link \in {"open", "closing"}
    /\ miner' = [miner EXCEPT ![m] = [@ EXCEPT !.link = "closed", !.listed = FALSE]]
    /\ UNCHANGED <<factory, txOf>>

(* on_new_block, the stratum factory's subscription to accepted blocks.    *)
OnNewBlock(order, changed) ==
    /\ miner' = UpdateJobs(miner, order, queue, changed)
    /\ UNCHANGED <<factory, txOf>>

----------------------------------------------------------------------------
(* Requests to send tokens.                                                *)

(* _render_POST_stratum: mine_transaction refuses a twin of a transaction  *)
(* in the pool, whose deferred is then never called.                       *)
SendTokens(r, order, changed) ==
    /\ request[r] = "none"
    /\ request' = [request EXCEPT ![r] = "waiting"]
    /\ IF txOf[r] \in pool THEN UNCHANGED <<queue, pool, deferred>>
       ELSE /\ pool' = pool \cup {txOf[r]}
            /\ queue' = Append(queue, txOf[r])
            /\ deferred' = deferred \cup {r}
    /\ miner' = UpdateJobs(miner, order, queue', changed)
    /\ UNCHANGED txOf

(* _cleanup_stratum goes by the funds hash, whoever asked for it.          *)
CleanupStratum(t) ==
    /\ pool' = pool \ {t}
    /\ deferred' = {r \in deferred : txOf[r] # t}
    /\ queue' = RemoveFirst(queue, t)

(* _responseFailed: the HTTP client is gone before the answer.             *)
ResponseFailed(r, order, changed) ==
    /\ request[r] \in {"waiting", "timed_out", "resolved"}
    /\ request' = [request EXCEPT ![r] = "gone"]
    /\ CleanupStratum(txOf[r])
    /\ miner' = UpdateJobs(miner, order, queue', changed)
    /\ UNCHANGED txOf

(* The deferred times out.  _stratum_timeout is bound to a request and a   *)
(* tx but takes a context: the call raises before it does anything.        *)
StratumTimeout(r) ==
    /\ request[r] = "waiting"
    /\ request' = [request EXCEPT ![r] = "timed_out"]
    /\ UNCHANGED <<miner, queue, pool, deferred, txOf>>

Next ==
    \/ \E m \in Miners, txs, changed \in BOOLEAN : Subscribe(m, txs, changed)
    \/ \E m \in Miners : SubscribeRefused(m) \/ ConnectionLost(m)
    \/ \E m \in Miners, full \in BOOLEAN : Submit(m, full)
    \/ \E m \in Miners, changed \in BOOLEAN : RequestSoon(m, changed) \/ JobTimeout(m, changed)
    \/ \E order \in Orders, changed \in BOOLEAN :
          \/ OnNewBlock(order, changed)
          \/ \E r \in Requests :
                SendTokens(r, order, changed) \/ ResponseFailed(r, order, changed)
    \/ \E r \in Requests : StratumTimeout(r)

Spec == Init /\ [][Next]_vars
=============================================================================
