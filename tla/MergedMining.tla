---------------------------- MODULE MergedMining ----------------------------
(***************************************************************************)
(* The merged mining coordinator (hathor/merged_mining/coordinator.py),    *)
(* its channel to the Hathor node (MiningChannel of hathor/client.py) and  *)
(* the node's end of it (hathor/mining/ws.py).                             *)
(*                                                                         *)
(* The coordinator is one asyncio process with two kinds of task: pollers  *)
(* that wait for Bitcoin templates, and one that waits for Hathor          *)
(* templates.  Each stores its template, builds a merged job from the two  *)
(* newest ones and AWAITS the Bitcoin node's verdict before it makes the   *)
(* job current and sends it to the miners; other tasks run in between.     *)
(* An action is what runs between two awaits.  The Bitcoin node answers a  *)
(* call when it gets it, and the task resumes with that answer later.      *)
(*                                                                         *)
(* A template is its version number: `btc' and `htr' count the versions    *)
(* the two nodes have published.  A job is the pair of versions it merges, *)
(* and a share is a job with a nonce (the hash of a block is that of its   *)
(* header).  Difficulty, the clean flag and payout scripts are left out.   *)
(***************************************************************************)
EXTENDS Integers, FiniteSets, Sequences, SequencesExt

CONSTANTS
    Miners,       \* miners that may connect
    Nonces,       \* the nonces a miner may submit for a job
    MaxBtc,       \* bound: Bitcoin template versions
    MaxHtr,       \* bound: Hathor template versions
    MaxJobs,      \* MAX_JOBS, the jobs a protocol keeps (150)
    Pollers,      \* bound: tasks that may run update_bitcoin_block
    MaxSubmitting,\* bound: block submissions in flight
    MaxShares,    \* bound: shares a protocol remembers
    MaxFaults     \* bound: RPC calls that raise, channels that close

None == -1

VARIABLES
    btc, htr,       \* the newest templates of the two nodes
    open,           \* the WebSocket of the coordinator's channel is open
    wire,           \* templates in flight on it
    queue,          \* MiningChannel._queue: its result, None while pending
    rpc,            \* the coordinator has a Bitcoin RPC
    btcJob, htrJob, \* bitcoin_coord_job and hathor_coord_job
    merged,         \* merged_job
    pollers,        \* the tasks that run update_bitcoin_block
    htask,          \* the task that runs update_hathor_block
    protocol,       \* per miner, its MergedMiningStratumProtocol
    lastHeight,     \* last_bitcoin_height_submitted, last_hathor_height_submitted
    submitting,     \* block submissions that wait for their answer
    faults

node == <<btc, htr>>
channel == <<open, wire, queue>>
work == <<lastHeight, submitting>>
vars == <<node, channel, rpc, btcJob, htrJob, merged, pollers, htask, protocol,
          work, faults>>

\* The properties, and when a share is a duplicate.
INSTANCE MergedMiningSafety

NoJob == [btc |-> None, htr |-> None]
Off == [on |-> FALSE, sub |-> FALSE, auth |-> FALSE, jobs |-> <<>>,
        new |-> {}, kept |-> {}, counted |-> {}]

\* A task that waits for nothing: `job' is the job it asks about, `got' the
\* template it was sent and has not looked at.
Idle == [at |-> "off", job |-> NoJob, got |-> None]

(***************************************************************************)
(* start(): with a Bitcoin RPC the poller starts, without one the Bitcoin  *)
(* side is a dummy template that never changes.                            *)
(***************************************************************************)
Init ==
    /\ btc = 0 /\ htr = 0
    /\ open = FALSE /\ wire = <<>> /\ queue = None
    /\ rpc \in BOOLEAN
    /\ btcJob = IF rpc THEN None ELSE 0
    /\ htrJob = None /\ merged = NoJob
    /\ pollers = [p \in Pollers |->
                     [Idle EXCEPT !.at = IF rpc /\ p = 1 THEN "polling" ELSE "off"]]
    /\ htask = [Idle EXCEPT !.at = "connecting"]
    /\ protocol = [m \in Miners |-> Off]
    /\ lastHeight = [bitcoin |-> 0, hathor |-> 0] /\ submitting = {}
    /\ faults = 0

-----------------------------------------------------------------------------
(***************************************************************************)
(* The miners' protocols.  job_request() appends to the table of jobs,     *)
(* which forgets the oldest beyond MAX_JOBS; with no merged job it answers *)
(* "node syncing".                                                         *)
(***************************************************************************)
Subscribed(m) == protocol[m].on /\ protocol[m].sub /\ protocol[m].auth

JobRequest(p, job) ==
    LET all == Append(p.jobs, job)
    IN IF job = NoJob THEN p
       ELSE [p EXCEPT !.jobs = IF Len(all) > MaxJobs THEN Tail(all) ELSE all]

\* update_jobs
UpdateJobs(job) ==
    /\ merged' = job
    /\ protocol' = [m \in Miners |-> IF Subscribed(m) THEN JobRequest(protocol[m], job)
                                     ELSE protocol[m]]

(***************************************************************************)
(* update_merged_block up to its await.  `bj' and `hj' are the templates   *)
(* the coordinator has now; the job is NoJob while one of them is missing. *)
(***************************************************************************)
BuildJob(bj, hj) == IF bj = None \/ hj = None THEN NoJob ELSE [btc |-> bj, htr |-> hj]

(***************************************************************************)
(* The Hathor task takes template t: it stores it and either waits for the *)
(* verdict on the new job, or (nothing to merge, or no Bitcoin RPC to ask) *)
(* goes back to __anext__.                                                 *)
(***************************************************************************)
TakeTemplate(t) ==
    LET job == BuildJob(btcJob, t)
    IN /\ htrJob' = t
       /\ IF job # NoJob /\ rpc
          THEN htask' = [Idle EXCEPT !.at = "verifying", !.job = job]
               /\ UNCHANGED <<merged, protocol>>
          ELSE htask' = [Idle EXCEPT !.at = "waiting"]
               /\ IF job # NoJob THEN UpdateJobs(job) ELSE UNCHANGED <<merged, protocol>>

(***************************************************************************)
(* MiningChannel.  A notification sets the pending future, or replaces a   *)
(* future that is already done.  If the task was waiting on the future it  *)
(* set, the task's wake-up is only SCHEDULED: until it runs, _queue is     *)
(* still that done future.                                                 *)
(***************************************************************************)
HandleNotify ==
    /\ open /\ wire # <<>>
    /\ wire' = Tail(wire)
    /\ IF htask.at = "waiting"
       THEN htask' = [htask EXCEPT !.at = "woken", !.got = Head(wire)] /\ UNCHANGED queue
       ELSE queue' = Head(wire) /\ UNCHANGED htask
    /\ UNCHANGED <<node, open, rpc, btcJob, htrJob, merged, pollers, protocol, work, faults>>

\* __anext__ returns what it was waiting for and, in its finally, starts a
\* new future: a notification that came before the wake-up is dropped.
Wake ==
    /\ htask.at = "woken"
    /\ TakeTemplate(htask.got)
    /\ queue' = None
    /\ UNCHANGED <<node, open, wire, rpc, btcJob, pollers, work, faults>>

\* The loop calls __anext__ again: a future that is done returns at once.
NextTemplate ==
    /\ htask.at = "waiting" /\ queue # None
    /\ TakeTemplate(queue)
    /\ queue' = None
    /\ UNCHANGED <<node, open, wire, rpc, btcJob, pollers, work, faults>>

\* update_hathor_block connects; the node's onOpen notifies if it can mine.
Connect ==
    /\ htask.at = "connecting"
    /\ htask' = [htask EXCEPT !.at = "waiting"]
    /\ open' = TRUE /\ queue' = None
    /\ \E canMine \in BOOLEAN : wire' = IF canMine THEN <<htr>> ELSE <<>>
    /\ UNCHANGED <<node, rpc, btcJob, htrJob, merged, pollers, protocol, work, faults>>

\* The WebSocket closes: the channel's task ends and leaves _queue pending.
Close ==
    /\ open /\ faults < MaxFaults
    /\ faults' = faults + 1
    /\ open' = FALSE /\ wire' = <<>>
    /\ UNCHANGED <<node, queue, rpc, btcJob, htrJob, merged, pollers, htask, protocol, work>>

-----------------------------------------------------------------------------
(***************************************************************************)
(* update_bitcoin_block: a poller asks for a template, which the node      *)
(* answers with its newest one, and takes it when the answer arrives (a    *)
(* failing call is retried after a pause and changes nothing).             *)
(***************************************************************************)
TemplateSent(p) ==
    /\ pollers[p].at = "polling"
    /\ pollers' = [pollers EXCEPT ![p] = [Idle EXCEPT !.at = "received", !.got = btc]]
    /\ UNCHANGED <<node, channel, rpc, btcJob, htrJob, merged, htask, protocol, work, faults>>

PollAnswer(p) ==
    LET job == BuildJob(pollers[p].got, htrJob)
    IN /\ pollers[p].at = "received"
       /\ btcJob' = pollers[p].got
       /\ pollers' = [pollers EXCEPT ![p] =
                         IF job = NoJob THEN [Idle EXCEPT !.at = "polling"]
                         ELSE [Idle EXCEPT !.at = "verifying", !.job = job]]
       /\ UNCHANGED <<node, channel, rpc, htrJob, merged, htask, protocol, work, faults>>

(***************************************************************************)
(* verify_block_proposal.  The Bitcoin node refuses a proposal that does   *)
(* not extend the tip it has when it answers ...                           *)
(***************************************************************************)
Verdict(job) == IF job.btc = btc THEN "accepted" ELSE "refused"

PollerJudged(p) ==
    /\ pollers[p].at = "verifying"
    /\ pollers' = [pollers EXCEPT ![p].at = Verdict(pollers[p].job)]
    /\ UNCHANGED <<node, channel, rpc, btcJob, htrJob, merged, htask, protocol, work, faults>>

HathorJudged ==
    /\ htask.at = "verifying"
    /\ htask' = [htask EXCEPT !.at = Verdict(htask.job)]
    /\ UNCHANGED <<node, channel, rpc, btcJob, htrJob, merged, pollers, protocol, work, faults>>

\* ... and when the task resumes update_merged_block finishes, or skips.
Finish(task) ==
    IF task.at = "accepted" THEN UpdateJobs(task.job) ELSE UNCHANGED <<merged, protocol>>

PollerVerified(p) ==
    /\ pollers[p].at \in {"accepted", "refused"}
    /\ Finish(pollers[p])
    /\ pollers' = [pollers EXCEPT ![p] = [Idle EXCEPT !.at = "polling"]]
    /\ UNCHANGED <<node, channel, rpc, btcJob, htrJob, htask, work, faults>>

HathorVerified ==
    /\ htask.at \in {"accepted", "refused"}
    /\ Finish(htask)
    /\ htask' = [Idle EXCEPT !.at = "waiting"]
    /\ UNCHANGED <<node, channel, rpc, btcJob, htrJob, pollers, work, faults>>

\* The call raises: in a poller nothing catches it and the task ends.
PollerRaises(p) ==
    /\ pollers[p].at = "verifying" /\ faults < MaxFaults
    /\ faults' = faults + 1
    /\ pollers' = [pollers EXCEPT ![p] = Idle]
    /\ UNCHANGED <<node, channel, rpc, btcJob, htrJob, merged, htask, protocol, work>>

\* In the Hathor task a ClientError makes it connect again, any other
\* exception (an RPCFailure) ends it.
HathorRaises(at) ==
    /\ htask.at = "verifying" /\ faults < MaxFaults
    /\ faults' = faults + 1
    /\ htask' = [Idle EXCEPT !.at = at]
    /\ open' = FALSE /\ wire' = <<>> /\ queue' = None
    /\ UNCHANGED <<node, rpc, btcJob, htrJob, merged, pollers, protocol, work>>

-----------------------------------------------------------------------------
(***************************************************************************)
(* A miner connects, subscribes, is authorized (which sends the job, even  *)
(* before the subscription) and leaves.  handle_subscribe sends no job.    *)
(***************************************************************************)
ConnectionMade(m) ==
    /\ ~protocol[m].on
    /\ protocol' = [protocol EXCEPT ![m] = [Off EXCEPT !.on = TRUE]]

HandleSubscribe(m) ==
    /\ protocol[m].on /\ ~protocol[m].sub
    /\ protocol' = [protocol EXCEPT ![m].sub = TRUE]

HandleAuthorize(m) ==
    /\ protocol[m].on /\ ~protocol[m].auth
    /\ protocol' = [protocol EXCEPT ![m] = JobRequest([@ EXCEPT !.auth = TRUE], merged)]

ConnectionLost(m) ==
    /\ protocol[m].on
    /\ protocol' = [protocol EXCEPT ![m] = Off]

(***************************************************************************)
(* handle_submit.  A share of a job the protocol still has is a duplicate  *)
(* if it is remembered in _submitted_work or _new_submitted_work.  A burst *)
(* of shares (whether there is one is left open) moves the new ones to the *)
(* old and is not forwarded; any other                                     *)
(* share may win a block of either coin, and is then submitted unless it   *)
(* is late.  `counted' holds the shares accepted within the estimator's    *)
(* window, for the time stamps.                                            *)
(***************************************************************************)
Late(coin, height) == height < lastHeight[coin]

Wins(job) ==
    LET won == {[coin |-> "bitcoin", height |-> job.btc], [coin |-> "hathor", height |-> job.htr]}
    IN {w \in won : ~Late(w.coin, w.height) /\ (w.coin = "bitcoin" => rpc)}

\* A mutant of MoveNew: the new shares are dropped.
MoveNewAway(p) == [p EXCEPT !.new = {}]

MoveNew(p) == [p EXCEPT !.kept = @ \cup p.new, !.new = {}]

HandleSubmit(m, job, nonce) ==
    LET p == protocol[m]
        share == <<job, nonce>>
        accepted == [p EXCEPT !.new = @ \cup {share}, !.counted = @ \cup {share}]
    IN /\ job \in Range(p.jobs)
       /\ share \notin Remembered(p)
       /\ Cardinality(Remembered(p)) < MaxShares
       /\ \/ /\ protocol' = [protocol EXCEPT ![m] = MoveNew(accepted)]
             /\ UNCHANGED submitting
          \/ /\ protocol' = [protocol EXCEPT ![m] = accepted]
             /\ \E won \in SUBSET Wins(job) :
                    /\ Cardinality(submitting \cup won) <= MaxSubmitting
                    /\ submitting' = submitting \cup won

\* A share gets older than the estimator's window.
Age(m) ==
    \E share \in protocol[m].counted :
        protocol' = [protocol EXCEPT ![m].counted = @ \ {share}]

\* estimator_loop: drops what is too old, then adds the new shares.
EstimatorLoop(m) ==
    LET p == protocol[m]
        pruned == [p EXCEPT !.kept = @ \cap p.counted]
    IN /\ p.auth /\ merged # NoJob
       /\ protocol' = [protocol EXCEPT ![m] = MoveNew(pruned)]

MinerStep ==
    /\ \E m \in Miners :
           \/ ConnectionMade(m) \/ HandleSubscribe(m) \/ HandleAuthorize(m) \/ ConnectionLost(m)
           \/ Age(m) \/ EstimatorLoop(m)
    /\ UNCHANGED submitting

Miner ==
    /\ MinerStep \/ \E m \in Miners, n \in Nonces :
                        \E job \in Range(protocol[m].jobs) : HandleSubmit(m, job, n)
    /\ UNCHANGED <<node, channel, rpc, btcJob, htrJob, merged, pollers, htask, lastHeight, faults>>

-----------------------------------------------------------------------------
(***************************************************************************)
(* The nodes.  The Hathor node notifies its channels when a vertex changes *)
(* the templates (a new version always differs from _last_broadcast) and   *)
(* manager.can_start_mining(), which may give either answer, lets it.      *)
(***************************************************************************)
Broadcast(t) ==
    \E canMine \in BOOLEAN : wire' = IF canMine /\ open THEN Append(wire, t) ELSE wire

NewHathorTemplate ==
    /\ htr < MaxHtr
    /\ htr' = htr + 1
    /\ Broadcast(htr + 1)

HathorAdvances ==
    /\ NewHathorTemplate
    /\ UNCHANGED <<btc, open, queue, rpc, btcJob, htrJob, merged, pollers,
                   htask, protocol, work, faults>>

BitcoinAdvances ==
    /\ rpc /\ btc < MaxBtc
    /\ btc' = btc + 1
    /\ UNCHANGED <<htr, channel, rpc, btcJob, htrJob, merged,
                   pollers, htask, protocol, work, faults>>

(***************************************************************************)
(* The answer to a submission: submit_to_hathor and submit_to_bitcoin      *)
(* after their await.  A raising call changes nothing.  A block Bitcoin    *)
(* accepts starts one more poller, inside the task that submitted it.      *)
(***************************************************************************)
UpdateSubmitted(s) ==
    lastHeight' = [lastHeight EXCEPT ![s.coin] = IF s.height > @ THEN s.height ELSE @]

SubmitAnswered(s) ==
    /\ submitting' = submitting \ {s}
    /\ \/ UNCHANGED <<lastHeight, node, wire, pollers>>
       \/ /\ UpdateSubmitted(s)
          /\ \/ UNCHANGED <<node, wire, pollers>>
             \/ /\ s.coin = "hathor" /\ s.height = htr
                /\ NewHathorTemplate
                /\ UNCHANGED <<btc, pollers>>
             \/ /\ s.coin = "bitcoin" /\ s.height = btc /\ btc < MaxBtc
                /\ btc' = btc + 1
                /\ pollers' = IF \A p \in Pollers : pollers[p].at # "off" THEN pollers
                              ELSE [pollers EXCEPT ![CHOOSE p \in Pollers : pollers[p].at = "off"].at
                                        = "polling"]
                /\ UNCHANGED <<htr, wire>>
    /\ UNCHANGED <<open, queue, rpc, btcJob, htrJob, merged, htask, protocol, faults>>

Coordinator ==
    \/ HandleNotify \/ Wake \/ NextTemplate \/ Connect \/ HathorVerified
    \/ \E p \in Pollers : PollAnswer(p) \/ PollerVerified(p)

BitcoinNode ==
    \/ BitcoinAdvances \/ HathorJudged
    \/ \E p \in Pollers : TemplateSent(p) \/ PollerJudged(p)

Faults ==
    \/ Close
    \/ \E p \in Pollers : PollerRaises(p)
    \/ \E at \in {"connecting", "dead"} : HathorRaises(at)

Next ==
    \/ Coordinator \/ Miner \/ Faults
    \/ HathorAdvances \/ BitcoinNode
    \/ \E s \in submitting : SubmitAnswered(s)

Spec == Init /\ [][Next]_vars
=============================================================================
