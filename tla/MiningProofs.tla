---------------------------- MODULE MiningProofs ----------------------------
(***************************************************************************)
(* Proofs about the two services miners connect to.                        *)
(*                                                                         *)
(* The safety property of the merged mining coordinator, for any number    *)
(* of miners, pollers, templates, jobs and faults.                         *)
(*                                                                         *)
(* The safety property of the stratum server, for any number of miners,    *)
(* requests and transactions; the server shares no state with the          *)
(* coordinator and is the instance Stratum, with its own variables.        *)
(*                                                                         *)
(* Only the miners of the stratum server have to be finitely many.         *)
(***************************************************************************)
EXTENDS MergedMining, FiniteSetTheorems, WellFoundedInduction, TLAPS

CONSTANTS StratumMiners, BadAddress, Requests, TxChoices, MaxSoon
VARIABLES miner, txQueue, txPool, deferred, request, txOf

Stratum == INSTANCE Stratum WITH
    Miners <- StratumMiners, queue <- txQueue, pool <- txPool

\* The property of the stratum server.
INSTANCE StratumSafety WITH Miners <- StratumMiners

-----------------------------------------------------------------------------
(* The merged mining coordinator.                                          *)

Job == [btc : Nat, htr : Nat]
Coins == {"bitcoin", "hathor"}
Protocol == [on : BOOLEAN, sub : BOOLEAN, auth : BOOLEAN, jobs : Seq(Job),
             new : SUBSET (Job \X Nonces), kept : SUBSET (Job \X Nonces),
             counted : SUBSET (Job \X Nonces)]
Judged == {"accepted", "refused"}
PollerTask == [at : {"off", "polling", "received", "verifying"} \cup Judged,
               job : Job \cup {NoJob}, got : Nat \cup {None}]
HathorTask == [at : {"connecting", "waiting", "woken", "verifying", "dead"} \cup Judged,
               job : Job \cup {NoJob}, got : Nat \cup {None}]

\* The types of the coordinator's state and of what is in flight around it.
TypeOK ==
    /\ btc \in Nat /\ htr \in Nat
    /\ open \in BOOLEAN /\ wire \in Seq(Nat) /\ queue \in Nat \cup {None}
    /\ rpc \in BOOLEAN
    /\ btcJob \in Nat \cup {None} /\ htrJob \in Nat \cup {None}
    /\ merged \in Job \cup {NoJob}
    /\ pollers \in [Pollers -> PollerTask]
    /\ htask \in HathorTask
    /\ protocol \in [Miners -> Protocol]
    /\ lastHeight \in [bitcoin : Nat, hathor : Nat]
    /\ submitting \subseteq [coin : Coins, height : Nat]
    /\ faults \in Nat

(***************************************************************************)
(* A task that waits for a verdict, or has one, has a job; a task that was *)
(* sent a template has it; and neither is newer than the node's tip.       *)
(***************************************************************************)
GoodTask(task, tip) ==
    /\ task.at \in {"verifying"} \cup Judged => task.job \in Job
    /\ task.at \in {"woken", "received"} => task.got \in Nat
    /\ task.job.btc <= tip

GoodPoller(task, tip) == task \in PollerTask /\ GoodTask(task, tip) /\ task.got <= tip

TasksHaveWork ==
    /\ \A p \in Pollers : GoodPoller(pollers[p], btc)
    /\ GoodTask(htask, btc)

\* The coordinator never holds a Bitcoin template newer than the node's tip.
NothingFromTheFuture == merged.btc <= btc /\ btcJob <= btc

(***************************************************************************)
(* Without a Bitcoin RPC nothing asks for a verdict, and nothing needs to: *)
(* the dummy template is the only one there ever is, because no Bitcoin    *)
(* block is submitted.                                                     *)
(***************************************************************************)
DummyNeverChanges ==
    ~rpc => /\ btc = 0 /\ btcJob = 0
            /\ \A s \in submitting : s.coin = "hathor"

IInv ==
    /\ TypeOK
    /\ TasksHaveWork
    /\ NothingFromTheFuture
    /\ DummyNeverChanges
    /\ SharesAreRemembered
-----------------------------------------------------------------------------
(* The operators on a miner's protocol.                                    *)

\* A protocol that counts only shares it remembers.
Honest(p) == p \in Protocol /\ p.counted \subseteq Remembered(p)

\* Tables of jobs stay tables of jobs.
LEMMA TableOfJobs ==
    ASSUME NEW X, NEW q \in Seq(X), NEW x \in X
    PROVE  Append(q, x) \in Seq(X) /\ Tail(Append(q, x)) \in Seq(X)
<1>1. Append(q, x) \in Seq(X)
    OBVIOUS
<1>2. Len(Append(q, x)) = Len(q) + 1 /\ Len(q) \in Nat
    OBVIOUS
<1>3. Append(q, x) # <<>>
    BY <1>2
<1> QED
    BY <1>1, <1>3

\* job_request changes nothing but the table of jobs.
LEMMA RequestKeepsShares ==
    ASSUME NEW p, Honest(p), NEW job \in Job \cup {NoJob}
    PROVE  Honest(JobRequest(p, job))
<1>1. CASE job = NoJob
    BY <1>1 DEF JobRequest
<1>2. CASE job # NoJob
    <2>1. PICK q : q = IF Len(Append(p.jobs, job)) > MaxJobs THEN Tail(Append(p.jobs, job))
                       ELSE Append(p.jobs, job)
        OBVIOUS
    <2>2. q \in Seq(Job)
        BY <1>2, <2>1, TableOfJobs DEF Honest, Protocol
    <2>3. JobRequest(p, job) = [p EXCEPT !.jobs = q]
        BY <1>2, <2>1 DEF JobRequest
    <2> QED
        BY <2>2, <2>3 DEF Honest, Protocol, Remembered
<1> QED
    BY <1>1, <1>2

\* Moving the new shares to the kept ones forgets none.
LEMMA MoveKeepsShares ==
    ASSUME NEW p, Honest(p)
    PROVE  Honest(MoveNew(p))
BY DEF Honest, MoveNew, Protocol, Remembered

\* What a protocol starts with.
LEMMA FreshIsHonest == Honest(Off) /\ Honest([Off EXCEPT !.on = TRUE])
<1>1. <<>> \in Seq(Job)
    OBVIOUS
<1>2. Honest(Off)
    BY <1>1 DEF Off, Honest, Protocol, Remembered
<1>3. Honest([Off EXCEPT !.on = TRUE])
    BY <1>2 DEF Honest, Protocol, Remembered
<1> QED
    BY <1>2, <1>3

\* The parts of the invariant about the protocols, one miner at a time.
LEMMA OneByOne ==
    /\ IInv => \A m \in Miners : Honest(protocol[m])
    /\ (protocol \in [Miners -> Protocol] /\ SharesAreRemembered)
          <=> /\ protocol = [m \in Miners |-> protocol[m]]
              /\ \A m \in Miners : Honest(protocol[m])
BY DEF IInv, TypeOK, SharesAreRemembered, Honest

\* A step that changes the protocol of one miner.
LEMMA OneMinerChanges ==
    ASSUME IInv, NEW m \in Miners, NEW p, Honest(p), protocol' = [protocol EXCEPT ![m] = p]
    PROVE  protocol' \in [Miners -> Protocol] /\ SharesAreRemembered'
BY DEF IInv, TypeOK, SharesAreRemembered, Honest

\* update_jobs: the job becomes current and the subscribed miners get it.
LEMMA JobsAreUpdated ==
    ASSUME IInv, NEW job \in Job, UpdateJobs(job)
    PROVE  /\ merged' = job
           /\ protocol' \in [Miners -> Protocol] /\ SharesAreRemembered'
<1>1. \A m \in Miners : Honest(protocol[m]) /\ Honest(JobRequest(protocol[m], job))
    BY OneByOne, RequestKeepsShares
<1>2. \A m \in Miners : Honest(protocol'[m])
    BY <1>1 DEF UpdateJobs
<1>3. DOMAIN protocol' = Miners /\ protocol' = [m \in Miners |-> protocol'[m]]
    BY DEF UpdateJobs
<1> QED
    BY <1>2, <1>3 DEF UpdateJobs, SharesAreRemembered, Honest

-----------------------------------------------------------------------------
(* Each step preserves the invariant.                                      *)

\* The coordinator starts with nothing stored, taken or remembered.
LEMMA InitHolds == Init => IInv
<1> SUFFICES ASSUME Init PROVE IInv
    OBVIOUS
<1>0. NoJob \in Job \cup {NoJob} /\ None \in Nat \cup {None} /\ <<>> \in Seq(Nat)
    OBVIOUS
<1>a. /\ pollers \in [Pollers -> PollerTask] /\ htask \in HathorTask
      /\ TasksHaveWork
    BY <1>0 DEF Init, Idle, Judged, PollerTask, HathorTask, TasksHaveWork, GoodPoller, GoodTask,
           NoJob, None
<1>b. protocol \in [Miners -> Protocol]
    BY FreshIsHonest DEF Init, Honest
<1>1. TypeOK
    BY <1>0, <1>a, <1>b DEF Init, TypeOK
<1>2. NothingFromTheFuture /\ DummyNeverChanges
    BY DEF Init, NothingFromTheFuture, DummyNeverChanges, None, NoJob
<1>3. SharesAreRemembered
    BY DEF Init, SharesAreRemembered, Off, Remembered
<1> QED
    BY <1>a, <1>1, <1>2, <1>3 DEF IInv

\* What a step keeps that leaves the protocols alone.
LEMMA SharesUnchanged ==
    ASSUME IInv, protocol' = protocol
    PROVE  protocol' \in [Miners -> Protocol] /\ SharesAreRemembered'
BY DEF IInv, TypeOK, SharesAreRemembered

\* A task stays good when the tip moves on.
LEMMA TipMoves ==
    ASSUME TypeOK, TasksHaveWork, btc' \in Nat, btc' >= btc
    PROVE  (\A p \in Pollers : GoodPoller(pollers[p], btc')) /\ GoodTask(htask, btc')
<1>1. /\ \A p \in Pollers : pollers[p].job.btc \in Int /\ pollers[p].got \in Int
      /\ htask.job.btc \in Int /\ btc \in Int /\ btc' \in Int
    BY DEF TypeOK, PollerTask, HathorTask, Job, NoJob, None
<1> QED
    BY <1>1 DEF TasksHaveWork, GoodPoller, GoodTask

\* A step that changes one poller.
LEMMA OnePollerChanges ==
    ASSUME IInv, NEW p \in Pollers, NEW t, GoodPoller(t, btc), btc' = btc,
           pollers' = [pollers EXCEPT ![p] = t]
    PROVE  /\ pollers' \in [Pollers -> PollerTask]
           /\ \A q \in Pollers : GoodPoller(pollers'[q], btc')
<1>1. pollers \in [Pollers -> PollerTask] /\ \A q \in Pollers : GoodPoller(pollers[q], btc)
    BY DEF IInv, TypeOK, TasksHaveWork
<1>2. t \in PollerTask
    BY DEF GoodPoller
<1> QED
    BY <1>1, <1>2

\* Tasks that ask about nothing.
LEMMA IdleTasks ==
    ASSUME IInv
    PROVE  /\ GoodPoller(Idle, btc) /\ GoodPoller([Idle EXCEPT !.at = "polling"], btc)
           /\ \A at \in {"connecting", "waiting", "dead"} :
                 [Idle EXCEPT !.at = at] \in HathorTask /\ GoodTask([Idle EXCEPT !.at = at], btc)
<1>1. btc \in Nat
    BY DEF IInv, TypeOK
<1> QED
    BY <1>1 DEF Idle, GoodPoller, GoodTask, PollerTask, HathorTask, Judged, NoJob, None

\* A task that asks about a job.
LEMMA AskingTasks ==
    ASSUME IInv, NEW job \in Job, job.btc <= btc
    PROVE  /\ GoodPoller([Idle EXCEPT !.at = "verifying", !.job = job], btc)
           /\ [Idle EXCEPT !.at = "verifying", !.job = job] \in HathorTask
           /\ GoodTask([Idle EXCEPT !.at = "verifying", !.job = job], btc)
<1>1. btc \in Nat /\ None <= btc
    BY DEF IInv, TypeOK, None
<1>2. PICK u : u = [Idle EXCEPT !.at = "verifying"]
    OBVIOUS
<1>3. u \in PollerTask /\ u \in HathorTask /\ u.at = "verifying" /\ u.got = None
    BY <1>2 DEF Idle, PollerTask, HathorTask
<1>4. PICK t : t = [u EXCEPT !.job = job]
    OBVIOUS
<1>5. t \in PollerTask /\ t \in HathorTask /\ t.at = "verifying" /\ t.job = job /\ t.got = None
    BY <1>3, <1>4 DEF PollerTask, HathorTask
<1>6. GoodTask(t, btc)
    BY <1>5 DEF GoodTask
<1> QED
    BY <1>1, <1>2, <1>4, <1>5, <1>6 DEF GoodPoller

\* The Hathor task takes a template: with an RPC it waits for the verdict,
\* without one it publishes the dummy template again.
LEMMA TakeTemplateStep ==
    ASSUME IInv, NEW t \in Nat, TakeTemplate(t), queue' = None,
           UNCHANGED <<node, open, wire, rpc, btcJob, pollers, work, faults>>
    PROVE  IInv'
<1> DEFINE job == BuildJob(btcJob, t)
<1>1. job # NoJob => job \in Job /\ job.btc = btcJob /\ job.btc <= btc
    BY DEF BuildJob, IInv, TypeOK, Job, NoJob, None, NothingFromTheFuture
<1>2. htask' \in HathorTask /\ GoodTask(htask', btc)
    BY <1>1, IdleTasks, AskingTasks DEF TakeTemplate
<1>3. \/ UNCHANGED <<merged, protocol>>
      \/ job # NoJob /\ UpdateJobs(job)
    BY DEF TakeTemplate
<1>4. /\ merged' \in Job \cup {NoJob} /\ merged'.btc <= btc
      /\ protocol' \in [Miners -> Protocol] /\ SharesAreRemembered'
    <2>1. CASE UNCHANGED <<merged, protocol>>
        BY <2>1, SharesUnchanged DEF IInv, TypeOK, NothingFromTheFuture
    <2>2. CASE job # NoJob /\ UpdateJobs(job)
        BY <1>1, <2>2, JobsAreUpdated
    <2> QED
        BY <1>3, <2>1, <2>2
<1>5. TypeOK'
    BY <1>2, <1>4 DEF TakeTemplate, IInv, TypeOK, node, work
<1>6. (TasksHaveWork /\ NothingFromTheFuture /\ DummyNeverChanges)'
    BY <1>2, <1>4 DEF IInv, TasksHaveWork, NothingFromTheFuture, DummyNeverChanges, node, work
<1> QED
    BY <1>4, <1>5, <1>6 DEF IInv

\* A task resumes with its verdict: the job it asked about becomes current,
\* however old it is by now.
LEMMA FinishStep ==
    ASSUME IInv, NEW task, task.at \in Judged, GoodTask(task, btc), Finish(task)
    PROVE  /\ merged' \in Job \cup {NoJob} /\ merged'.btc <= btc
           /\ protocol' \in [Miners -> Protocol] /\ SharesAreRemembered'
<1>1. CASE task.at = "accepted"
    <2>1. task.job \in Job /\ task.job.btc <= btc /\ UpdateJobs(task.job)
        BY <1>1 DEF GoodTask, Judged, Finish
    <2> QED
        BY <2>1, JobsAreUpdated
<1>2. CASE task.at # "accepted"
    BY <1>2, SharesUnchanged DEF Finish, IInv, TypeOK, NothingFromTheFuture
<1> QED
    BY <1>1, <1>2

\* The tasks of the coordinator.
LEMMA CoordinatorStep ==
    ASSUME IInv, Coordinator
    PROVE  IInv'
<1>1. CASE HandleNotify
    <2>1. Head(wire) \in Nat /\ Tail(wire) \in Seq(Nat)
        BY <1>1 DEF HandleNotify, IInv, TypeOK
    <2>2. htask' \in HathorTask /\ GoodTask(htask', btc)
        BY <1>1, <2>1 DEF HandleNotify, IInv, TypeOK, HathorTask, TasksHaveWork, GoodTask, Judged
    <2>3. TypeOK'
        BY <1>1, <2>1, <2>2 DEF HandleNotify, IInv, TypeOK, node, work
    <2>4. (TasksHaveWork /\ NothingFromTheFuture /\ DummyNeverChanges)'
        BY <1>1, <2>2 DEF HandleNotify, IInv, TasksHaveWork,
               NothingFromTheFuture, DummyNeverChanges, node, work
    <2> QED
        BY <1>1, <2>3, <2>4, SharesUnchanged DEF HandleNotify, IInv
<1>2. CASE Wake
    <2>1. htask.got \in Nat
        BY <1>2 DEF Wake, IInv, TasksHaveWork, GoodTask
    <2> QED
        BY <1>2, <2>1, TakeTemplateStep DEF Wake
<1>3. CASE NextTemplate
    BY <1>3, TakeTemplateStep DEF NextTemplate, IInv, TypeOK
<1>4. CASE Connect
    <2>1. wire' \in Seq(Nat)
        BY <1>4 DEF Connect, IInv, TypeOK
    <2>2. htask' \in HathorTask /\ GoodTask(htask', btc)
        BY <1>4 DEF Connect, IInv, TypeOK, HathorTask, TasksHaveWork, GoodTask, Judged
    <2>3. TypeOK'
        BY <1>4, <2>1, <2>2 DEF Connect, IInv, TypeOK, node, work
    <2>4. (TasksHaveWork /\ NothingFromTheFuture /\ DummyNeverChanges)'
        BY <1>4, <2>2 DEF Connect, IInv, TasksHaveWork, NothingFromTheFuture,
               DummyNeverChanges, node, work
    <2> QED
        BY <1>4, <2>3, <2>4, SharesUnchanged DEF Connect, IInv
<1>5. CASE HathorVerified
    <2>1. htask.at \in Judged /\ GoodTask(htask, btc) /\ Finish(htask)
        BY <1>5 DEF HathorVerified, IInv, TasksHaveWork, Judged
    <2>2. /\ merged' \in Job \cup {NoJob} /\ merged'.btc <= btc
          /\ protocol' \in [Miners -> Protocol] /\ SharesAreRemembered'
        BY <2>1, FinishStep
    <2>3. htask' \in HathorTask /\ GoodTask(htask', btc)
        BY <1>5, IdleTasks DEF HathorVerified
    <2>4. TypeOK'
        BY <1>5, <2>2, <2>3 DEF HathorVerified, IInv, TypeOK, node, channel, work
    <2>5. (TasksHaveWork /\ NothingFromTheFuture /\ DummyNeverChanges)'
        BY <1>5, <2>2, <2>3 DEF HathorVerified, IInv, TasksHaveWork, NothingFromTheFuture,
               DummyNeverChanges, node, work
    <2> QED
        BY <2>2, <2>4, <2>5 DEF IInv
<1>6. ASSUME NEW p \in Pollers, PollAnswer(p)
      PROVE  IInv'
    <2> DEFINE got == pollers[p].got
               job == BuildJob(got, htrJob)
    <2>0. got \in Nat /\ got <= btc
        BY <1>6 DEF PollAnswer, IInv, TasksHaveWork, GoodPoller, GoodTask
    <2>1. job # NoJob => job \in Job /\ job.btc <= btc
        BY <2>0 DEF BuildJob, IInv, TypeOK, Job, NoJob, None
    <2>2. /\ btc' = btc /\ btcJob' = got
          /\ \/ pollers' = [pollers EXCEPT ![p] = [Idle EXCEPT !.at = "polling"]]
             \/ /\ job # NoJob
                /\ pollers' = [pollers EXCEPT ![p] = [Idle EXCEPT !.at = "verifying", !.job = job]]
        BY <1>6 DEF PollAnswer, node
    <2>3. /\ pollers' \in [Pollers -> PollerTask]
          /\ \A q \in Pollers : GoodPoller(pollers'[q], btc')
        BY <2>1, <2>2, OnePollerChanges, IdleTasks, AskingTasks
    <2>4. TypeOK'
        BY <1>6, <2>0, <2>3 DEF PollAnswer, IInv, TypeOK, node, channel, work
    <2>a. rpc' = rpc /\ (~rpc => btcJob' = 0)
        BY <1>6, <2>0, <2>2 DEF PollAnswer, IInv, TypeOK, DummyNeverChanges
    <2>5. (TasksHaveWork /\ NothingFromTheFuture /\ DummyNeverChanges)'
        BY <1>6, <2>0, <2>2, <2>3, <2>a DEF PollAnswer, IInv, TasksHaveWork, NothingFromTheFuture,
               DummyNeverChanges, node, work
    <2> QED
        BY <1>6, <2>4, <2>5, SharesUnchanged DEF PollAnswer, IInv
<1>7. ASSUME NEW p \in Pollers, PollerVerified(p)
      PROVE  IInv'
    <2>1. pollers[p].at \in Judged /\ GoodTask(pollers[p], btc) /\ Finish(pollers[p])
        BY <1>7 DEF PollerVerified, IInv, TasksHaveWork, GoodPoller, Judged
    <2>2. /\ merged' \in Job \cup {NoJob} /\ merged'.btc <= btc
          /\ protocol' \in [Miners -> Protocol] /\ SharesAreRemembered'
        BY <2>1, FinishStep
    <2>3. btc' = btc /\ pollers' = [pollers EXCEPT ![p] = [Idle EXCEPT !.at = "polling"]]
        BY <1>7 DEF PollerVerified, node
    <2>4. /\ pollers' \in [Pollers -> PollerTask]
          /\ \A q \in Pollers : GoodPoller(pollers'[q], btc')
        BY <2>3, OnePollerChanges, IdleTasks
    <2>5. TypeOK'
        BY <1>7, <2>2, <2>4 DEF PollerVerified, IInv, TypeOK, node, channel, work
    <2>6. (TasksHaveWork /\ NothingFromTheFuture /\ DummyNeverChanges)'
        BY <1>7, <2>2, <2>4 DEF PollerVerified, IInv, TasksHaveWork, NothingFromTheFuture,
               DummyNeverChanges, node, work
    <2> QED
        BY <2>2, <2>5, <2>6 DEF IInv
<1> QED
    BY <1>1, <1>2, <1>3, <1>4, <1>5, <1>6, <1>7 DEF Coordinator

\* A miner's call changes its protocol and may submit a block.
LEMMA MinerActs ==
    ASSUME IInv, Miner
    PROVE  /\ protocol' \in [Miners -> Protocol] /\ SharesAreRemembered'
           /\ submitting' \subseteq [coin : Coins, height : Nat]
           /\ ~rpc => \A s \in submitting' : s.coin = "hathor"
<1>0. /\ \A m \in Miners : Honest(protocol[m])
      /\ submitting \subseteq [coin : Coins, height : Nat]
      /\ ~rpc => \A s \in submitting : s.coin = "hathor"
    BY OneByOne DEF IInv, TypeOK, DummyNeverChanges
<1>1. ASSUME NEW m \in Miners, NEW p, Honest(p), protocol' = [protocol EXCEPT ![m] = p],
             submitting' = submitting
      PROVE  /\ protocol' \in [Miners -> Protocol] /\ SharesAreRemembered'
             /\ submitting' \subseteq [coin : Coins, height : Nat]
             /\ ~rpc => \A s \in submitting' : s.coin = "hathor"
    BY <1>0, <1>1, OneMinerChanges
<1>2. ASSUME NEW m \in Miners, ConnectionMade(m), submitting' = submitting
      PROVE  \E p : Honest(p) /\ protocol' = [protocol EXCEPT ![m] = p]
    BY <1>2, FreshIsHonest DEF ConnectionMade
<1>3. ASSUME NEW m \in Miners, HandleSubscribe(m), submitting' = submitting
      PROVE  \E p : Honest(p) /\ protocol' = [protocol EXCEPT ![m] = p]
    <2>1. Honest([protocol[m] EXCEPT !.sub = TRUE])
        BY <1>0 DEF Honest, Protocol, Remembered
    <2> QED
        BY <1>3, <2>1 DEF HandleSubscribe
<1>4. ASSUME NEW m \in Miners, HandleAuthorize(m), submitting' = submitting
      PROVE  \E p : Honest(p) /\ protocol' = [protocol EXCEPT ![m] = p]
    <2>1. Honest([protocol[m] EXCEPT !.auth = TRUE])
        BY <1>0 DEF Honest, Protocol, Remembered
    <2>2. merged \in Job \cup {NoJob}
        BY DEF IInv, TypeOK
    <2> QED
        BY <1>4, <2>1, <2>2, RequestKeepsShares DEF HandleAuthorize
<1>5. ASSUME NEW m \in Miners, ConnectionLost(m), submitting' = submitting
      PROVE  \E p : Honest(p) /\ protocol' = [protocol EXCEPT ![m] = p]
    BY <1>5, FreshIsHonest DEF ConnectionLost
<1>6. ASSUME NEW m \in Miners, Age(m), submitting' = submitting
      PROVE  \E p : Honest(p) /\ protocol' = [protocol EXCEPT ![m] = p]
    <2>1. PICK share : protocol' = [protocol EXCEPT ![m].counted = @ \ {share}]
        BY <1>6 DEF Age
    <2>2. Honest([protocol[m] EXCEPT !.counted = @ \ {share}])
        BY <1>0 DEF Honest, Protocol, Remembered
    <2> QED
        BY <2>1, <2>2
<1>7. ASSUME NEW m \in Miners, EstimatorLoop(m), submitting' = submitting
      PROVE  \E p : Honest(p) /\ protocol' = [protocol EXCEPT ![m] = p]
    <2>1. Honest([protocol[m] EXCEPT !.kept = @ \cap protocol[m].counted])
        BY <1>0 DEF Honest, Protocol, Remembered
    <2> QED
        BY <1>7, <2>1, MoveKeepsShares DEF EstimatorLoop
<1>8. ASSUME NEW m \in Miners, NEW n \in Nonces, NEW job \in Range(protocol[m].jobs),
             HandleSubmit(m, job, n)
      PROVE  /\ protocol' \in [Miners -> Protocol] /\ SharesAreRemembered'
             /\ submitting' \subseteq [coin : Coins, height : Nat]
             /\ ~rpc => \A s \in submitting' : s.coin = "hathor"
    <2> DEFINE share == <<job, n>>
               accepted == [protocol[m] EXCEPT !.new = @ \cup {share}, !.counted = @ \cup {share}]
    <2>1. job \in Job
        BY <1>0 DEF Honest, Protocol, Range
    <2>2. Honest(accepted) /\ Honest(MoveNew(accepted))
        <3>1. share \in Job \X Nonces
            BY <2>1
        <3>2. Honest(accepted)
            BY <1>0, <3>1 DEF Honest, Protocol, Remembered
        <3> QED
            BY <3>2, MoveKeepsShares
    <2>3. \E p : Honest(p) /\ protocol' = [protocol EXCEPT ![m] = p]
        BY <1>8, <2>2 DEF HandleSubmit
    <2>4. \A w \in Wins(job) : /\ w \in [coin : Coins, height : Nat]
                               /\ ~rpc => w.coin = "hathor"
        BY <2>1 DEF Wins, Job, Coins
    <2>5. submitting' = submitting \/ \E won \in SUBSET Wins(job) : submitting' = submitting \cup won
        BY <1>8 DEF HandleSubmit
    <2>6. submitting' \subseteq submitting \cup Wins(job)
        BY <2>5
    <2> QED
        BY <1>0, <2>3, <2>4, <2>6, OneMinerChanges
<1> QED
    BY <1>1, <1>2, <1>3, <1>4, <1>5, <1>6, <1>7, <1>8 DEF Miner, MinerStep

LEMMA MinerPreserves ==
    ASSUME IInv, Miner
    PROVE  IInv'
<1>1. /\ protocol' \in [Miners -> Protocol] /\ SharesAreRemembered'
      /\ submitting' \subseteq [coin : Coins, height : Nat]
      /\ ~rpc => \A s \in submitting' : s.coin = "hathor"
    BY MinerActs
<1>2. UNCHANGED <<btc, htr, open, wire, queue, rpc, btcJob, htrJob, merged, pollers, htask,
                  lastHeight, faults>>
    BY DEF Miner, node, channel
<1>3. TypeOK'
    BY <1>1, <1>2 DEF IInv, TypeOK
<1>4. (TasksHaveWork /\ NothingFromTheFuture /\ DummyNeverChanges)'
    BY <1>1, <1>2 DEF IInv, TasksHaveWork, NothingFromTheFuture, DummyNeverChanges
<1> QED
    BY <1>1, <1>2, <1>3, <1>4 DEF IInv

\* Calls that raise and channels that close.
LEMMA FaultStep ==
    ASSUME IInv, Faults
    PROVE  IInv'
<1>0. wire' = <<>> => wire' \in Seq(Nat)
    OBVIOUS
<1>1. CASE Close
    <2>0. open' \in BOOLEAN
        BY <1>1 DEF Close
    <2>a. wire' \in Seq(Nat)
        BY <1>0, <1>1 DEF Close
    <2>b. faults' \in Nat
        BY <1>1 DEF Close, IInv, TypeOK
    <2>1. TypeOK'
        BY <1>1, <2>0, <2>a, <2>b DEF Close, IInv, TypeOK, node, work
    <2>2. (TasksHaveWork /\ NothingFromTheFuture /\ DummyNeverChanges)'
        BY <1>1 DEF Close, IInv, TasksHaveWork, NothingFromTheFuture, DummyNeverChanges, node, work
    <2> QED
        BY <1>1, <2>1, <2>2, SharesUnchanged DEF Close, IInv
<1>2. ASSUME NEW p \in Pollers, PollerRaises(p)
      PROVE  IInv'
    <2>0. btc' = btc /\ pollers' = [pollers EXCEPT ![p] = Idle]
        BY <1>2 DEF PollerRaises, node
    <2>1. /\ pollers' \in [Pollers -> PollerTask]
          /\ \A q \in Pollers : GoodPoller(pollers'[q], btc')
        BY <2>0, OnePollerChanges, IdleTasks
    <2>2. TypeOK'
        BY <1>2, <2>1 DEF PollerRaises, IInv, TypeOK, node, channel, work
    <2>3. (TasksHaveWork /\ NothingFromTheFuture /\ DummyNeverChanges)'
        BY <1>2, <2>1 DEF PollerRaises, IInv, TasksHaveWork, NothingFromTheFuture,
               DummyNeverChanges, node, work
    <2> QED
        BY <1>2, <2>2, <2>3, SharesUnchanged DEF PollerRaises, IInv
<1>3. ASSUME NEW at \in {"connecting", "dead"}, HathorRaises(at)
      PROVE  IInv'
    <2>0. open' \in BOOLEAN
        BY <1>3 DEF HathorRaises
    <2>a. wire' \in Seq(Nat)
        BY <1>0, <1>3 DEF HathorRaises
    <2>b. faults' \in Nat
        BY <1>3 DEF HathorRaises, IInv, TypeOK
    <2>c. htask' \in HathorTask /\ GoodTask(htask', btc)
        BY <1>3, IdleTasks DEF HathorRaises
    <2>1. TypeOK'
        BY <1>3, <2>0, <2>a, <2>b, <2>c DEF HathorRaises, IInv, TypeOK, node, work
    <2>2. (TasksHaveWork /\ NothingFromTheFuture /\ DummyNeverChanges)'
        BY <1>3, <2>c DEF HathorRaises, IInv, TasksHaveWork, NothingFromTheFuture,
               DummyNeverChanges, node, work
    <2> QED
        BY <1>3, <2>1, <2>2, SharesUnchanged DEF HathorRaises, IInv
<1> QED
    BY <1>1, <1>2, <1>3 DEF Faults

\* A new template of the Hathor node.
LEMMA NewTemplate ==
    ASSUME IInv, NewHathorTemplate
    PROVE  htr' \in Nat /\ wire' \in Seq(Nat)
BY DEF NewHathorTemplate, Broadcast, IInv, TypeOK

LEMMA HathorNodeStep ==
    ASSUME IInv, HathorAdvances
    PROVE  IInv'
<1>1. TypeOK'
    BY NewTemplate DEF HathorAdvances, IInv, TypeOK, work
<1>2. (TasksHaveWork /\ NothingFromTheFuture /\ DummyNeverChanges)'
    BY DEF HathorAdvances, IInv, TasksHaveWork, NothingFromTheFuture, DummyNeverChanges, work
<1> QED
    BY <1>1, <1>2, SharesUnchanged DEF HathorAdvances, IInv

\* The Bitcoin node advances, which only moves its tip away from what the
\* coordinator has, and answers the calls of the tasks.
LEMMA BitcoinNodeStep ==
    ASSUME IInv, BitcoinNode
    PROVE  IInv'
<1>0. btc \in Nat
    BY DEF IInv, TypeOK
<1>1. CASE BitcoinAdvances
    <2>0. btc' \in Nat /\ btc' >= btc
        BY <1>0, <1>1 DEF BitcoinAdvances
    <2>1. TypeOK'
        BY <1>1, <2>0 DEF BitcoinAdvances, IInv, TypeOK, channel, work
    <2>2. TasksHaveWork'
        BY <1>1, <2>0, TipMoves DEF BitcoinAdvances, IInv, TasksHaveWork
    <2>3. (NothingFromTheFuture /\ DummyNeverChanges)'
        BY <1>1 DEF BitcoinAdvances, IInv, TypeOK, Job, NoJob, None,
               NothingFromTheFuture, DummyNeverChanges, work
    <2> QED
        BY <1>1, <2>1, <2>2, <2>3, SharesUnchanged DEF BitcoinAdvances, IInv
<1>2. CASE HathorJudged
    <2>1. htask' \in HathorTask /\ GoodTask(htask', btc)
        BY <1>2 DEF HathorJudged, Verdict, IInv, TypeOK, HathorTask, TasksHaveWork, GoodTask, Judged
    <2>2. TypeOK'
        BY <1>2, <2>1 DEF HathorJudged, IInv, TypeOK, node, channel, work
    <2>3. (TasksHaveWork /\ NothingFromTheFuture /\ DummyNeverChanges)'
        BY <1>2, <2>1 DEF HathorJudged, IInv, TasksHaveWork, NothingFromTheFuture,
               DummyNeverChanges, node, work
    <2> QED
        BY <1>2, <2>2, <2>3, SharesUnchanged DEF HathorJudged, IInv
<1>3. ASSUME NEW p \in Pollers, NEW t, GoodPoller(t, btc), pollers' = [pollers EXCEPT ![p] = t],
             UNCHANGED <<node, channel, rpc, btcJob, htrJob, merged, htask, protocol, work, faults>>
      PROVE  IInv'
    <2>1. /\ pollers' \in [Pollers -> PollerTask]
          /\ \A q \in Pollers : GoodPoller(pollers'[q], btc')
        BY <1>3, OnePollerChanges DEF node
    <2>2. TypeOK'
        BY <1>3, <2>1 DEF IInv, TypeOK, node, channel, work
    <2>3. (TasksHaveWork /\ NothingFromTheFuture /\ DummyNeverChanges)'
        BY <1>3, <2>1 DEF IInv, TasksHaveWork, NothingFromTheFuture, DummyNeverChanges, node, work
    <2> QED
        BY <1>3, <2>2, <2>3, SharesUnchanged DEF IInv
<1>4. ASSUME NEW p \in Pollers, TemplateSent(p)
      PROVE  IInv'
    <2>1. PICK u : u = [Idle EXCEPT !.at = "received"]
        OBVIOUS
    <2>2. u \in PollerTask /\ u.at = "received" /\ u.job = NoJob
        BY <2>1 DEF Idle, PollerTask
    <2>a. PICK t : t = [u EXCEPT !.got = btc]
        OBVIOUS
    <2>b. t \in PollerTask /\ t.at = "received" /\ t.job = NoJob /\ t.got = btc
        BY <1>0, <2>2, <2>a DEF PollerTask
    <2>3. NoJob.btc <= btc
        BY <1>0 DEF NoJob, None
    <2>4. GoodPoller(t, btc)
        BY <1>0, <2>3, <2>b DEF GoodPoller, GoodTask, Judged
    <2>5. pollers' = [pollers EXCEPT ![p] = t]
        BY <1>4, <2>1, <2>a DEF TemplateSent
    <2> QED
        BY <1>3, <1>4, <2>4, <2>5 DEF TemplateSent
<1>5. ASSUME NEW p \in Pollers, PollerJudged(p)
      PROVE  IInv'
    <2> DEFINE t == [pollers[p] EXCEPT !.at = Verdict(pollers[p].job)]
    <2>1. GoodPoller(pollers[p], btc) /\ pollers[p].at = "verifying"
        BY <1>5 DEF PollerJudged, IInv, TasksHaveWork
    <2>2. GoodPoller(t, btc)
        BY <2>1 DEF Verdict, GoodPoller, GoodTask, PollerTask, Judged
    <2>3. pollers' = [pollers EXCEPT ![p] = t]
        BY <1>5 DEF PollerJudged
    <2> QED
        BY <1>3, <1>5, <2>2, <2>3 DEF PollerJudged
<1> QED
    BY <1>1, <1>2, <1>4, <1>5 DEF BitcoinNode

\* The answer to a submitted block.
LEMMA SubmitStep ==
    ASSUME IInv, NEW s \in submitting, SubmitAnswered(s)
    PROVE  IInv'
<1>1. s.coin \in Coins /\ s.height \in Nat /\ s = [coin |-> s.coin, height |-> s.height]
    BY DEF IInv, TypeOK
<1>2. lastHeight' \in [bitcoin : Nat, hathor : Nat]
    BY <1>1 DEF SubmitAnswered, UpdateSubmitted, IInv, TypeOK, Coins
<1>3. htr' \in Nat /\ wire' \in Seq(Nat)
    BY NewTemplate DEF SubmitAnswered, IInv, TypeOK, node
<1>4. btc' \in Nat /\ btc' >= btc /\ (~rpc => btc' = btc)
    BY DEF SubmitAnswered, NewHathorTemplate, IInv, TypeOK, DummyNeverChanges, node
<1>5. /\ pollers' \in [Pollers -> PollerTask]
      /\ \A q \in Pollers : GoodPoller(pollers'[q], btc')
      /\ GoodTask(htask, btc')
    <2>0. (\A q \in Pollers : GoodPoller(pollers[q], btc')) /\ GoodTask(htask, btc')
        BY <1>4, TipMoves DEF IInv
    <2>1. CASE pollers' = pollers
        BY <2>0, <2>1 DEF IInv, TypeOK
    <2>2. ASSUME NEW p \in Pollers, pollers' = [pollers EXCEPT ![p].at = "polling"]
          PROVE  /\ pollers' \in [Pollers -> PollerTask]
                 /\ \A q \in Pollers : GoodPoller(pollers'[q], btc')
        <3> DEFINE t == [pollers[p] EXCEPT !.at = "polling"]
        <3>1. GoodPoller(t, btc')
            BY <2>0 DEF GoodPoller, GoodTask, PollerTask, Judged
        <3>2. pollers' = [pollers EXCEPT ![p] = t] /\ t \in PollerTask
            BY <2>2, <3>1 DEF GoodPoller
        <3> HIDE DEF t
        <3> QED
            BY <2>0, <3>1, <3>2 DEF IInv, TypeOK
    <2>3. pollers' = pollers \/ \E p \in Pollers : pollers' = [pollers EXCEPT ![p].at = "polling"]
        BY DEF SubmitAnswered
    <2> QED
        BY <2>0, <2>1, <2>2, <2>3
<1>6. /\ submitting' \subseteq submitting
      /\ UNCHANGED <<open, queue, rpc, btcJob, htrJob, merged, htask, protocol, faults>>
    BY DEF SubmitAnswered
<1>7. TypeOK'
    BY <1>2, <1>3, <1>4, <1>5, <1>6 DEF IInv, TypeOK
<1>8. TasksHaveWork' /\ DummyNeverChanges'
    BY <1>4, <1>5, <1>6 DEF IInv, TypeOK, TasksHaveWork, DummyNeverChanges
<1>9. NothingFromTheFuture'
    BY <1>4, <1>6 DEF IInv, TypeOK, Job, NoJob, None, NothingFromTheFuture
<1> QED
    BY <1>6, <1>7, <1>8, <1>9, SharesUnchanged DEF IInv

\* Every step keeps the invariant.
LEMMA NextHolds ==
    ASSUME IInv, [Next]_vars
    PROVE  IInv'
<1>1. CASE UNCHANGED vars
    <2>1. UNCHANGED <<btc, htr, open, wire, queue, rpc, btcJob, htrJob, merged, pollers, htask,
                      protocol, lastHeight, submitting, faults>>
        BY <1>1 DEF vars, node, channel, work
    <2> QED
        BY <2>1 DEF IInv, TypeOK, TasksHaveWork, NothingFromTheFuture,
               DummyNeverChanges, SharesAreRemembered
<1>2. CASE Next
    BY <1>2, CoordinatorStep, MinerPreserves, FaultStep, HathorNodeStep, BitcoinNodeStep,
       SubmitStep DEF Next
<1> QED
    BY <1>1, <1>2

-----------------------------------------------------------------------------
(***************************************************************************)
(* The invariant holds in every state: the coordinator never has a Bitcoin *)
(* template its node has not published, and without an RPC only the dummy. *)
(***************************************************************************)
THEOREM Invariance == Spec => []IInv
<1>1. IInv /\ [Next]_vars => IInv'
    BY NextHolds
<1> QED
    BY <1>1, InitHolds, PTL DEF Spec

(***************************************************************************)
(* No share is paid twice within the estimator's window: whatever the      *)
(* order of submissions, bursts, expiry and runs of estimator_loop, an     *)
(* accepted share is in _submitted_work or _new_submitted_work.            *)
(***************************************************************************)
THEOREM NoShareIsPaidTwice == Spec => []SharesAreRemembered
<1>1. IInv => SharesAreRemembered
    BY DEF IInv
<1> QED
    BY <1>1, Invariance, PTL

-----------------------------------------------------------------------------
(* The stratum server.                                                     *)

StratumTxs == {f[r] : f \in TxChoices, r \in Requests}
StratumWork == StratumTxs \cup {Stratum!Block}
StratumJob == [work : StratumWork, fresh : BOOLEAN, submitted : BOOLEAN]
StratumMiner ==
    [link : {"open", "closing", "closed"}, listed : BOOLEAN, txs : BOOLEAN,
     job : StratumJob, timer : BOOLEAN, soon : Nat]

\* NoIdleMiner for one miner.
HasWork(k) ==
    k.listed /\ k.link = "open" => (~k.job.submitted /\ k.timer) \/ k.soon > 0

\* What update_jobs keeps of all the miners.
AllBusy(ms) ==
    /\ ms \in [StratumMiners -> StratumMiner]
    /\ \A m \in StratumMiners : HasWork(ms[m])

StratumInv ==
    /\ AllBusy(miner)
    /\ txQueue \in Seq(StratumTxs)
    /\ txOf \in TxChoices

(* A new job replaces the timeout of the old one.                          *)
LEMMA NewJobFact ==
  ASSUME NEW k \in StratumMiner, NEW w \in StratumWork
  PROVE  /\ Stratum!NewJob(k, w) \in StratumMiner
         /\ HasWork(Stratum!NewJob(k, w))
<1> DEFINE j == [work |-> w, fresh |-> TRUE, submitted |-> FALSE]
<1>1. j \in StratumJob
  BY DEF StratumJob
<1>2. PICK i \in StratumJob : i = j
  BY <1>1
<1>3. ~i.submitted
  BY <1>2
<1>4. Stratum!NewJob(k, w) = [k EXCEPT !.job = i, !.timer = TRUE]
  BY <1>2 DEF Stratum!NewJob
<1> HIDE DEF j
<1>5. [k EXCEPT !.job = i, !.timer = TRUE] \in StratumMiner
  BY DEF StratumMiner
<1>6. /\ [k EXCEPT !.job = i, !.timer = TRUE].job = i
      /\ [k EXCEPT !.job = i, !.timer = TRUE].timer = TRUE
  BY DEF StratumMiner
<1> QED
  BY <1>3, <1>4, <1>5, <1>6 DEF HasWork

(* A queued transaction or a block.                                        *)
LEMMA WorkForFact ==
  ASSUME NEW k \in StratumMiner, NEW q \in Seq(StratumTxs)
  PROVE  Stratum!WorkFor(k, q) \in StratumWork
<1>1. q # <<>> => Head(q) \in StratumTxs
  OBVIOUS
<1> QED
  BY <1>1 DEF Stratum!WorkFor, StratumWork

(* Making a job stale takes no job away.                                   *)
LEMMA MakeStaleFact ==
  ASSUME NEW ms, AllBusy(ms), NEW m \in StratumMiners, NEW w, NEW changed \in BOOLEAN
  PROVE  AllBusy(Stratum!MakeStale(ms, m, w, changed))
<1> DEFINE st == Stratum!MakeStale(ms, m, w, changed)
<1>1. \A x \in StratumMiners :
        /\ [ms[x] EXCEPT !.job.fresh = FALSE] \in StratumMiner
        /\ HasWork([ms[x] EXCEPT !.job.fresh = FALSE])
  <2> SUFFICES ASSUME NEW x \in StratumMiners
               PROVE  /\ [ms[x] EXCEPT !.job.fresh = FALSE] \in StratumMiner
                      /\ HasWork([ms[x] EXCEPT !.job.fresh = FALSE])
    OBVIOUS
  <2>1. PICK k \in StratumMiner : k = ms[x] /\ HasWork(k)
    BY DEF AllBusy
  <2>a. PICK i \in StratumJob : i = k.job
    BY DEF StratumMiner
  <2>b. [i EXCEPT !.fresh = FALSE] \in StratumJob
        /\ [i EXCEPT !.fresh = FALSE].submitted = i.submitted
    BY DEF StratumJob
  <2>2. PICK j \in StratumJob : j = [k.job EXCEPT !.fresh = FALSE]
                                /\ j.submitted = k.job.submitted
    BY <2>a, <2>b
  <2>3. [k EXCEPT !.job.fresh = FALSE] = [k EXCEPT !.job = j]
    BY <2>2 DEF StratumMiner
  <2>4. [k EXCEPT !.job = j] \in StratumMiner /\ HasWork([k EXCEPT !.job = j])
    BY <2>1, <2>2 DEF StratumMiner, HasWork
  <2> QED
    BY <2>1, <2>3, <2>4
<1>2. st = [x \in StratumMiners |->
              IF changed /\ w # Stratum!Block /\ x # m /\ ms[x].job.work = w
              THEN [ms[x] EXCEPT !.job.fresh = FALSE] ELSE ms[x]]
  BY DEF Stratum!MakeStale
<1>3. PICK ss : ss = st
  OBVIOUS
<1> HIDE DEF st
<1>4. AllBusy(ss)
  BY <1>1, <1>2, <1>3 DEF AllBusy
<1> QED
  BY <1>3, <1>4 DEF st

(* Whether it finds work or closes the connection, a job request leaves    *)
(* every miner busy, the one it is for whatever its state was.             *)
LEMMA JobRequestFact ==
  ASSUME NEW ms \in [StratumMiners -> StratumMiner], NEW m \in StratumMiners,
         \A x \in StratumMiners \ {m} : HasWork(ms[x]),
         NEW q \in Seq(StratumTxs), NEW changed \in BOOLEAN
  PROVE  AllBusy(Stratum!JobRequest(ms, m, q, changed))
<1> DEFINE w == Stratum!WorkFor(ms[m], q)
           st == Stratum!MakeStale(ms, m, w, changed)
<1>1. w \in StratumWork
  BY WorkForFact
<1>2. ASSUME w = Stratum!Block /\ m \in BadAddress
      PROVE  AllBusy(Stratum!JobRequest(ms, m, q, changed))
  <2>a. PICK o \in StratumMiner : o = ms[m]
    OBVIOUS
  <2>b. PICK l \in {"closing", "closed"} : l = IF o.link = "open" THEN "closing" ELSE o.link
    BY DEF StratumMiner
  <2>c. [o EXCEPT !.timer = FALSE, !.link = l] \in StratumMiner
        /\ [o EXCEPT !.timer = FALSE, !.link = l].link = l
    BY DEF StratumMiner
  <2>1. PICK k \in StratumMiner :
          k = [o EXCEPT !.timer = FALSE, !.link = l] /\ k.link # "open"
    BY <2>c
  <2>2. Stratum!JobRequest(ms, m, q, changed) = [ms EXCEPT ![m] = k]
    BY <1>2, <2>1, <2>a, <2>b DEF Stratum!JobRequest, Stratum!Refused
  <2>3. HasWork(k)
    BY <2>1 DEF HasWork
  <2> QED
    BY <2>2, <2>3 DEF AllBusy
<1>3. ASSUME ~(w = Stratum!Block /\ m \in BadAddress)
      PROVE  AllBusy(Stratum!JobRequest(ms, m, q, changed))
  <2>1. PICK k : k = Stratum!NewJob(ms[m], w)
    OBVIOUS
  <2>2. k \in StratumMiner /\ HasWork(k)
    BY <1>1, <2>1, NewJobFact
  <2>3. PICK bs : bs = [ms EXCEPT ![m] = k]
    OBVIOUS
  <2>4. AllBusy(bs)
    BY <2>2, <2>3 DEF AllBusy
  <2>5. PICK cs : cs = Stratum!MakeStale(bs, m, w, changed)
    OBVIOUS
  <2>6. AllBusy(cs)
    BY <2>4, <2>5, MakeStaleFact
  <2>7. cs[m] = k
    BY <2>3, <2>5 DEF Stratum!MakeStale
  <2>8. \A x \in StratumMiners \ {m} : st[x] = cs[x]
    BY <2>3, <2>5 DEF Stratum!MakeStale
  <2>9. st[m] = ms[m] /\ DOMAIN st = StratumMiners
    BY DEF Stratum!MakeStale
  <2>10. Stratum!JobRequest(ms, m, q, changed) = [st EXCEPT ![m] = Stratum!NewJob(st[m], w)]
    BY <1>3 DEF Stratum!JobRequest
  <2>11. [st EXCEPT ![m] = Stratum!NewJob(st[m], w)] = cs
    <3>1. cs = [x \in StratumMiners |-> cs[x]]
      BY <2>5 DEF Stratum!MakeStale
    <3>2. st = [x \in StratumMiners |-> st[x]]
      BY DEF Stratum!MakeStale
    <3> HIDE DEF st, w
    <3> QED
      BY <2>1, <2>7, <2>8, <2>9, <3>1, <3>2
  <2> QED
    BY <2>6, <2>10, <2>11
<1> QED
  BY <1>2, <1>3

(* Sets of numbers have a least element: the proofs by induction below go  *)
(* by a least counterexample.                                              *)
LEMMA Least ==
  ASSUME NEW S, S \subseteq Nat, S # {}
  PROVE  \E x \in S : \A y \in S : x <= y
<1>1. PICK x \in S : \A y \in S : ~ (<<y, x>> \in OpToRel(<, Nat))
  BY WFMin, NatLessThanWellFounded
<1>2. ASSUME NEW y \in S PROVE x <= y
  <2>1. x \in Nat /\ y \in Nat
    OBVIOUS
  <2>2. ~ (<<y, x>> \in {ss \in Nat \X Nat : ss[1] < ss[2]})
    BY <1>1 DEF OpToRel
  <2> QED BY <2>1, <2>2
<1> QED BY <1>2

(* The states of the miners during update_jobs.                            *)
Served(f, i, ms, order, q, changed) ==
    IF i = 0 THEN ms
    ELSE IF f[i - 1][order[i]].listed
    THEN Stratum!JobRequest(f[i - 1], order[i], q, changed)
    ELSE f[i - 1]
IsUpdate(f, n, ms, order, q, changed) ==
    f = [i \in 0 .. n |-> Served(f, i, ms, order, q, changed)]

LEMMA UpdateExists ==
  ASSUME NEW ms, NEW order, NEW q, NEW changed, NEW n \in Nat
  PROVE  \E f : IsUpdate(f, n, ms, order, q, changed)
<1> DEFINE U(f, i) == IsUpdate(f, i, ms, order, q, changed)
           R(f, i) == Served(f, i, ms, order, q, changed)
           S == {i \in Nat : ~ \E f : U(f, i)}
<1>1. SUFFICES ASSUME S # {} PROVE FALSE
  OBVIOUS
<1>2. PICK i \in S : \A j \in S : i <= j
  BY <1>1, Least
<1>3. i \in Nat /\ ~ \E f : U(f, i)
  OBVIOUS
<1>4. CASE i = 0
  <2> DEFINE g == [k \in 0 .. 0 |-> ms]
  <2>1. \A k \in 0 .. 0 : R(g, k) = ms
    BY DEF Served
  <2>2. U(g, 0)
    BY <2>1 DEF IsUpdate
  <2> QED BY <1>3, <1>4, <2>2
<1>5. CASE i # 0
  <2>1. i - 1 \in Nat /\ i - 1 \notin S
    BY <1>2, <1>3, <1>5
  <2>2. PICK f : U(f, i - 1)
    BY <2>1
  <2> DEFINE g == [k \in 0 .. i |-> IF k = i THEN R(f, i) ELSE f[k]]
  <2>3. \A k \in 0 .. i - 1 : f[k] = R(f, k)
    BY <1>3, <1>5, <2>2 DEF IsUpdate
  <2>4. \A k \in 0 .. i : R(g, k) = R(f, k)
    <3>1. \A k \in 0 .. i : k # 0 => k - 1 \in 0 .. i /\ k - 1 # i
      BY <1>3, <1>5
    <3>2. \A k \in 0 .. i : k # 0 => g[k - 1] = f[k - 1]
      BY <3>1
    <3> HIDE DEF g
    <3> QED BY <3>2 DEF Served
  <2>5. \A k \in 0 .. i : g[k] = R(g, k)
    <3>1. \A k \in 0 .. i : k # i => k \in 0 .. i - 1
      BY <1>3, <1>5
    <3> HIDE DEF R
    <3>2. \A k \in 0 .. i : g[k] = R(f, k)
      BY <2>3, <3>1
    <3> HIDE DEF g
    <3> QED BY <2>4, <3>2
  <2>6. U(g, i)
    <3>1. g = [k \in 0 .. i |-> g[k]]
      OBVIOUS
    <3> HIDE DEF g
    <3> QED BY <2>5, <3>1 DEF IsUpdate
  <2> QED BY <1>3, <2>6
<1> QED BY <1>4, <1>5

(* update_jobs, one miner of the dict after the other.                     *)
LEMMA UpdateJobsFact ==
  ASSUME NEW ms, AllBusy(ms), NEW order \in Seq(StratumMiners),
         NEW q \in Seq(StratumTxs), NEW changed \in BOOLEAN
  PROVE  AllBusy(Stratum!UpdateJobs(ms, order, q, changed))
<1> DEFINE n == Len(order)
           after == CHOOSE g : IsUpdate(g, n, ms, order, q, changed)
<1>0. n \in Nat
  OBVIOUS
<1>1. Stratum!UpdateJobs(ms, order, q, changed) = after[n]
  BY DEF Stratum!UpdateJobs, IsUpdate, Served
<1>2. IsUpdate(after, n, ms, order, q, changed)
  BY <1>0, UpdateExists
<1>3. PICK f : f = after
  OBVIOUS
<1> HIDE DEF after
<1>4. \A i \in 0 .. n : f[i] = Served(f, i, ms, order, q, changed)
  BY <1>2, <1>3 DEF IsUpdate
<1> DEFINE S == {i \in 0 .. n : ~ AllBusy(f[i])}
<1>5. ASSUME S # {} PROVE FALSE
  <2>1. S \subseteq Nat
    OBVIOUS
  <2>2. PICK i \in S : \A j \in S : i <= j
    BY <1>5, <2>1, Least
  <2>3. i \in 0 .. n /\ ~ AllBusy(f[i])
    OBVIOUS
  <2>4. i # 0
    BY <1>4, <2>3 DEF Served
  <2>5. i - 1 \in 0 .. n /\ i \in 1 .. n /\ i - 1 \notin S
    BY <1>0, <2>2, <2>3, <2>4
  <2>6. PICK bs : bs = f[i - 1] /\ AllBusy(bs)
    BY <2>5
  <2>7. PICK m \in StratumMiners : m = order[i]
    BY <2>5
  <2>8. f[i] = IF bs[m].listed THEN Stratum!JobRequest(bs, m, q, changed) ELSE bs
    BY <1>4, <2>3, <2>4, <2>6, <2>7 DEF Served
  <2>9. AllBusy(Stratum!JobRequest(bs, m, q, changed))
    BY <2>6, JobRequestFact DEF AllBusy
  <2> QED BY <2>3, <2>6, <2>8, <2>9
<1>6. n \in 0 .. n /\ n \notin S
  BY <1>0, <1>5
<1> QED
  BY <1>1, <1>3, <1>6

(* tx_queue without the first occurrence of a transaction.                 *)
LEMMA RemoveFirstFact ==
  ASSUME NEW q \in Seq(StratumTxs), NEW t
  PROVE  Stratum!RemoveFirst(q, t) \in Seq(StratumTxs)
<1> DEFINE I == {i \in 1 .. Len(q) : q[i] = t}
<1>1. ASSUME I # {} PROVE \E i \in 1 .. Len(q) : i = Stratum!Min(I)
  <2>1. I \subseteq Nat
    OBVIOUS
  <2>2. \E x \in I : \A y \in I : x <= y
    BY <1>1, <2>1, Least
  <2>3. Stratum!Min(I) \in I
    BY <2>2 DEF Stratum!Min
  <2> QED BY <2>3
<1>2. ASSUME NEW i \in 1 .. Len(q) PROVE Stratum!RemoveAt(q, i) \in Seq(StratumTxs)
  <2>1. SubSeq(q, 1, i - 1) \in Seq(StratumTxs) /\ SubSeq(q, i + 1, Len(q)) \in Seq(StratumTxs)
    OBVIOUS
  <2> QED BY <2>1 DEF Stratum!RemoveAt
<1> QED
  BY <1>1, <1>2 DEF Stratum!RemoveFirst, Stratum!SelectInSeq

(* A transaction of a request is one that can be queued.                   *)
LEMMA TxOfFact ==
  ASSUME txOf \in TxChoices, NEW r \in Requests
  PROVE  txOf[r] \in StratumTxs
BY DEF StratumTxs

LEMMA StratumInitHolds == Stratum!Init => StratumInv
<1> SUFFICES ASSUME Stratum!Init PROVE StratumInv
  OBVIOUS
<1>1. Stratum!NoJob \in StratumJob
  BY DEF Stratum!NoJob, StratumJob, StratumWork
<1>2. PICK k : k = Stratum!Newcomer
  OBVIOUS
<1>3. k \in StratumMiner
  BY <1>1, <1>2 DEF Stratum!Newcomer, StratumMiner
<1>4. HasWork(k)
  BY <1>2 DEF Stratum!Newcomer, HasWork
<1>5. AllBusy(miner)
  BY <1>2, <1>3, <1>4 DEF Stratum!Init, AllBusy
<1>6. <<>> \in Seq(StratumTxs)
  OBVIOUS
<1> QED
  BY <1>5, <1>6 DEF Stratum!Init, StratumInv

(* The steps of one miner's connection.                                    *)
LEMMA StratumMinerStep ==
  ASSUME StratumInv, NEW m \in StratumMiners, NEW txs \in BOOLEAN, NEW changed \in BOOLEAN,
         \/ Stratum!Subscribe(m, txs, changed) \/ Stratum!SubscribeRefused(m)
         \/ Stratum!ConnectionLost(m)
         \/ Stratum!RequestSoon(m, changed) \/ Stratum!JobTimeout(m, changed)
  PROVE  StratumInv'
<1>0. PICK k \in StratumMiner : k = miner[m] /\ HasWork(k)
  BY DEF StratumInv, AllBusy
<1>1. miner \in [StratumMiners -> StratumMiner] /\ txQueue \in Seq(StratumTxs)
      /\ \A x \in StratumMiners : HasWork(miner[x])
  BY DEF StratumInv, AllBusy
<1>2. UNCHANGED <<txQueue, txOf>>
  BY DEF Stratum!Subscribe, Stratum!SubscribeRefused, Stratum!ConnectionLost,
         Stratum!RequestSoon, Stratum!JobTimeout, Stratum!factory
<1>3. SUFFICES AllBusy(miner')
  BY <1>2 DEF StratumInv
<1>4. ASSUME NEW j \in StratumMiner
      PROVE  AllBusy(Stratum!JobRequest([miner EXCEPT ![m] = j], m, txQueue, changed))
  <2>1. PICK ms : ms = [miner EXCEPT ![m] = j]
    OBVIOUS
  <2>2. ms \in [StratumMiners -> StratumMiner] /\ \A x \in StratumMiners \ {m} : HasWork(ms[x])
    BY <1>1, <2>1
  <2> QED BY <1>1, <2>1, <2>2, JobRequestFact
<1>5. ASSUME NEW j \in StratumMiner, HasWork(j)
      PROVE  AllBusy([miner EXCEPT ![m] = j])
  BY <1>1, <1>5 DEF AllBusy
<1>6. CASE Stratum!Subscribe(m, txs, changed)
  <2>1. [k EXCEPT !.txs = txs, !.listed = TRUE] \in StratumMiner
    BY DEF StratumMiner
  <2> QED BY <1>0, <1>4, <1>6, <2>1 DEF Stratum!Subscribe
<1>7. CASE Stratum!SubscribeRefused(m)
  <2>1. [k EXCEPT !.link = "closing"] \in StratumMiner
        /\ HasWork([k EXCEPT !.link = "closing"])
    BY DEF StratumMiner, HasWork
  <2> QED BY <1>0, <1>5, <1>7, <2>1 DEF Stratum!SubscribeRefused
<1>8. CASE Stratum!ConnectionLost(m)
  <2>1. [k EXCEPT !.link = "closed", !.listed = FALSE] \in StratumMiner
        /\ HasWork([k EXCEPT !.link = "closed", !.listed = FALSE])
    BY DEF StratumMiner, HasWork
  <2> QED BY <1>0, <1>5, <1>8, <2>1 DEF Stratum!ConnectionLost
<1>9. CASE Stratum!RequestSoon(m, changed)
  <2>0. k.soon - 1 \in Nat
    BY <1>0, <1>9 DEF StratumMiner, Stratum!RequestSoon
  <2>1. [k EXCEPT !.soon = k.soon - 1] \in StratumMiner
    BY <2>0 DEF StratumMiner
  <2> QED BY <1>0, <1>4, <1>9, <2>1 DEF Stratum!RequestSoon
<1>10. CASE Stratum!JobTimeout(m, changed)
  <2>1. [k EXCEPT !.timer = FALSE] \in StratumMiner
    BY DEF StratumMiner
  <2>2. [k EXCEPT !.timer = FALSE].listed = k.listed
        /\ [k EXCEPT !.timer = FALSE].link = k.link
        /\ [k EXCEPT !.timer = FALSE].job = k.job
        /\ [k EXCEPT !.timer = FALSE].soon = k.soon
    BY DEF StratumMiner
  <2>3. CASE ~k.job.submitted /\ k.listed
    BY <1>0, <1>4, <1>10, <2>1, <2>3 DEF Stratum!JobTimeout
  <2>4. CASE ~(~k.job.submitted /\ k.listed)
    <3>1. HasWork([k EXCEPT !.timer = FALSE])
      BY <1>0, <2>2, <2>4 DEF HasWork
    <3> QED BY <1>0, <1>5, <1>10, <2>1, <2>4, <3>1 DEF Stratum!JobTimeout
  <2> QED BY <2>3, <2>4
<1> QED
  BY <1>6, <1>7, <1>8, <1>9, <1>10

(* A solution takes the job away and schedules the request of another one. *)
LEMMA StratumSubmitStep ==
  ASSUME StratumInv, NEW m \in StratumMiners, NEW full \in BOOLEAN, Stratum!Submit(m, full)
  PROVE  StratumInv'
<1>0. PICK k \in StratumMiner : k = miner[m]
  BY DEF StratumInv, AllBusy
<1>1. miner \in [StratumMiners -> StratumMiner]
      /\ \A x \in StratumMiners : HasWork(miner[x])
  BY DEF StratumInv, AllBusy
<1>2. PICK i \in StratumJob : i = k.job
  BY DEF StratumMiner
<1>3. PICK j \in StratumJob : j = [k.job EXCEPT !.submitted = TRUE]
  <2>1. [i EXCEPT !.submitted = TRUE] \in StratumJob
    BY DEF StratumJob
  <2> QED BY <1>2, <2>1
<1>4. k.soon \in Nat /\ k.soon + 1 \in Nat
  BY DEF StratumMiner
<1>5. PICK l : l = [k EXCEPT !.job = j, !.soon = k.soon + 1]
  OBVIOUS
<1>6. l \in StratumMiner
  BY <1>4, <1>5 DEF StratumMiner
<1>7. HasWork(l)
  BY <1>4, <1>5 DEF StratumMiner, HasWork
<1>8. miner' = [miner EXCEPT ![m] = l]
  BY <1>0, <1>1, <1>3, <1>5 DEF Stratum!Submit, StratumMiner
<1>9. AllBusy(miner')
  BY <1>1, <1>6, <1>7, <1>8 DEF AllBusy
<1>10. txQueue' \in Seq(StratumTxs) /\ txOf' = txOf
  BY RemoveFirstFact DEF Stratum!Submit, Stratum!Solved, Stratum!factory, StratumInv
<1> QED
  BY <1>9, <1>10 DEF StratumInv

(* The order of the dict miner_protocols is a sequence of miners.          *)
LEMMA OrdersFact ==
  ASSUME Stratum!StratumAssumption, NEW order \in Stratum!Orders
  PROVE  order \in Seq(StratumMiners)
<1>1. Stratum!Cardinality(StratumMiners) = Cardinality(StratumMiners)
  BY DEF Stratum!Cardinality, Cardinality
<1>2. IsFiniteSet(StratumMiners)
  BY DEF Stratum!StratumAssumption, Stratum!IsFiniteSet, IsFiniteSet
<1>3. Cardinality(StratumMiners) \in Nat
  BY <1>2, FS_CardinalityType
<1>4. PICK n \in Nat : n = Stratum!Cardinality(StratumMiners)
  BY <1>1, <1>3
<1>5. order \in [1 .. n -> StratumMiners]
  BY <1>4 DEF Stratum!Orders, Stratum!SetToSeqs
<1> QED
  BY <1>5

(* The steps that give every miner a new job.                              *)
LEMMA StratumUpdateStep ==
  ASSUME Stratum!StratumAssumption, StratumInv, NEW order \in Stratum!Orders, NEW changed \in BOOLEAN,
         NEW r \in Requests \cup {0},
         \/ Stratum!OnNewBlock(order, changed)
         \/ r \in Requests /\ Stratum!SendTokens(r, order, changed)
         \/ r \in Requests /\ Stratum!ResponseFailed(r, order, changed)
  PROVE  StratumInv'
<1>1. order \in Seq(StratumMiners)
  BY OrdersFact
<1>2. txQueue \in Seq(StratumTxs) /\ txOf \in TxChoices /\ AllBusy(miner)
  BY DEF StratumInv
<1>3. txOf' = txOf
  BY DEF Stratum!OnNewBlock, Stratum!SendTokens, Stratum!ResponseFailed
<1>4. txQueue' \in Seq(StratumTxs)
  <2>1. CASE Stratum!OnNewBlock(order, changed)
    BY <1>2, <2>1 DEF Stratum!OnNewBlock, Stratum!factory
  <2>2. CASE r \in Requests /\ Stratum!SendTokens(r, order, changed)
    <3>1. txOf[r] \in StratumTxs
      BY <1>2, <2>2, TxOfFact
    <3> QED BY <1>2, <2>2, <3>1 DEF Stratum!SendTokens
  <2>3. CASE r \in Requests /\ Stratum!ResponseFailed(r, order, changed)
    BY <1>2, <2>3, RemoveFirstFact DEF Stratum!ResponseFailed, Stratum!CleanupStratum
  <2> QED BY <2>1, <2>2, <2>3
<1>5. miner' = Stratum!UpdateJobs(miner, order, txQueue, changed)
      \/ miner' = Stratum!UpdateJobs(miner, order, txQueue', changed)
  BY DEF Stratum!OnNewBlock, Stratum!SendTokens, Stratum!ResponseFailed
<1>6. AllBusy(miner')
  BY <1>1, <1>2, <1>4, <1>5, UpdateJobsFact
<1> QED
  BY <1>2, <1>3, <1>4, <1>6 DEF StratumInv

LEMMA StratumNextHolds ==
  ASSUME Stratum!StratumAssumption, StratumInv, [Stratum!Next]_(Stratum!vars)
  PROVE  StratumInv'
<1>1. CASE UNCHANGED Stratum!vars
  BY <1>1 DEF StratumInv, AllBusy, Stratum!vars, Stratum!factory
<1>2. ASSUME NEW r \in Requests, Stratum!StratumTimeout(r)
      PROVE  StratumInv'
  BY <1>2 DEF StratumInv, AllBusy, Stratum!StratumTimeout
<1>3. CASE Stratum!Next
  BY <1>2, <1>3, StratumMinerStep, StratumSubmitStep, StratumUpdateStep DEF Stratum!Next
<1> QED
  BY <1>1, <1>3

(***************************************************************************)
(* No subscribed miner of the stratum server is left without work: through *)
(* submits, timeouts, new blocks, refused addresses, resubscriptions and   *)
(* transactions that enter and leave the queue in any order, it has an     *)
(* open job whose timeout will renew it or a job_request on its way.       *)
(***************************************************************************)
THEOREM NoMinerIsIdle ==
  ASSUME Stratum!StratumAssumption PROVE Stratum!Spec => []NoIdleMiner
<1>1. StratumInv /\ [Stratum!Next]_(Stratum!vars) => StratumInv'
  BY StratumNextHolds
<1>2. StratumInv => NoIdleMiner
  BY DEF StratumInv, AllBusy, HasWork, NoIdleMiner
<1> QED
  BY <1>1, <1>2, StratumInitHolds, PTL DEF Stratum!Spec
=============================================================================
