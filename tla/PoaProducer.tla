---------------------------- MODULE PoaProducer ----------------------------
(***************************************************************************)
(* Block production in a Proof-of-Authority network: the PoaBlockProducer  *)
(* (hathor/consensus/poa/poa_block_producer.py) of every signer, the turns *)
(* and weights of hathor/consensus/poa/poa.py, and the best block that the *)
(* consensus of each node keeps.                                           *)
(*                                                                         *)
(* A block is the sequence of signers that leads to it from the genesis    *)
(* <<>>: its height is its length.  Time is abstracted: a delayed call     *)
(* fires at any moment.  Delivery of blocks and has_synced_peer() are the  *)
(* environment's.                                                          *)
(***************************************************************************)
EXTENDS Integers, Sequences, FiniteSetsExt

CONSTANTS
    Signers,       \* positions 1 .. n in the settings' list of signers
    StartHeight,   \* [Signers -> start_height]
    EndHeight,     \* [Signers -> end_height]
    MaxHeight,     \* bound: height of the chain
    MaxOutages,    \* bound: times a signer loses its last synced peer
    MaxStops       \* bound: restarts of signers

VARIABLES
    signer,    \* per signer: its storage and its producer
    outages, stops

vars == <<signer, outages, stops>>

Genesis == <<>>
None == <<0>>   \* no block

(* known     the blocks of tx_storage                                      *)
(* best      tip of the height index                                       *)
(* synced    manager.can_start_mining()                                    *)
(* up        between start() and stop()                                    *)
(* retry     _start_producing_lc is running                                *)
(* seen      _last_seen_best_block                                         *)
(* call      previous_block of the active _delayed_call                    *)
(* news      NETWORK_NEW_TX_ACCEPTED of a block waits in the pubsub queue  *)
(* missed    history: the best block when an event was last dropped        *)
(*           because the node was syncing, with no loop to try again       *)
Init ==
    /\ signer = [n \in Signers |->
                   [known |-> {Genesis}, best |-> Genesis, synced |-> FALSE,
                    up |-> TRUE, retry |-> TRUE, seen |-> None, call |-> None,
                    news |-> FALSE, missed |-> None]]
    /\ outages = 0
    /\ stops = 0

----------------------------------------------------------------------------
(* Turns, weights and the best block.                                      *)

ActiveSigners(h) == {n \in Signers : StartHeight[n] <= h /\ h <= EndHeight[n]}

SignerIndexDistance(n, h) ==
    (Cardinality({m \in ActiveSigners(h) : m < n}) - h) % Cardinality(ActiveSigners(h))

(* weight_to_work of weight 2 in turn, and of 1 / distance out of turn.    *)
Work(n, h) == LET d == SignerIndexDistance(n, h)
              IN IF d = 0 THEN 4 ELSE IF d = 1 THEN 2 ELSE 1

Score(b) == MapThenSumSet(LAMBDA h : Work(b[h], h), 1 .. Len(b))

(* A chain wins with a strictly higher score; on a tie the height index    *)
(* keeps the chain it has, and all tied heads are best block tips.         *)
AddBlock(k, b) ==
    [k EXCEPT !.known = @ \cup {b},
              !.best = IF Score(b) > Score(k.best) THEN b ELSE @,
              !.news = TRUE]

HeightBestBlock(k) ==
    Max({Len(b) : b \in {c \in k.known : Score(c) = Score(k.best)}})

----------------------------------------------------------------------------
(* The producer of signer n, in state k.                                   *)

ScheduleIfNew(n, k) ==
    IF k.best = k.seen THEN k
    ELSE IF n \notin ActiveSigners(Len(k.best) + 1) THEN [k EXCEPT !.seen = k.best]
    ELSE [k EXCEPT !.seen = k.best, !.call = k.best]

GiveUp(k) == IF k.retry THEN k ELSE [k EXCEPT !.missed = k.best]

(* A mutant of ScheduleBlock: a pending call is not replaced.             *)
ScheduleBlockOnce(n, k) ==
    IF ~k.synced THEN GiveUp(k)
    ELSE IF k.call # None THEN [k EXCEPT !.retry = FALSE]
    ELSE ScheduleIfNew(n, [k EXCEPT !.retry = FALSE])

(* _schedule_block returns while the node is syncing, or when it has       *)
(* already seen the best block; otherwise a new call replaces the old one. *)
ScheduleBlock(n, k) ==
    IF ~k.synced THEN GiveUp(k) ELSE ScheduleIfNew(n, [k EXCEPT !.retry = FALSE])

(* start(): LoopingCall.start makes its first call at once.                *)
Start(n) ==
    /\ ~signer[n].up
    /\ signer' = [signer EXCEPT ![n] = ScheduleBlock(n, [@ EXCEPT !.up = TRUE,
                                       !.retry = TRUE, !.seen = None])]
    /\ UNCHANGED <<outages, stops>>

(* _safe_start_producing, every AVG_TIME_BETWEEN_BLOCKS.                   *)
StartProducing(n) ==
    /\ signer[n].retry
    /\ signer' = [signer EXCEPT ![n] = ScheduleBlock(n, @)]
    /\ UNCHANGED <<outages, stops>>

(* _on_new_vertex, when the pubsub queue is drained.                       *)
OnNewVertex(n) ==
    /\ signer[n].up /\ signer[n].news
    /\ signer' = [signer EXCEPT ![n] =
                    ScheduleBlock(n, [@ EXCEPT !.news = FALSE])]
    /\ UNCHANGED <<outages, stops>>

(* _produce_block gives up when the best chain has grown past the parent.  *)
ProduceBlock(n) ==
    LET k == [signer[n] EXCEPT !.call = None]
        b == Append(signer[n].call, n)
    IN
    /\ signer[n].call # None
    /\ Len(signer[n].call) < MaxHeight
    /\ signer' = [signer EXCEPT ![n] =
                    IF Len(b) <= HeightBestBlock(k) THEN k ELSE AddBlock(k, b)]
    /\ UNCHANGED <<outages, stops>>

(* stop(): the call and the loop are cancelled; the storage remains.       *)
Stop(n) ==
    /\ signer[n].up
    /\ stops < MaxStops
    /\ stops' = stops + 1
    /\ signer' = [signer EXCEPT ![n] = [@ EXCEPT !.up = FALSE, !.retry = FALSE,
                                          !.call = None, !.news = FALSE]]
    /\ UNCHANGED outages

----------------------------------------------------------------------------
(* The environment: peers pass on blocks, and come and go.                 *)

Receive(n, b) ==
    /\ b \notin signer[n].known
    /\ SubSeq(b, 1, Len(b) - 1) \in signer[n].known
    /\ signer[n].up
    /\ signer' = [signer EXCEPT ![n] = AddBlock(@, b)]
    /\ UNCHANGED <<outages, stops>>

GainSync(n) ==
    /\ ~signer[n].synced
    /\ signer' = [signer EXCEPT ![n].synced = TRUE]
    /\ UNCHANGED <<outages, stops>>

LoseSync(n) ==
    /\ signer[n].synced
    /\ outages < MaxOutages
    /\ outages' = outages + 1
    /\ signer' = [signer EXCEPT ![n].synced = FALSE]
    /\ UNCHANGED stops

ReceiveSome(n) == \E m \in Signers : \E b \in signer[m].known : Receive(n, b)

Next == \E n \in Signers :
    \/ Start(n) \/ StartProducing(n) \/ OnNewVertex(n) \/ ProduceBlock(n) \/ Stop(n)
    \/ ReceiveSome(n) \/ GainSync(n) \/ LoseSync(n)

Spec == Init /\ [][Next]_vars

----------------------------------------------------------------------------
(* Nothing is scheduled and nothing is on its way: every signer runs, is   *)
(* synced, has handled its events and knows the blocks of the others.      *)
AtRest ==
    \A n \in Signers :
        /\ signer[n].up /\ signer[n].synced
        /\ ~signer[n].retry /\ ~signer[n].news /\ signer[n].call = None
        /\ \A m \in Signers : signer[m].known = signer[n].known

Stalled == AtRest /\ \A n \in Signers : Len(signer[n].best) < MaxHeight

(* The network never stalls: a signer that cannot schedule a block because *)
(* it is syncing "will try again later" (the comment in _schedule_block).  *)
(* Violated: once production has started nothing tries again, and when the *)
(* event of the last block finds every signer syncing no block follows.    *)
NetworkNeverStalls == ~Stalled

(* A stall has no other cause than that, or a tie: a shorter chain that    *)
(* was there first stays the best one, but a block on top of it would not  *)
(* be higher than the other.  A producer schedules at most one block for   *)
(* each best block it sees, from an event that it may handle late, and     *)
(* cancels the previous call; whatever the order in which blocks, stale    *)
(* delayed calls, restarts and outages come, as long as one signer was     *)
(* synced when it handled the event of the last block, and no tied block   *)
(* is higher, the next block is produced (_schedule_block,                 *)
(* _produce_block).                                                        *)
OnlyOutagesOrTiesStall ==
    Stalled => \A n \in Signers : \/ signer[n].missed = signer[n].best
                                 \/ HeightBestBlock(signer[n]) > Len(signer[n].best)
=============================================================================
