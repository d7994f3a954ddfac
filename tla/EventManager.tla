---------------------------- MODULE EventManager ----------------------------
(***************************************************************************)
(* The producer side of the event queue: EventManager                      *)
(* (hathor/event/event_manager.py) writing to EventRocksDBStorage          *)
(* (hathor/event/storage/rocksdb_storage.py), fed by the in-memory queue   *)
(* of PubSubManager (hathor/pubsub.py), across starts, stops, crashes and  *)
(* kills of the node (HathorManager.start/stop, ExecutionManager, the      *)
(* running and crashed flags of TransactionStorage) and the command that   *)
(* resets the event queue (hathor/cli/reset_event_queue.py).               *)
(*                                                                         *)
(* Every durable write is a step of its own, so a kill can fall between    *)
(* any two of them.  The storage object's caches _last_event and           *)
(* _last_group_id are loaded when it is built and follow every write, so   *)
(* they are identified with what is in the database.  A vertex is a number *)
(* in 1 .. vertices, in topological order.                                 *)
(***************************************************************************)
EXTENDS Integers, Sequences

CONSTANTS
    BatchSize,     \* N_LOAD_EVENTS_PER_BATCH
    MaxVertices,   \* bound: vertices ever accepted
    MaxBoots       \* bound: starts of the node and runs of the reset command

ASSUME ManagerAssumption ==
    /\ BatchSize \in Nat \ {0}
    /\ MaxVertices \in Nat
    /\ MaxBoots \in Nat

VARIABLES
    \* durable: the event storage
    events,        \* column family event-storage, events[i] has key i - 1
    groupKey,      \* last-group-id
    streamKey,     \* stream-id
    nodeState,     \* node-state
    enabledKey,    \* event-queue-enabled
    \* durable: the transaction storage
    vertices,      \* number of accepted vertices
    runningFlag,   \* manager_running
    crashedFlag,   \* full_node_crashed
    \* volatile
    pc,            \* where the process is
    last,          \* EventManager._last_event
    group,         \* EventManager._last_existing_group_id
    reload,        \* what _should_reload_events() returns during this run
    cursor,        \* vertices whose load events are written
    queue,         \* PubSubManager.queue, events of the EventManager only
    \* history
    lost,          \* vertices whose event was in the queue at a stop
    streams,       \* stream ids ever generated
    boots,         \* starts and resets so far
    torn           \* a reset command died after deleting last-group-id only

durable == <<events, groupKey, streamKey, nodeState, enabledKey>>
flags == <<vertices, runningFlag, crashedFlag>>
volatile == <<last, group, reload, cursor, queue>>
history == <<lost, streams, boots, torn>>
vars == <<durable, flags, pc, volatile, history>>

NoGroup == -1
NoStream == 0
NoVertex == 0
Types == {"LOAD_STARTED", "LOAD_FINISHED", "NEW_VERTEX_ACCEPTED",
          "VERTEX_METADATA_CHANGED", "REORG_STARTED", "REORG_FINISHED",
          "FULL_NODE_CRASHED"}
NoLast == [id |-> -1, type |-> "LOAD_STARTED", group |-> NoGroup, vertex |-> NoVertex]

Ids == Nat \cup {-1}
Event == [id : Ids, type : Types, group : Ids, vertex : 0 .. MaxVertices]
Pending == [type : Types, vertex : 0 .. MaxVertices]
States == {"down",
           "reload_group", "reload_stream", "reload_drop", "reload_id",
           "load_started", "mark_load", "load_vertices", "load_finished",
           "mark_sync", "arm", "serving", "draining", "put_group", "idle",
           "cli_group", "cli_stream", "cli_drop", "cli_state", "cli_enabled"}

TypeOK ==
    /\ events \in Seq(Event)
    /\ groupKey \in Ids
    /\ streamKey \in 0 .. streams
    /\ nodeState \in {"none", "LOAD", "SYNC"}
    /\ enabledKey \in BOOLEAN
    /\ vertices \in 0 .. MaxVertices
    /\ runningFlag \in BOOLEAN
    /\ crashedFlag \in BOOLEAN
    /\ pc \in States
    /\ last \in Event
    /\ group \in Ids
    /\ reload \in BOOLEAN
    /\ cursor \in 0 .. MaxVertices
    /\ queue \in Seq(Pending)
    /\ lost \in SUBSET (0 .. MaxVertices)
    /\ streams \in Nat
    /\ boots \in 0 .. MaxBoots
    /\ torn \in BOOLEAN

----------------------------------------------------------------------------
(* Creation of events.  Definitions named after a fault (..Forgets..,      *)
(* ..Detached, ..Overrun and so on) are mutants, used only to show that a  *)
(* property can fail.                                                      *)

GroupIsClosed(e) == e.group = NoGroup \/ e.type = "REORG_FINISHED"

GroupForDetached(type) ==
    IF type = "REORG_STARTED" THEN group + 1 ELSE NoGroup

GroupFor(type) ==
    IF type = "REORG_STARTED" THEN group + 1
    ELSE IF GroupIsClosed(last) THEN NoGroup
    ELSE last.group

NewEvent(type, vertex) ==
    [id |-> last.id + 1, type |-> type, group |-> GroupFor(type), vertex |-> vertex]

(* The assertions of _create_group_start_event and _create_group_end_event.*)
GroupAssertions(type) ==
    /\ type = "REORG_STARTED" => GroupIsClosed(last)
    /\ type = "REORG_FINISHED" => ~GroupIsClosed(last)

(* save_event refuses an id that does not follow the last stored one; the  *)
(* event is then written, broadcast, and becomes _last_event.              *)
Emit(type, vertex) ==
    /\ GroupAssertions(type)
    /\ NewEvent(type, vertex).id = Len(events)
    /\ events' = Append(events, NewEvent(type, vertex))
    /\ last' = NewEvent(type, vertex)
    /\ group' = IF type = "REORG_STARTED" THEN group + 1 ELSE group

----------------------------------------------------------------------------

Init ==
    /\ events = <<>>
    /\ groupKey = NoGroup
    /\ streamKey = NoStream
    /\ nodeState = "none"
    /\ enabledKey = FALSE
    /\ vertices = 0
    /\ runningFlag = FALSE
    /\ crashedFlag = FALSE
    /\ pc = "down"
    /\ last = NoLast
    /\ group = NoGroup
    /\ reload = FALSE
    /\ cursor = 0
    /\ queue = <<>>
    /\ lost = {}
    /\ streams = 0
    /\ boots = 0
    /\ torn = FALSE

(* Only a storage whose last run ended cleanly is started.                 *)
Startable == ~runningFlag /\ ~crashedFlag

LastStored == IF events = <<>> THEN NoLast ELSE events[Len(events)]

ForgetMemory ==
    /\ last' = NoLast
    /\ group' = NoGroup
    /\ reload' = FALSE
    /\ cursor' = 0
    /\ queue' = <<>>

ShouldReloadFirstTimeOnly == nodeState = "none"
ShouldReload == nodeState \in {"none", "LOAD"}

(* HathorManager.__init__ with the event queue enabled persists that, then *)
(* start() exits on an unclean storage.                                    *)
BootRefused ==
    /\ pc = "down"
    /\ boots < MaxBoots
    /\ ~Startable
    /\ boots' = boots + 1
    /\ enabledKey' = TRUE
    /\ UNCHANGED <<events, groupKey, streamKey, nodeState, flags, pc, volatile,
                   lost, streams, torn>>

(* EventManager.start when the previous run never finished loading.        *)
BootReload ==
    /\ pc = "down"
    /\ boots < MaxBoots
    /\ Startable
    /\ ShouldReload
    /\ boots' = boots + 1
    /\ enabledKey' = TRUE
    /\ reload' = TRUE
    /\ pc' = "reload_group"
    /\ UNCHANGED <<events, groupKey, streamKey, nodeState, flags, last, group,
                   cursor, queue, lost, streams, torn>>

BootResumeForgetsLast ==
    /\ pc = "down"
    /\ boots < MaxBoots
    /\ Startable
    /\ ~ShouldReload
    /\ streamKey # NoStream
    /\ GroupIsClosed(LastStored)
    /\ boots' = boots + 1
    /\ enabledKey' = TRUE
    /\ last' = last
    /\ group' = groupKey
    /\ pc' = "load_started"
    /\ UNCHANGED <<events, groupKey, streamKey, nodeState, flags, reload,
                   cursor, queue, lost, streams, torn>>

BootResumeForgetsGroup ==
    /\ pc = "down"
    /\ boots < MaxBoots
    /\ Startable
    /\ ~ShouldReload
    /\ streamKey # NoStream
    /\ GroupIsClosed(LastStored)
    /\ boots' = boots + 1
    /\ enabledKey' = TRUE
    /\ last' = LastStored
    /\ group' = group
    /\ pc' = "load_started"
    /\ UNCHANGED <<events, groupKey, streamKey, nodeState, flags, reload,
                   cursor, queue, lost, streams, torn>>

(* EventManager.start when it resumes the stored log.                      *)
BootResume ==
    /\ pc = "down"
    /\ boots < MaxBoots
    /\ Startable
    /\ ~ShouldReload
    /\ streamKey # NoStream
    /\ GroupIsClosed(LastStored)
    /\ boots' = boots + 1
    /\ enabledKey' = TRUE
    /\ last' = LastStored
    /\ group' = groupKey
    /\ pc' = "load_started"
    /\ UNCHANGED <<events, groupKey, streamKey, nodeState, flags, reload,
                   cursor, queue, lost, streams, torn>>

(* EventManager.start fails: no stream id, or an unclosed event group.     *)
BootFails ==
    /\ pc = "down"
    /\ boots < MaxBoots
    /\ Startable
    /\ ~ShouldReload
    /\ streamKey = NoStream \/ ~GroupIsClosed(LastStored)
    /\ boots' = boots + 1
    /\ enabledKey' = TRUE
    /\ UNCHANGED <<events, groupKey, streamKey, nodeState, flags, pc, volatile,
                   lost, streams, torn>>

(* Start without the event queue, refused while event-queue-enabled is set.*)
BootDisabled ==
    /\ pc = "down"
    /\ boots < MaxBoots
    /\ ~enabledKey
    /\ Startable
    /\ boots' = boots + 1
    /\ runningFlag' = TRUE
    /\ pc' = "idle"
    /\ UNCHANGED <<durable, vertices, crashedFlag, volatile, lost, streams, torn>>

(* reset_events: last-group-id, then stream-id, then the events.           *)
DeleteGroupKey ==
    /\ pc \in {"reload_group", "cli_group"}
    /\ groupKey' = NoGroup
    /\ pc' = IF pc = "cli_group" THEN "cli_stream" ELSE "reload_stream"
    /\ UNCHANGED <<events, streamKey, nodeState, enabledKey, flags, volatile, history>>

KeepStreamKey ==
    /\ pc \in {"reload_stream", "cli_stream"}
    /\ streamKey' = streamKey
    /\ pc' = IF pc = "cli_stream" THEN "cli_drop" ELSE "reload_drop"
    /\ UNCHANGED <<events, groupKey, nodeState, enabledKey, flags, volatile, history>>

DeleteStreamKey ==
    /\ pc \in {"reload_stream", "cli_stream"}
    /\ streamKey' = NoStream
    /\ pc' = IF pc = "cli_stream" THEN "cli_drop" ELSE "reload_drop"
    /\ UNCHANGED <<events, groupKey, nodeState, enabledKey, flags, volatile, history>>

DropEvents ==
    /\ pc \in {"reload_drop", "cli_drop"}
    /\ events' = <<>>
    /\ torn' = FALSE
    /\ pc' = IF pc = "cli_drop" THEN "cli_state" ELSE "reload_id"
    /\ UNCHANGED <<groupKey, streamKey, nodeState, enabledKey, flags, volatile,
                   lost, streams, boots>>

(* A new uuid4 identifies the new stream.                                  *)
SaveStreamId ==
    /\ pc = "reload_id"
    /\ streams' = streams + 1
    /\ streamKey' = streams + 1
    /\ pc' = "load_started"
    /\ UNCHANGED <<events, groupKey, nodeState, enabledKey, flags, volatile, lost,
                   boots, torn>>

(* load_started: the event, then the node state.                           *)
EmitLoadStarted ==
    /\ pc = "load_started"
    /\ Emit("LOAD_STARTED", NoVertex)
    /\ pc' = "mark_load"
    /\ UNCHANGED <<groupKey, streamKey, nodeState, enabledKey, flags, reload,
                   cursor, queue, history>>

MarkLoad ==
    /\ pc = "mark_load"
    /\ nodeState' = "LOAD"
    /\ pc' = IF reload THEN "load_vertices" ELSE "load_finished"
    /\ UNCHANGED <<events, groupKey, streamKey, enabledKey, flags, volatile, history>>

(* handle_load_phase_vertices: one WriteBatch of at most BatchSize events. *)
Min2(a, b) == IF a < b THEN a ELSE b

BatchLength == Min2(BatchSize, vertices - cursor)

LoadBatch ==
    LET n == BatchLength
        e(i) == [id |-> last.id + i, type |-> "NEW_VERTEX_ACCEPTED",
                 group |-> GroupFor("NEW_VERTEX_ACCEPTED"), vertex |-> cursor + i]
    IN
    /\ pc = "load_vertices"
    /\ cursor < vertices
    /\ last.id + 1 = Len(events)
    /\ events' = events \o [i \in 1 .. n |-> e(i)]
    /\ last' = e(n)
    /\ cursor' = cursor + n
    /\ UNCHANGED <<groupKey, streamKey, nodeState, enabledKey, flags, pc, group,
                   reload, queue, history>>

LoadDone ==
    /\ pc = "load_vertices"
    /\ cursor = vertices
    /\ pc' = "load_finished"
    /\ UNCHANGED <<durable, flags, volatile, history>>

(* load_finished: the event, then the node state.                          *)
EmitLoadFinished ==
    /\ pc = "load_finished"
    /\ Emit("LOAD_FINISHED", NoVertex)
    /\ pc' = "mark_sync"
    /\ UNCHANGED <<groupKey, streamKey, nodeState, enabledKey, flags, reload,
                   cursor, queue, history>>

MarkSync ==
    /\ pc = "mark_sync"
    /\ nodeState' = "SYNC"
    /\ pc' = "arm"
    /\ UNCHANGED <<events, groupKey, streamKey, enabledKey, flags, volatile, history>>

StartRunningUnmarked ==
    /\ pc = "arm"
    /\ runningFlag' = runningFlag
    /\ pc' = "serving"
    /\ UNCHANGED <<durable, vertices, crashedFlag, volatile, history>>

(* start_running_manager, the last step of HathorManager.start.            *)
StartRunning ==
    /\ pc = "arm"
    /\ runningFlag' = TRUE
    /\ pc' = "serving"
    /\ UNCHANGED <<durable, vertices, crashedFlag, volatile, history>>

(* A vertex is accepted: consensus publishes the affected vertices, inside *)
(* a reorg group when the best chain changed, then the vertex itself.      *)
Published(reorg, changed, v) ==
    LET meta == IF changed
                THEN <<[type |-> "VERTEX_METADATA_CHANGED", vertex |-> v]>> ELSE <<>>
        new == <<[type |-> "NEW_VERTEX_ACCEPTED", vertex |-> v]>>
    IN IF reorg
       THEN <<[type |-> "REORG_STARTED", vertex |-> NoVertex]>> \o meta
            \o <<[type |-> "REORG_FINISHED", vertex |-> NoVertex]>> \o new
       ELSE meta \o new

AcceptVertex(reorg, changed) ==
    /\ pc = "serving"
    /\ vertices < MaxVertices
    /\ vertices' = vertices + 1
    /\ queue' = queue \o Published(reorg, changed, vertices + 1)
    /\ UNCHANGED <<durable, runningFlag, crashedFlag, pc, last, group, reload,
                   cursor, history>>

AcceptVertexUnqueued ==
    /\ pc = "idle"
    /\ vertices < MaxVertices
    /\ vertices' = vertices + 1
    /\ UNCHANGED <<durable, runningFlag, crashedFlag, pc, volatile, history>>

(* PubSubManager._call_next drains the whole queue in one reactor call.    *)
CallNext ==
    /\ pc = "serving"
    /\ queue # <<>>
    /\ pc' = "draining"
    /\ UNCHANGED <<durable, flags, volatile, history>>

HandleEvent ==
    /\ pc = "draining"
    /\ queue # <<>>
    /\ Emit(Head(queue).type, Head(queue).vertex)
    /\ queue' = Tail(queue)
    /\ pc' = IF GroupFor(Head(queue).type) # NoGroup THEN "put_group"
             ELSE "draining"
    /\ UNCHANGED <<groupKey, streamKey, nodeState, enabledKey, flags, reload,
                   cursor, history>>

(* The second put of _save_event.                                          *)
PutGroup ==
    /\ pc = "put_group"
    /\ groupKey' = last.group
    /\ pc' = "draining"
    /\ UNCHANGED <<events, streamKey, nodeState, enabledKey, flags, volatile, history>>

Drained ==
    /\ pc = "draining"
    /\ queue = <<>>
    /\ pc' = "serving"
    /\ UNCHANGED <<durable, flags, volatile, history>>

QueuedVertices == {queue[i].vertex : i \in {j \in 1 .. Len(queue) :
                                     queue[j].type = "NEW_VERTEX_ACCEPTED"}}

(* HathorManager.stop: the running flag is removed and EventManager.stop   *)
(* does not wait for the pubsub queue.                                     *)
Stop ==
    /\ pc \in {"serving", "idle"}
    /\ runningFlag' = FALSE
    /\ pc' = "down"
    /\ lost' = lost \cup QueuedVertices
    /\ ForgetMemory
    /\ UNCHANGED <<durable, vertices, crashedFlag, streams, boots, torn>>

(* crash_and_exit: on_full_node_crash of the EventManager, then that of    *)
(* the transaction storage.                                                *)
Crash ==
    /\ pc = "serving"
    /\ GroupAssertions("FULL_NODE_CRASHED")
    /\ NewEvent("FULL_NODE_CRASHED", NoVertex).id = Len(events)
    /\ events' = Append(events, NewEvent("FULL_NODE_CRASHED", NoVertex))
    /\ crashedFlag' = TRUE
    /\ pc' = "down"
    /\ ForgetMemory
    /\ UNCHANGED <<groupKey, streamKey, nodeState, enabledKey, vertices,
                   runningFlag, history>>

CrashUnqueued ==
    /\ pc = "idle"
    /\ crashedFlag' = TRUE
    /\ pc' = "down"
    /\ UNCHANGED <<durable, vertices, runningFlag, volatile, history>>

(* The process is killed between two durable writes.                       *)
Kill ==
    /\ pc # "down"
    /\ pc' = "down"
    /\ torn' = (torn \/ pc = "cli_stream")
    /\ ForgetMemory
    /\ UNCHANGED <<durable, flags, lost, streams, boots>>

(* hathor-cli reset-event-queue                                            *)
ResetCommand ==
    /\ pc = "down"
    /\ boots < MaxBoots
    /\ boots' = boots + 1
    /\ pc' = "cli_group"
    /\ UNCHANGED <<durable, flags, volatile, lost, streams, torn>>

DeleteNodeState ==
    /\ pc = "cli_state"
    /\ nodeState' = "none"
    /\ pc' = "cli_enabled"
    /\ UNCHANGED <<events, groupKey, streamKey, enabledKey, flags, volatile, history>>

DeleteEnabledKey ==
    /\ pc = "cli_enabled"
    /\ enabledKey' = FALSE
    /\ pc' = "down"
    /\ UNCHANGED <<events, groupKey, streamKey, nodeState, flags, volatile, history>>

Next ==
    \/ BootRefused \/ BootReload \/ BootResume \/ BootFails \/ BootDisabled
    \/ DeleteGroupKey \/ DeleteStreamKey \/ DropEvents \/ SaveStreamId
    \/ EmitLoadStarted \/ MarkLoad \/ LoadBatch \/ LoadDone
    \/ EmitLoadFinished \/ MarkSync \/ StartRunning
    \/ \E reorg, changed \in BOOLEAN : AcceptVertex(reorg, changed)
    \/ AcceptVertexUnqueued
    \/ CallNext \/ HandleEvent \/ PutGroup \/ Drained
    \/ Stop \/ Crash \/ CrashUnqueued \/ Kill
    \/ ResetCommand \/ DeleteNodeState \/ DeleteEnabledKey

Spec == Init /\ [][Next]_vars

----------------------------------------------------------------------------
(* Properties.                                                             *)

Covered(v) == \E i \in 1 .. Len(events) :
    events[i].type = "NEW_VERTEX_ACCEPTED" /\ events[i].vertex = v

(* What may follow event e in the log.                                     *)
Follows(e, f) ==
    IF GroupIsClosed(e)
    THEN \/ f.type = "REORG_STARTED" /\ f.group # NoGroup
         \/ f.type \notin {"REORG_STARTED", "REORG_FINISHED"} /\ f.group = NoGroup
    ELSE f.type # "REORG_STARTED" /\ f.group = e.group

(* Groups are bracketed.  Across restarts, reloads, kills and crashes, the *)
(* events between a REORG_STARTED and its REORG_FINISHED carry the group's *)
(* id, groups do not nest, and no other event carries a group id.          *)
GroupsBracketed ==
    \A i \in 1 .. Len(events) - 1 : Follows(events[i], events[i + 1])

(* A group id is never used twice in a log, although the counter survives  *)
(* a restart only through last-group-id, written after the event itself.   *)
(* The exception is a reset command killed after its first deletion: that  *)
(* leaves a log the node resumes, and numbers groups from 0 again.         *)
GroupIdsNeverReused ==
    ~torn => \A i, j \in 1 .. Len(events) :
        (i < j /\ events[i].type = "REORG_STARTED" /\ events[j].type = "REORG_STARTED")
            => events[i].group < events[j].group

(* No handler of the manager raises: the event it is about to create has   *)
(* the id the storage expects, and the group assertions hold.              *)
NoAssertionFails ==
    /\ pc \in {"load_started", "mark_load", "load_vertices", "load_finished",
               "mark_sync", "arm", "serving", "draining", "put_group"}
          => last.id + 1 = Len(events) /\ LastStored = last
    /\ pc = "draining" /\ queue # <<>> => GroupAssertions(Head(queue).type)

(* Whatever was interrupted and when, a database that EventManager.start   *)
(* would resume has no open group and a last-group-id no smaller than any  *)
(* of its groups (but for a reset command killed after one deletion), so   *)
(* the unclosed-group assertion never stops a node that may start.         *)
ResumableIsConsistent ==
    (Startable /\ pc = "down" /\ nodeState = "SYNC" /\ streamKey # NoStream)
        => /\ events # <<>>
           /\ GroupIsClosed(LastStored)
           /\ torn \/ \A i \in 1 .. Len(events) : events[i].group <= groupKey

(* No event gap.  While the node serves, every accepted vertex has an      *)
(* event, or its event waits in the pubsub queue, or it was in that queue  *)
(* when the node was stopped.                                              *)
NoGapExceptLost ==
    pc \in {"serving", "draining", "put_group"} =>
        \A v \in 1 .. vertices : Covered(v) \/ v \in QueuedVertices \/ v \in lost

(* While a stream id is in force the log under it only grows; it is        *)
(* removed or replaced before any event is, so a client that compares      *)
(* stream ids never misses that its events were discarded.                 *)
AppendOnlyPerStream ==
    [][(streamKey' = streamKey /\ streamKey # NoStream) =>
          /\ Len(events') >= Len(events)
          /\ \A i \in 1 .. Len(events) : events'[i] = events[i]]_vars

(* The event queue implements the log module EventLog promises to clients: *)
(* whatever is interrupted, and in whatever order the keys are deleted and *)
(* rewritten by reloads and reset commands, every step of the manager is a *)
(* step of that log or leaves it alone.                                    *)
Log == INSTANCE EventLog WITH log <- events, stream <- streamKey, used <- streams
ImplementsEventLog == Log!Spec

(* docs/event-queue-feature.md:44 promises that a restarted node continues *)
(* "to generate new events for synced vertices from where it stopped in    *)
(* the previous run": no vertex is ever left without its event.            *)
EveryVertexHasItsEvent ==
    (pc = "serving" /\ queue = <<>>) => \A v \in 1 .. vertices : Covered(v)
=============================================================================
