------------------------- MODULE EventManagerProofs -------------------------
(***************************************************************************)
(* TLAPS proofs for EventManager, for any batch size and any number of     *)
(* vertices and restarts.  From the first inductive invariant, IInv: type  *)
(* correctness, bracketing of groups, uniqueness of group ids, the         *)
(* append-only log per stream and the refinement of EventLog.  From the    *)
(* second, JInv, which adds what the pubsub queue holds and which vertices *)
(* have their event: no assertion fails, resumable databases are           *)
(* consistent, and no vertex is left out.                                  *)
(***************************************************************************)
EXTENDS EventManager, SequenceTheorems, TLAPS

Up == pc \in {"load_started", "mark_load", "load_vertices", "load_finished",
              "mark_sync", "arm", "serving", "draining", "put_group"}
Reloading == pc \in {"reload_group", "reload_stream", "reload_drop", "reload_id"}

(* The manager's memory is the end of the log.                             *)
MemoryAgrees ==
    Up => /\ last = LastStored
          /\ last.id + 1 = Len(events)
          /\ ~GroupIsClosed(last) => last.group = group
          /\ pc # "put_group" => groupKey = group
          /\ pc = "put_group" => last.group = group

(* Before EventManager.start has read the database, memory is blank.       *)
MemoryBlank == ~Up => last = NoLast /\ group = NoGroup

(* Where each durable write of a reset is known to have happened.          *)
ResetOrder ==
    /\ pc \in {"reload_stream", "reload_drop", "reload_id"} => groupKey = NoGroup
    /\ pc \in {"reload_drop", "reload_id", "cli_drop", "cli_state", "cli_enabled"}
          => streamKey = NoStream
    /\ pc = "reload_id" => events = <<>>
    /\ pc = "cli_enabled" => nodeState = "none"

(* The flags and keys that decide whether a log is resumed.                *)
KeyOrder ==
    /\ ~enabledKey => nodeState = "none"
    /\ Up \/ Reloading => enabledKey
    /\ pc = "idle" => ~enabledKey
    /\ Reloading => nodeState # "SYNC"
    /\ pc \in {"serving", "draining", "put_group", "idle"} => runningFlag

(* Group ids of the log are bounded by the counter the node will use next. *)
GroupsBelow(g) == \A i \in 1 .. Len(events) : events[i].group <= g

GroupBound ==
    ~torn =>
      /\ Up => GroupsBelow(group)
      /\ (/\ ~Up /\ pc # "cli_stream"
          /\ Startable /\ nodeState = "SYNC" /\ streamKey # NoStream)
            => GroupsBelow(groupKey)

(* The key under which an event is stored is its id.                       *)
LogIds == \A i \in 1 .. Len(events) : events[i].id = i - 1

IInv ==
    /\ TypeOK
    /\ LogIds
    /\ MemoryAgrees
    /\ MemoryBlank
    /\ ResetOrder
    /\ KeyOrder
    /\ GroupBound
    /\ GroupsBracketed
    /\ GroupIdsNeverReused

----------------------------------------------------------------------------
LEMMA NoLastType == NoLast \in Event /\ NoLast.id = -1 /\ NoLast.group = NoGroup
BY ManagerAssumption DEF NoLast, Event, Ids, Types, NoGroup, NoVertex

(* An event created by the manager is one.                                 *)
LEMMA NewEventType ==
    ASSUME last \in Event, group \in Ids, NEW type \in Types,
           NEW v \in 0 .. MaxVertices
    PROVE  /\ NewEvent(type, v) \in Event
           /\ NewEvent(type, v).id = last.id + 1
           /\ NewEvent(type, v).type = type
           /\ NewEvent(type, v).group = GroupFor(type)
           /\ GroupFor(type) \in Ids
           /\ group + 1 \in Ids
           /\ group + 1 # NoGroup
<1>1. group + 1 \in Ids /\ group + 1 # NoGroup /\ last.id + 1 \in Ids
  BY DEF Ids, Event, NoGroup
<1>2. GroupFor(type) \in Ids
  BY <1>1 DEF GroupFor, Event, Ids, NoGroup
<1>3. QED  BY <1>1, <1>2 DEF NewEvent, Event

(* Appending the event the manager creates keeps the log bracketed and its *)
(* group ids fresh.                                                        *)
LEMMA AppendKeepsLog ==
    ASSUME TypeOK, MemoryAgrees, GroupBound, GroupsBracketed, GroupIdsNeverReused, Up,
           NEW type \in Types, NEW v \in 0 .. MaxVertices, GroupAssertions(type),
           events' = Append(events, NewEvent(type, v)), torn' = torn
    PROVE  /\ events' \in Seq(Event)
           /\ Len(events') = Len(events) + 1
           /\ events' # <<>>
           /\ events'[Len(events')] = NewEvent(type, v)
           /\ \A i \in 1 .. Len(events) : events'[i] = events[i]
           /\ GroupsBracketed'
           /\ GroupIdsNeverReused'
           /\ ~torn => \A i \in 1 .. Len(events') : events'[i].group <=
                   IF type = "REORG_STARTED" THEN group + 1 ELSE group
<1> DEFINE e == NewEvent(type, v)
           n == Len(events)
<1>0. /\ events \in Seq(Event) /\ last \in Event /\ group \in Ids
      /\ n \in Nat
  BY DEF TypeOK
<1>1. /\ e \in Event /\ e.type = type /\ e.group = GroupFor(type)
      /\ group + 1 \in Ids /\ group + 1 # NoGroup /\ GroupFor(type) \in Ids
  BY <1>0, NewEventType
<1> HIDE DEF e
<1>2. /\ events' \in Seq(Event) /\ Len(events') = n + 1
      /\ events'[n + 1] = e
      /\ \A i \in 1 .. n : events'[i] = events[i]
      /\ events' # <<>>
  BY <1>0, <1>1 DEF e
<1>3. n > 0 => Follows(events[n], e)
  <2> SUFFICES ASSUME n > 0 PROVE Follows(events[n], e)
    OBVIOUS
  <2>1. events[n] = last
    BY DEF MemoryAgrees, LastStored
  <2>2. QED
    BY <2>1, <1>1 DEF Follows, GroupFor, GroupAssertions
<1>4. GroupsBracketed'
  <2> SUFFICES ASSUME NEW i \in 1 .. Len(events') - 1
               PROVE  Follows(events'[i], events'[i + 1])
    BY DEF GroupsBracketed, Follows, GroupIsClosed
  <2>1. CASE i = n
    BY <2>1, <1>2, <1>3, <1>0
  <2>2. CASE i # n
    <3>1. i \in 1 .. n - 1 /\ i \in 1 .. n /\ i + 1 \in 1 .. n
      BY <2>2, <1>2, <1>0
    <3>2. QED  BY <3>1, <1>2 DEF GroupsBracketed
  <2>3. QED  BY <2>1, <2>2
<1>5. ~torn => \A i \in 1 .. n : events[i].group <= group /\ events[i].group \in Int
  <2>1. \A i \in 1 .. n : events[i] \in Event
    BY <1>0
  <2>2. \A i \in 1 .. n : events[i].group \in Int
    BY <2>1 DEF Event, Ids
  <2>3. QED  BY <2>2 DEF GroupBound, GroupsBelow
<1>6. GroupIdsNeverReused'
  <2> SUFFICES ASSUME ~torn, NEW i \in 1 .. Len(events'), NEW j \in 1 .. Len(events'),
                      i < j, events'[i].type = "REORG_STARTED",
                      events'[j].type = "REORG_STARTED"
               PROVE  events'[i].group < events'[j].group
    BY DEF GroupIdsNeverReused
  <2>1. i \in 1 .. n
    BY <1>2, <1>0
  <2>2. CASE j = n + 1
    <3>1. e.group = group + 1
      BY <2>2, <1>1, <1>2 DEF GroupFor
    <3>2. events'[i].group <= group /\ events'[i].group \in Int
      BY <2>1, <1>5, <1>2
    <3>3. group \in Int
      BY <1>0 DEF Ids
    <3>4. QED  BY <3>1, <3>2, <3>3, <2>2, <1>2
  <2>3. CASE j # n + 1
    BY <2>1, <2>3, <1>0, <1>2 DEF GroupIdsNeverReused
  <2>4. QED  BY <2>2, <2>3
<1>7. ~torn => \A i \in 1 .. Len(events') : events'[i].group <=
                   IF type = "REORG_STARTED" THEN group + 1 ELSE group
  <2> SUFFICES ASSUME ~torn, NEW i \in 1 .. Len(events')
               PROVE  events'[i].group <=
                        IF type = "REORG_STARTED" THEN group + 1 ELSE group
    OBVIOUS
  <2>0. group \in Int /\ group >= -1
    BY <1>0 DEF Ids
  <2>1. CASE i \in 1 .. n
    BY <2>0, <2>1, <1>2, <1>5
  <2>2. CASE i = n + 1
    BY <2>0, <2>2, <1>1, <1>2 DEF GroupFor, MemoryAgrees, NoGroup
  <2>3. QED  BY <2>1, <2>2, <1>2, <1>0
<1>8. QED  BY <1>2, <1>4, <1>6, <1>7 DEF e

----------------------------------------------------------------------------
LEMMA InitIInv == Init => IInv
<1> SUFFICES ASSUME Init PROVE IInv
  OBVIOUS
<1>1. TypeOK
  <2>1. events \in Seq(Event) /\ queue \in Seq(Pending)
    BY DEF Init
  <2>2. last \in Event /\ group \in Ids /\ groupKey \in Ids
    BY NoLastType DEF Init, Ids, NoGroup
  <2>3. streamKey \in 0 .. streams /\ vertices \in 0 .. MaxVertices
        /\ cursor \in 0 .. MaxVertices /\ boots \in 0 .. MaxBoots /\ streams \in Nat
    BY ManagerAssumption DEF Init, NoStream
  <2>4. lost \in SUBSET (0 .. MaxVertices) /\ pc \in States
    BY DEF Init, States
  <2>5. QED  BY <2>1, <2>2, <2>3, <2>4 DEF Init, TypeOK
<1>2. MemoryAgrees /\ MemoryBlank /\ ResetOrder /\ KeyOrder /\ GroupBound
  BY DEF Init, MemoryAgrees, MemoryBlank, ResetOrder, KeyOrder, GroupBound, Up,
         Reloading
<1>3. GroupsBracketed /\ GroupIdsNeverReused /\ LogIds
  BY DEF Init, GroupsBracketed, GroupIdsNeverReused, LogIds
<1>4. QED  BY <1>1, <1>2, <1>3 DEF IInv

(* A step that leaves the log alone keeps its bracketing and numbering.    *)
LEMMA SameLog ==
    ASSUME GroupsBracketed, GroupIdsNeverReused, LogIds, events' = events,
           torn' \/ torn' = torn
    PROVE  GroupsBracketed' /\ GroupIdsNeverReused' /\ LogIds'
BY DEF GroupsBracketed, GroupIdsNeverReused, LogIds, Follows, GroupIsClosed

(* Steps that leave the log and the manager's memory alone.                *)
LEMMA BootRefusedStep ==
    ASSUME IInv, BootRefused
    PROVE  IInv'
<1>1. GroupsBracketed' /\ GroupIdsNeverReused' /\ LogIds'
  BY SameLog DEF IInv, BootRefused, durable, history
<1>2. TypeOK'
  BY ManagerAssumption
  DEF IInv, TypeOK, BootRefused, States, Ids, NoGroup, NoStream, durable, flags, volatile, history
<1>3. MemoryAgrees' /\ MemoryBlank'
  BY DEF IInv, TypeOK, BootRefused, MemoryAgrees, MemoryBlank, LastStored, GroupIsClosed,
     Up, durable, flags, volatile, history
<1>4. ResetOrder' /\ KeyOrder'
  BY DEF IInv, TypeOK, BootRefused, ResetOrder, KeyOrder, ShouldReload, Up, Reloading,
     durable, flags, volatile, history
<1>5. GroupBound'
  BY DEF IInv, TypeOK, BootRefused, GroupBound, GroupsBelow, MemoryAgrees, KeyOrder,
     ResetOrder, Up, Reloading, Startable, ShouldReload, NoStream,
     durable, flags, volatile, history
<1>6. QED  BY <1>1, <1>2, <1>3, <1>4, <1>5 DEF IInv

LEMMA BootReloadStep ==
    ASSUME IInv, BootReload
    PROVE  IInv'
<1>1. GroupsBracketed' /\ GroupIdsNeverReused' /\ LogIds'
  BY SameLog DEF IInv, BootReload, durable, history
<1>2. TypeOK'
  BY ManagerAssumption
  DEF IInv, TypeOK, BootReload, States, Ids, NoGroup, NoStream, durable, flags, volatile, history
<1>3. MemoryAgrees' /\ MemoryBlank'
  BY DEF IInv, TypeOK, BootReload, MemoryAgrees, MemoryBlank, LastStored, GroupIsClosed,
     Up, durable, flags, volatile, history
<1>4. ResetOrder' /\ KeyOrder'
  BY DEF IInv, TypeOK, BootReload, ResetOrder, KeyOrder, ShouldReload, Up, Reloading,
     durable, flags, volatile, history
<1>5. GroupBound'
  BY DEF IInv, TypeOK, BootReload, GroupBound, GroupsBelow, MemoryAgrees, KeyOrder,
     ResetOrder, Up, Reloading, Startable, ShouldReload, NoStream,
     durable, flags, volatile, history
<1>6. QED  BY <1>1, <1>2, <1>3, <1>4, <1>5 DEF IInv

LEMMA BootFailsStep ==
    ASSUME IInv, BootFails
    PROVE  IInv'
<1>1. GroupsBracketed' /\ GroupIdsNeverReused' /\ LogIds'
  BY SameLog DEF IInv, BootFails, durable, history
<1>2. TypeOK'
  BY ManagerAssumption
  DEF IInv, TypeOK, BootFails, States, Ids, NoGroup, NoStream, durable, flags, volatile, history
<1>3. MemoryAgrees' /\ MemoryBlank'
  BY DEF IInv, TypeOK, BootFails, MemoryAgrees, MemoryBlank, LastStored, GroupIsClosed,
     Up, durable, flags, volatile, history
<1>4. ResetOrder' /\ KeyOrder'
  BY DEF IInv, TypeOK, BootFails, ResetOrder, KeyOrder, ShouldReload, Up, Reloading,
     durable, flags, volatile, history
<1>5. GroupBound'
  BY DEF IInv, TypeOK, BootFails, GroupBound, GroupsBelow, MemoryAgrees, KeyOrder,
     ResetOrder, Up, Reloading, Startable, ShouldReload, NoStream,
     durable, flags, volatile, history
<1>6. QED  BY <1>1, <1>2, <1>3, <1>4, <1>5 DEF IInv

LEMMA BootDisabledStep ==
    ASSUME IInv, BootDisabled
    PROVE  IInv'
<1>1. GroupsBracketed' /\ GroupIdsNeverReused' /\ LogIds'
  BY SameLog DEF IInv, BootDisabled, durable, history
<1>2. TypeOK'
  BY ManagerAssumption
  DEF IInv, TypeOK, BootDisabled, States, Ids, NoGroup, NoStream, durable, flags, volatile, history
<1>3. MemoryAgrees' /\ MemoryBlank'
  BY DEF IInv, TypeOK, BootDisabled, MemoryAgrees, MemoryBlank, LastStored, GroupIsClosed,
     Up, durable, flags, volatile, history
<1>4. ResetOrder' /\ KeyOrder'
  BY DEF IInv, TypeOK, BootDisabled, ResetOrder, KeyOrder, ShouldReload, Up, Reloading,
     durable, flags, volatile, history
<1>5. GroupBound'
  BY DEF IInv, TypeOK, BootDisabled, GroupBound, GroupsBelow, MemoryAgrees, KeyOrder,
     ResetOrder, Up, Reloading, Startable, ShouldReload, NoStream,
     durable, flags, volatile, history
<1>6. QED  BY <1>1, <1>2, <1>3, <1>4, <1>5 DEF IInv

LEMMA DeleteGroupKeyStep ==
    ASSUME IInv, DeleteGroupKey
    PROVE  IInv'
<1>1. GroupsBracketed' /\ GroupIdsNeverReused' /\ LogIds'
  BY SameLog DEF IInv, DeleteGroupKey, durable, history
<1>2. TypeOK'
  BY ManagerAssumption
  DEF IInv, TypeOK, DeleteGroupKey, States, Ids, NoGroup, NoStream, durable, flags, volatile, history
<1>3. MemoryAgrees' /\ MemoryBlank'
  BY DEF IInv, TypeOK, DeleteGroupKey, MemoryAgrees, MemoryBlank, LastStored, GroupIsClosed,
     Up, durable, flags, volatile, history
<1>4. ResetOrder' /\ KeyOrder'
  BY DEF IInv, TypeOK, DeleteGroupKey, ResetOrder, KeyOrder, ShouldReload, Up, Reloading,
     durable, flags, volatile, history
<1>5. GroupBound'
  BY DEF IInv, TypeOK, DeleteGroupKey, GroupBound, GroupsBelow, MemoryAgrees, KeyOrder,
     ResetOrder, Up, Reloading, Startable, ShouldReload, NoStream,
     durable, flags, volatile, history
<1>6. QED  BY <1>1, <1>2, <1>3, <1>4, <1>5 DEF IInv

LEMMA DeleteStreamKeyStep ==
    ASSUME IInv, DeleteStreamKey
    PROVE  IInv'
<1>1. GroupsBracketed' /\ GroupIdsNeverReused' /\ LogIds'
  BY SameLog DEF IInv, DeleteStreamKey, durable, history
<1>2. TypeOK'
  BY ManagerAssumption
  DEF IInv, TypeOK, DeleteStreamKey, States, Ids, NoGroup, NoStream, durable, flags, volatile, history
<1>3. MemoryAgrees' /\ MemoryBlank'
  BY DEF IInv, TypeOK, DeleteStreamKey, MemoryAgrees, MemoryBlank, LastStored, GroupIsClosed,
     Up, durable, flags, volatile, history
<1>4. ResetOrder' /\ KeyOrder'
  BY DEF IInv, TypeOK, DeleteStreamKey, ResetOrder, KeyOrder, ShouldReload, Up, Reloading,
     durable, flags, volatile, history
<1>5. GroupBound'
  BY DEF IInv, TypeOK, DeleteStreamKey, GroupBound, GroupsBelow, MemoryAgrees, KeyOrder,
     ResetOrder, Up, Reloading, Startable, ShouldReload, NoStream,
     durable, flags, volatile, history
<1>6. QED  BY <1>1, <1>2, <1>3, <1>4, <1>5 DEF IInv

LEMMA SaveStreamIdStep ==
    ASSUME IInv, SaveStreamId
    PROVE  IInv'
<1>1. GroupsBracketed' /\ GroupIdsNeverReused' /\ LogIds'
  BY SameLog DEF IInv, SaveStreamId, durable, history
<1>2. TypeOK'
  BY ManagerAssumption
  DEF IInv, TypeOK, SaveStreamId, States, Ids, NoGroup, NoStream, durable, flags, volatile, history
<1>3. MemoryAgrees' /\ MemoryBlank'
  <2>1. events' = <<>> /\ last' = NoLast /\ group' = NoGroup /\ groupKey' = NoGroup
        /\ pc' = "load_started"
    BY DEF IInv, SaveStreamId, ResetOrder, MemoryBlank, Up, volatile
  <2>2. QED
    BY <2>1, NoLastType DEF MemoryAgrees, MemoryBlank, LastStored, GroupIsClosed, Up
<1>4. ResetOrder' /\ KeyOrder'
  BY DEF IInv, TypeOK, SaveStreamId, ResetOrder, KeyOrder, ShouldReload, Up, Reloading,
     durable, flags, volatile, history
<1>5. GroupBound'
  BY DEF IInv, TypeOK, SaveStreamId, GroupBound, GroupsBelow, MemoryAgrees, KeyOrder,
     ResetOrder, Up, Reloading, Startable, ShouldReload, NoStream,
     durable, flags, volatile, history
<1>6. QED  BY <1>1, <1>2, <1>3, <1>4, <1>5 DEF IInv

LEMMA MarkLoadStep ==
    ASSUME IInv, MarkLoad
    PROVE  IInv'
<1>1. GroupsBracketed' /\ GroupIdsNeverReused' /\ LogIds'
  BY SameLog DEF IInv, MarkLoad, durable, history
<1>2. TypeOK'
  BY ManagerAssumption
  DEF IInv, TypeOK, MarkLoad, States, Ids, NoGroup, NoStream, durable, flags, volatile, history
<1>3. MemoryAgrees' /\ MemoryBlank'
  BY DEF IInv, TypeOK, MarkLoad, MemoryAgrees, MemoryBlank, LastStored, GroupIsClosed,
     Up, durable, flags, volatile, history
<1>4. ResetOrder' /\ KeyOrder'
  BY DEF IInv, TypeOK, MarkLoad, ResetOrder, KeyOrder, ShouldReload, Up, Reloading,
     durable, flags, volatile, history
<1>5. GroupBound'
  BY DEF IInv, TypeOK, MarkLoad, GroupBound, GroupsBelow, MemoryAgrees, KeyOrder,
     ResetOrder, Up, Reloading, Startable, ShouldReload, NoStream,
     durable, flags, volatile, history
<1>6. QED  BY <1>1, <1>2, <1>3, <1>4, <1>5 DEF IInv

LEMMA LoadDoneStep ==
    ASSUME IInv, LoadDone
    PROVE  IInv'
<1>1. GroupsBracketed' /\ GroupIdsNeverReused' /\ LogIds'
  BY SameLog DEF IInv, LoadDone, durable, history
<1>2. TypeOK'
  BY ManagerAssumption
  DEF IInv, TypeOK, LoadDone, States, Ids, NoGroup, NoStream, durable, flags, volatile, history
<1>3. MemoryAgrees' /\ MemoryBlank'
  BY DEF IInv, TypeOK, LoadDone, MemoryAgrees, MemoryBlank, LastStored, GroupIsClosed,
     Up, durable, flags, volatile, history
<1>4. ResetOrder' /\ KeyOrder'
  BY DEF IInv, TypeOK, LoadDone, ResetOrder, KeyOrder, ShouldReload, Up, Reloading,
     durable, flags, volatile, history
<1>5. GroupBound'
  BY DEF IInv, TypeOK, LoadDone, GroupBound, GroupsBelow, MemoryAgrees, KeyOrder,
     ResetOrder, Up, Reloading, Startable, ShouldReload, NoStream,
     durable, flags, volatile, history
<1>6. QED  BY <1>1, <1>2, <1>3, <1>4, <1>5 DEF IInv

LEMMA MarkSyncStep ==
    ASSUME IInv, MarkSync
    PROVE  IInv'
<1>1. GroupsBracketed' /\ GroupIdsNeverReused' /\ LogIds'
  BY SameLog DEF IInv, MarkSync, durable, history
<1>2. TypeOK'
  BY ManagerAssumption
  DEF IInv, TypeOK, MarkSync, States, Ids, NoGroup, NoStream, durable, flags, volatile, history
<1>3. MemoryAgrees' /\ MemoryBlank'
  BY DEF IInv, TypeOK, MarkSync, MemoryAgrees, MemoryBlank, LastStored, GroupIsClosed,
     Up, durable, flags, volatile, history
<1>4. ResetOrder' /\ KeyOrder'
  BY DEF IInv, TypeOK, MarkSync, ResetOrder, KeyOrder, ShouldReload, Up, Reloading,
     durable, flags, volatile, history
<1>5. GroupBound'
  BY DEF IInv, TypeOK, MarkSync, GroupBound, GroupsBelow, MemoryAgrees, KeyOrder,
     ResetOrder, Up, Reloading, Startable, ShouldReload, NoStream,
     durable, flags, volatile, history
<1>6. QED  BY <1>1, <1>2, <1>3, <1>4, <1>5 DEF IInv

LEMMA StartRunningStep ==
    ASSUME IInv, StartRunning
    PROVE  IInv'
<1>1. GroupsBracketed' /\ GroupIdsNeverReused' /\ LogIds'
  BY SameLog DEF IInv, StartRunning, durable, history
<1>2. TypeOK'
  BY ManagerAssumption
  DEF IInv, TypeOK, StartRunning, States, Ids, NoGroup, NoStream, durable, flags, volatile, history
<1>3. MemoryAgrees' /\ MemoryBlank'
  BY DEF IInv, TypeOK, StartRunning, MemoryAgrees, MemoryBlank, LastStored, GroupIsClosed,
     Up, durable, flags, volatile, history
<1>4. ResetOrder' /\ KeyOrder'
  BY DEF IInv, TypeOK, StartRunning, ResetOrder, KeyOrder, ShouldReload, Up, Reloading,
     durable, flags, volatile, history
<1>5. GroupBound'
  BY DEF IInv, TypeOK, StartRunning, GroupBound, GroupsBelow, MemoryAgrees, KeyOrder,
     ResetOrder, Up, Reloading, Startable, ShouldReload, NoStream,
     durable, flags, volatile, history
<1>6. QED  BY <1>1, <1>2, <1>3, <1>4, <1>5 DEF IInv

LEMMA AcceptVertexUnqueuedStep ==
    ASSUME IInv, AcceptVertexUnqueued
    PROVE  IInv'
<1>1. GroupsBracketed' /\ GroupIdsNeverReused' /\ LogIds'
  BY SameLog DEF IInv, AcceptVertexUnqueued, durable, history
<1>2. TypeOK'
  BY ManagerAssumption
  DEF IInv, TypeOK, AcceptVertexUnqueued, States, Ids, NoGroup, NoStream, durable, flags, volatile, history
<1>3. MemoryAgrees' /\ MemoryBlank'
  BY DEF IInv, TypeOK, AcceptVertexUnqueued, MemoryAgrees, MemoryBlank, LastStored, GroupIsClosed,
     Up, durable, flags, volatile, history
<1>4. ResetOrder' /\ KeyOrder'
  BY DEF IInv, TypeOK, AcceptVertexUnqueued, ResetOrder, KeyOrder, ShouldReload, Up, Reloading,
     durable, flags, volatile, history
<1>5. GroupBound'
  BY DEF IInv, TypeOK, AcceptVertexUnqueued, GroupBound, GroupsBelow, MemoryAgrees, KeyOrder,
     ResetOrder, Up, Reloading, Startable, ShouldReload, NoStream,
     durable, flags, volatile, history
<1>6. QED  BY <1>1, <1>2, <1>3, <1>4, <1>5 DEF IInv

LEMMA CallNextStep ==
    ASSUME IInv, CallNext
    PROVE  IInv'
<1>1. GroupsBracketed' /\ GroupIdsNeverReused' /\ LogIds'
  BY SameLog DEF IInv, CallNext, durable, history
<1>2. TypeOK'
  BY ManagerAssumption
  DEF IInv, TypeOK, CallNext, States, Ids, NoGroup, NoStream, durable, flags, volatile, history
<1>3. MemoryAgrees' /\ MemoryBlank'
  BY DEF IInv, TypeOK, CallNext, MemoryAgrees, MemoryBlank, LastStored, GroupIsClosed,
     Up, durable, flags, volatile, history
<1>4. ResetOrder' /\ KeyOrder'
  BY DEF IInv, TypeOK, CallNext, ResetOrder, KeyOrder, ShouldReload, Up, Reloading,
     durable, flags, volatile, history
<1>5. GroupBound'
  BY DEF IInv, TypeOK, CallNext, GroupBound, GroupsBelow, MemoryAgrees, KeyOrder,
     ResetOrder, Up, Reloading, Startable, ShouldReload, NoStream,
     durable, flags, volatile, history
<1>6. QED  BY <1>1, <1>2, <1>3, <1>4, <1>5 DEF IInv

LEMMA PutGroupStep ==
    ASSUME IInv, PutGroup
    PROVE  IInv'
<1>1. GroupsBracketed' /\ GroupIdsNeverReused' /\ LogIds'
  BY SameLog DEF IInv, PutGroup, durable, history
<1>2. TypeOK'
  BY ManagerAssumption
  DEF IInv, TypeOK, PutGroup, States, Ids, Event, NoGroup, NoStream, durable, flags, volatile, history
<1>3. MemoryAgrees' /\ MemoryBlank'
  BY DEF IInv, TypeOK, PutGroup, MemoryAgrees, MemoryBlank, LastStored, GroupIsClosed,
     Up, durable, flags, volatile, history
<1>4. ResetOrder' /\ KeyOrder'
  BY DEF IInv, TypeOK, PutGroup, ResetOrder, KeyOrder, ShouldReload, Up, Reloading,
     durable, flags, volatile, history
<1>5. GroupBound'
  BY DEF IInv, TypeOK, PutGroup, GroupBound, GroupsBelow, MemoryAgrees, KeyOrder,
     ResetOrder, Up, Reloading, Startable, ShouldReload, NoStream,
     durable, flags, volatile, history
<1>6. QED  BY <1>1, <1>2, <1>3, <1>4, <1>5 DEF IInv

LEMMA DrainedStep ==
    ASSUME IInv, Drained
    PROVE  IInv'
<1>1. GroupsBracketed' /\ GroupIdsNeverReused' /\ LogIds'
  BY SameLog DEF IInv, Drained, durable, history
<1>2. TypeOK'
  BY ManagerAssumption
  DEF IInv, TypeOK, Drained, States, Ids, NoGroup, NoStream, durable, flags, volatile, history
<1>3. MemoryAgrees' /\ MemoryBlank'
  BY DEF IInv, TypeOK, Drained, MemoryAgrees, MemoryBlank, LastStored, GroupIsClosed,
     Up, durable, flags, volatile, history
<1>4. ResetOrder' /\ KeyOrder'
  BY DEF IInv, TypeOK, Drained, ResetOrder, KeyOrder, ShouldReload, Up, Reloading,
     durable, flags, volatile, history
<1>5. GroupBound'
  BY DEF IInv, TypeOK, Drained, GroupBound, GroupsBelow, MemoryAgrees, KeyOrder,
     ResetOrder, Up, Reloading, Startable, ShouldReload, NoStream,
     durable, flags, volatile, history
<1>6. QED  BY <1>1, <1>2, <1>3, <1>4, <1>5 DEF IInv

LEMMA CrashUnqueuedStep ==
    ASSUME IInv, CrashUnqueued
    PROVE  IInv'
<1>1. GroupsBracketed' /\ GroupIdsNeverReused' /\ LogIds'
  BY SameLog DEF IInv, CrashUnqueued, durable, history
<1>2. TypeOK'
  BY ManagerAssumption
  DEF IInv, TypeOK, CrashUnqueued, States, Ids, NoGroup, NoStream, durable, flags, volatile, history
<1>3. MemoryAgrees' /\ MemoryBlank'
  BY DEF IInv, TypeOK, CrashUnqueued, MemoryAgrees, MemoryBlank, LastStored, GroupIsClosed,
     Up, durable, flags, volatile, history
<1>4. ResetOrder' /\ KeyOrder'
  BY DEF IInv, TypeOK, CrashUnqueued, ResetOrder, KeyOrder, ShouldReload, Up, Reloading,
     durable, flags, volatile, history
<1>5. GroupBound'
  BY DEF IInv, TypeOK, CrashUnqueued, GroupBound, GroupsBelow, MemoryAgrees, KeyOrder,
     ResetOrder, Up, Reloading, Startable, ShouldReload, NoStream,
     durable, flags, volatile, history
<1>6. QED  BY <1>1, <1>2, <1>3, <1>4, <1>5 DEF IInv

LEMMA ResetCommandStep ==
    ASSUME IInv, ResetCommand
    PROVE  IInv'
<1>1. GroupsBracketed' /\ GroupIdsNeverReused' /\ LogIds'
  BY SameLog DEF IInv, ResetCommand, durable, history
<1>2. TypeOK'
  BY ManagerAssumption
  DEF IInv, TypeOK, ResetCommand, States, Ids, NoGroup, NoStream, durable, flags, volatile, history
<1>3. MemoryAgrees' /\ MemoryBlank'
  BY DEF IInv, TypeOK, ResetCommand, MemoryAgrees, MemoryBlank, LastStored, GroupIsClosed,
     Up, durable, flags, volatile, history
<1>4. ResetOrder' /\ KeyOrder'
  BY DEF IInv, TypeOK, ResetCommand, ResetOrder, KeyOrder, ShouldReload, Up, Reloading,
     durable, flags, volatile, history
<1>5. GroupBound'
  BY DEF IInv, TypeOK, ResetCommand, GroupBound, GroupsBelow, MemoryAgrees, KeyOrder,
     ResetOrder, Up, Reloading, Startable, ShouldReload, NoStream,
     durable, flags, volatile, history
<1>6. QED  BY <1>1, <1>2, <1>3, <1>4, <1>5 DEF IInv

LEMMA DeleteNodeStateStep ==
    ASSUME IInv, DeleteNodeState
    PROVE  IInv'
<1>1. GroupsBracketed' /\ GroupIdsNeverReused' /\ LogIds'
  BY SameLog DEF IInv, DeleteNodeState, durable, history
<1>2. TypeOK'
  BY ManagerAssumption
  DEF IInv, TypeOK, DeleteNodeState, States, Ids, NoGroup, NoStream, durable, flags, volatile, history
<1>3. MemoryAgrees' /\ MemoryBlank'
  BY DEF IInv, TypeOK, DeleteNodeState, MemoryAgrees, MemoryBlank, LastStored, GroupIsClosed,
     Up, durable, flags, volatile, history
<1>4. ResetOrder' /\ KeyOrder'
  BY DEF IInv, TypeOK, DeleteNodeState, ResetOrder, KeyOrder, ShouldReload, Up, Reloading,
     durable, flags, volatile, history
<1>5. GroupBound'
  BY DEF IInv, TypeOK, DeleteNodeState, GroupBound, GroupsBelow, MemoryAgrees, KeyOrder,
     ResetOrder, Up, Reloading, Startable, ShouldReload, NoStream,
     durable, flags, volatile, history
<1>6. QED  BY <1>1, <1>2, <1>3, <1>4, <1>5 DEF IInv

LEMMA DeleteEnabledKeyStep ==
    ASSUME IInv, DeleteEnabledKey
    PROVE  IInv'
<1>1. GroupsBracketed' /\ GroupIdsNeverReused' /\ LogIds'
  BY SameLog DEF IInv, DeleteEnabledKey, durable, history
<1>2. TypeOK'
  BY ManagerAssumption
  DEF IInv, TypeOK, DeleteEnabledKey, States, Ids, NoGroup, NoStream, durable, flags, volatile, history
<1>3. MemoryAgrees' /\ MemoryBlank'
  BY DEF IInv, TypeOK, DeleteEnabledKey, MemoryAgrees, MemoryBlank, LastStored, GroupIsClosed,
     Up, durable, flags, volatile, history
<1>4. ResetOrder' /\ KeyOrder'
  BY DEF IInv, TypeOK, DeleteEnabledKey, ResetOrder, KeyOrder, ShouldReload, Up, Reloading,
     durable, flags, volatile, history
<1>5. GroupBound'
  BY DEF IInv, TypeOK, DeleteEnabledKey, GroupBound, GroupsBelow, MemoryAgrees, KeyOrder,
     ResetOrder, Up, Reloading, Startable, ShouldReload, NoStream,
     durable, flags, volatile, history
<1>6. QED  BY <1>1, <1>2, <1>3, <1>4, <1>5 DEF IInv

----------------------------------------------------------------------------
(* Steps that read, forget or extend the log.                              *)
LEMMA BootResumeStep ==
    ASSUME IInv, BootResume
    PROVE  IInv'
<1>0. /\ events' = events /\ groupKey' = groupKey /\ streamKey' = streamKey
      /\ nodeState' = nodeState /\ torn' = torn /\ enabledKey' = TRUE
      /\ last' = LastStored /\ group' = groupKey /\ pc' = "load_started"
      /\ pc = "down" /\ nodeState = "SYNC" /\ streamKey # NoStream /\ Startable
      /\ GroupIsClosed(LastStored)
  BY DEF IInv, TypeOK, BootResume, ShouldReload
<1>1. GroupsBracketed' /\ GroupIdsNeverReused' /\ LogIds'
  BY <1>0, SameLog DEF IInv
<1>2. LastStored \in Event /\ LastStored.id + 1 = Len(events)
  <2>1. CASE events = <<>>
    BY <2>1, NoLastType DEF LastStored
  <2>2. CASE events # <<>>
    <3>1. events \in Seq(Event) /\ Len(events) \in 1 .. Len(events)
      BY <2>2 DEF IInv, TypeOK
    <3>2. events[Len(events)] \in Event /\ events[Len(events)].id = Len(events) - 1
      BY <3>1 DEF IInv, LogIds
    <3>3. QED  BY <2>2, <3>1, <3>2 DEF LastStored
  <2>3. QED  BY <2>1, <2>2
<1>3. TypeOK'
  BY <1>0, <1>2, ManagerAssumption DEF IInv, TypeOK, BootResume, States, flags
<1>4. MemoryAgrees' /\ MemoryBlank'
  BY <1>0, <1>2 DEF MemoryAgrees, MemoryBlank, LastStored, GroupIsClosed, Up
<1>5. ResetOrder' /\ KeyOrder'
  BY <1>0 DEF ResetOrder, KeyOrder, Up, Reloading
<1>6. GroupBound'
  BY <1>0 DEF IInv, GroupBound, GroupsBelow, Up
<1>7. QED  BY <1>1, <1>3, <1>4, <1>5, <1>6 DEF IInv

LEMMA DropEventsStep ==
    ASSUME IInv, DropEvents
    PROVE  IInv'
<1>0. events' = <<>> /\ Len(events') = 0 /\ events' \in Seq(Event)
  BY DEF DropEvents
<1>1. GroupsBracketed' /\ GroupIdsNeverReused' /\ LogIds'
  BY <1>0 DEF GroupsBracketed, GroupIdsNeverReused, LogIds
<1>2. TypeOK'
  BY <1>0 DEF IInv, TypeOK, DropEvents, States, flags, volatile
<1>3. MemoryAgrees' /\ MemoryBlank'
  BY DEF IInv, DropEvents, MemoryAgrees, MemoryBlank, Up, volatile
<1>4. ResetOrder' /\ KeyOrder'
  BY DEF IInv, DropEvents, ResetOrder, KeyOrder, Up, Reloading, flags
<1>5. GroupBound'
  BY <1>0 DEF GroupBound, GroupsBelow
<1>6. QED  BY <1>1, <1>2, <1>3, <1>4, <1>5 DEF IInv

(* What Emit does to the log and to memory, whatever comes next.           *)
LEMMA EmitFacts ==
    ASSUME IInv, Up, pc # "put_group", NEW type \in Types, NEW v \in 0 .. MaxVertices,
           Emit(type, v), torn' = torn
    PROVE  /\ GroupsBracketed' /\ GroupIdsNeverReused' /\ LogIds'
           /\ events' \in Seq(Event) /\ last' \in Event /\ group' \in Ids
           /\ last' = LastStored'
           /\ last'.id + 1 = Len(events')
           /\ last'.group = GroupFor(type) /\ last'.type = type
           /\ last'.group # NoGroup => last'.group = group'
           /\ last'.group = NoGroup => group' = group
           /\ ~torn => GroupsBelow(group)'
<1>0. /\ events' = Append(events, NewEvent(type, v))
      /\ last' = NewEvent(type, v)
      /\ GroupAssertions(type)
      /\ group' = IF type = "REORG_STARTED" THEN group + 1 ELSE group
      /\ NewEvent(type, v).id = Len(events)
  BY DEF Emit
<1>1. /\ events' \in Seq(Event) /\ Len(events') = Len(events) + 1
      /\ events' # <<>>
      /\ events'[Len(events')] = NewEvent(type, v)
      /\ \A i \in 1 .. Len(events) : events'[i] = events[i]
      /\ GroupsBracketed' /\ GroupIdsNeverReused'
      /\ ~torn => \A i \in 1 .. Len(events') : events'[i].group <=
                     IF type = "REORG_STARTED" THEN group + 1 ELSE group
  BY <1>0, AppendKeepsLog DEF IInv
<1>2. /\ NewEvent(type, v) \in Event
      /\ NewEvent(type, v).type = type
      /\ NewEvent(type, v).group = GroupFor(type)
      /\ group \in Ids /\ group + 1 \in Ids /\ group + 1 # NoGroup
  BY NewEventType DEF IInv, TypeOK
<1>3. Len(events) \in Nat
  BY DEF IInv, TypeOK
<1>4. LogIds'
  <2> SUFFICES ASSUME NEW i \in 1 .. Len(events') PROVE events'[i].id = i - 1
    BY DEF LogIds
  <2>1. CASE i \in 1 .. Len(events)
    BY <2>1, <1>1 DEF IInv, LogIds
  <2>2. CASE i = Len(events) + 1
    BY <2>2, <1>0, <1>1, <1>3
  <2>3. QED  BY <2>1, <2>2, <1>1, <1>3
<1>5. /\ GroupFor(type) # NoGroup => GroupFor(type) = group'
      /\ GroupFor(type) = NoGroup => group' = group
  BY <1>0, <1>2 DEF GroupFor, IInv, MemoryAgrees
<1>6. last' = LastStored' /\ last'.id + 1 = Len(events')
  BY <1>0, <1>1, <1>3 DEF LastStored
<1>7. ~torn => GroupsBelow(group)'
  BY <1>0, <1>1 DEF GroupsBelow
<1>8. last' \in Event /\ group' \in Ids
      /\ last'.group = GroupFor(type) /\ last'.type = type
  BY <1>0, <1>2
<1>9. QED  BY <1>1, <1>4, <1>5, <1>6, <1>7, <1>8

LEMMA EmitLoadStartedStep ==
    ASSUME IInv, EmitLoadStarted
    PROVE  IInv'
<1>0. /\ "LOAD_STARTED" \in Types /\ NoVertex \in 0 .. MaxVertices
      /\ Up /\ pc # "put_group" /\ Emit("LOAD_STARTED", NoVertex) /\ torn' = torn
  BY ManagerAssumption DEF Types, NoVertex, EmitLoadStarted, Up, history
<1>1. /\ GroupsBracketed' /\ GroupIdsNeverReused' /\ LogIds'
      /\ events' \in Seq(Event) /\ last' \in Event /\ group' \in Ids
      /\ last' = LastStored'
      /\ last'.id + 1 = Len(events')
      /\ last'.group # NoGroup => last'.group = group'
      /\ ~torn => GroupsBelow(group)'
  BY <1>0, EmitFacts
<1>2. group' = group
  BY DEF EmitLoadStarted, Emit
<1>3. TypeOK'
  BY <1>1 DEF IInv, TypeOK, EmitLoadStarted, States, flags, history
<1>4. MemoryAgrees' /\ MemoryBlank'
  BY <1>1, <1>2 DEF IInv, EmitLoadStarted, MemoryAgrees, MemoryBlank, GroupIsClosed, Up
<1>5. ResetOrder' /\ KeyOrder'
  BY DEF IInv, EmitLoadStarted, ResetOrder, KeyOrder, Up, Reloading, flags
<1>6. GroupBound'
  BY <1>0, <1>1 DEF EmitLoadStarted, GroupBound, Up
<1>7. QED  BY <1>1, <1>3, <1>4, <1>5, <1>6 DEF IInv

LEMMA EmitLoadFinishedStep ==
    ASSUME IInv, EmitLoadFinished
    PROVE  IInv'
<1>0. /\ "LOAD_FINISHED" \in Types /\ NoVertex \in 0 .. MaxVertices
      /\ Up /\ pc # "put_group" /\ Emit("LOAD_FINISHED", NoVertex) /\ torn' = torn
  BY ManagerAssumption DEF Types, NoVertex, EmitLoadFinished, Up, history
<1>1. /\ GroupsBracketed' /\ GroupIdsNeverReused' /\ LogIds'
      /\ events' \in Seq(Event) /\ last' \in Event /\ group' \in Ids
      /\ last' = LastStored'
      /\ last'.id + 1 = Len(events')
      /\ last'.group # NoGroup => last'.group = group'
      /\ ~torn => GroupsBelow(group)'
  BY <1>0, EmitFacts
<1>2. group' = group
  BY DEF EmitLoadFinished, Emit
<1>3. TypeOK'
  BY <1>1 DEF IInv, TypeOK, EmitLoadFinished, States, flags, history
<1>4. MemoryAgrees' /\ MemoryBlank'
  BY <1>1, <1>2 DEF IInv, EmitLoadFinished, MemoryAgrees, MemoryBlank, GroupIsClosed, Up
<1>5. ResetOrder' /\ KeyOrder'
  BY DEF IInv, EmitLoadFinished, ResetOrder, KeyOrder, Up, Reloading, flags
<1>6. GroupBound'
  BY <1>0, <1>1 DEF EmitLoadFinished, GroupBound, Up
<1>7. QED  BY <1>1, <1>3, <1>4, <1>5, <1>6 DEF IInv

LEMMA HandleEventStep ==
    ASSUME IInv, HandleEvent
    PROVE  IInv'
<1> DEFINE t == Head(queue).type
           v == Head(queue).vertex
<1>a. Head(queue) \in Pending /\ Tail(queue) \in Seq(Pending)
  BY DEF IInv, TypeOK, HandleEvent
<1>0. /\ t \in Types /\ v \in 0 .. MaxVertices
      /\ Up /\ pc # "put_group" /\ Emit(t, v) /\ torn' = torn
  BY <1>a DEF Pending, HandleEvent, Up, history
<1> HIDE DEF t, v
<1>1. /\ GroupsBracketed' /\ GroupIdsNeverReused' /\ LogIds'
      /\ events' \in Seq(Event) /\ last' \in Event /\ group' \in Ids
      /\ last' = LastStored'
      /\ last'.id + 1 = Len(events')
      /\ last'.group = GroupFor(t)
      /\ last'.group # NoGroup => last'.group = group'
      /\ last'.group = NoGroup => group' = group
      /\ ~torn => GroupsBelow(group)'
  BY <1>0, EmitFacts
<1>2. /\ pc' = IF GroupFor(t) # NoGroup THEN "put_group" ELSE "draining"
      /\ queue' = Tail(queue) /\ groupKey' = groupKey /\ pc = "draining"
  BY DEF HandleEvent, t
<1>3. TypeOK'
  BY <1>1, <1>2, <1>a DEF IInv, TypeOK, HandleEvent, States, flags, history
<1>4. MemoryAgrees' /\ MemoryBlank'
  BY <1>1, <1>2 DEF IInv, MemoryAgrees, MemoryBlank, GroupIsClosed, Up
<1>5. ResetOrder' /\ KeyOrder'
  BY <1>2 DEF IInv, HandleEvent, ResetOrder, KeyOrder, Up, Reloading, flags
<1>6. GroupBound'
  BY <1>0, <1>1, <1>2 DEF GroupBound, Up
<1>7. QED  BY <1>1, <1>3, <1>4, <1>5, <1>6 DEF IInv

LEMMA CrashStep ==
    ASSUME IInv, Crash
    PROVE  IInv'
<1> DEFINE t == "FULL_NODE_CRASHED"
<1>0. /\ t \in Types /\ NoVertex \in 0 .. MaxVertices /\ Up /\ torn' = torn
      /\ GroupAssertions(t)
      /\ events' = Append(events, NewEvent(t, NoVertex))
      /\ NewEvent(t, NoVertex).id = Len(events)
      /\ last' = NoLast /\ group' = NoGroup /\ pc' = "down" /\ crashedFlag' = TRUE
      /\ queue' = <<>> /\ cursor' = 0 /\ reload' = FALSE
  BY ManagerAssumption DEF Types, NoVertex, Crash, ForgetMemory, Up, history
<1>1. /\ events' \in Seq(Event) /\ Len(events') = Len(events) + 1
      /\ events'[Len(events')] = NewEvent(t, NoVertex)
      /\ \A i \in 1 .. Len(events) : events'[i] = events[i]
      /\ GroupsBracketed' /\ GroupIdsNeverReused'
  BY <1>0, AppendKeepsLog DEF IInv
<1>2. Len(events) \in Nat
  BY DEF IInv, TypeOK
<1>3. LogIds'
  <2> SUFFICES ASSUME NEW i \in 1 .. Len(events') PROVE events'[i].id = i - 1
    BY DEF LogIds
  <2>1. CASE i \in 1 .. Len(events)
    BY <2>1, <1>1 DEF IInv, LogIds
  <2>2. CASE i = Len(events) + 1
    BY <2>2, <1>0, <1>1, <1>2
  <2>3. QED  BY <2>1, <2>2, <1>1, <1>2
<1>4. TypeOK'
  <2>1. queue' \in Seq(Pending) /\ cursor' \in 0 .. MaxVertices /\ group' \in Ids
    BY <1>0, ManagerAssumption DEF Ids, NoGroup
  <2>2. QED
    BY <1>0, <1>1, <2>1, NoLastType DEF IInv, TypeOK, Crash, States, history
<1>5. MemoryAgrees' /\ MemoryBlank'
  BY <1>0 DEF MemoryAgrees, MemoryBlank, Up
<1>6. ResetOrder' /\ KeyOrder'
  BY <1>0 DEF IInv, Crash, ResetOrder, KeyOrder, Up, Reloading
<1>7. GroupBound'
  BY <1>0 DEF GroupBound, Startable, Up
<1>8. QED  BY <1>1, <1>3, <1>4, <1>5, <1>6, <1>7 DEF IInv

LEMMA PublishedType ==
    ASSUME NEW reorg \in BOOLEAN, NEW changed \in BOOLEAN, NEW v \in 0 .. MaxVertices
    PROVE  Published(reorg, changed, v) \in Seq(Pending)
<1>1. /\ [type |-> "VERTEX_METADATA_CHANGED", vertex |-> v] \in Pending
      /\ [type |-> "NEW_VERTEX_ACCEPTED", vertex |-> v] \in Pending
      /\ [type |-> "REORG_STARTED", vertex |-> NoVertex] \in Pending
      /\ [type |-> "REORG_FINISHED", vertex |-> NoVertex] \in Pending
  BY ManagerAssumption DEF Pending, Types, NoVertex
<1>2. /\ <<[type |-> "VERTEX_METADATA_CHANGED", vertex |-> v]>> \in Seq(Pending)
      /\ <<[type |-> "NEW_VERTEX_ACCEPTED", vertex |-> v]>> \in Seq(Pending)
      /\ <<[type |-> "REORG_STARTED", vertex |-> NoVertex]>> \in Seq(Pending)
      /\ <<[type |-> "REORG_FINISHED", vertex |-> NoVertex]>> \in Seq(Pending)
      /\ <<>> \in Seq(Pending)
  BY <1>1
<1>3. \A p, q \in Seq(Pending) : p \o q \in Seq(Pending)
  OBVIOUS
<1>4. QED  BY <1>2, <1>3 DEF Published

LEMMA AcceptVertexStep ==
    ASSUME IInv, NEW reorg \in BOOLEAN, NEW changed \in BOOLEAN,
           AcceptVertex(reorg, changed)
    PROVE  IInv'
<1>1. GroupsBracketed' /\ GroupIdsNeverReused' /\ LogIds'
  BY SameLog DEF IInv, AcceptVertex, durable, history
<1>2. vertices + 1 \in 0 .. MaxVertices
  BY ManagerAssumption DEF IInv, TypeOK, AcceptVertex
<1>3. Published(reorg, changed, vertices + 1) \in Seq(Pending)
  BY <1>2, PublishedType
<1>4. queue' \in Seq(Pending)
  BY <1>3 DEF IInv, TypeOK, AcceptVertex
<1>5. TypeOK'
  BY <1>2, <1>4 DEF IInv, TypeOK, AcceptVertex, durable, history
<1>6. MemoryAgrees' /\ MemoryBlank'
  BY DEF IInv, AcceptVertex, MemoryAgrees, MemoryBlank, LastStored, GroupIsClosed,
     Up, durable
<1>7. ResetOrder' /\ KeyOrder' /\ GroupBound'
  BY DEF IInv, AcceptVertex, ResetOrder, KeyOrder, GroupBound, GroupsBelow, Up,
     Reloading, Startable, durable, history
<1>8. QED  BY <1>1, <1>5, <1>6, <1>7 DEF IInv

(* The process ends, by HathorManager.stop or by a kill.                   *)
LEMMA ForgetMemoryFacts ==
    ASSUME ForgetMemory, pc' = "down"
    PROVE  /\ last' \in Event /\ group' \in Ids /\ reload' \in BOOLEAN
           /\ cursor' \in 0 .. MaxVertices /\ queue' \in Seq(Pending)
           /\ pc' \in States
           /\ MemoryAgrees' /\ MemoryBlank' /\ ~Up'
<1>1. group' \in Ids /\ cursor' \in 0 .. MaxVertices /\ last' \in Event
  BY NoLastType, ManagerAssumption DEF ForgetMemory, Ids, NoGroup
<1>2. queue' \in Seq(Pending)
  BY DEF ForgetMemory
<1>3. reload' \in BOOLEAN
  BY DEF ForgetMemory
<1>4. MemoryAgrees' /\ MemoryBlank' /\ ~Up'
  BY DEF ForgetMemory, MemoryAgrees, MemoryBlank, Up
<1>5. QED  BY <1>1, <1>2, <1>3, <1>4 DEF States

LEMMA StopStep ==
    ASSUME IInv, Stop
    PROVE  IInv'
<1>1. GroupsBracketed' /\ GroupIdsNeverReused' /\ LogIds'
  BY SameLog DEF IInv, Stop, durable
<1>2. QueuedVertices \subseteq 0 .. MaxVertices
  <2>1. \A i \in 1 .. Len(queue) : queue[i] \in Pending
    BY DEF IInv, TypeOK
  <2>2. QED  BY <2>1 DEF QueuedVertices, Pending
<1>3. /\ last' \in Event /\ group' \in Ids /\ reload' \in BOOLEAN
      /\ cursor' \in 0 .. MaxVertices /\ queue' \in Seq(Pending) /\ pc' \in States
      /\ MemoryAgrees' /\ MemoryBlank' /\ ~Up'
  BY ForgetMemoryFacts DEF Stop
<1>4. lost' \in SUBSET (0 .. MaxVertices)
  BY <1>2 DEF IInv, TypeOK, Stop
<1>5. TypeOK'
  BY <1>3, <1>4 DEF IInv, TypeOK, Stop, durable
<1>6. ResetOrder' /\ KeyOrder'
  BY <1>3 DEF IInv, Stop, ResetOrder, KeyOrder, Reloading, durable
<1>7. GroupBound'
  BY <1>3 DEF IInv, Stop, GroupBound, GroupsBelow, MemoryAgrees, KeyOrder, Up, durable
<1>8. QED  BY <1>1, <1>3, <1>5, <1>6, <1>7 DEF IInv

LEMMA KillStep ==
    ASSUME IInv, Kill
    PROVE  IInv'
<1>1. GroupsBracketed' /\ GroupIdsNeverReused' /\ LogIds'
  BY SameLog DEF IInv, Kill, TypeOK, durable
<1>2. /\ last' \in Event /\ group' \in Ids /\ reload' \in BOOLEAN
      /\ cursor' \in 0 .. MaxVertices /\ queue' \in Seq(Pending) /\ pc' \in States
      /\ MemoryAgrees' /\ MemoryBlank' /\ ~Up'
  BY ForgetMemoryFacts DEF Kill
<1>3. TypeOK'
  BY <1>2 DEF IInv, TypeOK, Kill, durable, flags
<1>4. ResetOrder' /\ KeyOrder'
  BY <1>2 DEF IInv, Kill, ResetOrder, KeyOrder, Reloading, durable, flags
<1>5. GroupBound'
  <2> SUFFICES ASSUME ~torn', Startable', nodeState' = "SYNC", streamKey' # NoStream
               PROVE  GroupsBelow(groupKey)'
    BY <1>2 DEF GroupBound
  <2>1. /\ ~torn /\ Startable /\ nodeState = "SYNC" /\ streamKey # NoStream
        /\ pc # "cli_stream" /\ events' = events /\ groupKey' = groupKey
    BY DEF Kill, IInv, TypeOK, Startable, durable, flags
  <2>2. CASE Up
    BY <2>1, <2>2 DEF IInv, GroupBound, GroupsBelow, MemoryAgrees, KeyOrder, Startable
  <2>3. CASE ~Up
    BY <2>1, <2>3 DEF IInv, GroupBound, GroupsBelow
  <2>4. QED  BY <2>2, <2>3
<1>6. QED  BY <1>1, <1>2, <1>3, <1>4, <1>5 DEF IInv

(* A batch of load events continues the ids and, no group being open, has  *)
(* no group; were one open, it would continue that group.                  *)
LEMMA LoadBatchStep ==
    ASSUME IInv, LoadBatch
    PROVE  IInv'
<1> DEFINE n == BatchLength
           m == Len(events)
           g == GroupFor("NEW_VERTEX_ACCEPTED")
           e(i) == [id |-> last.id + i, type |-> "NEW_VERTEX_ACCEPTED",
                    group |-> g, vertex |-> cursor + i]
           b == [i \in 1 .. n |-> e(i)]
<1>0. /\ events' = events \o b /\ last' = e(n) /\ cursor' = cursor + n
      /\ last.id + 1 = m /\ cursor < vertices /\ pc = "load_vertices" /\ pc' = pc
      /\ group' = group /\ groupKey' = groupKey /\ torn' = torn
      /\ streamKey' = streamKey /\ nodeState' = nodeState /\ enabledKey' = enabledKey
      /\ reload' = reload /\ queue' = queue
      /\ vertices' = vertices /\ runningFlag' = runningFlag /\ crashedFlag' = crashedFlag
      /\ lost' = lost /\ streams' = streams /\ boots' = boots
  BY DEF LoadBatch, flags, history
<1>1. /\ n \in Nat /\ n >= 1 /\ cursor + n \in 0 .. MaxVertices
      /\ cursor \in Nat /\ m \in Nat /\ cursor + n <= MaxVertices
  BY <1>0, ManagerAssumption DEF IInv, TypeOK, BatchLength, Min2
<1>2. /\ last \in Event /\ group \in Ids /\ events \in Seq(Event) /\ last.id \in Ids
      /\ g \in Ids
  <2>1. last \in Event /\ group \in Ids /\ events \in Seq(Event)
    BY DEF IInv, TypeOK
  <2>2. last.id \in Ids /\ last.group \in Ids
    BY <2>1 DEF Event
  <2>3. QED  BY <2>1, <2>2 DEF GroupFor, Ids, NoGroup
<1>3. \A i \in 1 .. n : e(i) \in Event
  <2> SUFFICES ASSUME NEW i \in 1 .. n PROVE e(i) \in Event
    OBVIOUS
  <2>0. last.id \in Int /\ last.id >= -1 /\ i \in Int /\ i >= 1 /\ i <= n
    BY <1>1, <1>2 DEF Ids
  <2>1. last.id + i \in Ids /\ cursor + i \in 0 .. MaxVertices
    BY <2>0, <1>1, ManagerAssumption DEF Ids
  <2>2. QED  BY <2>1, <1>2 DEF Event, Types
<1> HIDE DEF n, g
<1>4. /\ b \in Seq(Event) /\ Len(b) = n /\ \A i \in 1 .. n : b[i] = e(i)
  BY <1>1, <1>3
<1> HIDE DEF b
<1>5. /\ events' \in Seq(Event) /\ Len(events') = m + n
      /\ \A i \in 1 .. m : events'[i] = events[i]
      /\ \A i \in m + 1 .. m + n : events'[i] = e(i - m)
  <2>0. /\ events \o b \in Seq(Event) /\ Len(events \o b) = Len(events) + Len(b)
        /\ \A i \in 1 .. Len(events) + Len(b) :
              (events \o b)[i] = IF i <= Len(events) THEN events[i] ELSE b[i - Len(events)]
    BY <1>2, <1>4, ConcatProperties, Zenon
  <2>1. events' \in Seq(Event) /\ Len(events') = m + n
    BY <1>0, <1>4, <2>0, Zenon
  <2>2. \A i \in 1 .. m + n : events'[i] = IF i <= m THEN events[i] ELSE b[i - m]
    BY <1>0, <1>4, <2>0, Zenon
  <2>3. \A i \in m + 1 .. m + n : i - m \in 1 .. n /\ i \in 1 .. m + n /\ ~(i <= m)
    BY <1>1
  <2>4. \A i \in 1 .. m : i \in 1 .. m + n /\ i <= m
    BY <1>1
  <2>5. QED  BY <2>1, <2>2, <2>3, <2>4, <1>4
<1>6. LogIds'
  <2> SUFFICES ASSUME NEW i \in 1 .. m + n PROVE events'[i].id = i - 1
    BY <1>5 DEF LogIds
  <2>1. CASE i \in 1 .. m
    BY <2>1, <1>5 DEF IInv, LogIds
  <2>2. CASE i \in m + 1 .. m + n
    <3>1. events'[i] = e(i - m)
      BY <2>2, <1>5
    <3>2. events'[i].id = last.id + (i - m)
      BY <3>1
    <3>3. last.id \in Int /\ i \in Int /\ m \in Int
      BY <2>2, <1>1, <1>2 DEF Ids
    <3> HIDE DEF m
    <3>4. last.id + (i - m) = i - 1
      BY <3>3, <1>0
    <3>5. QED  BY <3>2, <3>4
  <2>3. QED  BY <2>1, <2>2, <1>1
<1>7. \A i \in m + 1 .. m + n : /\ events'[i].type = "NEW_VERTEX_ACCEPTED"
                                /\ events'[i].group = g
  <2> SUFFICES ASSUME NEW i \in m + 1 .. m + n
               PROVE  /\ events'[i].type = "NEW_VERTEX_ACCEPTED"
                      /\ events'[i].group = g
    OBVIOUS
  <2>1. events'[i] = e(i - m)
    BY <1>5
  <2>2. QED  BY <2>1
<1>8. GroupsBracketed'
  <2> SUFFICES ASSUME NEW i \in 1 .. (m + n) - 1
               PROVE  Follows(events'[i], events'[i + 1])
    BY <1>5 DEF GroupsBracketed, Follows, GroupIsClosed
  <2>1. CASE i + 1 <= m
    <3>1. i \in 1 .. m - 1 /\ i \in 1 .. m /\ i + 1 \in 1 .. m
      BY <2>1, <1>1
    <3>2. QED  BY <3>1, <1>5 DEF IInv, GroupsBracketed
  <2>2. CASE i = m
    <3>1. events'[i] = last
      BY <2>2, <1>0, <1>1, <1>5 DEF IInv, MemoryAgrees, LastStored, Up
    <3>2. i + 1 \in m + 1 .. m + n
      BY <2>2, <1>1
    <3>3. QED  BY <3>1, <3>2, <1>7 DEF Follows, g, GroupFor
  <2>3. CASE i > m
    <3>1. i \in m + 1 .. m + n /\ i + 1 \in m + 1 .. m + n
      BY <2>3, <1>1
    <3>2. QED  BY <3>1, <1>7 DEF Follows, GroupIsClosed
  <2>4. QED  BY <2>1, <2>2, <2>3, <1>1
<1>9. GroupIdsNeverReused'
  <2> SUFFICES ASSUME ~torn, NEW i \in 1 .. m + n, NEW j \in 1 .. m + n,
                      i < j, events'[i].type = "REORG_STARTED",
                      events'[j].type = "REORG_STARTED"
               PROVE  events'[i].group < events'[j].group
    BY <1>0, <1>5 DEF GroupIdsNeverReused
  <2>1. i \in 1 .. m /\ j \in 1 .. m
    BY <1>1, <1>7
  <2>2. QED  BY <2>1, <1>5 DEF IInv, GroupIdsNeverReused
<1>10. /\ last' \in Event /\ last' = LastStored' /\ last'.id + 1 = m + n
       /\ last'.group = g /\ last'.type = "NEW_VERTEX_ACCEPTED"
  <2>1. m + n \in m + 1 .. m + n /\ (m + n) - m = n /\ n \in 1 .. n /\ m + n # 0
    BY <1>1
  <2>2. events'[m + n] = e(n) /\ events' # <<>>
    BY <2>1, <1>5
  <2>3. last' = LastStored'
    BY <2>2, <1>0, <1>5 DEF LastStored
  <2>4. last' \in Event
    BY <2>1, <1>0, <1>3
  <2>5. last'.id = last.id + n /\ last'.group = g /\ last'.type = "NEW_VERTEX_ACCEPTED"
    BY <1>0
  <2>6. last.id \in Int /\ m \in Int /\ n \in Int /\ last.id + 1 = m
    BY <1>0, <1>1, <1>2 DEF Ids
  <2>7. (last.id + n) + 1 = m + n
    <3>1. \A x, y, z \in Int : x + 1 = y => (x + z) + 1 = y + z
      OBVIOUS
    <3> HIDE DEF m
    <3>2. QED  BY <3>1, <2>6, Zenon
  <2>8. last'.id + 1 = m + n
    BY ONLY <2>5, <2>7
  <2>9. QED  BY <2>3, <2>4, <2>5, <2>8
<1>11. g = NoGroup \/ g = group
  BY <1>0 DEF g, GroupFor, IInv, MemoryAgrees, Up
<1>12. TypeOK'
  BY <1>0, <1>1, <1>2, <1>5, <1>10 DEF IInv, TypeOK
<1>13. MemoryAgrees' /\ MemoryBlank'
  BY <1>0, <1>5, <1>10, <1>11 DEF IInv, MemoryAgrees, MemoryBlank, GroupIsClosed, Up
<1>14. ResetOrder' /\ KeyOrder'
  BY <1>0 DEF IInv, ResetOrder, KeyOrder, Up, Reloading
<1>15. GroupBound'
  <2> SUFFICES ASSUME ~torn, NEW i \in 1 .. m + n PROVE events'[i].group <= group
    BY <1>0, <1>5 DEF GroupBound, GroupsBelow, Up
  <2>1. CASE i \in 1 .. m
    BY <2>1, <1>0, <1>5 DEF IInv, GroupBound, GroupsBelow, Up
  <2>2. CASE i \in m + 1 .. m + n
    BY <2>2, <1>2, <1>7, <1>11 DEF Ids, NoGroup
  <2>3. QED  BY <2>1, <2>2, <1>1
<1>16. QED  BY <1>6, <1>8, <1>9, <1>12, <1>13, <1>14, <1>15 DEF IInv

----------------------------------------------------------------------------
LEMMA NextKeepsIInv == IInv /\ [Next]_vars => IInv'
<1> SUFFICES ASSUME IInv, [Next]_vars PROVE IInv'
  OBVIOUS
<1>1. CASE BootRefused \/ BootReload \/ BootResume \/ BootFails \/ BootDisabled
  BY <1>1, BootRefusedStep, BootReloadStep, BootResumeStep, BootFailsStep,
     BootDisabledStep
<1>2. CASE DeleteGroupKey \/ DeleteStreamKey \/ DropEvents \/ SaveStreamId
  BY <1>2, DeleteGroupKeyStep, DeleteStreamKeyStep, DropEventsStep, SaveStreamIdStep
<1>3. CASE \/ EmitLoadStarted \/ MarkLoad \/ LoadBatch \/ LoadDone
           \/ EmitLoadFinished \/ MarkSync \/ StartRunning
  BY <1>3, EmitLoadStartedStep, MarkLoadStep, LoadBatchStep, LoadDoneStep,
     EmitLoadFinishedStep, MarkSyncStep, StartRunningStep
<1>4. CASE \E reorg, changed \in BOOLEAN : AcceptVertex(reorg, changed)
  BY <1>4, AcceptVertexStep
<1>5. CASE AcceptVertexUnqueued \/ CallNext \/ HandleEvent \/ PutGroup \/ Drained
  BY <1>5, AcceptVertexUnqueuedStep, CallNextStep, HandleEventStep, PutGroupStep,
     DrainedStep
<1>6. CASE Stop \/ Crash \/ CrashUnqueued \/ Kill
  BY <1>6, StopStep, CrashStep, CrashUnqueuedStep, KillStep
<1>7. CASE ResetCommand \/ DeleteNodeState \/ DeleteEnabledKey
  BY <1>7, ResetCommandStep, DeleteNodeStateStep, DeleteEnabledKeyStep
<1>8. CASE UNCHANGED vars
  <2>1. GroupsBracketed' /\ GroupIdsNeverReused' /\ LogIds'
    BY <1>8, SameLog DEF IInv, vars, durable, history
  <2>2. TypeOK' /\ MemoryAgrees' /\ MemoryBlank' /\ ResetOrder' /\ KeyOrder'
    BY <1>8 DEF IInv, TypeOK, MemoryAgrees, MemoryBlank, ResetOrder, KeyOrder,
       LastStored, GroupIsClosed, Up, Reloading, vars, durable, flags, volatile, history
  <2>3. GroupBound'
    BY <1>8 DEF IInv, GroupBound, GroupsBelow, Startable, Up, vars, durable, flags,
       volatile, history
  <2>4. QED  BY <2>1, <2>2, <2>3 DEF IInv
<1>9. QED  BY <1>1, <1>2, <1>3, <1>4, <1>5, <1>6, <1>7, <1>8 DEF Next

(* The inductive invariant of the producer holds in every behaviour.       *)
THEOREM Invariance == Spec => []IInv
BY InitIInv, NextKeepsIInv, PTL DEF Spec

(* Every write of the event manager and of its storage keeps their types.  *)
THEOREM TypeCorrect == Spec => []TypeOK
<1>1. IInv => TypeOK
  BY DEF IInv
<1>2. QED  BY <1>1, Invariance, PTL

(* Across restarts, reloads, kills and crashes event groups do not nest    *)
(* and every event between the two ends of a group carries its id.         *)
THEOREM GroupsAreBracketed == Spec => []GroupsBracketed
<1>1. IInv => GroupsBracketed
  BY DEF IInv
<1>2. QED  BY <1>1, Invariance, PTL

(* No group id is used twice in a log, unless a reset command was killed   *)
(* between its first two deletions.                                        *)
THEOREM GroupIdsAreUnique == Spec => []GroupIdsNeverReused
<1>1. IInv => GroupIdsNeverReused
  BY DEF IInv
<1>2. QED  BY <1>1, Invariance, PTL

(* A step that keeps the stream id only appends to the log.                *)
LEMMA StepAppends ==
    ASSUME IInv, [Next]_vars, streamKey' = streamKey, streamKey # NoStream
    PROVE  /\ Len(events') >= Len(events)
           /\ \A i \in 1 .. Len(events) : events'[i] = events[i]
<1>0. events \in Seq(Event) /\ Len(events) \in Nat
  BY DEF IInv, TypeOK
<1>1. CASE events' = events
  BY <1>0, <1>1
<1>2. CASE \E e : events' = Append(events, e)
  <2>1. PICK e : events' = Append(events, e)
    BY <1>2
  <2>2. QED  BY <2>1, <1>0
<1>3. CASE LoadBatch
  <2> DEFINE k == BatchLength
             b == [i \in 1 .. k |->
                 [id |-> last.id + i, type |-> "NEW_VERTEX_ACCEPTED",
                  group |-> GroupFor("NEW_VERTEX_ACCEPTED"), vertex |-> cursor + i]]
  <2>1. k \in Nat
    BY <1>3, ManagerAssumption DEF LoadBatch, IInv, TypeOK, BatchLength, Min2
  <2>2. events' = events \o b
    BY <1>3 DEF LoadBatch
  <2> HIDE DEF k
  <2>3. b \in Seq({b[i] : i \in 1 .. k}) /\ Len(b) = k
    BY <2>1
  <2> HIDE DEF b
  <2>4. QED  BY <2>1, <2>2, <2>3, <1>0
<1>4. CASE DropEvents
  BY <1>4 DEF DropEvents, IInv, ResetOrder
<1>5. QED
  <2>1. CASE \/ EmitLoadStarted \/ EmitLoadFinished \/ HandleEvent \/ Crash
    BY <2>1, <1>2 DEF EmitLoadStarted, EmitLoadFinished, HandleEvent, Crash, Emit
  <2>2. CASE ~(\/ EmitLoadStarted \/ EmitLoadFinished \/ HandleEvent \/ Crash
               \/ LoadBatch \/ DropEvents)
    <3>1. events' = events
      BY <2>2 DEF Next, vars, durable, BootRefused, BootReload, BootResume, BootFails,
         BootDisabled, DeleteGroupKey, DeleteStreamKey, SaveStreamId, MarkLoad,
         LoadDone, MarkSync, StartRunning, AcceptVertex, AcceptVertexUnqueued,
         CallNext, PutGroup, Drained, Stop, CrashUnqueued, Kill, ResetCommand,
         DeleteNodeState, DeleteEnabledKey
    <3>2. QED  BY <3>1, <1>1
  <2>3. QED  BY <2>1, <2>2, <1>3, <1>4

(* While a stream id is in force its log only grows: the id is deleted     *)
(* before the first event is.                                              *)
THEOREM LogIsAppendOnly == Spec => AppendOnlyPerStream
<1>1. IInv /\ [Next]_vars =>
        [(streamKey' = streamKey /\ streamKey # NoStream) =>
          /\ Len(events') >= Len(events)
          /\ \A i \in 1 .. Len(events) : events'[i] = events[i]]_vars
  BY StepAppends
<1>2. QED  BY <1>1, Invariance, PTL DEF Spec, AppendOnlyPerStream

----------------------------------------------------------------------------

(* Once EventManager.start has read or renewed the stream id, the id stays *)
(* until the process is down again.                                        *)
UpHasStream == Up => streamKey # NoStream

LEMMA NextKeepsUpHasStream == IInv /\ UpHasStream /\ [Next]_vars => UpHasStream'
<1> SUFFICES ASSUME IInv, UpHasStream, [Next]_vars PROVE UpHasStream'
  OBVIOUS
<1>1. CASE DeleteGroupKey \/ DeleteStreamKey \/ DropEvents
  BY <1>1 DEF DeleteGroupKey, DeleteStreamKey, DropEvents, UpHasStream, Up
<1>2. CASE SaveStreamId
  <2>1. streams \in Nat
    BY DEF IInv, TypeOK
  <2>2. QED  BY <1>2, <2>1 DEF SaveStreamId, UpHasStream, NoStream
<1>3. CASE Stop \/ Crash \/ CrashUnqueued \/ Kill \/ ResetCommand \/ DeleteNodeState
           \/ DeleteEnabledKey
  BY <1>3 DEF Stop, Crash, CrashUnqueued, Kill, ResetCommand, DeleteNodeState,
     DeleteEnabledKey, UpHasStream, Up
<1>4. CASE BootRefused \/ BootReload \/ BootResume \/ BootFails \/ BootDisabled
  BY <1>4 DEF BootRefused, BootReload, BootResume, BootFails, BootDisabled,
     UpHasStream, Up, durable
<1>5. CASE \/ EmitLoadStarted \/ MarkLoad \/ LoadBatch \/ LoadDone
           \/ EmitLoadFinished \/ MarkSync \/ StartRunning
           \/ \E reorg, changed \in BOOLEAN : AcceptVertex(reorg, changed)
           \/ AcceptVertexUnqueued \/ CallNext \/ HandleEvent \/ PutGroup
           \/ Drained \/ UNCHANGED vars
  <2>1. streamKey' = streamKey /\ (Up' => Up)
    BY <1>5 DEF EmitLoadStarted, MarkLoad, LoadBatch, LoadDone, EmitLoadFinished,
       MarkSync, StartRunning, AcceptVertex, AcceptVertexUnqueued, CallNext,
       HandleEvent, PutGroup, Drained, Up, durable, vars
  <2>2. QED  BY <2>1 DEF UpHasStream
<1>6. QED  BY <1>1, <1>2, <1>3, <1>4, <1>5 DEF Next

(* Each durable write of the manager and of the reset command is a step of *)
(* the log, or does not touch it.                                          *)
LEMMA StepIsLogStep ==
    ASSUME IInv, IInv', UpHasStream, [Next]_vars
    PROVE  [Log!Next]_(Log!vars)
<1>0. events \in Seq(Event) /\ Len(events) \in Nat /\ streams \in Nat
  BY DEF IInv, TypeOK
<1>1. CASE SaveStreamId
  <2>1. streamKey = NoStream /\ events = <<>>
    BY <1>1 DEF SaveStreamId, IInv, ResetOrder
  <2>2. Log!Open
    BY <1>1, <2>1 DEF SaveStreamId, Log!Open, Log!NoStream, NoStream
  <2>3. QED  BY <2>2 DEF Log!Next
<1>2. CASE DeleteStreamKey
  BY <1>2 DEF DeleteStreamKey, Log!Next, Log!Revoke, Log!NoStream, NoStream, history
<1>3. CASE DropEvents
  BY <1>3 DEF DropEvents, IInv, ResetOrder, Log!Next, Log!Discard, Log!NoStream, NoStream
<1>4. CASE EmitLoadStarted \/ EmitLoadFinished \/ HandleEvent \/ Crash \/ LoadBatch
  <2>1. streamKey' = streamKey /\ streams' = streams /\ streamKey # NoStream
    BY <1>4 DEF EmitLoadStarted, EmitLoadFinished, HandleEvent, Crash, LoadBatch,
       history, UpHasStream, Up
  <2>2. Len(events') > Len(events)
    <3>1. CASE LoadBatch
      <4>1. LoadBatch /\ BatchLength \in Nat /\ BatchLength > 0
        BY <3>1, ManagerAssumption DEF LoadBatch, IInv, TypeOK, BatchLength, Min2
      <4> DEFINE b == [i \in 1 .. BatchLength |->
                 [id |-> last.id + i, type |-> "NEW_VERTEX_ACCEPTED",
                  group |-> GroupFor("NEW_VERTEX_ACCEPTED"), vertex |-> cursor + i]]
      <4>2. events' = events \o b
        BY <4>1 DEF LoadBatch
      <4>3. b \in Seq({b[i] : i \in 1 .. BatchLength}) /\ Len(b) = BatchLength
        BY <4>1
      <4> HIDE DEF b
      <4>4. QED  BY <4>1, <4>2, <4>3, <1>0
    <3>2. CASE ~LoadBatch
      <4>1. PICK e : events' = Append(events, e)
        BY <1>4, <3>2 DEF EmitLoadStarted, EmitLoadFinished, HandleEvent, Crash, Emit
      <4>2. QED  BY <4>1, <1>0
    <3>3. QED  BY <3>1, <3>2
  <2>3. \A i \in 1 .. Len(events) : events'[i] = events[i]
    BY <2>1, StepAppends
  <2>4. Len(events') \in Nat
    BY DEF IInv, TypeOK
  <2>5. \A i \in Len(events) + 1 .. Len(events') : events'[i].id = i - 1
    BY <1>0, <2>4 DEF IInv, LogIds
  <2>6. Log!Extend
    BY <2>1, <2>2, <2>3, <2>5 DEF Log!Extend, Log!NoStream, NoStream
  <2>7. QED  BY <2>6 DEF Log!Next
<1>5. CASE ~(\/ SaveStreamId \/ DeleteStreamKey \/ DropEvents \/ EmitLoadStarted
             \/ EmitLoadFinished \/ HandleEvent \/ Crash \/ LoadBatch)
  <2>1. events' = events /\ streamKey' = streamKey /\ streams' = streams
    BY <1>5 DEF Next, vars, durable, history, BootRefused, BootReload, BootResume,
       BootFails, BootDisabled, DeleteGroupKey, MarkLoad, LoadDone, MarkSync,
       StartRunning, AcceptVertex, AcceptVertexUnqueued, CallNext, PutGroup, Drained,
       Stop, CrashUnqueued, Kill, ResetCommand, DeleteNodeState, DeleteEnabledKey
  <2>2. QED  BY <2>1 DEF Log!vars
<1>6. QED  BY <1>1, <1>2, <1>3, <1>4, <1>5

(* The event manager implements the log its clients are promised.          *)
THEOREM ManagerImplementsLog == Spec => ImplementsEventLog
<1>1. Init => Log!Init
  BY DEF Init, Log!Init, Log!NoStream, NoStream
<1>2. Init => UpHasStream
  BY DEF Init, UpHasStream, Up
<1>3. Spec => []UpHasStream
  BY <1>2, Invariance, NextKeepsUpHasStream, PTL DEF Spec
<1>4. IInv /\ IInv' /\ UpHasStream /\ [Next]_vars => [Log!Next]_(Log!vars)
  BY StepIsLogStep
<1>5. QED  BY <1>1, <1>3, <1>4, Invariance, PTL DEF Spec, ImplementsEventLog, Log!Spec

----------------------------------------------------------------------------
(* The second invariant: what is in the pubsub queue, and which vertices   *)
(* have their event.                                                       *)

(* Which of the loading steps a run of the manager takes.                  *)
LoadPhase ==
    /\ Reloading => reload
    /\ ~Up /\ ~Reloading => ~reload
    /\ ~Up \/ pc \in {"load_started", "mark_load"} => cursor = 0
    /\ cursor <= vertices
    /\ pc \in {"load_started", "mark_load"} /\ reload => nodeState # "SYNC"
    /\ pc \in {"load_vertices", "load_finished", "mark_sync"} => nodeState = "LOAD"
    /\ Up => (pc = "load_started" /\ nodeState # "SYNC") \/ events # <<>>

(* Whether a group is open before and after an event of a type.            *)
Turns(type, before, after) ==
    /\ type = "REORG_STARTED" => ~before /\ after
    /\ type = "REORG_FINISHED" => before /\ ~after
    /\ type \notin {"REORG_STARTED", "REORG_FINISHED"} => before = after

(* Replaying q passes the assertions on groups, from a log with an open    *)
(* group or not to one with an open group or not.                          *)
Replays(q, before, after) ==
    \E open \in [1 .. Len(q) + 1 -> BOOLEAN] :
        /\ open[1] = before
        /\ open[Len(q) + 1] = after
        /\ \A i \in 1 .. Len(q) : Turns(q[i].type, open[i], open[i + 1])

GroupIsOpen == ~GroupIsClosed(last)

(* The queue continues the log: replayed after the last event, it opens    *)
(* and closes groups in turn and leaves none open.                         *)
QueueContinuesLog ==
    /\ pc \notin {"serving", "draining", "put_group"} => queue = <<>>
    /\ Up /\ pc \notin {"draining", "put_group"} => GroupIsClosed(last)
    /\ Up => Replays(queue, GroupIsOpen, FALSE)

(* A database that a node would resume.                                    *)
Resumable == Startable /\ nodeState = "SYNC" /\ streamKey # NoStream

ResumableIsClosed == ~Up /\ Resumable => events # <<>> /\ GroupIsClosed(LastStored)

Recorded(v) == Covered(v) \/ v \in QueuedVertices \/ v \in lost

(* The states in which every vertex must be recorded.                      *)
AllDue ==
    \/ pc \in {"load_finished", "mark_sync", "arm", "serving", "draining", "put_group"}
    \/ pc \in {"load_started", "mark_load"} /\ ~reload
    \/ ~Up /\ Resumable

(* Every vertex has its event, but for those the load is about to write    *)
(* and those a reload will.                                                *)
VerticesRecorded ==
    /\ AllDue => \A v \in 1 .. vertices : Recorded(v)
    /\ pc = "load_vertices" => \A v \in 1 .. cursor : Covered(v)

JInv ==
    /\ IInv
    /\ UpHasStream
    /\ LoadPhase
    /\ QueueContinuesLog
    /\ ResumableIsClosed
    /\ VerticesRecorded

LEMMA InitJInv == Init => JInv
<1> SUFFICES ASSUME Init PROVE JInv
  OBVIOUS
<1>1. IInv /\ ~Up /\ ~Reloading
  BY InitIInv DEF Init, Up, Reloading
<1>2. LoadPhase
  <2>1. pc = "down" /\ ~reload /\ cursor = 0 /\ vertices = 0
    BY DEF Init
  <2>2. QED  BY <1>1, <2>1 DEF LoadPhase
<1>3. UpHasStream /\ QueueContinuesLog
  BY <1>1 DEF Init, UpHasStream, QueueContinuesLog
<1>4. ResumableIsClosed /\ VerticesRecorded
  BY DEF Init, ResumableIsClosed, VerticesRecorded, AllDue, Resumable, NoStream
<1>5. QED  BY <1>1, <1>2, <1>3, <1>4 DEF JInv

LEMMA NextKeepsLoadPhase ==
    ASSUME JInv, IInv', [Next]_vars
    PROVE  LoadPhase'
<1>0. /\ cursor \in Nat /\ vertices \in Nat /\ cursor <= vertices
      /\ nodeState \in {"none", "LOAD", "SYNC"}
  BY DEF JInv, IInv, TypeOK, LoadPhase
<1>1. CASE BootRefused \/ BootReload \/ BootFails \/ BootDisabled
  BY <1>0, <1>1 DEF JInv, LoadPhase, Up, Reloading, BootRefused, BootReload, BootFails,
     BootDisabled, flags, volatile, durable
<1>2. CASE BootResume
  BY <1>0, <1>2 DEF JInv, LoadPhase, Up, Reloading, BootResume, flags, ShouldReload,
     ResumableIsClosed, Resumable
<1>3. CASE DeleteGroupKey \/ DeleteStreamKey \/ DropEvents \/ SaveStreamId
  BY <1>0, <1>3 DEF JInv, IInv, LoadPhase, Up, Reloading, DeleteGroupKey, DeleteStreamKey,
     DropEvents, SaveStreamId, flags, volatile, durable, KeyOrder
<1>4. CASE EmitLoadStarted \/ EmitLoadFinished \/ HandleEvent
  <2>1. events' # <<>>
    <3>1. PICK e : events' = Append(events, e)
      BY <1>4 DEF EmitLoadStarted, EmitLoadFinished, HandleEvent, Emit
    <3>2. events \in Seq(Event) /\ Len(events) \in Nat
      BY DEF JInv, IInv, TypeOK
    <3>3. QED  BY <3>1, <3>2
  <2>2. QED
    BY <1>0, <1>4, <2>1 DEF JInv, LoadPhase, Up, Reloading, EmitLoadStarted,
       EmitLoadFinished, HandleEvent, flags
<1>5. CASE MarkLoad \/ LoadDone \/ MarkSync \/ StartRunning \/ CallNext \/ PutGroup
           \/ Drained
  BY <1>0, <1>5 DEF JInv, LoadPhase, Up, Reloading, MarkLoad, LoadDone, MarkSync,
     StartRunning, CallNext, PutGroup, Drained, flags, volatile, durable
<1>6. CASE LoadBatch
  <2>1. BatchLength \in Nat /\ BatchLength > 0 /\ cursor + BatchLength <= vertices
    BY <1>0, <1>6, ManagerAssumption DEF LoadBatch, BatchLength, Min2
  <2>2. /\ cursor' = cursor + BatchLength /\ vertices' = vertices /\ pc = "load_vertices"
        /\ pc' = pc /\ reload' = reload /\ nodeState' = nodeState
    BY <1>6 DEF LoadBatch, flags
  <2>3. events' # <<>>
    BY <1>6, <2>1, <2>2, StepAppends DEF JInv, IInv, TypeOK, UpHasStream, Up, LoadBatch, LoadPhase
  <2>4. QED
    BY <1>0, <2>1, <2>2, <2>3 DEF JInv, LoadPhase, Up, Reloading
<1>7. CASE \/ \E reorg, changed \in BOOLEAN : AcceptVertex(reorg, changed)
           \/ AcceptVertexUnqueued
  BY <1>0, <1>7 DEF JInv, LoadPhase, Up, Reloading, AcceptVertex, AcceptVertexUnqueued,
     volatile, durable
<1>8. CASE Stop \/ Crash \/ Kill
  BY <1>0, <1>8 DEF JInv, LoadPhase, Up, Reloading, Stop, Crash, Kill, ForgetMemory, flags
<1>9. CASE CrashUnqueued \/ ResetCommand \/ DeleteNodeState \/ DeleteEnabledKey
           \/ UNCHANGED vars
  BY <1>0, <1>9 DEF JInv, LoadPhase, Up, Reloading, CrashUnqueued, ResetCommand,
     DeleteNodeState, DeleteEnabledKey, vars, flags, volatile, durable
<1>10. QED
  BY <1>1, <1>2, <1>3, <1>4, <1>5, <1>6, <1>7, <1>8, <1>9 DEF Next

(* How queues are put together and taken apart.                            *)
LEMMA ReplaysEmpty ==
    ASSUME NEW a \in BOOLEAN
    PROVE  Replays(<<>>, a, a)
<1> DEFINE open == [i \in 1 .. 1 |-> a]
<1>1. Len(<<>>) = 0
  OBVIOUS
<1>2. open \in [1 .. 1 -> BOOLEAN] /\ open[1] = a
  OBVIOUS
<1> HIDE DEF open
<1>3. 0 + 1 = 1 /\ \A i \in 1 .. 0 : FALSE
  OBVIOUS
<1>4. QED  BY <1>1, <1>2, <1>3 DEF Replays

LEMMA ReplaysOne ==
    ASSUME NEW e, NEW a \in BOOLEAN, NEW b \in BOOLEAN, Turns(e.type, a, b)
    PROVE  Replays(<<e>>, a, b)
<1> DEFINE open == [i \in 1 .. 2 |-> IF i = 1 THEN a ELSE b]
<1>1. Len(<<e>>) = 1 /\ <<e>>[1] = e
  OBVIOUS
<1>2. open \in [1 .. 2 -> BOOLEAN] /\ open[1] = a /\ open[2] = b
  OBVIOUS
<1> HIDE DEF open
<1>3. \A i \in 1 .. 1 : i = 1
  OBVIOUS
<1>4. QED  BY <1>1, <1>2, <1>3 DEF Replays

LEMMA ReplaysConcat ==
    ASSUME NEW S, NEW p \in Seq(S), NEW q \in Seq(S),
           NEW a \in BOOLEAN, NEW b \in BOOLEAN, NEW c \in BOOLEAN,
           Replays(p, a, b), Replays(q, b, c)
    PROVE  Replays(p \o q, a, c)
<1> DEFINE m == Len(p)
           n == Len(q)
           r == p \o q
<1>1. /\ m \in Nat /\ n \in Nat /\ Len(r) = m + n
      /\ \A i \in 1 .. m : r[i] = p[i]
      /\ \A i \in m + 1 .. m + n : r[i] = q[i - m] /\ i - m \in 1 .. n
  OBVIOUS
<1>2. PICK f \in [1 .. m + 1 -> BOOLEAN] :
        /\ f[1] = a /\ f[m + 1] = b
        /\ \A i \in 1 .. m : Turns(p[i].type, f[i], f[i + 1])
  BY DEF Replays
<1>3. PICK g \in [1 .. n + 1 -> BOOLEAN] :
        /\ g[1] = b /\ g[n + 1] = c
        /\ \A i \in 1 .. n : Turns(q[i].type, g[i], g[i + 1])
  BY DEF Replays
<1> DEFINE o == [i \in 1 .. m + n + 1 |-> IF i <= m THEN f[i] ELSE g[i - m]]
<1> HIDE DEF m, n, r
<1>4. \A i \in 1 .. m + n + 1 : ~(i <= m) => i - m \in 1 .. n + 1
  BY <1>1
<1>5. o \in [1 .. m + n + 1 -> BOOLEAN]
  <2>1. ASSUME NEW i \in 1 .. m + n + 1
        PROVE  (IF i <= m THEN f[i] ELSE g[i - m]) \in BOOLEAN
    <3>1. CASE i <= m
      BY <3>1, <1>1
    <3>2. CASE ~(i <= m)
      BY <3>2, <1>4
    <3>3. QED  BY <3>1, <3>2
  <2>2. QED  BY <2>1
<1>6. \A i \in m + 1 .. m + n + 1 : o[i] = g[i - m]
  BY <1>1
<1>7. \A i \in 1 .. m + 1 : o[i] = f[i]
  <2>1. \A i \in 1 .. m : o[i] = f[i]
    BY <1>1
  <2>2. o[m + 1] = f[m + 1]
    <3>1. m + 1 \in m + 1 .. m + n + 1 /\ (m + 1) - m = 1
      BY <1>1
    <3>2. QED  BY <3>1, <1>2, <1>3, <1>6
  <2>3. QED  BY <2>1, <2>2, <1>1
<1> HIDE DEF o
<1>8. ASSUME NEW i \in 1 .. m + n
      PROVE  Turns(r[i].type, o[i], o[i + 1])
  <2>1. CASE i \in 1 .. m
    <3>1. r[i] = p[i] /\ o[i] = f[i] /\ o[i + 1] = f[i + 1]
      BY <2>1, <1>1, <1>7
    <3>2. QED  BY <2>1, <3>1, <1>2
  <2>2. CASE i \in m + 1 .. m + n
    <3>1. /\ i \in m + 1 .. m + n + 1 /\ i + 1 \in m + 1 .. m + n + 1
          /\ (i + 1) - m = (i - m) + 1
      BY <2>2, <1>1
    <3>2. /\ r[i] = q[i - m] /\ o[i] = g[i - m] /\ o[i + 1] = g[(i - m) + 1]
          /\ i - m \in 1 .. n
      BY <2>2, <3>1, <1>1, <1>6
    <3>3. QED  BY <3>2, <1>3
  <2>3. QED  BY <2>1, <2>2, <1>1
<1>9. o[1] = a
  BY <1>1, <1>2, <1>7
<1>10. o[m + n + 1] = c
  <2>1. m + n + 1 \in m + 1 .. m + n + 1 /\ (m + n + 1) - m = n + 1
    BY <1>1
  <2>2. QED  BY <2>1, <1>3, <1>6
<1>11. Replays(r, a, c)
  BY <1>1, <1>5, <1>8, <1>9, <1>10 DEF Replays
<1>12. QED  BY <1>11 DEF r

LEMMA ReplaysTail ==
    ASSUME NEW q \in Seq(Pending), q # <<>>, NEW a \in BOOLEAN, NEW c \in BOOLEAN,
           Replays(q, a, c)
    PROVE  \E b \in BOOLEAN : Turns(Head(q).type, a, b) /\ Replays(Tail(q), b, c)
<1> DEFINE n == Len(q)
<1>1. PICK open \in [1 .. n + 1 -> BOOLEAN] :
        /\ open[1] = a /\ open[n + 1] = c
        /\ \A i \in 1 .. n : Turns(q[i].type, open[i], open[i + 1])
  BY DEF Replays
<1>2. /\ n \in Nat /\ n > 0 /\ Len(Tail(q)) = n - 1 /\ Head(q) = q[1]
      /\ \A i \in 1 .. n - 1 : Tail(q)[i] = q[i + 1]
  OBVIOUS
<1> HIDE DEF n
<1> DEFINE o == [i \in 1 .. n |-> open[i + 1]]
<1>3. \A i \in 1 .. n : i + 1 \in 1 .. n + 1
  BY <1>2
<1>4. o \in [1 .. n -> BOOLEAN] /\ \A i \in 1 .. n : o[i] = open[i + 1]
  BY <1>3
<1> HIDE DEF o
<1>5. o[1] = open[2] /\ o[n] = c /\ open[2] \in BOOLEAN
  BY <1>1, <1>2, <1>4
<1>6. ASSUME NEW i \in 1 .. n - 1
      PROVE  Turns(Tail(q)[i].type, o[i], o[i + 1])
  <2>1. i \in 1 .. n /\ i + 1 \in 1 .. n
    BY <1>2
  <2>2. QED  BY <2>1, <1>1, <1>2, <1>4
<1>7. (n - 1) + 1 = n
  BY <1>2
<1>8. Replays(Tail(q), open[2], c)
  BY <1>2, <1>4, <1>5, <1>6, <1>7 DEF Replays
<1>9. Turns(Head(q).type, a, open[2])
  BY <1>1, <1>2
<1>10. QED  BY <1>5, <1>8, <1>9

(* What the acceptance of a vertex publishes opens and closes its group.   *)
LEMMA PublishedReplays ==
    ASSUME NEW reorg \in BOOLEAN, NEW changed \in BOOLEAN, NEW v \in 0 .. MaxVertices
    PROVE  Replays(Published(reorg, changed, v), FALSE, FALSE)
<1> DEFINE s == [type |-> "REORG_STARTED", vertex |-> NoVertex]
           c == [type |-> "VERTEX_METADATA_CHANGED", vertex |-> v]
           f == [type |-> "REORG_FINISHED", vertex |-> NoVertex]
           a == [type |-> "NEW_VERTEX_ACCEPTED", vertex |-> v]
           meta == IF changed THEN <<c>> ELSE <<>>
<1>0. /\ <<s>> \in Seq(Pending) /\ <<f>> \in Seq(Pending) /\ <<a>> \in Seq(Pending)
      /\ meta \in Seq(Pending)
  <2>1. s \in Pending /\ c \in Pending /\ f \in Pending /\ a \in Pending
    BY ManagerAssumption DEF Pending, Types, NoVertex
  <2> HIDE DEF s, c, f, a
  <2>2. QED  BY <2>1
<1>1. /\ Replays(<<s>>, FALSE, TRUE) /\ Replays(<<f>>, TRUE, FALSE)
      /\ Replays(<<a>>, FALSE, FALSE)
  BY ReplaysOne DEF Turns
<1>2. \A b \in BOOLEAN : Replays(meta, b, b)
  BY ReplaysOne, ReplaysEmpty DEF Turns
<1>3. Published(reorg, changed, v) =
        IF reorg THEN ((<<s>> \o meta) \o <<f>>) \o <<a>> ELSE meta \o <<a>>
  BY DEF Published
<1> HIDE DEF s, f, a, meta
<1>4. <<s>> \o meta \in Seq(Pending) /\ (<<s>> \o meta) \o <<f>> \in Seq(Pending)
  BY <1>0
<1>5. CASE ~reorg
  BY <1>0, <1>1, <1>2, <1>3, <1>5, ReplaysConcat
<1>6. CASE reorg
  <2>1. Replays(<<s>> \o meta, FALSE, TRUE)
    BY <1>0, <1>1, <1>2, ReplaysConcat
  <2>2. Replays((<<s>> \o meta) \o <<f>>, FALSE, FALSE)
    BY <2>1, <1>0, <1>1, <1>4, ReplaysConcat
  <2>3. Replays(((<<s>> \o meta) \o <<f>>) \o <<a>>, FALSE, FALSE)
    BY <2>2, <1>0, <1>1, <1>4, ReplaysConcat
  <2>4. QED  BY <2>3, <1>3, <1>6
<1>7. QED  BY <1>5, <1>6

LEMMA NextKeepsQueueContinuesLog ==
    ASSUME JInv, IInv', [Next]_vars
    PROVE  QueueContinuesLog'
<1>0. /\ queue \in Seq(Pending)
      /\ pc \notin {"serving", "draining", "put_group"} => queue = <<>>
      /\ Up /\ pc \notin {"draining", "put_group"} => GroupIsClosed(last)
      /\ Up => Replays(queue, GroupIsOpen, FALSE)
  BY DEF JInv, IInv, TypeOK, QueueContinuesLog
<1>e. Replays(<<>>, FALSE, FALSE)
  BY ReplaysEmpty
<1>1. ASSUME ~Up', queue' = <<>>
      PROVE  QueueContinuesLog'
  BY <1>1 DEF QueueContinuesLog, Up
<1>2. ASSUME Up', queue' = <<>>, GroupIsClosed(last')
      PROVE  QueueContinuesLog'
  <2>1. GroupIsOpen' = FALSE
    BY <1>2 DEF GroupIsOpen
  <2>2. QED  BY <1>2, <2>1, <1>e DEF QueueContinuesLog
<1>3. CASE BootRefused \/ BootReload \/ BootFails \/ BootDisabled
  <2>1. queue' = <<>> /\ ~Up'
    BY <1>0, <1>3 DEF BootRefused, BootReload, BootFails, BootDisabled, volatile, Up
  <2>2. QED  BY <2>1, <1>1
<1>4. CASE BootResume
  <2>1. queue' = <<>> /\ Up' /\ GroupIsClosed(last')
    BY <1>0, <1>4 DEF BootResume, Up
  <2>2. QED  BY <2>1, <1>2
<1>5. CASE DeleteGroupKey \/ DeleteStreamKey \/ DropEvents
  <2>1. queue' = <<>> /\ ~Up'
    BY <1>0, <1>5 DEF DeleteGroupKey, DeleteStreamKey, DropEvents, volatile, Up
  <2>2. QED  BY <2>1, <1>1
<1>6. CASE SaveStreamId
  <2>1. queue' = <<>> /\ Up' /\ last' = NoLast
    BY <1>0, <1>6 DEF SaveStreamId, JInv, IInv, MemoryBlank, volatile, Up
  <2>2. GroupIsClosed(last')
    BY <2>1, NoLastType DEF GroupIsClosed
  <2>3. QED  BY <2>1, <2>2, <1>2
<1>7. CASE EmitLoadStarted \/ EmitLoadFinished
  <2>1. queue' = <<>> /\ Up' /\ GroupIsClosed(last)
    BY <1>0, <1>7 DEF EmitLoadStarted, EmitLoadFinished, Up
  <2>2. GroupIsClosed(last')
    BY <1>7, <2>1 DEF EmitLoadStarted, EmitLoadFinished, Emit, NewEvent, GroupFor,
       GroupIsClosed, NoGroup
  <2>3. QED  BY <2>1, <2>2, <1>2
<1>8. CASE LoadBatch
  <2>1. queue' = <<>> /\ Up' /\ GroupIsClosed(last)
    BY <1>0, <1>8 DEF LoadBatch, Up
  <2>2. GroupIsClosed(last')
    BY <1>8, <2>1 DEF LoadBatch, GroupFor, GroupIsClosed, NoGroup
  <2>3. QED  BY <2>1, <2>2, <1>2
<1>9. CASE MarkLoad \/ LoadDone \/ MarkSync \/ StartRunning
  <2>1. queue' = <<>> /\ Up' /\ GroupIsClosed(last) /\ last' = last
    BY <1>0, <1>9 DEF MarkLoad, LoadDone, MarkSync, StartRunning, volatile, Up
  <2>2. QED  BY <2>1, <1>2
<1>10. ASSUME NEW reorg \in BOOLEAN, NEW changed \in BOOLEAN, AcceptVertex(reorg, changed)
       PROVE  QueueContinuesLog'
  <2> DEFINE p == Published(reorg, changed, vertices + 1)
  <2>1. /\ pc = "serving" /\ pc' = pc /\ last' = last /\ queue' = queue \o p
        /\ vertices + 1 \in 0 .. MaxVertices
    BY <1>10 DEF AcceptVertex, JInv, IInv, TypeOK
  <2>2. Replays(p, FALSE, FALSE) /\ p \in Seq(Pending)
    BY <2>1, PublishedReplays, PublishedType
  <2> HIDE DEF p
  <2>3. GroupIsOpen = FALSE /\ GroupIsOpen' = FALSE /\ Up'
    BY <1>0, <2>1 DEF GroupIsOpen, Up
  <2>4. Replays(queue, FALSE, FALSE)
    BY <1>0, <2>1, <2>3 DEF Up
  <2>5. Replays(queue', FALSE, FALSE)
    BY <1>0, <2>1, <2>2, <2>4, ReplaysConcat
  <2>6. QED  BY <1>0, <2>1, <2>3, <2>5 DEF QueueContinuesLog, GroupIsOpen
<1>11. CASE AcceptVertexUnqueued \/ CrashUnqueued \/ ResetCommand \/ DeleteNodeState
            \/ DeleteEnabledKey
  <2>1. queue' = <<>> /\ ~Up'
    BY <1>0, <1>11 DEF AcceptVertexUnqueued, CrashUnqueued, ResetCommand,
       DeleteNodeState, DeleteEnabledKey, volatile, Up
  <2>2. QED  BY <2>1, <1>1
<1>12. CASE CallNext \/ PutGroup \/ UNCHANGED vars
  <2>1. queue' = queue /\ last' = last /\ (Up' => Up)
    BY <1>12 DEF CallNext, PutGroup, vars, volatile, Up
  <2>2. GroupIsOpen' = GroupIsOpen
    BY <2>1 DEF GroupIsOpen
  <2>3. Up' => Replays(queue, GroupIsOpen, FALSE)'
    BY <2>1, <2>2, <1>0
  <2>4. QED
    BY <1>0, <1>12, <2>1, <2>3 DEF QueueContinuesLog, CallNext, PutGroup, vars, Up
<1>13. CASE HandleEvent
  <2> DEFINE t == Head(queue).type
  <2>1. /\ pc = "draining" /\ queue # <<>> /\ queue' = Tail(queue)
        /\ Up /\ Up' /\ pc' \in {"put_group", "draining"}
        /\ GroupIsOpen \in BOOLEAN
    BY <1>13 DEF HandleEvent, Up, GroupIsOpen
  <2>2. PICK b \in BOOLEAN : Turns(t, GroupIsOpen, b) /\ Replays(Tail(queue), b, FALSE)
    BY <1>0, <2>1, ReplaysTail
  <2>3. /\ last' = NewEvent(t, Head(queue).vertex)
        /\ group + 1 # NoGroup
    BY <1>13 DEF HandleEvent, Emit, JInv, IInv, TypeOK, Ids, NoGroup
  <2>4. last'.group = GroupFor(t) /\ last'.type = t
    BY <2>3 DEF NewEvent
  <2> HIDE DEF t
  <2>5. GroupIsOpen' = b
    BY <2>2, <2>3, <2>4 DEF GroupIsOpen, GroupIsClosed, GroupFor, Turns
  <2>6. Replays(queue, GroupIsOpen, FALSE)'
    BY <2>1, <2>2, <2>5
  <2>7. QED  BY <2>1, <2>6 DEF QueueContinuesLog
<1>14. CASE Drained
  <2>1. queue = <<>> /\ queue' = queue /\ last' = last /\ Up /\ Up'
    BY <1>14 DEF Drained, volatile, Up
  <2>2. PICK open \in [1 .. Len(queue) + 1 -> BOOLEAN] :
          open[1] = GroupIsOpen /\ open[Len(queue) + 1] = FALSE
    BY <1>0, <2>1 DEF Replays
  <2>3. Len(queue) + 1 = 1
    BY <2>1
  <2>4. GroupIsClosed(last')
    BY <2>1, <2>2, <2>3 DEF GroupIsOpen
  <2>5. QED  BY <2>1, <2>4, <1>2
<1>15. CASE Stop \/ Crash \/ Kill
  <2>1. queue' = <<>> /\ ~Up'
    BY <1>15 DEF Stop, Crash, Kill, ForgetMemory, Up
  <2>2. QED  BY <2>1, <1>1
<1>16. QED
  BY <1>3, <1>4, <1>5, <1>6, <1>7, <1>8, <1>9, <1>10, <1>11, <1>12, <1>13, <1>14, <1>15
  DEF Next

LEMMA NextKeepsResumableIsClosed ==
    ASSUME JInv, IInv', [Next]_vars
    PROVE  ResumableIsClosed'
<1> SUFFICES ASSUME ~Up', Resumable'
             PROVE  events' # <<>> /\ GroupIsClosed(LastStored)'
  BY DEF ResumableIsClosed
<1>1. CASE BootRefused \/ BootReload \/ BootFails \/ BootDisabled \/ ResetCommand
           \/ DeleteGroupKey \/ UNCHANGED vars \/ AcceptVertexUnqueued
  <2>1. ~Up /\ Resumable /\ events' = events
    BY <1>1 DEF BootRefused, BootReload, BootFails, BootDisabled, ResetCommand,
       DeleteGroupKey, AcceptVertexUnqueued, vars, durable, flags, Up, Resumable, Startable
  <2>2. QED  BY <2>1 DEF JInv, ResumableIsClosed, LastStored, GroupIsClosed
<1>2. CASE DeleteStreamKey \/ DropEvents
  BY <1>2 DEF DeleteStreamKey, DropEvents, JInv, IInv, ResetOrder, Resumable
<1>3. CASE CrashUnqueued \/ Crash \/ DeleteNodeState \/ DeleteEnabledKey
  BY <1>3 DEF CrashUnqueued, Crash, DeleteNodeState, DeleteEnabledKey, JInv, IInv,
     ResetOrder, Resumable, Startable
<1>4. CASE Stop \/ Kill
  <2>1. events' = events /\ nodeState = "SYNC" /\ streamKey # NoStream
    BY <1>4 DEF Stop, Kill, Resumable, durable
  <2>2. CASE Up
    <3>1. pc \notin {"draining", "put_group"}
      BY <1>4, <2>2 DEF Stop, Kill, Resumable, Startable, JInv, IInv, KeyOrder, flags, Up
    <3>2. events # <<>> /\ GroupIsClosed(LastStored)
      BY <2>1, <2>2, <3>1 DEF JInv, IInv, MemoryAgrees, QueueContinuesLog, LoadPhase
    <3>3. QED  BY <2>1, <3>2 DEF LastStored, GroupIsClosed
  <2>3. CASE ~Up
    <3>1. Resumable
      BY <1>4, <2>1, <2>3 DEF Stop, Kill, Resumable, Startable, JInv, IInv, KeyOrder,
         flags, Up
    <3>2. QED  BY <2>1, <2>3, <3>1 DEF JInv, ResumableIsClosed, LastStored, GroupIsClosed
  <2>4. QED  BY <2>2, <2>3
<1>5. CASE \/ BootResume \/ SaveStreamId \/ EmitLoadStarted \/ MarkLoad \/ LoadBatch
           \/ LoadDone \/ EmitLoadFinished \/ MarkSync \/ StartRunning
           \/ \E reorg, changed \in BOOLEAN : AcceptVertex(reorg, changed)
           \/ CallNext \/ HandleEvent \/ PutGroup \/ Drained
  BY <1>5 DEF BootResume, SaveStreamId, EmitLoadStarted, MarkLoad, LoadBatch, LoadDone,
     EmitLoadFinished, MarkSync, StartRunning, AcceptVertex, CallNext, HandleEvent,
     PutGroup, Drained, Up
<1>6. QED  BY <1>1, <1>2, <1>3, <1>4, <1>5 DEF Next

----------------------------------------------------------------------------
(* Which vertices have their event.                                        *)

(* A step that keeps the stream id keeps the events of the vertices.       *)
LEMMA CoveredStays ==
    ASSUME IInv, IInv', [Next]_vars, streamKey' = streamKey, streamKey # NoStream,
           NEW v, Covered(v)
    PROVE  Covered(v)'
<1>1. /\ Len(events') >= Len(events)
      /\ \A i \in 1 .. Len(events) : events'[i] = events[i]
  BY StepAppends
<1>2. Len(events) \in Nat /\ Len(events') \in Nat
  BY DEF IInv, TypeOK
<1>3. PICK i \in 1 .. Len(events) :
        events[i].type = "NEW_VERTEX_ACCEPTED" /\ events[i].vertex = v
  BY DEF Covered
<1>4. i \in 1 .. Len(events') /\ events'[i] = events[i]
  BY <1>1, <1>2
<1>5. QED  BY <1>3, <1>4 DEF Covered

(* Handling the first event of the queue takes at most its vertex out.     *)
LEMMA QueuedTail ==
    ASSUME queue \in Seq(Pending), queue # <<>>, queue' = Tail(queue),
           NEW v \in QueuedVertices
    PROVE  \/ v \in QueuedVertices'
           \/ Head(queue).type = "NEW_VERTEX_ACCEPTED" /\ Head(queue).vertex = v
<1>1. PICK i \in 1 .. Len(queue) :
        queue[i].type = "NEW_VERTEX_ACCEPTED" /\ queue[i].vertex = v
  BY DEF QueuedVertices
<1>2. CASE i = 1
  BY <1>1, <1>2
<1>3. CASE i # 1
  <2>1. i - 1 \in 1 .. Len(queue') /\ queue'[i - 1] = queue[i]
    BY <1>3
  <2>2. QED  BY <1>1, <2>1 DEF QueuedVertices
<1>4. QED  BY <1>2, <1>3

(* Publishing adds the new vertex and keeps the others.                    *)
LEMMA QueuedConcat ==
    ASSUME queue \in Seq(Pending), NEW reorg \in BOOLEAN, NEW changed \in BOOLEAN,
           NEW u \in 0 .. MaxVertices, queue' = queue \o Published(reorg, changed, u)
    PROVE  QueuedVertices \cup {u} \subseteq QueuedVertices'
<1> DEFINE a == [type |-> "NEW_VERTEX_ACCEPTED", vertex |-> u]
           c == [type |-> "VERTEX_METADATA_CHANGED", vertex |-> u]
           meta == IF changed THEN <<c>> ELSE <<>>
           s == [type |-> "REORG_STARTED", vertex |-> NoVertex]
           f == [type |-> "REORG_FINISHED", vertex |-> NoVertex]
           x == IF reorg THEN (<<s>> \o meta) \o <<f>> ELSE meta
           p == Published(reorg, changed, u)
<1>1. p = x \o <<a>> /\ a.type = "NEW_VERTEX_ACCEPTED" /\ a.vertex = u
  BY DEF Published
<1>2. a \in Pending /\ c \in Pending /\ s \in Pending /\ f \in Pending
  BY ManagerAssumption DEF Pending, Types, NoVertex
<1> HIDE DEF a, c, s, f
<1>3. x \in Seq(Pending) /\ <<a>> \in Seq(Pending)
  BY <1>2
<1> HIDE DEF x
<1>4. p \in Seq(Pending) /\ Len(p) > 0 /\ p[Len(p)] = a
  BY <1>1, <1>3
<1> HIDE DEF p
<1>5. queue' = queue \o p
  BY DEF p
<1>6. /\ Len(queue') \in 1 .. Len(queue') /\ queue'[Len(queue')] = a
      /\ \A i \in 1 .. Len(queue) : i \in 1 .. Len(queue') /\ queue'[i] = queue[i]
  BY <1>4, <1>5
<1>7. u \in QueuedVertices'
  BY <1>1, <1>6 DEF QueuedVertices
<1>8. ASSUME NEW v \in QueuedVertices PROVE v \in QueuedVertices'
  BY <1>6 DEF QueuedVertices
<1>9. QED  BY <1>7, <1>8

(* A vertex stays recorded while the log grows and the queue is untouched. *)
LEMMA RecordedStays ==
    ASSUME IInv, IInv', [Next]_vars, streamKey' = streamKey, streamKey # NoStream,
           queue' = queue, lost' = lost, NEW v, Recorded(v)
    PROVE  Recorded(v)'
<1>1. CASE Covered(v)
  BY <1>1, CoveredStays DEF Recorded
<1>2. CASE v \in QueuedVertices
  BY <1>2 DEF Recorded, QueuedVertices
<1>3. CASE v \in lost
  BY <1>3 DEF Recorded
<1>4. QED  BY <1>1, <1>2, <1>3 DEF Recorded

LEMMA LoadBatchCovers ==
    ASSUME JInv, IInv', LoadBatch
    PROVE  \A v \in 1 .. cursor' : Covered(v)'
<1> DEFINE n == BatchLength
           m == Len(events)
           e(i) == [id |-> last.id + i, type |-> "NEW_VERTEX_ACCEPTED",
                    group |-> GroupFor("NEW_VERTEX_ACCEPTED"), vertex |-> cursor + i]
           b == [i \in 1 .. n |-> e(i)]
<1>0. /\ pc = "load_vertices" /\ pc' = pc /\ streamKey' = streamKey
      /\ streamKey # NoStream
      /\ cursor' = cursor + n /\ events' = events \o b /\ [Next]_vars
  BY DEF LoadBatch, JInv, UpHasStream, Up, Next
<1>1. n \in Nat /\ cursor \in Nat /\ events \in Seq(Event) /\ m \in Nat
  BY ManagerAssumption DEF LoadBatch, JInv, IInv, TypeOK, BatchLength, Min2
<1>2. b \in Seq({e(i) : i \in 1 .. n}) /\ Len(b) = n
  BY <1>1
<1>3. \A i \in 1 .. n : b[i].type = "NEW_VERTEX_ACCEPTED" /\ b[i].vertex = cursor + i
  OBVIOUS
<1> HIDE DEF n, b
<1>4. \A i \in 1 .. n : m + i \in 1 .. Len(events') /\ events'[m + i] = b[i]
  BY <1>0, <1>1, <1>2
<1> SUFFICES ASSUME NEW v \in 1 .. cursor' PROVE Covered(v)'
  OBVIOUS
<1>5. CASE v \in 1 .. cursor
  <2>1. Covered(v)
    BY <1>0, <1>5 DEF JInv, VerticesRecorded
  <2>2. QED  BY <2>1, <1>0, CoveredStays DEF JInv
<1>6. CASE v \notin 1 .. cursor
  <2>1. v - cursor \in 1 .. n /\ cursor + (v - cursor) = v
    BY <1>0, <1>1, <1>6
  <2>2. QED  BY <2>1, <1>3, <1>4 DEF Covered
<1>7. QED  BY <1>5, <1>6

LEMMA NextKeepsVerticesRecorded ==
    ASSUME JInv, IInv', [Next]_vars
    PROVE  VerticesRecorded'
<1>0. /\ IInv /\ (AllDue => \A v \in 1 .. vertices : Recorded(v))
      /\ queue \in Seq(Pending) /\ vertices \in Nat
  BY DEF JInv, IInv, TypeOK, VerticesRecorded
<1>p. ASSUME pc' # "load_vertices", AllDue' => \A v \in 1 .. vertices' : Recorded(v)'
      PROVE  VerticesRecorded'
  BY <1>p DEF VerticesRecorded, AllDue, Up
<1>1. CASE BootRefused \/ BootReload \/ BootFails \/ BootDisabled \/ ResetCommand
           \/ DeleteGroupKey \/ (UNCHANGED vars /\ ~Up)
  <2>1. ~Up /\ ~Up' /\ (Resumable' => Resumable)
    BY <1>1 DEF BootRefused, BootReload, BootFails, BootDisabled, ResetCommand,
       DeleteGroupKey, vars, durable, flags, Up, Resumable, Startable
  <2>2. events' = events /\ vertices' = vertices /\ queue' = queue /\ lost' = lost
    BY <1>1 DEF BootRefused, BootReload, BootFails, BootDisabled, ResetCommand,
       DeleteGroupKey, vars, durable, flags, volatile, history
  <2>3. \A v : Recorded(v)' <=> Recorded(v)
    BY <2>2 DEF Recorded, Covered, QueuedVertices
  <2>4. AllDue' => AllDue
    BY <2>1 DEF AllDue, Up
  <2>5. QED  BY <1>0, <1>p, <2>1, <2>2, <2>3, <2>4 DEF Up
<1>2. CASE BootResume
  <2>1. ~Up /\ Resumable /\ pc' = "load_started"
    BY <1>2 DEF BootResume, Up, Resumable, ShouldReload, JInv, IInv, TypeOK
  <2>2. events' = events /\ vertices' = vertices /\ queue' = queue /\ lost' = lost
    BY <1>2 DEF BootResume, flags
  <2>3. \A v : Recorded(v)' <=> Recorded(v)
    BY <2>2 DEF Recorded, Covered, QueuedVertices
  <2>4. QED  BY <1>0, <1>p, <2>1, <2>2, <2>3 DEF AllDue
<1>3. CASE DeleteStreamKey \/ DropEvents \/ Crash \/ CrashUnqueued \/ DeleteNodeState
           \/ DeleteEnabledKey \/ AcceptVertexUnqueued
  <2>1. ~Up' /\ ~Resumable' /\ pc' # "load_vertices"
    BY <1>3 DEF DeleteStreamKey, DropEvents, Crash, CrashUnqueued, DeleteNodeState,
       DeleteEnabledKey, AcceptVertexUnqueued, JInv, IInv, ResetOrder, KeyOrder,
       Resumable, Startable, Up, durable
  <2>2. QED  BY <1>p, <2>1 DEF AllDue, Up
<1>4. CASE SaveStreamId
  <2>1. pc' = "load_started" /\ reload'
    BY <1>4 DEF SaveStreamId, JInv, LoadPhase, Reloading, volatile
  <2>2. QED  BY <1>p, <2>1 DEF AllDue, Up
<1>5. CASE \/ EmitLoadStarted \/ MarkLoad \/ EmitLoadFinished \/ MarkSync \/ StartRunning
           \/ CallNext \/ PutGroup \/ Drained
           \/ (UNCHANGED vars /\ Up /\ pc # "load_vertices")
  <2>1. /\ streamKey' = streamKey /\ streamKey # NoStream /\ vertices' = vertices
        /\ queue' = queue /\ lost' = lost /\ reload' = reload
    BY <1>5 DEF EmitLoadStarted, MarkLoad, EmitLoadFinished, MarkSync, StartRunning,
       CallNext, PutGroup, Drained, vars, durable, flags, volatile, history, JInv,
       UpHasStream, Up
  <2>2. \A v : Recorded(v) => Recorded(v)'
    BY <1>0, <2>1, RecordedStays
  <2>3. Up' /\ (AllDue' => AllDue)
    BY <1>5, <2>1 DEF EmitLoadStarted, MarkLoad, EmitLoadFinished, MarkSync,
       StartRunning, CallNext, PutGroup, Drained, vars, AllDue, Up
  <2>4. AllDue' => \A v \in 1 .. vertices' : Recorded(v)'
    BY <1>0, <2>1, <2>2, <2>3
  <2>5. pc' = "load_vertices" => cursor' = 0
    BY <1>5 DEF EmitLoadStarted, MarkLoad, EmitLoadFinished, MarkSync, StartRunning,
       CallNext, PutGroup, Drained, vars, volatile, JInv, LoadPhase
  <2>6. QED  BY <2>4, <2>5 DEF VerticesRecorded, AllDue, Up
<1>6. CASE LoadBatch
  <2>1. pc' = "load_vertices"
    BY <1>6 DEF LoadBatch
  <2>2. \A v \in 1 .. cursor' : Covered(v)'
    BY <1>6, LoadBatchCovers
  <2>3. QED  BY <2>1, <2>2 DEF VerticesRecorded, AllDue, Up
<1>7. CASE LoadDone \/ (UNCHANGED vars /\ pc = "load_vertices")
  <2>1. /\ pc = "load_vertices" /\ events' = events /\ vertices' = vertices
        /\ cursor' = cursor /\ (pc' # "load_vertices" => cursor = vertices)
    BY <1>7 DEF LoadDone, vars, durable, flags, volatile
  <2>2. \A v \in 1 .. cursor' : Covered(v)'
    BY <2>1 DEF JInv, VerticesRecorded, Covered
  <2>3. pc' = "load_vertices" \/ pc' = "load_finished"
    BY <1>7 DEF LoadDone, vars
  <2>4. QED  BY <2>1, <2>2, <2>3 DEF VerticesRecorded, AllDue, Recorded, Up
<1>8. ASSUME NEW reorg \in BOOLEAN, NEW changed \in BOOLEAN, AcceptVertex(reorg, changed)
      PROVE  VerticesRecorded'
  <2>1. /\ pc = "serving" /\ pc' = "serving" /\ vertices' = vertices + 1
        /\ vertices + 1 \in 0 .. MaxVertices /\ events' = events /\ lost' = lost
        /\ queue' = queue \o Published(reorg, changed, vertices + 1)
    BY <1>8 DEF AcceptVertex, JInv, IInv, TypeOK, durable, history
  <2>2. QueuedVertices \cup {vertices + 1} \subseteq QueuedVertices'
    BY <1>0, <2>1, QueuedConcat
  <2>3. ASSUME NEW v \in 1 .. vertices' PROVE Recorded(v)'
    <3>1. CASE v = vertices + 1
      BY <3>1, <2>2 DEF Recorded
    <3>2. CASE v # vertices + 1
      <4>1. v \in 1 .. vertices
        BY <3>2, <2>1, <1>0
      <4>2. Recorded(v)
        BY <4>1, <1>0, <2>1 DEF AllDue
      <4>3. QED  BY <4>2, <2>1, <2>2 DEF Recorded, Covered
    <3>3. QED  BY <3>1, <3>2
  <2>4. QED  BY <2>1, <2>3, <1>p
<1>9. CASE HandleEvent
  <2> DEFINE t == Head(queue).type
             u == Head(queue).vertex
  <2>1. /\ pc = "draining" /\ queue # <<>> /\ queue' = Tail(queue)
        /\ pc' \in {"draining", "put_group"} /\ vertices' = vertices /\ lost' = lost
        /\ streamKey' = streamKey /\ streamKey # NoStream
        /\ events' = Append(events, NewEvent(t, u))
    BY <1>9 DEF HandleEvent, Emit, flags, history, JInv, UpHasStream, Up
  <2>2. ASSUME t = "NEW_VERTEX_ACCEPTED", NEW v, v = u
        PROVE  Covered(v)'
    <3>1. NewEvent(t, u).type = t /\ NewEvent(t, u).vertex = u
      BY DEF NewEvent
    <3>2. /\ Len(events) + 1 \in 1 .. Len(events')
          /\ events'[Len(events) + 1] = NewEvent(t, u)
      BY <2>1 DEF JInv, IInv, TypeOK
    <3>3. QED  BY <2>2, <3>1, <3>2 DEF Covered
  <2>3. ASSUME NEW v \in 1 .. vertices' PROVE Recorded(v)'
    <3>1. Recorded(v)
      BY <1>0, <2>1 DEF AllDue
    <3>2. CASE Covered(v)
      BY <3>2, <2>1, <1>0, CoveredStays DEF Recorded
    <3>3. CASE v \in QueuedVertices
      BY <3>3, <2>1, <2>2, <1>0, QueuedTail DEF Recorded
    <3>4. CASE v \in lost
      BY <3>4, <2>1 DEF Recorded
    <3>5. QED  BY <3>1, <3>2, <3>3, <3>4 DEF Recorded
  <2>4. QED  BY <2>1, <2>3, <1>p
<1>10. CASE Stop \/ Kill
  <2>1. /\ events' = events /\ vertices' = vertices /\ pc' = "down" /\ ~Up'
        /\ nodeState' = nodeState /\ streamKey' = streamKey
        /\ QueuedVertices \subseteq lost' \/ Kill
        /\ lost \subseteq lost'
    BY <1>10 DEF Stop, Kill, Up, durable, flags
  <2> SUFFICES ASSUME Resumable', NEW v \in 1 .. vertices PROVE Recorded(v)'
    BY <1>p, <2>1 DEF AllDue
  <2>2. nodeState = "SYNC" /\ streamKey # NoStream
    BY <2>1 DEF Resumable
  <2>3. AllDue /\ (Kill => queue = <<>>)
    <3>1. CASE Stop
      BY <3>1, <1>10, <2>2 DEF Stop, AllDue, JInv, IInv, KeyOrder, Kill, QueueContinuesLog,
         Resumable, Startable, Up, flags
    <3>2. CASE Kill
      <4>1. pc \notin {"serving", "draining", "put_group", "idle"} /\ Startable
        BY <3>2 DEF Kill, Resumable, Startable, JInv, IInv, KeyOrder, flags
      <4>2. queue = <<>>
        BY <4>1 DEF JInv, QueueContinuesLog
      <4>3. AllDue
        BY <4>1, <2>2 DEF AllDue, JInv, LoadPhase, Resumable, Up
      <4>4. QED  BY <4>2, <4>3
    <3>3. QED  BY <3>1, <3>2, <1>10
  <2>4. Recorded(v)
    BY <1>0, <2>3
  <2>5. v \in QueuedVertices => v \in lost'
    BY <2>1, <2>3 DEF QueuedVertices
  <2>6. QED  BY <2>1, <2>4, <2>5 DEF Recorded, Covered
<1>11. QED
  BY <1>1, <1>2, <1>3, <1>4, <1>5, <1>6, <1>7, <1>8, <1>9, <1>10 DEF Next

LEMMA NextKeepsJInv == JInv /\ [Next]_vars => JInv'
<1> SUFFICES ASSUME JInv, [Next]_vars PROVE JInv'
  OBVIOUS
<1>1. IInv' /\ UpHasStream'
  BY NextKeepsIInv, NextKeepsUpHasStream DEF JInv
<1>2. LoadPhase' /\ QueueContinuesLog'
  BY <1>1, NextKeepsLoadPhase, NextKeepsQueueContinuesLog
<1>3. ResumableIsClosed' /\ VerticesRecorded'
  BY <1>1, NextKeepsResumableIsClosed, NextKeepsVerticesRecorded
<1>4. QED  BY <1>1, <1>2, <1>3 DEF JInv

(* The second inductive invariant, on the queue and the vertices, holds in *)
(* every behaviour.                                                        *)
THEOREM QueueInvariance == Spec => []JInv
BY InitJInv, NextKeepsJInv, PTL DEF Spec

(* No handler of the event manager raises: neither the id check of         *)
(* save_event nor the assertions on groups, whatever was in the pubsub     *)
(* queue and wherever an earlier run was interrupted.                      *)
THEOREM AssertionsHold == Spec => []NoAssertionFails
<1>1. JInv => NoAssertionFails
  <2> SUFFICES ASSUME JInv PROVE NoAssertionFails
    OBVIOUS
  <2>1. Up => last.id + 1 = Len(events) /\ LastStored = last
    BY DEF JInv, IInv, MemoryAgrees
  <2>2. ASSUME pc = "draining", queue # <<>>
        PROVE  GroupAssertions(Head(queue).type)
    <3>1. /\ queue \in Seq(Pending) /\ GroupIsOpen \in BOOLEAN
          /\ Replays(queue, GroupIsOpen, FALSE)
      BY <2>2 DEF JInv, IInv, TypeOK, QueueContinuesLog, GroupIsOpen, Up
    <3>2. PICK b \in BOOLEAN : Turns(Head(queue).type, GroupIsOpen, b)
      BY <2>2, <3>1, ReplaysTail
    <3>3. QED  BY <3>2 DEF Turns, GroupIsOpen, GroupAssertions
  <2>3. QED  BY <2>1, <2>2 DEF NoAssertionFails, Up
<1>2. QED  BY <1>1, QueueInvariance, PTL

(* A database that EventManager.start would resume has no open group and a *)
(* group counter that covers its groups, so that the unclosed-group        *)
(* assertion never stops a node that may start.                            *)
THEOREM ResumedLogsAreConsistent == Spec => []ResumableIsConsistent
<1>1. JInv => ResumableIsConsistent
  BY DEF JInv, IInv, TypeOK, ResumableIsClosed, Resumable, ResumableIsConsistent,
     GroupBound, GroupsBelow, Up
<1>2. QED  BY <1>1, QueueInvariance, PTL

(* No event gap: while the node serves, a vertex without an event is one   *)
(* whose event waits in the pubsub queue, or was there at a stop.          *)
THEOREM NoGap == Spec => []NoGapExceptLost
<1>1. JInv => NoGapExceptLost
  BY DEF JInv, VerticesRecorded, AllDue, Recorded, NoGapExceptLost
<1>2. QED  BY <1>1, QueueInvariance, PTL

(* The promise of docs/event-queue-feature.md:44, that no vertex is left   *)
(* without its event, is broken in one way only: by a stop while events    *)
(* wait in the pubsub queue.  Kills, crashes, reloads and resets are safe. *)
THEOREM GapsComeFromStops == Spec => [](lost = {} => EveryVertexHasItsEvent)
<1>1. JInv => (lost = {} => EveryVertexHasItsEvent)
  <2> SUFFICES ASSUME JInv, lost = {}, pc = "serving", queue = <<>>,
                      NEW v \in 1 .. vertices
               PROVE  Covered(v)
    BY DEF EveryVertexHasItsEvent
  <2>1. Len(queue) = 0
    OBVIOUS
  <2>2. QueuedVertices = {}
    BY <2>1 DEF QueuedVertices
  <2>3. Recorded(v)
    BY DEF JInv, VerticesRecorded, AllDue
  <2>4. QED  BY <2>2, <2>3 DEF Recorded
<1>2. QED  BY <1>1, QueueInvariance, PTL
=============================================================================
