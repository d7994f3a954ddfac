---------------------------- MODULE NodeStartup ----------------------------
(***************************************************************************)
(* Starts and stops of the node over its storage: HathorManager.start and  *)
(* stop (hathor/manager.py), the migrations (transaction_storage.py) and   *)
(* the initialization of the indexes (hathor/indexes/manager.py).          *)
(*                                                                         *)
(* Every durable write is a step and the process may be killed between any *)
(* two.  An index is the set of the vertices it was given.  A start may    *)
(* enable other indexes than the last one and may be of a newer version of *)
(* the software, which knows more migrations; this repository's migrations *)
(* all refuse to convert a database, so that they only mark a new one.     *)
(* Two starts never see the same second.                                   *)
(***************************************************************************)
EXTENDS Integers, FiniteSetsExt

CONSTANTS
    Vertices,
    Indexes,
    InMemory,        \* those without a name in the database
    EnabledChoices,  \* the sets of indexes a start may enable
    Migrations,      \* 1..n, in their order
    MaxStarts        \* bound

VARIABLES
    disk,        \* the column family tx
    cached,      \* dirty transactions of the cache
    content,     \* [index -> vertices it has]
    lastStarted, \* the attribute last_start
    indexStarted,\* the attributes INDEX_ATTR_PREFIX + name
    migration,   \* the column family migrations
    running,     \* the attribute manager_running
    crashed,     \* the attribute full_node_crashed
    pc,          \* where start() or stop() is, "down" without a process
    enabled,     \* iter_all_indexes()
    version,     \* migrations the software knows, 1..version
    todo,        \* what the loop at pc has left
    toInit,      \* indexes_to_init
    now,         \* started_at, that is the starts so far
    format,      \* history: the version that wrote a vertex
    lost         \* history: a kill in stop() lost vertices

durable == <<disk, lastStarted, indexStarted, migration, running, crashed>>
process == <<enabled, version, toInit, now>>
vars == <<durable, process, cached, content, pc, todo, format, lost>>

NullLastStartedAt == 1
NullIndexLastStartedAt == 0
NotStarted == 0
Started == 1
Completed == 100
Failed == -1

(* Indexes are numbered in the order of iter_all_indexes, migrations in    *)
(* that of _migrations.                                                    *)
StartupAssumption ==
    /\ Indexes \subseteq Nat /\ InMemory \subseteq Indexes
    /\ EnabledChoices \subseteq SUBSET Indexes
    /\ Migrations \subseteq Nat \ {0} /\ 1 \in Migrations
    /\ \A m \in Migrations : 1..m \subseteq Migrations

Init ==
    /\ disk = {} /\ cached = {}
    /\ content = [i \in Indexes |-> {}]
    /\ lastStarted = NullLastStartedAt
    /\ indexStarted = [i \in Indexes |-> NullIndexLastStartedAt]
    /\ migration = [m \in Migrations |-> NotStarted]
    /\ running = FALSE /\ crashed = FALSE
    /\ pc = "down" /\ enabled = {} /\ version = 1
    /\ todo = {} /\ toInit = {}
    /\ now = NullLastStartedAt
    /\ format = [v \in Vertices |-> 0] /\ lost = FALSE

(* The process ends: what was in memory only is gone.                      *)
Exit ==
    /\ pc' = "down"
    /\ cached' = {} /\ todo' = {} /\ toInit' = {} /\ enabled' = {}
    /\ content' = [i \in Indexes |-> IF i \in InMemory THEN {} ELSE content[i]]
    /\ UNCHANGED <<version, now, format>>

----------------------------------------------------------------------------
(* HathorManager.start; the storage of a node that crashed or was killed   *)
(* while it was running is refused.                                        *)
Start(indexes, v) ==
    /\ pc = "down" /\ ~crashed /\ ~running
    /\ now < NullLastStartedAt + MaxStarts
    /\ v >= version
    /\ enabled' = indexes /\ version' = v
    /\ now' = now + 1
    /\ pc' = "check" /\ todo' = 1..v
    /\ UNCHANGED <<durable, cached, content, toInit, format, lost>>

IsEmpty == disk = {}
ToRun == {m \in 1..version : migration[m] \in {NotStarted, Started}}
OutOfOrder(m) == m > 1 /\ migration[m] > migration[m - 1]

(* _check_and_apply_migrations, its first loop: all migrations of an empty *)
(* database are complete.                                                  *)
CheckMigration ==
    /\ pc = "check" /\ todo # {}
    /\ LET m == Min(todo)
       IN \/ /\ IsEmpty
             /\ migration' = [migration EXCEPT ![m] = Completed]
             /\ todo' = todo \ {m}
             /\ UNCHANGED <<process, cached, content, pc, format>>
          \/ /\ ~IsEmpty /\ migration[m] # Failed /\ ~OutOfOrder(m)
             /\ todo' = todo \ {m}
             /\ UNCHANGED <<migration, process, cached, content, pc, format>>
          \/ /\ ~IsEmpty /\ (migration[m] = Failed \/ OutOfOrder(m))
             /\ Exit
             /\ UNCHANGED migration
    /\ UNCHANGED <<disk, lastStarted, indexStarted, running, crashed, lost>>

(* Its second loop, which ends the node at the first migration.            *)
RunMigration ==
    /\ pc = "check" /\ todo = {} /\ ToRun # {}
    /\ migration' = [migration EXCEPT ![Min(ToRun)] = Started]
    /\ pc' = "migrate"
    /\ UNCHANGED <<disk, lastStarted, indexStarted, running, crashed>>
    /\ UNCHANGED <<process, cached, content, todo, format, lost>>

MigrationRaises ==
    /\ pc = "migrate"
    /\ migration' = [migration EXCEPT ![Min(ToRun)] = Failed]
    /\ Exit
    /\ UNCHANGED <<disk, lastStarted, indexStarted, running, crashed, lost>>

(* A mutant of NeedsInit: an index without a name is passed over.          *)
NeedsInitIfNamed(i) == i \notin InMemory /\ indexStarted[i] # lastStarted

(* An index that was not started together with the database is stale.      *)
NeedsInit(i) == i \in InMemory \/ indexStarted[i] # lastStarted

(* IndexesManager._manually_initialize.                                    *)
SelectIndexes ==
    /\ pc = "check" /\ todo = {} /\ ToRun = {}
    /\ toInit' = {i \in enabled : NeedsInit(i)}
    /\ todo' = toInit'
    /\ pc' = "unstamp"
    /\ UNCHANGED <<durable, cached, content, enabled, version, now, format, lost>>

Unstamp ==
    /\ pc = "unstamp" /\ todo # {}
    /\ indexStarted' = [indexStarted EXCEPT ![Min(todo)] =
                           IF Min(todo) \in InMemory THEN @ ELSE NullIndexLastStartedAt]
    /\ pc' = "clear"
    /\ UNCHANGED <<disk, lastStarted, migration, running, crashed>>
    /\ UNCHANGED <<process, cached, content, todo, format, lost>>

ForceClear ==
    /\ pc = "clear"
    /\ content' = [content EXCEPT ![Min(todo)] = {}]
    /\ todo' = todo \ {Min(todo)}
    /\ pc' = "unstamp"
    /\ UNCHANGED <<durable, process, cached, format, lost>>

StartBuild ==
    /\ pc = "unstamp" /\ todo = {}
    /\ todo' = IF toInit = {} THEN {} ELSE disk
    /\ pc' = "build"
    /\ UNCHANGED <<durable, process, cached, content, format, lost>>

InitLoopStep(v) ==
    /\ pc = "build" /\ v \in todo
    /\ content' = [i \in Indexes |-> IF i \in toInit THEN content[i] \cup {v} ELSE content[i]]
    /\ todo' = todo \ {v}
    /\ UNCHANGED <<durable, process, cached, pc, format, lost>>

(* update_last_started_at: the database first, then index by index.        *)
StampDatabase ==
    /\ pc = "build" /\ todo = {}
    /\ lastStarted' = now
    /\ todo' = enabled \ InMemory
    /\ pc' = "stamp"
    /\ UNCHANGED <<disk, indexStarted, migration, running, crashed>>
    /\ UNCHANGED <<process, cached, content, format, lost>>

StampIndex ==
    /\ pc = "stamp" /\ todo # {}
    /\ indexStarted' = [indexStarted EXCEPT ![Min(todo)] = now]
    /\ todo' = todo \ {Min(todo)}
    /\ UNCHANGED <<disk, lastStarted, migration, running, crashed>>
    /\ UNCHANGED <<process, cached, content, pc, format, lost>>

StartRunningManager ==
    /\ pc = "stamp" /\ todo = {}
    /\ running' = TRUE
    /\ pc' = "running"
    /\ UNCHANGED <<disk, lastStarted, indexStarted, migration, crashed>>
    /\ UNCHANGED <<process, cached, content, todo, format, lost>>

----------------------------------------------------------------------------
(* VertexHandler._unsafe_save_and_run_consensus.                           *)
Accept(v) ==
    /\ pc = "running" /\ v \notin disk \cup cached
    /\ cached' = cached \cup {v}
    /\ content' = [i \in Indexes |-> IF i \in enabled THEN content[i] \cup {v} ELSE content[i]]
    /\ format' = [format EXCEPT ![v] = version]
    /\ UNCHANGED <<durable, process, pc, todo, lost>>

(* remove_transaction, of a transaction the consensus discards.            *)
Remove(v) ==
    /\ pc = "running" /\ v \in disk \cup cached
    /\ cached' = cached \ {v}
    /\ disk' = disk \ {v}
    /\ content' = [i \in Indexes |-> IF i \in enabled THEN content[i] \ {v} ELSE content[i]]
    /\ UNCHANGED <<lastStarted, indexStarted, migration, running, crashed>>
    /\ UNCHANGED <<process, pc, todo, format, lost>>

(* An eviction or the flush thread, see TxCache.                           *)
Evict(v) ==
    /\ pc = "running" /\ v \in cached
    /\ disk' = disk \cup {v} /\ cached' = cached \ {v}
    /\ UNCHANGED <<lastStarted, indexStarted, migration, running, crashed>>
    /\ UNCHANGED <<process, content, pc, todo, format, lost>>

(* crash_and_exit: the reactor may still get to call stop().               *)
Crash ==
    /\ pc = "running"
    /\ crashed' = TRUE
    /\ UNCHANGED <<disk, lastStarted, indexStarted, migration, running, lost>>
    /\ \/ Exit
       \/ /\ pc' = "crashed"
          /\ UNCHANGED <<process, cached, content, todo, format>>

(* HathorManager.stop: the flag goes first, the flush comes last.          *)
Stop ==
    /\ pc \in {"running", "crashed"}
    /\ running' = FALSE
    /\ pc' = "stopping"
    /\ UNCHANGED <<disk, lastStarted, indexStarted, migration, crashed>>
    /\ UNCHANGED <<process, cached, content, todo, format, lost>>

FlushAndEnd ==
    /\ pc = "stopping"
    /\ disk' = disk \cup cached
    /\ Exit
    /\ UNCHANGED <<lastStarted, indexStarted, migration, running, crashed, lost>>

Kill ==
    /\ pc # "down"
    /\ lost' = (lost \/ (pc = "stopping" /\ cached # {}))
    /\ Exit
    /\ UNCHANGED durable

Next ==
    \/ \E indexes \in EnabledChoices, v \in Migrations : Start(indexes, v)
    \/ CheckMigration \/ RunMigration \/ MigrationRaises
    \/ SelectIndexes \/ Unstamp \/ ForceClear \/ StartBuild
    \/ StampDatabase \/ StampIndex \/ StartRunningManager
    \/ Crash \/ Stop \/ FlushAndEnd \/ Kill
    \/ \E v \in Vertices : InitLoopStep(v) \/ Accept(v) \/ Remove(v) \/ Evict(v)

Spec == Init /\ [][Next]_vars

----------------------------------------------------------------------------
\* The property.
INSTANCE NodeStartupSafety
=============================================================================
