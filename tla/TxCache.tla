------------------------------ MODULE TxCache ------------------------------
(***************************************************************************)
(* TransactionCacheStorage (hathor/transaction/storage/cache_storage.py)   *)
(* over the RocksDB storage: an LRU cache with a set of dirty              *)
(* transactions, flushed by a thread while the reactor goes on reading,    *)
(* saving, evicting and removing.                                          *)
(*                                                                         *)
(* A call of the reactor is a sequence of steps, each of which touches the *)
(* cache, the dirty set or the disk once; the thread runs between any two. *)
(* The weak references make all holders of a transaction share one object, *)
(* whose metadata is changed in place: obj[t] is its version.  A write     *)
(* serialises the version there is then, and puts it into the database     *)
(* after.  The thread can be overtaken in between; the reactor need not be *)
(* split, because only the reactor changes an object.  A version says how  *)
(* often the metadata was changed; 0 is a transaction that is not there.   *)
(***************************************************************************)
EXTENDS Naturals, SequencesExt

CONSTANTS
    Txs,
    Capacities,   \* the capacities given to set_capacity
    MaxVersion    \* bound: versions of a transaction

VARIABLES
    cache,      \* keys of the OrderedDict, the least recently used first
    dirty,      \* dirty_txs
    capacity,
    obj,        \* the version of the object in memory, of use while it is referenced
    held,       \* transactions the code on the reactor has a reference to
    disk,       \* the version in the column families tx and meta
    todo,       \* the steps left of the call the reactor is in
    thread,     \* the flush: [st, left, cur, pc, val]
    saved,      \* history: the version of the last save_transaction
    torn,       \* history: transactions removed while the thread held them
    overtaken   \* history: transactions written by the reactor while the thread
                \* had an older version serialised

vars == <<cache, dirty, capacity, obj, held, disk, todo, thread, saved, torn,
          overtaken>>
history == <<saved, torn, overtaken>>

\* The property, and the steps of a call.
INSTANCE TxCacheSafety

None == 0
Timer == [st |-> "timer", left |-> {}, cur |-> None, pc |-> "", val |-> 0]

Init ==
    /\ cache = <<>> /\ dirty = {}
    /\ capacity \in Capacities
    /\ obj = [t \in Txs |-> 0] /\ disk = [t \in Txs |-> 0]
    /\ held = {} /\ todo = <<>>
    /\ thread = Timer
    /\ saved = [t \in Txs |-> 0] /\ torn = {} /\ overtaken = {}

ReactorFree == todo = <<>>

(* Somebody has a reference, so the weak reference still leads to it.      *)
Referenced(t) ==
    \/ t \in ToSet(cache) \cup held
    \/ \E k \in DOMAIN todo : todo[k].tx = t
    \/ thread.cur = t /\ thread.pc # "fetch"

(* The capacities for which an eviction finds a transaction: set_capacity  *)
(* also takes 0, but then _update_cache pops from an empty cache.          *)
CacheAssumption == Capacities \subseteq Nat \ {0}

----------------------------------------------------------------------------
(* What the code on the reactor does.                                      *)

(* A new vertex, about to be saved for the first time.                     *)
NewTransaction(t) ==
    /\ ReactorFree
    /\ saved[t] = 0 /\ t \notin held \cup torn
    /\ obj' = [obj EXCEPT ![t] = 1]
    /\ held' = held \cup {t}
    /\ UNCHANGED <<cache, dirty, capacity, disk, todo, thread, history>>

(* _get_transaction: from the cache, through the weak reference, or from   *)
(* the disk.                                                               *)
GetTransaction(t) ==
    /\ ReactorFree
    /\ saved[t] # 0
    /\ obj' = IF Referenced(t) THEN obj ELSE [obj EXCEPT ![t] = disk[t]]
    /\ held' = held \cup {t}
    /\ todo' = <<Step("update", t)>>
    /\ UNCHANGED <<cache, dirty, capacity, disk, thread, history>>

(* The metadata is changed in place; the change is saved later.            *)
ChangeMetadata(t) ==
    /\ ReactorFree
    /\ t \in held /\ saved[t] # 0 /\ obj[t] < MaxVersion
    /\ obj' = [obj EXCEPT ![t] = @ + 1]
    /\ UNCHANGED <<cache, dirty, capacity, held, disk, todo, thread, history>>

SaveTransaction(t) ==
    /\ ReactorFree
    /\ t \in held
    /\ todo' = <<Step("update", t), Step("mark", t)>>
    /\ UNCHANGED <<cache, dirty, capacity, obj, held, disk, thread, history>>

(* The code drops its reference to a transaction without unsaved changes.  *)
Release(t) ==
    /\ ReactorFree
    /\ t \in held /\ obj[t] = saved[t]
    /\ held' = held \ {t}
    /\ UNCHANGED <<cache, dirty, capacity, obj, disk, todo, thread, history>>

(* remove_transaction, of a mempool transaction that became invalid.       *)
RemoveTransaction(t) ==
    /\ ReactorFree
    /\ t \in held /\ saved[t] # 0
    /\ todo' = <<Step("pop", t), Step("unmark", t), Step("delete", t)>>
    /\ held' = held \ {t}
    /\ saved' = [saved EXCEPT ![t] = 0]
    /\ UNCHANGED <<cache, dirty, capacity, obj, disk, thread, torn, overtaken>>

SetCapacity(c) ==
    /\ ReactorFree
    /\ capacity' = c
    /\ todo' = <<Step("shrink", None)>>
    /\ UNCHANGED <<cache, dirty, obj, held, disk, thread, history>>

(* flush(), also called by _get_all_transactions and is_empty: writes the  *)
(* dirty transactions of the cache, in the order of the copied set,        *)
(* without the thread.                                                     *)
Flush ==
    /\ ReactorFree
    /\ \E due \in SetToSeqs(dirty \cap ToSet(cache)) :
          todo' = [k \in 1 .. 2 * Len(due) |->
                      Step(IF k % 2 = 1 THEN "unmark" ELSE "write", due[(k + 1) \div 2])]
    /\ UNCHANGED <<cache, dirty, capacity, obj, held, disk, thread, history>>

----------------------------------------------------------------------------
(* The steps of a call, the last argument being what is left of it after.  *)

(* _cache_popitem: the evicted transaction is looked up in dirty_txs next. *)
CachePopitem(rest) ==
    /\ cache' = Tail(cache)
    /\ todo' = <<Step("evicted", Head(cache))>> \o rest
    /\ UNCHANGED <<dirty, disk, history>>

Evicted(t, rest) ==
    /\ todo' = IF t \in dirty THEN <<Step("unmark", t), Step("write", t)>> \o rest ELSE rest
    /\ UNCHANGED <<cache, dirty, disk, history>>

UpdateCache(t, rest) ==
    IF t \notin ToSet(cache) /\ Len(cache) >= capacity
    THEN CachePopitem(<<Step("insert", t)>> \o rest)
    ELSE /\ cache' = Append(RemoveFirst(cache, t), t)
         /\ todo' = rest
         /\ UNCHANGED <<dirty, disk, history>>

Insert(t, rest) ==
    /\ cache' = Append(cache, t)
    /\ todo' = rest
    /\ UNCHANGED <<dirty, disk, history>>

Mark(t, rest) ==
    /\ dirty' = dirty \cup {t}
    /\ saved' = [saved EXCEPT ![t] = obj[t]]
    /\ todo' = rest
    /\ UNCHANGED <<cache, disk, torn, overtaken>>

Unmark(t, rest) ==
    /\ dirty' = dirty \ {t}
    /\ todo' = rest
    /\ UNCHANGED <<cache, disk, history>>

(* If the thread is about to put an older version it will undo this write; *)
(* the transaction is not followed further by the property that is proved. *)
Write(t, rest) ==
    /\ disk' = [disk EXCEPT ![t] = obj[t]]
    /\ todo' = rest
    /\ overtaken' = IF thread.cur = t /\ thread.pc = "put" /\ thread.val < obj[t]
                    THEN overtaken \cup {t} ELSE overtaken
    /\ UNCHANGED <<cache, dirty, saved, torn>>

(* When the flush thread has the transaction in its hands it will write it *)
(* after the removal; the behaviour of such a transaction is not followed  *)
(* further.                                                                *)
Pop(t, rest) ==
    /\ cache' = RemoveFirst(cache, t)
    /\ todo' = rest
    /\ torn' = IF thread.cur = t /\ thread.pc # "fetch" THEN torn \cup {t} ELSE torn
    /\ UNCHANGED <<dirty, disk, saved, overtaken>>

Delete(t, rest) ==
    /\ disk' = [disk EXCEPT ![t] = 0]
    /\ todo' = rest
    /\ UNCHANGED <<cache, dirty, history>>

Shrink(rest) ==
    IF Len(cache) > capacity THEN CachePopitem(<<Step("shrink", None)>> \o rest)
    ELSE todo' = rest /\ UNCHANGED <<cache, dirty, disk, history>>

CallGoesOn ==
    /\ todo # <<>>
    /\ LET s == Head(todo)
           rest == Tail(todo)
       IN CASE s.op = "update" -> UpdateCache(s.tx, rest)
            [] s.op = "insert" -> Insert(s.tx, rest)
            [] s.op = "evicted" -> Evicted(s.tx, rest)
            [] s.op = "mark" -> Mark(s.tx, rest)
            [] s.op = "unmark" -> Unmark(s.tx, rest)
            [] s.op = "write" -> Write(s.tx, rest)
            [] s.op = "pop" -> Pop(s.tx, rest)
            [] s.op = "delete" -> Delete(s.tx, rest)
            [] s.op = "shrink" -> Shrink(rest)
    /\ UNCHANGED <<capacity, obj, held, thread>>

----------------------------------------------------------------------------
(* The flush thread, _flush_to_storage.                                    *)

StartFlushThread ==
    /\ ReactorFree /\ thread.st = "timer"
    /\ thread' = [Timer EXCEPT !.st = "running", !.left = dirty]
    /\ UNCHANGED <<cache, dirty, capacity, obj, held, disk, todo, history>>

(* `if tx_hash in self.cache'                                              *)
FlushCheck ==
    /\ thread.st = "running" /\ thread.pc = ""
    /\ \E t \in thread.left :
          thread' = IF t \in ToSet(cache)
                    THEN [thread EXCEPT !.left = @ \ {t}, !.cur = t, !.pc = "fetch"]
                    ELSE [thread EXCEPT !.left = @ \ {t}]
    /\ UNCHANGED <<cache, dirty, capacity, obj, held, disk, todo, history>>

(* A mutant of AfterFetch: the mark is cleared after the write.            *)
WriteFirst(pc) ==
    CASE pc = "fetch" -> "write" [] pc = "write" -> "put" [] pc = "put" -> "unmark" [] OTHER -> ""

(* The order of the steps: the mark is cleared before the object is        *)
(* written, so that a save during the write marks it again.                *)
AfterFetch(pc) ==
    CASE pc = "fetch" -> "unmark" [] pc = "unmark" -> "write" [] pc = "write" -> "put" [] OTHER -> ""

ThreadGoesTo(pc) ==
    thread' = IF pc = "" THEN [thread EXCEPT !.pc = "", !.cur = None, !.val = 0]
              ELSE [thread EXCEPT !.pc = pc]

(* self.cache[tx_hash]; evicted since the check it is a KeyError, which    *)
(* ends this flush.                                                        *)
FlushFetch ==
    /\ thread.pc = "fetch"
    /\ IF thread.cur \in ToSet(cache) THEN ThreadGoesTo(AfterFetch("fetch")) ELSE thread' = Timer
    /\ UNCHANGED <<cache, dirty, capacity, obj, held, disk, todo, history>>

FlushUnmark ==
    /\ thread.pc = "unmark"
    /\ dirty' = dirty \ {thread.cur}
    /\ ThreadGoesTo(AfterFetch("unmark"))
    /\ UNCHANGED <<cache, capacity, obj, held, disk, todo, history>>

(* store._save_transaction: the metadata is turned into bytes ...          *)
FlushSerialize ==
    /\ thread.pc = "write"
    /\ thread' = [thread EXCEPT !.pc = AfterFetch("write"), !.val = obj[thread.cur]]
    /\ UNCHANGED <<cache, dirty, capacity, obj, held, disk, todo, history>>

(* ... and then put into the database.                                     *)
FlushPut ==
    /\ thread.pc = "put"
    /\ disk' = [disk EXCEPT ![thread.cur] = thread.val]
    /\ ThreadGoesTo(AfterFetch("put"))
    /\ UNCHANGED <<cache, dirty, capacity, obj, held, todo, history>>

(* _cb_flush_thread: the next flush is scheduled.                          *)
FlushEnds ==
    /\ thread.st = "running" /\ thread.pc = "" /\ thread.left = {}
    /\ thread' = Timer
    /\ UNCHANGED <<cache, dirty, capacity, obj, held, disk, todo, history>>

Next ==
    \/ \E t \in Txs : \/ NewTransaction(t) \/ GetTransaction(t) \/ ChangeMetadata(t)
                      \/ SaveTransaction(t) \/ Release(t) \/ RemoveTransaction(t)
    \/ \E c \in Capacities : SetCapacity(c)
    \/ Flush \/ CallGoesOn
    \/ StartFlushThread \/ FlushCheck \/ FlushFetch \/ FlushUnmark
    \/ FlushSerialize \/ FlushPut \/ FlushEnds

Spec == Init /\ [][Next]_vars

----------------------------------------------------------------------------
(* A transaction that is loaded from the disk, when nothing references it  *)
(* any more, has its last saved update, however the flush thread, the      *)
(* evictions and the reactor's own flushes interleave: the comment on      *)
(* _cache_popitem, "write to disk so we don't lose the last update".       *)
(* Violated: the thread may hold an older version that it has serialised,  *)
(* and puts it over what the reactor has written.                          *)
NoUpdateIsLost ==
    \A t \in Txs \ torn : saved[t] # 0 /\ ~Referenced(t) => disk[t] >= saved[t]
=============================================================================
