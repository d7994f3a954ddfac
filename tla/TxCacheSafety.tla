--------------------------- MODULE TxCacheSafety ----------------------------
(***************************************************************************)
(* What the cache storage promises about saved transactions, see TxCache.  *)
(***************************************************************************)
EXTENDS Naturals, SequencesExt

CONSTANT Txs
VARIABLES cache, dirty, disk, todo, thread, saved, torn, overtaken

(* A step of a call of the reactor.                                        *)
Step(op, t) == [op |-> op, tx |-> t]

(* A step of the reactor's call that is still to come.                     *)
Pending(op, t) == \E k \in DOMAIN todo : todo[k] = Step(op, t)

(* Somebody has cleared the mark of t and will write the last save.        *)
BeingWritten(t) ==
    \/ Pending("write", t)
    \/ thread.cur = t /\ thread.pc = "write"
    \/ thread.cur = t /\ thread.pc = "put" /\ thread.val >= saved[t]

(* The last saved version of t is on the disk, is marked and in the cache  *)
(* or just evicted from it, or is about to be written.                     *)
Survives(t) ==
    saved[t] # 0 => \/ disk[t] >= saved[t]
                    \/ t \in dirty /\ (t \in ToSet(cache) \/ Pending("evicted", t))
                    \/ BeingWritten(t)

(* An update is lost in no other way than by a put of the flush thread     *)
(* that was overtaken by a write of the reactor: what was saved last stays *)
(* in the cache, on its way to the disk or on the disk, whatever the order *)
(* of flushes, evictions, saves and removals.  So when nothing references  *)
(* the object any more, what is loaded from the disk is what was saved     *)
(* last (_flush_to_storage, _cache_popitem).                               *)
LastSaveSurvives == \A t \in Txs \ (torn \cup overtaken) : Survives(t)
=============================================================================
