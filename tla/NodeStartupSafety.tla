------------------------- MODULE NodeStartupSafety --------------------------
(***************************************************************************)
(* What a start promises to the node that runs, see NodeStartup.           *)
(***************************************************************************)
EXTENDS Integers

VARIABLES disk, cached, content, pc, enabled, version, format, lost

(* A node that runs has every index it enabled exactly as the storage is,  *)
(* whichever indexes the earlier runs had and wherever they were killed,   *)
(* and no vertex in it was written before a migration it takes as done.    *)
(* The window of stop() in which a kill loses vertices that persistent     *)
(* indexes keep is left out by the history variable lost.                  *)
RunsOnSoundStorage ==
    pc = "running" =>
        /\ ~lost => \A i \in enabled : content[i] = disk \cup cached
        /\ \A v \in disk \cup cached : format[v] >= version
=============================================================================
