------------------------------ MODULE EventLog ------------------------------
(***************************************************************************)
(* What the event queue promises a client that identifies its place in the *)
(* log by a stream id and an event id (docs/event-queue-feature.md): under *)
(* one stream id the log only grows and event i has id i, an id is never   *)
(* given to a second log, and events are discarded only while no stream id *)
(* is in force.  EventManager implements this specification, and           *)
(* EventStream, which serves the log, relies on it.                        *)
(***************************************************************************)
EXTENDS Naturals, Sequences

VARIABLES
    log,      \* the events, log[i] has id i - 1
    stream,   \* the stream id in force, NoStream when there is none
    used      \* stream ids ever in force are 1 .. used

vars == <<log, stream, used>>

NoStream == 0

Init == log = <<>> /\ stream = NoStream /\ used = 0

(* A new, never used, id for an empty log.                                 *)
Open ==
    /\ stream = NoStream
    /\ log = <<>>
    /\ used' = used + 1
    /\ stream' = used'
    /\ UNCHANGED log

(* One or several events, numbered from where the log ends.                *)
Extend ==
    /\ stream # NoStream
    /\ Len(log') > Len(log)
    /\ \A i \in 1 .. Len(log) : log'[i] = log[i]
    /\ \A i \in Len(log) + 1 .. Len(log') : log'[i].id = i - 1
    /\ UNCHANGED <<stream, used>>

Revoke ==
    /\ stream' = NoStream
    /\ UNCHANGED <<log, used>>

Discard ==
    /\ stream = NoStream
    /\ log' = <<>>
    /\ UNCHANGED <<stream, used>>

Next == Open \/ Extend \/ Revoke \/ Discard

Spec == Init /\ [][Next]_vars
=============================================================================
