------------------------ MODULE EventStreamSafety ------------------------
(* What the WebSocket side of the event queue keeps (module EventStream),  *)
(* and the safety properties of it.                                        *)
EXTENDS Integers, Sequences

CONSTANTS
    Conns,       \* protocol objects
    MaxEvents,   \* bound: events ever stored
    MaxWindow,   \* bound: largest window_size a client asks for
    MaxStarts    \* bound: accepted START_STREAM requests per connection

ASSUME StreamAssumption ==
    /\ MaxEvents \in Nat
    /\ MaxWindow \in Nat
    /\ MaxStarts \in Nat

VARIABLES
    running,     \* EventWebsocketFactory._is_running
    stored,      \* number of events in the event storage
    conn         \* the state of each protocol object

NoEvent == -1

NextExpected(k) == k.lastSent + 1

Unacked(k) == IF k.lastSent = NoEvent THEN 0 ELSE k.lastSent - k.ack

CanReceive(k, id) ==
    /\ k.active
    /\ id = NextExpected(k)
    /\ Unacked(k) < k.window

----------------------------------------------------------------------------
(* Properties.                                                             *)

(* No lost wakeup.  A registered connection whose stream is active, whose  *)
(* window has room and whose next event is already stored has a scheduled  *)
(* send_next_event_to_connection: broadcast_event skips an event that is   *)
(* not the next expected one, so nothing else would ever send it.          *)
NoLostWakeup ==
    \A c \in Conns :
        (/\ conn[c].link = "open"
         /\ CanReceive(conn[c], NextExpected(conn[c]))
         /\ NextExpected(conn[c]) < stored)
            => conn[c].calls > 0

(* Flow control, as the client sees it ("the number of events the client   *)
(* is able to process before acknowledging another event").  After an      *)
(* accepted request that names event n and a window w, and until the next  *)
(* accepted one, the client is sent n + 1, n + 2, ... in this order, each  *)
(* once and at most w of them, whatever was on its way before: broadcasts, *)
(* chains of scheduled sends left by earlier requests and by streams that  *)
(* were stopped, and refused requests interleave with the one that serves  *)
(* the request.                                                            *)
WindowRespected ==
    \A c \in Conns :
        /\ Len(conn[c].since) <= conn[c].window
        /\ \A i \in 1 .. Len(conn[c].since) : conn[c].since[i] = conn[c].ack + i

(* A stream has no gap.  When an event of a stream has been sent, so have  *)
(* all the events between the stream's starting point and it, whatever     *)
(* rewinds happened: _last_sent_event_id only moves to ids already sent.   *)
StreamHasNoGap ==
    \A c \in Conns : \A n \in conn[c].got :
        (conn[c].base + 1) .. n \subseteq conn[c].got
=============================================================================
