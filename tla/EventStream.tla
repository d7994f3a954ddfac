---------------------------- MODULE EventStream ----------------------------
(***************************************************************************)
(* The WebSocket side of the event queue: EventWebsocketFactory            *)
(* (hathor/event/websocket/factory.py) and the per-connection flow control *)
(* of EventWebsocketProtocol (hathor/event/websocket/protocol.py).         *)
(*                                                                         *)
(* The persisted log is abstracted to the number `stored' of its events,   *)
(* whose ids are 0 .. stored - 1 (module EventManager shows that ids are   *)
(* consecutive).  An element of Conns is one protocol object, from its     *)
(* creation to its disposal; a client that reconnects uses another one.    *)
(* The client is arbitrary: any request may arrive at any time.            *)
(*                                                                         *)
(* `None' of the code is -1 for an event id, so that "next expected" is    *)
(* uniformly lastSent + 1.                                                 *)
(***************************************************************************)
EXTENDS EventStreamSafety

vars == <<running, stored, conn>>

OptionalId == NoEvent .. MaxEvents
Links == {"new", "open", "unregistered", "closing", "closed"}
Replies == {"none", "EVENT_WS_NOT_RUNNING", "STREAM_IS_ACTIVE",
            "STREAM_IS_INACTIVE", "ACK_TOO_SMALL", "ACK_TOO_LARGE"}

(* link       "open": registered in factory._connections; "unregistered":  *)
(*            opened while the factory was stopped; "closing": sendClose   *)
(*            was called, nothing is sent any more.                        *)
(* calls      pending reactor.callLater(0, send_next_event_to_connection)  *)
(* wire       event ids written to the socket and not yet read             *)
(* base, got  history: where the current stream started, what was sent     *)
(* since      history: what was sent since the last accepted request, in   *)
(*            the order in which the client reads it, repeats included     *)
(* reply      the last InvalidRequestResponse, "none" after a valid one    *)
Connection == [link : Links, active : BOOLEAN, lastSent : OptionalId,
               ack : OptionalId, window : 0 .. MaxWindow, calls : Nat,
               wire : Seq(0 .. MaxEvents), base : OptionalId,
               got : SUBSET (0 .. MaxEvents), since : Seq(0 .. MaxEvents),
               reply : Replies, starts : 0 .. MaxStarts]

NewConnection == [link |-> "new", active |-> FALSE, lastSent |-> NoEvent,
                  ack |-> NoEvent, window |-> 0, calls |-> 0, wire |-> <<>>,
                  base |-> NoEvent, got |-> {}, since |-> <<>>,
                  reply |-> "none", starts |-> 0]

TypeOK ==
    /\ running \in BOOLEAN
    /\ stored \in 0 .. MaxEvents
    /\ conn \in [Conns -> Connection]

----------------------------------------------------------------------------
(* Operations on one connection's state k.  The definitions named after a  *)
(* fault (..OffByOne, ..Unchecked, ..Without..) are mutants, used only to  *)
(* show that a property can fail.                                          *)

(* A write to a connection that is going away is swallowed, but the code   *)
(* advances _last_sent_event_id all the same.                              *)
SendEventResponse(k, id) ==
    IF k.link \in {"open", "unregistered"}
      THEN [k EXCEPT !.lastSent = id, !.wire = Append(@, id), !.got = @ \cup {id},
                     !.since = Append(@, id)]
      ELSE [k EXCEPT !.lastSent = id]

SendNextEventOnce(k) ==
    IF CanReceive(k, NextExpected(k)) /\ NextExpected(k) < stored
      THEN SendEventResponse(k, NextExpected(k))
      ELSE k

(* A chain that goes on while there are events, without asking again.      *)
SendNextUnchecked(k) ==
    IF k.active /\ NextExpected(k) < stored
      THEN [SendEventResponse(k, NextExpected(k)) EXCEPT !.calls = @ + 1]
      ELSE k

SendNextEvent(k) ==
    IF CanReceive(k, NextExpected(k)) /\ NextExpected(k) < stored
      THEN [SendEventResponse(k, NextExpected(k)) EXCEPT !.calls = @ + 1]
      ELSE k

AckUnchecked(k, id) == FALSE
AckTooSmall(k, id) == k.ack # NoEvent /\ id <= k.ack
AckTooLarge(k, id) == id # NoEvent /\ k.lastSent < id

AckError(k, id) == IF AckTooSmall(k, id) THEN "ACK_TOO_SMALL"
                   ELSE IF AckTooLarge(k, id) THEN "ACK_TOO_LARGE"
                   ELSE "none"

(* _last_sent_event_id is overwritten before the ack is validated.         *)
RewindTo(k, last) == [k EXCEPT !.lastSent = last]

StreamStarted(k, last, w) ==
    SendNextEvent([RewindTo(k, last) EXCEPT
        !.ack = last, !.window = w, !.active = TRUE, !.reply = "none",
        !.base = last, !.got = {}, !.since = <<>>, !.starts = @ + 1])

AckWithoutSend(k, id, w) ==
    [k EXCEPT !.ack = id, !.lastSent = id, !.window = w, !.reply = "none",
              !.since = <<>>]

AckAccepted(k, id, w) ==
    SendNextEvent([k EXCEPT !.ack = id, !.lastSent = id, !.window = w,
                            !.reply = "none", !.since = <<>>])

----------------------------------------------------------------------------

Init ==
    /\ running = TRUE
    /\ stored \in 0 .. MaxEvents
    /\ conn = [c \in Conns |-> NewConnection]

Talking(c) == conn[c].link \in {"open", "unregistered", "closing"}

(* onOpen -> factory.register                                              *)
Open(c) ==
    /\ conn[c].link = "new"
    /\ conn' = [conn EXCEPT ![c] =
         IF running THEN [@ EXCEPT !.link = "open"]
         ELSE [@ EXCEPT !.link = "unregistered", !.reply = "EVENT_WS_NOT_RUNNING"]]
    /\ UNCHANGED <<running, stored>>

(* onClose -> factory.unregister; what the client had not read is lost.    *)
Close(c) ==
    /\ Talking(c)
    /\ conn' = [conn EXCEPT ![c].link = "closed", ![c].wire = <<>>]
    /\ UNCHANGED <<running, stored>>

StartStream(c, last, w) ==
    /\ Talking(c)
    /\ ~conn[c].active
    /\ AckError(RewindTo(conn[c], last), last) = "none"
    /\ conn[c].starts < MaxStarts
    /\ conn' = [conn EXCEPT ![c] = StreamStarted(@, last, w)]
    /\ UNCHANGED <<running, stored>>

RejectStartActive(c) ==
    /\ Talking(c)
    /\ conn[c].active
    /\ conn' = [conn EXCEPT ![c].reply = "STREAM_IS_ACTIVE"]
    /\ UNCHANGED <<running, stored>>

RejectStartAck(c, last) ==
    LET k == RewindTo(conn[c], last) IN
    /\ Talking(c)
    /\ ~conn[c].active
    /\ AckError(k, last) # "none"
    /\ conn' = [conn EXCEPT ![c] = [k EXCEPT !.reply = AckError(k, last)]]
    /\ UNCHANGED <<running, stored>>

Ack(c, id, w) ==
    /\ Talking(c)
    /\ conn[c].active
    /\ AckError(conn[c], id) = "none"
    /\ conn' = [conn EXCEPT ![c] = AckAccepted(@, id, w)]
    /\ UNCHANGED <<running, stored>>

RejectAck(c, id) ==
    /\ Talking(c)
    /\ conn[c].active
    /\ AckError(conn[c], id) # "none"
    /\ conn' = [conn EXCEPT ![c].reply = AckError(conn[c], id)]
    /\ UNCHANGED <<running, stored>>

StopStream(c) ==
    /\ Talking(c)
    /\ conn[c].active
    /\ conn' = [conn EXCEPT ![c].active = FALSE, ![c].reply = "none"]
    /\ UNCHANGED <<running, stored>>

(* ACK or STOP_STREAM on a stream that is not active.                      *)
RejectInactive(c) ==
    /\ Talking(c)
    /\ ~conn[c].active
    /\ conn' = [conn EXCEPT ![c].reply = "STREAM_IS_INACTIVE"]
    /\ UNCHANGED <<running, stored>>

CallTaken(k) == [k EXCEPT !.calls = @ - 1]

(* The reactor runs one scheduled send_next_event_to_connection, whatever  *)
(* became of the connection meanwhile.                                     *)
RunScheduledSend(c) ==
    /\ conn[c].calls > 0
    /\ conn' = [conn EXCEPT ![c] = SendNextEvent(CallTaken(@))]
    /\ UNCHANGED <<running, stored>>

(* _handle_event: save_event then broadcast_event, in one reactor call.    *)
BroadcastEvent ==
    /\ running
    /\ stored < MaxEvents
    /\ stored' = stored + 1
    /\ conn' = [c \in Conns |->
         IF conn[c].link = "open" /\ CanReceive(conn[c], stored)
           THEN SendEventResponse(conn[c], stored) ELSE conn[c]]
    /\ UNCHANGED running

(* factory.stop: sendClose to every registered connection, then clear.     *)
FactoryStop ==
    /\ running
    /\ running' = FALSE
    /\ conn' = [c \in Conns |->
         IF conn[c].link = "open" THEN [conn[c] EXCEPT !.link = "closing"]
         ELSE conn[c]]
    /\ UNCHANGED stored

(* The client reads the next message off its socket.                       *)
Read(c) ==
    /\ conn[c].wire # <<>>
    /\ conn' = [conn EXCEPT ![c].wire = Tail(@)]
    /\ UNCHANGED <<running, stored>>

Next ==
    \/ BroadcastEvent
    \/ FactoryStop
    \/ \E c \in Conns :
         \/ Open(c)
         \/ Close(c)
         \/ RejectStartActive(c)
         \/ StopStream(c)
         \/ RejectInactive(c)
         \/ RunScheduledSend(c)
         \/ Read(c)
         \/ \E last \in OptionalId, w \in 0 .. MaxWindow : StartStream(c, last, w)
         \/ \E last \in OptionalId : RejectStartAck(c, last)
         \/ \E id \in 0 .. MaxEvents, w \in 0 .. MaxWindow : Ack(c, id, w)
         \/ \E id \in 0 .. MaxEvents : RejectAck(c, id)

Spec == Init /\ [][Next]_vars

(* The reactor eventually runs every call it has been given.               *)
Fairness == \A c \in Conns : WF_vars(RunScheduledSend(c))

----------------------------------------------------------------------------
(* Properties.                                                             *)

(* An accepted request never moves _ack_event_id backwards, not even       *)
(* through STOP_STREAM and a new START_STREAM, nor through a rejected one.  *)
AckNeverDecreases ==
    [][\A c \in Conns : conn'[c].ack >= conn[c].ack]_vars

(* Progress.  A stored event that a registered client is waiting for is    *)
(* sent, unless the client stops or shrinks the stream, or the connection  *)
(* goes away.  Needs only that the reactor runs the calls it was given.    *)
DeliveryProgress ==
    \A c \in Conns : \A n \in 0 .. MaxEvents :
        (/\ conn[c].link = "open"
         /\ CanReceive(conn[c], n)
         /\ n < stored)
            ~> (\/ n \in conn[c].got
                \/ conn[c].link # "open"
                \/ ~CanReceive(conn[c], NextExpected(conn[c])))
=============================================================================
