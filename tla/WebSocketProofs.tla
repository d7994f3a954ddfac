--------------------------- MODULE WebSocketProofs ---------------------------
(***************************************************************************)
(* Proofs about the two WebSocket services of the node, which share no     *)
(* state.                                                                  *)
(*                                                                         *)
(* The event queue's (EventStream), for any number of connections, events, *)
(* window sizes and restarts of a stream.                                  *)
(*                                                                         *)
(* The history streamer's, for any histories, requests, gap limit and      *)
(* window sizes: it is the instance History, with its own variables.       *)
(***************************************************************************)
EXTENDS EventStream, TLAPS

CONSTANTS Vertices, Lists, XpubList, GapLimit, WindowSizes, MaxPending, MaxSeq
VARIABLES open, full, streamer, search, then

History == INSTANCE HistoryStreamer

\* The property of the history streamer.
INSTANCE HistoryStreamerSafety

-----------------------------------------------------------------------------
(* The event queue's WebSocket.                                            *)


(* What was sent since the last accepted request is what follows the       *)
(* acknowledged event, and on a live stream lastSent is the end of it.     *)
Answers(k) ==
    /\ Len(k.since) <= k.window
    /\ \A i \in 1 .. Len(k.since) : k.since[i] = k.ack + i
    /\ (k.active /\ k.link \in {"open", "unregistered"})
          => k.lastSent = k.ack + Len(k.since)

(* The part of the invariant about one connection that does not mention    *)
(* the scheduled calls: what SendNextEvent needs to find.                  *)
ConnCore(k) ==
    /\ k.link = "new" => ~k.active
    /\ k.active => /\ Unacked(k) <= k.window
                   /\ k.base <= k.ack
                   /\ k.ack <= k.lastSent
    /\ (k.active /\ k.link \in {"open", "unregistered"})
          => \A m \in Int : (k.base < m /\ m <= k.lastSent) => m \in k.got
    /\ \A n \in k.got : \A m \in Int : (k.base < m /\ m <= n) => m \in k.got
    /\ Answers(k)

Woken(k) ==
    (/\ k.link = "open"
     /\ CanReceive(k, NextExpected(k))
     /\ NextExpected(k) < stored)
        => k.calls > 0

(* The inductive invariant. *)
IInv ==
    /\ TypeOK
    /\ \A c \in Conns : ConnCore(conn[c]) /\ Woken(conn[c])

----------------------------------------------------------------------------
(* Sending the event after lastSent keeps the core invariant of a          *)
(* connection whose window has room.                                       *)
LEMMA SendEventKeepsCore ==
    ASSUME NEW k \in Connection, ConnCore(k), stored \in 0 .. MaxEvents,
           CanReceive(k, NextExpected(k)),
           NextExpected(k) \in 0 .. MaxEvents
    PROVE  /\ SendEventResponse(k, NextExpected(k)) \in Connection
           /\ ConnCore(SendEventResponse(k, NextExpected(k)))
           /\ SendEventResponse(k, NextExpected(k)).ack = k.ack
           /\ SendEventResponse(k, NextExpected(k)).calls = k.calls
           /\ SendEventResponse(k, NextExpected(k)).link = k.link
           /\ SendEventResponse(k, NextExpected(k)).lastSent = NextExpected(k)
<1> DEFINE id == NextExpected(k)
           r == SendEventResponse(k, id)
<1>0. /\ k.lastSent \in Int /\ k.ack \in Int /\ k.base \in Int /\ k.window \in Int
      /\ k.ack >= -1 /\ k.lastSent >= -1 /\ id = k.lastSent + 1
  BY StreamAssumption DEF Connection, OptionalId, NoEvent, NextExpected
<1>1. r \in Connection
  <2>1. id \in OptionalId /\ id \in 0 .. MaxEvents
    BY <1>0, StreamAssumption DEF OptionalId, NoEvent
  <2> HIDE DEF id
  <2>2. Append(k.wire, id) \in Seq(0 .. MaxEvents)
    BY <2>1 DEF Connection
  <2>3. k.got \cup {id} \in SUBSET (0 .. MaxEvents)
    BY <2>1 DEF Connection
  <2>4. [k EXCEPT !.lastSent = id] \in Connection
    BY <2>1 DEF Connection
  <2>7. Append(k.since, id) \in Seq(0 .. MaxEvents)
    BY <2>1 DEF Connection
  <2>5. [k EXCEPT !.lastSent = id, !.wire = Append(@, id), !.got = @ \cup {id},
                  !.since = Append(@, id)] \in Connection
    BY <2>1, <2>2, <2>3, <2>7 DEF Connection
  <2>6. QED  BY <2>4, <2>5 DEF SendEventResponse
<1>2. /\ r.lastSent = id /\ r.ack = k.ack /\ r.base = k.base /\ r.window = k.window
      /\ r.active = k.active /\ r.link = k.link /\ r.calls = k.calls
  BY DEF Connection, SendEventResponse
<1>3. /\ k.link \in {"open", "unregistered"} => r.got = k.got \cup {id}
      /\ k.link \notin {"open", "unregistered"} => r.got = k.got
  BY DEF Connection, SendEventResponse
<1>4. Unacked(r) <= r.window
  BY <1>0, <1>2 DEF Unacked, CanReceive, NoEvent, ConnCore
<1>7. Answers(r)
  <2>1. Answers(k) /\ k.since \in Seq(0 .. MaxEvents)
    BY DEF ConnCore, Connection
  <2>2. CASE k.link \in {"open", "unregistered"}
    <3>1. r.since = Append(k.since, id)
      BY <2>2 DEF SendEventResponse, Connection
    <3>2. /\ Len(k.since) \in Nat
          /\ Len(r.since) = Len(k.since) + 1
          /\ r.since[Len(k.since) + 1] = id
          /\ \A i \in 1 .. Len(k.since) : r.since[i] = k.since[i]
      BY <2>1, <3>1
    <3>3. k.lastSent = k.ack + Len(k.since)
      BY <2>1, <2>2 DEF Answers, CanReceive
    <3>8. id = k.ack + (Len(k.since) + 1)
      BY <1>0, <3>2, <3>3
    <3>4. Unacked(k) = Len(k.since)
      BY <1>0, <3>2, <3>3 DEF Unacked, NoEvent
    <3>5. Len(k.since) + 1 <= k.window
      BY <1>0, <3>2, <3>4 DEF CanReceive
    <3> HIDE DEF r, id
    <3>6. ASSUME NEW i \in 1 .. Len(r.since) PROVE r.since[i] = k.ack + i
      <4>1. CASE i = Len(k.since) + 1
        BY <4>1, <3>2, <3>8
      <4>2. CASE i \in 1 .. Len(k.since)
        BY <4>2, <2>1, <3>2 DEF Answers
      <4>3. QED  BY <4>1, <4>2, <3>2
    <3>7. QED  BY <1>2, <3>2, <3>5, <3>6, <3>8 DEF Answers
  <2>3. CASE k.link \notin {"open", "unregistered"}
    <3>1. r.since = k.since
      BY <2>3 DEF SendEventResponse, Connection
    <3>2. QED  BY <1>2, <2>1, <2>3, <3>1 DEF Answers
  <2>4. QED  BY <2>2, <2>3
<1>5. ConnCore(r)
  <2>1. r.link = "new" => ~r.active
    BY <1>2 DEF ConnCore
  <2>2. r.active => /\ Unacked(r) <= r.window
                    /\ r.base <= r.ack
                    /\ r.ack <= r.lastSent
    BY <1>0, <1>2, <1>4 DEF ConnCore
  <2>3. (r.active /\ r.link \in {"open", "unregistered"})
           => \A m \in Int : (r.base < m /\ m <= r.lastSent) => m \in r.got
    BY <1>0, <1>2, <1>3 DEF ConnCore
  <2>4. \A n \in r.got : \A m \in Int : (r.base < m /\ m <= n) => m \in r.got
    <3>1. CASE k.link \in {"open", "unregistered"}
      <4> SUFFICES ASSUME NEW n \in r.got, NEW m \in Int, r.base < m, m <= n
                   PROVE  m \in r.got
        OBVIOUS
      <4>1. CASE n \in k.got
        BY <1>2, <1>3, <3>1, <4>1 DEF ConnCore
      <4>2. CASE n = id
        BY <1>0, <1>2, <1>3, <3>1, <4>2 DEF ConnCore, CanReceive
      <4>3. QED  BY <4>1, <4>2, <1>3, <3>1
    <3>2. CASE k.link \notin {"open", "unregistered"}
      BY <1>2, <1>3, <3>2 DEF ConnCore
    <3>3. QED  BY <3>1, <3>2
  <2>5. QED  BY <2>1, <2>2, <2>3, <2>4, <1>7 DEF ConnCore
<1>6. QED  BY <1>1, <1>2, <1>5

(* Whatever state a connection is in, send_next_event_to_connection leaves *)
(* it well-formed and, if more can be sent, with a call scheduled.         *)
LEMMA SendNextKeepsInv ==
    ASSUME NEW k \in Connection, ConnCore(k), stored \in 0 .. MaxEvents
    PROVE  /\ SendNextEvent(k) \in Connection
           /\ ConnCore(SendNextEvent(k))
           /\ Woken(SendNextEvent(k))
           /\ SendNextEvent(k).ack = k.ack
<1> DEFINE id == NextExpected(k)
           r == SendEventResponse(k, id)
           s == [r EXCEPT !.calls = @ + 1]
<1>1. CASE CanReceive(k, id) /\ id < stored
  <2>1. id \in 0 .. MaxEvents
    BY <1>1, StreamAssumption DEF Connection, OptionalId, NoEvent, NextExpected
  <2>2. r \in Connection /\ ConnCore(r) /\ r.ack = k.ack
    BY <1>1, <2>1, SendEventKeepsCore
  <2> HIDE DEF r
  <2>3. s \in Connection /\ s.calls > 0
    <3>1. r.calls \in Nat
      BY <2>2 DEF Connection
    <3>2. r.calls + 1 \in Nat /\ r.calls + 1 > 0
      BY <3>1
    <3>3. s.calls = r.calls + 1
      BY <2>2 DEF Connection
    <3>4. s \in Connection
      BY <2>2, <3>2 DEF Connection
    <3>5. QED  BY <3>2, <3>3, <3>4
  <2>4. /\ s.lastSent = r.lastSent /\ s.ack = r.ack /\ s.base = r.base
        /\ s.window = r.window /\ s.active = r.active /\ s.link = r.link
        /\ s.got = r.got /\ s.since = r.since
    BY <2>2 DEF Connection
  <2>5. Unacked(s) = Unacked(r)
    BY <2>4 DEF Unacked
  <2>6. ConnCore(s)
    BY <2>2, <2>4, <2>5 DEF ConnCore, Answers
  <2>7. SendNextEvent(k) = s
    BY <1>1 DEF SendNextEvent, r
  <2>8. QED  BY <2>2, <2>3, <2>4, <2>6, <2>7 DEF Woken
<1>2. CASE ~(CanReceive(k, id) /\ id < stored)
  BY <1>2 DEF SendNextEvent, Woken
<1>3. QED  BY <1>1, <1>2

(* RewindTo, the request handlers and the scheduled call each hand the     *)
(* connection to SendNextEvent in a state that satisfies ConnCore.         *)
LEMMA StartKeepsInv ==
    ASSUME NEW k \in Connection, ConnCore(k), stored \in 0 .. MaxEvents,
           NEW last \in OptionalId, NEW w \in 0 .. MaxWindow,
           ~k.active, k.link # "new", k.starts < MaxStarts
    PROVE  /\ StreamStarted(k, last, w) \in Connection
           /\ ConnCore(StreamStarted(k, last, w))
           /\ Woken(StreamStarted(k, last, w))
           /\ StreamStarted(k, last, w).ack = last
<1> DEFINE s == [RewindTo(k, last) EXCEPT
                  !.ack = last, !.window = w, !.active = TRUE, !.reply = "none",
                  !.base = last, !.got = {}, !.since = <<>>, !.starts = @ + 1]
<1>1. k.starts + 1 \in 0 .. MaxStarts
  BY StreamAssumption DEF Connection
<1>7. <<>> \in Seq(0 .. MaxEvents)
  OBVIOUS
<1>2. s \in Connection
  <2>1. RewindTo(k, last) \in Connection /\ RewindTo(k, last).starts = k.starts
    BY DEF Connection, RewindTo
  <2>2. [RewindTo(k, last) EXCEPT !.ack = last, !.window = w, !.active = TRUE,
            !.reply = "none", !.base = last, !.got = {}] \in Connection
    BY <2>1 DEF Connection, Replies
  <2>3. \A z \in Connection : [z EXCEPT !.since = <<>>, !.starts = k.starts + 1] \in Connection
    BY <1>1, <1>7 DEF Connection
  <2>4. s = [[RewindTo(k, last) EXCEPT !.ack = last, !.window = w, !.active = TRUE,
            !.reply = "none", !.base = last, !.got = {}]
               EXCEPT !.since = <<>>, !.starts = k.starts + 1]
    BY <2>1
  <2>5. QED  BY <2>2, <2>3, <2>4
<1>3. /\ s.link = k.link /\ s.active = TRUE /\ s.lastSent = last /\ s.ack = last
      /\ s.base = last /\ s.got = {} /\ s.since = <<>> /\ s.window = w
  BY DEF Connection, RewindTo
<1>4. ConnCore(s)
  BY <1>3 DEF ConnCore, Answers, Unacked, OptionalId, NoEvent
<1>5. StreamStarted(k, last, w) = SendNextEvent(s)
  BY DEF StreamStarted
<1> HIDE DEF s
<1>6. QED  BY <1>2, <1>3, <1>4, <1>5, SendNextKeepsInv

LEMMA AckKeepsInv ==
    ASSUME NEW k \in Connection, ConnCore(k), stored \in 0 .. MaxEvents,
           NEW id \in 0 .. MaxEvents, NEW w \in 0 .. MaxWindow,
           k.active, AckError(k, id) = "none"
    PROVE  /\ AckAccepted(k, id, w) \in Connection
           /\ ConnCore(AckAccepted(k, id, w))
           /\ Woken(AckAccepted(k, id, w))
           /\ AckAccepted(k, id, w).ack = id
           /\ k.ack <= id
<1> DEFINE s == [k EXCEPT !.ack = id, !.lastSent = id, !.window = w, !.reply = "none",
                          !.since = <<>>]
<1>1. id \in OptionalId /\ id \in Int
  BY StreamAssumption DEF OptionalId, NoEvent
<1>2. s \in Connection
  <2>1. <<>> \in Seq(0 .. MaxEvents)
    OBVIOUS
  <2>2. [k EXCEPT !.ack = id, !.lastSent = id, !.window = w, !.reply = "none"]
            \in Connection
    BY <1>1 DEF Connection, Replies
  <2>3. \A z \in Connection : [z EXCEPT !.since = <<>>] \in Connection
    BY <2>1 DEF Connection
  <2>4. QED  BY <2>2, <2>3
<1>3. /\ s.link = k.link /\ s.active = k.active /\ s.lastSent = id /\ s.ack = id
      /\ s.base = k.base /\ s.got = k.got /\ s.since = <<>> /\ s.window = w
  BY DEF Connection
<1>4. k.ack \in Int /\ k.lastSent \in Int /\ k.base \in Int /\ k.ack >= -1
  BY DEF Connection, OptionalId, NoEvent
<1>5. id <= k.lastSent /\ k.ack <= id
  BY <1>1, <1>4 DEF AckError, AckTooSmall, AckTooLarge, NoEvent
<1>6. ConnCore(s)
  <2>1. /\ s.link = "new" => ~s.active
        /\ Unacked(s) <= s.window
        /\ s.base <= s.ack
        /\ s.ack <= s.lastSent
    BY <1>1, <1>3, <1>4, <1>5 DEF ConnCore, Unacked, NoEvent
  <2>2. (s.active /\ s.link \in {"open", "unregistered"})
           => \A m \in Int : (s.base < m /\ m <= s.lastSent) => m \in s.got
    BY <1>1, <1>3, <1>4, <1>5 DEF ConnCore
  <2>3. \A n \in s.got : \A m \in Int : (s.base < m /\ m <= n) => m \in s.got
    BY <1>3 DEF ConnCore
  <2>4. Answers(s)
    BY <1>1, <1>3 DEF Answers
  <2>5. QED  BY <2>1, <2>2, <2>3, <2>4 DEF ConnCore
<1>7. AckAccepted(k, id, w) = SendNextEvent(s)
  BY DEF AckAccepted
<1> HIDE DEF s
<1>8. QED  BY <1>2, <1>3, <1>5, <1>6, <1>7, SendNextKeepsInv

(* A step that changes only the link (except from "new" to an open one),   *)
(* the wire, the reply, or stops the stream keeps the connection's core.   *)
LEMMA QuietChangeKeepsCore ==
    ASSUME NEW k \in Connection, ConnCore(k), NEW s \in Connection,
           s.active => k.active,
           s.link \in {"open", "unregistered"} => (s.link = k.link \/ k.link = "new"),
           s.link = "new" => k.link = "new",
           s.active => s.lastSent = k.lastSent,
           s.ack = k.ack, s.base = k.base, s.got = k.got, s.window = k.window,
           s.since = k.since
    PROVE  ConnCore(s)
<1>1. s.active => Unacked(s) = Unacked(k)
  BY DEF Unacked
<1>2. QED  BY <1>1 DEF ConnCore, Answers

LEMMA TailType ==
    ASSUME NEW S, NEW q \in Seq(S), q # <<>>
    PROVE  Tail(q) \in Seq(S)
OBVIOUS

(* An action of one connection preserves the invariant when the state it   *)
(* gives that connection is well-formed.                                   *)
LEMMA UpdateOne ==
    ASSUME IInv, NEW c \in Conns, NEW s \in Connection, ConnCore(s), Woken(s),
           conn' = [conn EXCEPT ![c] = s], UNCHANGED <<running, stored>>
    PROVE  IInv'
<1>1. TypeOK'
  BY DEF IInv, TypeOK
<1>2. ASSUME NEW d \in Conns PROVE (ConnCore(conn[d]) /\ Woken(conn[d]))'
  <2>1. ConnCore(conn[d]) /\ Woken(conn[d])
    BY DEF IInv
  <2>2. conn'[d] = IF d = c THEN s ELSE conn[d]
    BY DEF IInv, TypeOK
  <2>3. ConnCore(conn'[d]) /\ Woken(conn'[d])
    BY <2>1, <2>2
  <2>4. QED  BY <2>3 DEF Woken, CanReceive, NextExpected, Unacked
<1>3. QED  BY <1>1, <1>2 DEF IInv

(* Every step from a state of the invariant keeps it and lowers no ack.    *)
LEMMA NextKeepsIInv ==
    ASSUME IInv, [Next]_vars
    PROVE  IInv' /\ \A c \in Conns : conn'[c].ack >= conn[c].ack
<1> USE StreamAssumption
<1>0. /\ stored \in 0 .. MaxEvents
      /\ conn \in [Conns -> Connection]
      /\ \A c \in Conns : /\ conn[c] \in Connection
                          /\ conn[c].ack \in Int
                          /\ ConnCore(conn[c])
                          /\ Woken(conn[c])
  BY DEF IInv, TypeOK, Connection, OptionalId, NoEvent
<1>one. ASSUME NEW c \in Conns, NEW s \in Connection, ConnCore(s), Woken(s),
               s.ack >= conn[c].ack,
               conn' = [conn EXCEPT ![c] = s], UNCHANGED <<running, stored>>
        PROVE  IInv' /\ \A d \in Conns : conn'[d].ack >= conn[d].ack
  <2>1. IInv'
    BY <1>one, UpdateOne
  <2>2. \A d \in Conns : conn'[d].ack >= conn[d].ack
    BY <1>0, <1>one
  <2>3. QED  BY <2>1, <2>2
<1>1. CASE BroadcastEvent
  <2>1. stored' = stored + 1 /\ stored' \in 0 .. MaxEvents /\ running' = running
    BY <1>1, <1>0 DEF BroadcastEvent
  <2>2. ASSUME NEW c \in Conns
        PROVE  /\ conn'[c] \in Connection
               /\ (ConnCore(conn[c]) /\ Woken(conn[c]))'
               /\ conn'[c].ack >= conn[c].ack
    <3>1. CASE conn[c].link = "open" /\ CanReceive(conn[c], stored)
      <4>1. stored = NextExpected(conn[c])
        BY <3>1 DEF CanReceive
      <4>2. conn'[c] = SendEventResponse(conn[c], NextExpected(conn[c]))
        BY <1>1, <3>1, <4>1 DEF BroadcastEvent
      <4>3. /\ conn'[c] \in Connection
            /\ ConnCore(conn'[c])
            /\ conn'[c].ack = conn[c].ack
            /\ conn'[c].lastSent = stored
        BY <1>0, <3>1, <4>1, <4>2, SendEventKeepsCore
      <4>4. ~(conn'[c].lastSent + 1 < stored')
        BY <4>3, <2>1, <1>0
      <4>5. QED  BY <4>3, <4>4, <1>0 DEF Woken, NextExpected
    <3>2. CASE ~(conn[c].link = "open" /\ CanReceive(conn[c], stored))
      <4>1. conn'[c] = conn[c]
        BY <1>1, <3>2 DEF BroadcastEvent
      <4>2. Woken(conn[c])'
        <5> SUFFICES ASSUME conn[c].link = "open",
                            CanReceive(conn[c], NextExpected(conn[c])),
                            NextExpected(conn[c]) < stored + 1
                     PROVE  conn[c].calls > 0
          BY <4>1, <2>1 DEF Woken, CanReceive, NextExpected, Unacked
        <5>1. NextExpected(conn[c]) # stored
          BY <3>2
        <5>2. NextExpected(conn[c]) \in Int
          BY <1>0 DEF Connection, OptionalId, NoEvent, NextExpected
        <5>3. NextExpected(conn[c]) < stored
          BY <5>1, <5>2, <1>0
        <5>4. QED  BY <5>3, <1>0 DEF Woken
      <4>3. QED  BY <4>1, <4>2, <1>0
    <3>3. QED  BY <3>1, <3>2
  <2>3. conn' \in [Conns -> Connection]
    BY <2>2, <1>1 DEF BroadcastEvent
  <2>4. QED  BY <2>1, <2>2, <2>3 DEF IInv, TypeOK
<1>2. CASE FactoryStop
  <2>1. stored' = stored /\ running' \in BOOLEAN
    BY <1>2 DEF FactoryStop
  <2>2. ASSUME NEW c \in Conns
        PROVE  /\ conn'[c] \in Connection
               /\ (ConnCore(conn[c]) /\ Woken(conn[c]))'
               /\ conn'[c].ack >= conn[c].ack
    <3>1. CASE conn[c].link = "open"
      <4>1. conn'[c] = [conn[c] EXCEPT !.link = "closing"]
        BY <1>2, <3>1 DEF FactoryStop
      <4>2. conn'[c] \in Connection
        BY <4>1, <1>0 DEF Connection, Links
      <4>3. /\ conn'[c].link = "closing" /\ conn'[c].ack = conn[c].ack
            /\ conn'[c].active = conn[c].active
            /\ conn'[c].lastSent = conn[c].lastSent
            /\ conn'[c].base = conn[c].base /\ conn'[c].got = conn[c].got
            /\ conn'[c].since = conn[c].since
            /\ conn'[c].window = conn[c].window
        BY <4>1, <1>0 DEF Connection
      <4>4. ConnCore(conn'[c])
        BY <4>2, <4>3, <1>0, QuietChangeKeepsCore
      <4>5. QED  BY <4>2, <4>3, <4>4, <1>0 DEF Woken
    <3>2. CASE conn[c].link # "open"
      BY <1>2, <3>2, <1>0 DEF FactoryStop, Woken
    <3>3. QED  BY <3>1, <3>2
  <2>3. conn' \in [Conns -> Connection]
    BY <2>2, <1>2 DEF FactoryStop
  <2>4. QED  BY <2>1, <2>2, <2>3 DEF IInv, TypeOK
<1>3. ASSUME NEW c \in Conns, Open(c)
      PROVE  IInv' /\ \A d \in Conns : conn'[d].ack >= conn[d].ack
  <2> DEFINE s == IF running THEN [conn[c] EXCEPT !.link = "open"]
                  ELSE [conn[c] EXCEPT !.link = "unregistered",
                                       !.reply = "EVENT_WS_NOT_RUNNING"]
  <2>1. conn' = [conn EXCEPT ![c] = s] /\ UNCHANGED <<running, stored>>
    BY <1>3 DEF Open
  <2>2. s \in Connection
    BY <1>0 DEF Connection, Links, Replies
  <2>3. /\ s.link \in {"open", "unregistered"} /\ s.ack = conn[c].ack
        /\ s.active = conn[c].active /\ s.lastSent = conn[c].lastSent
        /\ s.base = conn[c].base /\ s.got = conn[c].got /\ s.since = conn[c].since
        /\ s.window = conn[c].window
    BY <1>0 DEF Connection
  <2>4. ~s.active
    BY <2>3, <1>0, <1>3 DEF Open, ConnCore
  <2> HIDE DEF s
  <2>5. ConnCore(s)
    BY <2>2, <2>3, <1>0, <1>3, QuietChangeKeepsCore DEF Open
  <2>6. Woken(s)
    BY <2>4 DEF Woken, CanReceive
  <2>7. s.ack >= conn[c].ack
    BY <1>0, <2>3
  <2>8. QED  BY <1>one, <2>7, <2>1, <2>2, <2>3, <2>5, <2>6
<1>4. ASSUME NEW c \in Conns, Close(c)
      PROVE  IInv' /\ \A d \in Conns : conn'[d].ack >= conn[d].ack
  <2> DEFINE s == [conn[c] EXCEPT !.link = "closed", !.wire = <<>>]
  <2>1. conn' = [conn EXCEPT ![c] = s] /\ UNCHANGED <<running, stored>>
    BY <1>4, <1>0 DEF Close
  <2>2. s \in Connection
    <3>1. <<>> \in Seq(0 .. MaxEvents)
      OBVIOUS
    <3>2. QED  BY <3>1, <1>0 DEF Connection, Links
  <2>3. /\ s.link = "closed" /\ s.ack = conn[c].ack
        /\ s.active = conn[c].active /\ s.lastSent = conn[c].lastSent
        /\ s.base = conn[c].base /\ s.got = conn[c].got /\ s.since = conn[c].since
        /\ s.window = conn[c].window
    BY <1>0 DEF Connection
  <2> HIDE DEF s
  <2>4. ConnCore(s)
    BY <2>2, <2>3, <1>0, QuietChangeKeepsCore
  <2>5. Woken(s)
    BY <2>3 DEF Woken
  <2>6. s.ack >= conn[c].ack
    BY <1>0, <2>3
  <2>7. QED  BY <1>one, <2>6, <2>1, <2>2, <2>3, <2>4, <2>5
<1>5. ASSUME NEW c \in Conns, NEW r \in Replies,
             conn' = [conn EXCEPT ![c].reply = r], UNCHANGED <<running, stored>>
      PROVE  IInv' /\ \A d \in Conns : conn'[d].ack >= conn[d].ack
  <2> DEFINE s == [conn[c] EXCEPT !.reply = r]
  <2>1. conn' = [conn EXCEPT ![c] = s] /\ UNCHANGED <<running, stored>>
    BY <1>5, <1>0
  <2>2. s \in Connection
    BY <1>0 DEF Connection
  <2>3. /\ s.link = conn[c].link /\ s.ack = conn[c].ack
        /\ s.active = conn[c].active /\ s.lastSent = conn[c].lastSent
        /\ s.base = conn[c].base /\ s.got = conn[c].got /\ s.since = conn[c].since
        /\ s.window = conn[c].window /\ s.calls = conn[c].calls
    BY <1>0 DEF Connection
  <2> HIDE DEF s
  <2>4. ConnCore(s)
    BY <2>2, <2>3, <1>0, QuietChangeKeepsCore
  <2>5. Woken(s)
    BY <2>3, <1>0 DEF Woken, CanReceive, NextExpected, Unacked
  <2>6. s.ack >= conn[c].ack
    BY <1>0, <2>3
  <2>7. QED  BY <1>one, <2>6, <2>1, <2>2, <2>3, <2>4, <2>5
<1>6. ASSUME NEW c \in Conns, StopStream(c)
      PROVE  IInv' /\ \A d \in Conns : conn'[d].ack >= conn[d].ack
  <2> DEFINE s == [conn[c] EXCEPT !.active = FALSE, !.reply = "none"]
  <2>1. conn' = [conn EXCEPT ![c] = s] /\ UNCHANGED <<running, stored>>
    BY <1>6, <1>0 DEF StopStream
  <2>2. s \in Connection
    BY <1>0 DEF Connection, Replies
  <2>3. /\ s.link = conn[c].link /\ s.ack = conn[c].ack /\ s.active = FALSE
        /\ s.base = conn[c].base /\ s.got = conn[c].got /\ s.since = conn[c].since
        /\ s.window = conn[c].window
    BY <1>0 DEF Connection
  <2> HIDE DEF s
  <2>4. ConnCore(s)
    BY <2>2, <2>3, <1>0, QuietChangeKeepsCore
  <2>5. Woken(s)
    BY <2>3 DEF Woken, CanReceive
  <2>6. s.ack >= conn[c].ack
    BY <1>0, <2>3
  <2>7. QED  BY <1>one, <2>6, <2>1, <2>2, <2>3, <2>4, <2>5
<1>7. ASSUME NEW c \in Conns, RunScheduledSend(c)
      PROVE  IInv' /\ \A d \in Conns : conn'[d].ack >= conn[d].ack
  <2> DEFINE k == CallTaken(conn[c])
  <2>1. /\ conn' = [conn EXCEPT ![c] = SendNextEvent(k)]
        /\ UNCHANGED <<running, stored>>
    BY <1>7 DEF RunScheduledSend
  <2>2. conn[c].calls - 1 \in Nat
    BY <1>7, <1>0 DEF RunScheduledSend, Connection
  <2>3. k \in Connection
    BY <1>0, <2>2 DEF Connection, CallTaken
  <2>4. /\ k.link = conn[c].link /\ k.ack = conn[c].ack
        /\ k.active = conn[c].active /\ k.lastSent = conn[c].lastSent
        /\ k.base = conn[c].base /\ k.got = conn[c].got /\ k.since = conn[c].since
        /\ k.window = conn[c].window
    BY <1>0 DEF Connection, CallTaken
  <2> HIDE DEF k
  <2>5. ConnCore(k)
    BY <2>3, <2>4, <1>0, QuietChangeKeepsCore
  <2>6. /\ SendNextEvent(k) \in Connection
        /\ ConnCore(SendNextEvent(k))
        /\ Woken(SendNextEvent(k))
        /\ SendNextEvent(k).ack = k.ack
    BY <2>3, <2>5, <1>0, SendNextKeepsInv
  <2>7. SendNextEvent(k).ack >= conn[c].ack
    BY <2>4, <2>6, <1>0
  <2>8. QED  BY <1>one, <2>1, <2>6, <2>7
<1>8. ASSUME NEW c \in Conns, Read(c)
      PROVE  IInv' /\ \A d \in Conns : conn'[d].ack >= conn[d].ack
  <2> DEFINE s == [conn[c] EXCEPT !.wire = Tail(@)]
  <2>1. conn' = [conn EXCEPT ![c] = s] /\ UNCHANGED <<running, stored>>
    BY <1>8, <1>0 DEF Read
  <2>2. conn[c].wire \in Seq(0 .. MaxEvents) /\ conn[c].wire # <<>>
    BY <1>8, <1>0 DEF Read, Connection
  <2>3. Tail(conn[c].wire) \in Seq(0 .. MaxEvents)
    BY <2>2, TailType
  <2>4. s \in Connection
    BY <1>0, <2>3 DEF Connection
  <2>5. /\ s.link = conn[c].link /\ s.ack = conn[c].ack
        /\ s.active = conn[c].active /\ s.lastSent = conn[c].lastSent
        /\ s.base = conn[c].base /\ s.got = conn[c].got /\ s.since = conn[c].since
        /\ s.window = conn[c].window /\ s.calls = conn[c].calls
    BY <1>0 DEF Connection
  <2> HIDE DEF s
  <2>6. ConnCore(s)
    BY <2>4, <2>5, <1>0, QuietChangeKeepsCore
  <2>7. Woken(s)
    BY <2>5, <1>0 DEF Woken, CanReceive, NextExpected, Unacked
  <2>8. s.ack >= conn[c].ack
    BY <1>0, <2>5
  <2>9. QED  BY <1>one, <2>8, <2>1, <2>4, <2>5, <2>6, <2>7
<1>9. ASSUME NEW c \in Conns, NEW last \in OptionalId, NEW w \in 0 .. MaxWindow,
             StartStream(c, last, w)
      PROVE  IInv' /\ \A d \in Conns : conn'[d].ack >= conn[d].ack
  <2>1. /\ conn' = [conn EXCEPT ![c] = StreamStarted(conn[c], last, w)]
        /\ UNCHANGED <<running, stored>>
        /\ ~conn[c].active /\ conn[c].link # "new"
        /\ conn[c].starts < MaxStarts
        /\ AckError(RewindTo(conn[c], last), last) = "none"
    BY <1>9, <1>0 DEF StartStream, Talking
  <2>2. conn[c].ack <= last
    <3>1. RewindTo(conn[c], last).ack = conn[c].ack
      BY <1>0 DEF RewindTo, Connection
    <3>2. conn[c].ack = -1 \/ ~(last <= conn[c].ack)
      BY <2>1, <3>1 DEF AckError, AckTooSmall, NoEvent
    <3>3. QED  BY <3>2, <1>0 DEF OptionalId, NoEvent
  <2>3. /\ StreamStarted(conn[c], last, w) \in Connection
        /\ ConnCore(StreamStarted(conn[c], last, w))
        /\ Woken(StreamStarted(conn[c], last, w))
        /\ StreamStarted(conn[c], last, w).ack = last
    BY <2>1, <1>0, StartKeepsInv
  <2>4. StreamStarted(conn[c], last, w).ack >= conn[c].ack
    BY <2>2, <2>3, <1>0 DEF OptionalId, NoEvent
  <2>5. QED  BY <1>one, <2>1, <2>3, <2>4
<1>10. ASSUME NEW c \in Conns, NEW last \in OptionalId, RejectStartAck(c, last)
       PROVE  IInv' /\ \A d \in Conns : conn'[d].ack >= conn[d].ack
  <2> DEFINE e == AckError(RewindTo(conn[c], last), last)
             s == [RewindTo(conn[c], last) EXCEPT !.reply = e]
  <2>1. /\ conn' = [conn EXCEPT ![c] = s] /\ UNCHANGED <<running, stored>>
        /\ ~conn[c].active
    BY <1>10 DEF RejectStartAck
  <2>2. e \in Replies
    BY DEF AckError, Replies
  <2> HIDE DEF e
  <2>3. s \in Connection
    BY <1>0, <2>2 DEF Connection, RewindTo
  <2>4. /\ s.link = conn[c].link /\ s.ack = conn[c].ack /\ s.active = conn[c].active
        /\ s.base = conn[c].base /\ s.got = conn[c].got /\ s.since = conn[c].since
        /\ s.window = conn[c].window
    BY <1>0 DEF Connection, RewindTo
  <2> HIDE DEF s
  <2>5. ConnCore(s)
    BY <2>1, <2>3, <2>4, <1>0, QuietChangeKeepsCore
  <2>6. Woken(s)
    BY <2>1, <2>4 DEF Woken, CanReceive
  <2>7. s.ack >= conn[c].ack
    BY <1>0, <2>4
  <2>8. QED  BY <1>one, <2>7, <2>1, <2>3, <2>4, <2>5, <2>6
<1>11. ASSUME NEW c \in Conns, NEW id \in 0 .. MaxEvents, NEW w \in 0 .. MaxWindow,
              Ack(c, id, w)
       PROVE  IInv' /\ \A d \in Conns : conn'[d].ack >= conn[d].ack
  <2>1. /\ conn' = [conn EXCEPT ![c] = AckAccepted(conn[c], id, w)]
        /\ UNCHANGED <<running, stored>>
        /\ conn[c].active
        /\ AckError(conn[c], id) = "none"
    BY <1>11, <1>0 DEF Ack
  <2>2. /\ AckAccepted(conn[c], id, w) \in Connection
        /\ ConnCore(AckAccepted(conn[c], id, w))
        /\ Woken(AckAccepted(conn[c], id, w))
        /\ AckAccepted(conn[c], id, w).ack = id
        /\ conn[c].ack <= id
    BY <2>1, <1>0, AckKeepsInv
  <2>3. QED  BY <1>0, <1>one, <2>1, <2>2
<1>12. CASE UNCHANGED vars
  BY <1>0, <1>12 DEF vars, IInv, TypeOK, Woken, CanReceive, NextExpected, Unacked
<1>13. ASSUME NEW c \in Conns, NEW id \in 0 .. MaxEvents, RejectAck(c, id)
       PROVE  IInv' /\ \A d \in Conns : conn'[d].ack >= conn[d].ack
  <2>1. AckError(conn[c], id) \in Replies
    BY DEF AckError, Replies
  <2>2. QED  BY <1>5, <1>13, <2>1 DEF RejectAck
<1>14. ASSUME NEW c \in Conns, RejectStartActive(c) \/ RejectInactive(c)
       PROVE  IInv' /\ \A d \in Conns : conn'[d].ack >= conn[d].ack
  BY <1>5, <1>14 DEF RejectStartActive, RejectInactive, Replies
<1>15. QED
  BY <1>1, <1>2, <1>3, <1>4, <1>6, <1>7, <1>8, <1>9, <1>10, <1>11, <1>12,
     <1>13, <1>14 DEF Next

----------------------------------------------------------------------------
LEMMA InitIInv == Init => IInv
<1> SUFFICES ASSUME Init PROVE IInv
  OBVIOUS
<1>1. NewConnection \in Connection
  BY StreamAssumption
  DEF NewConnection, Connection, Links, Replies, OptionalId, NoEvent
<1>2. TypeOK
  BY <1>1 DEF Init, TypeOK
<1>3. \A c \in Conns : conn[c] = NewConnection
  BY DEF Init
<1>4. ConnCore(NewConnection) /\ Woken(NewConnection)
  BY DEF NewConnection, ConnCore, Answers, Woken, CanReceive
<1>5. QED  BY <1>2, <1>3, <1>4 DEF IInv

LEMMA IInvImplies == IInv => NoLostWakeup /\ WindowRespected /\ StreamHasNoGap
<1> SUFFICES ASSUME IInv PROVE NoLostWakeup /\ WindowRespected /\ StreamHasNoGap
  OBVIOUS
<1>1. NoLostWakeup
  BY DEF IInv, NoLostWakeup, Woken
<1>2. WindowRespected
  BY DEF IInv, ConnCore, Answers, WindowRespected
<1>3. StreamHasNoGap
  <2> SUFFICES ASSUME NEW c \in Conns, NEW n \in conn[c].got,
                      NEW m \in (conn[c].base + 1) .. n
               PROVE  m \in conn[c].got
    BY DEF StreamHasNoGap
  <2>1. conn[c].base \in Int /\ n \in Int
    BY DEF IInv, TypeOK, Connection, OptionalId, NoEvent
  <2>2. m \in Int /\ conn[c].base < m /\ m <= n
    BY <2>1
  <2>3. QED  BY <2>2 DEF IInv, ConnCore
<1>4. QED  BY <1>1, <1>2, <1>3

(* The inductive invariant holds in every reachable state.                 *)
THEOREM Invariance == Spec => []IInv
<1>1. IInv /\ [Next]_vars => IInv'
  BY NextKeepsIInv
<1>2. QED  BY InitIInv, <1>1, PTL DEF Spec

(* Type correctness of the factory and of every protocol object.           *)
THEOREM TypeCorrect == Spec => []TypeOK
<1>1. IInv => TypeOK
  BY DEF IInv
<1>2. QED  BY Invariance, <1>1, PTL

(* send_next_event_to_connection is always scheduled when it has work, for *)
(* any number of connections, events, acks and restarts of the stream.     *)
THEOREM NeverLosesAWakeup == Spec => []NoLostWakeup
<1>1. IInv => NoLostWakeup
  BY IInvImplies
<1>2. QED  BY Invariance, <1>1, PTL

(* Between two accepted requests a client is sent the events after the one *)
(* it named, in order, each once and never more than the window it gave    *)
(* (can_receive_event, send_next_event_to_connection).                     *)
THEOREM FlowControl == Spec => []WindowRespected
<1>1. IInv => WindowRespected
  BY IInvImplies
<1>2. QED  BY Invariance, <1>1, PTL

(* No event of a stream is skipped.                                        *)
THEOREM GapFree == Spec => []StreamHasNoGap
<1>1. IInv => StreamHasNoGap
  BY IInvImplies
<1>2. QED  BY Invariance, <1>1, PTL

(* _update_ack only ever raises the acknowledged id.                       *)
THEOREM AcksAreMonotone == Spec => AckNeverDecreases
<1>1. IInv /\ [Next]_vars => [\A c \in Conns : conn'[c].ack >= conn[c].ack]_vars
  BY NextKeepsIInv
<1>2. QED  BY Invariance, <1>1, PTL DEF Spec, AckNeverDecreases

-----------------------------------------------------------------------------
(* The history streamer.                                                   *)
(*                                                                         *)
(* StreamNeverStalls is about a reactor that is free; the inductive        *)
(* invariant keeps its debt in the middle of a call as well (StopsForAck), *)
(* and rests on where the loop may be (LoopStates) and on the transport:   *)
(* a stream is paused only while the buffer is full (PausedIsFull), so the *)
(* resume that pausing drops will come.                                    *)

Streamers ==
    [exists : BOOLEAN, state : {"not_started", "active", "paused", "closing", "closed"},
     loop : {"off", "run", "later", "await"}, next : Nat, ack : Nat \cup {-1},
     window : Nat \cup {History!None}, begun : BOOLEAN]

Searches ==
    [manual : BOOLEAN, pending : Seq(History!Addresses), stop : BOOLEAN,
     cur : History!Addresses \cup {History!None}, left : Nat, empties : Nat, over : BOOLEAN]

Calls == {History!Nothing, [call |-> "start"]}
         \cup [call : {"window"}, size : Nat \cup {History!None}]

(* Types: the streamer, its search and the call that waits for the loop.   *)
HistoryTypeOK ==
    /\ open \in BOOLEAN /\ full \in BOOLEAN
    /\ streamer \in Streamers /\ search \in Searches /\ then \in Calls

(* No streamer is NoStreamer: nothing of a closed one stays.               *)
ClosedIsGone(s) == (s.exists <=> s.state # "closed") /\ (~s.exists => s = History!NoStreamer)

(* The loop is under way, whatever it waits for, only on a stream that is  *)
(* active or was paused meanwhile: get_next_seq never finds it closed.     *)
LoopStates(s) == s.loop # "off" => s.state \in {"active", "paused"}

(* Only messages that were sent are acknowledged.                          *)
AckBehind(s) == s.ack < s.next

PausedIsFull(s, f) == s.state = "paused" => f

(* A loop that has ended while the transport takes messages waits for the  *)
(* client, also in the middle of a call.                                   *)
StopsForAck(s, f) ==
    s.exists /\ s.loop = "off" /\ ~f => History!ShouldPauseStreaming(s) \/ s.state = "closing"

Sound(s, f) ==
    /\ ClosedIsGone(s) /\ LoopStates(s) /\ AckBehind(s)
    /\ PausedIsFull(s, f) /\ StopsForAck(s, f)

HistoryInv == HistoryTypeOK /\ Sound(streamer, full)

(* Sound but for StopsForAck: what holds of a stream about to be resumed.  *)
Resumable(s, f) ==
    /\ s \in Streamers /\ s.exists
    /\ ClosedIsGone(s) /\ LoopStates(s) /\ AckBehind(s) /\ PausedIsFull(s, f)

Good(s, f) == s \in Streamers /\ Sound(s, f)

-----------------------------------------------------------------------------
(* The operations of the streamer.                                         *)

LEMMA NoStreamerGood == \A f \in BOOLEAN : Good(History!NoStreamer, f)
<1>1. History!NoStreamer \in Streamers
  BY DEF Streamers, History!NoStreamer, History!None
<1>2. /\ ~History!NoStreamer.exists
      /\ History!NoStreamer.state = "closed" /\ History!NoStreamer.loop = "off"
      /\ History!NoStreamer.ack < History!NoStreamer.next
  BY DEF History!NoStreamer
<1> QED BY <1>1, <1>2 DEF Good, Sound, ClosedIsGone, LoopStates, AckBehind, PausedIsFull,
                          StopsForAck

LEMMA GoodIsResumable ==
  ASSUME NEW s, NEW f \in BOOLEAN, Good(s, f), s.exists
  PROVE  Resumable(s, f)
  BY DEF Good, Sound, Resumable

(* resume_if_possible leaves a stream stopped only for the client's sake.  *)
LEMMA ResumeGood ==
  ASSUME NEW s, NEW f \in BOOLEAN, Resumable(s, f)
  PROVE  /\ Good(History!ResumeIfPossible(s), f)
         /\ History!ResumeIfPossible(s).exists
         /\ History!ResumeIfPossible(s).begun = s.begun
         /\ History!ResumeIfPossible(s).loop # "run" => History!ResumeIfPossible(s) = s
<1>1. /\ s \in Streamers /\ s.exists /\ s.state # "closed"
      /\ ClosedIsGone(s) /\ LoopStates(s) /\ AckBehind(s) /\ PausedIsFull(s, f)
  BY DEF Resumable, ClosedIsGone
<1> DEFINE t == [s EXCEPT !.state = "active", !.loop = "run"]
<1>2. CASE \/ s.state = "paused" \/ ~History!CanTransitionTo(s, "active")
           \/ s.loop # "off" \/ History!ShouldPauseStreaming(s)
  <2>1. History!ResumeIfPossible(s) = s
    BY <1>2 DEF History!ResumeIfPossible
  <2>2. s.loop = "off" /\ ~f => History!ShouldPauseStreaming(s) \/ s.state = "closing"
    <3>1. ~History!CanTransitionTo(s, "active") => s.state = "closing"
      BY <1>1 DEF History!CanTransitionTo, Streamers
    <3>2. s.state = "paused" => f
      BY <1>1 DEF PausedIsFull
    <3> QED BY <1>2, <3>1, <3>2
  <2> QED BY <1>1, <2>1, <2>2 DEF Good, Sound, StopsForAck
<1>3. CASE ~(\/ s.state = "paused" \/ ~History!CanTransitionTo(s, "active")
             \/ s.loop # "off" \/ History!ShouldPauseStreaming(s))
  <2>1. History!ResumeIfPossible(s) = t
    BY <1>3 DEF History!ResumeIfPossible
  <2>2. /\ t \in Streamers /\ t.exists /\ t.state = "active" /\ t.loop = "run"
        /\ t.next = s.next /\ t.ack = s.ack /\ t.begun = s.begun
    BY <1>1 DEF Streamers
  <2>3. Sound(t, f)
    BY <1>1, <2>2 DEF Sound, ClosedIsGone, LoopStates, AckBehind, PausedIsFull, StopsForAck
  <2> HIDE DEF t
  <2> QED BY <2>1, <2>2, <2>3 DEF Good
<1> QED BY <1>2, <1>3

LEMMA StopGood ==
  ASSUME NEW s, NEW f \in BOOLEAN, Good(s, f)
  PROVE  Good(History!StopStreamer(s), f)
  BY NoStreamerGood DEF History!StopStreamer

LEMMA SetWindowGood ==
  ASSUME NEW s, NEW f \in BOOLEAN, Good(s, f), s.exists, NEW w \in Nat \cup {History!None}
  PROVE  Good(History!SetSlidingWindowSize(s, w), f)
<1>1. Resumable([s EXCEPT !.window = w], f)
  BY DEF Good, Sound, Resumable, Streamers, ClosedIsGone, LoopStates, AckBehind, PausedIsFull
<1> QED BY <1>1, ResumeGood DEF History!SetSlidingWindowSize

LEMMA SetAckGood ==
  ASSUME NEW s, NEW f \in BOOLEAN, Good(s, f), s.exists, NEW a \in Nat
  PROVE  Good(History!SetAck(s, a), f)
<1>1. ASSUME a < s.next
      PROVE  Resumable([s EXCEPT !.ack = a], f)
  BY <1>1 DEF Good, Sound, Resumable, Streamers, ClosedIsGone, LoopStates, AckBehind, PausedIsFull
<1>2. s.next \in Nat /\ s.ack \in Int
  BY DEF Good, Streamers
<1>3. ~(a < s.ack \/ a >= s.next) => Good(History!ResumeIfPossible([s EXCEPT !.ack = a]), f)
  BY <1>1, <1>2, ResumeGood
<1> QED BY <1>3, StopGood DEF History!SetAck

(* A message that is sent, and the pause that its write may bring.         *)
LEMMA AfterWriteResumable ==
  ASSUME NEW s, NEW f \in BOOLEAN, NEW g \in BOOLEAN, f => g, Resumable(s, f)
  PROVE  /\ Resumable(History!AfterWrite(s, g), g)
         /\ History!AfterWrite(s, g).loop = s.loop /\ History!AfterWrite(s, g).begun = s.begun
         /\ History!AfterWrite(s, g).state # s.state => History!AfterWrite(s, g).state = "paused"
<1> DEFINE t == [s EXCEPT !.next = @ + 1]
           u == [t EXCEPT !.state = "paused"]
<1>1. /\ s \in Streamers /\ s.exists /\ s.state # "closed"
      /\ LoopStates(s) /\ AckBehind(s) /\ PausedIsFull(s, f)
  BY DEF Resumable, ClosedIsGone
<1>2. /\ t \in Streamers /\ t.exists /\ t.state = s.state /\ t.loop = s.loop
      /\ t.next = s.next + 1 /\ t.ack = s.ack /\ t.begun = s.begun
  BY <1>1 DEF Streamers
<1>3. t.ack < t.next
  BY <1>1, <1>2 DEF AckBehind, Streamers
<1>4. Resumable(t, g)
  BY <1>1, <1>2, <1>3 DEF Resumable, ClosedIsGone, LoopStates, AckBehind, PausedIsFull
<1> HIDE DEF t
<1>5. ASSUME g PROVE Resumable(u, g) /\ u.loop = t.loop /\ u.state = "paused" /\ u.begun = t.begun
  BY <1>2, <1>3, <1>5 DEF Resumable, ClosedIsGone, LoopStates, AckBehind, PausedIsFull, Streamers
<1>6. History!AfterWrite(s, g) = t \/ (g /\ History!AfterWrite(s, g) = u)
  BY DEF History!AfterWrite, History!Sent, History!PauseProducing, t
<1> HIDE DEF u
<1> QED BY <1>2, <1>4, <1>5, <1>6

LEMMA PauseGood ==
  ASSUME NEW s, Good(s, FALSE) \/ Good(s, TRUE)
  PROVE  Good(History!PauseProducing(s), TRUE)
<1> DEFINE u == [s EXCEPT !.state = "paused"]
<1>1. s \in Streamers /\ ClosedIsGone(s) /\ LoopStates(s) /\ AckBehind(s)
  BY DEF Good, Sound
<1>2. CASE History!CanTransitionTo(s, "paused")
  <2>1. s.state \in {"active", "paused"}
    BY <1>1, <1>2 DEF History!CanTransitionTo, Streamers
  <2>2. /\ u \in Streamers /\ u.exists = s.exists /\ u.state = "paused"
        /\ u.next = s.next /\ u.ack = s.ack
    BY <1>1 DEF Streamers
  <2>3. s.exists
    BY <1>1, <2>1 DEF ClosedIsGone, Streamers
  <2> HIDE DEF u
  <2>4. Good(u, TRUE)
    BY <1>1, <2>2, <2>3 DEF Good, Sound, ClosedIsGone, LoopStates, AckBehind, PausedIsFull,
                            StopsForAck
  <2> QED BY <1>2, <2>4 DEF History!PauseProducing, u
<1>3. CASE ~History!CanTransitionTo(s, "paused")
  <2>1. History!PauseProducing(s) = s
    BY <1>3 DEF History!PauseProducing
  <2>2. PausedIsFull(s, TRUE) /\ StopsForAck(s, TRUE)
    BY DEF PausedIsFull, StopsForAck
  <2> QED BY <1>1, <2>1, <2>2 DEF Good, Sound
<1> QED BY <1>2, <1>3

LEMMA ResumeProducingGood ==
  ASSUME NEW s, Good(s, TRUE)
  PROVE  Good(History!ResumeProducing(s), FALSE)
<1> DEFINE u == [s EXCEPT !.state = "active"]
<1>1. /\ s \in Streamers /\ ClosedIsGone(s) /\ LoopStates(s) /\ AckBehind(s)
  BY DEF Good, Sound
<1>2. CASE History!CanTransitionTo(s, "active")
  <2>1. s.state # "closed"
    BY <1>1, <1>2 DEF History!CanTransitionTo, Streamers
  <2>2. s.exists
    BY <1>1, <2>1 DEF ClosedIsGone, Streamers
  <2>3. /\ u \in Streamers /\ u.exists = s.exists /\ u.state = "active"
        /\ u.next = s.next /\ u.ack = s.ack
    BY <1>1 DEF Streamers
  <2> HIDE DEF u
  <2>4. Resumable(u, FALSE)
    BY <1>1, <2>2, <2>3 DEF Resumable, ClosedIsGone, LoopStates, AckBehind, PausedIsFull
  <2> QED BY <1>2, <2>4, ResumeGood DEF History!ResumeProducing, u
<1>3. CASE ~History!CanTransitionTo(s, "active")
  <2>1. History!ResumeProducing(s) = s
    BY <1>3 DEF History!ResumeProducing
  <2>2. s.state \in {"closing", "closed"}
    BY <1>1, <1>3 DEF History!CanTransitionTo, Streamers
  <2>3. PausedIsFull(s, FALSE) /\ StopsForAck(s, FALSE)
    BY <1>1, <2>2 DEF PausedIsFull, StopsForAck, ClosedIsGone
  <2> QED BY <1>1, <2>1, <2>3 DEF Good, Sound
<1> QED BY <1>2, <1>3

-----------------------------------------------------------------------------
(* The search only ever holds addresses it was given.                      *)
LEMMA NextItemType ==
  ASSUME History!StreamAssumption, NEW it \in Searches
  PROVE  History!NextItem(it).search \in Searches
<1> DEFINE empties == IF it.cur = History!None THEN it.empties
                      ELSE IF Vertices[it.cur] = 0 THEN it.empties + 1 ELSE 0
           done == [it EXCEPT !.cur = History!None, !.empties = empties]
           over == [done EXCEPT !.over = TRUE]
           vertex == [it EXCEPT !.left = @ - 1]
           address == [done EXCEPT !.pending = Tail(@), !.cur = Head(it.pending),
                                   !.left = Vertices[Head(it.pending)]]
<1>1. empties \in Nat
  BY DEF Searches
<1> HIDE DEF empties
<1>2. done \in Searches /\ done.pending = it.pending
  BY <1>1 DEF Searches
<1>3. over \in Searches
  BY <1>2 DEF Searches
<1>4. it.left > 0 => vertex \in Searches
  BY DEF Searches
<1>5. it.pending # <<>> => address \in Searches
  <2>1. it.pending \in Seq(History!Addresses)
    BY DEF Searches
  <2>2. it.pending # <<>> =>
          Head(it.pending) \in History!Addresses /\ Tail(it.pending) \in Seq(History!Addresses)
    BY <2>1
  <2>3. it.pending # <<>> => Vertices[Head(it.pending)] \in Nat
    BY <2>2 DEF History!StreamAssumption
  <2> HIDE DEF done
  <2> QED BY <1>2, <2>2, <2>3 DEF Searches
<1>6. \/ History!NextItem(it).search \in {it, over, done}
      \/ it.left > 0 /\ History!NextItem(it).search = vertex
      \/ it.pending # <<>> /\ History!NextItem(it).search = address
  <2>1. History!NextItem(it) =
          IF it.over THEN [item |-> "over", search |-> it]
          ELSE IF it.left > 0 THEN [item |-> "vertex", search |-> vertex]
          ELSE IF empties >= GapLimit THEN [item |-> "over", search |-> over]
          ELSE IF it.pending # <<>> THEN [item |-> "address", search |-> address]
          ELSE IF it.stop THEN [item |-> "over", search |-> over]
          ELSE [item |-> "await", search |-> done]
    BY ZenonT(30) DEF History!NextItem, empties
  <2> HIDE DEF over, done, vertex, address
  <2> QED BY <2>1
<1> HIDE DEF over, done, vertex, address
<1> QED BY <1>2, <1>3, <1>4, <1>5, <1>6

-----------------------------------------------------------------------------
(* The steps.                                                              *)

LEMMA LostStep ==
  ASSUME HistoryInv, History!ConnectionIsLost PROVE HistoryInv'
<1>1. /\ open' \in BOOLEAN /\ full' = full
      /\ streamer' = History!NoStreamer /\ search' = History!NoSearch
      /\ then' = History!Nothing /\ full \in BOOLEAN
  BY DEF HistoryInv, HistoryTypeOK, History!ConnectionIsLost
<1>2. History!NoSearch \in Searches
  BY DEF History!NoSearch, Searches
<1>3. Good(History!NoStreamer, full)
  BY <1>1, NoStreamerGood
<1> QED BY <1>1, <1>2, <1>3 DEF HistoryInv, HistoryTypeOK, Good, Calls

(* The write that sends an item, and the end of the loop's turn.           *)
LEMMA AfterItemGood ==
  ASSUME NEW s, NEW f \in BOOLEAN, Resumable(s, f), s.state \in {"active", "paused"},
         NEW t \in History!AfterItem(s)
  PROVE  Good(t, f)
<1>1. PICK l \in {"off", "run", "later"} :
        /\ t = [s EXCEPT !.loop = l]
        /\ l = "off" => History!ShouldPauseStreaming(s) \/ s.state # "active"
  BY DEF History!AfterItem
<1>2. s \in Streamers /\ s.exists /\ AckBehind(s) /\ PausedIsFull(s, f)
  BY DEF Resumable
<1>3. /\ t \in Streamers /\ t.exists = s.exists /\ t.loop = l /\ t.state = s.state
      /\ t.next = s.next /\ t.ack = s.ack /\ t.window = s.window
  BY <1>1, <1>2 DEF Streamers
<1>4. ClosedIsGone(t) /\ LoopStates(t) /\ AckBehind(t) /\ PausedIsFull(t, f)
  BY <1>2, <1>3 DEF ClosedIsGone, LoopStates, AckBehind, PausedIsFull
<1>5. StopsForAck(t, f)
  BY <1>1, <1>2, <1>3 DEF StopsForAck, History!ShouldPauseStreaming, PausedIsFull
<1> QED BY <1>3, <1>4, <1>5 DEF Good, Sound

LEMMA RunLoopStep ==
  ASSUME History!StreamAssumption, HistoryInv, History!RunLoop PROVE HistoryInv'
<1>1. /\ Good(streamer, full) /\ full \in BOOLEAN /\ search \in Searches
      /\ open \in BOOLEAN /\ then \in Calls /\ open' = open /\ then' = then
      /\ search' = History!NextItem(search).search /\ streamer.loop = "run"
  BY DEF HistoryInv, HistoryTypeOK, Good, History!RunLoop
<1>2. search' \in Searches
  BY <1>1, NextItemType
<1>3. streamer.state \in {"active", "paused"} /\ streamer.exists /\ streamer \in Streamers
  BY <1>1 DEF Good, Sound, LoopStates, ClosedIsGone
<1>4. Resumable(streamer, full)
  BY <1>1, <1>3, GoodIsResumable
<1> SUFFICES full' \in BOOLEAN /\ Good(streamer', full')
  BY <1>1, <1>2 DEF HistoryInv, HistoryTypeOK, Good
<1>5. CASE History!SendItem
  <2>1. PICK fills \in History!Fills :
          /\ full' = fills
          /\ streamer' \in History!AfterItem(History!AfterWrite(streamer, fills))
    BY <1>5 DEF History!SendItem
  <2>2. fills \in BOOLEAN /\ (full => fills)
    BY <2>1 DEF History!Fills
  <2>3. /\ Resumable(History!AfterWrite(streamer, fills), fills)
        /\ History!AfterWrite(streamer, fills).state \in {"active", "paused"}
    BY <1>1, <1>3, <1>4, <2>2, AfterWriteResumable
  <2> QED BY <2>1, <2>2, <2>3, AfterItemGood
<1>6. CASE History!SubscriptionFails
  BY <1>1, <1>6, StopGood DEF History!SubscriptionFails
<1>7. CASE History!GracefullyClose
  <2>1. CASE History!CanTransitionTo(streamer, "closing")
    <3>1. PICK fills \in History!Fills :
            LET s == History!AfterWrite(streamer, fills)
            IN /\ full' = fills
               /\ streamer' = [s EXCEPT !.loop = "off",
                                        !.state = IF s.state = "paused" THEN @ ELSE "closing"]
      BY <1>7, <2>1 DEF History!GracefullyClose
    <3>2. fills \in BOOLEAN /\ (full => fills)
      BY <3>1 DEF History!Fills
    <3>3. PICK s : s = History!AfterWrite(streamer, fills)
      OBVIOUS
    <3>4. Resumable(s, fills)
      BY <1>1, <1>4, <3>2, <3>3, AfterWriteResumable
    <3>5. /\ streamer' \in Streamers /\ streamer'.exists = s.exists /\ streamer'.loop = "off"
          /\ streamer'.next = s.next /\ streamer'.ack = s.ack
          /\ s.state = "paused" => streamer'.state = "paused"
          /\ s.state # "paused" => streamer'.state = "closing"
      BY <3>1, <3>3, <3>4 DEF Resumable, Streamers
    <3>6. Sound(streamer', fills)
      BY <3>4, <3>5 DEF Resumable, Sound, ClosedIsGone, LoopStates, AckBehind, PausedIsFull,
                        StopsForAck
    <3> QED BY <3>1, <3>2, <3>5, <3>6 DEF Good
  <2>2. CASE ~History!CanTransitionTo(streamer, "closing")
    <3>1. streamer' = [streamer EXCEPT !.loop = "off"] /\ full' = full
      BY <1>7, <2>2 DEF History!GracefullyClose
    <3>2. streamer.state = "paused"
      BY <1>3, <2>2 DEF History!CanTransitionTo
    <3>3. full
      BY <1>1, <3>2 DEF Good, Sound, PausedIsFull
    <3>4. /\ streamer' \in Streamers /\ streamer'.exists = streamer.exists
          /\ streamer'.loop = "off" /\ streamer'.state = streamer.state
          /\ streamer'.next = streamer.next /\ streamer'.ack = streamer.ack
      BY <1>3, <3>1 DEF Streamers
    <3>5. Sound(streamer', full)
      BY <1>3, <1>4, <3>2, <3>3, <3>4 DEF Resumable, Sound, ClosedIsGone, LoopStates, AckBehind,
                                          PausedIsFull, StopsForAck
    <3> QED BY <1>1, <3>1, <3>4, <3>5 DEF Good
  <2> QED BY <2>1, <2>2
<1>8. CASE History!AwaitItems
  <2>1. streamer' = [streamer EXCEPT !.loop = "await"] /\ full' = full
    BY <1>8 DEF History!AwaitItems
  <2>2. /\ streamer' \in Streamers /\ streamer'.exists = streamer.exists
        /\ streamer'.loop = "await" /\ streamer'.state = streamer.state
        /\ streamer'.next = streamer.next /\ streamer'.ack = streamer.ack
    BY <1>3, <2>1 DEF Streamers
  <2>3. Sound(streamer', full)
    BY <1>3, <1>4, <2>2 DEF Resumable, Sound, ClosedIsGone, LoopStates, AckBehind,
                            PausedIsFull, StopsForAck
  <2> QED BY <1>1, <2>1, <2>2, <2>3 DEF Good
<1> QED BY <1>5, <1>6, <1>7, <1>8 DEF History!RunLoop

LEMMA CreateGood ==
  ASSUME full \in BOOLEAN, NEW w \in Nat \cup {History!None}, History!CreateStreamer(w)
  PROVE  full' \in BOOLEAN /\ Good(streamer', full') /\ then' \in Calls
<1> DEFINE new == [History!NoStreamer EXCEPT !.exists = TRUE, !.state = "not_started"]
           s == History!SetSlidingWindowSize(new, w)
<1>1. /\ new \in Streamers /\ new.exists /\ new.state = "not_started" /\ new.loop = "off"
      /\ new.next = 0 /\ new.ack = -1
  BY DEF History!NoStreamer, Streamers, History!None
<1> HIDE DEF new
<1>2. Resumable([new EXCEPT !.window = w], full)
  <2>1. /\ [new EXCEPT !.window = w] \in Streamers /\ [new EXCEPT !.window = w].exists
        /\ [new EXCEPT !.window = w].state = "not_started"
        /\ [new EXCEPT !.window = w].loop = "off"
        /\ [new EXCEPT !.window = w].next = 0 /\ [new EXCEPT !.window = w].ack = -1
    BY <1>1 DEF Streamers
  <2> QED BY <2>1 DEF Resumable, ClosedIsGone, LoopStates, AckBehind, PausedIsFull
<1>3. Resumable(new, full)
  BY <1>1 DEF Resumable, ClosedIsGone, LoopStates, AckBehind, PausedIsFull
<1>4. Resumable(s, full) /\ (s.loop = "run" => Good(s, full))
  BY <1>1, <1>2, <1>3, ResumeGood, GoodIsResumable DEF History!SetSlidingWindowSize
<1>5. CASE s.loop = "run"
  <2>1. streamer' = s /\ then' = [call |-> "start"] /\ full' = full
    BY <1>5 DEF History!CreateStreamer, new
  <2> HIDE DEF s
  <2> QED BY <1>4, <1>5, <2>1 DEF Calls
<1>6. CASE s.loop # "run"
  <2>1. PICK fills \in History!Fills :
          /\ streamer' =
               History!ResumeIfPossible(History!AfterWrite([s EXCEPT !.begun = TRUE], fills))
          /\ full' = fills
          /\ then' = History!Nothing
    BY <1>6 DEF History!CreateStreamer, new
  <2> HIDE DEF s
  <2>2. Resumable([s EXCEPT !.begun = TRUE], full)
    BY <1>4 DEF Resumable, Streamers, ClosedIsGone, LoopStates, AckBehind, PausedIsFull
  <2>3. fills \in BOOLEAN /\ (full => fills)
    BY <2>1 DEF History!Fills
  <2>4. Resumable(History!AfterWrite([s EXCEPT !.begun = TRUE], fills), fills)
    BY <2>2, <2>3, AfterWriteResumable
  <2>5. Good(History!ResumeIfPossible(History!AfterWrite([s EXCEPT !.begun = TRUE], fills)), fills)
    BY <2>3, <2>4, ResumeGood
  <2> QED BY <2>1, <2>3, <2>5 DEF Calls
<1> QED BY <1>5, <1>6

LEMMA OpenStep ==
  ASSUME History!StreamAssumption, HistoryInv, NEW w \in History!Windows,
         \/ History!OpenXpub(w)
         \/ \E list \in Lists, last \in BOOLEAN : History!OpenManual(list, last, w)
  PROVE  HistoryInv'
<1>1. PICK manual \in BOOLEAN, list \in Seq(History!Addresses), last \in BOOLEAN :
        search' = History!NewSearch(manual, list, last) /\ History!CreateStreamer(w) /\ open' = open
  BY DEF History!OpenXpub, History!OpenManual, History!StreamAssumption
<1>2. History!NewSearch(manual, list, last) \in Searches
  BY DEF History!NewSearch, History!NoSearch, Searches
<1>3. w \in Nat \cup {History!None}
  BY DEF History!Windows, History!StreamAssumption
<1>4. full \in BOOLEAN /\ open \in BOOLEAN
  BY DEF HistoryInv, HistoryTypeOK
<1>5. full' \in BOOLEAN /\ Good(streamer', full') /\ then' \in Calls
  BY <1>1, <1>3, <1>4, CreateGood
<1> QED BY <1>1, <1>2, <1>4, <1>5 DEF HistoryInv, HistoryTypeOK, Good

LEMMA AddAddressesStep ==
  ASSUME History!StreamAssumption, HistoryInv, NEW list \in Lists, NEW last \in BOOLEAN,
         History!AddAddresses(list, last)
  PROVE  HistoryInv'
<1>1. CASE ~search.manual
  BY <1>1, LostStep DEF History!AddAddresses
<1>2. CASE search.manual
  <2>1. /\ search' = [search EXCEPT !.pending = @ \o list, !.stop = @ \/ last]
        /\ streamer' = [streamer EXCEPT !.loop = IF @ = "await" THEN "run" ELSE @]
        /\ open' = open /\ full' = full /\ then' = then
    BY <1>2 DEF History!AddAddresses
  <2>2. /\ search \in Searches /\ Good(streamer, full) /\ streamer \in Streamers
        /\ open \in BOOLEAN /\ full \in BOOLEAN /\ then \in Calls
    BY DEF HistoryInv, HistoryTypeOK, Good
  <2>3. search' \in Searches
    <3>1. search.pending \o list \in Seq(History!Addresses) /\ (search.stop \/ last) \in BOOLEAN
      BY <2>2 DEF Searches, History!StreamAssumption
    <3> QED BY <2>1, <2>2, <3>1 DEF Searches
  <2>4. /\ streamer' \in Streamers /\ streamer'.exists = streamer.exists
        /\ streamer'.state = streamer.state /\ streamer'.next = streamer.next
        /\ streamer'.ack = streamer.ack /\ streamer'.window = streamer.window
        /\ streamer'.loop \in {"off", "run", "later"}
        /\ streamer'.loop = "off" => streamer.loop = "off"
        /\ streamer.loop = "off" => streamer' = streamer
    BY <2>1, <2>2 DEF Streamers
  <2>5. streamer.loop # "off" => streamer.exists
    BY <2>2 DEF Good, Sound, ClosedIsGone, LoopStates
  <2>6. CASE streamer.loop = "off"
    BY <2>1, <2>2, <2>3, <2>4, <2>6 DEF HistoryInv, HistoryTypeOK, Good
  <2>7. CASE streamer.loop # "off"
    <3>1. Sound(streamer', full)
      BY <2>2, <2>4, <2>5, <2>7 DEF Good, Sound, ClosedIsGone, LoopStates, AckBehind,
                                    PausedIsFull, StopsForAck
    <3> QED BY <2>1, <2>2, <2>3, <2>4, <3>1 DEF HistoryInv, HistoryTypeOK
  <2> QED BY <2>6, <2>7
<1> QED BY <1>1, <1>2

LEMMA AckStep ==
  ASSUME History!StreamAssumption, HistoryInv, NEW ack \in 0 .. MaxSeq,
         NEW w \in History!Windows \cup {History!Absent},
         History!AckRequest(ack, w)
  PROVE  HistoryInv'
<1>1. /\ streamer.exists /\ streamer' = History!SetAck(streamer, ack)
      /\ then' = IF w = History!Absent THEN History!Nothing ELSE [call |-> "window", size |-> w]
      /\ open' = open /\ full' = full /\ search' = search
  BY DEF History!AckRequest
<1>2. Good(streamer, full) /\ full \in BOOLEAN /\ ack \in Nat
  BY DEF HistoryInv, HistoryTypeOK, Good, History!StreamAssumption
<1>3. Good(streamer', full)
  BY <1>1, <1>2, SetAckGood
<1>4. then' \in Calls
  <2>1. w # History!Absent => w \in Nat \cup {History!None}
    BY DEF History!Windows, History!StreamAssumption
  <2> QED BY <1>1, <2>1 DEF Calls
<1> QED BY <1>1, <1>3, <1>4 DEF HistoryInv, HistoryTypeOK, Good

LEMMA CallGoesOnStep ==
  ASSUME HistoryInv, History!CallGoesOn PROVE HistoryInv'
<1>1. CASE then.call = "window" /\ streamer.exists
  <2>1. /\ streamer' = History!SetSlidingWindowSize(streamer, then.size) /\ then' = History!Nothing
        /\ open' = open /\ full' = full /\ search' = search
    BY <1>1 DEF History!CallGoesOn
  <2>2. then \in Calls /\ Good(streamer, full) /\ full \in BOOLEAN
    BY DEF HistoryInv, HistoryTypeOK, Good
  <2>3. then.size \in Nat \cup {History!None}
    <3>1. then # History!Nothing /\ then # [call |-> "start"]
      BY <1>1 DEF History!Nothing
    <3>2. then \in [call : {"window"}, size : Nat \cup {History!None}]
      BY <2>2, <3>1 DEF Calls
    <3> QED BY <3>2
  <2>4. Good(streamer', full)
    BY <1>1, <2>1, <2>2, <2>3, SetWindowGood
  <2> QED BY <2>1, <2>4 DEF HistoryInv, HistoryTypeOK, Good, Calls
<1>2. CASE ~(then.call = "window" /\ streamer.exists)
  BY <1>2, LostStep DEF History!CallGoesOn
<1> QED BY <1>1, <1>2

LEMMA OtherRequestsStep ==
  ASSUME History!StreamAssumption, HistoryInv,
         \/ History!StopRequest \/ History!LoopContinues
         \/ \E w \in History!Windows : History!WindowRequest(w)
  PROVE  HistoryInv'
<1>1. /\ Good(streamer, full) /\ full \in BOOLEAN
      /\ open' = open /\ full' = full /\ search' = search /\ then' = then
  BY DEF HistoryInv, HistoryTypeOK, Good, History!StopRequest, History!LoopContinues,
         History!WindowRequest
<1> SUFFICES Good(streamer', full)
  BY <1>1 DEF HistoryInv, HistoryTypeOK, Good
<1>2. CASE History!StopRequest
  BY <1>1, <1>2, StopGood DEF History!StopRequest
<1>3. CASE History!LoopContinues
  <2>1. streamer.loop = "later" /\ streamer' = [streamer EXCEPT !.loop = "run"]
    BY <1>3 DEF History!LoopContinues
  <2>2. /\ streamer' \in Streamers /\ streamer'.exists = streamer.exists
        /\ streamer'.state = streamer.state /\ streamer'.next = streamer.next
        /\ streamer'.ack = streamer.ack /\ streamer'.loop = "run"
    BY <1>1, <2>1 DEF Good, Streamers
  <2>3. streamer.exists
    BY <1>1, <2>1 DEF Good, Sound, ClosedIsGone, LoopStates
  <2> QED BY <1>1, <2>1, <2>2, <2>3 DEF Good, Sound, ClosedIsGone, LoopStates, AckBehind,
                                        PausedIsFull, StopsForAck
<1>4. CASE \E w \in History!Windows : History!WindowRequest(w)
  <2>1. PICK w \in History!Windows : History!WindowRequest(w)
    BY <1>4
  <2>2. w \in Nat \cup {History!None}
    BY DEF History!Windows, History!StreamAssumption
  <2> QED BY <1>1, <2>1, <2>2, SetWindowGood DEF History!WindowRequest
<1> QED BY <1>2, <1>3, <1>4

LEMMA TransportStep ==
  ASSUME HistoryInv, History!BufferFills \/ History!BufferDrains PROVE HistoryInv'
<1>1. Good(streamer, full) /\ open' = open /\ search' = search /\ then' = then
  BY DEF HistoryInv, HistoryTypeOK, Good, History!BufferFills, History!BufferDrains
<1>2. CASE History!BufferFills
  <2>1. full = FALSE /\ full' = TRUE /\ streamer' = History!PauseProducing(streamer)
    BY <1>2 DEF History!BufferFills, HistoryInv, HistoryTypeOK
  <2>2. Good(streamer', TRUE)
    BY <1>1, <2>1, PauseGood
  <2> QED BY <1>1, <2>1, <2>2 DEF HistoryInv, HistoryTypeOK, Good
<1>3. CASE History!BufferDrains
  <2>1. full = TRUE /\ full' = FALSE /\ streamer' = History!ResumeProducing(streamer)
    BY <1>3 DEF History!BufferDrains, HistoryInv, HistoryTypeOK
  <2>2. Good(streamer', FALSE)
    BY <1>1, <2>1, ResumeProducingGood
  <2> QED BY <1>1, <2>1, <2>2 DEF HistoryInv, HistoryTypeOK, Good
<1> QED BY <1>2, <1>3

LEMMA InitHistoryInv ==
  ASSUME History!Init PROVE HistoryInv
<1>1. Good(History!NoStreamer, FALSE)
  BY NoStreamerGood
<1>2. History!NoSearch \in Searches
  BY DEF History!NoSearch, Searches
<1> QED BY <1>1, <1>2 DEF History!Init, HistoryInv, HistoryTypeOK, Good, Calls

LEMMA NextHistoryInv ==
  ASSUME History!StreamAssumption, HistoryInv, [History!Next]_(History!vars) PROVE HistoryInv'
<1>1. CASE History!RunLoop BY <1>1, RunLoopStep
<1>2. CASE \/ History!LoopContinues \/ History!StopRequest
           \/ \E w \in History!Windows : History!WindowRequest(w)
  BY <1>2, OtherRequestsStep
<1>3. CASE History!CallGoesOn BY <1>3, CallGoesOnStep
<1>4. CASE \E list \in Lists, last \in BOOLEAN : History!AddAddresses(list, last)
  BY <1>4, AddAddressesStep
<1>5. ASSUME NEW w \in History!Windows,
             \/ History!OpenXpub(w)
             \/ \E list \in Lists, last \in BOOLEAN : History!OpenManual(list, last, w)
      PROVE HistoryInv'
  BY <1>5, OpenStep
<1>6. ASSUME NEW ack \in 0 .. MaxSeq, NEW w \in History!Windows \cup {History!Absent},
             History!AckRequest(ack, w)
      PROVE  HistoryInv'
  BY <1>6, AckStep
<1>7. CASE History!BufferFills \/ History!BufferDrains BY <1>7, TransportStep
<1>8. CASE History!ConnectionLost BY <1>8, LostStep DEF History!ConnectionLost
<1>9. CASE UNCHANGED History!vars
  BY <1>9 DEF History!vars, HistoryInv, HistoryTypeOK
<1> QED BY <1>1, <1>2, <1>3, <1>4, <1>5, <1>6, <1>7, <1>8, <1>9 DEF History!Next

-----------------------------------------------------------------------------
(* The inductive invariant holds in every behaviour of the streamer.       *)
THEOREM HistoryInvariance ==
  ASSUME History!StreamAssumption PROVE History!Spec => []HistoryInv
<1>1. History!Init => HistoryInv BY InitHistoryInv
<1>2. HistoryInv /\ [History!Next]_(History!vars) => HistoryInv' BY NextHistoryInv
<1> QED BY <1>1, <1>2, PTL DEF History!Spec

(* No lost wakeup (StreamNeverStalls): however acks, windows, addresses,   *)
(* turns of the loop and pauses of the transport are interleaved, a loop   *)
(* that has stopped while the transport takes messages waits for an ack.   *)
THEOREM HistoryNeverStalls ==
  ASSUME History!StreamAssumption PROVE History!Spec => []StreamNeverStalls
<1>1. HistoryInv => StreamNeverStalls
  BY DEF HistoryInv, Sound, StopsForAck, StreamNeverStalls, History!ShouldPauseStreaming,
         ShouldPauseStreaming, History!None, None
<1> QED BY <1>1, HistoryInvariance, PTL

(* The loop is only ever under way on a stream that is open: the           *)
(* assertions of get_next_seq and set_state(ACTIVE) hold wherever the loop *)
(* was left, and an ack never gets ahead of what was sent.                 *)
SequenceIsSound ==
    /\ streamer.loop # "off" => streamer.exists /\ streamer.state \in {"active", "paused"}
    /\ streamer.ack < streamer.next

\* SequenceIsSound holds in every state of the streamer (get_next_seq, ack).
THEOREM LoopRunsOnOpenStream ==
  ASSUME History!StreamAssumption PROVE History!Spec => []SequenceIsSound
<1>1. HistoryInv => SequenceIsSound
  BY DEF HistoryInv, Sound, LoopStates, ClosedIsGone, AckBehind, SequenceIsSound
<1> QED BY <1>1, HistoryInvariance, PTL

(* What pausing leaves undone is made up for: a paused stream has a        *)
(* transport that will call resumeProducing, because its buffer is full.   *)
PauseHasAResume == streamer.state = "paused" => full

\* PauseHasAResume holds in every state (pauseProducing, resumeProducing).
THEOREM PausesAreTheTransports ==
  ASSUME History!StreamAssumption PROVE History!Spec => []PauseHasAResume
<1>1. HistoryInv => PauseHasAResume
  BY DEF HistoryInv, Sound, PausedIsFull, PauseHasAResume
<1> QED BY <1>1, HistoryInvariance, PTL
=============================================================================
