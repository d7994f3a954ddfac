-------------------------- MODULE HistoryStreamer --------------------------
(***************************************************************************)
(* The history streamer of the admin WebSocket: HistoryStreamer            *)
(* (hathor/websocket/streamer.py), the address and gap-limit iterators it  *)
(* reads (iterators.py) and the requests of one client                     *)
(* (HathorAdminWebsocketProtocol, protocol.py).                            *)
(*                                                                         *)
(* The main loop is a coroutine that runs inside the call that starts or   *)
(* resumes it, until it pauses, waits for addresses or gives the reactor   *)
(* back; meanwhile (loop = "run") nothing else happens, but the transport  *)
(* may pause its producer during a write.  What the interrupted call still *)
(* has to do afterwards is in `then'.                                      *)
(***************************************************************************)
EXTENDS Integers, Sequences

CONSTANTS
    Vertices,     \* [address -> number of vertices in its history]
    Lists,        \* sequences of addresses a client may send
    XpubList,     \* the first addresses derived from an xpub
    GapLimit,     \* gap-limit of the requests
    WindowSizes,  \* sizes of the sliding window in the requests
    MaxPending,   \* MAX_PENDING_ADDRESSES_SIZE
    MaxSeq        \* bound: sequence numbers of a stream

Addresses == DOMAIN Vertices

(* What the proofs assume: histories have a length, requests name          *)
(* addresses and a window that is not negative (a negative one turns flow  *)
(* control off).  The gap limit may be any number.                         *)
StreamAssumption ==
    /\ Vertices \in [Addresses -> Nat]
    /\ Lists \subseteq Seq(Addresses) /\ XpubList \in Seq(Addresses)
    /\ GapLimit \in Int /\ WindowSizes \subseteq Nat
    /\ MaxPending \in Nat /\ MaxSeq \in Nat

Absent == -2   \* no window in an ack request

VARIABLES
    open,        \* the connection is open
    full,        \* the transport has paused its producer
    streamer,    \* _history_streamer, ~exists when it is None
    search,      \* search_iter: the addresses to come and the gap-limit search
    then         \* what the call that runs the loop does next: "", "start" or a window

vars == <<open, full, streamer, search, then>>

\* The property, should_pause_streaming and None.
INSTANCE HistoryStreamerSafety

NoStreamer == [exists |-> FALSE, state |-> "closed", loop |-> "off", next |-> 0, ack |-> -1,
               window |-> None, begun |-> FALSE]
NoSearch == [manual |-> FALSE, pending |-> <<>>, stop |-> FALSE, cur |-> None, left |-> 0,
             empties |-> 0, over |-> FALSE]
Nothing == [call |-> "none"]

(* A request may also turn flow control off, with a negative size.         *)
Windows == WindowSizes \cup {None}

Init ==
    /\ open = TRUE /\ full = FALSE
    /\ streamer = NoStreamer /\ search = NoSearch
    /\ then = Nothing

(* The connection is up and no call is in the middle of the loop.          *)
ReactorFree == open /\ streamer.loop # "run" /\ then = Nothing

(* VALID_TRANSITIONS                                                       *)
CanTransitionTo(s, state) ==
    state \in CASE s.state = "not_started" -> {"active"}
                [] s.state = "active" -> {"active", "paused", "closing", "closed"}
                [] s.state = "paused" -> {"active", "paused", "closed"}
                [] s.state = "closing" -> {"closed"}
                [] OTHER -> {}

----------------------------------------------------------------------------
(* Operations of the streamer, on its state s.                             *)

(* A mutant of ResumeIfPossible: only a stream that is paused is resumed.  *)
ResumeIfPaused(s) ==
    IF s.state # "paused" \/ s.loop # "off" \/ ShouldPauseStreaming(s) THEN s
    ELSE [s EXCEPT !.state = "active", !.loop = "run"]

ResumeIfPossible(s) ==
    IF \/ s.state = "paused" \/ ~CanTransitionTo(s, "active")
       \/ s.loop # "off" \/ ShouldPauseStreaming(s)
    THEN s
    ELSE [s EXCEPT !.state = "active", !.loop = "run"]

(* stop: the deferred fires and the protocol forgets the streamer.         *)
StopStreamer(s) == IF CanTransitionTo(s, "closed") THEN NoStreamer ELSE s

SetSlidingWindowSize(s, w) == IF w = s.window THEN s ELSE ResumeIfPossible([s EXCEPT !.window = w])

SetAck(s, ack) ==
    IF s.state = "closing" /\ ack = s.next - 1 THEN StopStreamer(s)
    ELSE IF ack = s.ack THEN s
    ELSE IF ack < s.ack \/ ack >= s.next THEN StopStreamer(s)
    ELSE ResumeIfPossible([s EXCEPT !.ack = ack])

(* pauseProducing, which the transport calls when its buffer is full.      *)
PauseProducing(s) == IF CanTransitionTo(s, "paused") THEN [s EXCEPT !.state = "paused"] ELSE s

ResumeProducing(s) ==
    IF CanTransitionTo(s, "active") THEN ResumeIfPossible([s EXCEPT !.state = "active"]) ELSE s

(* A message takes the next sequence number; the write may fill the        *)
(* buffer, and a write to a full one pauses again.  start() makes the      *)
(* streamer the producer of the transport.                                 *)
Sent(s) == [s EXCEPT !.next = @ + 1]
AfterWrite(s, fills) == IF fills /\ s.begun THEN PauseProducing(Sent(s)) ELSE Sent(s)
Fills == {f \in BOOLEAN : full => f}

----------------------------------------------------------------------------
(* The search: gap_limit_search over the addresses of the client.          *)

NewSearch(manual, addresses, last) ==
    [NoSearch EXCEPT !.manual = manual, !.pending = addresses, !.stop = last]

(* Asks for the next item.  An address that turns out empty counts when    *)
(* the search is resumed after it.                                         *)
NextItem(it) ==
    LET empties == IF it.cur = None THEN it.empties
                   ELSE IF Vertices[it.cur] = 0 THEN it.empties + 1 ELSE 0
        done == [it EXCEPT !.cur = None, !.empties = empties]
    IN IF it.over THEN [item |-> "over", search |-> it]
       ELSE IF it.left > 0 THEN [item |-> "vertex", search |-> [it EXCEPT !.left = @ - 1]]
       ELSE IF empties >= GapLimit THEN [item |-> "over", search |-> [done EXCEPT !.over = TRUE]]
       ELSE IF it.pending # <<>>
       THEN [item |-> "address",
             search |-> [done EXCEPT !.pending = Tail(@), !.cur = Head(it.pending),
                                     !.left = Vertices[Head(it.pending)]]]
       ELSE IF it.stop THEN [item |-> "over", search |-> [done EXCEPT !.over = TRUE]]
       ELSE [item |-> "await", search |-> done]

----------------------------------------------------------------------------
(* The main loop, one item at a time.                                      *)

(* After an item: the window, then a pause during the write, end the loop; *)
(* otherwise it goes on, at once or after a turn of the reactor.           *)
AfterItem(s) ==
    IF ShouldPauseStreaming(s) \/ s.state # "active" THEN {[s EXCEPT !.loop = "off"]}
    ELSE {[s EXCEPT !.loop = l] : l \in {"run", "later"}}

SendItem ==
    /\ NextItem(search).item \in {"address", "vertex"}
    /\ streamer.next < MaxSeq
    /\ \E fills \in Fills : /\ full' = fills
                            /\ streamer' \in AfterItem(AfterWrite(streamer, fills))

(* The limits on subscribed addresses are reached.                         *)
SubscriptionFails ==
    /\ NextItem(search).item = "address"
    /\ streamer' = StopStreamer(streamer)
    /\ UNCHANGED full

(* gracefully_close.  A pause during the write of END makes the change to  *)
(* CLOSING fail: the assertion ends the loop and END was sent.             *)
GracefullyClose ==
    /\ NextItem(search).item = "over"
    /\ streamer.next < MaxSeq
    /\ IF CanTransitionTo(streamer, "closing")
       THEN \E fills \in Fills :
              LET s == AfterWrite(streamer, fills)
              IN /\ full' = fills
                 /\ streamer' = [s EXCEPT !.loop = "off",
                                          !.state = IF s.state = "paused" THEN @ ELSE "closing"]
       ELSE streamer' = [streamer EXCEPT !.loop = "off"] /\ UNCHANGED full

AwaitItems ==
    /\ NextItem(search).item = "await"
    /\ streamer' = [streamer EXCEPT !.loop = "await"]
    /\ UNCHANGED full

RunLoop ==
    /\ open /\ streamer.loop = "run"
    /\ SendItem \/ SubscriptionFails \/ GracefullyClose \/ AwaitItems
    /\ search' = NextItem(search).search
    /\ UNCHANGED <<open, then>>

(* deferLater fires.                                                       *)
LoopContinues ==
    /\ ReactorFree /\ streamer.loop = "later"
    /\ streamer' = [streamer EXCEPT !.loop = "run"]
    /\ UNCHANGED <<open, full, search, then>>

----------------------------------------------------------------------------
(* The requests of the client.                                             *)

(* _create_streamer.  The window is set before start(): when it lets       *)
(* messages through, the loop runs first and start() is called afterwards. *)
CreateStreamer(window) ==
    LET s == SetSlidingWindowSize([NoStreamer EXCEPT !.exists = TRUE, !.state = "not_started"],
                                  window)
    IN IF s.loop = "run"
       THEN /\ streamer' = s
            /\ then' = [call |-> "start"]
            /\ UNCHANGED full
       ELSE \E fills \in Fills :
              /\ streamer' = ResumeIfPossible(AfterWrite([s EXCEPT !.begun = TRUE], fills))
              /\ full' = fills
              /\ then' = Nothing

OpenManual(list, last, window) ==
    /\ ReactorFree /\ ~streamer.exists
    /\ Len(list) <= MaxPending
    /\ search' = NewSearch(TRUE, list, last)
    /\ CreateStreamer(window)
    /\ UNCHANGED open

(* The addresses of an xpub never end: the gap limit does.                 *)
OpenXpub(window) ==
    /\ ReactorFree /\ ~streamer.exists
    /\ search' = NewSearch(FALSE, XpubList, FALSE)
    /\ CreateStreamer(window)
    /\ UNCHANGED open

(* An exception in a handler closes the connection, which stops the        *)
(* streamer.                                                               *)
ConnectionIsLost ==
    /\ open' = FALSE
    /\ streamer' = NoStreamer /\ search' = NoSearch /\ then' = Nothing
    /\ UNCHANGED full

(* More addresses for the open stream resume a loop that waits for them;   *)
(* an xpub stream has no list to add to.                                   *)
AddAddresses(list, last) ==
    /\ ReactorFree /\ streamer.exists
    /\ IF ~search.manual THEN ConnectionIsLost
       ELSE /\ Len(search.pending) + Len(list) <= MaxPending
            /\ search' = [search EXCEPT !.pending = @ \o list, !.stop = @ \/ last]
            /\ streamer' = [streamer EXCEPT !.loop = IF @ = "await" THEN "run" ELSE @]
            /\ UNCHANGED <<open, full, then>>

(* _ack_streamer with an ack, a window or both.                            *)
AckRequest(ack, window) ==
    /\ ReactorFree /\ streamer.exists
    /\ streamer' = SetAck(streamer, ack)
    /\ then' = IF window = Absent THEN Nothing ELSE [call |-> "window", size |-> window]
    /\ UNCHANGED <<open, full, search>>

WindowRequest(window) ==
    /\ ReactorFree /\ streamer.exists
    /\ streamer' = SetSlidingWindowSize(streamer, window)
    /\ UNCHANGED <<open, full, search, then>>

StopRequest ==
    /\ ReactorFree /\ streamer.exists
    /\ streamer' = StopStreamer(streamer)
    /\ UNCHANGED <<open, full, search, then>>

(* The call that ran the loop goes on: start() asserts that the streamer   *)
(* was not started, and after an ack that ended the stream there is no     *)
(* streamer to give a window to.                                           *)
CallGoesOn ==
    /\ open /\ streamer.loop # "run" /\ then # Nothing
    /\ IF then.call = "window" /\ streamer.exists
       THEN /\ streamer' = SetSlidingWindowSize(streamer, then.size)
            /\ then' = Nothing
            /\ UNCHANGED <<open, full, search>>
       ELSE ConnectionIsLost

----------------------------------------------------------------------------
(* The transport.                                                          *)

(* Other messages on the same connection fill the buffer.                  *)
BufferFills ==
    /\ ReactorFree /\ ~full
    /\ full' = TRUE
    /\ streamer' = PauseProducing(streamer)
    /\ UNCHANGED <<open, search, then>>

BufferDrains ==
    /\ ReactorFree /\ full
    /\ full' = FALSE
    /\ streamer' = ResumeProducing(streamer)
    /\ UNCHANGED <<open, search, then>>

ConnectionLost == ReactorFree /\ ConnectionIsLost

Next ==
    \/ RunLoop \/ LoopContinues \/ CallGoesOn
    \/ \E list \in Lists, last \in BOOLEAN :
          \/ AddAddresses(list, last)
          \/ \E w \in Windows : OpenManual(list, last, w)
    \/ \E w \in Windows : OpenXpub(w) \/ WindowRequest(w)
    \/ \E ack \in 0 .. MaxSeq, w \in Windows \cup {Absent} : AckRequest(ack, w)
    \/ StopRequest
    \/ BufferFills \/ BufferDrains \/ ConnectionLost

Spec == Init /\ [][Next]_vars

----------------------------------------------------------------------------
(* The first message of a stream is stream:history:begin.                  *)
BeginComesFirst == streamer.next > 0 => streamer.begun
=============================================================================
