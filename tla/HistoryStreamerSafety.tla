----------------------- MODULE HistoryStreamerSafety ------------------------
(***************************************************************************)
(* What the history streamer promises to its client, see HistoryStreamer.  *)
(***************************************************************************)
EXTENDS Integers

VARIABLES full, streamer

None == -1     \* flow control is off; also no address

(* should_pause_streaming: the sliding window is full.                     *)
ShouldPauseStreaming(s) == s.window # None /\ s.next >= s.ack + s.window + 1

(* No lost wakeup.  Acks, windows, new addresses, the transport and the    *)
(* loop itself each resume the stream only in some of its states, and a    *)
(* resume that comes in another one is dropped.  Still, a stream whose     *)
(* loop has stopped while the transport takes messages waits for an ack:   *)
(* its window is full, or its END was sent.                                *)
StreamNeverStalls ==
    streamer.exists /\ streamer.loop = "off" /\ ~full =>
        ShouldPauseStreaming(streamer) \/ streamer.state = "closing"
=============================================================================
