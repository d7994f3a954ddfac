---------------------------- MODULE Connections ----------------------------
(***************************************************************************)
(* HathorProtocol and its states HELLO, PEER_ID and READY at both ends of  *)
(* every connection between honest nodes, with a pool per node.  The       *)
(* checks of HELLO and PEER-ID on versions, settings, whitelists and       *)
(* certificates are one accept-or-close choice; messages of the READY      *)
(* state are represented by the GET-PEERS sent on entering it.             *)
(***************************************************************************)
EXTENDS ConnectionPool

CONSTANTS
    Nodes,      \* the peers, of Peers, whose side of the connections is modelled
    Static,     \* connections that are READY from the start
    Limits,     \* the values max_connections may have
    AlwaysLists,\* the lists of always-enabled peers a node may be given
    MaxFaults   \* bound on the closes, failures and refusals that are not duplicates

VARIABLES
    end,        \* the protocol object at each end of a connection
    ch,         \* ch[e]: lines on their way to the end e
    pool,       \* the ConnectionsManager of each node
    faults      \* how often a connection was closed by a refusal, a timeout or from outside

vars == <<end, ch, pool, faults>>

\* What both ends of a connection promise.
INSTANCE ConnectionsSafety

Across(e) == <<e[1], Remote(e)>>
IsStatic(e) == e[1] \in Static

NewEnd == [st |-> "none", link |-> "none", waits |-> FALSE,
           peer |-> FALSE, mine |-> FALSE, other |-> FALSE]
ReadyEnd == [st |-> "ready", link |-> "up", waits |-> FALSE,
             peer |-> TRUE, mine |-> TRUE, other |-> TRUE]

(* What the theorems need: a connection joins two different peers, both    *)
(* of them modelled unless it is static, and the static connections of a   *)
(* node lead to different peers.                                           *)
StaticOf(n) == {c \in Static : n \in {From[c], To[c]}}
ConnectionsAssumption ==
    /\ IsFiniteSet(Peers) /\ Nodes \subseteq Peers /\ MaxEnabledSync \in Nat
    /\ IsFiniteSet(Static) /\ Static \subseteq Conns /\ None \notin Conns
    /\ From \in [Conns -> Peers] /\ To \in [Conns -> Peers]
    /\ \A c \in Conns : From[c] # To[c]
    /\ \A c \in Conns \ Static : From[c] \in Nodes /\ To[c] \in Nodes
    /\ \A n \in Nodes : \A c, d \in StaticOf(n) : PeerOf(n, c) = PeerOf(n, d) => c = d

(* The pool of a node to whom its static connections became READY; `on`    *)
(* are those that came while fewer than MAX_ENABLED_SYNC peers were there. *)
StaticPool(n, max, on) ==
    [EmptyPool(max) EXCEPT
        !.connections = StaticOf(n),
        !.connected = [p \in Peers |->
            IF \E c \in StaticOf(n) : PeerOf(n, c) = p
            THEN CHOOSE c \in StaticOf(n) : PeerOf(n, c) = p ELSE None],
        !.queue = SetToSeq({PeerOf(n, c) : c \in StaticOf(n)}),
        !.enabled = on]
FirstOnes(n) ==
    LET count == Cardinality(StaticOf(n))
    IN kSubset(IF count < MaxEnabledSync THEN count ELSE MaxEnabledSync, StaticOf(n))

Init ==
    /\ end = [e \in Ends |-> IF IsStatic(e) THEN ReadyEnd ELSE NewEnd]
    /\ ch = [e \in Ends |-> <<>>]
    /\ \E max \in Limits, on \in [Nodes -> SUBSET Static] :
          /\ \A n \in Nodes : on[n] \in FirstOnes(n)
          /\ pool = [n \in Nodes |-> StaticPool(n, max, on[n])]
    /\ faults = 0

Fault == faults < MaxFaults /\ faults' = faults + 1

(* What is written after the transport was closed is not sent.             *)
SendIn(out, e, m) ==
    IF end[e].link \in {"connecting", "none", "up"} THEN [out EXCEPT ![Across(e)] = Append(@, m)] ELSE out
Send(e, m) == SendIn(ch, e, m)

(* disconnect(): loseConnection, or abortConnection when forced.  After a  *)
(* loseConnection received lines are ignored (aborting).                   *)
Closing(r) == [r EXCEPT !.link = IF @ = "up" THEN "closing" ELSE @]
Aborted(r) == [r EXCEPT !.link = IF @ \in {"up", "closing"} THEN "aborted" ELSE @]

----------------------------------------------------------------------------
(* Opening.                                                                *)

(* connect_to_peer and connect_to_endpoint.                                *)
Dial(c) ==
    LET e == <<c, From[c]>> IN
    /\ end[e].link = "none"
    /\ pool[From[c]].connected[To[c]] = None
    /\ \A d \in Conns : <<From[d], To[d]>> = <<From[c], To[c]>> =>
                            end[<<d, From[d]>>].link # "connecting"
    /\ end' = [end EXCEPT ![e].link = "connecting"]
    /\ UNCHANGED <<ch, pool, faults>>

(* on_connection_failure.                                                  *)
ConnectionFails(c) ==
    LET e == <<c, From[c]>> IN
    /\ end[e].link = "connecting"
    /\ end' = [end EXCEPT ![e].link = "down"]
    /\ Fault
    /\ UNCHANGED <<ch, pool>>

(* on_connect: the state HELLO is entered, then the pool may refuse.       *)
OnConnect(e) ==
    LET full == IsFull(pool[e[2]]) IN
    /\ end' = [end EXCEPT ![e].st = "hello", ![e].link = IF full THEN "aborted" ELSE "up"]
    /\ ch' = Send(e, "HELLO")
    /\ pool' = IF full THEN pool ELSE [pool EXCEPT ![e[2]] = OnPeerConnect(pool[e[2]], e[1])]
    /\ faults' = faults + (IF full THEN 1 ELSE 0)

ClientConnects(c) == end[<<c, From[c]>>].link = "connecting" /\ OnConnect(<<c, From[c]>>)
ServerAccepts(c) ==
    /\ end[<<c, To[c]>>].link = "none" /\ end[<<c, From[c]>>].st # "none"
    /\ OnConnect(<<c, To[c]>>)

----------------------------------------------------------------------------
(* The handshake.  In each handler r is the end and rest what stays in its *)
(* channel.                                                                *)

(* A mutant: handshaking_peers.discard, which never raises. *)
MayAlwaysBecomeReady(e) == TRUE

(* handshaking_peers.remove raises KeyError otherwise.                     *)
MayBecomeReady(e) == e[1] \in pool[e[2]].handshaking

(* change_state(READY), also of a protocol that is already disconnected.   *)
EnterReady(e, r, out) ==
    IF MayBecomeReady(e)
    THEN /\ end' = [end EXCEPT ![e] = [r EXCEPT !.st = "ready"]]
         /\ pool' = [pool EXCEPT ![e[2]] = OnPeerReady(e[2], pool[e[2]], e[1])]
         /\ ch' = SendIn(out, e, "GET-PEERS")
    ELSE /\ end' = [end EXCEPT ![e] = Closing([r EXCEPT !.st = "ready"])]
         /\ ch' = out /\ UNCHANGED pool

Close(e, r, rest) ==
    /\ end' = [end EXCEPT ![e] = Closing(r)]
    /\ ch' = [ch EXCEPT ![e] = rest]
    /\ UNCHANGED pool

HandleHello(e, r, rest) ==
    /\ r.st = "hello"
    /\ \/ /\ end' = [end EXCEPT ![e].st = "peer_id"]
          /\ ch' = [Send(e, "PEER-ID") EXCEPT ![e] = rest]
          /\ UNCHANGED <<pool, faults>>
       \/ Close(e, r, rest) /\ Fault

AlreadyConnected(e) == pool[e[2]].connected[Remote(e)] # None

(* handle_peer_id up to `await validate_entrypoint`.                       *)
HandlePeerId(e, r, rest) ==
    /\ r.st = "peer_id"
    /\ IF AlreadyConnected(e)
       THEN Close(e, r, rest) /\ UNCHANGED faults
       ELSE \/ /\ end' = [end EXCEPT ![e].waits = TRUE]
               /\ ch' = [ch EXCEPT ![e] = rest]
               /\ UNCHANGED <<pool, faults>>
            \/ Close(e, r, rest) /\ Fault

(* A mutant: a READY that overtakes this end's validation closes. *)
HandleReadyInOrder(e, r, rest) ==
    /\ r.st = "peer_id"
    /\ IF r.mine
       THEN EnterReady(e, [r EXCEPT !.other = TRUE], [ch EXCEPT ![e] = rest])
       ELSE Close(e, r, rest)
    /\ UNCHANGED faults

HandleReady(e, r, rest) ==
    /\ r.st = "peer_id"
    /\ IF r.mine
       THEN EnterReady(e, [r EXCEPT !.other = TRUE], [ch EXCEPT ![e] = rest])
       ELSE /\ end' = [end EXCEPT ![e].other = TRUE]
            /\ ch' = [ch EXCEPT ![e] = rest]
            /\ UNCHANGED pool
    /\ UNCHANGED faults

HandleGetPeers(e, r, rest) ==
    /\ r.st = "ready"
    /\ ch' = [ch EXCEPT ![e] = rest]
    /\ UNCHANGED <<end, pool, faults>>

Known(m, st) ==
    <<m, st>> \in {<<"HELLO", "hello">>, <<"PEER-ID", "peer_id">>, <<"READY", "peer_id">>,
                   <<"GET-PEERS", "ready">>}

(* lineReceived and recv_message; an unknown command closes.               *)
Receive(e) ==
    LET r == end[e]
        m == Head(ch[e])
        rest == Tail(ch[e])
    IN /\ r.link = "up" /\ ch[e] # <<>>
       /\ IF Known(m, r.st)
          THEN \/ m = "HELLO" /\ HandleHello(e, r, rest)
               \/ m = "PEER-ID" /\ HandlePeerId(e, r, rest)
               \/ m = "READY" /\ HandleReady(e, r, rest)
               \/ m = "GET-PEERS" /\ HandleGetPeers(e, r, rest)
          ELSE Close(e, r, rest) /\ UNCHANGED faults

(* handle_peer_id after the await: whatever happened to the connection     *)
(* meanwhile, the peer is set and READY is sent.                           *)
ResumePeerId(e) ==
    LET r == [end[e] EXCEPT !.waits = FALSE] IN
    /\ end[e].waits
    /\ \/ LET known == [r EXCEPT !.peer = TRUE, !.mine = TRUE]
              out == Send(e, "READY")
          IN /\ IF r.other THEN EnterReady(e, known, out)
                ELSE end' = [end EXCEPT ![e] = known] /\ ch' = out /\ UNCHANGED pool
             /\ UNCHANGED faults
       \/ /\ end' = [end EXCEPT ![e] = Closing(r)]      \* entrypoint, certificate
          /\ Fault /\ UNCHANGED <<ch, pool>>
       \/ /\ end' = [end EXCEPT ![e] = Aborted([r EXCEPT !.peer = TRUE])]  \* netfilter
          /\ Fault /\ UNCHANGED <<ch, pool>>

----------------------------------------------------------------------------
(* Closing.                                                                *)

(* drop_connection, scheduled by on_peer_ready.                            *)
DropDuplicate(e) ==
    /\ e[1] \in pool[e[2]].drops
    /\ pool' = [pool EXCEPT ![e[2]].drops = @ \ {e[1]}]
    /\ end' = [end EXCEPT ![e] = Closing(end[e])]
    /\ UNCHANGED <<ch, faults>>

(* drop_connection_by_peer_id: the peer left the whitelist.                *)
DropPeer(n, p) ==
    /\ pool[n].connected[p] # None
    /\ LET e == <<pool[n].connected[p], n>> IN end' = [end EXCEPT ![e] = Closing(end[e])]
    /\ Fault
    /\ UNCHANGED <<ch, pool>>

(* on_idle_timeout, and disconnect_all_peers for one of the connections.   *)
IdleTimeout(e) ==
    /\ end[e].link = "up"
    /\ end' = [end EXCEPT ![e] = Aborted(end[e])]
    /\ Fault
    /\ UNCHANGED <<ch, pool>>

(* connectionLost, on_disconnect: the transport was closed here or there.  *)
ConnectionLost(e) ==
    LET r == end[e] IN
    /\ \/ r.link \in {"closing", "aborted"}
       \/ r.link = "up" /\ ~IsStatic(e) /\ end[Across(e)].link = "down"
    /\ end' = [end EXCEPT ![e].link = "down", ![e].st = "closed"]
    /\ ch' = [ch EXCEPT ![e] = <<>>]
    /\ pool' = [pool EXCEPT ![e[2]] = OnPeerDisconnect(e[2], pool[e[2]], e[1], r.peer)]
    /\ UNCHANGED faults

----------------------------------------------------------------------------
(* The sync pool.                                                          *)

SyncUpdate(n) ==
    /\ \E s \in Selections(pool[n]) : pool' = [pool EXCEPT ![n] = SyncRotate(pool[n], s)]
    /\ UNCHANGED <<end, ch, faults>>

SetAlways(n, ps) ==
    /\ ps # pool[n].always
    /\ pool' = [pool EXCEPT ![n] = SetAlwaysEnableSync(pool[n], ps)]
    /\ UNCHANGED <<end, ch, faults>>

Next ==
    \/ \E c \in Conns \ Static : Dial(c) \/ ConnectionFails(c) \/ ClientConnects(c) \/ ServerAccepts(c)
    \/ \E e \in Ends : \/ Receive(e) \/ ResumePeerId(e) \/ DropDuplicate(e)
                       \/ IdleTimeout(e) \/ ConnectionLost(e)
    \/ \E n \in Nodes : SyncUpdate(n)
    \/ \E n \in Nodes, p \in Peers : DropPeer(n, p)
    \/ \E n \in Nodes : \E ps \in AlwaysLists[n] : SetAlways(n, ps)

Spec == Init /\ [][Next]_vars

----------------------------------------------------------------------------
(* When two nodes dial each other at the same time and nothing else closes *)
(* a connection, both ends drop the same one of the two and one stays      *)
(* (get_connection_to_drop); no line of theirs arrives in a state without  *)
(* a handler for it, which would close the connection it came on.          *)
CrossedDialsLeaveOne ==
    AtRest /\ faults = 0 =>
        \A c, d \in Conns \ Static :
            From[c] = To[d] /\ To[c] = From[d] /\ end[<<c, From[c]>>].link # "none" =>
                pool[From[c]].connected[To[c]] # None
=============================================================================
