--------------------------- MODULE ConnectionPool ---------------------------
(***************************************************************************)
(* The bookkeeping of ConnectionsManager: which connections exist, which   *)
(* one stands for a peer, which peers are synced from.  Every operation is *)
(* a function of the pool, so that Connections can keep a pool per node.   *)
(***************************************************************************)
EXTENDS Integers, Sequences, FiniteSets, SequencesExt, FiniteSetsExt

CONSTANTS
    Peers,              \* peer ids, compared as numbers
    From, To,           \* of every connection: who dialled and who listened
    MaxEnabledSync      \* MAX_ENABLED_SYNC

Conns == DOMAIN From
None == "none"

PeerOf(n, c) == IF From[c] = n THEN To[c] ELSE From[c]
Inbound(n, c) == To[c] = n

EmptyPool(max) ==
    [max_connections |-> max, connections |-> {}, handshaking |-> {},
     connected |-> [p \in Peers |-> None], queue |-> <<>>, enabled |-> {}, always |-> {}, drops |-> {}]

ConnectedPeers(pool) == {p \in Peers : pool.connected[p] # None}

(* on_peer_connect; a connection over the limit is refused and not added.  *)
IsFull(pool) == Cardinality(pool.connections) >= pool.max_connections
OnPeerConnect(pool, c) ==
    [pool EXCEPT !.connections = @ \cup {c}, !.handshaking = @ \cup {c}]

(* get_connection_to_drop: of two connections to the same peer, the one    *)
(* dialled by the smaller id.                                              *)
ConnectionToDrop(n, pool, c) ==
    IF (n > PeerOf(n, c)) = Inbound(n, c) THEN c ELSE pool.connected[PeerOf(n, c)]

EnableSync(pool, c) == [pool EXCEPT !.enabled = @ \cup {c}]
DisableSync(pool, c) == [pool EXCEPT !.enabled = @ \ {c}]

(* What on_peer_ready does with a connection that is kept.                 *)
Keep(n, pool, c) ==
    LET p == PeerOf(n, c)
        Saved == [pool EXCEPT !.connected[p] = c,
                              !.queue = IF p \in ToSet(@) THEN @ ELSE Append(@, p)]
    IN IF Cardinality(ConnectedPeers(Saved)) <= MaxEnabledSync \/ p \in pool.always
       THEN EnableSync(Saved, c)
       ELSE Saved

(* on_peer_ready.  The drop of a duplicate is scheduled on the reactor.    *)
Shaken(pool, c) == [pool EXCEPT !.handshaking = @ \ {c}]
ScheduleDrop(pool, c) == [pool EXCEPT !.drops = @ \cup {c}]
OnPeerReady(n, pool, c) ==
    LET dropped == ConnectionToDrop(n, pool, c)
    IN IF pool.connected[PeerOf(n, c)] = None THEN Keep(n, Shaken(pool, c), c)
       ELSE IF dropped = c THEN ScheduleDrop(Shaken(pool, c), c)
       ELSE Keep(n, ScheduleDrop(Shaken(pool, c), dropped), c)

Discard(pool, c) ==
    [pool EXCEPT !.connections = @ \ {c}, !.handshaking = @ \ {c}, !.enabled = @ \ {c}]
Forget(pool, p) ==
    [pool EXCEPT !.connected[p] = None, !.queue = SelectSeq(@, LAMBDA q : q # p)]

(* on_peer_disconnect.  `known` says that the PEER-ID of the connection    *)
(* was accepted.  A duplicate that is closed leaves the other one in place.*)
OnPeerDisconnect(n, pool, c, known) ==
    IF known /\ pool.connected[PeerOf(n, c)] = c
    THEN Forget(Discard(pool, c), PeerOf(n, c))
    ELSE Discard(pool, c)

(* _sync_rotate_if_needed with the random choice `selected`.               *)
Selections(pool) ==
    {s \in SUBSET ConnectedPeers(pool) :
        Cardinality(s) = IF Cardinality(ConnectedPeers(pool)) < MaxEnabledSync
                         THEN Cardinality(ConnectedPeers(pool)) ELSE MaxEnabledSync}
SyncRotate(pool, selected) ==
    [pool EXCEPT !.enabled =
        {c \in @ : \A p \in Peers : pool.connected[p] = c => p \in selected \cup pool.always}
        \cup {pool.connected[p] : p \in selected}]

(* A mutant: peers taken off the list stay enabled. *)
SetAlwaysEnableSyncKeepingOld(pool, new) ==
    [pool EXCEPT
        !.always = new,
        !.enabled = @ \cup {pool.connected[p] : p \in new \cap ConnectedPeers(pool)}]

(* set_always_enable_sync; enable_sync and disable_sync act on the         *)
(* connected peers only.                                                   *)
SetAlwaysEnableSync(pool, new) ==
    [pool EXCEPT
        !.always = new,
        !.enabled = (@ \cup {pool.connected[p] : p \in new \cap ConnectedPeers(pool)})
                    \ {pool.connected[p] : p \in pool.always \ new}]
=============================================================================
