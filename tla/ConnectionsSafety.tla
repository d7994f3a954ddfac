------------------------- MODULE ConnectionsSafety -------------------------
(***************************************************************************)
(* What the connections between nodes promise, see Connections.            *)
(***************************************************************************)
EXTENDS Naturals, FiniteSets

CONSTANTS Peers, Nodes, From, To, Static, MaxEnabledSync
VARIABLES end, ch, pool

\* An end <<c, n>> of a connection c is its side at the node n.
Ends == {e \in (DOMAIN From) \X Nodes : e[2] \in {From[e[1]], To[e[1]]}}
Remote(e) == IF From[e[1]] = e[2] THEN To[e[1]] ELSE From[e[1]]

(* Nothing is on its way: no line, no lookup, no scheduled drop, no        *)
(* connection that only one end knows to be closed.                        *)
AtRest ==
    /\ \A e \in Ends : /\ ~end[e].waits /\ end[e].link \in {"none", "up", "down"}
                       /\ end[e].link = "up" => ch[e] = <<>>
    /\ \A c \in (DOMAIN From) \ Static : end[<<c, From[c]>>].link = end[<<c, To[c]>>].link
    /\ \A n \in Nodes : pool[n].drops = {}

(* Whatever was dialled, dropped, refused or timed out: when nothing is on *)
(* its way the two ends of every open connection are READY and are the one *)
(* that connected_peers holds for the other node, so that neither node     *)
(* believes in a connection the other one has given up and none is open    *)
(* outside of the pools (on_peer_ready, on_peer_disconnect).               *)
EndsAgreeAtRest ==
    AtRest => \A e \in Ends : end[e].link = "up" <=> pool[e[2]].connected[Remote(e)] = e[1]

(* Through duplicates, rotations and changes of the always-enabled list,   *)
(* no more than MAX_ENABLED_SYNC other peers are synced from.              *)
EnabledSyncsAreBounded ==
    \A n \in Nodes :
        Cardinality({p \in Peers \ pool[n].always : pool[n].connected[p] \in pool[n].enabled})
            <= MaxEnabledSync
=============================================================================
