------------------------------ MODULE MCEvents ------------------------------
(* Instances of the two sides of the event queue for TLC.  A behaviour is  *)
(* one of the EventManager, with its storage, or one of the WebSocket      *)
(* factory, which knows the log only by the number of its events.          *)
EXTENDS EventManager, EventStreamSafety, TLC

VARIABLE part    \* the side this behaviour is about

Stream == INSTANCE EventStream

streamVars == <<running, stored, conn>>

MCInit ==
    /\ part \in {"manager", "stream"}
    /\ Init
    /\ Stream!Init
    /\ part = "manager" => stored = 0

MCNext ==
    \/ part = "manager" /\ Next /\ UNCHANGED <<part, streamVars>>
    \/ part = "stream" /\ Stream!Next /\ UNCHANGED <<part, vars>>

MCSpec == MCInit /\ [][MCNext]_<<part, vars, streamVars>> /\ Stream!Fairness

(* Delivery of a stored event to a client that waits for it; stated in     *)
(* EventStream.                                                            *)
DeliveryProgress == Stream!DeliveryProgress
=============================================================================
