---------------------------- MODULE HandlerStreams ----------------------------
(***************************************************************************)
(* What the Pub/Sub runtime of a replica promises the handler of a topic:  *)
(* its messages come through one stream at a time, the next one is opened  *)
(* when the one before is gone, none is opened once the replica shuts      *)
(* down, and the shutdown is over when the last one is gone.  Attempts,    *)
(* timers and what exists at Pub/Sub are not seen here.                    *)
(***************************************************************************)
CONSTANTS Topics, Objects

VARIABLES
    phase,    \* running, stopping, closed
    streams   \* of each topic, the objects whose messages reach its handler

gate == <<phase, streams>>

GateInit == phase = "running" /\ streams = [t \in Topics |-> {}]

Attach(t, o) ==
    /\ phase = "running" /\ streams[t] = {}
    /\ streams' = [streams EXCEPT ![t] = {o}]
    /\ UNCHANGED phase

(* Because it broke, or for the shutdown. *)
Detach(t) ==
    /\ streams' = [streams EXCEPT ![t] = {}]
    /\ UNCHANGED phase

Stop == phase = "running" /\ phase' = "stopping" /\ UNCHANGED streams

Close ==
    /\ phase = "stopping" /\ streams = [t \in Topics |-> {}]
    /\ phase' = "closed" /\ UNCHANGED streams

GateNext ==
    \/ \E t \in Topics : Detach(t) \/ \E o \in Objects : Attach(t, o)
    \/ Stop \/ Close

GateSpec == GateInit /\ [][GateNext]_gate
===============================================================================
