------------------------------- MODULE MCOutbox -------------------------------
(* Instances of Outbox for TLC. *)
EXTENDS Outbox

CONSTANTS i1, i2, k1, k2

TwoDelays == <<1, 3>>

(* Events 1 and 3 of one chat, event 2 of another. *)
ByParity == [e \in Events |-> IF e % 2 = 1 THEN k1 ELSE k2]
=============================================================================
