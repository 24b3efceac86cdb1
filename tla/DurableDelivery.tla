--------------------------- MODULE DurableDelivery ---------------------------
(***************************************************************************)
(* What the transactional outbox promises to the writer of an event: an    *)
(* event that was committed stays pending until the topic has received it, *)
(* is delivered at least once, and is never forgotten.  It may be          *)
(* delivered again, even after it was settled.                             *)
(***************************************************************************)
CONSTANT Events

VARIABLES
    pending,    \* committed and not settled
    delivered,  \* received by the topic
    settled     \* no longer to be delivered

dvars == <<pending, delivered, settled>>

DInit == pending = {} /\ delivered = {} /\ settled = {}

Record(e) ==
    /\ e \notin pending \cup settled
    /\ pending' = pending \cup {e}
    /\ UNCHANGED <<delivered, settled>>

Deliver(e) ==
    /\ e \in pending \cup settled
    /\ delivered' = delivered \cup {e}
    /\ UNCHANGED <<pending, settled>>

Settle(e) ==
    /\ e \in pending \cap delivered
    /\ pending' = pending \ {e}
    /\ settled' = settled \cup {e}
    /\ UNCHANGED delivered

DNext == \E e \in Events : Record(e) \/ Deliver(e) \/ Settle(e)

DSpec == DInit /\ [][DNext]_dvars
=============================================================================
