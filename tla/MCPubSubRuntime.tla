--------------------------- MODULE MCPubSubRuntime ---------------------------
(* Instances of PubSubRuntime for TLC. *)
EXTENDS PubSubRuntime, TLC

CONSTANTS t1, t2, o1, o2, o3

Symmetry == Permutations({t1, t2}) \cup Permutations({o1, o2, o3})
=============================================================================
