-------------------------- MODULE MCRefreshSessions --------------------------
(* Instances of RefreshSessions for TLC. *)
EXTENDS RefreshSessions, TLC

Symmetry == Permutations(Sessions) \cup Permutations(Requests)
                \cup Permutations(Devices) \cup Permutations(Users)
=============================================================================
