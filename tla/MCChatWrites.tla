----------------------------- MODULE MCChatWrites -----------------------------
(* Instances of ChatWrites for TLC. *)
EXTENDS ChatWrites, TLC

CONSTANTS alice, bob, carol, rawBob, rawBOB, rawCarol

(* carol is not registered; bob's id can be written in two ways. *)
Spelling == rawBob :> bob @@ rawBOB :> bob @@ rawCarol :> carol

Symmetry == Permutations(Messages) \cup Permutations(Chats) \cup Permutations(Requests)
=============================================================================
