-------------------------------- MODULE MCFeeds ---------------------------------
(* An instance of Feeds for TLC.  The client, user 1, is in some chats and *)
(* not in others; two users have one name, and JavaScript makes that of    *)
(* one of them longer.                                                     *)
EXTENDS Feeds

MCMemberSets == {{1, 2}, {2, 3}}
MCLower == [u \in Users |-> IF u = 3 THEN 1 ELSE 0]
MCToLowerCase == [u \in Users |-> IF u = 2 THEN 1 ELSE MCLower[u]]
MCMaxMessages ==
    [f \in {"chat list", "chat messages"} |-> IF f = "chat list" THEN 3 ELSE 2]
=============================================================================
