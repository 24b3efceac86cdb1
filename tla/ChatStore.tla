------------------------------ MODULE ChatStore ------------------------------
(***************************************************************************)
(* What the chat feature promises to whoever reads its tables or follows   *)
(* its topics: a write is one step.  A message appears in a chat together  *)
(* with the chat's pointer to it and with its events, one on each topic,   *)
(* addressed to all members of the chat.  Messages and members never       *)
(* change, and no event is without its message.  Nothing is promised about *)
(* the times: a message may be older than the one written before it.       *)
(***************************************************************************)
EXTENDS Integers

CONSTANTS
    Chats, Messages,   \* ids
    MemberSets,        \* member sets a chat may be created with
    Times,             \* times a message may have
    Millisecond,       \* how many of them the time of a pointer cannot tell apart
    None

VARIABLES
    chats,     \* of each chat: members, last message, time of that message
    messages,  \* of each message: its chat and its time
    events     \* what the outbox has to deliver

store == <<chats, messages, events>>

ToDate(t) == t - (t % Millisecond)

Topics == {"chat list", "chat messages"}

StoreInit ==
    /\ chats = [c \in Chats |-> None]
    /\ messages = [m \in Messages |-> None]
    /\ events = {}

Write(c, members, m, at) ==
    /\ messages[m] = None
    /\ messages' = [messages EXCEPT ![m] = [chat |-> c, at |-> at]]
    /\ chats' = [chats EXCEPT ![c] =
                    [members |-> members, last |-> m, lastAt |-> ToDate(at)]]
    /\ events' = events \cup {[topic |-> t, message |-> m, to |-> members] : t \in Topics}

Create(c, members, m, at) == chats[c] = None /\ Write(c, members, m, at)

Send(c, m, at) == chats[c] # None /\ Write(c, chats[c].members, m, at)

StoreNext ==
    \E c \in Chats, m \in Messages, at \in Times :
        Send(c, m, at) \/ \E members \in MemberSets : Create(c, members, m, at)

StoreSpec == StoreInit /\ [][StoreNext]_store
==============================================================================
