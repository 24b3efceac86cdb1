------------------------------ MODULE ChatWrites ------------------------------
(***************************************************************************)
(* The writes of the chat feature: a chat is created with its members and  *)
(* first message, a message is added to a chat, each in one transaction    *)
(* that also inserts the outbox rows of its live events                    *)
(* (src/features/chat).                                                    *)
(*                                                                         *)
(* Transactions run at READ COMMITTED.  What one has written is in its     *)
(* handler until it commits.  created_at is now() of Postgres, the start   *)
(* of the transaction; the code reads it into a Date, which has no more    *)
(* than milliseconds.  A transaction that adds a message locks the row of  *)
(* its chat twice: in mode KEY SHARE when the foreign key of the message   *)
(* is checked, in mode NO KEY UPDATE when the chat is pointed at it.       *)
(*                                                                         *)
(* Content and names are left out.  A submitted member id is a member of   *)
(* RawIds, several of which may normalize to the same user.                *)
(***************************************************************************)
EXTENDS Integers, FiniteSets

CONSTANTS
    Users,       \* user ids
    Registered,  \* those with a row in users and profiles
    RawIds,      \* member ids as a caller may write them
    Normal,      \* the user id each one is after trim and lower case
    Chats,       \* ids gen_random_uuid can give a chat
    Messages,    \* ids gen_random_uuid can give a message
    Requests,    \* handlers that may run at the same time
    MaxTime,     \* bound of the clock
    Millisecond, \* ticks of that clock in a millisecond, 1000 in Postgres
    None         \* no row

ASSUME UsersAssumption ==
    Registered \subseteq Users /\ Normal \in [RawIds -> Users] /\ IsFiniteSet(RawIds)
ASSUME TimeAssumption == MaxTime \in Nat /\ Millisecond \in Nat \ {0}

VARIABLES
    now,       \* the clock of Postgres, in its ticks
    chats,     \* tables chats and chat_members, committed
    messages,  \* table chat_messages, committed
    outbox,    \* table outbox_events, committed
    tx,        \* the handlers and their open transactions
    overlapped \* history: chats two of whose new messages were on their way at a time

tables == <<chats, messages, outbox>>
vars == <<now, chats, messages, outbox, tx, overlapped>>

-----------------------------------------------------------------------------
(* Records *)

Time == 0 .. MaxTime

ChatType == [members : SUBSET Users, last : Messages, lastAt : Time]
MessageType == [chat : Chats, author : Users, at : Time]
EventType == [topic : {"chat list", "chat messages"}, chat : Chats, message : Messages,
              to : SUBSET Users, at : Time]

Phases == {"idle",       \* no handler
           "creating",   \* chat: members checked, about to write and commit
           "notFound",   \* chat: a member was not found, nothing written
           "inserted",   \* message: inserted, about to update the chat
           "updated"}    \* message: chat updated and locked, about to commit

TxType == [phase : Phases, chat : Chats \cup {None}, author : Users \cup {None},
           members : SUBSET Users, message : Messages \cup {None}, at : Time]

ASSUME NoneAssumption == None \notin ChatType \cup MessageType \cup Messages \cup Chats

Idle == [phase |-> "idle", chat |-> None, author |-> None, members |-> {},
         message |-> None, at |-> 0]

UnusedChat(c) == chats[c] = None /\ \A r \in Requests : tx[r].chat # c
UnusedMessage(m) == messages[m] = None /\ \A r \in Requests : tx[r].message # m

(* A timestamp of Postgres as a Date. *)
ToDate(t) == t - (t % Millisecond)

-----------------------------------------------------------------------------
(* ChatMembers.from *)

(* The submitted ids that are not the creator's: exact repetitions are     *)
(* gone, two spellings of one id are not.                                  *)
otherMemberIds(creator, raw) == {x \in raw : Normal[x] # creator}

(* Mutant: stored as submitted. *)
memberIdsAsSubmitted(creator, raw) == {creator} \cup raw

memberIds(creator, raw) == {creator} \cup {Normal[x] : x \in raw}

(* The count of users with one of the ids is the length of the list.       *)
AllMembersFound(creator, raw) ==
    Cardinality(memberIds(creator, raw) \cap Registered)
        = 1 + Cardinality(otherMemberIds(creator, raw))

(* Mutant: the caller is left out of the list. *)
findByOtherMemberIds(creator, raw) ==
    {c \in Chats : /\ chats[c] # None
                   /\ chats[c].members = {Normal[x] : x \in otherMemberIds(creator, raw)}
                   /\ Cardinality(chats[c].members)
                        = Cardinality(otherMemberIds(creator, raw))}

(* The chats whose members, in order, are the list of ids, in order: an id *)
(* that is listed twice is in no chat twice.                               *)
findByMemberIds(creator, raw) ==
    {c \in Chats : /\ chats[c] # None
                   /\ chats[c].members = memberIds(creator, raw)
                   /\ Cardinality(chats[c].members)
                        = 1 + Cardinality(otherMemberIds(creator, raw))}

(* What a caller may get: "limit 1" picks one chat, and nothing is found   *)
(* or no other member is listed when there is none.                        *)
getChatByMembers(caller, raw) ==
    IF otherMemberIds(caller, raw) = {} THEN {} ELSE findByMemberIds(caller, raw)

-----------------------------------------------------------------------------
(* Row locks *)

(* Mutant: the columns the update sets are those a foreign key points to.  *)
ConflictsForUpdate == {<<"no key update", "no key update">>, <<"key share", "no key update">>}

Conflicts == {<<"no key update", "no key update">>}

Locks(phase) ==
    CASE phase = "inserted" -> {"key share"}
      [] phase = "updated" -> {"key share", "no key update"}
      [] OTHER -> {}

(* Transaction o keeps r from updating the row of its chat. *)
Blocks(o, r) ==
    /\ o # r /\ tx[o].chat = tx[r].chat
    /\ \E held \in Locks(tx[o].phase) : <<held, "no key update">> \in Conflicts

Blocked(r) == \E o \in Requests : Blocks(o, r)

-----------------------------------------------------------------------------
(* The event of the chat-list topic and the one of the chat-message topic  *)
(* that a message is announced with.                                       *)
EventsOf(c, m, members, at) ==
    {[topic |-> topic, chat |-> c, message |-> m, to |-> members, at |-> ToDate(at)] :
        topic \in {"chat list", "chat messages"}}

MessageOf(t) == [chat |-> t.chat, author |-> t.author, at |-> t.at]

Init ==
    /\ now = 0
    /\ chats = [c \in Chats |-> None]
    /\ messages = [m \in Messages |-> None]
    /\ outbox = {}
    /\ tx = [r \in Requests |-> Idle]
    /\ overlapped = {}

(* CreateChatUseCase and the member check of PostgresChatCreator.          *)
CreateChatBegin(r) ==
    /\ tx[r].phase = "idle"
    /\ \E creator \in Registered, raw \in SUBSET RawIds, c \in Chats, m \in Messages :
        /\ otherMemberIds(creator, raw) # {}
        /\ UnusedChat(c) /\ UnusedMessage(m)
        /\ tx' = [tx EXCEPT ![r] =
                    IF AllMembersFound(creator, raw)
                    THEN [phase |-> "creating", chat |-> c, author |-> creator,
                          members |-> memberIds(creator, raw), message |-> m, at |-> now]
                    ELSE [Idle EXCEPT !.phase = "notFound", !.author = creator,
                                      !.members = memberIds(creator, raw)]]
    /\ UNCHANGED <<now, tables, overlapped>>

(* ChatMemberNotFoundError reaches the caller. *)
RespondNotFound(r) ==
    /\ tx[r].phase = "notFound"
    /\ tx' = [tx EXCEPT ![r] = Idle]
    /\ UNCHANGED <<now, tables, overlapped>>

(* The rest of the transaction touches no row another one can see: chat,   *)
(* members, first message, pointer and outbox rows appear together.        *)
CreateChatCommit(r) ==
    /\ tx[r].phase = "creating"
    /\ LET t == tx[r]
       IN /\ chats' = [chats EXCEPT ![t.chat] =
                        [members |-> t.members, last |-> t.message, lastAt |-> ToDate(t.at)]]
          /\ messages' = [messages EXCEPT ![t.message] = MessageOf(t)]
          /\ outbox' = outbox \cup EventsOf(t.chat, t.message, t.members, t.at)
    /\ tx' = [tx EXCEPT ![r] = Idle]
    /\ UNCHANGED <<now, overlapped>>

(* CreateMessage: the membership check, which ends the request when it     *)
(* fails, and the insert.                                                  *)
CreateMessageBegin(r) ==
    /\ tx[r].phase = "idle"
    /\ \E u \in Registered, c \in Chats, m \in Messages :
        /\ chats[c] # None /\ u \in chats[c].members
        /\ UnusedMessage(m)
        /\ tx' = [tx EXCEPT ![r] = [Idle EXCEPT !.phase = "inserted", !.chat = c,
                                        !.author = u, !.message = m, !.at = now]]
        /\ overlapped' =
            IF \E o \in Requests : tx[o].chat = c THEN overlapped \cup {c} ELSE overlapped
    /\ UNCHANGED <<now, tables>>

(* Mutant: the outbox rows are written outside the transaction. *)
UpdateChatAndAnnounce(r) ==
    /\ tx[r].phase = "inserted"
    /\ ~Blocked(r)
    /\ LET t == tx[r]
       IN outbox' = outbox \cup EventsOf(t.chat, t.message, chats[t.chat].members, t.at)
    /\ tx' = [tx EXCEPT ![r].phase = "updated"]
    /\ UNCHANGED <<now, chats, messages, overlapped>>

(* Mutant: the chat row is updated outside the transaction. *)
UpdateChatOutside(r) ==
    /\ tx[r].phase = "inserted"
    /\ ~Blocked(r)
    /\ LET t == tx[r]
       IN chats' = [chats EXCEPT ![t.chat] =
                        [@ EXCEPT !.last = t.message, !.lastAt = ToDate(t.at)]]
    /\ tx' = [tx EXCEPT ![r].phase = "updated"]
    /\ UNCHANGED <<now, messages, outbox, overlapped>>

(* "Point the chat at its newest message": the statement waits for the row *)
(* lock, and is not undone by what another transaction has made of it.     *)
UpdateChat(r) ==
    /\ tx[r].phase = "inserted"
    /\ ~Blocked(r)
    /\ tx' = [tx EXCEPT ![r].phase = "updated"]
    /\ UNCHANGED <<now, tables, overlapped>>

(* Mutant: the time of the update instead of that of the message. *)
CreateMessageCommitNow(r) ==
    /\ tx[r].phase = "updated"
    /\ LET t == tx[r]
       IN /\ chats' = [chats EXCEPT ![t.chat] = [@ EXCEPT !.last = t.message, !.lastAt = ToDate(now)]]
          /\ messages' = [messages EXCEPT ![t.message] = MessageOf(t)]
          /\ outbox' = outbox \cup EventsOf(t.chat, t.message,
                                           chats[t.chat].members, t.at)
    /\ tx' = [tx EXCEPT ![r] = Idle]
    /\ UNCHANGED <<now, overlapped>>

(* Mutant: the pointer moves only to a later Date. *)
CreateMessageCommitIfLater(r) ==
    /\ tx[r].phase = "updated"
    /\ LET t == tx[r]
       IN /\ chats' = IF ToDate(t.at) > chats[t.chat].lastAt
                      THEN [chats EXCEPT ![t.chat] =
                                [@ EXCEPT !.last = t.message, !.lastAt = ToDate(t.at)]]
                      ELSE chats
          /\ messages' = [messages EXCEPT ![t.message] = MessageOf(t)]
          /\ outbox' = outbox \cup EventsOf(t.chat, t.message,
                                           chats[t.chat].members, t.at)
    /\ tx' = [tx EXCEPT ![r] = Idle]
    /\ UNCHANGED <<now, overlapped>>

CreateMessageCommit(r) ==
    /\ tx[r].phase = "updated"
    /\ LET t == tx[r]
       IN /\ chats' = [chats EXCEPT ![t.chat] = [@ EXCEPT !.last = t.message, !.lastAt = ToDate(t.at)]]
          /\ messages' = [messages EXCEPT ![t.message] = MessageOf(t)]
          /\ outbox' = outbox \cup EventsOf(t.chat, t.message,
                                           chats[t.chat].members, t.at)
    /\ tx' = [tx EXCEPT ![r] = Idle]
    /\ UNCHANGED <<now, overlapped>>

(* A statement fails, the connection or the replica is lost: rollback. *)
Abort(r) ==
    /\ tx[r].phase \notin {"idle", "notFound"}
    /\ tx' = [tx EXCEPT ![r] = Idle]
    /\ UNCHANGED <<now, tables, overlapped>>

Tick ==
    /\ now < MaxTime
    /\ now' = now + 1
    /\ UNCHANGED <<tables, tx, overlapped>>

Handle(r) ==
    \/ CreateChatBegin(r) \/ RespondNotFound(r) \/ CreateChatCommit(r)
    \/ CreateMessageBegin(r) \/ UpdateChat(r) \/ CreateMessageCommit(r)
    \/ Abort(r)

Next == Tick \/ \E r \in Requests : Handle(r)

Spec == Init /\ [][Next]_vars

(* Statements return.  Postgres grants a row lock in the order in which    *)
(* transactions asked for it, so a waiting update is not overtaken for     *)
(* ever.  Callers and faults owe nothing.                                  *)
Fairness ==
    \A r \in Requests :
        /\ WF_vars(RespondNotFound(r) \/ CreateChatCommit(r) \/ CreateMessageCommit(r))
        /\ SF_vars(UpdateChat(r))

FairSpec == Spec /\ Fairness

-----------------------------------------------------------------------------
(* Properties *)

(* Tables and transactions have the shape the code gives them. *)
TypeOK ==
    /\ now \in Time
    /\ chats \in [Chats -> ChatType \cup {None}]
    /\ messages \in [Messages -> MessageType \cup {None}]
    /\ outbox \subseteq EventType
    /\ tx \in [Requests -> TxType]
    /\ overlapped \subseteq Chats

(* Every chat has at least two members, all registered, and is pointed at  *)
(* a message of its own, by one of its members, and at that message's      *)
(* time, to the millisecond: the columns the list of chats is ordered and  *)
(* previewed by agree with the table of messages, whichever transactions   *)
(* overlapped.                                                             *)
PointerConsistent ==
    \A c \in Chats :
        chats[c] # None =>
            /\ \E u, v \in chats[c].members : u # v
            /\ chats[c].members \subseteq Registered
            /\ LET m == messages[chats[c].last]
               IN m # None /\ m.chat = c /\ m.author \in chats[c].members
                  /\ chats[c].lastAt = ToDate(m.at)

(* As long as no two messages of a chat were on their way at the same time *)
(* the chat points at its newest message: only transactions that overlap   *)
(* can take a chat back to an older one.                                   *)
NewestUnlessOverlapped ==
    \A m \in Messages :
        messages[m] # None /\ messages[m].chat \notin overlapped =>
            messages[m].at <= messages[chats[messages[m].chat].last].at

Announcement(m) ==
    IF messages[m] = None THEN {}
    ELSE EventsOf(messages[m].chat, m, chats[messages[m].chat].members, messages[m].at)

(* A message is stored exactly if it is announced, on both topics, to the  *)
(* members of its chat and nobody else: no event for a write that was      *)
(* rolled back, no silent message.                                         *)
AnnouncedExactly == outbox = UNION {Announcement(m) : m \in Messages}

(* A caller that lists the members of an existing chat as it would for a   *)
(* new one, gets that chat: what the creator of a chat counts and what the *)
(* reader compares agree, however ids are spelled or repeated.             *)
ListedChatIsFound ==
    \A u \in Registered, raw \in SUBSET RawIds :
        otherMemberIds(u, raw) # {} /\ AllMembersFound(u, raw) =>
            \A c \in Chats :
                chats[c] # None /\ chats[c].members = memberIds(u, raw)
                    => c \in getChatByMembers(u, raw)

(* What others see of the tables: the message itself, and to whom each    *)
(* event goes.                                                             *)
StoredMessages ==
    [m \in Messages |-> IF messages[m] = None THEN None
                        ELSE [chat |-> messages[m].chat, at |-> messages[m].at]]

StoredEvents == {[topic |-> e.topic, message |-> e.message, to |-> e.to] : e \in outbox}

(* Every write is one step for those who read tables and topics, whatever  *)
(* transactions overlap, fail or wait for each other.                      *)
Store == INSTANCE ChatStore WITH
    MemberSets <- {S \in SUBSET Registered : \E u, v \in S : u # v},
    Times <- Time,
    messages <- StoredMessages,
    events <- StoredEvents

AtomicWrites == Store!StoreSpec

(* An update that waits for the row of its chat waits for one transaction, *)
(* which waits for nobody: it has updated the row itself, and only its     *)
(* commit or rollback is left.  No two wait for each other, although both  *)
(* lock the row when the foreign key is checked.                           *)
WaitsAreShort ==
    \A r, o \in Requests :
        tx[r].phase = "inserted" /\ Blocks(o, r) =>
            tx[o].phase = "updated" /\ \A q \in Requests : Blocks(q, r) => q = o

(* No request waits for ever: the locks that the foreign key and the       *)
(* pointer take on one chat row never make two transactions wait for each  *)
(* other.                                                                  *)
EveryRequestEnds == \A r \in Requests : tx[r].phase # "idle" ~> tx[r].phase = "idle"

(* "Point the chat at its newest message" (postgres-chat-message-creator): *)
(* no message of a chat is newer than the one the chat points at.          *)
PointsAtNewest ==
    \A m \in Messages :
        messages[m] # None =>
            messages[m].at <= messages[chats[messages[m].chat].last].at

(* "Duplicate members are removed" (chat-members.ts): a chat whose members *)
(* all exist is not refused because a member was not found.                *)
DuplicatesRemoved ==
    \A r \in Requests : tx[r].phase = "notFound" => ~(tx[r].members \subseteq Registered)
=============================================================================
