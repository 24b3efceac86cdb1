--------------------------- MODULE ChatWritesProofs ---------------------------
(***************************************************************************)
(* Theorems about ChatWrites, for every set of users, chats, messages and  *)
(* requests, every clock bound and every clock resolution.                 *)
(***************************************************************************)
EXTENDS ChatWrites, FunctionTheorems, FiniteSetTheorems, TLAPS

-----------------------------------------------------------------------------
(* The inductive invariant *)

Writing(r) == tx[r].phase \in {"creating", "inserted", "updated"}

(* What a transaction holds while it is open: the ids Postgres gave it,    *)
(* which no committed row has, and a chat that exists or is about to.      *)
TransactionsWellFormed ==
    \A r \in Requests :
        Writing(r) =>
            /\ tx[r].message \in Messages /\ messages[tx[r].message] = None
            /\ tx[r].chat \in Chats
            /\ tx[r].phase = "creating" =>
                /\ chats[tx[r].chat] = None
                /\ tx[r].members \subseteq Registered
                /\ tx[r].author \in tx[r].members
                /\ \E u, v \in tx[r].members : u # v
            /\ tx[r].phase # "creating" =>
                /\ chats[tx[r].chat] # None
                /\ tx[r].author \in chats[tx[r].chat].members

(* Two open transactions write different messages and create different     *)
(* chats.                                                                  *)
FreshIds ==
    \A r, o \in Requests :
        r # o /\ Writing(r) /\ Writing(o) =>
            /\ tx[r].message # tx[o].message
            /\ tx[r].phase = "creating" => tx[r].chat # tx[o].chat

(* A stored message belongs to a chat that exists. *)
MessagesHaveChats ==
    \A m \in Messages : messages[m] # None => chats[messages[m].chat] # None

IInv ==
    /\ TypeOK
    /\ TransactionsWellFormed
    /\ FreshIds
    /\ MessagesHaveChats
    /\ PointerConsistent
    /\ AnnouncedExactly

-----------------------------------------------------------------------------
USE UsersAssumption, TimeAssumption, NoneAssumption

(* A timestamp read into a Date stays within the clock's range. *)
LEMMA ToDateType == \A t \in Time : ToDate(t) \in Time
<1> SUFFICES ASSUME NEW t \in Nat, t <= MaxTime PROVE ToDate(t) \in Time
    BY DEF Time
<1>1. t - (t % Millisecond) \in 0 .. t
    OBVIOUS
<1>2. QED
    BY <1>1 DEF Time, ToDate

(* Two submitted ids are spellings of one user's. *)
SpelledTwice(creator, raw) ==
    \E x, y \in otherMemberIds(creator, raw) : x # y /\ Normal[x] = Normal[y]

(* There are as many members as listed ids, and the creator, but for       *)
(* second spellings.                                                       *)
LEMMA MemberCounts ==
    ASSUME NEW creator \in Users, NEW raw \in SUBSET RawIds
    PROVE  /\ IsFiniteSet(memberIds(creator, raw))
           /\ Cardinality(memberIds(creator, raw)) \in Nat
           /\ Cardinality(memberIds(creator, raw))
                <= 1 + Cardinality(otherMemberIds(creator, raw))
           /\ Cardinality(memberIds(creator, raw))
                = 1 + Cardinality(otherMemberIds(creator, raw))
              <=> ~SpelledTwice(creator, raw)
<1> DEFINE others == otherMemberIds(creator, raw)
           normal == [x \in others |-> Normal[x]]
           image == {Normal[x] : x \in others}
<1>1. IsFiniteSet(others) /\ Cardinality(others) \in Nat
    BY FS_Subset, FS_CardinalityType DEF otherMemberIds
<1>2. normal \in Surjection(others, image)
    BY DEF Surjection
<1>3. normal \in Injection(others, image) <=> ~SpelledTwice(creator, raw)
    BY DEF Injection, IsInjective, SpelledTwice
<1>4. memberIds(creator, raw) = image \cup {creator} /\ creator \notin image
    BY DEF memberIds, otherMemberIds
<1> HIDE DEF others, image, normal
<1>5. /\ IsFiniteSet(image) /\ Cardinality(image) \in Nat
      /\ Cardinality(image) <= Cardinality(others)
      /\ Cardinality(image) = Cardinality(others) <=> normal \in Injection(others, image)
    BY <1>1, <1>2, FS_Surjection, FS_CardinalityType
<1>6. /\ IsFiniteSet(image \cup {creator})
      /\ Cardinality(image \cup {creator}) = Cardinality(image) + 1
    BY <1>4, <1>5, FS_AddElement
<1>7. QED
    BY <1>1, <1>3, <1>4, <1>5, <1>6 DEF others

(* The member check of PostgresChatCreator only counts, and yet it lets a  *)
(* list of members through exactly if all of them are registered and none  *)
(* is spelled in two ways: nobody unregistered becomes a member, and the   *)
(* only other lists that are refused are those with a second spelling.     *)
THEOREM MemberCheckExact ==
    ASSUME NEW creator \in Users, NEW raw \in SUBSET RawIds
    PROVE  AllMembersFound(creator, raw) <=>
                memberIds(creator, raw) \subseteq Registered /\ ~SpelledTwice(creator, raw)
<1> DEFINE members == memberIds(creator, raw)
           found == members \cap Registered
           listed == 1 + Cardinality(otherMemberIds(creator, raw))
<1>1. /\ IsFiniteSet(members) /\ Cardinality(members) \in Nat
      /\ Cardinality(members) <= listed
      /\ Cardinality(members) = listed <=> ~SpelledTwice(creator, raw)
    BY MemberCounts
<1>2. AllMembersFound(creator, raw) <=> Cardinality(found) = listed
    BY DEF AllMembersFound
<1>3. /\ IsFiniteSet(found) /\ Cardinality(found) \in Nat
      /\ Cardinality(found) <= Cardinality(members)
      /\ Cardinality(members) = Cardinality(found) => members = found
    BY <1>1, FS_Subset, FS_CardinalityType
<1>4. Cardinality(otherMemberIds(creator, raw)) \in Nat
    BY FS_Subset, FS_CardinalityType DEF otherMemberIds
<1>5. members \subseteq Registered <=> found = members
    OBVIOUS
<1> HIDE DEF members, found
<1>6. QED
    BY <1>1, <1>2, <1>3, <1>4, <1>5 DEF members

(* Who looks a chat up by its members gets exactly the chats of these      *)
(* members, unless one is spelled in two ways: then no chat is found,      *)
(* though there may be one (ChatMembers.from and findByMemberIds).         *)
THEOREM LookUpExact ==
    ASSUME NEW caller \in Users, NEW raw \in SUBSET RawIds, NEW c \in Chats
    PROVE  c \in getChatByMembers(caller, raw) <=>
                /\ otherMemberIds(caller, raw) # {}
                /\ chats[c] # None /\ chats[c].members = memberIds(caller, raw)
                /\ ~SpelledTwice(caller, raw)
    BY MemberCounts DEF getChatByMembers, findByMemberIds

(* The creator is a member, and somebody else is. *)
LEMMA TwoMembers ==
    ASSUME NEW creator \in Users, NEW raw \in SUBSET RawIds,
           otherMemberIds(creator, raw) # {}
    PROVE  /\ memberIds(creator, raw) \subseteq Users
           /\ creator \in memberIds(creator, raw)
           /\ \E u, v \in memberIds(creator, raw) : u # v
    BY DEF memberIds, otherMemberIds

(* The idle handler is well typed. *)
LEMMA IdleType == Idle \in TxType
    BY DEF Idle, TxType, Phases, Time

(* Events are well typed. *)
LEMMA EventsOfType ==
    ASSUME NEW r \in Requests, IInv, Writing(r), NEW members \in SUBSET Users
    PROVE  EventsOf(tx[r].chat, tx[r].message, members, tx[r].at) \subseteq EventType
<1>1. /\ tx[r].chat \in Chats
      /\ tx[r].message \in Messages
      /\ tx[r].at \in Time
    BY DEF IInv, TypeOK, TransactionsWellFormed, TxType
<1>2. ToDate(tx[r].at) \in Time
    BY <1>1, ToDateType
<1>3. SUFFICES ASSUME NEW topic \in {"chat list", "chat messages"}
      PROVE  [topic |-> topic, chat |-> tx[r].chat, message |-> tx[r].message,
              to |-> members, at |-> ToDate(tx[r].at)] \in EventType
    BY DEF EventsOf
<1>4. QED
    BY <1>1, <1>2 DEF EventType

(* The announcement of one more message: the stored messages keep theirs,  *)
(* as their chats keep their members.                                      *)
LEMMA OneMoreAnnouncement ==
    ASSUME IInv, NEW r \in Requests, Writing(r), NEW members,
           NEW n, n = tx[r].message,
           messages' = [messages EXCEPT ![tx[r].message] = MessageOf(tx[r])],
           chats'[tx[r].chat].members = members,
           \A c \in Chats : chats[c] # None => chats'[c].members = chats[c].members,
           outbox' = outbox \cup EventsOf(tx[r].chat, tx[r].message, members, tx[r].at)
    PROVE  AnnouncedExactly'
<1> DEFINE t == tx[r]
<1>1. /\ n \in Messages /\ messages[n] = None /\ t.chat \in Chats
      /\ t.at \in Time /\ t.author \in Users
    <2>1. /\ t \in TxType /\ n \in Messages /\ messages[n] = None /\ t.chat \in Chats
        BY DEF IInv, TransactionsWellFormed, TypeOK
    <2>2. CASE t.phase = "creating"
        BY <2>1, <2>2 DEF IInv, TransactionsWellFormed, TxType
    <2>3. CASE t.phase # "creating"
        <3>1. chats[t.chat] \in ChatType /\ t.author \in chats[t.chat].members
            BY <2>1, <2>3 DEF IInv, TypeOK, TransactionsWellFormed
        <3>2. QED
            BY <2>1, <3>1 DEF ChatType, TxType
    <2>4. QED
        BY <2>2, <2>3
<1>2. \A m \in Messages : messages'[m] = IF m = n THEN MessageOf(t) ELSE messages[m]
    BY <1>1 DEF IInv, TypeOK
<1>3. MessageOf(t) # None
    BY <1>1 DEF MessageOf, MessageType
<1>4. \A m : Announcement(m)' =
        IF messages'[m] = None THEN {}
        ELSE EventsOf(messages'[m].chat, m, chats'[messages'[m].chat].members, messages'[m].at)
    BY DEF Announcement, EventsOf, ToDate
<1>5. Announcement(n)' = EventsOf(t.chat, n, members, t.at) /\ Announcement(n) = {}
    <2>1. messages'[n] = MessageOf(t)
        BY <1>1, <1>2
    <2>2. messages'[n].chat = t.chat /\ messages'[n].at = t.at
        BY <2>1 DEF MessageOf
    <2>3. QED
        BY <1>1, <1>3, <1>4, <2>1, <2>2 DEF Announcement
<1>6. ASSUME NEW m \in Messages, m # n PROVE Announcement(m)' = Announcement(m)
    <2>1. messages'[m] = messages[m]
        BY <1>2, <1>6
    <2>2. CASE messages[m] = None
        BY <1>4, <2>1, <2>2 DEF Announcement
    <2>3. CASE messages[m] # None
        <3>1. messages[m].chat \in Chats /\ chats[messages[m].chat] # None
            BY <2>3 DEF IInv, TypeOK, MessageType, MessagesHaveChats
        <3>2. chats'[messages[m].chat].members = chats[messages[m].chat].members
            BY <3>1
        <3>3. QED
            BY <1>4, <2>1, <2>3, <3>2 DEF Announcement
    <2>4. QED
        BY <2>2, <2>3
<1>7. outbox = UNION {Announcement(m) : m \in Messages}
    BY DEF IInv, AnnouncedExactly
<1>8. outbox' = UNION {Announcement(m)' : m \in Messages}
    <2>1. outbox' = outbox \cup Announcement(n)'
        BY <1>5
    <2>2. outbox = UNION {Announcement(m)' : m \in Messages \ {n}}
        BY <1>5, <1>6, <1>7
    <2>3. n \in Messages
        BY <1>1
    <2>4. UNION {Announcement(m)' : m \in Messages}
            = Announcement(n)' \cup UNION {Announcement(m)' : m \in Messages \ {n}}
        BY <2>3
    <2>5. QED
        BY <2>1, <2>2, <2>4
<1>9. QED
    BY <1>8 DEF AnnouncedExactly

(* A step of a handler that commits nothing keeps what the invariant says  *)
(* of the tables.                                                          *)
LEMMA TablesUntouched ==
    ASSUME IInv, UNCHANGED tables
    PROVE  MessagesHaveChats' /\ PointerConsistent' /\ AnnouncedExactly'
<1>1. MessagesHaveChats' /\ PointerConsistent'
    BY DEF IInv, tables, MessagesHaveChats, PointerConsistent
<1>2. \A m : Announcement(m)' = Announcement(m)
    BY DEF tables, Announcement, EventsOf
<1>3. QED
    BY <1>1, <1>2 DEF IInv, tables, AnnouncedExactly

(* A new chat gets ids nobody has, and members that are all registered. *)
LEMMA CreateChatBeginStep ==
    ASSUME IInv, NEW r \in Requests, CreateChatBegin(r)
    PROVE  IInv'
<1> USE DEF IInv, CreateChatBegin
<1>1. PICK creator \in Registered, raw \in SUBSET RawIds, c \in Chats, m \in Messages :
        /\ otherMemberIds(creator, raw) # {}
        /\ UnusedChat(c) /\ UnusedMessage(m)
        /\ tx' = [tx EXCEPT ![r] =
                    IF AllMembersFound(creator, raw)
                    THEN [phase |-> "creating", chat |-> c, author |-> creator,
                          members |-> memberIds(creator, raw), message |-> m, at |-> now]
                    ELSE [Idle EXCEPT !.phase = "notFound", !.author = creator,
                                      !.members = memberIds(creator, raw)]]
    OBVIOUS
<1> DEFINE members == memberIds(creator, raw)
           new == [phase |-> "creating", chat |-> c, author |-> creator,
                   members |-> members, message |-> m, at |-> now]
           refused == [Idle EXCEPT !.phase = "notFound", !.author = creator,
                                   !.members = members]
<1>2. /\ members \subseteq Users
      /\ creator \in members
      /\ \E u, v \in members : u # v
    BY <1>1, TwoMembers
<1>3. AllMembersFound(creator, raw) => members \subseteq Registered
    BY <1>1, MemberCheckExact
<1> HIDE DEF members
<1>4. now \in Time
    BY DEF TypeOK
<1>5. new \in TxType /\ refused \in TxType
    BY <1>2, <1>4, IdleType DEF TxType, Phases, Idle
<1>6. tx' = [tx EXCEPT ![r] = IF AllMembersFound(creator, raw) THEN new ELSE refused]
    BY <1>1 DEF members
<1>7. refused.phase = "notFound"
    BY DEF Idle
<1>8. TypeOK'
    BY <1>5, <1>6 DEF TypeOK, tables
<1>9. TransactionsWellFormed'
    <2>1. \A o \in Requests \ {r} : tx'[o] = tx[o]
        BY <1>6 DEF TypeOK
    <2>2. ASSUME Writing(r)' PROVE tx'[r] = new /\ AllMembersFound(creator, raw)
        BY <1>6, <1>7, <2>2 DEF TypeOK, Writing
    <2>3. QED
        BY <1>1, <1>2, <1>3, <2>1, <2>2
        DEF TransactionsWellFormed, Writing, tables, UnusedChat, UnusedMessage
<1>10. FreshIds'
    BY <1>1, <1>6, <1>7
    DEF TypeOK, FreshIds, Writing, UnusedChat, UnusedMessage
<1>11. QED
    BY <1>8, <1>9, <1>10, TablesUntouched

(* A new message gets an id nobody has, in a chat that exists. *)
LEMMA CreateMessageBeginStep ==
    ASSUME IInv, NEW r \in Requests, CreateMessageBegin(r)
    PROVE  IInv'
<1> USE DEF IInv, CreateMessageBegin
<1>1. PICK u \in Registered, c \in Chats, m \in Messages :
        /\ chats[c] # None /\ u \in chats[c].members
        /\ UnusedMessage(m)
        /\ tx' = [tx EXCEPT ![r] = [Idle EXCEPT !.phase = "inserted", !.chat = c,
                                        !.author = u, !.message = m, !.at = now]]
        /\ overlapped' =
            IF \E o \in Requests : tx[o].chat = c THEN overlapped \cup {c} ELSE overlapped
    OBVIOUS
<1> DEFINE new == [Idle EXCEPT !.phase = "inserted", !.chat = c,
                               !.author = u, !.message = m, !.at = now]
<1>2. now \in Time
    BY DEF TypeOK
<1>3. new \in TxType
    BY <1>2, IdleType DEF TxType, Phases, Idle
<1>4. new.phase = "inserted" /\ new.chat = c /\ new.author = u /\ new.message = m
    BY DEF Idle
<1>5. /\ tx' = [tx EXCEPT ![r] = new] /\ UNCHANGED <<now, tables>>
      /\ overlapped' \subseteq Chats
    BY <1>1 DEF TypeOK
<1> HIDE DEF new, CreateMessageBegin
<1>6. TypeOK'
    BY <1>3, <1>5 DEF TypeOK, tables
<1>7. TransactionsWellFormed'
    BY <1>1, <1>4, <1>5 DEF TypeOK, TransactionsWellFormed, Writing, tables, UnusedMessage
<1>8. FreshIds'
    <2>1. \A o \in Requests : Writing(o) /\ tx[o].phase = "creating" => tx[o].chat # c
        BY <1>1 DEF TransactionsWellFormed
    <2>2. tx'[r] = new /\ \A o \in Requests \ {r} : tx'[o] = tx[o]
        BY <1>5 DEF TypeOK
    <2>3. ASSUME NEW o \in Requests \ {r}, Writing(o)'
          PROVE  /\ tx'[o].message # tx'[r].message
                 /\ tx'[o].phase = "creating" => tx'[o].chat # tx'[r].chat
        BY <1>1, <1>4, <2>1, <2>2, <2>3 DEF Writing, UnusedMessage
    <2>4. tx'[r].phase # "creating"
        BY <1>4, <2>2
    <2>5. QED
        BY <2>2, <2>3, <2>4 DEF FreshIds, Writing
<1>9. QED
    BY <1>5, <1>6, <1>7, <1>8, TablesUntouched

(* The update of the chat row keeps the transaction's ids. *)
LEMMA UpdateChatStep ==
    ASSUME IInv, NEW r \in Requests, UpdateChat(r)
    PROVE  IInv'
<1> USE DEF IInv, UpdateChat
<1>1. TypeOK'
    BY DEF TypeOK, TxType, Phases, tables
<1>2. \A o \in Requests :
        /\ tx'[o].chat = tx[o].chat /\ tx'[o].message = tx[o].message
        /\ tx'[o].author = tx[o].author /\ tx'[o].members = tx[o].members
        /\ tx'[o].phase = IF o = r THEN "updated" ELSE tx[o].phase
    BY DEF TypeOK, TxType
<1>3. TransactionsWellFormed' /\ FreshIds'
    BY <1>2 DEF TransactionsWellFormed, FreshIds, Writing, tables
<1>4. QED
    BY <1>1, <1>3, TablesUntouched

(* A handler that ends without a commit leaves nothing behind. *)
LEMMA EndStep ==
    ASSUME IInv, NEW r \in Requests, tx' = [tx EXCEPT ![r] = Idle],
           UNCHANGED <<now, tables, overlapped>>
    PROVE  IInv'
<1> USE DEF IInv
<1>1. TypeOK'
    BY IdleType DEF TypeOK, tables
<1>2. TransactionsWellFormed' /\ FreshIds'
    BY DEF TypeOK, TransactionsWellFormed, FreshIds, Writing, tables, Idle
<1>3. QED
    BY <1>1, <1>2, TablesUntouched

(* Creating a chat: its rows and events appear together. *)
LEMMA CreateChatCommitStep ==
    ASSUME IInv, NEW r \in Requests, CreateChatCommit(r)
    PROVE  IInv'
<1> USE DEF IInv, CreateChatCommit
<1> DEFINE t == tx[r]
           n == tx[r].message
           c == tx[r].chat
           chat == [members |-> t.members, last |-> n, lastAt |-> ToDate(t.at)]
<1>1. /\ t \in TxType /\ Writing(r)
      /\ n \in Messages /\ messages[n] = None /\ c \in Chats /\ chats[c] = None
      /\ t.members \subseteq Registered /\ t.author \in t.members
      /\ \E u, v \in t.members : u # v
    BY DEF TypeOK, TransactionsWellFormed, Writing
<1>2. /\ t.at \in Time /\ ToDate(t.at) \in Time /\ t.author \in Users /\ t.members \in SUBSET Users
    BY <1>1, ToDateType DEF TxType
<1>3. chat \in ChatType /\ MessageOf(t) \in MessageType
    BY <1>1, <1>2 DEF ChatType, MessageType, MessageOf
<1>4. /\ chats' = [chats EXCEPT ![c] = chat]
      /\ messages' = [messages EXCEPT ![n] = MessageOf(t)]
      /\ outbox' = outbox \cup EventsOf(c, n, t.members, t.at)
      /\ tx' = [tx EXCEPT ![r] = Idle]
      /\ now' = now /\ overlapped' = overlapped
    OBVIOUS
<1>5. EventsOf(c, n, t.members, t.at) \subseteq EventType
    BY <1>1, <1>2, EventsOfType
<1>6. chat.members = t.members /\ chat.last = n /\ chat.lastAt = ToDate(t.at)
    OBVIOUS
<1>7. MessageOf(t).chat = c /\ MessageOf(t).author = t.author /\ MessageOf(t).at = t.at
    BY DEF MessageOf
<1> HIDE DEF chat, t, n, c, CreateChatCommit, CreateMessageCommit
<1>8. TypeOK'
    <2>1. chats' \in [Chats -> ChatType \cup {None}]
        BY <1>3, <1>4 DEF TypeOK
    <2>2. messages' \in [Messages -> MessageType \cup {None}]
        BY <1>3, <1>4 DEF TypeOK
    <2>3. outbox' \subseteq EventType
        BY <1>4, <1>5 DEF TypeOK
    <2>4. tx' \in [Requests -> TxType]
        BY <1>4, IdleType DEF TypeOK
    <2>5. QED
        BY <1>4, <2>1, <2>2, <2>3, <2>4 DEF TypeOK
<1>9. /\ \A d \in Chats : chats'[d] = IF d = c THEN chat ELSE chats[d]
      /\ \A m \in Messages : messages'[m] = IF m = n THEN MessageOf(t) ELSE messages[m]
      /\ \A o \in Requests : tx'[o] = IF o = r THEN Idle ELSE tx[o]
    BY <1>4 DEF TypeOK
<1>10. chat # None /\ MessageOf(t) # None
    BY <1>3
<1>11. \A o \in Requests \ {r} : Writing(o) => tx[o].message # n /\ tx[o].chat # c
    BY <1>1 DEF TransactionsWellFormed, FreshIds, Writing, t, n, c
<1>12. TransactionsWellFormed'
    BY <1>9, <1>10, <1>11 DEF TransactionsWellFormed, Writing, Idle
<1>13. FreshIds'
    BY <1>9 DEF FreshIds, Writing, Idle
<1>14. MessagesHaveChats'
    BY <1>1, <1>7, <1>9, <1>10 DEF MessagesHaveChats, TypeOK, MessageType
<1>15. PointerConsistent'
    <2> SUFFICES ASSUME NEW d \in Chats, chats'[d] # None
                 PROVE  /\ \E u, v \in chats'[d].members : u # v
                        /\ chats'[d].members \subseteq Registered
                        /\ LET m == messages'[chats'[d].last]
                           IN m # None /\ m.chat = d /\ m.author \in chats'[d].members
                              /\ chats'[d].lastAt = ToDate(m.at)
        BY DEF PointerConsistent, ToDate
    <2>1. CASE d = c
        BY <1>1, <1>6, <1>7, <1>9, <1>10, <2>1
    <2>2. CASE d # c
        <3>1. chats'[d] = chats[d] /\ chats[d] \in ChatType
            BY <1>9, <2>2 DEF TypeOK
        <3>2. chats[d].last \in Messages /\ chats[d].last # n
            BY <1>1, <3>1 DEF PointerConsistent, ChatType
        <3>3. messages'[chats[d].last] = messages[chats[d].last]
            BY <1>9, <3>2
        <3>4. QED
            BY <3>1, <3>3 DEF PointerConsistent
    <2>3. QED
        BY <2>1, <2>2
<1>16. AnnouncedExactly'
    <2>1. chats'[c].members = t.members
        BY <1>1, <1>6, <1>9
    <2>2. \A d \in Chats : chats[d] # None => chats'[d].members = chats[d].members
        BY <1>1, <1>9
    <2>3. QED
        BY <1>1, <1>4, <2>1, <2>2, OneMoreAnnouncement DEF t, n, c
<1>17. QED
    BY <1>8, <1>12, <1>13, <1>14, <1>15, <1>16

(* Creating a message: its row, the pointer and the events appear together. *)
LEMMA CreateMessageCommitStep ==
    ASSUME IInv, NEW r \in Requests, CreateMessageCommit(r)
    PROVE  IInv'
<1> USE DEF IInv, CreateMessageCommit
<1> DEFINE t == tx[r]
           n == tx[r].message
           c == tx[r].chat
           chat == [chats[c] EXCEPT !.last = n, !.lastAt = ToDate(t.at)]
<1>1. /\ t \in TxType /\ Writing(r)
      /\ n \in Messages /\ messages[n] = None /\ c \in Chats
      /\ chats[c] # None /\ chats[c] \in ChatType /\ t.author \in chats[c].members
    BY DEF TypeOK, TransactionsWellFormed, Writing
<1>2. /\ t.at \in Time /\ ToDate(t.at) \in Time
      /\ t.author \in Users /\ chats[c].members \in SUBSET Users
    BY <1>1, ToDateType DEF TxType, ChatType
<1>3. chat \in ChatType /\ MessageOf(t) \in MessageType
    BY <1>1, <1>2 DEF ChatType, MessageType, MessageOf
<1>4. /\ chats' = [chats EXCEPT ![c] = chat]
      /\ messages' = [messages EXCEPT ![n] = MessageOf(t)]
      /\ outbox' = outbox \cup EventsOf(c, n, chats[c].members, t.at)
      /\ tx' = [tx EXCEPT ![r] = Idle]
      /\ now' = now /\ overlapped' = overlapped
    OBVIOUS
<1>5. EventsOf(c, n, chats[c].members, t.at) \subseteq EventType
    BY <1>1, <1>2, EventsOfType
<1>6. chat.members = chats[c].members /\ chat.last = n /\ chat.lastAt = ToDate(t.at)
    BY <1>1 DEF ChatType
<1>7. MessageOf(t).chat = c /\ MessageOf(t).author = t.author /\ MessageOf(t).at = t.at
    BY DEF MessageOf
<1> HIDE DEF chat, t, n, c, CreateChatCommit, CreateMessageCommit
<1>8. TypeOK'
    <2>1. chats' \in [Chats -> ChatType \cup {None}]
        BY <1>3, <1>4 DEF TypeOK
    <2>2. messages' \in [Messages -> MessageType \cup {None}]
        BY <1>3, <1>4 DEF TypeOK
    <2>3. outbox' \subseteq EventType
        BY <1>4, <1>5 DEF TypeOK
    <2>4. tx' \in [Requests -> TxType]
        BY <1>4, IdleType DEF TypeOK
    <2>5. QED
        BY <1>4, <2>1, <2>2, <2>3, <2>4 DEF TypeOK
<1>9. /\ \A d \in Chats : chats'[d] = IF d = c THEN chat ELSE chats[d]
      /\ \A m \in Messages : messages'[m] = IF m = n THEN MessageOf(t) ELSE messages[m]
      /\ \A o \in Requests : tx'[o] = IF o = r THEN Idle ELSE tx[o]
    BY <1>4 DEF TypeOK
<1>10. chat # None /\ MessageOf(t) # None
    BY <1>3
<1>11. \A o \in Requests \ {r} : Writing(o) => tx[o].message # n
    BY <1>1 DEF TransactionsWellFormed, FreshIds, Writing, t, n, c
<1>12. TransactionsWellFormed'
    <2>1. \A d \in Chats : /\ chats'[d] = None <=> chats[d] = None
                           /\ chats[d] # None => chats'[d].members = chats[d].members
        BY <1>1, <1>6, <1>9, <1>10
    <2>2. QED
        BY <1>9, <1>11, <2>1 DEF TransactionsWellFormed, Writing, Idle
<1>13. FreshIds'
    BY <1>9 DEF FreshIds, Writing, Idle
<1>14. MessagesHaveChats'
    BY <1>1, <1>7, <1>9, <1>10 DEF MessagesHaveChats, TypeOK, MessageType
<1>15. PointerConsistent'
    <2> SUFFICES ASSUME NEW d \in Chats, chats'[d] # None
                 PROVE  /\ \E u, v \in chats'[d].members : u # v
                        /\ chats'[d].members \subseteq Registered
                        /\ LET m == messages'[chats'[d].last]
                           IN m # None /\ m.chat = d /\ m.author \in chats'[d].members
                              /\ chats'[d].lastAt = ToDate(m.at)
        BY DEF PointerConsistent, ToDate
    <2>1. CASE d = c
        <3>1. /\ \E u, v \in chats[c].members : u # v
              /\ chats[c].members \subseteq Registered
            BY <1>1 DEF PointerConsistent
        <3>2. QED
            BY <1>1, <1>6, <1>7, <1>9, <1>10, <2>1, <3>1
    <2>2. CASE d # c
        <3>1. chats'[d] = chats[d] /\ chats[d] \in ChatType
            BY <1>9, <2>2 DEF TypeOK
        <3>2. chats[d].last \in Messages /\ chats[d].last # n
            BY <1>1, <3>1 DEF PointerConsistent, ChatType
        <3>3. messages'[chats[d].last] = messages[chats[d].last]
            BY <1>9, <3>2
        <3>4. QED
            BY <3>1, <3>3 DEF PointerConsistent
    <2>3. QED
        BY <2>1, <2>2
<1>16. AnnouncedExactly'
    <2>1. \A d \in Chats : chats[d] # None => chats'[d].members = chats[d].members
        BY <1>1, <1>6, <1>9
    <2>2. QED
        BY <1>1, <1>4, <2>1, OneMoreAnnouncement DEF t, n, c
<1>17. QED
    BY <1>8, <1>12, <1>13, <1>14, <1>15, <1>16

(* The clock touches nothing but itself. *)
LEMMA TickStep == ASSUME IInv, Tick PROVE IInv'
<1> USE DEF IInv, Tick
<1>1. TypeOK'
    BY DEF TypeOK, Time, tables
<1>2. TransactionsWellFormed' /\ FreshIds'
    BY DEF TransactionsWellFormed, FreshIds, Writing, tables
<1>3. QED
    BY <1>1, <1>2, TablesUntouched

(* A step that changes nothing preserves the invariant. *)
LEMMA StutterStep == ASSUME IInv, UNCHANGED vars PROVE IInv'
<1> USE DEF IInv, vars
<1>1. TypeOK'
    BY DEF TypeOK, tables
<1>2. TransactionsWellFormed' /\ FreshIds'
    BY DEF TransactionsWellFormed, FreshIds, Writing, tables
<1>3. QED
    BY <1>1, <1>2, TablesUntouched DEF tables

(* The empty database satisfies the invariant. *)
LEMMA InitIInv == Init => IInv
<1> SUFFICES ASSUME Init PROVE IInv
    OBVIOUS
<1> USE DEF Init
<1>1. TypeOK
    BY IdleType DEF TypeOK, Time
<1>2. \A r \in Requests : ~Writing(r)
    BY DEF Writing, Idle
<1>3. AnnouncedExactly
    BY DEF AnnouncedExactly, Announcement
<1>4. QED
    BY <1>1, <1>2, <1>3
    DEF IInv, TransactionsWellFormed, FreshIds, MessagesHaveChats, PointerConsistent

(* Every step preserves the invariant: one case per action. *)
LEMMA NextIInv == IInv /\ [Next]_vars => IInv'
<1> SUFFICES ASSUME IInv, [Next]_vars PROVE IInv'
    OBVIOUS
<1>1. CASE Tick
    BY <1>1, TickStep
<1>2. ASSUME NEW r \in Requests, Handle(r) PROVE IInv'
    <2>1. CASE RespondNotFound(r) \/ Abort(r)
        BY <2>1, EndStep DEF RespondNotFound, Abort
    <2>2. QED
        BY <1>2, <2>1, CreateChatBeginStep, CreateChatCommitStep, CreateMessageBeginStep,
           UpdateChatStep, CreateMessageCommitStep DEF Handle
<1>3. CASE UNCHANGED vars
    BY <1>3, StutterStep
<1>4. QED
    BY <1>1, <1>2, <1>3 DEF Next

-----------------------------------------------------------------------------
(* The newest message *)

(* A message on its way to a chat. *)
Sending(r) == tx[r].phase \in {"inserted", "updated"}

(* No row and no transaction is from the future. *)
InThePast ==
    /\ \A m \in Messages : messages[m] # None => messages[m].at <= now
    /\ \A r \in Requests : Writing(r) => tx[r].at <= now

(* Unless it is noted that they overlap, a chat has one message on its way *)
(* at most, and that one began after all others were stored.               *)
AloneUnlessNoted ==
    \A r \in Requests :
        Sending(r) /\ tx[r].chat \notin overlapped =>
            /\ \A o \in Requests : Sending(o) /\ tx[o].chat = tx[r].chat => o = r
            /\ \A m \in Messages :
                messages[m] # None /\ messages[m].chat = tx[r].chat =>
                    messages[m].at <= tx[r].at

Ordered == InThePast /\ AloneUnlessNoted /\ NewestUnlessOverlapped

(* The times of rows and transactions can be compared. *)
LEMMA TimesCompare ==
    ASSUME IInv
    PROVE  /\ now \in Nat
           /\ \A r \in Requests : tx[r].at \in Nat
           /\ \A m \in Messages : messages[m] # None =>
                messages[m].at \in Nat /\ messages[m].chat \in Chats
           /\ \A c \in Chats : chats[c] # None =>
                /\ chats[c].last \in Messages /\ messages[chats[c].last] # None
                /\ messages[chats[c].last].chat = c
    BY DEF IInv, TypeOK, TxType, MessageType, ChatType, Time, PointerConsistent

(* A new message begins now: whatever is stored is not newer, and another  *)
(* message on its way to the chat is noted.                                *)
LEMMA CreateMessageBeginOrdered ==
    ASSUME IInv, Ordered, NEW r \in Requests, CreateMessageBegin(r)
    PROVE  Ordered'
<1>1. PICK u \in Registered, c \in Chats, m \in Messages :
        /\ chats[c] # None
        /\ tx' = [tx EXCEPT ![r] = [Idle EXCEPT !.phase = "inserted", !.chat = c,
                                        !.author = u, !.message = m, !.at = now]]
        /\ overlapped' =
            IF \E o \in Requests : tx[o].chat = c THEN overlapped \cup {c} ELSE overlapped
    BY DEF CreateMessageBegin
<1>2. /\ tx'[r].phase = "inserted" /\ tx'[r].chat = c /\ tx'[r].at = now
      /\ \A o \in Requests \ {r} : tx'[o] = tx[o]
      /\ UNCHANGED <<now, chats, messages>>
    BY <1>1 DEF IInv, TypeOK, Idle, CreateMessageBegin, tables
<1>3. InThePast'
    BY <1>2, TimesCompare DEF Ordered, InThePast, Writing
<1>4. AloneUnlessNoted'
    BY <1>1, <1>2 DEF Ordered, InThePast, AloneUnlessNoted, Sending
<1>5. NewestUnlessOverlapped'
    BY <1>1, <1>2 DEF Ordered, NewestUnlessOverlapped
<1>6. QED
    BY <1>3, <1>4, <1>5 DEF Ordered

(* A message is stored: if it was alone, none of its chat is newer. *)
LEMMA CreateMessageCommitOrdered ==
    ASSUME IInv, Ordered, NEW r \in Requests, CreateMessageCommit(r)
    PROVE  Ordered'
<1> DEFINE t == tx[r]
           n == tx[r].message
           c == tx[r].chat
<1>1. /\ n \in Messages /\ messages[n] = None /\ c \in Chats /\ chats[c] \in ChatType
      /\ Sending(r) /\ Writing(r)
    BY DEF CreateMessageCommit, IInv, TypeOK, TransactionsWellFormed, Writing, Sending
<1>2. /\ \A m \in Messages : messages'[m] = IF m = n THEN MessageOf(t) ELSE messages[m]
      /\ \A d \in Chats : d # c => chats'[d] = chats[d]
      /\ chats'[c].last = n
      /\ tx'[r] = Idle /\ \A o \in Requests \ {r} : tx'[o] = tx[o]
      /\ UNCHANGED <<now, overlapped>>
    BY <1>1 DEF CreateMessageCommit, IInv, TypeOK, ChatType
<1>3. MessageOf(t).chat = c /\ MessageOf(t).at = t.at /\ Idle.phase = "idle"
    BY DEF MessageOf, Idle
<1> HIDE DEF t, n, c
<1>4. InThePast'
    BY <1>1, <1>2, <1>3 DEF Ordered, InThePast, Writing, t
<1>5. AloneUnlessNoted'
    BY <1>1, <1>2, <1>3 DEF Ordered, AloneUnlessNoted, Sending, c
<1>6. NewestUnlessOverlapped'
  <2> SUFFICES ASSUME NEW m \in Messages, messages'[m] # None,
                      messages'[m].chat \notin overlapped
               PROVE  messages'[m].at <= messages'[chats'[messages'[m].chat].last].at
      BY <1>2 DEF NewestUnlessOverlapped
  <2>1. CASE messages'[m].chat = c
    <3>1. messages'[chats'[c].last].at = t.at /\ t.at \in Nat
        BY <1>1, <1>2, <1>3, TimesCompare DEF t
    <3>2. CASE m = n
        BY <1>2, <1>3, <2>1, <3>1, <3>2
    <3>3. CASE m # n
        BY <1>1, <1>2, <2>1, <3>1, <3>3 DEF Ordered, AloneUnlessNoted, t, c
    <3>4. QED
        BY <3>2, <3>3
  <2>2. CASE messages'[m].chat # c
    <3>1. m # n /\ messages'[m] = messages[m]
        BY <1>2, <1>3, <2>2
    <3>2. /\ messages[m].chat \in Chats /\ chats[messages[m].chat] # None
          /\ chats'[messages[m].chat] = chats[messages[m].chat]
        BY <1>2, <2>2, <3>1, TimesCompare DEF IInv, MessagesHaveChats
    <3>3. chats[messages[m].chat].last \in Messages /\ chats[messages[m].chat].last # n
        BY <1>1, <3>2, TimesCompare
    <3>4. QED
        BY <1>2, <3>1, <3>2, <3>3 DEF Ordered, NewestUnlessOverlapped
  <2>3. QED
      BY <2>1, <2>2
<1>7. QED
    BY <1>4, <1>5, <1>6 DEF Ordered

(* A chat begins with one message, and nobody could send to it before. *)
LEMMA CreateChatCommitOrdered ==
    ASSUME IInv, Ordered, NEW r \in Requests, CreateChatCommit(r)
    PROVE  Ordered'
<1> DEFINE t == tx[r]
           n == tx[r].message
           c == tx[r].chat
<1>1. /\ n \in Messages /\ messages[n] = None /\ c \in Chats /\ chats[c] = None
      /\ Writing(r) /\ \A m \in Messages : messages[m] # None => messages[m].chat # c
      /\ \A o \in Requests : Sending(o) => tx[o].chat # c
    BY DEF CreateChatCommit, IInv, TypeOK, TransactionsWellFormed, Writing, Sending,
       MessagesHaveChats
<1>2. /\ \A m \in Messages : messages'[m] = IF m = n THEN MessageOf(t) ELSE messages[m]
      /\ \A d \in Chats : d # c => chats'[d] = chats[d]
      /\ chats'[c].last = n
      /\ tx'[r] = Idle /\ \A o \in Requests \ {r} : tx'[o] = tx[o]
      /\ UNCHANGED <<now, overlapped>>
    BY <1>1 DEF CreateChatCommit, IInv, TypeOK
<1>3. MessageOf(t).chat = c /\ MessageOf(t).at = t.at /\ Idle.phase = "idle"
    BY DEF MessageOf, Idle
<1> HIDE DEF t, n, c
<1>4. InThePast'
    BY <1>1, <1>2, <1>3 DEF Ordered, InThePast, Writing, t
<1>5. AloneUnlessNoted'
    BY <1>1, <1>2, <1>3 DEF Ordered, AloneUnlessNoted, Sending
<1>6. NewestUnlessOverlapped'
  <2> SUFFICES ASSUME NEW m \in Messages, messages'[m] # None,
                      messages'[m].chat \notin overlapped
               PROVE  messages'[m].at <= messages'[chats'[messages'[m].chat].last].at
      BY <1>2 DEF NewestUnlessOverlapped
  <2>1. CASE m = n
      BY <1>1, <1>2, <1>3, <2>1, TimesCompare DEF t
  <2>2. CASE m # n
    <3>1. messages'[m] = messages[m] /\ messages[m].chat # c
        BY <1>1, <1>2, <2>2
    <3>2. /\ messages[m].chat \in Chats /\ chats[messages[m].chat] # None
          /\ chats'[messages[m].chat] = chats[messages[m].chat]
        BY <1>2, <3>1, TimesCompare DEF IInv, MessagesHaveChats
    <3>3. chats[messages[m].chat].last \in Messages /\ chats[messages[m].chat].last # n
        BY <1>1, <3>2, TimesCompare
    <3>4. QED
        BY <1>2, <3>1, <3>2, <3>3 DEF Ordered, NewestUnlessOverlapped
  <2>3. QED
      BY <2>1, <2>2
<1>7. QED
    BY <1>4, <1>5, <1>6 DEF Ordered

(* A step that commits nothing and begins no message, at a time that does  *)
(* not run back.                                                           *)
LEMMA OtherOrdered ==
    ASSUME IInv, Ordered, UNCHANGED <<chats, messages, overlapped>>, now' \in Nat, now <= now',
           \A r \in Requests :
                /\ Writing(r)' => tx'[r].at <= now'
                /\ Sending(r)' => Sending(r) /\ tx'[r].chat = tx[r].chat /\ tx'[r].at = tx[r].at
    PROVE  Ordered'
<1>1. InThePast'
    BY TimesCompare DEF Ordered, InThePast
<1>2. AloneUnlessNoted'
    BY DEF Ordered, AloneUnlessNoted
<1>3. NewestUnlessOverlapped'
    BY DEF Ordered, NewestUnlessOverlapped
<1>4. QED
    BY <1>1, <1>2, <1>3 DEF Ordered

LEMMA NextOrdered == IInv /\ Ordered /\ [Next]_vars => Ordered'
<1> SUFFICES ASSUME IInv, Ordered, [Next]_vars PROVE Ordered'
    OBVIOUS
<1> USE DEF Ordered, InThePast, Writing, Sending
<1>1. CASE Tick \/ UNCHANGED vars
    BY <1>1, TimesCompare, OtherOrdered DEF Tick, vars, tables
<1>2. ASSUME NEW r \in Requests, CreateChatBegin(r) PROVE Ordered'
  <2>1. /\ \A o \in Requests \ {r} : tx'[o] = tx[o]
        /\ tx'[r].phase \in {"creating", "notFound"}
        /\ tx'[r].phase = "creating" => tx'[r].at = now
        /\ UNCHANGED <<now, chats, messages, overlapped>>
      BY <1>2 DEF CreateChatBegin, IInv, TypeOK, Idle, tables
  <2>2. QED
      BY <2>1, TimesCompare, OtherOrdered
<1>3. ASSUME NEW r \in Requests, RespondNotFound(r) \/ Abort(r) PROVE Ordered'
  <2>1. /\ \A o \in Requests \ {r} : tx'[o] = tx[o]
        /\ tx'[r].phase = "idle"
        /\ UNCHANGED <<now, chats, messages, overlapped>>
      BY <1>3 DEF RespondNotFound, Abort, IInv, TypeOK, Idle, tables
  <2>2. QED
      BY <2>1, TimesCompare, OtherOrdered
<1>4. ASSUME NEW r \in Requests, UpdateChat(r) PROVE Ordered'
  <2>1. /\ \A o \in Requests \ {r} : tx'[o] = tx[o]
        /\ tx[r].phase = "inserted" /\ tx'[r].chat = tx[r].chat /\ tx'[r].at = tx[r].at
        /\ UNCHANGED <<now, chats, messages, overlapped>>
      BY <1>4 DEF UpdateChat, IInv, TypeOK, TxType, tables
  <2>2. QED
      BY <2>1, TimesCompare, OtherOrdered
<1>5. QED
    BY <1>1, <1>2, <1>3, <1>4, CreateMessageBeginOrdered, CreateMessageCommitOrdered,
       CreateChatCommitOrdered DEF Next, Handle

-----------------------------------------------------------------------------
(* Row locks *)

(* One transaction at a time has updated the row of a chat. *)
OneUpdatesRow ==
    \A r, o \in Requests :
        tx[r].phase = "updated" /\ tx[o].phase = "updated" /\ tx[r].chat = tx[o].chat => r = o

(* The locks taken for the foreign key do not stand in the way of the      *)
(* update, the one taken by another update does.                           *)
LEMMA UpdateBlocksUpdate ==
    \A o, r \in Requests :
        Blocks(o, r) <=> o # r /\ tx[o].chat = tx[r].chat /\ tx[o].phase = "updated"
<1>1. ASSUME NEW o \in Requests
      PROVE  (\E held \in Locks(tx[o].phase) : <<held, "no key update">> \in Conflicts)
                <=> tx[o].phase = "updated"
    BY DEF Locks, Conflicts
<1>2. QED
    BY <1>1 DEF Blocks

LEMMA NextOneUpdatesRow == TypeOK /\ OneUpdatesRow /\ [Next]_vars => OneUpdatesRow'
<1> SUFFICES ASSUME TypeOK, OneUpdatesRow, [Next]_vars PROVE OneUpdatesRow'
    OBVIOUS
<1>1. ASSUME NEW r \in Requests, UpdateChat(r) PROVE OneUpdatesRow'
  <2>1. \A o \in Requests \ {r} :
            /\ tx'[o] = tx[o]
            /\ ~(tx[o].chat = tx[r].chat /\ tx[o].phase = "updated")
      BY <1>1, UpdateBlocksUpdate DEF UpdateChat, Blocked, TypeOK
  <2>2. tx'[r].chat = tx[r].chat
      BY <1>1 DEF UpdateChat, TypeOK, TxType
  <2>3. QED
      BY <2>1, <2>2 DEF OneUpdatesRow
<1>2. ASSUME NEW r \in Requests, tx'[r].phase # "updated", \A o \in Requests \ {r} : tx'[o] = tx[o]
      PROVE  OneUpdatesRow'
    BY <1>2 DEF OneUpdatesRow
<1>3. ASSUME NEW r \in Requests, CreateChatBegin(r) \/ CreateMessageBegin(r) PROVE OneUpdatesRow'
  <2>1. CASE CreateChatBegin(r)
    <3>1. tx'[r].phase # "updated" /\ \A o \in Requests \ {r} : tx'[o] = tx[o]
        BY <2>1 DEF CreateChatBegin, TypeOK, Idle
    <3>2. QED
        BY <1>2, <3>1
  <2>2. CASE CreateMessageBegin(r)
    <3>1. tx'[r].phase # "updated" /\ \A o \in Requests \ {r} : tx'[o] = tx[o]
        BY <2>2 DEF CreateMessageBegin, TypeOK, Idle
    <3>2. QED
        BY <1>2, <3>1
  <2>3. QED
      BY <1>3, <2>1, <2>2
<1>4. ASSUME NEW r \in Requests,
             RespondNotFound(r) \/ CreateChatCommit(r) \/ CreateMessageCommit(r) \/ Abort(r)
      PROVE  OneUpdatesRow'
  <2>1. tx' = [tx EXCEPT ![r] = Idle]
      BY <1>4 DEF RespondNotFound, CreateChatCommit, CreateMessageCommit, Abort
  <2>2. tx'[r].phase # "updated" /\ \A o \in Requests \ {r} : tx'[o] = tx[o]
      BY <2>1 DEF TypeOK, Idle
  <2>3. QED
      BY <1>2, <2>2
<1>5. CASE Tick \/ UNCHANGED vars
    BY <1>5 DEF Tick, vars, OneUpdatesRow
<1>6. QED
    BY <1>1, <1>3, <1>4, <1>5 DEF Next, Handle

-----------------------------------------------------------------------------
(* Every write is one step of ChatStore *)

(* What others see is the same when the tables are. *)
LEMMA NothingWritten == UNCHANGED tables => UNCHANGED Store!store
    BY DEF tables, Store!store, StoredMessages, StoredEvents

(* A commit adds one message and its two events. *)
LEMMA WriteSimulation ==
    ASSUME IInv, NEW r \in Requests, Writing(r), NEW members,
           messages' = [messages EXCEPT ![tx[r].message] = MessageOf(tx[r])],
           chats' = [chats EXCEPT ![tx[r].chat] =
                        [members |-> members, last |-> tx[r].message,
                         lastAt |-> ToDate(tx[r].at)]],
           outbox' = outbox \cup EventsOf(tx[r].chat, tx[r].message, members, tx[r].at)
    PROVE  Store!Write(tx[r].chat, members, tx[r].message, tx[r].at)
<1> DEFINE t == tx[r]
           n == tx[r].message
           row == [chat |-> t.chat, at |-> t.at]
           added == {[topic |-> topic, message |-> n, to |-> members] : topic \in Store!Topics}
           visible(e) == [topic |-> e.topic, message |-> e.message, to |-> e.to]
<1>1. n \in Messages /\ messages[n] = None
    BY DEF IInv, TransactionsWellFormed
<1>2. MessageOf(t) # None /\ MessageOf(t).chat = t.chat /\ MessageOf(t).at = t.at
  <2>1. t.chat \in Chats /\ t.at \in Time /\ t.author \in Users
    <3>1. t \in TxType /\ t.chat \in Chats
        BY DEF IInv, TypeOK, TransactionsWellFormed
    <3>2. CASE t.phase = "creating"
        BY <3>1, <3>2 DEF IInv, TransactionsWellFormed, TxType
    <3>3. CASE t.phase # "creating"
      <4>1. chats[t.chat] \in ChatType /\ t.author \in chats[t.chat].members
          BY <3>1, <3>3 DEF IInv, TypeOK, TransactionsWellFormed
      <4>2. QED
          BY <3>1, <4>1 DEF ChatType, TxType
    <3>4. QED
        BY <3>2, <3>3
  <2>2. QED
      BY <2>1 DEF MessageOf, MessageType
<1>3. StoredMessages[n] = None
    BY <1>1 DEF StoredMessages
<1>4. StoredMessages' = [StoredMessages EXCEPT ![n] = row]
  <2>1. \A m \in Messages : messages'[m] = IF m = n THEN MessageOf(t) ELSE messages[m]
      BY <1>1 DEF IInv, TypeOK
  <2>2. StoredMessages' = [m \in Messages |-> IF m = n THEN row ELSE StoredMessages[m]]
      BY <1>2, <2>1 DEF StoredMessages
  <2>3. QED
      BY <1>1, <2>2 DEF StoredMessages
<1>5. StoredEvents' = StoredEvents \cup added
  <2>1. StoredEvents' = StoredEvents \cup {visible(e) : e \in EventsOf(t.chat, n, members, t.at)}
      BY DEF StoredEvents
  <2> DEFINE event(topic) == [topic |-> topic, chat |-> t.chat, message |-> n,
                              to |-> members, at |-> ToDate(t.at)]
  <2>2. EventsOf(t.chat, n, members, t.at) = {event(topic) : topic \in Store!Topics}
      BY DEF EventsOf, Store!Topics
  <2>3. \A topic : visible(event(topic)) = [topic |-> topic, message |-> n, to |-> members]
      OBVIOUS
  <2>4. {visible(e) : e \in {event(topic) : topic \in Store!Topics}} = added
    <3> HIDE DEF event, visible
    <3>1. QED
        BY <2>3
  <2>5. QED
      BY <2>1, <2>2, <2>4
<1>6. QED
    BY <1>3, <1>4, <1>5 DEF Store!Write, Store!ToDate, ToDate

(* One case for each commit; nothing else writes. *)
LEMMA StoreSimulation == IInv /\ [Next]_vars => [Store!StoreNext]_Store!store
<1> SUFFICES ASSUME IInv, [Next]_vars
             PROVE  Store!StoreNext \/ UNCHANGED Store!store
    OBVIOUS
<1>1. ASSUME NEW r \in Requests, CreateChatCommit(r) PROVE Store!StoreNext
  <2>1. /\ tx[r].chat \in Chats /\ tx[r].message \in Messages /\ tx[r].at \in Time
        /\ chats[tx[r].chat] = None
        /\ tx[r].members \in {S \in SUBSET Registered : \E u, v \in S : u # v}
        /\ Writing(r)
      BY <1>1 DEF CreateChatCommit, IInv, TypeOK, TxType, TransactionsWellFormed, Writing
  <2>2. Store!Create(tx[r].chat, tx[r].members, tx[r].message, tx[r].at)
      BY <1>1, <2>1, WriteSimulation DEF CreateChatCommit, Store!Create
  <2>3. QED
      BY <2>1, <2>2 DEF Store!StoreNext
<1>2. ASSUME NEW r \in Requests, CreateMessageCommit(r) PROVE Store!StoreNext
  <2> DEFINE c == tx[r].chat
             chat == [members |-> chats[c].members, last |-> tx[r].message,
                      lastAt |-> ToDate(tx[r].at)]
  <2>1. /\ c \in Chats /\ tx[r].message \in Messages /\ tx[r].at \in Time
        /\ chats[c] # None /\ chats[c] \in ChatType
        /\ Writing(r)
      BY <1>2 DEF CreateMessageCommit, IInv, TypeOK, TxType, TransactionsWellFormed, Writing
  <2>2. [chats[c] EXCEPT !.last = tx[r].message, !.lastAt = ToDate(tx[r].at)] = chat
    <3> DEFINE new == [chats[c] EXCEPT !.last = tx[r].message, !.lastAt = ToDate(tx[r].at)]
    <3>1. new \in [members : {chats[c].members}, last : {tx[r].message},
                   lastAt : {ToDate(tx[r].at)}]
        BY <2>1 DEF ChatType
    <3> HIDE DEF new
    <3>2. new = chat
        BY <3>1
    <3>3. QED
        BY <3>2 DEF new
  <2>3. chats' = [chats EXCEPT ![c] = chat]
      BY <1>2, <2>2 DEF CreateMessageCommit
  <2>4. Store!Send(c, tx[r].message, tx[r].at)
      BY <1>2, <2>1, <2>3, WriteSimulation DEF CreateMessageCommit, Store!Send
  <2>5. QED
      BY <2>1, <2>4 DEF Store!StoreNext
<1>3. ASSUME NEW r \in Requests,
             \/ CreateChatBegin(r) \/ RespondNotFound(r) \/ CreateMessageBegin(r)
             \/ UpdateChat(r) \/ Abort(r)
      PROVE  UNCHANGED tables
    BY <1>3 DEF CreateChatBegin, RespondNotFound, CreateMessageBegin, UpdateChat, Abort
<1>4. CASE Tick \/ UNCHANGED vars
    BY <1>4, NothingWritten DEF Tick, vars, tables
<1>5. QED
    BY <1>1, <1>2, <1>3, <1>4, NothingWritten DEF Next, Handle

-----------------------------------------------------------------------------
(* Theorems *)

(* The strengthened invariant holds in every reachable state. *)
THEOREM Invariance == Spec => []IInv
    BY InitIInv, NextIInv, PTL DEF Spec

(* Tables and transactions keep their types. *)
THEOREM TypeCorrectness == Spec => []TypeOK
<1>1. IInv => TypeOK
    BY DEF IInv
<1>2. QED
    BY <1>1, Invariance, PTL

(* A chat points at a message of its own, written by one of its members,   *)
(* all of whom are registered, whichever transactions overlap.             *)
THEOREM PointersConsistent == Spec => []PointerConsistent
<1>1. IInv => PointerConsistent
    BY DEF IInv
<1>2. QED
    BY <1>1, Invariance, PTL

(* The outbox holds the announcements of the stored messages, to their     *)
(* chats' members, and no other.                                           *)
THEOREM OutboxMatchesMessages == Spec => []AnnouncedExactly
<1>1. IInv => AnnouncedExactly
    BY DEF IInv
<1>2. QED
    BY <1>1, Invariance, PTL

(* Whoever lists the members of a chat so that it could be created, finds  *)
(* it: all of its members are registered, so the ids the creator counts    *)
(* are the ids the reader compares.                                        *)
THEOREM ListedChatsAreFound == Spec => []ListedChatIsFound
<1>1. PointerConsistent => ListedChatIsFound
    <2>1. SUFFICES ASSUME PointerConsistent, NEW u \in Registered, NEW raw \in SUBSET RawIds,
                          otherMemberIds(u, raw) # {}, AllMembersFound(u, raw), NEW c \in Chats,
                          chats[c] # None, chats[c].members = memberIds(u, raw)
                   PROVE  c \in getChatByMembers(u, raw)
        BY DEF ListedChatIsFound
    <2>2. memberIds(u, raw) \cap Registered = chats[c].members
        BY <2>1 DEF PointerConsistent
    <2>3. Cardinality(chats[c].members) = 1 + Cardinality(otherMemberIds(u, raw))
        BY <2>1, <2>2 DEF AllMembersFound
    <2>4. QED
        BY <2>1, <2>3 DEF getChatByMembers, findByMemberIds
<1>2. QED
    BY <1>1, PointersConsistent, PTL

(* Where no two messages were on their way at the same time, the chat      *)
(* points at its newest message: the pointer is as stale as the overlap of *)
(* transactions makes it, and no staler.                                   *)
THEOREM NewestWhenAlone == Spec => []NewestUnlessOverlapped
<1>1. Init => Ordered
    BY DEF Init, Ordered, InThePast, AloneUnlessNoted, NewestUnlessOverlapped, Writing,
       Sending, Idle
<1>2. Ordered => NewestUnlessOverlapped
    BY DEF Ordered
<1>3. QED
    BY <1>1, <1>2, NextOrdered, Invariance, PTL DEF Spec

(* To whoever reads the tables or follows the topics, each transaction is  *)
(* one step, in which a message, its chat's pointer and its events appear  *)
(* together, or none at all (PostgresChatCreator and                       *)
(* PostgresChatMessageCreator, with insertOutboxEvents in them).           *)
THEOREM WritesAreAtomic == Spec => AtomicWrites
<1>1. Init => Store!StoreInit
    BY DEF Init, Store!StoreInit, StoredMessages, StoredEvents
<1>2. QED
    BY <1>1, StoreSimulation, Invariance, PTL DEF Spec, AtomicWrites, Store!StoreSpec

(* Waiting for the row of a chat ends with one other transaction, which    *)
(* waits for nobody: the safety of the liveness that EveryRequestEnds      *)
(* states (the insert and the update of PostgresChatMessageCreator).       *)
THEOREM NoLockCycle == Spec => []WaitsAreShort
<1>1. Init => OneUpdatesRow
    BY DEF Init, OneUpdatesRow, Idle
<1>2. OneUpdatesRow => WaitsAreShort
    BY UpdateBlocksUpdate DEF OneUpdatesRow, WaitsAreShort
<1>3. QED
    BY <1>1, <1>2, NextOneUpdatesRow, TypeCorrectness, PTL DEF Spec
=============================================================================
