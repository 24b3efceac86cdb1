-------------------------------- MODULE Feeds --------------------------------
(***************************************************************************)
(* What one client sees of a feed: the chat list, the messages of a chat,  *)
(* the users a chat may be started with, or the blogs.  It reads pages,    *)
(* from the first row down, and the first two feeds also have an SSE       *)
(* stream, fed by the Pub/Sub subscription that the replica which serves   *)
(* it has for itself (the readers of src/features/chat and                 *)
(* src/features/blog, the event buses, and the dispatch of                 *)
(* src/core/pubsub).  What other replicas do with an event does not matter *)
(* to this client.                                                         *)
(*                                                                         *)
(* Writers and the outbox are reduced to what ChatWrites and Outbox show   *)
(* of them: a write commits at once with its outbox row, in any order of   *)
(* the times at which the transactions began, and each row is published at *)
(* least once.  The event of a message, on the topic of the feed, is named *)
(* by the message.                                                         *)
(*                                                                         *)
(* Ids and names are numbers, in the order Postgres has for them.          *)
(***************************************************************************)
EXTENDS Keyset

CONSTANTS
    Users, Chats, Messages, Blogs,     \* ids
    MemberSets,                        \* member sets a chat may be created with
    Me,                                \* the user of the client
    Lower,                             \* of each user: lower(profiles.name)
    ToLowerCase,                       \*               name.trim().toLowerCase()
    Limits,                            \* page sizes the client asks for
    Times,                             \* start times of transactions, in ticks
    Millisecond,                       \* ticks in a millisecond, 1000 in Postgres
    MaxMessages,                       \* bound of the messages, of each feed with a stream
    None                               \* no row, no chat

(* Some letters have a longer lower case in JavaScript than in Postgres. *)
ASSUME IdsAssumption ==
    /\ Users \subseteq Int /\ Chats \subseteq Int /\ Messages \subseteq Int
    /\ Blogs \subseteq Int /\ IsFiniteSet(Users) /\ IsFiniteSet(Chats)
    /\ IsFiniteSet(Messages) /\ IsFiniteSet(Blogs)
    /\ MemberSets \subseteq SUBSET Users
    /\ Lower \in [Users -> Int] /\ ToLowerCase \in [Users -> Int]
    /\ \A u \in Users : ToLowerCase[u] >= Lower[u]
ASSUME LimitsAssumption == \A n \in Limits : ValidLimit(n)
ASSUME BoundAssumption == MaxMessages \in [{"chat list", "chat messages"} -> Nat]
ASSUME TimeAssumption == Times \subseteq Nat /\ Millisecond \in Nat \ {0}

VARIABLES
    profiles,    \* users that have signed up
    blogs,       \* table blogs: created_at of each
    chats,       \* chats and chat_members
    messages,    \* chat_messages
    published,   \* messages whose event the topic has received
    subscribed,  \* whether the replica of the stream has its subscription
    backlog,     \* events it has not acknowledged
    feed,        \* what the client looks at
    phase,       \* closed, paging, or complete once a page was empty
    chat,        \* of the messages it looks at
    cursor,      \* nextCursor of its last page
    seen,        \* ids it got from pages and from the stream
    paged,       \* those it got from pages
    lost         \* ids no page or event will bring it, for a known reason

tables == <<profiles, blogs, chats, messages>>
stream == <<subscribed, backlog>>
client == <<phase, chat, cursor, seen, paged, lost>>
vars == <<profiles, blogs, chats, messages, published, subscribed, backlog, feed,
          phase, chat, cursor, seen, paged, lost>>

ToDate(t) == t - (t % Millisecond)

ChatType == [members : MemberSets, last : Messages, lastAt : {ToDate(t) : t \in Times}]
MessageType == [chat : Chats, at : Times]

ASSUME NoneAssumption ==
    None \notin ChatType \cup MessageType \cup Chats \cup Times

-----------------------------------------------------------------------------
(* The readers *)

Mine(c) == chats[c] # None /\ Me \in chats[c].members

ChatRows == {[key |-> chats[c].lastAt, id |-> c] : c \in {c \in Chats : Mine(c)}}

MessageRows ==
    {[key |-> messages[m].at, id |-> m] :
        m \in {m \in Messages : messages[m] # None /\ messages[m].chat = chat /\ Mine(chat)}}

CandidateRows == {[key |-> -Lower[u], id |-> -u] : u \in profiles \ {Me}}

BlogRows == {[key |-> blogs[b], id |-> b] : b \in {b \in Blogs : blogs[b] # None}}

Rows == CASE feed = "chat list" -> ChatRows
          [] feed = "chat messages" -> MessageRows
          [] feed = "candidates" -> CandidateRows
          [] feed = "blogs" -> BlogRows

IdOf(p) == IF feed = "candidates" THEN -p.id ELSE p.id
IdsOf(rows) == {IdOf(p) : p \in rows}

(* encodeCursor of the last row of a page, and decodeCursor of the result, *)
(* of each CursorPagination: a Date has no more than milliseconds.         *)
ChatListCursor(p) == [key |-> ToDate(messages[chats[p.id].last].at), id |-> p.id]
ChatMessageListCursor(p) == [key |-> ToDate(p.key), id |-> p.id]
ChatCandidateCursor(p) == [key |-> -ToLowerCase[IdOf(p)], id |-> p.id]
BlogCursor(p) == [key |-> ToDate(p.key), id |-> p.id]

nextCursor(p) ==
    {CASE feed = "chat list" -> ChatListCursor(p)
       [] feed = "chat messages" -> ChatMessageListCursor(p)
       [] feed = "candidates" -> ChatCandidateCursor(p)
       [] feed = "blogs" -> BlogCursor(p)}

-----------------------------------------------------------------------------
(* Writers *)

Init ==
    /\ profiles = {} /\ published = {}
    /\ blogs = [b \in Blogs |-> None]
    /\ chats = [c \in Chats |-> None]
    /\ messages = [m \in Messages |-> None]
    /\ subscribed = FALSE /\ backlog = {}
    /\ feed \in {"chat list", "chat messages", "candidates", "blogs"}
    /\ phase = "closed" /\ chat = None
    /\ cursor = {} /\ seen = {} /\ paged = {} /\ lost = {}

(* A row that appears where the pages have already passed is not shown:    *)
(* these feeds have no stream.                                             *)
Appears(i, row) ==
    LET passed == \/ phase = "complete"
                  \/ phase = "paging" /\ Below({row}, cursor) = {}
    IN  lost' = IF passed THEN lost \cup {i} ELSE lost

SignUp(u) ==
    /\ u \notin profiles
    /\ profiles' = profiles \cup {u}
    /\ Appears(u, [key |-> -Lower[u], id |-> -u])
    /\ UNCHANGED <<blogs, chats, messages, published, stream, feed, phase, chat,
                   cursor, seen, paged>>

CreateBlog(b, at) ==
    /\ blogs[b] = None
    /\ blogs' = [blogs EXCEPT ![b] = at]
    /\ Appears(b, [key |-> at, id |-> b])
    /\ UNCHANGED <<profiles, chats, messages, published, stream, feed, phase, chat,
                   cursor, seen, paged>>

(* Mutant: last_message_at is now() of Postgres, not the Date read back. *)
PointAtExactly(c, members, m, at) ==
    chats' = [chats EXCEPT ![c] = [members |-> members, last |-> m, lastAt |-> at]]

PointAt(c, members, m, at) ==
    chats' = [chats EXCEPT ![c] = [members |-> members, last |-> m, lastAt |-> ToDate(at)]]

Insert(m, c, at) ==
    /\ messages[m] = None
    /\ Cardinality({n \in Messages : messages[n] # None}) < MaxMessages[feed]
    /\ messages' = [messages EXCEPT ![m] = [chat |-> c, at |-> at]]

(* The transactions of PostgresChatCreator and PostgresChatMessageCreator. *)
CreateChat(c, members, m, at) ==
    /\ chats[c] = None
    /\ Insert(m, c, at) /\ PointAt(c, members, m, at)
    /\ UNCHANGED <<profiles, blogs, published, stream, feed, client>>

CreateChatMessage(c, m, at) ==
    /\ chats[c] # None
    /\ Insert(m, c, at) /\ PointAt(c, chats[c].members, m, at)
    /\ UNCHANGED <<profiles, blogs, published, stream, feed, client>>

-----------------------------------------------------------------------------
(* From the topic to the stream *)

HasStream == feed \in {"chat list", "chat messages"}

Streaming == phase # "closed" /\ HasStream

(* Mutant: the replicas share one subscription, and each event goes to one *)
(* of them.                                                                *)
PublishShared(m) ==
    /\ messages[m] # None /\ m \notin published
    /\ published' = published \cup {m}
    /\ \/ subscribed /\ backlog' = backlog \cup {m} /\ UNCHANGED lost
       \/ /\ UNCHANGED backlog
          /\ lost' = IF Streaming /\ ~subscribed THEN lost \cup {m} ELSE lost
    /\ UNCHANGED <<tables, subscribed, feed, phase, chat, cursor, seen, paged>>

(* Mutant: a row is not published once its chat has a newer message. *)
PublishNewest(m) ==
    /\ messages[m] # None /\ m \notin published /\ chats[messages[m].chat].last = m
    /\ published' = published \cup {m}
    /\ \/ subscribed /\ backlog' = backlog \cup {m} /\ UNCHANGED lost
       \/ /\ ~subscribed /\ UNCHANGED backlog
          /\ lost' = IF Streaming THEN lost \cup {m} ELSE lost
    /\ UNCHANGED <<tables, subscribed, feed, phase, chat, cursor, seen, paged>>

(* The topic hands the event to every subscription there is.  That the     *)
(* outbox may send it again is to this subscription as a redelivery.       *)
Publish(m) ==
    /\ messages[m] # None /\ m \notin published
    /\ published' = published \cup {m}
    /\ \/ subscribed /\ backlog' = backlog \cup {m} /\ UNCHANGED lost
       \/ /\ ~subscribed /\ UNCHANGED backlog
          /\ lost' = IF Streaming THEN lost \cup {m} ELSE lost
    /\ UNCHANGED <<tables, subscribed, feed, phase, chat, cursor, seen, paged>>

(* What the codec keeps of a chat and of a message, for the client and for *)
(* the filters: it encodes them when they are written, and decodes them    *)
(* into new entities when the event arrives.                               *)
decodeChat(c) == [id |-> c, members |-> chats[c].members]

decodeChatMessage(m) == [id |-> m, chat |-> messages[m].chat]

ChatListEvent(m) == [chat |-> decodeChat(messages[m].chat)]

ChatMessageListEvent(m) ==
    [message |-> decodeChatMessage(m), visibleTo |-> chats[messages[m].chat].members]

(* The filters of subscribe of the two event buses. *)
InChatList(event) == Me \in event.chat.members

(* Mutant: the message stream is not filtered by member. *)
InMessageListOfAnyone(event) == event.message.chat = chat

InMessageList(event) == Me \in event.visibleTo /\ event.message.chat = chat

Passes(m) ==
    IF feed = "chat list" THEN InChatList(ChatListEvent(m))
                          ELSE InMessageList(ChatMessageListEvent(m))

ItemOf(m) ==
    IF feed = "chat list" THEN ChatListEvent(m).chat.id
                          ELSE ChatMessageListEvent(m).message.id

(* handleSubscriptionMessage: the event is put into the subject, and then  *)
(* acknowledged; when that fails it comes again.                           *)
Deliver(m) ==
    /\ m \in backlog
    /\ seen' = IF Passes(m) THEN seen \cup {ItemOf(m)} ELSE seen
    /\ backlog' \in {backlog, backlog \ {m}}
    /\ UNCHANGED <<tables, published, subscribed, feed, phase, chat, cursor, paged,
                   lost>>

(* A reconnect attempt of the replica creates the subscription anew, empty. *)
Resubscribe ==
    /\ Streaming /\ ~subscribed
    /\ subscribed' = TRUE
    /\ UNCHANGED <<tables, published, backlog, feed, client>>

(* The subscription of a running replica expires or is deleted; the stream *)
(* of the client stays open.                                               *)
SubscriptionGone ==
    /\ subscribed
    /\ subscribed' = FALSE
    /\ lost' = lost \cup backlog /\ backlog' = {}
    /\ UNCHANGED <<tables, published, feed, phase, chat, cursor, seen, paged>>

-----------------------------------------------------------------------------
(* The client *)

(* It opens the stream of the feed, if there is one, and then reads the    *)
(* feed from the top.                                                      *)
Open(c) ==
    /\ phase = "closed"
    /\ phase' = "paging" /\ chat' = c
    /\ UNCHANGED <<tables, published, feed, cursor, seen, paged, lost>>

(* The replica has a subscription, with what it has not handled yet, or    *)
(* serves without one after a failed attempt.                              *)
AttachStream ==
    \/ subscribed' = TRUE /\ backlog' \in SUBSET published
    \/ UNCHANGED stream

subscribeToChatList == feed = "chat list" /\ Open(None) /\ AttachStream

subscribeToChatMessageListChanges(c) ==
    feed = "chat messages" /\ Open(c) /\ AttachStream

OpenWithoutStream == ~HasStream /\ Open(None) /\ UNCHANGED stream

(* The next page, with a cursor from the second on. *)
Page(n) ==
    /\ phase = "paging"
    /\ LET page == Slice(Rows, cursor, n)
       IN  \/ /\ page = {}
              /\ phase' = "complete"
              /\ UNCHANGED <<cursor, seen, paged>>
           \/ /\ \E p \in page : IsLast(p, page) /\ cursor' = nextCursor(p)
              /\ seen' = seen \cup IdsOf(page)
              /\ paged' = paged \cup IdsOf(page)
              /\ UNCHANGED phase
    /\ UNCHANGED <<tables, published, stream, feed, chat, lost>>

getChatListSlice(n) == feed = "chat list" /\ Page(n)
getChatMessageListSlice(n) == feed = "chat messages" /\ Page(n)
getChatCandidateListSlice(n) == feed = "candidates" /\ Page(n)
getBlogListSlice(n) == feed = "blogs" /\ Page(n)

(* The client leaves, or its stream breaks because the replica stops, and  *)
(* it starts over with what it opens next.                                 *)
Close ==
    /\ phase # "closed"
    /\ phase' = "closed" /\ chat' = None
    /\ cursor' = {} /\ seen' = {} /\ paged' = {} /\ lost' = {}
    /\ subscribed' = FALSE /\ backlog' = {}
    /\ UNCHANGED <<tables, published, feed>>

(* Tables the feed does not read are left alone. *)
Write ==
    \/ feed = "candidates" /\ \E u \in Users : SignUp(u)
    \/ feed = "blogs" /\ \E b \in Blogs, at \in Times : CreateBlog(b, at)
    \/ /\ HasStream
       /\ \E m \in Messages, c \in Chats, at \in Times :
            \/ \E members \in MemberSets : CreateChat(c, members, m, at)
            \/ CreateChatMessage(c, m, at)

Subscribe ==
    \/ subscribeToChatList
    \/ \E c \in Chats : subscribeToChatMessageListChanges(c)
    \/ OpenWithoutStream

GetSlice(n) ==
    \/ getChatListSlice(n) \/ getChatMessageListSlice(n)
    \/ getChatCandidateListSlice(n) \/ getBlogListSlice(n)

Next ==
    \/ Write
    \/ \E m \in Messages : Publish(m) \/ Deliver(m)
    \/ Resubscribe \/ SubscriptionGone
    \/ Subscribe
    \/ \E n \in Limits : GetSlice(n)
    \/ Close

Spec == Init /\ [][Next]_vars

(* The outbox publishes, Pub/Sub delivers until it gets the ack, the       *)
(* client asks for the next page.                                          *)
Progress ==
    \/ \E m \in Messages : Publish(m) \/ Deliver(m)
    \/ \E n \in Limits : GetSlice(n)

FairSpec == Spec /\ WF_vars(Progress)

-----------------------------------------------------------------------------
(* Properties *)

(* Rows, subscriptions and the session of the client have the shape the    *)
(* code gives them; chats.last_message_at holds whole milliseconds.        *)
TypeOK ==
    /\ profiles \subseteq Users /\ published \subseteq Messages
    /\ chats \in [Chats -> ChatType \cup {None}]
    /\ messages \in [Messages -> MessageType \cup {None}]
    /\ subscribed \in BOOLEAN /\ backlog \subseteq published
    /\ subscribed => Streaming
    /\ ~subscribed => backlog = {}
    /\ feed \in {"chat list", "chat messages", "candidates", "blogs"}
    /\ blogs \in [Blogs -> Times \cup {None}]
    /\ phase \in {"closed", "paging", "complete"}
    /\ chat \in Chats \cup {None}
    /\ cursor \subseteq Row /\ IsFiniteSet(cursor) /\ Cardinality(cursor) <= 1
    /\ seen \subseteq Users \cup Chats \cup Messages \cup Blogs
    /\ paged \subseteq seen /\ lost \subseteq Users \cup Messages \cup Blogs

(* The events that put the item of a row on the stream of the client. *)
EventsOf(p) ==
    {m \in Messages : HasStream /\ messages[m] # None /\ ItemOf(m) = p.id}

(* The cursor is less exact than the order: when a page ends, further       *)
(* rows of that millisecond may be skipped, and names up to the lower case *)
(* JavaScript gives to the last name.                                      *)
CursorImprecise(p) ==
    \/ /\ feed = "chat messages"
       /\ \E m \in paged : ToDate(messages[m].at) = ToDate(p.key)
    \/ feed = "blogs" /\ \E b \in paged : ToDate(blogs[b]) = ToDate(p.key)
    \/ /\ feed = "candidates"
       /\ \E u \in paged : Lower[u] # ToLowerCase[u] /\ -p.key \in Lower[u] .. ToLowerCase[u]

Excused(p) ==
    \/ CursorImprecise(p)
    \/ EventsOf(p) \cap lost # {}
    \/ ~HasStream /\ IdOf(p) \in lost

(* What a client that has its stream open can see of the feed it has seen, *)
(* or will see on a later page, or the event is on its way to the stream - *)
(* whatever is written or moved to the front while it pages - unless the   *)
(* cursor skips it or its event was published while the replica had no     *)
(* subscription.                                                           *)
NothingMissed ==
    phase # "closed" =>
        \A p \in Rows :
            \/ IdOf(p) \in seen
            \/ phase = "paging" /\ p \in Below(Rows, cursor)
            \/ \E m \in EventsOf(p) : m \notin published \/ m \in backlog
            \/ Excused(p)

(* Pages and the stream show a user only what it is a member of. *)
OnlyMembersSee == phase # "closed" => seen \subseteq IdsOf(Rows)

(* What is left for the next pages has not been on a page yet, whatever    *)
(* was written in between.  (A chat may come again, when an older message  *)
(* takes it back down.)                                                    *)
NoRowTwice ==
    feed # "chat list" => IdsOf(Below(Rows, cursor)) \cap paged = {}

(* A client that keeps its stream open and reads on until a page is empty  *)
(* gets to see everything, but for the same reasons.                       *)
EventuallySeen ==
    phase # "closed" ~>
        phase = "closed" \/ \A p \in Rows : IdOf(p) \in seen \/ Excused(p)
===============================================================================
