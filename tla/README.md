# Formal models of social_app_backend

TLA+ models of the backend in `src/`, checked with TLC on small instances, and
theorems about them proved with TLAPS for every value of the constants.

    tlc -config MCFeeds.cfg MCFeeds            # and so on for each cfg
    tlapm FeedsProofs.tla                      # and so on for each proof module

Paths below are relative to the repository's root. `PROJECT.json` lists, for
each definition, the lines it translates, for each run its properties, and for
each property a mutation of the code's behaviour that breaks it.

## 1. The system

A NestJS API whose replicas share one Postgres database, Google Pub/Sub and an
object store. A replica keeps almost no state: what matters is in tables, in
tokens the clients hold, and in messages on their way. Concurrency is between
HTTP handlers, in one process or in several, at each `await`, and between them
and the background worker of every replica.

| Component | State | Operations | Hard parts | Correct when |
| --- | --- | --- | --- | --- |
| Accounts and refresh sessions, `src/features/auth`, guard in `src/app/auth` | `users`, `profiles`, `refresh_sessions`; tokens at clients | sign-up, sign-in, refresh (rotate), sign-out, check of an access token | checks made on a snapshot, updates by id; tokens with a resolution of a second; lost responses; expiry | one active session per device; a superseded token and a signed-out session stay dead; a client is not locked out |
| Chat writes, `src/features/chat` | `chats`, `chat_members`, `chat_messages` | create chat, create message | overlapping READ COMMITTED transactions, row locks, `now()` is the start of the transaction | pointer of a chat agrees with its messages; a message is announced exactly when stored; no deadlock |
| Outbox, `src/core/outbox` | `outbox_events`, a timer and a flush flag per replica | insert in a feature's transaction; claim, publish, mark | leases, crashes between send and mark, stale marks, paused ordering keys, shutdown | at least once; duplicates only for a reason; nothing forgotten |
| Pub/Sub runtime, `src/core/pubsub` | one subscription state per topic | open, reconnect with backoff, message, error, close, shutdown | events that arrive while another handler awaits; shutdown while opening | one live subscription per topic; none left behind |
| Live events, `src/features/chat/infrastructure/events`, controller | a subject per topic and replica, SSE streams | decode, filter by member, push | a replica without its subscription, redelivery, clients that page while events arrive | members see every message of their chats, others none |
| Chat reads, `src/features/chat/application/pagination` and readers | cursors at clients | pages of chats, messages and candidates; chat by members | milliseconds against microseconds, two kinds of lower case, lists that move between pages | no row is missed or shown twice; the chat of a member list is found |
| Blog, `src/features/blog`; storage, `src/core/storage` | `blogs`, objects in a bucket | create, list, read, redirect to the image | upload, insert, compensation, any of which may fail or have its effect and report an error | no blog without its image, no image without its blog, and an answer that is true |
| Migrations and deployment, `scripts/migrate-database.ts`, `database-migrations`, `deploy`, `.github/workflows/deploy-gke.yml` | `schema_migrations`, the Job, the Deployment | apply pending files, replace the Job, roll out | a Pod of the Job before that still migrates; the old release serves while the schema changes | each file applied once, in order; the new release on a full schema |
| Error mapping, `src/core/presentation/filters` | a table of error classes | an error to an answer and a report | errors the table does not have | only the server's faults are 500 and reported |
| Topic bootstrap, configuration, database pool, wiring | none to speak of | create topics by hand, read the environment | | |

How they interact: the chat transactions insert outbox rows; every replica's
outbox worker publishes due rows through the Pub/Sub runtime; the topic fans
them out to the subscription of each replica, whose event bus feeds the SSE
streams. The guard reads the refresh session behind every access token. A
release replaces the schema under the replicas and then the replicas.

## 2. The modules

| Module | Models |
| --- | --- |
| `RefreshSessions`, `RefreshSessionsProofs` | accounts, refresh sessions and the requests in flight |
| `DurableDelivery` | abstract: what an outbox promises the writer of an event |
| `Outbox`, `OutboxProofs` | the outbox table and the publisher of every replica; implements `DurableDelivery` |
| `ChatStore` | abstract: what the tables and topics of the chats promise their readers |
| `ChatWrites`, `ChatWritesProofs` | the transactions that create chats and messages, and the look-up of a chat by its members; implements `ChatStore` |
| `HandlerStreams` | abstract: what the Pub/Sub runtime promises the handler of a topic |
| `PubSubRuntime`, `PubSubRuntimeProofs` | the subscription of each topic in one replica, from bootstrap to shutdown; implements `HandlerStreams` |
| `Keyset` | keyset pagination as operators on sets of rows |
| `Feeds`, `FeedsProofs` | a client that reads the pages of a feed and keeps its stream open, while others write; its writers are those of `ChatStore`, its publishing that of `DurableDelivery` |
| `ApiErrors` | from an error thrown to the answer of the API |
| `Blogs`, `BlogsProofs` | the creation of blogs in two stores |
| `SchemaUpgrade` | abstract: what a release promises the database and the clients |
| `Rollout`, `RolloutProofs` | migration Job and Deployment of a release; implements `SchemaUpgrade` |
| `Release`, `ReleaseProofs` | `Rollout` and `Blogs` composed |
| `MC...` | the instances for TLC |

`Feeds` extends `Keyset`; `Blogs` extends `ApiErrors`; `Release` extends
`Rollout` and `Blogs` and shares the schema and the replicas between them. The
abstract modules tie the components together: what `ChatWrites` and `Outbox`
implement, `Feeds` takes for its environment, and a theorem says that it takes no
more and no less (section 4).

### RefreshSessions

`accounts` is `users` joined with `profiles`, by e-mail; `sessions` is
`refresh_sessions`. `req[r]` is a handler: its phase names the last await it
returned from, and its fields are the local variables that are still needed. A
handler is cut into actions where another one can come between: refresh is
`RefreshBegin` (token verified, row read), `RefreshIssue` or `RefreshReject`
(checks on the snapshot), `RefreshRotate` (the update) and `Respond`. A
transaction is one action, because its first write locks what it decides on.
`LoseResponse` and `Abandon` are the lost connection, the failing statement and
the stopped replica. `delivered` and `lost` record what became of the tokens;
they are not state of the program.

A token is the record of its claims. Signing is deterministic and `iat` is in
seconds, so two tokens of one session issued in one second are equal, as they
are in the code. `token_hash` is the token itself, as the HMAC is injective for
our purpose. Passwords are not modelled: a sign-in that reaches the token step
had the right one.

### Outbox and DurableDelivery

Events are numbered in the claim's order (`created_at`, `id`) and committed in
any order. Time is relative to the present: `wait[e]` is `next_attempt_at` less
now. A tick is longer than the poll interval, so time passes only when no idle
publisher could claim a due row. `batch`, `cur` and `phase` are the local state
of `flushDueEvents`; an event stays in `batch` with the `attempts` the claim
returned until it is settled. `SendFails` pauses the ordering key in that
process's client, `SendRefused` is each later publish on the key: the topic is
made with `messageOrdering` and nothing calls `resumePublishing`. `Stop` is the
shutdown hook, after which a flush in progress runs on until `Exit`. `skip
locked` is the choice of which rows held by others are locked at the moment of
the claim. `sends`, `excused` and `overdue` are history: how often the topic
received an event, whether one of the causes that may duplicate it occurred, and
which events of its batch an instance still has although their row came due
again. A row comes due when the lease runs out, or earlier when a late
`markEventFailed`, which updates by id, has moved its next attempt.
`OnlyLateMarksInterfere` says that nothing else comes between an instance that
has an event in time and the event's row. Its exception does happen: in the run,
an instance that sent an event after its lease marks the row that another one
has claimed since.

The refinement maps rows to `pending` and `settled` and `sends > 0` to
`delivered`; a row settled before its event was delivered has no abstract step.

### ChatWrites

`chats` joins `chats` and `chat_members`. `tx[r]` is a handler and its open
transaction. The creation of a chat writes only rows no other transaction can
see before its commit, so after the member check it is one action. The creation
of a message is three: the insert, which takes KEY SHARE on the chat row through
the foreign key; the update, which takes NO KEY UPDATE and waits for others that
hold it; the commit, which makes message, pointer and outbox rows visible.
Postgres' `now()` is the start of the transaction; a `Date` keeps milliseconds
(`ToDate`), so `last_message_at` and the event's time are cut and `created_at`
is not. Member ids are raw spellings with `Normal` giving the id each one
becomes; exact repetitions are gone (a set), two spellings of one id are not, as
in `ChatMembers.from`. `findByMemberIds` is the comparison of the sorted list
of ids with `array_agg(member_id order by member_id)`: sets of members, of the
same length. `overlapped` is history: the chats two of whose new messages were on
their way at the same time.

The refinement forgets transactions, locks and authors, and keeps of a message
its chat and time and of an outbox row its topic, message and audience. Every
write of `ChatStore` is one step; the commit is the step it maps to. What
`ChatStore` does not promise is an order of the times.

### PubSubRuntime

The fields of a `TopicSubscriptionState` are `current`
(`PubSubSubscription`), `delay`, `timer` and `opening`, one function of the
topic each; `states` is the key set of the map. A Subscription object also
stands for the attempt that made it: `stage` says which await
`ensureHandlerSubscription` has reached with it (`asking`, `creating`, `failed`,
`ready`), that it is current (`open`), or that an error or close handler, or an
open that came too late, awaits its `close()` (`closing`). `exists()` and
`createSubscription()` give different objects in the code, of which one is kept;
the model has one. A handler is cut at its awaits, since JavaScript runs nothing
else between two of them. `StreamFails` is both `handleSubscriptionFailure` and
`handleSubscriptionClose`, whose bodies are the same, up to the await in
`disposeSubscription`, and `Closed` what comes after. `onModuleDestroy` visits
the entries in any order, also those bootstrap adds while it runs; `disposal` is
where its own `disposeSubscription` is. `remote` is what exists at Pub/Sub. The
topic map and the dispatch of messages are not part of it.

`excused` is history: the topics shutdown found opening, and those whose delete
failed. The refinement maps the objects that have listeners to the streams of the
topic they were opened for; attempts, timers and remote resources are not seen.

### Keyset and Feeds

A row is its sort key and its id; every reader orders by the two descending, but
for the candidates, whose ascending order is that of the negated values. A
`cursor` is what `encodeCursor` makes of the last row of a page and
`decodeCursor` reads back. Here lie the differences between a list and its
cursor: a `Date` keeps milliseconds of a `timestamptz`, `toLowerCase` of
JavaScript is not `lower` of Postgres, and the key of the chat list,
`last_message_at`, is a `Date` while the key of its cursor is the creation of the
last message.

One client, of user `Me`, is followed through one session with one of the four
feeds: `subscribeTo...` opens the SSE stream where there is one, `Page` is a
request of the next page by `getChatListSlice` and the others, `Close` ends the
session. The client opens the stream first and then reads from the top; it asks
for pages until one is empty. `subscribed` and `backlog` are the Pub/Sub
subscription of the replica that serves the stream; `AttachStream` is the state
it may be in then. `Publish` is the outbox worker and the topic's fan-out,
`Deliver` is `handleSubscriptionMessage`: decode, put into the subject, filter,
ack; a message may be delivered again. `Resubscribe` and `SubscriptionGone` are
what `PubSubRuntime` shows of the replica. Writers are reduced to what
`ChatWrites` shows of them: a message, its chat's pointer and its outbox rows
appear together, in any order of the times at which the transactions began.
Tables that the feed in question does not read are left alone.

`seen`, `paged` and `lost` are history: what the client got, what of it by pages,
and what no event or page will bring it because the replica had no subscription
when its event was published, or because the feed has no stream and the row
appeared behind the cursor.

### ApiErrors and Blogs

`catch` is the global filter: a Nest `HttpException` keeps its status, any other
error goes through the table of `ErrorToExceptionMapper` or becomes a 500 that is
reported to Sentry. A post is named by the id `randomUUID` gives the blog. Its
`phase` is the call `createBlog` awaits: the save of the image (not inside the
`try`), the insert of the row, the delete of the image after a failed insert.
Each may fail with or without effect; the process may die at each. `Defects` are
the things that may be wrong with a submission, each with what the code throws
for it. `orphans` and `unheard` are history: the posts for which a save or delete
failed or a process died, and those whose insert committed and reported an error.

### Rollout and Release

The workflow deletes the Job, applies it again, waits for `complete`, applies the
Deployment. Deleting a Job does not wait for its Pods, and a workflow that timed
out may be run again while one still migrates. A Pod is `main` of
`migrate-database.ts`: it reads `schema_migrations` once and then applies what is
missing, file by file, each with its name in one transaction, which the primary
key refuses if the name is there already. `effects` counts how often the SQL of a
file was committed. Kubernetes brings up the new Pod before it takes down the old
one, so both releases serve on the new schema for a while. The refinement maps
the number of recorded files to the version of `SchemaUpgrade`, `effects` and
`serving` to themselves; Job, workflow and Pods are not seen.

In `Release` a request stays with the replica that accepted it; an insert by the
old release fails once a file in `Breaking` is applied (003 renames a column of
`blogs`), a replica that goes takes its requests with it.

## 3. What is checked

| Run | Shows | Bounds |
| --- | --- | --- |
| `refresh_sessions` | types; one active session per device; a row holds a token of its own and expires with it; the token a session wants was delivered, is on its way or was lost; no session without account; a dead session and a superseded token stay dead; only a sign-out that names it ends a live session | 2 handlers, 2 user ids for 1 e-mail, 1 device, 2 sessions, clock 0..3, tokens live 2 seconds |
| `refresh_old_token` | violated: "the old refresh token should no longer be accepted" | 1 handler, 1 session |
| `refresh_revoked` | violated: "future refresh attempts against the same session are rejected" | 2 handlers, 1 session |
| `outbox` | types; no duplicate without a cause; while an instance has an event in time, only the late mark of another one changes its row; `DurableDelivery`; a committed event is published unless its key is paused | 2 replicas, 2 events on 2 keys, batch 2, lease 2, delays 1 and 3, 2 faults |
| `outbox_paused` | violated: "retries transient failures with backoff" | 1 replica, 1 event, 1 fault |
| `chat_writes` | types; a chat points at a message of its own by a member, at its time, and at its newest one unless two were sent at a time; outbox rows are exactly the announcements of the stored messages; `ChatStore`; the chat of a list of members is found; who waits for a row lock waits for one that waits for nobody; every request ends | 2 handlers, 2 chats, 3 messages, 2 of 3 users registered, 3 spellings, clock 0..2, 2 ticks in a millisecond |
| `chat_newest_message` | violated: "Point the chat at its newest message" | the same with 1 chat |
| `chat_duplicate_members` | violated: "Duplicate members are removed" | the same with 1 chat |
| `pubsub_runtime` | types; while running, a topic has exactly one of timer, attempt and current object; `HandlerStreams`; nothing runs on after a shutdown; a remote subscription is left behind only if the topic was opening or the delete failed; in the end the replica stays subscribed | 2 topics, 3 objects, 3 faults, delays 2, 4, 5 |
| `pubsub_left_behind` | violated: "Closes and deletes the ephemeral subscriptions during Nest shutdown" | 1 topic, no fault |
| `feeds` | types; a client misses nothing of its feed but for a named cause; sees nothing of others; no row comes on two pages; it gets to see everything in the end | each of the 4 feeds; 3 users with 2 names, 2 chats, 3 messages (2 in the feed of messages), 3 blogs, pages of 1 and 2, 2 ticks in one millisecond |
| `release` | types; migrations in order and once; the new release on a full schema only; a blog has its image, an image its blog, each but for a named cause; answers are true - while a release is rolled out; `SchemaUpgrade` | 3 files of which 2 are new and 1 breaks the old release, 2 Pods, 2 posts |

Why the bounds are enough to be interesting. Sessions: two handlers on one
device produce every pair of racing operations, and a clock of three seconds
with a life of two lets a token expire, its session be replaced by a sign-in,
and a stale rotation come after. The second user id lets two sign-ups race for
the e-mail. Outbox: a lease of two ticks runs out within a batch of two; delays
of one and three lie on both sides of the lease; two faults make a crash after a
failed mark or a lost claim. A batch can hold all events there, so TLC does not
see the limit of a batch bite; the proofs cover every batch size. Chats: two
transactions on one chat race for the pointer and the lock while the third
message id leaves one to be stored already; two ticks in a millisecond separate
the order of messages from that of their Dates. Pub/Sub: three objects for two
topics leave one to spare for a second attempt or stream; three faults make a
failed create, a lost answer, a broken stream and a failed delete follow each
other in any choice of three; the maximal delay is no power of two times the
first. Feeds: with three rows and pages of one or two, a page ends before, in and
after the rows of one millisecond or name, and a row can be written or moved on
either side of the cursor; one of the chats may be of others. Release: two new
files leave a Pod between them while another starts; two Pods are the one of the
Job and one left behind; two posts meet different releases.

Deadlock is checked in `feeds`, where the client may always leave or come back.
The other configurations say `CHECK_DEADLOCK FALSE`: the clocks and the supplies
of ids are bounded, a replica that shut down stops, and a release whose posts
have all ended has nothing left to do. That a handler is not stuck is a property
of its own (`EveryRequestEnds`, `PublishedUnlessPaused`, `StaysSubscribed`,
`EventuallySeen`). Interchangeable values are declared symmetric where the
configuration uses SYMMETRY; no run with a liveness property does.

Fairness. Outbox: `WF` on the tick, and for each replica on claiming, on the
work of a flush, on the end of a shutdown and on the restart. The interval fires
each second, calls to Pub/Sub and Postgres return or fail, Kubernetes replaces a
stopped pod. Writers and faults owe nothing and faults are finite. Chats: `WF`
on answers and commits, `SF` on the update of the chat row, because Postgres
queues the waiters of a row lock so a waiting update is not overtaken for ever.
Callers, the clock and failures are not fair. Pub/Sub: `WF` on bootstrap, on
each reconnect timer, on the calls of each attempt and each close, which return
or fail, on shutdown once begun, and on the error event of a stream whose
subscription is gone. A shutdown need not come, and faults are finite. Feeds:
`WF` on publishing, delivering and asking for the next page taken together: the
outbox polls, Pub/Sub delivers until it gets the ack, the client reads on. The
replica need not get its subscription back. `Release` has no liveness property:
an operator may give up.

### Divergences found

1. `refresh_old_token`: within a second the rotated token is the same string as
   the one presented, and stays accepted.
2. `refresh_revoked`: `rotate` updates by id and clears `revoked_at`; a sign-out
   that commits between the read and the update is undone. What holds instead,
   and is proved, is `DeadSessionStaysDead`: once no refresh in flight has seen
   the session alive, it never returns.
3. `outbox_paused`: one publish error pauses the chat's ordering key until the
   process is replaced. What holds instead is `PublishedUnlessPaused`.
4. `chat_newest_message`: the last update, not the newest message, wins. What
   holds instead, and is proved, is `PointerConsistent`, and that a chat points at
   its newest message as long as no two of its messages were on their way at a
   time (`NewestUnlessOverlapped`).
5. `chat_duplicate_members`: repetitions are removed before normalization. That
   a second spelling is the only registered list refused, and the only one whose
   chat is not found, is proved (`MemberCheckExact`, `LookUpExact`).
6. `pubsub_left_behind`: shutdown does not wait for an open in flight. It deletes
   the subscription by name, the create succeeds after that, and the branch that
   notices closes the new object locally. What holds instead, and is proved, is
   `LeftBehindOnlyIfExcused`.

Met while modelling, and stated as the excuses of properties that hold:

- A page of messages or blogs that ends within a millisecond skips the rest of
  it, and a page of candidates may skip names whose lower case JavaScript makes
  longer (`CursorImprecise`). No doc promises otherwise.
- An event that is published while the replica has no subscription never comes to
  its open streams, which are not ended either (`lost`); the client has to
  reload.
- An image whose type is not recognized at all makes `blog-image.ts:47` read
  `mime` of undefined: the TypeError is answered with 500 and reported, where
  `blog-image.ts:28-29` documents `InvalidBlogImageError`. The
  `BlogPosterNotFoundError` of `create-blog.use-case.ts:50` is thrown nowhere.
- The insert of a blog may commit and report an error: the image of a stored blog
  is then deleted (`unheard`).
- `@ApiStandardErrorResponses` documents 404 for the messages and events of a
  chat one is no member of; the code answers with an empty page or stream.

## 4. What is proved

The proof modules have the same argument: an inductive invariant `IInv`, one
lemma per action that preserves it conjunct by conjunct, `Init => IInv`,
`IInv /\ [Next]_vars => IInv'`, and the theorems by temporal logic. Only the
named assumptions of the models are used.

**RefreshSessions** (`TimeAssumption`, `NoneAssumption`). The checked invariants
are not inductive alone. `RequestsWellFormed` says what a handler holds in each
phase; `FreshIds` and `FreshUsers` that the ids of a sign-in or sign-up in
flight are nobody else's, without which an insert could overwrite a row;
`TokensNameSessions` that a token a client has or is about to have names a row
of its own user, without which a rotation could give a row another user's token.
The action properties follow from `IInv` with two lemmas on what one step may do
to a row (`RowChanges`) and to a refresh in flight (`RefreshChanges`). Theorems:
`TypeCorrectness`, `OneActiveSession`, `RowsMatchTokens`, `TokensAccountedFor`,
`NoOrphans`, `DeadSessions`, `SupersededTokens`, `LiveSessions`.

**Outbox** (`CountsAssumption`, `DelaysAssumption`, `KeyOfAssumption`,
`NoneAssumption`). `OneInTime` says that the row of an event that an instance has
in time is not due, and that all others that still have the event are overdue with
it; this makes `OnlyLateMarksInterfere` a theorem, whatever the leases and delays,
as long as no delay is zero. For duplicates `LeaseExcludes` is the heart: an event for which none of the
causes of a duplicate has occurred is in one batch at most, as long as its lease
runs. From it `SentOnce`: it was sent once at most, and then its row is published
or about to be. `CurrentHeld` and `HeldCommitted` say that an instance works on
an event of its batch and that only committed rows are claimed; they are what the
step simulation of `DurableDelivery` needs, in which `Settle` requires that the
event was delivered. Theorems: `TypeCorrectness`, `Once`, `LeaseRespected`,
`Implementation`.

**ChatWrites** (`UsersAssumption`, `TimeAssumption`, `NoneAssumption`).
`TransactionsWellFormed` and `FreshIds` say what an open transaction holds;
`MessagesHaveChats` that a stored message's chat exists, so that a new chat
changes no earlier announcement. Two more inductive invariants stand beside
`IInv`. `Ordered` is for the times of messages: nothing is stored with a time to
come (`InThePast`), and the chat of a transaction that is not alone on it is in
`overlapped` (`AloneUnlessNoted`), so that where it is not, the message about to
be committed is the newest. `OneUpdatesRow` is for the locks: one transaction at
most has updated a chat's row, because an update blocks an update; so the
transaction that another waits for has all the locks it needs (`NoLockCycle`).
`MemberCounts` counts a list of ids: it has as many members as ids, unless one is
spelled twice. Hence `MemberCheckExact`, the reason the member check is sound
although it only counts, and `LookUpExact`. The simulation of `ChatStore` is the
identity on all steps but the two commits, each of which is one `Write`.
Theorems: `TypeCorrectness`, `PointersConsistent`,
`OutboxMatchesMessages`, `ListedChatsAreFound`, `MemberCheckExact`,
`LookUpExact`, `NewestWhenAlone`, `NoLockCycle`, `WritesAreAtomic`.

**PubSubRuntime** (`DelaysAssumption`, `NoneAssumption`). `OneRecoveryPath` needs
`AttemptsExclude`: an attempt keeps `opening` set and no topic has two, so the
attempt that resets the flag is the last one. `ObjectsHeld` ties the stage of an
object to the topic it is current for; `UnbootedUntouched` says that nothing
happens for a topic before bootstrap comes to it. `ShutdownProgress` says what
is gone of the topics shutdown has visited, and that an attempt still under way
for one of them is excused, which is why a create that succeeds afterwards is
the only way to leave something behind. The simulation of `HandlerStreams` needs
that an attempt under way excludes a current object of its topic, for `Attach`,
and that shutdown has come to every topic with listeners, for `Close`. Theorems:
`TypeCorrectness`, `RecoveryPath`, `Streams`, `Gated`, `Quiet`, `LeftBehind`.

**Feeds** (`IdsAssumption`, `LimitsAssumption`, `TimeAssumption`,
`NoneAssumption`; in particular JavaScript's lower case of a name is not before
that of Postgres). The checked invariants together are nearly inductive; they
need `Linked` (chats, newest messages and events refer to one another, and
`last_message_at` is the Date of the newest message, so that the cursor of the
chat list is exact), `Quiet` (a closed client has nothing) and `CursorShape`. The
lemmas about `Keyset` carry the rest: what is below a cursor that is not above
the last row is below that row, and what is cut off between them is in its
millisecond or its name. A chat that moves to the front has the event of its
new message to cover it. Three theorems are about pages alone, for any finite set
of rows: `PageSize` (a page is full unless it is the last), `PagesPartition` (with
the last row as cursor, the next pages have just what a page left), and from
them `ExactPagesTile`: in the list of chats no page skips or repeats what the
one before it left, and in the other feeds none would if Dates had the precision
of the database and lower case were one. Three tie the model to the others:
`WritersFollowStore` and `EveryWriteIsModelled` say that the writers of `Feeds`
are `ChatStore`, no more and, within `MaxMessages`, no less; and
`PublishingFollowsOutbox` that events come as `DurableDelivery` has them. So what
is shown of a client holds behind the transactions of `ChatWrites` and the outbox
of `Outbox`. Theorems: `TypeCorrectness`, `NothingIsMissed`, `MembersOnly`,
`NoRepetition`, and these six.

**Rollout** (`RolloutAssumption`). `TodoCovers`: what a script has still to do
covers whatever is not applied, whichever other Pod applies it meanwhile; so the
least of it is the next file (`AppliedInOrder`), and a script with nothing left
leaves a full schema behind (`DeployedAfterJob`). As the applied files are the
first ones, their number is a version (`VersionOfInterval`), and each file
applied is one `Migrate` of `SchemaUpgrade`, whichever Pod does it. Theorems:
`RolloutTypeCorrectness`, `InOrder`, `AppliedExactlyOnce`, `FullSchema`,
`Sequential`.

**Blogs** (`WaitingAssumption`). `PhaseTells` says what a post in each phase has
stored; that keys of images are injective keeps the posts apart. Lemmas compute
the answers of `catch`. Theorems: `BlogsTypeCorrectness`, `ImagesOfBlogs`,
`NoOrphans`, `TrueAnswers`.

**Release** (also `NoReleaseAssumption`). `Parts`: a behaviour of the whole is one
of each part, so their theorems carry over; `TypeCorrectness` adds that a post in
flight has a replica that serves, `RolloutSafety`, `BlogSafety` and
`ReleaseIsOneUpgrade` are the properties the run checks.

Only model-checked: the liveness properties `EveryRequestEnds`,
`PublishedUnlessPaused`, `StaysSubscribed` and `EventuallySeen` (the prover does
not handle liveness under fairness). No theorem is about what a recursive
definition computes, and no model has one.

## 5. Not modelled

The API and Postgres share one clock: a skew between them is not modelled.
Postgres is taken to give READ COMMITTED, row locks, unique indexes and rollback
as documented; Pub/Sub to accept or refuse a message, to pause an ordering key
after an error, and to deliver a message to every subscription that exists until
it is acknowledged. Deleting users, chats or blogs is not an operation of the
code. Contents, password hashes, the access token's own expiry, the limits of
Multer and OpenAPI are left out. In `Feeds` the order in which events reach a
stream is not constrained, and the client is one that opens its stream before it
reads; a payload that the codec rejects can only come from another version of the
code and is not modelled. The cursor's `new Date(0)` for a chat without a last
message (`get-chat-list-slice.use-case.ts:50`) is left out: a chat is created
together with its first message. That a
candidate comes on two pages because JavaScript's lower case of its name sorts
before that of Postgres is excluded by `IdsAssumption`. `Rollout` has one run of the workflow at a time, though
`deploy-gke.yml` does not exclude two; migrations other than 003 are taken not to
disturb the old release's blogs, and what the old release reads of blogs once 003
has renamed their column is left out. `deploy-dev.yml`, which starts the new
backend before it migrates, is another environment and not covered. `init-pubsub-topics.ts` is run by hand and may be
run again; it, the database pool, the Sentry set-up, configuration and wiring have
no model: they have no state of their own to get wrong, or none a model would say
more of than the code. The modules of the HTTP surface other than the error
filter (DTOs, OpenAPI decorators, cookies) are left out.

Bounded in the models and not in the code: the clocks (`MaxTime`), the ids, in
`Feeds` `MaxMessages`, and in `Outbox` `MaxAttempts` (`attempts` saturates there,
after the last retry delay, where nothing depends on it any more) and
`MaxFaults`, in `PubSubRuntime` `MaxFaults`. There the objects are reused once
nobody holds them, calls and `close()` are taken to return or fail at some time,
and the closing of the client is one step with the end of the shutdown. In
`Outbox` `sends` and in `Rollout` `effects` stop at 2, which stands for more.

## 6. What could follow

1. A clock skew between Postgres and the API in `RefreshSessions`.
2. The order of a chat's events from the outbox to the stream, and a client that
   applies them.
3. Two overlapping runs of the workflow, with different releases.
4. An abstract account of a refresh session, which `RefreshSessions` implements
   but for the refreshes that overlap a sign-out, as `ChatStore` is for the chats;
   and one of a post of `Blogs`, with its two stores as one.
