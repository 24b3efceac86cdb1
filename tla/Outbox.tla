-------------------------------- MODULE Outbox --------------------------------
(***************************************************************************)
(* The transactional outbox: rows of outbox_events are inserted by the     *)
(* transactions of the features, and in every replica of the API an        *)
(* OutboxPublisherService claims due rows, publishes them to Pub/Sub and   *)
(* records the outcome (src/core/outbox).                                  *)
(*                                                                         *)
(* Events are numbered in the order (created_at, id) of the claim; they    *)
(* may be committed in any order, because created_at is the start of the   *)
(* writer's transaction.                                                   *)
(*                                                                         *)
(* Time is relative: wait[e] is next_attempt_at minus the present, in      *)
(* ticks, 0 when the row is due.  A tick is longer than the poll interval, *)
(* so no tick passes while an idle publisher could claim a due row.        *)
(***************************************************************************)
EXTENDS Integers, FiniteSets, Sequences

CONSTANTS
    Instances,    \* replicas of the API
    NumEvents,    \* events 1 .. NumEvents
    Keys,         \* ordering keys, a topic each
    KeyOf,        \* the key of each event
    BatchSize,    \* OUTBOX_BATCH_SIZE
    Lease,        \* OUTBOX_CLAIM_LEASE_MS, in ticks
    RetryDelays,  \* OUTBOX_RETRY_DELAYS_MS, in ticks
    MaxAttempts,  \* bound of attempts, which saturates
    MaxFaults,    \* bound of failed calls, crashes and shutdowns
    None          \* no event at hand

Events == 1 .. NumEvents

ASSUME CountsAssumption ==
    NumEvents \in Nat /\ BatchSize \in Nat \ {0} /\ MaxFaults \in Nat
ASSUME KeyOfAssumption == KeyOf \in [Events -> Keys]
ASSUME DelaysAssumption ==
    /\ Lease \in Nat \ {0}
    /\ RetryDelays \in Seq(Nat \ {0}) /\ RetryDelays # <<>>
    /\ MaxAttempts \in Nat /\ MaxAttempts >= Len(RetryDelays)
ASSUME NoneAssumption == None \notin Events

VARIABLES
    status,    \* of each row: absent, pending (published_at is null), published
    attempts,  \* outbox_events.attempts
    wait,      \* ticks until outbox_events.next_attempt_at
    sends,     \* how often the topic received the event: 0, 1, or 2 for more
    polling,   \* the instances whose interval runs
    phase,     \* where the flush of each instance is
    batch,     \* what it has claimed and not settled: attempts read, or 0
    overdue,   \* events whose row came due again while it had them
    cur,       \* the event it is publishing
    paused,    \* keys its Pub/Sub client refuses until resumePublishing
    faults,    \* faults that may still happen
    excused    \* events for which a second delivery has an excuse

rows == <<status, attempts, wait>>
holds == <<batch, overdue>>
publishers == <<polling, phase, holds, cur, paused>>
ghosts == <<faults, excused>>
vars == <<status, attempts, wait, sends, polling, phase, batch, overdue, cur,
          paused, faults, excused>>

Phases == {"idle",        \* no flush in progress
           "publishing",  \* about to publish the next event of the batch
           "sent",        \* Pub/Sub accepted cur, about to mark it published
           "failed",      \* publishing cur failed, about to mark it failed
           "down"}        \* no process

-----------------------------------------------------------------------------
NoBatch == [e \in Events |-> 0]

Batch(i) == {e \in Events : batch[i][e] > 0}

(* What instance i has while its lease, or what a late mark left of it, runs. *)
InTime(i) == Batch(i) \ overdue[i]

HeldByOthers(i) == {e \in Events : \E j \in Instances \ {i} : e \in Batch(j)}

(* Mutant: the publisher gives up on a row after the last retry delay. *)
DueUntilGivenUp ==
    {e \in Events : status[e] = "pending" /\ wait[e] = 0 /\ attempts[e] < MaxAttempts}

Due == {e \in Events : status[e] = "pending" /\ wait[e] = 0}

(* order by created_at, id limit BatchSize *)
Oldest(S) == {e \in S : Cardinality({o \in S : o < e}) < BatchSize}

NextAttempt(e) == IF attempts[e] < MaxAttempts THEN attempts[e] + 1 ELSE MaxAttempts

(* Mutant: the delay grows with the attempts, with no last step.           *)
getRetryDelayNoCap(a) == a * (Lease + RetryDelays[Len(RetryDelays)])

(* Mutant: the first failure is retried at once. *)
getRetryDelayFromSecond(a) ==
    IF a = 1 THEN 0
    ELSE RetryDelays[IF a - 1 < Len(RetryDelays) THEN a - 1 ELSE Len(RetryDelays)]

getRetryDelay(a) == RetryDelays[IF a < Len(RetryDelays) THEN a ELSE Len(RetryDelays)]

Received(e) == [sends EXCEPT ![e] = IF @ < 2 THEN @ + 1 ELSE 2]

(* A fault happens, and may excuse a second delivery of the events in S.   *)
Fault(S) ==
    /\ faults > 0
    /\ faults' = faults - 1
    /\ excused' = excused \cup S

(* cur is settled: the loop of flushDueEvents goes on, or ends. *)
NextOfBatch(i) ==
    /\ batch' = [batch EXCEPT ![i][cur[i]] = 0]
    /\ overdue' = [overdue EXCEPT ![i] = @ \ {cur[i]}]
    /\ cur' = [cur EXCEPT ![i] = None]
    /\ phase' = [phase EXCEPT ![i] = IF Batch(i) = {cur[i]} THEN "idle" ELSE "publishing"]

-----------------------------------------------------------------------------
Init ==
    /\ status = [e \in Events |-> "absent"]
    /\ attempts = [e \in Events |-> 0]
    /\ wait = [e \in Events |-> 0]
    /\ sends = [e \in Events |-> 0]
    /\ polling = Instances
    /\ phase = [i \in Instances |-> "idle"]
    /\ batch = [i \in Instances |-> NoBatch]
    /\ overdue = [i \in Instances |-> {}]
    /\ cur = [i \in Instances |-> None]
    /\ paused = [i \in Instances |-> {}]
    /\ faults = MaxFaults
    /\ excused = {}

(* insertOutboxEvent, when the transaction around it commits. *)
Commit(e) ==
    /\ status[e] = "absent"
    /\ status' = [status EXCEPT ![e] = "pending"]
    /\ UNCHANGED <<attempts, wait, sends, publishers, ghosts>>

(* What claimDueEvents may select for instance i, which is polling and has *)
(* no flush in progress: the oldest due rows, except rows that a statement *)
(* of another instance has locked.                                         *)
Claimable(i) ==
    IF phase[i] = "idle" /\ i \in polling
    THEN {Oldest(Due \ locked) : locked \in SUBSET HeldByOthers(i)} \ {{}}
    ELSE {}

(* Mutant: the rows are claimed without a lease. *)
ClaimRowsNoLease(claimed) ==
    /\ attempts' = [e \in Events |-> IF e \in claimed THEN NextAttempt(e) ELSE attempts[e]]
    /\ UNCHANGED wait

ClaimRows(claimed) ==
    /\ attempts' = [e \in Events |-> IF e \in claimed THEN NextAttempt(e) ELSE attempts[e]]
    /\ wait' = [e \in Events |-> IF e \in claimed THEN Lease ELSE wait[e]]

(* flushDueEvents up to the first publish.  A poll that finds no due row   *)
(* changes nothing, and a claim that fails is rolled back.                 *)
Claim(i) ==
    /\ \E claimed \in Claimable(i) :
        /\ ClaimRows(claimed)
        /\ batch' = [batch EXCEPT ![i] =
                        [e \in Events |-> IF e \in claimed THEN NextAttempt(e) ELSE 0]]
    /\ phase' = [phase EXCEPT ![i] = "publishing"]
    /\ UNCHANGED <<status, sends, polling, overdue, cur, paused, ghosts>>

(* The claim commits but the instance never learns of it: flushDueEvents   *)
(* logs the error, the rows wait for the lease.                            *)
ClaimLost(i) ==
    /\ \E claimed \in Claimable(i) : ClaimRows(claimed)
    /\ Fault({})
    /\ UNCHANGED <<status, sends, publishers>>

(* publishClaimedEvent, send: any event of the batch may come next, since  *)
(* "returning" promises no order.                                          *)
SendOk(i) ==
    /\ phase[i] = "publishing"
    /\ \E e \in Batch(i) :
        /\ KeyOf[e] \notin paused[i]
        /\ sends' = Received(e)
        /\ cur' = [cur EXCEPT ![i] = e]
    /\ phase' = [phase EXCEPT ![i] = "sent"]
    /\ UNCHANGED <<rows, polling, holds, paused, ghosts>>

(* Pub/Sub reports an error, whether the topic has the message or not, and *)
(* the client pauses the ordering key.                                     *)
SendFails(i) ==
    /\ phase[i] = "publishing"
    /\ \E e \in Batch(i) :
        /\ KeyOf[e] \notin paused[i]
        /\ cur' = [cur EXCEPT ![i] = e]
        /\ paused' = [paused EXCEPT ![i] = @ \cup {KeyOf[e]}]
        /\ \/ sends' = Received(e) /\ Fault({e})
           \/ UNCHANGED sends /\ Fault({})
    /\ phase' = [phase EXCEPT ![i] = "failed"]
    /\ UNCHANGED <<rows, polling, holds>>

(* The client refuses a paused key at once. *)
SendRefused(i) ==
    /\ phase[i] = "publishing"
    /\ \E e \in Batch(i) :
        /\ KeyOf[e] \in paused[i]
        /\ cur' = [cur EXCEPT ![i] = e]
    /\ phase' = [phase EXCEPT ![i] = "failed"]
    /\ UNCHANGED <<rows, sends, polling, holds, paused, ghosts>>

(* Mutant: the error of send is swallowed before the mark. *)
markEventPublishedAnyway(i) ==
    /\ phase[i] \in {"sent", "failed"}
    /\ status' = [status EXCEPT ![cur[i]] = "published"]
    /\ NextOfBatch(i)
    /\ UNCHANGED <<attempts, wait, sends, polling, paused, ghosts>>

markEventPublished(i) ==
    /\ phase[i] = "sent"
    /\ status' = [status EXCEPT ![cur[i]] = "published"]
    /\ NextOfBatch(i)
    /\ UNCHANGED <<attempts, wait, sends, polling, paused, ghosts>>

(* The catch block takes a failed mark for a failed publish. *)
MarkPublishedFails(i) ==
    /\ phase[i] = "sent"
    /\ Fault({cur[i]})
    /\ phase' = [phase EXCEPT ![i] = "failed"]
    /\ UNCHANGED <<rows, sends, polling, holds, cur, paused>>

(* The delay depends on the attempts read by the claim, and the row is     *)
(* written whatever another instance has made of it since.                 *)
markEventFailed(i) ==
    /\ phase[i] = "failed"
    /\ wait' = [wait EXCEPT ![cur[i]] = getRetryDelay(batch[i][cur[i]])]
    /\ NextOfBatch(i)
    /\ UNCHANGED <<status, attempts, sends, polling, paused, ghosts>>

(* An error out of the catch block ends the flush: the rest of the batch   *)
(* waits for its lease to run out.                                         *)
MarkFailedFails(i) ==
    /\ phase[i] = "failed"
    /\ Fault({})
    /\ phase' = [phase EXCEPT ![i] = "idle"]
    /\ batch' = [batch EXCEPT ![i] = NoBatch]
    /\ overdue' = [overdue EXCEPT ![i] = {}]
    /\ cur' = [cur EXCEPT ![i] = None]
    /\ UNCHANGED <<rows, sends, polling, paused>>

(* onModuleDestroy: the interval is cleared, a flush in progress runs on. *)
Stop(i) ==
    /\ i \in polling
    /\ Fault({})
    /\ polling' = polling \ {i}
    /\ UNCHANGED <<rows, sends, phase, holds, cur, paused>>

(* The process is gone, with its batch and its Pub/Sub client. *)
Gone(i) ==
    /\ phase[i] # "down"
    /\ phase' = [phase EXCEPT ![i] = "down"]
    /\ polling' = polling \ {i}
    /\ batch' = [batch EXCEPT ![i] = NoBatch]
    /\ overdue' = [overdue EXCEPT ![i] = {}]
    /\ cur' = [cur EXCEPT ![i] = None]
    /\ paused' = [paused EXCEPT ![i] = {}]
    /\ UNCHANGED <<rows, sends>>

Unmarked(i) == IF phase[i] = "sent" THEN {cur[i]} ELSE {}

Crash(i) ==
    /\ i \in polling
    /\ Fault(Unmarked(i))
    /\ Gone(i)

(* The end of a shutdown, which does not wait for the flush. *)
Exit(i) ==
    /\ i \notin polling
    /\ excused' = excused \cup Unmarked(i)
    /\ Gone(i)
    /\ UNCHANGED faults

(* onApplicationBootstrap of the process that replaces it. *)
Restart(i) ==
    /\ phase[i] = "down"
    /\ phase' = [phase EXCEPT ![i] = "idle"]
    /\ polling' = polling \cup {i}
    /\ UNCHANGED <<rows, sends, holds, cur, paused, ghosts>>

(* Time passes.  An event whose lease runs out while an instance still has *)
(* it may be delivered twice.                                              *)
Tick ==
    /\ \E e \in Events : wait[e] > 0
    /\ Due = {} \/ \A i \in polling : phase[i] # "idle"
    /\ wait' = [e \in Events |-> IF wait[e] > 0 THEN wait[e] - 1 ELSE 0]
    /\ overdue' = [i \in Instances |-> overdue[i] \cup {e \in Batch(i) : wait[e] = 1}]
    /\ excused' = excused \cup {e \in Events : wait[e] = 1 /\ \E i \in Instances : e \in Batch(i)}
    /\ UNCHANGED <<status, attempts, sends, polling, phase, batch, cur, paused, faults>>

(* What a publisher does when nothing fails. *)
Work(i) == SendOk(i) \/ SendRefused(i) \/ markEventPublished(i) \/ markEventFailed(i)

Failure(i) ==
    \/ ClaimLost(i) \/ SendFails(i) \/ MarkPublishedFails(i) \/ MarkFailedFails(i)
    \/ Stop(i) \/ Crash(i)

Next ==
    \/ Tick
    \/ \E e \in Events : Commit(e)
    \/ \E i \in Instances : Claim(i) \/ Work(i) \/ Failure(i) \/ Exit(i) \/ Restart(i)

Spec == Init /\ [][Next]_vars

(* The interval fires, calls return, a stopped process ends and Kubernetes *)
(* replaces it, time passes.  Faults and writers owe nothing.              *)
Fairness ==
    /\ WF_vars(Tick)
    /\ \A i \in Instances :
        WF_vars(Claim(i)) /\ WF_vars(Work(i)) /\ WF_vars(Exit(i)) /\ WF_vars(Restart(i))

FairSpec == Spec /\ Fairness

-----------------------------------------------------------------------------
(* Properties *)

(* What is left of a lease or of a retry delay. *)
Waits == 0 .. Lease \cup UNION {0 .. RetryDelays[n] : n \in 1 .. Len(RetryDelays)}

(* Rows, publishers and their batches have the shape the code gives them;  *)
(* no row is ever scheduled further away than a lease or a retry delay.    *)
TypeOK ==
    /\ status \in [Events -> {"absent", "pending", "published"}]
    /\ attempts \in [Events -> 0 .. MaxAttempts]
    /\ wait \in [Events -> Waits]
    /\ sends \in [Events -> 0 .. 2]
    /\ polling \subseteq Instances
    /\ phase \in [Instances -> Phases]
    /\ batch \in [Instances -> [Events -> 0 .. MaxAttempts]]
    /\ overdue \in [Instances -> SUBSET Events]
    /\ cur \in [Instances -> Events \cup {None}]
    /\ paused \in [Instances -> SUBSET Keys]
    /\ faults \in 0 .. MaxFaults
    /\ excused \subseteq Events

(* Two instances, batches, backoff and all, an event is delivered once,    *)
(* unless a lease ran out on the instance that held it, an answer of       *)
(* Pub/Sub or of the database was lost, or a process died between the send *)
(* and the mark.                                                           *)
OnceUnlessExcused == \A e \in Events : sends[e] > 1 => e \in excused

(* While an instance has an event in time, no step of another one changes  *)
(* the event's row: no claim, start or shutdown.  The one exception is the *)
(* late mark of an instance that had the event before and is overdue with  *)
(* it, since markEventPublished and markEventFailed update by id whatever  *)
(* has become of their claim.  Not even after such a mark, which moves the *)
(* row's next attempt, do two instances have the event in time.            *)
OnlyLateMarksInterfere ==
    [][\A i \in Instances, e \in Events :
        e \in InTime(i) /\ e \in Batch(i)' =>
            \/ Tick
            \/ UNCHANGED <<status[e], attempts[e], wait[e]>>
            \/ \E j \in Instances \ {i} : e \in overdue[j] /\ e \in Batch(j) \ Batch(j)']_vars

(* At least once: the outbox implements DurableDelivery, so a row leaves   *)
(* the queue only after the topic has received its event, whatever crashes,*)
(* stale claims and failed marks come in between.                          *)
Abstract == INSTANCE DurableDelivery
    WITH pending <- {e \in Events : status[e] = "pending"},
         delivered <- {e \in Events : sends[e] > 0},
         settled <- {e \in Events : status[e] = "published"}

AtLeastOnce == Abstract!DSpec

(* Only a paused ordering key keeps a committed event from being published *)
(* in the end: leases left by dead processes, failed marks and backoff     *)
(* never do.                                                               *)
PublishedUnlessPaused ==
    \A e \in Events :
        status[e] = "pending" ~>
            status[e] = "published" \/ \E i \in Instances : KeyOf[e] \in paused[i]

(* "publishes durable outbox rows to Pub/Sub and retries transient         *)
(* failures with backoff" (outbox-publisher.service.ts): once the failures *)
(* are over, every committed event is published.                           *)
EventuallyPublished ==
    \A e \in Events : status[e] = "pending" ~> status[e] = "published"
=============================================================================
