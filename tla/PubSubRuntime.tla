---------------------------- MODULE PubSubRuntime ----------------------------
(***************************************************************************)
(* PubSubRuntimeService of one replica (src/core/pubsub): an ephemeral     *)
(* subscription per topic, opened at bootstrap, opened again with backoff  *)
(* after an error or a close, closed and deleted at shutdown.              *)
(*                                                                         *)
(* JavaScript runs one handler at a time, so an action is what a handler   *)
(* does between two awaits.  A Subscription object stands for the attempt  *)
(* to open it as well: stage says which await that attempt, or the closing *)
(* of the object, has reached.                                             *)
(***************************************************************************)
EXTENDS Integers, FiniteSets

CONSTANTS
    Topics,        \* topics with a handler
    Objects,       \* Subscription objects, reused when nobody holds them
    InitialDelay,  \* INITIAL_RECONNECT_DELAY_MS
    MaxDelay,      \* MAX_RECONNECT_DELAY_MS
    MaxFaults,     \* bound of failed calls, broken streams, lost resources
    None           \* no object, no topic

ASSUME DelaysAssumption ==
    /\ InitialDelay \in Nat \ {0} /\ MaxDelay \in Nat
    /\ InitialDelay <= MaxDelay /\ MaxFaults \in Nat
ASSUME NoneAssumption == None \notin Objects /\ None \notin Topics

VARIABLES
    phase,      \* running; stopping from isShuttingDown on; closed at the end
    states,     \* keys of topicSubscriptionStates
    current,    \* of each state: PubSubSubscription
    delay,      \*                reconnectDelayMs
    timer,      \*                whether reconnectTimer is set
    opening,    \*                opening
    stage,      \* of each object: where its attempt or its closing is
    topicOf,    \*                 its topic
    listening,  \* objects with listeners
    remote,     \* topics whose subscription exists at Pub/Sub
    booted,     \* topics onApplicationBootstrap has come to
    awaited,    \* the attempt it waits for
    visited,    \* topics onModuleDestroy has come to
    disposal,   \* its disposeSubscription: where it is, topic, object
    faults,     \* faults that may still happen
    excused     \* topics shut down while opening, or whose delete failed

entries == <<current, delay, timer, opening>>
objects == <<stage, topicOf, listening>>
hooks == <<booted, awaited, visited, disposal>>
vars == <<phase, states, current, delay, timer, opening, stage, topicOf,
          listening, remote, booted, awaited, visited, disposal, faults, excused>>

Phases == {"running", "stopping", "closed"}
Stages == {"free",      \* nobody holds the object
           "asking",    \* awaits exists()
           "creating",  \* awaits createSubscription()
           "failed",    \* one of the two threw
           "ready",     \* one of the two gave the object
           "open",      \* the object is the current one of its topic
           "closing"}   \* awaits close() outside of shutdown

Idle == [at |-> "idle", topic |-> None, object |-> None]
Disposals == {Idle} \cup [at : {"closing", "deleting"}, topic : Topics,
                          object : Objects \cup {None}]

isShuttingDown == phase # "running"

Init ==
    /\ phase = "running" /\ states = {}
    /\ current = [t \in Topics |-> None]
    /\ delay = [t \in Topics |-> InitialDelay]
    /\ timer = [t \in Topics |-> FALSE]
    /\ opening = [t \in Topics |-> FALSE]
    /\ stage = [o \in Objects |-> "free"]
    /\ topicOf = [o \in Objects |-> None]
    /\ listening = {} /\ remote = {}
    /\ booted = {} /\ awaited = None
    /\ visited = {} /\ disposal = Idle
    /\ faults = MaxFaults /\ excused = {}

-----------------------------------------------------------------------------
(* Opening *)

(* getOrCreateTopicSubscriptionState, the early return and, past it, the
   beginning of an attempt. *)
MayOpen(t) == ~isShuttingDown /\ ~opening[t] /\ current[t] = None

BeginAttempt(t, o) ==
    /\ stage[o] = "free" /\ o \notin listening
    /\ opening' = [opening EXCEPT ![t] = TRUE]
    /\ stage' = [stage EXCEPT ![o] = "asking"]
    /\ topicOf' = [topicOf EXCEPT ![o] = t]

(* The next turn of the loop of onApplicationBootstrap, which a shutdown does
   not end. *)
BootNext(t) ==
    /\ t \notin booted /\ awaited = None
    /\ booted' = booted \cup {t} /\ states' = states \cup {t}
    /\ \/ /\ MayOpen(t)
          /\ \E o \in Objects : BeginAttempt(t, o) /\ awaited' = o
       \/ ~MayOpen(t) /\ UNCHANGED <<opening, stage, topicOf, awaited>>
    /\ UNCHANGED <<phase, current, delay, timer, listening, remote, visited,
                   disposal, faults, excused>>

(* The callback of the reconnect timer. *)
TimerFires(t) ==
    /\ timer[t]
    /\ timer' = [timer EXCEPT ![t] = FALSE]
    /\ \/ MayOpen(t) /\ \E o \in Objects : BeginAttempt(t, o)
       \/ ~MayOpen(t) /\ UNCHANGED <<opening, stage, topicOf>>
    /\ UNCHANGED <<phase, states, current, delay, listening, remote, hooks,
                   faults, excused>>

MoveTo(o, s) == stage' = [stage EXCEPT ![o] = s]

(* Mutant: the subscription is taken to exist. *)
ExistsAssumed(o) ==
    /\ stage[o] = "asking"
    /\ MoveTo(o, "ready")
    /\ UNCHANGED <<phase, states, entries, topicOf, listening, remote, hooks,
                   faults, excused>>

(* exists() is answered; createSubscription is called when there is none. *)
ExistsAnswered(o) ==
    /\ stage[o] = "asking"
    /\ MoveTo(o, IF topicOf[o] \in remote THEN "ready" ELSE "creating")
    /\ UNCHANGED <<phase, states, entries, topicOf, listening, remote, hooks,
                   faults, excused>>

(* createSubscription() is answered, with ALREADY_EXISTS if there is one. *)
CreateAnswered(o) ==
    /\ stage[o] = "creating"
    /\ MoveTo(o, IF topicOf[o] \in remote THEN "failed" ELSE "ready")
    /\ remote' = remote \cup {topicOf[o]}
    /\ UNCHANGED <<phase, states, entries, topicOf, listening, hooks, faults,
                   excused>>

(* A call fails, or fails after it had its effect; a closed client refuses
   calls. *)
CallFails(o) ==
    /\ stage[o] \in {"asking", "creating"}
    /\ MoveTo(o, "failed")
    /\ \/ phase = "closed" /\ UNCHANGED <<remote, faults>>
       \/ /\ faults > 0 /\ faults' = faults - 1
          /\ \/ remote' = remote
             \/ stage[o] = "creating" /\ remote' = remote \cup {topicOf[o]}
    /\ UNCHANGED <<phase, states, entries, topicOf, listening, hooks, excused>>

(* Bootstrap goes on once the attempt it awaits is over. *)
Released(o) == awaited' = IF awaited = o THEN None ELSE awaited

(* Mutant: isShuttingDown is not looked at again after the await. *)
AttachAlways(o) ==
    LET t == topicOf[o] IN
    /\ listening' = listening \cup {o}
    /\ current' = [current EXCEPT ![t] = o]
    /\ delay' = [delay EXCEPT ![t] = InitialDelay]
    /\ opening' = [opening EXCEPT ![t] = FALSE]
    /\ MoveTo(o, "open") /\ Released(o)

(* The open succeeded: listeners are attached and the object becomes the
   current one. *)
Attach(o) == ~isShuttingDown /\ AttachAlways(o)

(* The open succeeded during shutdown: the object is closed, the resource
   stays. *)
OpenedTooLate(o) ==
    /\ isShuttingDown
    /\ opening' = [opening EXCEPT ![topicOf[o]] = FALSE]
    /\ MoveTo(o, "closing")
    /\ UNCHANGED <<listening, current, delay, awaited>>

OpenDone(o) ==
    /\ stage[o] = "ready"
    /\ Attach(o) \/ OpenedTooLate(o)
    /\ UNCHANGED <<phase, states, timer, topicOf, remote, booted, visited,
                   disposal, faults, excused>>

(* Mutant: the delay is not capped. *)
DoubledNoCap(d) == 2 * d

Doubled(d) == LET d2 == 2 * d IN IF d2 <= MaxDelay THEN d2 ELSE MaxDelay

(* scheduleReconnect, given the entry's opening and subscription as the step
   leaves them. *)
scheduleReconnect(t, busy, object) ==
    IF isShuttingDown \/ timer[t] \/ busy \/ object # None
    THEN UNCHANGED <<timer, delay>>
    ELSE /\ timer' = [timer EXCEPT ![t] = TRUE]
         /\ delay' = [delay EXCEPT ![t] = Doubled(@)]

(* Mutant: opening is reset in the finally block only. *)
OpenFailedStillOpening(o) ==
    LET t == topicOf[o] IN
    /\ stage[o] = "failed"
    /\ opening' = [opening EXCEPT ![t] = FALSE]
    /\ scheduleReconnect(t, opening[t], current[t])
    /\ MoveTo(o, "free") /\ Released(o)
    /\ UNCHANGED <<phase, states, current, topicOf, listening, remote, booted,
                   visited, disposal, faults, excused>>

(* The open failed: another attempt after the delay. *)
OpenFailed(o) ==
    LET t == topicOf[o] IN
    /\ stage[o] = "failed"
    /\ opening' = [opening EXCEPT ![t] = FALSE]
    /\ scheduleReconnect(t, FALSE, current[t])
    /\ MoveTo(o, "free") /\ Released(o)
    /\ UNCHANGED <<phase, states, current, topicOf, listening, remote, booted,
                   visited, disposal, faults, excused>>

-----------------------------------------------------------------------------
(* Errors and closes *)

(* A resource disappears by itself: it expired, or somebody deleted it. *)
ResourceLost(t) ==
    /\ t \in remote /\ faults > 0
    /\ remote' = remote \ {t} /\ faults' = faults - 1
    /\ UNCHANGED <<phase, states, entries, objects, hooks, excused>>

(* Mutant: disposeSubscription does not remove the listeners. *)
StreamFailsKeepingListeners(o) ==
    /\ o \in listening /\ ~isShuttingDown /\ current[topicOf[o]] = o
    /\ \/ topicOf[o] \notin remote /\ faults' = faults
       \/ faults > 0 /\ faults' = faults - 1
    /\ MoveTo(o, "closing")
    /\ UNCHANGED <<phase, states, entries, topicOf, listening, remote, hooks,
                   excused>>

(* The error or close event of a stream, which breaks by a fault or because its
   resource is gone: up to the await of close() in disposeSubscription. *)
StreamFails(o) ==
    /\ o \in listening /\ ~isShuttingDown /\ current[topicOf[o]] = o
    /\ \/ topicOf[o] \notin remote /\ faults' = faults
       \/ faults > 0 /\ faults' = faults - 1
    /\ listening' = listening \ {o}
    /\ MoveTo(o, "closing")
    /\ UNCHANGED <<phase, states, entries, topicOf, remote, hooks, excused>>

(* close() returned or threw: the rest of disposeSubscription and of the
   handler that called it. *)
Closed(o) ==
    LET t == topicOf[o]
        object == IF current[t] = o THEN None ELSE current[t] IN
    /\ stage[o] = "closing"
    /\ current' = [current EXCEPT ![t] = object]
    /\ scheduleReconnect(t, opening[t], object)
    /\ MoveTo(o, "free") /\ Released(o)
    /\ UNCHANGED <<phase, states, opening, topicOf, listening, remote, booted,
                   visited, disposal, faults, excused>>

-----------------------------------------------------------------------------
(* Shutdown *)

BeginShutdown ==
    /\ phase = "running" /\ phase' = "stopping"
    /\ UNCHANGED <<states, entries, objects, remote, hooks, faults, excused>>

(* Mutant: an entry without a current object is passed over. *)
DisposeNextCurrent(t) ==
    LET o == current[t] IN
    /\ phase = "stopping" /\ disposal = Idle /\ t \in states \ visited
    /\ visited' = visited \cup {t}
    /\ timer' = [timer EXCEPT ![t] = FALSE]
    /\ listening' = listening \ {o}
    /\ disposal' = IF o = None THEN Idle
                   ELSE [at |-> "closing", topic |-> t, object |-> o]
    /\ excused' = IF opening[t] THEN excused \cup {t} ELSE excused
    /\ UNCHANGED <<phase, states, current, delay, opening, stage, topicOf,
                   remote, booted, awaited, faults>>

(* The next turn of the loop of onModuleDestroy: the timer is cleared, and
   disposeSubscription closes the current object or, without one, deletes the
   resource by name. *)
DisposeNext(t) ==
    LET o == current[t] IN
    /\ phase = "stopping" /\ disposal = Idle /\ t \in states \ visited
    /\ visited' = visited \cup {t}
    /\ timer' = [timer EXCEPT ![t] = FALSE]
    /\ listening' = listening \ {o}
    /\ disposal' = [at |-> IF o = None THEN "deleting" ELSE "closing",
                    topic |-> t, object |-> o]
    /\ excused' = IF opening[t] THEN excused \cup {t} ELSE excused
    /\ UNCHANGED <<phase, states, current, delay, opening, stage, topicOf,
                   remote, booted, awaited, faults>>

DisposalClosed ==
    /\ disposal.at = "closing"
    /\ disposal' = [disposal EXCEPT !.at = "deleting"]
    /\ UNCHANGED <<phase, states, entries, objects, remote, booted, awaited,
                   visited, faults, excused>>

(* delete() returned or threw: an error is logged and forgotten. *)
DisposalDeleted ==
    LET t == disposal.topic
        o == disposal.object IN
    /\ disposal.at = "deleting"
    /\ \/ remote' = remote \ {t} /\ UNCHANGED <<faults, excused>>
       \/ /\ faults > 0 /\ faults' = faults - 1
          /\ excused' = excused \cup {t} /\ UNCHANGED remote
    /\ current' = [current EXCEPT ![t] = IF o \in {None, @} THEN None ELSE @]
    /\ stage' = [x \in Objects |->
                    IF x = o /\ stage[x] = "open" THEN "free" ELSE stage[x]]
    /\ disposal' = Idle
    /\ UNCHANGED <<phase, states, delay, timer, opening, topicOf, listening,
                   booted, awaited, visited>>

(* No entry is left to visit, one made meanwhile included: the maps are cleared
   and the client is closed. *)
EndShutdown ==
    /\ phase = "stopping" /\ disposal = Idle /\ states \subseteq visited
    /\ phase' = "closed" /\ states' = {}
    /\ UNCHANGED <<entries, objects, remote, hooks, faults, excused>>

-----------------------------------------------------------------------------
Boot == \E t \in Topics : BootNext(t)
Reconnect == \E t \in Topics : TimerFires(t)
Open(o) == ExistsAnswered(o) \/ CreateAnswered(o) \/ OpenDone(o) \/ OpenFailed(o)
Fault == \/ \E t \in Topics : ResourceLost(t)
         \/ \E o \in Objects : CallFails(o)
Shutdown == \/ \E t \in Topics : DisposeNext(t)
            \/ DisposalClosed \/ DisposalDeleted \/ EndShutdown

Next == \/ Boot \/ Reconnect \/ Fault \/ BeginShutdown \/ Shutdown
        \/ \E o \in Objects : Open(o) \/ StreamFails(o) \/ Closed(o)

Spec == Init /\ [][Next]_vars

(* Timers fire, calls return, and a stream whose resource is gone reports it. *)
FairSpec ==
    /\ Spec /\ WF_vars(Boot) /\ WF_vars(Shutdown)
    /\ \A t \in Topics : WF_vars(TimerFires(t))
    /\ \A o \in Objects :
         /\ WF_vars(Open(o)) /\ WF_vars(Closed(o))
         /\ WF_vars(StreamFails(o) /\ topicOf[o] \notin remote)

-----------------------------------------------------------------------------
TypeOK ==
    /\ phase \in Phases
    /\ states \subseteq Topics /\ booted \subseteq Topics
    /\ visited \subseteq Topics /\ remote \subseteq Topics
    /\ excused \subseteq Topics
    /\ current \in [Topics -> Objects \cup {None}]
    /\ delay \in [Topics -> InitialDelay .. MaxDelay]
    /\ timer \in [Topics -> BOOLEAN] /\ opening \in [Topics -> BOOLEAN]
    /\ stage \in [Objects -> Stages]
    /\ topicOf \in [Objects -> Topics \cup {None}]
    /\ listening \subseteq Objects
    /\ awaited \in Objects \cup {None}
    /\ disposal \in Disposals
    /\ faults \in Nat

(* A topic is always on its way to a subscription, and on one way only: a
   pending timer, an attempt, or a current object (lines 170-176, 405-412). *)
OneRecoveryPath ==
    ~isShuttingDown => \A t \in booted :
        /\ timer[t] \/ opening[t] \/ current[t] # None
        /\ ~(timer[t] /\ opening[t])
        /\ current[t] # None => ~timer[t] /\ ~opening[t]

(* Of each topic, the objects its handler gets messages from. *)
streams == [t \in Topics |-> {o \in listening : topicOf[o] = t}]

Gate == INSTANCE HandlerStreams

(* However attempts, errors, closes and a shutdown interleave, a handler has one
   stream at a time: the next one is attached when the one before is detached,
   none once isShuttingDown is set, and the client is closed after the last, so
   no event is handled by a forgotten stream (lines 197-217, 464, 484-486). *)
OneStreamAtATime == Gate!GateSpec

(* Nothing survives a shutdown that could handle a message or open again. *)
QuietAfterShutdown ==
    phase = "closed" =>
        /\ listening = {} /\ \A t \in Topics : ~timer[t] /\ current[t] = None
        /\ \A o \in Objects : stage[o] # "open"

(* A shutdown leaves a subscription behind only if it found the topic opening
   or if the delete failed. *)
LeftBehindOnlyIfExcused == phase = "closed" => remote \subseteq excused

(* "Closes and deletes the ephemeral subscriptions during Nest shutdown"
   (line 122), when no call fails. *)
NothingLeftBehind ==
    phase = "closed" /\ (\A o \in Objects : stage[o] = "free") => remote = {}

(* Faults being finite, a running replica ends up subscribed to each topic for
   good, at a resource that exists. *)
Subscribed(t) == t \in remote /\ current[t] \in listening

StaysSubscribed == \A t \in Topics : <>[](Subscribed(t) \/ isShuttingDown)
=============================================================================
