------------------------ MODULE PubSubRuntimeProofs ------------------------
(* The inductive invariant of PubSubRuntime and what follows from it for any
   topics, any number of objects and any number of faults. *)
EXTENDS PubSubRuntime, TLAPS

(* The object belongs to an attempt under way. *)
Attempting(o) == stage[o] \in {"asking", "creating", "failed", "ready"}

(* Only topics bootstrap has come to have anything. *)
UnbootedUntouched ==
    /\ phase # "closed" => states = booted
    /\ remote \subseteq booted
    /\ \A t \in Topics \ booted : ~timer[t] /\ ~opening[t] /\ current[t] = None

(* An attempt keeps its topic opening, and no topic has two. *)
AttemptsExclude ==
    /\ \A o \in Objects : Attempting(o) => topicOf[o] \in Topics /\ opening[topicOf[o]]
    /\ \A o, p \in Objects :
        Attempting(o) /\ Attempting(p) /\ topicOf[o] = topicOf[p] => o = p

(* What the stage of an object says of its topic, and back. *)
ObjectsHeld ==
    /\ \A o \in Objects : stage[o] = "closing" => topicOf[o] \in booted
    /\ \A o \in Objects : stage[o] = "open" =>
        topicOf[o] \in Topics /\ current[topicOf[o]] = o
    /\ \A t \in Topics : current[t] # None =>
        topicOf[current[t]] = t /\ stage[current[t]] \in {"open", "closing"}
    /\ \A o \in listening : stage[o] = "open"

(* How far shutdown has come. *)
Disposed(t) == t \in visited /\ disposal.topic # t

ShutdownProgress ==
    /\ phase = "running" => visited = {} /\ disposal = Idle
    /\ phase = "closed" =>
        /\ disposal = Idle /\ remote \subseteq visited
        /\ \A t \in Topics \ visited : ~timer[t] /\ ~opening[t] /\ current[t] = None
    /\ disposal # Idle =>
        /\ disposal.topic \in visited
        /\ current[disposal.topic] \in {None, disposal.object}
        /\ disposal.object # None => topicOf[disposal.object] = disposal.topic
    /\ \A o \in listening : topicOf[o] \notin visited
    /\ \A t \in visited : ~timer[t]
    /\ \A t \in Topics : Disposed(t) => current[t] = None
    /\ \A t \in Topics : Disposed(t) /\ t \in remote => t \in excused
    /\ \A o \in Objects : Attempting(o) /\ topicOf[o] \in visited =>
        topicOf[o] \in excused

IInv == /\ TypeOK /\ UnbootedUntouched /\ AttemptsExclude /\ ObjectsHeld
        /\ ShutdownProgress /\ OneRecoveryPath

-----------------------------------------------------------------------------
(* Doubling keeps the delay within its bounds. *)
LEMMA DoubledType ==
    \A d \in InitialDelay .. MaxDelay : Doubled(d) \in InitialDelay .. MaxDelay
    BY DelaysAssumption DEF Doubled

LEMMA IdleType == Idle \in Disposals /\ Idle.topic = None /\ Idle.at = "idle"
    BY DEF Idle, Disposals

-----------------------------------------------------------------------------
(* Every step preserves the invariant, one lemma for each action. *)

LEMMA BootNextStep == ASSUME IInv, NEW t \in Topics, BootNext(t) PROVE IInv'
<1>1. TypeOK'
  <2>1. (opening \in [Topics -> BOOLEAN])'
      BY DEF BeginAttempt, TypeOK, BootNext, IInv
  <2>2. (timer \in [Topics -> BOOLEAN])'
      BY DEF TypeOK, BootNext, IInv
  <2>3. (delay \in [Topics -> InitialDelay .. MaxDelay])'
      BY DEF TypeOK, BootNext, IInv
  <2>4. (current \in [Topics -> Objects \cup {None}])'
      BY DEF TypeOK, BootNext, IInv
  <2>5. (stage \in [Objects -> Stages])'
      BY DEF BeginAttempt, Stages, TypeOK, BootNext, IInv
  <2>6. (topicOf \in [Objects -> Topics \cup {None}])'
      BY DEF BeginAttempt, TypeOK, BootNext, IInv
  <2>7. (awaited \in Objects \cup {None})'
      BY DEF BootNext
  <2>8. (phase \in Phases /\ states \subseteq Topics /\ booted \subseteq Topics
            /\ visited \subseteq Topics)'
      BY DEF TypeOK, BootNext, IInv
  <2>9. (remote \subseteq Topics /\ excused \subseteq Topics /\ listening \subseteq Objects
            /\ disposal \in Disposals /\ faults \in Nat)'
      BY DEF TypeOK, BootNext, IInv
  <2> QED
      BY <2>1, <2>2, <2>3, <2>4, <2>5, <2>6, <2>7, <2>8, <2>9 DEF TypeOK
<1>2. UnbootedUntouched'
    BY DEF BeginAttempt, UnbootedUntouched, TypeOK, BootNext, IInv
<1>3. AttemptsExclude'
    BY DEF BeginAttempt, Attempting, UnbootedUntouched, AttemptsExclude,
       TypeOK, BootNext, IInv
<1>4. ObjectsHeld'
    BY DEF BeginAttempt, ObjectsHeld, TypeOK, BootNext, IInv
<1>5. ShutdownProgress'
    BY DEF isShuttingDown, MayOpen, Attempting, Disposed, ShutdownProgress,
       BootNext, IInv
<1>6. OneRecoveryPath'
    BY DEF isShuttingDown, MayOpen, BeginAttempt, UnbootedUntouched,
       OneRecoveryPath, TypeOK, BootNext, IInv
<1> QED
    BY <1>1, <1>2, <1>3, <1>4, <1>5, <1>6 DEF IInv

LEMMA TimerFiresStep == ASSUME IInv, NEW t \in Topics, TimerFires(t) PROVE IInv'
<1>1. TypeOK'
  <2>1. (opening \in [Topics -> BOOLEAN])'
      BY DEF BeginAttempt, TypeOK, TimerFires, IInv
  <2>2. (timer \in [Topics -> BOOLEAN])'
      BY DEF TypeOK, TimerFires, IInv
  <2>3. (delay \in [Topics -> InitialDelay .. MaxDelay])'
      BY DEF TypeOK, TimerFires, IInv
  <2>4. (current \in [Topics -> Objects \cup {None}])'
      BY DEF TypeOK, TimerFires, IInv
  <2>5. (stage \in [Objects -> Stages])'
      BY DEF BeginAttempt, Stages, TypeOK, TimerFires, IInv
  <2>6. (topicOf \in [Objects -> Topics \cup {None}])'
      BY DEF BeginAttempt, TypeOK, TimerFires, IInv
  <2>7. (awaited \in Objects \cup {None})'
      BY DEF hooks, TypeOK, TimerFires, IInv
  <2>8. (phase \in Phases /\ states \subseteq Topics /\ booted \subseteq Topics
            /\ visited \subseteq Topics)'
      BY DEF hooks, TypeOK, TimerFires, IInv
  <2>9. (remote \subseteq Topics /\ excused \subseteq Topics /\ listening \subseteq Objects
            /\ disposal \in Disposals /\ faults \in Nat)'
      BY DEF hooks, TypeOK, TimerFires, IInv
  <2> QED
      BY <2>1, <2>2, <2>3, <2>4, <2>5, <2>6, <2>7, <2>8, <2>9 DEF TypeOK
<1>2. UnbootedUntouched'
    BY DEF hooks, BeginAttempt, UnbootedUntouched, TypeOK, TimerFires, IInv
<1>3. AttemptsExclude'
    BY DEF MayOpen, BeginAttempt, Attempting, AttemptsExclude, TypeOK,
       TimerFires, IInv
<1>4. ObjectsHeld'
    BY DEF hooks, BeginAttempt, ObjectsHeld, TypeOK, TimerFires, IInv
<1>5. ShutdownProgress'
    BY DEF hooks, isShuttingDown, MayOpen, Attempting, Disposed,
       ShutdownProgress, TimerFires, IInv
<1>6. OneRecoveryPath'
    BY DEF hooks, isShuttingDown, MayOpen, BeginAttempt, OneRecoveryPath,
       TypeOK, TimerFires, IInv
<1> QED
    BY <1>1, <1>2, <1>3, <1>4, <1>5, <1>6 DEF IInv

LEMMA ExistsAnsweredStep == ASSUME IInv, NEW o \in Objects, ExistsAnswered(o) PROVE IInv'
<1>1. TypeOK'
    BY DEF entries, hooks, MoveTo, Stages, TypeOK, ExistsAnswered, IInv
<1>2. UnbootedUntouched'
    BY DEF entries, hooks, UnbootedUntouched, ExistsAnswered, IInv
<1>3. AttemptsExclude'
    BY DEF entries, MoveTo, Attempting, AttemptsExclude, ExistsAnswered, IInv
<1>4. ObjectsHeld'
    BY DEF entries, hooks, MoveTo, ObjectsHeld, ExistsAnswered, IInv
<1>5. ShutdownProgress'
    BY DEF entries, hooks, MoveTo, Attempting, Disposed, ShutdownProgress,
       ExistsAnswered, IInv
<1>6. OneRecoveryPath'
    BY DEF entries, hooks, isShuttingDown, OneRecoveryPath, ExistsAnswered,
       IInv
<1> QED
    BY <1>1, <1>2, <1>3, <1>4, <1>5, <1>6 DEF IInv

LEMMA CreateAnsweredStep == ASSUME IInv, NEW o \in Objects, CreateAnswered(o) PROVE IInv'
<1>1. TypeOK'
    BY DEF entries, hooks, MoveTo, Attempting, Stages, AttemptsExclude,
       TypeOK, CreateAnswered, IInv
<1>2. UnbootedUntouched'
    BY DEF entries, hooks, Attempting, AttemptsExclude, UnbootedUntouched,
       CreateAnswered, IInv
<1>3. AttemptsExclude'
    BY DEF entries, MoveTo, Attempting, AttemptsExclude, CreateAnswered, IInv
<1>4. ObjectsHeld'
    BY DEF entries, hooks, MoveTo, ObjectsHeld, CreateAnswered, IInv
<1>5. ShutdownProgress'
    BY DEF entries, hooks, MoveTo, Attempting, Disposed, AttemptsExclude,
       ShutdownProgress, CreateAnswered, IInv
<1>6. OneRecoveryPath'
    BY DEF entries, hooks, isShuttingDown, OneRecoveryPath, CreateAnswered,
       IInv
<1> QED
    BY <1>1, <1>2, <1>3, <1>4, <1>5, <1>6 DEF IInv

LEMMA CallFailsStep == ASSUME IInv, NEW o \in Objects, CallFails(o) PROVE IInv'
<1>1. TypeOK'
    BY DEF entries, hooks, MoveTo, Attempting, Stages, AttemptsExclude,
       TypeOK, CallFails, IInv
<1>2. UnbootedUntouched'
    BY DEF entries, hooks, Attempting, AttemptsExclude, UnbootedUntouched,
       CallFails, IInv
<1>3. AttemptsExclude'
    BY DEF entries, MoveTo, Attempting, AttemptsExclude, CallFails, IInv
<1>4. ObjectsHeld'
    BY DEF entries, hooks, MoveTo, ObjectsHeld, CallFails, IInv
<1>5. ShutdownProgress'
    BY DEF entries, hooks, MoveTo, Attempting, Disposed, AttemptsExclude,
       ShutdownProgress, CallFails, IInv
<1>6. OneRecoveryPath'
    BY DEF entries, hooks, isShuttingDown, OneRecoveryPath, CallFails, IInv
<1> QED
    BY <1>1, <1>2, <1>3, <1>4, <1>5, <1>6 DEF IInv

LEMMA OpenDoneStep == ASSUME IInv, NEW o \in Objects, OpenDone(o) PROVE IInv'
<1>1. TypeOK'
  <2>1. topicOf[o] \in Topics
      BY DEF Attempting, AttemptsExclude, OpenDone, IInv
  <2>2. (opening \in [Topics -> BOOLEAN])'
      BY <2>1 DEF Attach, AttachAlways, OpenedTooLate, TypeOK, OpenDone, IInv
  <2>3. (timer \in [Topics -> BOOLEAN])'
      BY <2>1 DEF TypeOK, OpenDone, IInv
  <2>4. (delay \in [Topics -> InitialDelay .. MaxDelay])'
      BY <2>1, DelaysAssumption DEF Attach, AttachAlways, OpenedTooLate,
         TypeOK, OpenDone, IInv
  <2>5. (current \in [Topics -> Objects \cup {None}])'
      BY <2>1 DEF Attach, AttachAlways, OpenedTooLate, TypeOK, OpenDone, IInv
  <2>6. (stage \in [Objects -> Stages])'
      BY <2>1 DEF Attach, AttachAlways, OpenedTooLate, MoveTo, Stages,
         TypeOK, OpenDone, IInv
  <2>7. (topicOf \in [Objects -> Topics \cup {None}])'
      BY <2>1 DEF TypeOK, OpenDone, IInv
  <2>8. (awaited \in Objects \cup {None})'
      BY <2>1 DEF Attach, AttachAlways, OpenedTooLate, Released, TypeOK,
         OpenDone, IInv
  <2>9. (phase \in Phases /\ states \subseteq Topics /\ booted \subseteq Topics
            /\ visited \subseteq Topics)'
      BY <2>1 DEF TypeOK, OpenDone, IInv
  <2>10. (remote \subseteq Topics /\ excused \subseteq Topics /\ listening \subseteq Objects
            /\ disposal \in Disposals /\ faults \in Nat)'
      BY <2>1 DEF Attach, AttachAlways, OpenedTooLate, TypeOK, OpenDone, IInv
  <2> QED
      BY <2>2, <2>3, <2>4, <2>5, <2>6, <2>7, <2>8, <2>9, <2>10 DEF TypeOK
<1>2. UnbootedUntouched'
    BY DEF Attach, AttachAlways, OpenedTooLate, Attempting, AttemptsExclude,
       UnbootedUntouched, TypeOK, OpenDone, IInv
<1>3. AttemptsExclude'
    BY DEF Attach, AttachAlways, OpenedTooLate, MoveTo, Attempting,
       AttemptsExclude, TypeOK, OpenDone, IInv
<1>4. ObjectsHeld'
    BY NoneAssumption DEF Attach, AttachAlways, OpenedTooLate, MoveTo,
       Attempting, UnbootedUntouched, AttemptsExclude, OneRecoveryPath,
       ObjectsHeld, TypeOK, OpenDone, IInv
<1>5. ShutdownProgress'
    BY DEF isShuttingDown, Attach, OpenedTooLate, MoveTo, Attempting,
       Disposed, ShutdownProgress, TypeOK, OpenDone, IInv
<1>6. OneRecoveryPath'
    BY NoneAssumption DEF isShuttingDown, Attach, AttachAlways,
       OpenedTooLate, Attempting, AttemptsExclude, OneRecoveryPath, TypeOK,
       OpenDone, IInv
<1> QED
    BY <1>1, <1>2, <1>3, <1>4, <1>5, <1>6 DEF IInv

LEMMA OpenFailedStep == ASSUME IInv, NEW o \in Objects, OpenFailed(o) PROVE IInv'
<1>1. TypeOK'
  <2>1. topicOf[o] \in Topics
      BY DEF Attempting, AttemptsExclude, OpenFailed, IInv
  <2>2. (opening \in [Topics -> BOOLEAN])'
      BY <2>1 DEF TypeOK, OpenFailed, IInv
  <2>3. (timer \in [Topics -> BOOLEAN])'
      BY <2>1 DEF scheduleReconnect, TypeOK, OpenFailed, IInv
  <2>4. (delay \in [Topics -> InitialDelay .. MaxDelay])'
      BY <2>1, DoubledType DEF scheduleReconnect, TypeOK, OpenFailed, IInv
  <2>5. (current \in [Topics -> Objects \cup {None}])'
      BY <2>1 DEF TypeOK, OpenFailed, IInv
  <2>6. (stage \in [Objects -> Stages])'
      BY <2>1 DEF MoveTo, Stages, TypeOK, OpenFailed, IInv
  <2>7. (topicOf \in [Objects -> Topics \cup {None}])'
      BY <2>1 DEF TypeOK, OpenFailed, IInv
  <2>8. (awaited \in Objects \cup {None})'
      BY <2>1 DEF Released, TypeOK, OpenFailed, IInv
  <2>9. (phase \in Phases /\ states \subseteq Topics /\ booted \subseteq Topics
            /\ visited \subseteq Topics)'
      BY <2>1 DEF TypeOK, OpenFailed, IInv
  <2>10. (remote \subseteq Topics /\ excused \subseteq Topics /\ listening \subseteq Objects
            /\ disposal \in Disposals /\ faults \in Nat)'
      BY <2>1 DEF TypeOK, OpenFailed, IInv
  <2> QED
      BY <2>2, <2>3, <2>4, <2>5, <2>6, <2>7, <2>8, <2>9, <2>10 DEF TypeOK
<1>2. UnbootedUntouched'
    BY DEF scheduleReconnect, Attempting, AttemptsExclude,
       UnbootedUntouched, TypeOK, OpenFailed, IInv
<1>3. AttemptsExclude'
    BY DEF MoveTo, Attempting, AttemptsExclude, TypeOK, OpenFailed, IInv
<1>4. ObjectsHeld'
    BY DEF MoveTo, ObjectsHeld, OpenFailed, IInv
<1>5. ShutdownProgress'
    BY DEF isShuttingDown, scheduleReconnect, MoveTo, Attempting, Disposed,
       ShutdownProgress, OpenFailed, IInv
<1>6. OneRecoveryPath'
    BY DEF isShuttingDown, scheduleReconnect, OneRecoveryPath, TypeOK,
       OpenFailed, IInv
<1> QED
    BY <1>1, <1>2, <1>3, <1>4, <1>5, <1>6 DEF IInv

LEMMA ResourceLostStep == ASSUME IInv, NEW t \in Topics, ResourceLost(t) PROVE IInv'
<1>1. TypeOK'
    BY DEF entries, objects, hooks, TypeOK, ResourceLost, IInv
<1>2. UnbootedUntouched'
    BY DEF entries, hooks, UnbootedUntouched, ResourceLost, IInv
<1>3. AttemptsExclude'
    BY DEF entries, objects, Attempting, AttemptsExclude, ResourceLost, IInv
<1>4. ObjectsHeld'
    BY DEF entries, objects, hooks, ObjectsHeld, ResourceLost, IInv
<1>5. ShutdownProgress'
    BY DEF entries, objects, hooks, Attempting, Disposed, ShutdownProgress,
       ResourceLost, IInv
<1>6. OneRecoveryPath'
    BY DEF entries, hooks, isShuttingDown, OneRecoveryPath, ResourceLost, IInv
<1> QED
    BY <1>1, <1>2, <1>3, <1>4, <1>5, <1>6 DEF IInv

LEMMA StreamFailsStep == ASSUME IInv, NEW o \in Objects, StreamFails(o) PROVE IInv'
<1>1. TypeOK'
    BY DEF entries, hooks, MoveTo, Stages, TypeOK, StreamFails, IInv
<1>2. UnbootedUntouched'
    BY DEF entries, hooks, UnbootedUntouched, StreamFails, IInv
<1>3. AttemptsExclude'
    BY DEF entries, MoveTo, Attempting, AttemptsExclude, StreamFails, IInv
<1>4. ObjectsHeld'
    BY NoneAssumption DEF entries, hooks, MoveTo, UnbootedUntouched,
       ObjectsHeld, StreamFails, IInv
<1>5. ShutdownProgress'
    BY DEF hooks, isShuttingDown, Disposed, ShutdownProgress, StreamFails, IInv
<1>6. OneRecoveryPath'
    BY DEF entries, hooks, OneRecoveryPath, StreamFails, IInv
<1> QED
    BY <1>1, <1>2, <1>3, <1>4, <1>5, <1>6 DEF IInv

LEMMA ClosedStep == ASSUME IInv, NEW o \in Objects, Closed(o) PROVE IInv'
<1>1. TypeOK'
  <2>1. topicOf[o] \in Topics
      BY DEF ObjectsHeld, TypeOK, Closed, IInv
  <2>2. (opening \in [Topics -> BOOLEAN])'
      BY <2>1 DEF TypeOK, Closed, IInv
  <2>3. (timer \in [Topics -> BOOLEAN])'
      BY <2>1 DEF scheduleReconnect, TypeOK, Closed, IInv
  <2>4. (delay \in [Topics -> InitialDelay .. MaxDelay])'
      BY <2>1, DoubledType DEF scheduleReconnect, TypeOK, Closed, IInv
  <2>5. (current \in [Topics -> Objects \cup {None}])'
      BY <2>1 DEF TypeOK, Closed, IInv
  <2>6. (stage \in [Objects -> Stages])'
      BY <2>1 DEF MoveTo, Stages, TypeOK, Closed, IInv
  <2>7. (topicOf \in [Objects -> Topics \cup {None}])'
      BY <2>1 DEF TypeOK, Closed, IInv
  <2>8. (awaited \in Objects \cup {None})'
      BY <2>1 DEF Released, TypeOK, Closed, IInv
  <2>9. (phase \in Phases /\ states \subseteq Topics /\ booted \subseteq Topics
            /\ visited \subseteq Topics)'
      BY <2>1 DEF TypeOK, Closed, IInv
  <2>10. (remote \subseteq Topics /\ excused \subseteq Topics /\ listening \subseteq Objects
            /\ disposal \in Disposals /\ faults \in Nat)'
      BY <2>1 DEF TypeOK, Closed, IInv
  <2> QED
      BY <2>2, <2>3, <2>4, <2>5, <2>6, <2>7, <2>8, <2>9, <2>10 DEF TypeOK
<1>2. UnbootedUntouched'
    BY DEF scheduleReconnect, ObjectsHeld, UnbootedUntouched, TypeOK,
       Closed, IInv
<1>3. AttemptsExclude'
    BY DEF MoveTo, Attempting, AttemptsExclude, Closed, IInv
<1>4. ObjectsHeld'
    BY DEF MoveTo, ObjectsHeld, TypeOK, Closed, IInv
<1>5. ShutdownProgress'
    BY DEF isShuttingDown, scheduleReconnect, MoveTo, Attempting, Disposed,
       ShutdownProgress, Closed, IInv
<1>6. OneRecoveryPath'
    BY DEF isShuttingDown, scheduleReconnect, OneRecoveryPath, TypeOK,
       Closed, IInv
<1> QED
    BY <1>1, <1>2, <1>3, <1>4, <1>5, <1>6 DEF IInv

LEMMA BeginShutdownStep == ASSUME IInv, BeginShutdown PROVE IInv'
<1>1. TypeOK'
    BY DEF entries, objects, hooks, Phases, TypeOK, BeginShutdown, IInv
<1>2. UnbootedUntouched'
    BY DEF entries, hooks, UnbootedUntouched, BeginShutdown, IInv
<1>3. AttemptsExclude'
    BY DEF entries, objects, Attempting, AttemptsExclude, BeginShutdown, IInv
<1>4. ObjectsHeld'
    BY DEF entries, objects, hooks, ObjectsHeld, BeginShutdown, IInv
<1>5. ShutdownProgress'
    BY DEF hooks, Disposed, ShutdownProgress, BeginShutdown, IInv
<1>6. OneRecoveryPath'
    BY DEF isShuttingDown, OneRecoveryPath, BeginShutdown
<1> QED
    BY <1>1, <1>2, <1>3, <1>4, <1>5, <1>6 DEF IInv

LEMMA DisposeNextStep == ASSUME IInv, NEW t \in Topics, DisposeNext(t) PROVE IInv'
<1>1. TypeOK'
    BY DEF Disposals, TypeOK, DisposeNext, IInv
<1>2. UnbootedUntouched'
    BY DEF UnbootedUntouched, DisposeNext, IInv
<1>3. AttemptsExclude'
    BY DEF Attempting, AttemptsExclude, DisposeNext, IInv
<1>4. ObjectsHeld'
    BY DEF ObjectsHeld, DisposeNext, IInv
<1>5. ShutdownProgress'
    BY NoneAssumption, IdleType DEF Attempting, Disposed, AttemptsExclude,
       ObjectsHeld, ShutdownProgress, TypeOK, DisposeNext, IInv
<1>6. OneRecoveryPath'
    BY DEF isShuttingDown, OneRecoveryPath, DisposeNext
<1> QED
    BY <1>1, <1>2, <1>3, <1>4, <1>5, <1>6 DEF IInv

LEMMA DisposalClosedStep == ASSUME IInv, DisposalClosed PROVE IInv'
<1>1. TypeOK'
    BY IdleType DEF entries, objects, Disposals, TypeOK, DisposalClosed, IInv
<1>2. UnbootedUntouched'
    BY DEF entries, UnbootedUntouched, DisposalClosed, IInv
<1>3. AttemptsExclude'
    BY DEF entries, objects, Attempting, AttemptsExclude, DisposalClosed, IInv
<1>4. ObjectsHeld'
    BY DEF entries, objects, ObjectsHeld, DisposalClosed, IInv
<1>5. ShutdownProgress'
    BY IdleType DEF entries, objects, Attempting, Disposed,
       ShutdownProgress, DisposalClosed, IInv
<1>6. OneRecoveryPath'
    BY DEF entries, isShuttingDown, OneRecoveryPath, DisposalClosed, IInv
<1> QED
    BY <1>1, <1>2, <1>3, <1>4, <1>5, <1>6 DEF IInv

LEMMA DisposalDeletedStep == ASSUME IInv, DisposalDeleted PROVE IInv'
<1>1. TypeOK'
    BY IdleType DEF Stages, ShutdownProgress, TypeOK, DisposalDeleted, IInv
<1>2. UnbootedUntouched'
    BY DEF UnbootedUntouched, DisposalDeleted, IInv
<1>3. AttemptsExclude'
    BY DEF Attempting, AttemptsExclude, DisposalDeleted, IInv
<1>4. ObjectsHeld'
    BY NoneAssumption, IdleType DEF ShutdownProgress, ObjectsHeld, TypeOK,
       DisposalDeleted, IInv
<1>5. ShutdownProgress'
    BY DEF Attempting, Disposed, ShutdownProgress, TypeOK, DisposalDeleted,
       IInv
<1>6. OneRecoveryPath'
    BY IdleType DEF isShuttingDown, ShutdownProgress, OneRecoveryPath,
       DisposalDeleted, IInv
<1> QED
    BY <1>1, <1>2, <1>3, <1>4, <1>5, <1>6 DEF IInv

LEMMA EndShutdownStep == ASSUME IInv, EndShutdown PROVE IInv'
<1>1. TypeOK'
    BY DEF entries, objects, hooks, Phases, TypeOK, EndShutdown, IInv
<1>2. UnbootedUntouched'
    BY DEF entries, hooks, UnbootedUntouched, EndShutdown, IInv
<1>3. AttemptsExclude'
    BY DEF entries, objects, Attempting, AttemptsExclude, EndShutdown, IInv
<1>4. ObjectsHeld'
    BY DEF entries, objects, hooks, ObjectsHeld, EndShutdown, IInv
<1>5. ShutdownProgress'
    BY DEF entries, objects, hooks, Attempting, Disposed, UnbootedUntouched,
       ShutdownProgress, EndShutdown, IInv
<1>6. OneRecoveryPath'
    BY DEF isShuttingDown, OneRecoveryPath, EndShutdown
<1> QED
    BY <1>1, <1>2, <1>3, <1>4, <1>5, <1>6 DEF IInv

LEMMA StutterStep == ASSUME IInv, UNCHANGED vars PROVE IInv'
    BY DEF IInv, vars, TypeOK, UnbootedUntouched, AttemptsExclude, ObjectsHeld,
       ShutdownProgress, OneRecoveryPath, isShuttingDown, Attempting, Disposed

-----------------------------------------------------------------------------
LEMMA InitIInv == Init => IInv
<1> SUFFICES ASSUME Init PROVE IInv
    OBVIOUS
<1>1. TypeOK
    BY DelaysAssumption, IdleType DEF Stages, Phases, TypeOK, Init
<1>2. UnbootedUntouched /\ AttemptsExclude /\ ObjectsHeld /\ OneRecoveryPath
    BY DEF Attempting, UnbootedUntouched, AttemptsExclude, ObjectsHeld,
       OneRecoveryPath, Init
<1>3. ShutdownProgress
    BY DEF ShutdownProgress, Init
<1> QED
    BY <1>1, <1>2, <1>3 DEF IInv

LEMMA NextIInv == IInv /\ [Next]_vars => IInv'
<1> SUFFICES ASSUME IInv, [Next]_vars PROVE IInv'
    OBVIOUS
<1>1. CASE Boot
    BY <1>1, BootNextStep DEF Boot
<1>2. CASE Reconnect
    BY <1>2, TimerFiresStep DEF Reconnect
<1>3. ASSUME NEW o \in Objects, Open(o) PROVE IInv'
    BY <1>3, ExistsAnsweredStep, CreateAnsweredStep, OpenDoneStep, OpenFailedStep
       DEF Open
<1>4. ASSUME NEW o \in Objects, StreamFails(o) \/ Closed(o) PROVE IInv'
    BY <1>4, StreamFailsStep, ClosedStep
<1>5. CASE Fault
    BY <1>5, ResourceLostStep, CallFailsStep DEF Fault
<1>6. CASE BeginShutdown
    BY <1>6, BeginShutdownStep
<1>7. CASE Shutdown
    BY <1>7, DisposeNextStep, DisposalClosedStep, DisposalDeletedStep,
       EndShutdownStep DEF Shutdown
<1>8. CASE UNCHANGED vars
    BY <1>8, StutterStep
<1> QED
    BY <1>1, <1>2, <1>3, <1>4, <1>5, <1>6, <1>7, <1>8 DEF Next

-----------------------------------------------------------------------------
(* Steps seen as those of HandlerStreams. *)

(* The stream of a topic, if it has one, is its current object's. *)
LEMMA StreamsAreCurrent ==
    ASSUME IInv
    PROVE  /\ \A t \in Topics : streams[t] = IF current[t] \in listening THEN {current[t]} ELSE {}
           /\ \A o \in listening : topicOf[o] \in Topics /\ current[topicOf[o]] = o
<1>1. \A o \in listening : o \in Objects /\ topicOf[o] \in Topics /\ current[topicOf[o]] = o
    BY DEF IInv, TypeOK, ObjectsHeld
<1>2. \A t \in Topics : current[t] \in listening => topicOf[current[t]] = t
    BY <1>1, NoneAssumption DEF IInv, ObjectsHeld
<1>3. ASSUME NEW t \in Topics
      PROVE  streams[t] = IF current[t] \in listening THEN {current[t]} ELSE {}
  <2>1. streams[t] = {o \in listening : topicOf[o] = t}
      BY DEF streams
  <2> QED
      BY <1>1, <1>2, <2>1
<1> QED
    BY <1>1, <1>3

(* Listeners stay where they are. *)
LEMMA SameStreams ==
    ASSUME UNCHANGED listening, \A o \in listening : topicOf'[o] = topicOf[o]
    PROVE  streams' = streams
    BY DEF streams

(* The current object of a topic loses its listeners. *)
LEMMA DetachStep ==
    ASSUME IInv, NEW t \in Topics, listening' = listening \ {current[t]},
           UNCHANGED <<topicOf, phase>>
    PROVE  Gate!Detach(t)
<1>1. ASSUME NEW x \in Topics PROVE streams'[x] = IF x = t THEN {} ELSE streams[x]
  <2>1. /\ streams[x] = {o \in listening : topicOf[o] = x}
        /\ streams'[x] = {o \in listening : topicOf[o] = x} \ {current[t]}
      BY DEF streams
  <2>2. CASE x = t
      BY <2>1, <2>2, StreamsAreCurrent
  <2>3. CASE x # t
    <3>1. current[t] \in listening => topicOf[current[t]] = t
        BY NoneAssumption DEF IInv, TypeOK, ObjectsHeld
    <3> QED
        BY <2>1, <2>3, <3>1
  <2> QED
      BY <2>2, <2>3
<1>2. streams' = [streams EXCEPT ![t] = {}]
    BY <1>1 DEF streams
<1> QED
    BY <1>2 DEF Gate!Detach

(* An attempt attaches listeners to an object of a topic that has none. *)
LEMMA AttachStep ==
    ASSUME IInv, NEW o \in Objects, stage[o] = "ready", Attach(o), UNCHANGED <<topicOf, phase>>
    PROVE  Gate!Attach(topicOf[o], o)
<1> DEFINE t == topicOf[o]
<1>1. t \in Topics /\ opening[t]
    BY DEF IInv, AttemptsExclude, Attempting
<1>2. phase = "running" /\ t \in booted
    BY <1>1 DEF IInv, UnbootedUntouched, Attach, isShuttingDown
<1>3. current[t] = None
    BY <1>1, <1>2 DEF IInv, OneRecoveryPath, isShuttingDown
<1>4. streams[t] = {}
    BY <1>1, <1>3, StreamsAreCurrent, NoneAssumption DEF IInv, TypeOK
<1>5. listening' = listening \cup {o}
    BY DEF Attach, AttachAlways
<1>6. ASSUME NEW x \in Topics PROVE streams'[x] = IF x = t THEN {o} ELSE streams[x]
  <2>1. /\ streams[x] = {p \in listening : topicOf[p] = x}
        /\ streams'[x] = {p \in listening \cup {o} : topicOf[p] = x}
      BY <1>5 DEF streams
  <2>2. CASE x = t
      BY <1>4, <2>1, <2>2
  <2>3. CASE x # t
      BY <2>1, <2>3
  <2> QED
      BY <2>2, <2>3
<1>7. streams' = [streams EXCEPT ![t] = {o}]
    BY <1>6 DEF streams
<1> QED
    BY <1>2, <1>4, <1>7 DEF Gate!Attach

(* When the client is closed, every topic has been visited. *)
LEMMA CloseStep == ASSUME IInv, EndShutdown PROVE Gate!Close
<1>1. phase = "stopping" /\ states \subseteq visited /\ phase' = "closed" /\ streams' = streams
    BY DEF EndShutdown, objects, streams
<1>2. ASSUME NEW o \in listening PROVE FALSE
  <2>1. topicOf[o] \in Topics /\ current[topicOf[o]] = o /\ o # None
      BY StreamsAreCurrent, NoneAssumption DEF IInv, TypeOK
  <2>2. topicOf[o] \in states
      BY <1>1, <2>1 DEF IInv, UnbootedUntouched
  <2> QED
      BY <1>1, <2>2 DEF IInv, ShutdownProgress
<1>3. streams = [t \in Topics |-> {}]
    BY <1>2 DEF streams
<1> QED
    BY <1>1, <1>3 DEF Gate!Close

LEMMA GateSimulation == IInv /\ [Next]_vars => [Gate!GateNext]_Gate!gate
<1> SUFFICES ASSUME IInv, [Next]_vars PROVE Gate!GateNext \/ UNCHANGED Gate!gate
    OBVIOUS
<1>1. ASSUME NEW t \in Topics, BootNext(t) \/ TimerFires(t) PROVE UNCHANGED Gate!gate
  <2>1. /\ UNCHANGED <<phase, listening>>
        /\ UNCHANGED topicOf \/ \E o \in Objects : BeginAttempt(t, o)
      BY <1>1 DEF BootNext, TimerFires
  <2>2. \A o \in listening : topicOf'[o] = topicOf[o]
      BY <2>1 DEF BeginAttempt, IInv, TypeOK
  <2> QED
      BY <2>1, <2>2, SameStreams DEF Gate!gate
<1>2. ASSUME UNCHANGED <<phase, listening, topicOf>> PROVE UNCHANGED Gate!gate
    BY <1>2, SameStreams DEF Gate!gate
<1>3. ASSUME NEW o \in Objects, OpenDone(o) PROVE Gate!GateNext \/ UNCHANGED Gate!gate
  <2>1. CASE Attach(o)
    <3>1. Gate!Attach(topicOf[o], o) /\ topicOf[o] \in Topics
        BY <1>3, <2>1, AttachStep DEF OpenDone, IInv, AttemptsExclude, Attempting
    <3> QED
        BY <3>1 DEF Gate!GateNext
  <2>2. CASE OpenedTooLate(o)
      BY <1>2, <1>3, <2>2 DEF OpenDone, OpenedTooLate
  <2> QED
      BY <1>3, <2>1, <2>2 DEF OpenDone
<1>4. ASSUME NEW o \in Objects, StreamFails(o) PROVE Gate!GateNext
  <2>1. topicOf[o] \in Topics /\ current[topicOf[o]] = o
      BY <1>4, StreamsAreCurrent DEF StreamFails
  <2>2. Gate!Detach(topicOf[o])
      BY <1>4, <2>1, DetachStep DEF StreamFails
  <2> QED
      BY <2>1, <2>2 DEF Gate!GateNext
<1>5. ASSUME NEW t \in Topics, DisposeNext(t) PROVE Gate!GateNext
    BY <1>5, DetachStep DEF DisposeNext, Gate!GateNext
<1>6. CASE BeginShutdown
    BY <1>6 DEF BeginShutdown, objects, streams, Gate!Stop, Gate!GateNext
<1>7. CASE EndShutdown
    BY <1>7, CloseStep DEF Gate!GateNext
<1>8. ASSUME \/ \E o \in Objects : ExistsAnswered(o) \/ CreateAnswered(o) \/ OpenFailed(o)
             \/ \E o \in Objects : Closed(o)
             \/ Fault \/ DisposalClosed \/ DisposalDeleted \/ UNCHANGED vars
      PROVE  UNCHANGED <<phase, listening, topicOf>>
    BY <1>8 DEF ExistsAnswered, CreateAnswered, OpenFailed, Closed, Fault, ResourceLost,
       CallFails, DisposalClosed, DisposalDeleted, objects, vars
<1> QED
    BY <1>1, <1>2, <1>3, <1>4, <1>5, <1>6, <1>7, <1>8
       DEF Next, Boot, Reconnect, Open, Shutdown

-----------------------------------------------------------------------------
(* The invariant holds in every reachable state. *)
THEOREM Invariance == Spec => []IInv
    BY InitIInv, NextIInv, PTL DEF Spec

(* The state keeps its types; the delay stays between its initial value and
   its cap. *)
THEOREM TypeCorrectness == Spec => []TypeOK
<1>1. IInv => TypeOK
    BY DEF IInv
<1>2. QED
    BY <1>1, Invariance, PTL

(* While the replica runs, each topic has exactly one of a timer, an attempt
   and a current subscription, whatever fails and whenever. *)
THEOREM RecoveryPath == Spec => []OneRecoveryPath
<1>1. IInv => OneRecoveryPath
    BY DEF IInv
<1>2. QED
    BY <1>1, Invariance, PTL

(* A subscription with listeners is the current one of its topic. *)
OneStream == \A o \in listening : current[topicOf[o]] = o

(* So it is, and no topic has two of them. *)
THEOREM Streams == Spec => []OneStream
<1>1. IInv => OneStream
    BY DEF IInv, TypeOK, ObjectsHeld, OneStream
<1>2. QED
    BY <1>1, Invariance, PTL

(* The runtime is a HandlerStreams, in which a handler never has two streams,
   and none is attached during a shutdown or left after it. *)
THEOREM Gated == Spec => OneStreamAtATime
<1>1. Init => Gate!GateInit
    BY DEF Init, Gate!GateInit, streams
<1>2. IInv /\ [Next]_vars => [Gate!GateNext]_Gate!gate
    BY GateSimulation
<1>3. QED
    BY <1>1, <1>2, Invariance, PTL DEF Spec, OneStreamAtATime, Gate!GateSpec

(* After a shutdown no listener, no timer and no current subscription is left,
   not even of a topic that was opening when it began. *)
THEOREM Quiet == Spec => []QuietAfterShutdown
<1>1. IInv => QuietAfterShutdown
  <2> SUFFICES ASSUME IInv, phase = "closed"
               PROVE  /\ listening = {}
                      /\ \A t \in Topics : ~timer[t] /\ current[t] = None
                      /\ \A o \in Objects : stage[o] # "open"
      BY DEF QuietAfterShutdown
  <2>1. \A t \in Topics : ~timer[t] /\ current[t] = None
      BY IdleType, NoneAssumption DEF IInv, ShutdownProgress, Disposed
  <2>2. \A o \in Objects : stage[o] # "open"
      BY <2>1, NoneAssumption DEF IInv, ObjectsHeld
  <2>3. listening = {}
      BY <2>2 DEF IInv, TypeOK, ObjectsHeld
  <2> QED
      BY <2>1, <2>2, <2>3
<1>2. QED
    BY <1>1, Invariance, PTL

(* A shutdown leaves a subscription at Pub/Sub only of a topic that was opening
   or whose delete failed. *)
THEOREM LeftBehind == Spec => []LeftBehindOnlyIfExcused
<1>1. IInv => LeftBehindOnlyIfExcused
    BY IdleType, NoneAssumption
       DEF IInv, TypeOK, ShutdownProgress, Disposed, LeftBehindOnlyIfExcused
<1>2. QED
    BY <1>1, Invariance, PTL
=============================================================================
