----------------------------- MODULE OutboxProofs -----------------------------
(***************************************************************************)
(* Theorems about Outbox, for every number of events, replicas and faults, *)
(* every batch size, lease and list of retry delays.                       *)
(***************************************************************************)
EXTENDS Outbox, TLAPS

-----------------------------------------------------------------------------
(* The inductive invariant *)

(* An instance works on an event of its batch, and knows that the topic    *)
(* has it when it is about to mark it published.                           *)
CurrentHeld ==
    \A i \in Instances :
        /\ phase[i] \in {"sent", "failed"} => cur[i] \in Events /\ batch[i][cur[i]] > 0
        /\ phase[i] = "sent" => sends[cur[i]] > 0

(* Only committed rows are claimed. *)
HeldCommitted ==
    \A i \in Instances, e \in Events : batch[i][e] > 0 => status[e] # "absent"

(* The lease excludes: an event without an excuse is in one batch at most, *)
(* as long as its row is pending and not due.                              *)
LeaseExcludes ==
    \A i \in Instances, e \in Events :
        e \notin excused /\ batch[i][e] > 0 =>
            /\ status[e] = "pending" /\ wait[e] > 0
            /\ \A j \in Instances : j # i => batch[j][e] = 0

(* The row of an event that an instance has in time is not due, and every  *)
(* other instance that still has the event is overdue with it.             *)
OneInTime ==
    \A i \in Instances, e \in Events :
        batch[i][e] > 0 /\ e \notin overdue[i] =>
            /\ wait[e] > 0
            /\ \A j \in Instances : j # i /\ batch[j][e] > 0 => e \in overdue[j]

(* An event without an excuse was sent once at most, and then its row is   *)
(* published or about to be.                                               *)
SentOnce ==
    \A e \in Events : e \notin excused =>
        /\ sends[e] <= 1
        /\ sends[e] = 1 =>
            status[e] = "published" \/ \E i \in Instances : phase[i] = "sent" /\ cur[i] = e

IInv == TypeOK /\ CurrentHeld /\ HeldCommitted /\ LeaseExcludes /\ OneInTime /\ SentOnce

-----------------------------------------------------------------------------
USE CountsAssumption, KeyOfAssumption, NoneAssumption DEF holds

LEMMA DelaysType ==
    /\ Lease \in Nat /\ Lease > 0 /\ Lease \in Waits /\ 0 \in Waits
    /\ MaxAttempts \in Nat /\ MaxAttempts > 0
    /\ Waits \subseteq Nat
    /\ \A w \in Waits : w > 0 => w - 1 \in Waits
<1>1. /\ Lease \in Nat /\ Lease > 0
      /\ Len(RetryDelays) \in Nat /\ Len(RetryDelays) > 0 /\ MaxAttempts >= Len(RetryDelays)
      /\ \A n \in 1 .. Len(RetryDelays) : RetryDelays[n] \in Nat
    BY DelaysAssumption
<1>2. MaxAttempts \in Nat /\ MaxAttempts > 0
    BY <1>1, DelaysAssumption
<1>3. ASSUME NEW w \in Waits PROVE w \in Nat /\ (w > 0 => w - 1 \in Waits)
    <2>1. CASE w \in 0 .. Lease
        BY <1>1, <2>1 DEF Waits
    <2>2. ASSUME NEW n \in 1 .. Len(RetryDelays), w \in 0 .. RetryDelays[n]
          PROVE  w \in Nat /\ (w > 0 => w - 1 \in Waits)
        BY <1>1, <2>2 DEF Waits
    <2> QED
        BY <2>1, <2>2 DEF Waits
<1> QED
    BY <1>1, <1>2, <1>3 DEF Waits

(* Every attempt has its delay. *)
LEMMA RetryDelayType ==
    \A a \in 1 .. MaxAttempts : getRetryDelay(a) \in Waits /\ getRetryDelay(a) > 0
<1>1. /\ Len(RetryDelays) \in Nat /\ Len(RetryDelays) > 0
      /\ \A n \in 1 .. Len(RetryDelays) : RetryDelays[n] \in Nat /\ RetryDelays[n] > 0
    BY DelaysAssumption
<1> SUFFICES ASSUME NEW a \in Nat, a >= 1
             PROVE  getRetryDelay(a) \in Waits /\ getRetryDelay(a) > 0
    BY DelaysType
<1>2. PICK n \in 1 .. Len(RetryDelays) : getRetryDelay(a) = RetryDelays[n]
    BY <1>1 DEF getRetryDelay
<1> QED
    BY <1>1, <1>2 DEF Waits

LEMMA NextAttemptType ==
    ASSUME TypeOK, NEW e \in Events
    PROVE  NextAttempt(e) \in 1 .. MaxAttempts
    BY DelaysType DEF TypeOK, NextAttempt

(* The topic receives one more of one event. *)
LEMMA ReceivedType ==
    ASSUME TypeOK, NEW e \in Events
    PROVE  /\ Received(e) \in [Events -> 0 .. 2]
           /\ Received(e)[e] > 0 /\ (sends[e] = 0 => Received(e)[e] = 1)
           /\ \A d \in Events : d # e => Received(e)[d] = sends[d]
<1>1. sends \in [Events -> 0 .. 2]
    BY DEF TypeOK
<1>2. (IF sends[e] < 2 THEN sends[e] + 1 ELSE 2) \in 1 .. 2
    BY <1>1
<1> QED
    BY <1>1, <1>2 DEF Received

(* Only due rows are claimed. *)
LEMMA ClaimableDue ==
    ASSUME NEW i \in Instances, NEW claimed \in Claimable(i)
    PROVE  claimed \subseteq Due
    BY DEF Claimable, Oldest

-----------------------------------------------------------------------------
(* Every step preserves the invariant, one lemma for each action. *)
LEMMA CommitStep == ASSUME IInv, NEW e \in Events, Commit(e) PROVE IInv'
<1>1. TypeOK'
  <2>1. (status \in [Events -> {"absent", "pending", "published"}])'
      BY DEF TypeOK, Commit, IInv
  <2>2. (attempts \in [Events -> 0 .. MaxAttempts])'
      BY DEF TypeOK, Commit, IInv
  <2>3. (wait \in [Events -> Waits])'
      BY DEF TypeOK, Commit, IInv
  <2>4. (sends \in [Events -> 0 .. 2])'
      BY DEF TypeOK, Commit, IInv
  <2>5. (polling \subseteq Instances /\ phase \in [Instances -> Phases])'
      BY DEF publishers, TypeOK, Commit, IInv
  <2>6. (batch \in [Instances -> [Events -> 0 .. MaxAttempts]])'
      BY DEF publishers, TypeOK, Commit, IInv
  <2>7. (cur \in [Instances -> Events \cup {None}])'
      BY DEF publishers, TypeOK, Commit, IInv
  <2>8. (paused \in [Instances -> SUBSET Keys])'
      BY DEF publishers, TypeOK, Commit, IInv
  <2>9. (faults \in 0 .. MaxFaults /\ excused \subseteq Events)'
      BY DEF ghosts, TypeOK, Commit, IInv
  <2>10. (overdue \in [Instances -> SUBSET Events])'
      BY DEF publishers, TypeOK, Commit, IInv
  <2> QED
      BY <2>1, <2>2, <2>3, <2>4, <2>5, <2>6, <2>7, <2>8, <2>9, <2>10
         DEF TypeOK
<1>2. CurrentHeld'
    BY DEF publishers, CurrentHeld, Commit, IInv
<1>3. HeldCommitted'
    BY DEF publishers, HeldCommitted, Commit, IInv
<1>4. LeaseExcludes'
    BY DEF publishers, ghosts, LeaseExcludes, Commit, IInv
<1>5. SentOnce'
    BY DEF publishers, ghosts, SentOnce, Commit, IInv
<1>6. OneInTime'
    BY DEF publishers, ghosts, OneInTime, Commit, IInv
<1> QED
    BY <1>1, <1>2, <1>3, <1>4, <1>5, <1>6 DEF IInv

LEMMA ClaimStep == ASSUME IInv, NEW i \in Instances, Claim(i) PROVE IInv'
<1>1. PICK claimed \in Claimable(i) :
        /\ ClaimRows(claimed)
        /\ batch' = [batch EXCEPT ![i] =
                        [e \in Events |-> IF e \in claimed THEN NextAttempt(e) ELSE 0]]
    BY DEF Claim
<1>2. claimed \subseteq Due
    BY ClaimableDue
<1>3. phase[i] = "idle"
    BY DEF Claimable
<1>4. TypeOK'
  <2>1. (status \in [Events -> {"absent", "pending", "published"}])'
      BY DEF TypeOK, Claim, IInv
  <2>2. (attempts \in [Events -> 0 .. MaxAttempts])'
      BY NextAttemptType DEF ClaimRows, TypeOK, Claim, IInv
  <2>3. (wait \in [Events -> Waits])'
      BY DelaysType DEF ClaimRows, TypeOK, Claim, IInv
  <2>4. (sends \in [Events -> 0 .. 2])'
      BY DEF TypeOK, Claim, IInv
  <2>5. (polling \subseteq Instances /\ phase \in [Instances -> Phases])'
      BY DEF Phases, TypeOK, Claim, IInv
  <2>6. (batch \in [Instances -> [Events -> 0 .. MaxAttempts]])'
      BY DelaysType, NextAttemptType DEF TypeOK, Claim, IInv
  <2>7. (cur \in [Instances -> Events \cup {None}])'
      BY DEF TypeOK, Claim, IInv
  <2>8. (paused \in [Instances -> SUBSET Keys])'
      BY DEF TypeOK, Claim, IInv
  <2>9. (faults \in 0 .. MaxFaults /\ excused \subseteq Events)'
      BY DEF ghosts, TypeOK, Claim, IInv
  <2>10. (overdue \in [Instances -> SUBSET Events])'
      BY DelaysType, NextAttemptType DEF TypeOK, Claim, IInv
  <2> QED
      BY <2>1, <2>2, <2>3, <2>4, <2>5, <2>6, <2>7, <2>8, <2>9, <2>10
         DEF TypeOK
<1>5. CurrentHeld'
    BY DEF TypeOK, CurrentHeld, Claim, IInv
<1>6. HeldCommitted'
    BY <1>1, <1>2 DEF Due, HeldCommitted, Claim, IInv
<1>7. LeaseExcludes'
    BY DelaysType, <1>1, <1>2, <1>3 DEF ClaimRows, Due, ghosts, TypeOK,
       LeaseExcludes, Claim, IInv
<1>8. SentOnce'
    BY <1>3 DEF ghosts, SentOnce, Claim, IInv
<1>9. OneInTime'
    BY DelaysType, <1>1, <1>2, <1>3 DEF ClaimRows, Due, ghosts, TypeOK,
       OneInTime, Claim, IInv
<1> QED
    BY <1>4, <1>5, <1>6, <1>7, <1>8, <1>9 DEF IInv

LEMMA ClaimLostStep ==
    ASSUME IInv, NEW i \in Instances, ClaimLost(i)
    PROVE IInv'
<1>1. PICK claimed \in Claimable(i) :
        /\ ClaimRows(claimed)
    BY DEF ClaimLost
<1>2. claimed \subseteq Due
    BY ClaimableDue
<1>3. UNCHANGED <<status, sends, publishers>> /\ Fault({})
    BY DEF ClaimLost
<1>4. TypeOK'
  <2>1. (status \in [Events -> {"absent", "pending", "published"}])'
      BY DEF TypeOK, ClaimLost, IInv
  <2>2. (attempts \in [Events -> 0 .. MaxAttempts])'
      BY NextAttemptType DEF ClaimRows, TypeOK, ClaimLost, IInv
  <2>3. (wait \in [Events -> Waits])'
      BY DelaysType DEF ClaimRows, TypeOK, ClaimLost, IInv
  <2>4. (sends \in [Events -> 0 .. 2])'
      BY DEF TypeOK, ClaimLost, IInv
  <2>5. (polling \subseteq Instances /\ phase \in [Instances -> Phases])'
      BY DEF publishers, TypeOK, ClaimLost, IInv
  <2>6. (batch \in [Instances -> [Events -> 0 .. MaxAttempts]])'
      BY DEF publishers, TypeOK, ClaimLost, IInv
  <2>7. (cur \in [Instances -> Events \cup {None}])'
      BY DEF publishers, TypeOK, ClaimLost, IInv
  <2>8. (paused \in [Instances -> SUBSET Keys])'
      BY DEF publishers, TypeOK, ClaimLost, IInv
  <2>9. (faults \in 0 .. MaxFaults /\ excused \subseteq Events)'
      BY DEF Fault, TypeOK, ClaimLost, IInv
  <2>10. (overdue \in [Instances -> SUBSET Events])'
      BY DEF publishers, TypeOK, ClaimLost, IInv
  <2> QED
      BY <2>1, <2>2, <2>3, <2>4, <2>5, <2>6, <2>7, <2>8, <2>9, <2>10
         DEF TypeOK
<1>5. CurrentHeld'
    BY DEF publishers, CurrentHeld, ClaimLost, IInv
<1>6. HeldCommitted'
    BY DEF publishers, HeldCommitted, ClaimLost, IInv
<1>7. LeaseExcludes'
    BY <1>1, <1>2 DEF ClaimRows, Due, publishers, Fault, LeaseExcludes,
       ClaimLost, IInv
<1>8. SentOnce'
    BY DEF publishers, Fault, SentOnce, ClaimLost, IInv
<1>9. OneInTime'
    BY <1>1, <1>2 DEF ClaimRows, Due, publishers, Fault, OneInTime,
       ClaimLost, IInv
<1> QED
    BY <1>4, <1>5, <1>6, <1>7, <1>8, <1>9 DEF IInv

LEMMA SendOkStep == ASSUME IInv, NEW i \in Instances, SendOk(i) PROVE IInv'
<1>1. PICK e \in Batch(i) :
        sends' = Received(e) /\ cur' = [cur EXCEPT ![i] = e]
    BY DEF SendOk
<1>2. e \in Events /\ batch[i][e] > 0
    BY <1>1 DEF Batch
<1>3. /\ sends' \in [Events -> 0 .. 2] /\ sends'[e] > 0
      /\ sends[e] = 0 => sends'[e] = 1
      /\ \A d \in Events : d # e => sends'[d] = sends[d]
    BY <1>1, <1>2, ReceivedType DEF IInv
<1>4. phase[i] = "publishing" /\ phase' = [phase EXCEPT ![i] = "sent"]
    BY DEF SendOk
<1>5. UNCHANGED <<status, attempts, wait, polling, holds, paused, faults, excused>>
    BY DEF SendOk, rows, ghosts
<1>6. TypeOK'
    BY <1>1, <1>2, <1>3, <1>4, <1>5 DEF Phases, TypeOK, IInv
<1>7. CurrentHeld'
    BY <1>1, <1>2, <1>3, <1>4, <1>5 DEF TypeOK, CurrentHeld, IInv
<1>8. HeldCommitted'
    BY <1>5 DEF HeldCommitted, IInv
<1>9. LeaseExcludes'
    BY <1>5 DEF LeaseExcludes, IInv
<1>10. SentOnce'
  <2>1. ASSUME e \notin excused PROVE sends'[e] = 1
    <3>1. ~ \E j \in Instances : phase[j] = "sent" /\ cur[j] = e
        BY <1>2, <1>4, <2>1 DEF CurrentHeld, LeaseExcludes, IInv
    <3>2. sends[e] \in 0 .. 2 /\ sends[e] <= 1 /\ sends[e] # 1
        BY <1>2, <2>1, <3>1 DEF TypeOK, LeaseExcludes, SentOnce, IInv
    <3> QED
        BY <1>3, <3>2
  <2>2. cur'[i] = e /\ phase'[i] = "sent"
      BY <1>1, <1>4 DEF TypeOK, IInv
  <2>3. ASSUME NEW d \in Events, d # e, d \notin excused, sends[d] = 1
        PROVE  status[d] = "published" \/ \E j \in Instances : phase'[j] = "sent" /\ cur'[j] = d
    <3>1. CASE status[d] = "published"
        BY <3>1
    <3>2. ASSUME NEW j \in Instances, phase[j] = "sent", cur[j] = d
          PROVE  phase'[j] = "sent" /\ cur'[j] = d
        BY <1>1, <1>4, <3>2
    <3> QED
        BY <2>3, <3>2 DEF SentOnce, IInv
  <2> QED
      BY <1>3, <1>5, <2>1, <2>2, <2>3 DEF SentOnce, IInv
<1>11. OneInTime'
    BY <1>5 DEF OneInTime, IInv
<1> QED
    BY <1>6, <1>7, <1>8, <1>9, <1>10, <1>11 DEF IInv

LEMMA SendFailsStep ==
    ASSUME IInv, NEW i \in Instances, SendFails(i)
    PROVE IInv'
<1>1. TypeOK'
  <2>1. (status \in [Events -> {"absent", "pending", "published"}])'
      BY DEF rows, TypeOK, SendFails, IInv
  <2>2. (attempts \in [Events -> 0 .. MaxAttempts])'
      BY DEF rows, TypeOK, SendFails, IInv
  <2>3. (wait \in [Events -> Waits])'
      BY DEF rows, TypeOK, SendFails, IInv
  <2>4. (sends \in [Events -> 0 .. 2])'
      BY ReceivedType DEF Batch, TypeOK, SendFails, IInv
  <2>5. (polling \subseteq Instances /\ phase \in [Instances -> Phases])'
      BY DEF Phases, TypeOK, SendFails, IInv
  <2>6. (batch \in [Instances -> [Events -> 0 .. MaxAttempts]])'
      BY DEF TypeOK, SendFails, IInv
  <2>7. (cur \in [Instances -> Events \cup {None}])'
      BY DEF Batch, TypeOK, SendFails, IInv
  <2>8. (paused \in [Instances -> SUBSET Keys])'
      BY DEF Batch, TypeOK, SendFails, IInv
  <2>9. (faults \in 0 .. MaxFaults /\ excused \subseteq Events)'
      BY DEF Batch, Fault, TypeOK, SendFails, IInv
  <2>10. (overdue \in [Instances -> SUBSET Events])'
      BY DEF TypeOK, SendFails, IInv
  <2> QED
      BY <2>1, <2>2, <2>3, <2>4, <2>5, <2>6, <2>7, <2>8, <2>9, <2>10
         DEF TypeOK
<1>2. CurrentHeld'
  <2>1. PICK e \in Batch(i) :
          cur' = [cur EXCEPT ![i] = e] /\ (sends' = Received(e) \/ UNCHANGED sends)
      BY DEF SendFails
  <2>2. e \in Events /\ batch[i][e] > 0
      BY <2>1 DEF Batch
  <2>3. \A d \in Events : sends[d] > 0 => sends'[d] > 0
      BY <2>1, <2>2, ReceivedType DEF IInv
  <2>4. phase' = [phase EXCEPT ![i] = "failed"] /\ UNCHANGED batch
      BY DEF SendFails
  <2> QED
      BY <2>1, <2>2, <2>3, <2>4 DEF TypeOK, CurrentHeld, IInv
<1>3. HeldCommitted'
    BY DEF rows, HeldCommitted, SendFails, IInv
<1>4. LeaseExcludes'
    BY DEF rows, Fault, LeaseExcludes, SendFails, IInv
<1>5. SentOnce'
    BY ReceivedType DEF rows, Batch, Fault, SentOnce, SendFails, IInv
<1>6. OneInTime'
    BY DEF rows, Fault, OneInTime, SendFails, IInv
<1> QED
    BY <1>1, <1>2, <1>3, <1>4, <1>5, <1>6 DEF IInv

LEMMA SendRefusedStep ==
    ASSUME IInv, NEW i \in Instances, SendRefused(i)
    PROVE IInv'
<1>1. TypeOK'
  <2>1. (status \in [Events -> {"absent", "pending", "published"}])'
      BY DEF rows, TypeOK, SendRefused, IInv
  <2>2. (attempts \in [Events -> 0 .. MaxAttempts])'
      BY DEF rows, TypeOK, SendRefused, IInv
  <2>3. (wait \in [Events -> Waits])'
      BY DEF rows, TypeOK, SendRefused, IInv
  <2>4. (sends \in [Events -> 0 .. 2])'
      BY DEF TypeOK, SendRefused, IInv
  <2>5. (polling \subseteq Instances /\ phase \in [Instances -> Phases])'
      BY DEF Phases, TypeOK, SendRefused, IInv
  <2>6. (batch \in [Instances -> [Events -> 0 .. MaxAttempts]])'
      BY DEF TypeOK, SendRefused, IInv
  <2>7. (cur \in [Instances -> Events \cup {None}])'
      BY DEF Batch, TypeOK, SendRefused, IInv
  <2>8. (paused \in [Instances -> SUBSET Keys])'
      BY DEF TypeOK, SendRefused, IInv
  <2>9. (faults \in 0 .. MaxFaults /\ excused \subseteq Events)'
      BY DEF ghosts, TypeOK, SendRefused, IInv
  <2>10. (overdue \in [Instances -> SUBSET Events])'
      BY DEF TypeOK, SendRefused, IInv
  <2> QED
      BY <2>1, <2>2, <2>3, <2>4, <2>5, <2>6, <2>7, <2>8, <2>9, <2>10
         DEF TypeOK
<1>2. CurrentHeld'
    BY DEF Batch, TypeOK, CurrentHeld, SendRefused, IInv
<1>3. HeldCommitted'
    BY DEF rows, HeldCommitted, SendRefused, IInv
<1>4. LeaseExcludes'
    BY DEF rows, ghosts, LeaseExcludes, SendRefused, IInv
<1>5. SentOnce'
    BY DEF rows, ghosts, SentOnce, SendRefused, IInv
<1>6. OneInTime'
    BY DEF rows, ghosts, OneInTime, SendRefused, IInv
<1> QED
    BY <1>1, <1>2, <1>3, <1>4, <1>5, <1>6 DEF IInv

LEMMA markEventPublishedStep ==
    ASSUME IInv, NEW i \in Instances, markEventPublished(i)
    PROVE IInv'
<1>1. TypeOK'
  <2>1. (status \in [Events -> {"absent", "pending", "published"}])'
      BY DEF TypeOK, markEventPublished, IInv
  <2>2. (attempts \in [Events -> 0 .. MaxAttempts])'
      BY DEF TypeOK, markEventPublished, IInv
  <2>3. (wait \in [Events -> Waits])'
      BY DEF TypeOK, markEventPublished, IInv
  <2>4. (sends \in [Events -> 0 .. 2])'
      BY DEF TypeOK, markEventPublished, IInv
  <2>5. (polling \subseteq Instances /\ phase \in [Instances -> Phases])'
      BY DEF NextOfBatch, Phases, TypeOK, markEventPublished, IInv
  <2>6. (batch \in [Instances -> [Events -> 0 .. MaxAttempts]])'
      BY DelaysType DEF NextOfBatch, CurrentHeld, TypeOK,
         markEventPublished, IInv
  <2>7. (cur \in [Instances -> Events \cup {None}])'
      BY DEF NextOfBatch, TypeOK, markEventPublished, IInv
  <2>8. (paused \in [Instances -> SUBSET Keys])'
      BY DEF TypeOK, markEventPublished, IInv
  <2>9. (faults \in 0 .. MaxFaults /\ excused \subseteq Events)'
      BY DEF ghosts, TypeOK, markEventPublished, IInv
  <2>10. (overdue \in [Instances -> SUBSET Events])'
      BY DelaysType DEF NextOfBatch, CurrentHeld, TypeOK,
         markEventPublished, IInv
  <2> QED
      BY <2>1, <2>2, <2>3, <2>4, <2>5, <2>6, <2>7, <2>8, <2>9, <2>10
         DEF TypeOK
<1>2. CurrentHeld'
    BY DEF NextOfBatch, TypeOK, CurrentHeld, markEventPublished, IInv
<1>3. HeldCommitted'
    BY DEF NextOfBatch, HeldCommitted, markEventPublished, IInv
<1>4. LeaseExcludes'
    BY DEF NextOfBatch, ghosts, TypeOK, CurrentHeld, LeaseExcludes,
       markEventPublished, IInv
<1>5. SentOnce'
    BY DEF NextOfBatch, ghosts, TypeOK, SentOnce, markEventPublished, IInv
<1>6. OneInTime'
    BY DEF NextOfBatch, ghosts, TypeOK, CurrentHeld, OneInTime,
       markEventPublished, IInv
<1> QED
    BY <1>1, <1>2, <1>3, <1>4, <1>5, <1>6 DEF IInv

LEMMA MarkPublishedFailsStep ==
    ASSUME IInv, NEW i \in Instances, MarkPublishedFails(i)
    PROVE IInv'
<1>1. TypeOK'
  <2>1. (status \in [Events -> {"absent", "pending", "published"}])'
      BY DEF rows, TypeOK, MarkPublishedFails, IInv
  <2>2. (attempts \in [Events -> 0 .. MaxAttempts])'
      BY DEF rows, TypeOK, MarkPublishedFails, IInv
  <2>3. (wait \in [Events -> Waits])'
      BY DEF rows, TypeOK, MarkPublishedFails, IInv
  <2>4. (sends \in [Events -> 0 .. 2])'
      BY DEF TypeOK, MarkPublishedFails, IInv
  <2>5. (polling \subseteq Instances /\ phase \in [Instances -> Phases])'
      BY DEF Phases, TypeOK, MarkPublishedFails, IInv
  <2>6. (batch \in [Instances -> [Events -> 0 .. MaxAttempts]])'
      BY DEF TypeOK, MarkPublishedFails, IInv
  <2>7. (cur \in [Instances -> Events \cup {None}])'
      BY DEF TypeOK, MarkPublishedFails, IInv
  <2>8. (paused \in [Instances -> SUBSET Keys])'
      BY DEF TypeOK, MarkPublishedFails, IInv
  <2>9. (faults \in 0 .. MaxFaults /\ excused \subseteq Events)'
      BY DEF Fault, CurrentHeld, TypeOK, MarkPublishedFails, IInv
  <2>10. (overdue \in [Instances -> SUBSET Events])'
      BY DEF TypeOK, MarkPublishedFails, IInv
  <2> QED
      BY <2>1, <2>2, <2>3, <2>4, <2>5, <2>6, <2>7, <2>8, <2>9, <2>10
         DEF TypeOK
<1>2. CurrentHeld'
    BY DEF CurrentHeld, MarkPublishedFails, IInv
<1>3. HeldCommitted'
    BY DEF rows, HeldCommitted, MarkPublishedFails, IInv
<1>4. LeaseExcludes'
    BY DEF rows, Fault, LeaseExcludes, MarkPublishedFails, IInv
<1>5. SentOnce'
    BY DEF rows, Fault, SentOnce, MarkPublishedFails, IInv
<1>6. OneInTime'
    BY DEF rows, Fault, OneInTime, MarkPublishedFails, IInv
<1> QED
    BY <1>1, <1>2, <1>3, <1>4, <1>5, <1>6 DEF IInv

LEMMA markEventFailedStep ==
    ASSUME IInv, NEW i \in Instances, markEventFailed(i)
    PROVE IInv'
<1>1. TypeOK'
  <2>1. (status \in [Events -> {"absent", "pending", "published"}])'
      BY DEF TypeOK, markEventFailed, IInv
  <2>2. (attempts \in [Events -> 0 .. MaxAttempts])'
      BY DEF TypeOK, markEventFailed, IInv
  <2>3. (wait \in [Events -> Waits])'
      BY RetryDelayType DEF CurrentHeld, TypeOK, markEventFailed, IInv
  <2>4. (sends \in [Events -> 0 .. 2])'
      BY DEF TypeOK, markEventFailed, IInv
  <2>5. (polling \subseteq Instances /\ phase \in [Instances -> Phases])'
      BY DEF NextOfBatch, Phases, TypeOK, markEventFailed, IInv
  <2>6. (batch \in [Instances -> [Events -> 0 .. MaxAttempts]])'
      BY DelaysType DEF NextOfBatch, CurrentHeld, TypeOK, markEventFailed, IInv
  <2>7. (cur \in [Instances -> Events \cup {None}])'
      BY DEF NextOfBatch, TypeOK, markEventFailed, IInv
  <2>8. (paused \in [Instances -> SUBSET Keys])'
      BY DEF TypeOK, markEventFailed, IInv
  <2>9. (faults \in 0 .. MaxFaults /\ excused \subseteq Events)'
      BY DEF ghosts, TypeOK, markEventFailed, IInv
  <2>10. (overdue \in [Instances -> SUBSET Events])'
      BY DelaysType DEF NextOfBatch, CurrentHeld, TypeOK, markEventFailed, IInv
  <2> QED
      BY <2>1, <2>2, <2>3, <2>4, <2>5, <2>6, <2>7, <2>8, <2>9, <2>10
         DEF TypeOK
<1>2. CurrentHeld'
    BY DEF NextOfBatch, TypeOK, CurrentHeld, markEventFailed, IInv
<1>3. HeldCommitted'
    BY DEF NextOfBatch, HeldCommitted, markEventFailed, IInv
<1>4. LeaseExcludes'
    BY DEF NextOfBatch, ghosts, TypeOK, CurrentHeld, LeaseExcludes,
       markEventFailed, IInv
<1>5. SentOnce'
    BY DEF NextOfBatch, ghosts, SentOnce, markEventFailed, IInv
<1>6. OneInTime'
  <2>1. /\ cur[i] \in Events /\ batch[i][cur[i]] \in 1 .. MaxAttempts
        /\ wait \in [Events -> Waits] /\ batch \in [Instances -> [Events -> 0 .. MaxAttempts]]
        /\ overdue \in [Instances -> SUBSET Events]
      BY DelaysType DEF TypeOK, CurrentHeld, markEventFailed, IInv
  <2>2. \A e \in Events : wait[e] > 0 => wait'[e] > 0
      BY <2>1, RetryDelayType DEF markEventFailed
  <2>3. /\ batch' = [batch EXCEPT ![i][cur[i]] = 0]
        /\ overdue' = [overdue EXCEPT ![i] = @ \ {cur[i]}]
      BY DEF markEventFailed, NextOfBatch
  <2> QED
      BY <2>1, <2>2, <2>3 DEF OneInTime, IInv
<1> QED
    BY <1>1, <1>2, <1>3, <1>4, <1>5, <1>6 DEF IInv

LEMMA MarkFailedFailsStep ==
    ASSUME IInv, NEW i \in Instances, MarkFailedFails(i)
    PROVE IInv'
<1>1. TypeOK'
  <2>1. (status \in [Events -> {"absent", "pending", "published"}])'
      BY DEF rows, TypeOK, MarkFailedFails, IInv
  <2>2. (attempts \in [Events -> 0 .. MaxAttempts])'
      BY DEF rows, TypeOK, MarkFailedFails, IInv
  <2>3. (wait \in [Events -> Waits])'
      BY DEF rows, TypeOK, MarkFailedFails, IInv
  <2>4. (sends \in [Events -> 0 .. 2])'
      BY DEF TypeOK, MarkFailedFails, IInv
  <2>5. (polling \subseteq Instances /\ phase \in [Instances -> Phases])'
      BY DEF Phases, TypeOK, MarkFailedFails, IInv
  <2>6. (batch \in [Instances -> [Events -> 0 .. MaxAttempts]])'
      BY DelaysType DEF NoBatch, TypeOK, MarkFailedFails, IInv
  <2>7. (cur \in [Instances -> Events \cup {None}])'
      BY DEF TypeOK, MarkFailedFails, IInv
  <2>8. (paused \in [Instances -> SUBSET Keys])'
      BY DEF TypeOK, MarkFailedFails, IInv
  <2>9. (faults \in 0 .. MaxFaults /\ excused \subseteq Events)'
      BY DEF Fault, TypeOK, MarkFailedFails, IInv
  <2>10. (overdue \in [Instances -> SUBSET Events])'
      BY DelaysType DEF NoBatch, TypeOK, MarkFailedFails, IInv
  <2> QED
      BY <2>1, <2>2, <2>3, <2>4, <2>5, <2>6, <2>7, <2>8, <2>9, <2>10
         DEF TypeOK
<1>2. CurrentHeld'
    BY DEF TypeOK, CurrentHeld, MarkFailedFails, IInv
<1>3. HeldCommitted'
    BY DEF NoBatch, rows, HeldCommitted, MarkFailedFails, IInv
<1>4. LeaseExcludes'
    BY DEF NoBatch, rows, Fault, LeaseExcludes, MarkFailedFails, IInv
<1>5. SentOnce'
    BY DEF rows, Fault, SentOnce, MarkFailedFails, IInv
<1>6. OneInTime'
  <2>1. /\ UNCHANGED wait
        /\ batch' = [batch EXCEPT ![i] = NoBatch] /\ overdue' = [overdue EXCEPT ![i] = {}]
      BY DEF MarkFailedFails, rows
  <2>2. ASSUME NEW k \in Instances, NEW e \in Events, batch'[k][e] > 0
        PROVE  k # i /\ batch'[k] = batch[k] /\ overdue'[k] = overdue[k]
      BY <2>1, <2>2 DEF NoBatch, TypeOK, IInv
  <2> QED
      BY <2>1, <2>2 DEF OneInTime, IInv
<1> QED
    BY <1>1, <1>2, <1>3, <1>4, <1>5, <1>6 DEF IInv

LEMMA StopStep == ASSUME IInv, NEW i \in Instances, Stop(i) PROVE IInv'
<1>1. TypeOK'
  <2>1. (status \in [Events -> {"absent", "pending", "published"}])'
      BY DEF rows, TypeOK, Stop, IInv
  <2>2. (attempts \in [Events -> 0 .. MaxAttempts])'
      BY DEF rows, TypeOK, Stop, IInv
  <2>3. (wait \in [Events -> Waits])'
      BY DEF rows, TypeOK, Stop, IInv
  <2>4. (sends \in [Events -> 0 .. 2])'
      BY DEF TypeOK, Stop, IInv
  <2>5. (polling \subseteq Instances /\ phase \in [Instances -> Phases])'
      BY DEF TypeOK, Stop, IInv
  <2>6. (batch \in [Instances -> [Events -> 0 .. MaxAttempts]])'
      BY DEF TypeOK, Stop, IInv
  <2>7. (cur \in [Instances -> Events \cup {None}])'
      BY DEF TypeOK, Stop, IInv
  <2>8. (paused \in [Instances -> SUBSET Keys])'
      BY DEF TypeOK, Stop, IInv
  <2>9. (faults \in 0 .. MaxFaults /\ excused \subseteq Events)'
      BY DEF Fault, TypeOK, Stop, IInv
  <2>10. (overdue \in [Instances -> SUBSET Events])'
      BY DEF TypeOK, Stop, IInv
  <2> QED
      BY <2>1, <2>2, <2>3, <2>4, <2>5, <2>6, <2>7, <2>8, <2>9, <2>10
         DEF TypeOK
<1>2. CurrentHeld'
    BY DEF CurrentHeld, Stop, IInv
<1>3. HeldCommitted'
    BY DEF rows, HeldCommitted, Stop, IInv
<1>4. LeaseExcludes'
    BY DEF rows, Fault, LeaseExcludes, Stop, IInv
<1>5. SentOnce'
    BY DEF rows, Fault, SentOnce, Stop, IInv
<1>6. OneInTime'
    BY DEF rows, Fault, OneInTime, Stop, IInv
<1> QED
    BY <1>1, <1>2, <1>3, <1>4, <1>5, <1>6 DEF IInv

LEMMA CrashStep == ASSUME IInv, NEW i \in Instances, Crash(i) PROVE IInv'
<1>1. TypeOK'
  <2>1. (status \in [Events -> {"absent", "pending", "published"}])'
      BY DEF Gone, rows, TypeOK, Crash, IInv
  <2>2. (attempts \in [Events -> 0 .. MaxAttempts])'
      BY DEF Gone, rows, TypeOK, Crash, IInv
  <2>3. (wait \in [Events -> Waits])'
      BY DEF Gone, rows, TypeOK, Crash, IInv
  <2>4. (sends \in [Events -> 0 .. 2])'
      BY DEF Gone, TypeOK, Crash, IInv
  <2>5. (polling \subseteq Instances /\ phase \in [Instances -> Phases])'
      BY DEF Gone, Phases, TypeOK, Crash, IInv
  <2>6. (batch \in [Instances -> [Events -> 0 .. MaxAttempts]])'
      BY DelaysType DEF NoBatch, Gone, TypeOK, Crash, IInv
  <2>7. (cur \in [Instances -> Events \cup {None}])'
      BY DEF Gone, TypeOK, Crash, IInv
  <2>8. (paused \in [Instances -> SUBSET Keys])'
      BY DEF Gone, TypeOK, Crash, IInv
  <2>9. (faults \in 0 .. MaxFaults /\ excused \subseteq Events)'
      BY DEF Unmarked, Fault, CurrentHeld, TypeOK, Crash, IInv
  <2>10. (overdue \in [Instances -> SUBSET Events])'
      BY DelaysType DEF NoBatch, Gone, TypeOK, Crash, IInv
  <2> QED
      BY <2>1, <2>2, <2>3, <2>4, <2>5, <2>6, <2>7, <2>8, <2>9, <2>10
         DEF TypeOK
<1>2. CurrentHeld'
    BY DEF Gone, TypeOK, CurrentHeld, Crash, IInv
<1>3. HeldCommitted'
    BY DEF NoBatch, Gone, rows, HeldCommitted, Crash, IInv
<1>4. LeaseExcludes'
    BY DEF NoBatch, Gone, rows, Fault, LeaseExcludes, Crash, IInv
<1>5. SentOnce'
    BY DEF Gone, Unmarked, rows, Fault, SentOnce, Crash, IInv
<1>6. OneInTime'
  <2>1. /\ UNCHANGED wait
        /\ batch' = [batch EXCEPT ![i] = NoBatch] /\ overdue' = [overdue EXCEPT ![i] = {}]
      BY DEF Crash, Gone, rows
  <2>2. ASSUME NEW k \in Instances, NEW e \in Events, batch'[k][e] > 0
        PROVE  k # i /\ batch'[k] = batch[k] /\ overdue'[k] = overdue[k]
      BY <2>1, <2>2 DEF NoBatch, TypeOK, IInv
  <2> QED
      BY <2>1, <2>2 DEF OneInTime, IInv
<1> QED
    BY <1>1, <1>2, <1>3, <1>4, <1>5, <1>6 DEF IInv

LEMMA ExitStep == ASSUME IInv, NEW i \in Instances, Exit(i) PROVE IInv'
<1>1. TypeOK'
  <2>1. (status \in [Events -> {"absent", "pending", "published"}])'
      BY DEF Gone, rows, TypeOK, Exit, IInv
  <2>2. (attempts \in [Events -> 0 .. MaxAttempts])'
      BY DEF Gone, rows, TypeOK, Exit, IInv
  <2>3. (wait \in [Events -> Waits])'
      BY DEF Gone, rows, TypeOK, Exit, IInv
  <2>4. (sends \in [Events -> 0 .. 2])'
      BY DEF Gone, TypeOK, Exit, IInv
  <2>5. (polling \subseteq Instances /\ phase \in [Instances -> Phases])'
      BY DEF Gone, Phases, TypeOK, Exit, IInv
  <2>6. (batch \in [Instances -> [Events -> 0 .. MaxAttempts]])'
      BY DelaysType DEF NoBatch, Gone, TypeOK, Exit, IInv
  <2>7. (cur \in [Instances -> Events \cup {None}])'
      BY DEF Gone, TypeOK, Exit, IInv
  <2>8. (paused \in [Instances -> SUBSET Keys])'
      BY DEF Gone, TypeOK, Exit, IInv
  <2>9. (faults \in 0 .. MaxFaults /\ excused \subseteq Events)'
      BY DEF Unmarked, CurrentHeld, TypeOK, Exit, IInv
  <2>10. (overdue \in [Instances -> SUBSET Events])'
      BY DelaysType DEF NoBatch, Gone, TypeOK, Exit, IInv
  <2> QED
      BY <2>1, <2>2, <2>3, <2>4, <2>5, <2>6, <2>7, <2>8, <2>9, <2>10
         DEF TypeOK
<1>2. CurrentHeld'
    BY DEF Gone, TypeOK, CurrentHeld, Exit, IInv
<1>3. HeldCommitted'
    BY DEF NoBatch, Gone, rows, HeldCommitted, Exit, IInv
<1>4. LeaseExcludes'
    BY DEF NoBatch, Gone, rows, LeaseExcludes, Exit, IInv
<1>5. SentOnce'
    BY DEF Gone, Unmarked, rows, SentOnce, Exit, IInv
<1>6. OneInTime'
  <2>1. /\ UNCHANGED wait
        /\ batch' = [batch EXCEPT ![i] = NoBatch] /\ overdue' = [overdue EXCEPT ![i] = {}]
      BY DEF Exit, Gone, rows
  <2>2. ASSUME NEW k \in Instances, NEW e \in Events, batch'[k][e] > 0
        PROVE  k # i /\ batch'[k] = batch[k] /\ overdue'[k] = overdue[k]
      BY <2>1, <2>2 DEF NoBatch, TypeOK, IInv
  <2> QED
      BY <2>1, <2>2 DEF OneInTime, IInv
<1> QED
    BY <1>1, <1>2, <1>3, <1>4, <1>5, <1>6 DEF IInv

LEMMA RestartStep == ASSUME IInv, NEW i \in Instances, Restart(i) PROVE IInv'
<1>1. TypeOK'
  <2>1. (status \in [Events -> {"absent", "pending", "published"}])'
      BY DEF rows, TypeOK, Restart, IInv
  <2>2. (attempts \in [Events -> 0 .. MaxAttempts])'
      BY DEF rows, TypeOK, Restart, IInv
  <2>3. (wait \in [Events -> Waits])'
      BY DEF rows, TypeOK, Restart, IInv
  <2>4. (sends \in [Events -> 0 .. 2])'
      BY DEF TypeOK, Restart, IInv
  <2>5. (polling \subseteq Instances /\ phase \in [Instances -> Phases])'
      BY DEF Phases, TypeOK, Restart, IInv
  <2>6. (batch \in [Instances -> [Events -> 0 .. MaxAttempts]])'
      BY DEF TypeOK, Restart, IInv
  <2>7. (cur \in [Instances -> Events \cup {None}])'
      BY DEF TypeOK, Restart, IInv
  <2>8. (paused \in [Instances -> SUBSET Keys])'
      BY DEF TypeOK, Restart, IInv
  <2>9. (faults \in 0 .. MaxFaults /\ excused \subseteq Events)'
      BY DEF ghosts, TypeOK, Restart, IInv
  <2>10. (overdue \in [Instances -> SUBSET Events])'
      BY DEF TypeOK, Restart, IInv
  <2> QED
      BY <2>1, <2>2, <2>3, <2>4, <2>5, <2>6, <2>7, <2>8, <2>9, <2>10
         DEF TypeOK
<1>2. CurrentHeld'
    BY DEF CurrentHeld, Restart, IInv
<1>3. HeldCommitted'
    BY DEF rows, HeldCommitted, Restart, IInv
<1>4. LeaseExcludes'
    BY DEF rows, ghosts, LeaseExcludes, Restart, IInv
<1>5. SentOnce'
    BY DEF rows, ghosts, SentOnce, Restart, IInv
<1>6. OneInTime'
    BY DEF rows, ghosts, OneInTime, Restart, IInv
<1> QED
    BY <1>1, <1>2, <1>3, <1>4, <1>5, <1>6 DEF IInv

LEMMA TickStep == ASSUME IInv, Tick PROVE IInv'
<1>1. /\ wait \in [Events -> Waits]
      /\ wait' = [e \in Events |-> IF wait[e] > 0 THEN wait[e] - 1 ELSE 0]
      /\ excused' = excused \cup
                        {e \in Events : wait[e] = 1 /\ \E i \in Instances : e \in Batch(i)}
      /\ overdue \in [Instances -> SUBSET Events]
      /\ overdue' = [i \in Instances |-> overdue[i] \cup {e \in Batch(i) : wait[e] = 1}]
      /\ UNCHANGED <<status, attempts, sends, polling, phase, batch, cur, paused, faults>>
    BY DEF Tick, publishers, TypeOK, IInv
<1>2. TypeOK'
  <2>1. wait' \in [Events -> Waits]
      BY <1>1, DelaysType
  <2>2. overdue' \in [Instances -> SUBSET Events]
      BY <1>1 DEF Batch
  <2> QED
      BY <2>1, <2>2, <1>1 DEF TypeOK, IInv
<1>3. CurrentHeld' /\ HeldCommitted' /\ SentOnce'
    BY <1>1 DEF CurrentHeld, HeldCommitted, SentOnce, IInv
<1>4. LeaseExcludes'
  <2>1. SUFFICES ASSUME NEW i \in Instances, NEW e \in Events, e \notin excused', batch[i][e] > 0
               PROVE  /\ status[e] = "pending" /\ wait'[e] > 0
                      /\ \A j \in Instances : j # i => batch[j][e] = 0
      BY <1>1 DEF LeaseExcludes
  <2>2. /\ status[e] = "pending" /\ wait[e] > 0 /\ e \notin excused
        /\ \A j \in Instances : j # i => batch[j][e] = 0
      BY <2>1, <1>1 DEF LeaseExcludes, IInv
  <2>3. wait[e] # 1
      BY <2>1, <1>1 DEF Batch
  <2>4. wait[e] \in Nat
      BY <1>1, DelaysType
  <2> QED
      BY <1>1, <2>2, <2>3, <2>4
<1>5. OneInTime'
  <2>1. SUFFICES ASSUME NEW i \in Instances, NEW e \in Events,
                      batch[i][e] > 0, e \notin overdue'[i]
               PROVE  /\ wait'[e] > 0
                      /\ \A j \in Instances : j # i /\ batch[j][e] > 0 => e \in overdue'[j]
      BY <1>1 DEF OneInTime
  <2>2. e \notin overdue[i] /\ wait[e] # 1
      BY <2>1, <1>1 DEF Batch
  <2>3. /\ wait[e] > 0
        /\ \A j \in Instances : j # i /\ batch[j][e] > 0 => e \in overdue[j]
      BY <2>1, <2>2 DEF OneInTime, IInv
  <2>4. wait[e] \in Nat
      BY <1>1, DelaysType
  <2> QED
      BY <1>1, <2>2, <2>3, <2>4
<1> QED
    BY <1>2, <1>3, <1>4, <1>5 DEF IInv

LEMMA StutterStep == ASSUME IInv, UNCHANGED vars PROVE IInv'
    BY DEF IInv, vars, TypeOK, CurrentHeld, HeldCommitted, LeaseExcludes, OneInTime, SentOnce

-----------------------------------------------------------------------------

LEMMA InitIInv == Init => IInv
<1> SUFFICES ASSUME Init PROVE IInv
    OBVIOUS
<1>1. TypeOK
    BY DelaysType DEF Phases, NoBatch, TypeOK, Init
<1>2. CurrentHeld /\ HeldCommitted /\ LeaseExcludes /\ OneInTime /\ SentOnce
    BY DEF NoBatch, CurrentHeld, HeldCommitted, LeaseExcludes, OneInTime, SentOnce, Init
<1> QED
    BY <1>1, <1>2 DEF IInv

LEMMA NextIInv == IInv /\ [Next]_vars => IInv'
<1> SUFFICES ASSUME IInv, [Next]_vars PROVE IInv'
    OBVIOUS
<1>1. CASE Tick
    BY <1>1, TickStep
<1>2. ASSUME NEW e \in Events, Commit(e) PROVE IInv'
    BY <1>2, CommitStep
<1>3. ASSUME NEW i \in Instances, Claim(i) \/ Exit(i) \/ Restart(i) PROVE IInv'
    BY <1>3, ClaimStep, ExitStep, RestartStep
<1>4. ASSUME NEW i \in Instances, Work(i) PROVE IInv'
    BY <1>4, SendOkStep, SendRefusedStep, markEventPublishedStep, markEventFailedStep
       DEF Work
<1>5. ASSUME NEW i \in Instances, Failure(i) PROVE IInv'
    BY <1>5, ClaimLostStep, SendFailsStep, MarkPublishedFailsStep,
       MarkFailedFailsStep, StopStep, CrashStep DEF Failure
<1>6. CASE UNCHANGED vars
    BY <1>6, StutterStep
<1> QED
    BY <1>1, <1>2, <1>3, <1>4, <1>5, <1>6 DEF Next

-----------------------------------------------------------------------------
(* The invariant holds in every reachable state. *)
THEOREM Invariance == Spec => []IInv
    BY InitIInv, NextIInv, PTL DEF Spec

(* Rows, publishers and batches keep their types, and no row is scheduled  *)
(* further away than a lease or a retry delay.                             *)
THEOREM TypeCorrectness == Spec => []TypeOK
<1>1. IInv => TypeOK
    BY DEF IInv
<1>2. QED
    BY <1>1, Invariance, PTL

(* However many instances publish, an event is delivered once unless one   *)
(* of the known excuses applies.                                           *)
THEOREM Once == Spec => []OnceUnlessExcused
<1>1. IInv => OnceUnlessExcused
  <2>1. SUFFICES ASSUME sends \in [Events -> 0 .. 2], SentOnce PROVE OnceUnlessExcused
      BY DEF IInv, TypeOK
  <2>2. \A e \in Events : sends[e] > 1 => ~(sends[e] <= 1)
      BY <2>1
  <2> QED
      BY <2>1, <2>2 DEF SentOnce, OnceUnlessExcused
<1>2. QED
    BY <1>1, Invariance, PTL

(* While an instance has an event in time, only the late mark of another   *)
(* one that is overdue with it changes the event's row.                    *)
THEOREM LeaseRespected == Spec => OnlyLateMarksInterfere
<1> DEFINE LateMark(i, e) == \E j \in Instances \ {i} :
                                e \in overdue[j] /\ e \in Batch(j) \ Batch(j)'
           Respected == \A i \in Instances, e \in Events :
                            e \in InTime(i) /\ e \in Batch(i)' =>
                                \/ Tick
                                \/ UNCHANGED <<status[e], attempts[e], wait[e]>>
                                \/ LateMark(i, e)
<1>1. IInv /\ [Next]_vars => [Respected]_vars
  <2> SUFFICES ASSUME IInv, Next, ~Tick, NEW i \in Instances, NEW e \in Events,
                      e \in InTime(i), e \in Batch(i)'
               PROVE  UNCHANGED <<status[e], attempts[e], wait[e]>> \/ LateMark(i, e)
      BY DEF Respected
  <2>1. /\ status \in [Events -> {"absent", "pending", "published"}]
        /\ attempts \in [Events -> 0 .. MaxAttempts] /\ wait \in [Events -> Waits]
        /\ batch \in [Instances -> [Events -> 0 .. MaxAttempts]]
        /\ \A j \in Instances : phase[j] \in {"sent", "failed"} => cur[j] \in Events
      BY DEF IInv, TypeOK, CurrentHeld
  <2>2. status[e] # "absent" /\ e \notin Due
      BY DEF IInv, HeldCommitted, OneInTime, InTime, Batch, Due
  <2>3. \A j \in Instances \ {i} : e \in Batch(j) => e \in overdue[j]
      BY DEF IInv, OneInTime, InTime, Batch
  <2>4. ASSUME NEW j \in Instances, Claim(j) \/ ClaimLost(j)
        PROVE  UNCHANGED <<status[e], attempts[e], wait[e]>>
    <3>1. PICK claimed \in Claimable(j) : ClaimRows(claimed) /\ UNCHANGED status
        BY <2>4 DEF Claim, ClaimLost
    <3>2. e \notin claimed
        BY <2>2, ClaimableDue
    <3> QED
        BY <2>1, <3>1, <3>2 DEF ClaimRows
  <2>5. ASSUME NEW j \in Instances, markEventPublished(j) \/ markEventFailed(j)
        PROVE  UNCHANGED <<status[e], attempts[e], wait[e]>> \/ LateMark(i, e)
    <3>1. /\ cur[j] \in Events /\ batch[j][cur[j]] > 0
          /\ batch' = [batch EXCEPT ![j][cur[j]] = 0]
        BY <2>5 DEF IInv, CurrentHeld, markEventPublished, markEventFailed, NextOfBatch
    <3>2. CASE cur[j] # e
        BY <2>1, <2>5, <3>1, <3>2 DEF markEventPublished, markEventFailed
    <3>3. CASE cur[j] = e
      <4>1. e \in Batch(j) \ Batch(j)'
          BY <2>1, <3>1, <3>3 DEF Batch
      <4>2. j # i
          BY <4>1
      <4> QED
          BY <2>3, <4>1, <4>2
    <3> QED
        BY <3>2, <3>3
  <2>6. ASSUME NEW j \in Instances,
               \/ SendOk(j) \/ SendRefused(j) \/ SendFails(j) \/ MarkPublishedFails(j)
               \/ MarkFailedFails(j) \/ Stop(j) \/ Crash(j) \/ Exit(j) \/ Restart(j)
        PROVE  UNCHANGED <<status[e], attempts[e], wait[e]>>
      BY <2>6 DEF SendOk, SendRefused, SendFails, MarkPublishedFails, MarkFailedFails,
         Stop, Crash, Exit, Restart, Gone, rows
  <2>7. ASSUME NEW d \in Events, Commit(d)
        PROVE  UNCHANGED <<status[e], attempts[e], wait[e]>>
      BY <2>1, <2>2, <2>7 DEF Commit
  <2> QED
      BY <2>4, <2>5, <2>6, <2>7 DEF Next, Work, Failure
<1>2. QED
    BY <1>1, Invariance, PTL DEF Spec, OnlyLateMarksInterfere

-----------------------------------------------------------------------------
(* The refinement *)

LEMMA InitSimulation == Init => Abstract!DInit
    BY DEF Init, Abstract!DInit

(* A step that leaves status and sends alone is a stutter of the abstract  *)
(* specification.                                                          *)
LEMMA StutterSimulation ==
    ASSUME UNCHANGED <<status, sends>> PROVE UNCHANGED Abstract!dvars
    BY DEF Abstract!dvars

(* To send an event of a batch is to deliver it. *)
LEMMA SendSimulation ==
    ASSUME IInv, NEW i \in Instances, NEW e \in Batch(i),
           sends' = Received(e), UNCHANGED status
    PROVE  Abstract!Deliver(e)
<1>1. e \in Events /\ status[e] \in {"pending", "published"}
    BY DEF IInv, TypeOK, HeldCommitted, Batch
<1>2. sends'[e] > 0 /\ \A d \in Events : d # e => sends'[d] = sends[d]
    BY <1>1, ReceivedType DEF IInv
<1> QED
    BY <1>1, <1>2 DEF Abstract!Deliver

(* To mark the event published that was sent is to settle it, unless       *)
(* another instance has marked it before.                                  *)
LEMMA MarkSimulation ==
    ASSUME IInv, NEW i \in Instances, NEW e \in Events, cur[i] = e, markEventPublished(i)
    PROVE  Abstract!Settle(e) \/ UNCHANGED Abstract!dvars
<1>1. /\ sends[e] > 0 /\ status[e] \in {"pending", "published"}
      /\ status \in [Events -> {"absent", "pending", "published"}]
      /\ status' = [status EXCEPT ![e] = "published"] /\ sends' = sends
    BY DEF IInv, TypeOK, CurrentHeld, HeldCommitted, markEventPublished
<1>2. CASE status[e] = "published"
    BY <1>1, <1>2, StutterSimulation
<1>3. CASE status[e] = "pending"
    BY <1>1, <1>3 DEF Abstract!Settle
<1> QED
    BY <1>1, <1>2, <1>3

LEMMA StepSimulation ==
    IInv /\ [Next]_vars => [Abstract!DNext]_Abstract!dvars
<1> SUFFICES ASSUME IInv, [Next]_vars
             PROVE  Abstract!DNext \/ UNCHANGED Abstract!dvars
    OBVIOUS
<1>1. ASSUME NEW e \in Events, Commit(e) PROVE Abstract!Record(e)
    BY <1>1 DEF IInv, TypeOK, Commit, Abstract!Record
<1>2. ASSUME NEW i \in Instances, SendOk(i) PROVE \E e \in Events : Abstract!Deliver(e)
    BY <1>2, SendSimulation DEF SendOk, rows, Batch
<1>3. ASSUME NEW i \in Instances, SendFails(i)
      PROVE  (\E e \in Events : Abstract!Deliver(e)) \/ UNCHANGED <<status, sends>>
    BY <1>3, SendSimulation DEF SendFails, rows, Batch
<1>4. ASSUME NEW i \in Instances, markEventPublished(i)
      PROVE  (\E e \in Events : Abstract!Settle(e)) \/ UNCHANGED Abstract!dvars
  <2>1. PICK e \in Events : cur[i] = e
      BY <1>4 DEF IInv, CurrentHeld, markEventPublished
  <2>2. Abstract!Settle(e) \/ UNCHANGED Abstract!dvars
      BY <1>4, <2>1, MarkSimulation
  <2> QED
      BY <2>2
<1>5. ASSUME NEW i \in Instances,
             \/ Claim(i) \/ SendRefused(i) \/ markEventFailed(i) \/ ClaimLost(i)
             \/ MarkPublishedFails(i) \/ MarkFailedFails(i) \/ Stop(i) \/ Crash(i)
             \/ Exit(i) \/ Restart(i)
      PROVE  UNCHANGED <<status, sends>>
    BY <1>5 DEF Claim, SendRefused, markEventFailed, ClaimLost, MarkPublishedFails,
       MarkFailedFails, Stop, Crash, Exit, Gone, Restart, rows
<1>6. CASE Tick \/ UNCHANGED vars
    BY <1>6, StutterSimulation DEF Tick, vars
<1> QED
    BY <1>1, <1>2, <1>3, <1>4, <1>5, <1>6, StutterSimulation
       DEF Next, Work, Failure, Abstract!DNext

(* The outbox implements durable delivery: no crash, stale claim or failed *)
(* mark takes a row from the queue before the topic has its event.         *)
THEOREM Implementation == Spec => AtLeastOnce
<1>1. IInv /\ [Next]_vars => [Abstract!DNext]_Abstract!dvars
    BY StepSimulation
<1>2. QED
    BY <1>1, InitSimulation, Invariance, PTL DEF Spec, AtLeastOnce, Abstract!DSpec
===============================================================================
