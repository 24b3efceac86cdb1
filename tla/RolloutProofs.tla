---------------------------- MODULE RolloutProofs ----------------------------
(***************************************************************************)
(* Theorems about Rollout, for every number of migration files, of Pods    *)
(* and of retries.                                                         *)
(***************************************************************************)
EXTENDS Rollout, FiniteSetTheorems, WellFoundedInduction, TLAPS

-----------------------------------------------------------------------------
(* The inductive invariant *)

(* What the script has still to do is what it read as not applied, less    *)
(* what it has done: no other file is missing.                             *)
TodoCovers ==
    \A p \in Pods : pod[p].at = "migrating" => Files \subseteq applied \cup pod[p].todo

(* The Job is complete, the Deployment applied and the new release up in   *)
(* this order, and never before the schema is full.                        *)
DeployedAfterJob ==
    /\ job = "complete" \/ deployed => applied = Files
    /\ "new" \in serving => deployed

RolloutIInv ==
    /\ RolloutTypeOK
    /\ AppliedOnce
    /\ AppliedInOrder
    /\ TodoCovers
    /\ DeployedAfterJob

-----------------------------------------------------------------------------
USE RolloutAssumption

(* The next file of a script is the least it has still to apply. *)
LEMMA FirstIsLeast ==
    ASSUME NEW S \in SUBSET Files, S # {}
    PROVE  First(S) \in S /\ \A g \in S : First(S) <= g
<1>1. S \subseteq Nat
    BY DEF Files
<1>2. PICK f \in S : \A g \in S : ~(<<g, f>> \in OpToRel(<, Nat))
    BY <1>1, NatLessThanWellFounded, WFMin
<1>3. ASSUME NEW g \in S, g < f PROVE FALSE
  <2>1. <<g, f>> \in Nat \X Nat /\ <<g, f>>[1] < <<g, f>>[2]
      BY <1>1, <1>3
  <2>2. <<g, f>> \in OpToRel(<, Nat)
      BY <2>1, Zenon DEF OpToRel
  <2> QED
      BY <1>2, <2>2
<1>4. \A g \in S : f <= g
    BY <1>1, <1>3
<1> QED
    BY <1>4 DEF First

-----------------------------------------------------------------------------
(* Every step preserves the invariant, one lemma for each action. *)
LEMMA ApplyJobStep == ASSUME RolloutIInv, ApplyJob PROVE RolloutIInv'
<1>1. RolloutTypeOK'
    BY DEF schema, Workflows, RolloutTypeOK, ApplyJob, RolloutIInv
<1>2. AppliedOnce'
    BY DEF schema, AppliedOnce, ApplyJob, RolloutIInv
<1>3. AppliedInOrder'
    BY DEF schema, AppliedInOrder, ApplyJob, RolloutIInv
<1>4. TodoCovers'
    BY DEF schema, TodoCovers, ApplyJob, RolloutIInv
<1>5. DeployedAfterJob'
    BY DEF schema, DeployedAfterJob, ApplyJob, RolloutIInv
<1> QED
    BY <1>1, <1>2, <1>3, <1>4, <1>5 DEF RolloutIInv

LEMMA ApplyDeploymentStep ==
    ASSUME RolloutIInv, ApplyDeployment
    PROVE RolloutIInv'
<1>1. RolloutTypeOK'
    BY DEF schema, jobVars, Workflows, RolloutTypeOK, ApplyDeployment,
       RolloutIInv
<1>2. AppliedOnce'
    BY DEF schema, AppliedOnce, ApplyDeployment, RolloutIInv
<1>3. AppliedInOrder'
    BY DEF schema, AppliedInOrder, ApplyDeployment, RolloutIInv
<1>4. TodoCovers'
    BY DEF schema, TodoCovers, ApplyDeployment, RolloutIInv
<1>5. DeployedAfterJob'
    BY DEF schema, DeployedAfterJob, ApplyDeployment, RolloutIInv
<1> QED
    BY <1>1, <1>2, <1>3, <1>4, <1>5 DEF RolloutIInv

LEMMA TimeOutStep == ASSUME RolloutIInv, TimeOut PROVE RolloutIInv'
<1>1. RolloutTypeOK'
    BY DEF schema, jobVars, Workflows, RolloutTypeOK, TimeOut, RolloutIInv
<1>2. AppliedOnce'
    BY DEF schema, AppliedOnce, TimeOut, RolloutIInv
<1>3. AppliedInOrder'
    BY DEF schema, AppliedInOrder, TimeOut, RolloutIInv
<1>4. TodoCovers'
    BY DEF schema, TodoCovers, TimeOut, RolloutIInv
<1>5. DeployedAfterJob'
    BY DEF schema, jobVars, DeployedAfterJob, TimeOut, RolloutIInv
<1> QED
    BY <1>1, <1>2, <1>3, <1>4, <1>5 DEF RolloutIInv

LEMMA NewReadyStep == ASSUME RolloutIInv, NewReady PROVE RolloutIInv'
<1>1. RolloutTypeOK'
    BY DEF schema, jobVars, RolloutTypeOK, NewReady, RolloutIInv
<1>2. AppliedOnce'
    BY DEF schema, AppliedOnce, NewReady, RolloutIInv
<1>3. AppliedInOrder'
    BY DEF schema, AppliedInOrder, NewReady, RolloutIInv
<1>4. TodoCovers'
    BY DEF schema, TodoCovers, NewReady, RolloutIInv
<1>5. DeployedAfterJob'
    BY DEF schema, DeployedAfterJob, NewReady, RolloutIInv
<1> QED
    BY <1>1, <1>2, <1>3, <1>4, <1>5 DEF RolloutIInv

LEMMA OldGoneStep == ASSUME RolloutIInv, OldGone PROVE RolloutIInv'
<1>1. RolloutTypeOK'
    BY DEF schema, jobVars, Workflows, RolloutTypeOK, OldGone, RolloutIInv
<1>2. AppliedOnce'
    BY DEF schema, AppliedOnce, OldGone, RolloutIInv
<1>3. AppliedInOrder'
    BY DEF schema, AppliedInOrder, OldGone, RolloutIInv
<1>4. TodoCovers'
    BY DEF schema, TodoCovers, OldGone, RolloutIInv
<1>5. DeployedAfterJob'
    BY DEF schema, DeployedAfterJob, OldGone, RolloutIInv
<1> QED
    BY <1>1, <1>2, <1>3, <1>4, <1>5 DEF RolloutIInv

LEMMA StartPodStep ==
    ASSUME RolloutIInv, NEW p \in Pods, StartPod(p)
    PROVE RolloutIInv'
<1>1. RolloutTypeOK'
    BY DEF schema, jobVars, PodType, RolloutTypeOK, StartPod, RolloutIInv
<1>2. AppliedOnce'
    BY DEF schema, AppliedOnce, StartPod, RolloutIInv
<1>3. AppliedInOrder'
    BY DEF schema, AppliedInOrder, StartPod, RolloutIInv
<1>4. TodoCovers'
    BY DEF schema, TodoCovers, StartPod, RolloutIInv
<1>5. DeployedAfterJob'
    BY DEF schema, jobVars, DeployedAfterJob, StartPod, RolloutIInv
<1> QED
    BY <1>1, <1>2, <1>3, <1>4, <1>5 DEF RolloutIInv

LEMMA DeleteJobStep == ASSUME RolloutIInv, DeleteJob PROVE RolloutIInv'
<1>1. RolloutTypeOK'
  <2>1. ASSUME NEW p \in Pods PROVE [pod[p] EXCEPT !.mine = FALSE] \in PodType
      BY DEF RolloutIInv, RolloutTypeOK, PodType
  <2>2. (pod \in [Pods -> PodType])'
      BY <2>1 DEF DeleteJob
  <2> QED
      BY <2>2 DEF DeleteJob, schema, Workflows, RolloutIInv, RolloutTypeOK
<1>2. AppliedOnce'
    BY DEF schema, AppliedOnce, DeleteJob, RolloutIInv
<1>3. AppliedInOrder'
    BY DEF schema, AppliedInOrder, DeleteJob, RolloutIInv
<1>4. TodoCovers'
    BY DEF schema, PodType, RolloutTypeOK, TodoCovers, DeleteJob, RolloutIInv
<1>5. DeployedAfterJob'
    BY DEF schema, DeployedAfterJob, DeleteJob, RolloutIInv
<1> QED
    BY <1>1, <1>2, <1>3, <1>4, <1>5 DEF RolloutIInv

LEMMA ReadAppliedStep ==
    ASSUME RolloutIInv, NEW p \in Pods, ReadApplied(p)
    PROVE RolloutIInv'
<1>1. RolloutTypeOK'
  <2>1. [pod[p] EXCEPT !.at = "migrating", !.todo = Files \ applied] \in PodType
      BY DEF RolloutIInv, RolloutTypeOK, PodType
  <2>2. (pod \in [Pods -> PodType])'
      BY <2>1 DEF ReadApplied, RolloutIInv, RolloutTypeOK
  <2> QED
      BY <2>2 DEF ReadApplied, schema, jobVars, RolloutIInv, RolloutTypeOK
<1>2. AppliedOnce'
    BY DEF schema, AppliedOnce, ReadApplied, RolloutIInv
<1>3. AppliedInOrder'
    BY DEF schema, AppliedInOrder, ReadApplied, RolloutIInv
<1>4. TodoCovers'
    BY DEF schema, RolloutTypeOK, TodoCovers, ReadApplied, RolloutIInv
<1>5. DeployedAfterJob'
    BY DEF schema, jobVars, DeployedAfterJob, ReadApplied, RolloutIInv
<1> QED
    BY <1>1, <1>2, <1>3, <1>4, <1>5 DEF RolloutIInv

LEMMA ApplyFileStep ==
    ASSUME RolloutIInv, NEW p \in Pods, ApplyFile(p)
    PROVE RolloutIInv'
<1>1. PICK f \in pod[p].todo :
        /\ f \notin applied /\ \A g \in pod[p].todo : f <= g
        /\ applied' = applied \cup {f} /\ effects' = Once(f)
        /\ pod' = [pod EXCEPT ![p].todo = @ \ {f}]
  <2>1. pod[p].todo \in SUBSET Files
      BY DEF RolloutIInv, RolloutTypeOK, PodType
  <2> QED
      BY FirstIsLeast, <2>1 DEF ApplyFile
<1>2. /\ f \in Files /\ pod[p].at = "migrating"
      /\ UNCHANGED <<workflow, job, failures, deployed, serving>>
    BY DEF jobVars, RolloutTypeOK, PodType, ApplyFile, RolloutIInv
<1>3. effects' = [effects EXCEPT ![f] = 1]
    BY <1>1, <1>2 DEF Once, AppliedOnce, RolloutIInv
<1>4. RolloutTypeOK'
    BY <1>1, <1>2, <1>3 DEF PodType, RolloutTypeOK, RolloutIInv
<1>5. AppliedOnce'
    BY <1>1, <1>3 DEF RolloutTypeOK, AppliedOnce, RolloutIInv
<1>6. AppliedInOrder'
  <2>1. ASSUME NEW g \in Files, g < f PROVE g \in applied
    <3>1. g \notin pod[p].todo
        BY <1>1, <1>2, <2>1 DEF Files
    <3> QED
        BY <1>2, <3>1 DEF TodoCovers, RolloutIInv
  <2> QED
      BY <1>1, <2>1 DEF AppliedInOrder, RolloutIInv
<1>7. TodoCovers'
    BY <1>1 DEF TodoCovers, RolloutIInv
<1>8. DeployedAfterJob'
    BY <1>1, <1>2 DEF DeployedAfterJob, RolloutIInv
<1> QED
    BY <1>4, <1>5, <1>6, <1>7, <1>8 DEF RolloutIInv

LEMMA PodFailsStep ==
    ASSUME RolloutIInv, NEW p \in Pods, PodFails(p)
    PROVE RolloutIInv'
<1>1. RolloutTypeOK'
    BY DEF schema, jobVars, NoPod, PodType, RolloutTypeOK, PodFails,
       RolloutIInv
<1>2. AppliedOnce'
    BY DEF schema, AppliedOnce, PodFails, RolloutIInv
<1>3. AppliedInOrder'
    BY DEF schema, AppliedInOrder, PodFails, RolloutIInv
<1>4. TodoCovers'
    BY DEF schema, NoPod, TodoCovers, PodFails, RolloutIInv
<1>5. DeployedAfterJob'
    BY DEF schema, jobVars, DeployedAfterJob, PodFails, RolloutIInv
<1> QED
    BY <1>1, <1>2, <1>3, <1>4, <1>5 DEF RolloutIInv

LEMMA PodSucceedsStep ==
    ASSUME RolloutIInv, NEW p \in Pods, PodSucceeds(p)
    PROVE RolloutIInv'
<1>1. RolloutTypeOK'
    BY DEF schema, NoPod, PodType, RolloutTypeOK, PodSucceeds, RolloutIInv
<1>2. AppliedOnce'
    BY DEF schema, AppliedOnce, PodSucceeds, RolloutIInv
<1>3. AppliedInOrder'
    BY DEF schema, AppliedInOrder, PodSucceeds, RolloutIInv
<1>4. TodoCovers'
    BY DEF schema, TodoCovers, PodSucceeds, RolloutIInv
<1>5. DeployedAfterJob'
    BY DEF schema, RolloutTypeOK, TodoCovers, DeployedAfterJob, PodSucceeds,
       RolloutIInv
<1> QED
    BY <1>1, <1>2, <1>3, <1>4, <1>5 DEF RolloutIInv

LEMMA RolloutStutterStep ==
    ASSUME RolloutIInv, UNCHANGED rollout
    PROVE RolloutIInv'
    BY DEF RolloutIInv, rollout, RolloutTypeOK, AppliedOnce, AppliedInOrder, TodoCovers,
       DeployedAfterJob

-----------------------------------------------------------------------------

LEMMA InitRolloutIInv == RolloutInit => RolloutIInv
<1> SUFFICES ASSUME RolloutInit PROVE RolloutIInv
    OBVIOUS
<1>1. effects = [f \in Files |-> IF f <= NumOld THEN 1 ELSE 0] /\ applied = 1 .. NumOld
    BY DEF RolloutInit
<1>2. RolloutTypeOK
  <2>1. effects \in [Files -> 0 .. 2] /\ applied \subseteq Files
      BY <1>1 DEF Files
  <2>2. pod \in [Pods -> PodType]
      BY DEF NoPod, PodType, RolloutInit
  <2>3. serving \in (SUBSET {"old", "new"}) \ {{}}
      BY DEF RolloutInit
  <2>4. failures \in 0 .. BackoffLimit
      BY DEF RolloutInit
  <2> QED
      BY <2>1, <2>2, <2>4 DEF Workflows, RolloutInit, RolloutTypeOK
<1>3. AppliedOnce /\ AppliedInOrder
    BY <1>1 DEF Files, AppliedOnce, AppliedInOrder
<1>4. TodoCovers /\ DeployedAfterJob
    BY DEF NoPod, RolloutInit, TodoCovers, DeployedAfterJob
<1> QED
    BY <1>2, <1>3, <1>4 DEF RolloutIInv

LEMMA NextRolloutIInv == RolloutIInv /\ [RolloutNext]_rollout => RolloutIInv'
<1> SUFFICES ASSUME RolloutIInv, [RolloutNext]_rollout PROVE RolloutIInv'
    OBVIOUS
<1>1. CASE WorkflowStep
    BY <1>1, DeleteJobStep, ApplyJobStep, ApplyDeploymentStep, TimeOutStep DEF WorkflowStep
<1>2. CASE NewReady \/ OldGone
    BY <1>2, NewReadyStep, OldGoneStep
<1>3. ASSUME NEW p \in Pods, PodStep(p) PROVE RolloutIInv'
    BY <1>3, StartPodStep, ReadAppliedStep, ApplyFileStep, PodFailsStep, PodSucceedsStep
       DEF PodStep
<1>4. CASE UNCHANGED rollout
    BY <1>4, RolloutStutterStep
<1> QED
    BY <1>1, <1>2, <1>3, <1>4 DEF RolloutNext

-----------------------------------------------------------------------------
(* The release as one upgrade *)

(* The number of recorded files is the number of the last one. *)
LEMMA VersionOfInterval == \A n \in Nat : Cardinality(1 .. n) = n
    BY FS_Interval

(* Applying a file is the next version: all before it are recorded, and    *)
(* none after it.                                                          *)
LEMMA ApplyFileMigrates ==
    ASSUME RolloutIInv, NEW p \in Pods, ApplyFile(p)
    PROVE  Upgrade!Migrate
<1>1. PICK f \in Files :
        /\ f \notin applied /\ applied' = applied \cup {f}
        /\ effects' = Once(f) /\ serving' = serving
  <2>1. pod[p].todo \in SUBSET Files
      BY DEF RolloutIInv, RolloutTypeOK, PodType
  <2> QED
      BY FirstIsLeast, <2>1 DEF ApplyFile
<1>2. AppliedInOrder /\ AppliedInOrder' /\ AppliedOnce /\ applied \subseteq Files
    BY ApplyFileStep DEF RolloutIInv, RolloutTypeOK
<1>3. f \in Nat \ {0} /\ f <= NumFiles /\ Files = 1 .. NumFiles
    BY DEF Files
<1>4. applied = 1 .. (f - 1)
  <2>1. ASSUME NEW g \in applied PROVE g < f
    <3>1. g # f /\ ~(f < g)
        BY <1>1, <1>2, <2>1 DEF AppliedInOrder
    <3> QED
        BY <1>2, <1>3, <3>1
  <2>2. ASSUME NEW g \in 1 .. (f - 1) PROVE g \in applied
    <3>1. g \in Files /\ g < f /\ f \in applied'
        BY <1>1, <1>3
    <3> QED
        BY <1>1, <1>2, <3>1 DEF AppliedInOrder
  <2>3. \A g \in applied : g \in 1 .. (f - 1)
      BY <1>2, <1>3, <2>1
  <2> QED
      BY <2>2, <2>3
<1>5. applied' = 1 .. f
    BY <1>1, <1>3, <1>4
<1>6. Cardinality(applied) = f - 1 /\ Cardinality(applied') = f
    BY <1>3, <1>4, <1>5, VersionOfInterval
<1>7. effects' = [effects EXCEPT ![f] = 1]
    BY <1>1, <1>2 DEF Once, AppliedOnce
<1> QED
    BY <1>1, <1>3, <1>6, <1>7 DEF Upgrade!Migrate

(* The new release joins at the last version: the Deployment waits for it. *)
LEMMA NewReadyJoins == ASSUME RolloutIInv, NewReady PROVE Upgrade!Join
<1>1. applied = 1 .. NumFiles
    BY DEF NewReady, RolloutIInv, DeployedAfterJob, Files
<1>2. Cardinality(applied) = NumFiles
    BY <1>1, VersionOfInterval
<1> QED
    BY <1>2 DEF NewReady, schema, Upgrade!Join

LEMMA UpgradeSimulation ==
    RolloutIInv /\ [RolloutNext]_rollout =>
        [Upgrade!Migrate \/ Upgrade!Join \/ Upgrade!Leave]_Upgrade!upgrade
<1> SUFFICES ASSUME RolloutIInv, [RolloutNext]_rollout
             PROVE  \/ Upgrade!Migrate \/ Upgrade!Join \/ Upgrade!Leave
                    \/ UNCHANGED Upgrade!upgrade
    OBVIOUS
<1>1. CASE NewReady
    BY <1>1, NewReadyJoins
<1>2. CASE OldGone
    BY <1>2 DEF OldGone, schema, Upgrade!Leave
<1>3. ASSUME NEW p \in Pods, ApplyFile(p) PROVE Upgrade!Migrate
    BY <1>3, ApplyFileMigrates
<1>4. ASSUME \/ WorkflowStep \/ UNCHANGED rollout
             \/ \E p \in Pods :
                    StartPod(p) \/ ReadApplied(p) \/ PodFails(p) \/ PodSucceeds(p)
      PROVE  UNCHANGED Upgrade!upgrade
  <2>1. UNCHANGED <<applied, effects, serving>>
      BY <1>4 DEF WorkflowStep, DeleteJob, ApplyJob, ApplyDeployment, TimeOut, StartPod,
         ReadApplied, PodFails, PodSucceeds, schema, rollout
  <2> QED
      BY <2>1 DEF Upgrade!upgrade
<1> QED
    BY <1>1, <1>2, <1>3, <1>4 DEF RolloutNext, PodStep

-----------------------------------------------------------------------------
(* The invariant holds in every reachable state. *)
THEOREM RolloutInvariance == RolloutSpec => []RolloutIInv
    BY InitRolloutIInv, NextRolloutIInv, PTL DEF RolloutSpec

(* Jobs, Pods and the schema keep their types. *)
THEOREM RolloutTypeCorrectness == RolloutSpec => []RolloutTypeOK
<1>1. RolloutIInv => RolloutTypeOK
    BY DEF RolloutIInv
<1>2. QED
    BY <1>1, RolloutInvariance, PTL

(* However many Pods migrate at once, the files are applied in their order *)
(* and without a gap.                                                      *)
THEOREM InOrder == RolloutSpec => []AppliedInOrder
<1>1. RolloutIInv => AppliedInOrder
    BY DEF RolloutIInv
<1>2. QED
    BY <1>1, RolloutInvariance, PTL

(* No file is applied twice, and schema_migrations has what was applied.   *)
THEOREM AppliedExactlyOnce == RolloutSpec => []AppliedOnce
<1>1. RolloutIInv => AppliedOnce
    BY DEF RolloutIInv
<1>2. QED
    BY <1>1, RolloutInvariance, PTL

(* The new release finds the full schema, whichever workflow run deployed  *)
(* it.                                                                     *)
THEOREM FullSchema == RolloutSpec => []NewServesFullSchema
<1>1. RolloutIInv => NewServesFullSchema
    BY DEF RolloutIInv, DeployedAfterJob, NewServesFullSchema
<1>2. QED
    BY <1>1, RolloutInvariance, PTL

(* Whatever overlaps, dies or is run again, the release is the upgrade one *)
(* script alone would make, and the replicas follow it.                    *)
THEOREM Sequential == RolloutSpec => OneUpgrade
<1>1. RolloutInit => Upgrade!UpgradeInit
    BY VersionOfInterval DEF RolloutInit, Upgrade!UpgradeInit, Files
<1>2. QED
    BY <1>1, UpgradeSimulation, RolloutInvariance, PTL
       DEF RolloutSpec, OneUpgrade, Upgrade!UpgradeSpec
===============================================================================
