------------------------------- MODULE Rollout -------------------------------
(***************************************************************************)
(* A release goes to the cluster: the workflow deletes the migration Job   *)
(* of the release before, creates it anew, waits until it is complete and  *)
(* applies the Deployment (.github/workflows/deploy-gke.yml); the Pods of  *)
(* the Job run scripts/migrate-database.ts.                                *)
(*                                                                         *)
(* Deleting a Job does not wait for its Pods, so one that a failed run of  *)
(* the workflow left behind may migrate beside the Pod of the next run.    *)
(*                                                                         *)
(* Migration files are numbered in the order of their names.               *)
(***************************************************************************)
EXTENDS Integers, FiniteSets

CONSTANTS
    NumFiles,      \* files the new release brings
    NumOld,        \* those the old release brought, applied already
    Pods,          \* names for the Pods of migration Jobs
    BackoffLimit   \* backoffLimit of migration-job.yaml, 1

Files == 1 .. NumFiles

ASSUME RolloutAssumption ==
    NumFiles \in Nat /\ NumOld \in 0 .. NumFiles /\ BackoffLimit \in Nat

VARIABLES
    applied,   \* table schema_migrations
    effects,   \* how often the SQL of each file was committed: 0, 1, or 2 for more
    workflow,  \* where the run of the workflow is
    job,       \* none, active, complete or failed
    failures,  \* Pods of the Job that have failed
    pod,       \* of each Pod: where the script is, the files it has still to
               \* apply, and whether it belongs to the present Job
    deployed,  \* whether the Deployment names the new release
    serving    \* releases that have a ready Pod

schema == <<applied, effects>>
jobVars == <<job, failures>>
rollout == <<applied, effects, workflow, job, failures, pod, deployed, serving>>

Workflows == {"idle", "replacing", "waiting", "rolling", "done", "failed"}

NoPod == [at |-> "none", todo |-> {}, mine |-> FALSE]
PodType == [at : {"none", "starting", "migrating"}, todo : SUBSET Files, mine : BOOLEAN]

RolloutInit ==
    /\ applied = 1 .. NumOld
    /\ effects = [f \in Files |-> IF f <= NumOld THEN 1 ELSE 0]
    /\ workflow = "idle" /\ job = "none" /\ failures = 0
    /\ pod = [p \in Pods |-> NoPod]
    /\ deployed = FALSE /\ serving = {"old"}

-----------------------------------------------------------------------------
(* The workflow *)

(* kubectl delete --ignore-not-found of the Job, for the first time or     *)
(* when an operator runs a failed workflow again.                          *)
DeleteJob ==
    /\ workflow \in {"idle", "failed"}
    /\ workflow' = "replacing"
    /\ job' = "none" /\ failures' = 0
    /\ pod' = [p \in Pods |-> [pod[p] EXCEPT !.mine = FALSE]]
    /\ UNCHANGED <<schema, deployed, serving>>

ApplyJob ==
    /\ workflow = "replacing"
    /\ workflow' = "waiting" /\ job' = "active"
    /\ UNCHANGED <<schema, failures, pod, deployed, serving>>

(* Mutant: the Deployment is applied as soon as the Job is. *)
ApplyDeploymentAtOnce ==
    /\ workflow = "waiting"
    /\ workflow' = "rolling" /\ deployed' = TRUE
    /\ UNCHANGED <<schema, jobVars, pod, serving>>

(* kubectl wait --for=condition=complete, then kubectl apply of the        *)
(* Deployment.                                                             *)
ApplyDeployment ==
    /\ workflow = "waiting" /\ job = "complete"
    /\ workflow' = "rolling" /\ deployed' = TRUE
    /\ UNCHANGED <<schema, jobVars, pod, serving>>

(* The wait does not notice that the Job has failed: it times out.  So may *)
(* kubectl rollout status, but the Deployment stays applied.               *)
TimeOut ==
    /\ workflow = "rolling" \/ (workflow = "waiting" /\ job # "complete")
    /\ workflow' = "failed"
    /\ UNCHANGED <<schema, jobVars, pod, deployed, serving>>

(* Kubernetes brings up the Pod of the new release, then takes down that   *)
(* of the old one.                                                         *)
NewReady ==
    /\ deployed /\ "new" \notin serving
    /\ serving' = serving \cup {"new"}
    /\ UNCHANGED <<schema, workflow, jobVars, pod, deployed>>

OldGone ==
    /\ serving = {"old", "new"}
    /\ serving' = {"new"}
    /\ workflow' = IF workflow = "rolling" THEN "done" ELSE workflow
    /\ UNCHANGED <<schema, jobVars, pod, deployed>>

-----------------------------------------------------------------------------
(* The Pods of the Job *)

(* The Job has one Pod at a time. *)
StartPod(p) ==
    /\ job = "active" /\ pod[p] = NoPod
    /\ \A q \in Pods : ~pod[q].mine
    /\ pod' = [pod EXCEPT ![p] = [at |-> "starting", todo |-> {}, mine |-> TRUE]]
    /\ UNCHANGED <<schema, workflow, jobVars, deployed, serving>>

(* main, up to appliedNames and files. *)
ReadApplied(p) ==
    /\ pod[p].at = "starting"
    /\ pod' = [pod EXCEPT ![p].at = "migrating", ![p].todo = Files \ applied]
    /\ UNCHANGED <<schema, workflow, jobVars, deployed, serving>>

First(S) == CHOOSE f \in S : \A g \in S : f <= g
Last(S) == CHOOSE f \in S : \A g \in S : f >= g

Once(f) == [effects EXCEPT ![f] = IF @ = 0 THEN 1 ELSE 2]

(* Mutant: the files come in no order. *)
ApplyFileUnsorted(p) ==
    LET f == Last(pod[p].todo)
    IN  /\ pod[p].at = "migrating" /\ pod[p].todo # {} /\ f \notin applied
        /\ applied' = applied \cup {f} /\ effects' = Once(f)
        /\ pod' = [pod EXCEPT ![p].todo = @ \ {f}]
        /\ UNCHANGED <<workflow, jobVars, deployed, serving>>

(* Mutant: the file is recorded after its transaction, and a name that is  *)
(* recorded already is no error.                                           *)
ApplyFileUnrecorded(p) ==
    LET f == First(pod[p].todo)
    IN  /\ pod[p].at = "migrating" /\ pod[p].todo # {}
        /\ applied' = applied \cup {f} /\ effects' = Once(f)
        /\ pod' = [pod EXCEPT ![p].todo = @ \ {f}]
        /\ UNCHANGED <<workflow, jobVars, deployed, serving>>

(* One turn of the loop: the SQL of a file and its name in                 *)
(* schema_migrations, in one transaction.                                  *)
ApplyFile(p) ==
    LET f == First(pod[p].todo)
    IN  /\ pod[p].at = "migrating" /\ pod[p].todo # {} /\ f \notin applied
        /\ applied' = applied \cup {f} /\ effects' = Once(f)
        /\ pod' = [pod EXCEPT ![p].todo = @ \ {f}]
        /\ UNCHANGED <<workflow, jobVars, deployed, serving>>

(* Mutant: main catches the error and the exit code stays 0. *)
PodFailsSilently(p) ==
    /\ pod[p] # NoPod
    /\ pod' = [pod EXCEPT ![p] = NoPod]
    /\ job' = IF pod[p].mine THEN "complete" ELSE job
    /\ UNCHANGED <<schema, workflow, failures, deployed, serving>>

(* The Pod ends with an exit code other than 0: it is killed, a call       *)
(* fails, or another Pod has applied its next file, so that the SQL or the *)
(* primary key of schema_migrations refuses the transaction.               *)
PodFails(p) ==
    /\ pod[p] # NoPod
    /\ pod' = [pod EXCEPT ![p] = NoPod]
    /\ IF pod[p].mine /\ job = "active"
       THEN IF failures < BackoffLimit
            THEN failures' = failures + 1 /\ UNCHANGED job
            ELSE job' = "failed" /\ UNCHANGED failures
       ELSE UNCHANGED jobVars
    /\ UNCHANGED <<schema, workflow, deployed, serving>>

PodSucceeds(p) ==
    /\ pod[p].at = "migrating" /\ pod[p].todo = {}
    /\ pod' = [pod EXCEPT ![p] = NoPod]
    /\ job' = IF pod[p].mine THEN "complete" ELSE job
    /\ UNCHANGED <<schema, workflow, failures, deployed, serving>>

PodStep(p) ==
    \/ StartPod(p) \/ ReadApplied(p) \/ ApplyFile(p) \/ PodFails(p) \/ PodSucceeds(p)

WorkflowStep == DeleteJob \/ ApplyJob \/ ApplyDeployment \/ TimeOut

RolloutNext == WorkflowStep \/ NewReady \/ OldGone \/ \E p \in Pods : PodStep(p)

RolloutSpec == RolloutInit /\ [][RolloutNext]_rollout

-----------------------------------------------------------------------------
(* Properties *)

RolloutTypeOK ==
    /\ applied \subseteq Files /\ effects \in [Files -> 0 .. 2]
    /\ workflow \in Workflows
    /\ job \in {"none", "active", "complete", "failed"} /\ failures \in 0 .. BackoffLimit
    /\ pod \in [Pods -> PodType]
    /\ deployed \in BOOLEAN /\ serving \in (SUBSET {"old", "new"}) \ {{}}

(* Whatever Pods overlap, die or are left behind, the schema has gone      *)
(* through the files in their order, without a gap ...                     *)
AppliedInOrder == \A f \in applied, g \in Files : g < f => g \in applied

(* ... and through each of them once: schema_migrations says what has been *)
(* done to the schema, no more and no less.                                *)
AppliedOnce == \A f \in Files : effects[f] = IF f \in applied THEN 1 ELSE 0

(* The new release never serves on a schema it does not know, also when    *)
(* the workflow that deploys it follows one that failed half-way.          *)
NewServesFullSchema == "new" \in serving => applied = Files

(* Whatever workflows and Pods do, the release is the upgrade that one     *)
(* script alone would make: schema_migrations counts through the files,    *)
(* each has its effect when it is counted, and the replicas follow.        *)
Upgrade == INSTANCE SchemaUpgrade WITH
    From <- NumOld, To <- NumFiles, version <- Cardinality(applied)

OneUpgrade == Upgrade!UpgradeSpec
===============================================================================
