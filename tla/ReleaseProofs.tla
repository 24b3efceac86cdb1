---------------------------- MODULE ReleaseProofs ----------------------------
(***************************************************************************)
(* Theorems about Release: the theorems about its parts hold of them while *)
(* the other one runs, for every number of files, Pods and posts.          *)
(***************************************************************************)
EXTENDS Release, RolloutProofs, BlogsProofs

(* A post has a handler from when it is accepted, and this handler serves  *)
(* as long as the post is in flight.                                       *)
HandlersServe ==
    /\ handler \in [Posts -> {"old", "new", NoRelease}]
    /\ \A b \in Posts :
        /\ handler[b] = NoRelease <=> phase[b] = "idle"
        /\ InFlight(b) => handler[b] \in serving

-----------------------------------------------------------------------------
(* A step of the whole is one of a part, or none. *)
LEMMA StepOfParts == [Next]_vars => [RolloutNext]_rollout /\ [BlogsNext]_blogVars
    BY DEF Next, RolloutStep, PostStep, BlogsNext, vars

(* The composition does what its parts do. *)
THEOREM Parts == Spec => RolloutSpec /\ BlogsSpec
<1>1. Init => RolloutInit /\ BlogsInit
    BY DEF Init
<1>2. QED
    BY <1>1, StepOfParts, PTL DEF Spec, RolloutSpec, BlogsSpec

(* A step moves one post, out of "idle" or of the phases in flight.        *)
LEMMA StepMovesPost ==
    ASSUME BlogsTypeOK, NEW b \in Posts, Step(b)
    PROVE  /\ phase[b] = "idle" \/ InFlight(b)
           /\ \E p \in Phases : p # "idle" /\ phase' = [phase EXCEPT ![b] = p]
    BY DEF Step, Submit, Reject, SaveImage, SaveFails, InsertRow, InsertFails, DeleteImage,
       DeleteFails, Die, Reply, MoveTo, InFlight, Phases

LEMMA HandlersServeStep ==
    RolloutTypeOK /\ BlogsTypeOK /\ HandlersServe /\ [Next]_vars => HandlersServe'
<1> SUFFICES ASSUME RolloutTypeOK, BlogsTypeOK, HandlersServe, [Next]_vars
             PROVE  HandlersServe'
    OBVIOUS
<1>1. ASSUME NEW b \in Posts, PostStep(b) PROVE HandlersServe'
  <2>1. PICK p \in Phases : p # "idle" /\ phase' = [phase EXCEPT ![b] = p]
      BY <1>1, StepMovesPost DEF PostStep
  <2>2. phase \in [Posts -> Phases] /\ serving' = serving /\ serving \subseteq {"old", "new"}
      BY <1>1 DEF PostStep, rollout, RolloutTypeOK, BlogsTypeOK
  <2>3. CASE Accepts(b)
    <3>1. PICK r \in serving : handler' = [handler EXCEPT ![b] = r]
        BY <1>1, <2>3 DEF PostStep
    <3> QED
        BY <2>1, <2>2, <3>1, NoReleaseAssumption DEF HandlersServe, InFlight
  <2>4. CASE ~Accepts(b)
    <3>1. InFlight(b) /\ handler' = handler
        BY <1>1, <2>4, StepMovesPost DEF PostStep, Accepts
    <3> QED
        BY <2>1, <2>2, <3>1 DEF HandlersServe, InFlight
  <2> QED
      BY <2>3, <2>4
<1>2. CASE RolloutStep
  <2>1. UNCHANGED <<phase, handler>>
      BY <1>2 DEF RolloutStep, blogVars
  <2>2. CASE OldGone
    <3>1. serving' = {"new"} /\ serving = {"old", "new"}
        BY <2>2 DEF OldGone
    <3>2. \A b \in Posts : handler[b] = "old" => ~InFlight(b)
        BY <1>2, <3>1 DEF RolloutStep
    <3> QED
        BY <2>1, <3>1, <3>2 DEF HandlersServe, InFlight
  <2>3. CASE serving \subseteq serving'
      BY <2>1, <2>3 DEF HandlersServe, InFlight
  <2>4. serving \subseteq serving' \/ OldGone
      BY <1>2 DEF RolloutStep, RolloutNext, WorkflowStep, DeleteJob, ApplyJob,
         ApplyDeployment, TimeOut, NewReady, PodStep, StartPod, ReadApplied, ApplyFile,
         PodFails, PodSucceeds
  <2> QED
      BY <2>2, <2>3, <2>4
<1>3. CASE UNCHANGED vars
    BY <1>3 DEF vars, rollout, blogVars, HandlersServe, InFlight
<1> QED
    BY <1>1, <1>2, <1>3 DEF Next

-----------------------------------------------------------------------------
(* The parts keep their types, and a post in flight is handled by a release *)
(* that serves.                                                             *)
THEOREM TypeCorrectness == Spec => []TypeOK
<1>1. Init => HandlersServe
    BY NoReleaseAssumption DEF Init, BlogsInit, HandlersServe, InFlight
<1>2. RolloutTypeOK /\ BlogsTypeOK /\ HandlersServe => TypeOK
    BY DEF HandlersServe, TypeOK
<1>3. QED
    BY <1>1, <1>2, HandlersServeStep, Parts, RolloutTypeCorrectness, BlogsTypeCorrectness, PTL
       DEF Spec

(* The migration files are applied in their order, each once, and the new  *)
(* release serves on all of them only, whatever the clients do.            *)
THEOREM RolloutSafety == Spec => [](AppliedInOrder /\ AppliedOnce /\ NewServesFullSchema)
    BY Parts, InOrder, AppliedExactlyOnce, FullSchema, PTL

(* The upgrade stays the one a script alone would make. *)
THEOREM ReleaseIsOneUpgrade == Spec => OneUpgrade
    BY Parts, Sequential, PTL

(* The promises about blogs and their images are kept during a release,    *)
(* also by the old release when the schema has moved on.                   *)
THEOREM BlogSafety == Spec => [](StoredBlogHasImage /\ NoOrphanImage /\ AnswerMatchesStores)
    BY Parts, ImagesOfBlogs, NoOrphans, TrueAnswers, PTL
===============================================================================
