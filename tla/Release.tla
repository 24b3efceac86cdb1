------------------------------- MODULE Release -------------------------------
(***************************************************************************)
(* A release goes to the cluster while clients create blogs: Rollout and   *)
(* Blogs composed.  They share the schema, on which the inserts of a       *)
(* replica of the old release depend, and the replicas, with which posts   *)
(* in flight are gone.                                                     *)
(***************************************************************************)
EXTENDS Rollout, Blogs

CONSTANTS
    Breaking,        \* files after which inserts of the old release fail: 003
                     \* renames a column of blogs
    NoRelease        \* a post nobody handles yet

ASSUME BreakingAssumption == Breaking \subseteq Files
ASSUME NoReleaseAssumption == NoRelease \notin {"old", "new"}

VARIABLE
    handler  \* of each post: the release of the replica that handles it

vars == <<rollout, blogVars, handler>>

Init ==
    /\ RolloutInit /\ BlogsInit
    /\ handler = [b \in Posts |-> NoRelease]

Accepts(b) == phase[b] = "idle"

(* The insert of release r goes through. *)
Fits(r) == r = "new" \/ applied \cap Breaking = {}

(* A request comes to a replica that serves, and stays with it. *)
PostStep(b) ==
    /\ Step(b)
    /\ IF Accepts(b)
       THEN \E r \in serving : handler' = [handler EXCEPT ![b] = r]
       ELSE UNCHANGED handler
    /\ blogs' # blogs => Fits(handler[b])
    /\ UNCHANGED rollout

(* A replica is gone once its posts have ended or died. *)
RolloutStep ==
    /\ RolloutNext
    /\ "old" \in serving \ serving' =>
        \A b \in Posts : handler[b] = "old" => ~InFlight(b)
    /\ UNCHANGED <<blogVars, handler>>

Next == RolloutStep \/ \E b \in Posts : PostStep(b)

Spec == Init /\ [][Next]_vars

-----------------------------------------------------------------------------
(* Properties: those of the parts, in every interleaving of the two. *)

(* Types of the parts; a post in flight is handled by a release that       *)
(* serves.                                                                 *)
TypeOK ==
    /\ RolloutTypeOK /\ BlogsTypeOK
    /\ handler \in [Posts -> {"old", "new", NoRelease}]
    /\ \A b \in Posts :
        /\ handler[b] = NoRelease <=> phase[b] = "idle"
        /\ InFlight(b) => handler[b] \in serving
===============================================================================
