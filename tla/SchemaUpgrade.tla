--------------------------- MODULE SchemaUpgrade ---------------------------
(***************************************************************************)
(* What a release promises to the database and to the clients: the schema  *)
(* goes through its versions one by one and never back, as if one script   *)
(* did it alone; the new release joins at the last version, and only then  *)
(* the old one leaves.                                                     *)
(***************************************************************************)
EXTENDS Integers

CONSTANTS From, To   \* versions of the schema, before and after

VARIABLES
    version,   \* the version the schema says it has
    effects,   \* of each version: how often the schema went through it
    serving    \* releases clients can meet

upgrade == <<version, effects, serving>>

UpgradeInit ==
    /\ version = From
    /\ effects = [v \in 1 .. To |-> IF v <= From THEN 1 ELSE 0]
    /\ serving = {"old"}

Migrate ==
    /\ version < To
    /\ version' = version + 1
    /\ effects' = [effects EXCEPT ![version + 1] = 1]
    /\ UNCHANGED serving

Join ==
    /\ version = To
    /\ serving' = serving \cup {"new"}
    /\ UNCHANGED <<version, effects>>

Leave ==
    /\ "new" \in serving
    /\ serving' = {"new"}
    /\ UNCHANGED <<version, effects>>

UpgradeSpec == UpgradeInit /\ [][Migrate \/ Join \/ Leave]_upgrade
=============================================================================
