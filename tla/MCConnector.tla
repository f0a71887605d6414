----------------------------- MODULE MCConnector -----------------------------
(***************************************************************************)
(* Instance of Connector for TLC: two API keys of one workspace and a      *)
(* user, a model with its former name, a name the map does not have.       *)
(***************************************************************************)
EXTENDS Connector, TLC

CONSTANTS s1, s2
Twins == Permutations(Syncs)

MCWorkspaceOf == [h \in Holders |-> IF h \in ApiKeys THEN "ws" ELSE ""]
MCModelOf == [n \in Names |-> IF n = "mystery" THEN Unknown ELSE "sonnet"]
MCPrice == [h \in ApiKeys |-> IF h = "key1" THEN 1 ELSE 2]

Line(d, h, n) == [day |-> d, holder |-> h, name |-> n]
Report(amounts) == [l \in Lines |-> IF l \in DOMAIN amounts THEN amounts[l] ELSE 0]

\* Two keys on one day, and what the fixtures say of their last day.
Early == Line(1, "key1", "now") :> 1 @@ Line(1, "key2", "now") :> 2 @@ Line(2, "key1", "now") :> 1
FewInitials == {Report(Early), Report(Early @@ Line(3, "user", "now") :> 1)}

=============================================================================
