----------------------------- MODULE MCWarehouse -----------------------------
(***************************************************************************)
(* Instance of Warehouse for TLC: an API key and a user, one month, one    *)
(* process that may run the connector again and again.                     *)
(***************************************************************************)
EXTENDS Warehouse, TLC

CONSTANTS a1, a2
Twins == Permutations(Aggregators)

MCWorkspaceOf == [h \in Holders |-> IF h \in ApiKeys THEN "ws" ELSE ""]
MCModelOf == [n \in Names |-> n]
MCPrice == [h \in ApiKeys |-> 2]
MCMonthOf == [d \in Days |-> d]

Line(d, h, n) == [day |-> d, holder |-> h, name |-> n]
OneDay == {[l \in Lines |-> IF l.holder = "user" THEN 2 ELSE 1]}

=============================================================================
