----------------------------- MODULE MCPromotion -----------------------------
(***************************************************************************)
(* Instance of Promotion for TLC: two versions that pass the gate after    *)
(* the heuristic, and one that is too far from it, but not from the first. *)
(***************************************************************************)
EXTENDS Promotion, TLC

CONSTANTS fair, good, far

ThreeVersions == {fair, good, far}
Heuristic == [exactitude |-> 60, ece |-> 8, sous |-> 5, n |-> 9, ecart |-> 8]
Reports ==
     fair :> [exactitude |-> 70, ece |-> 9, sous |-> 7, n |-> 5, ecart |-> 9]
  @@ good :> [exactitude |-> 80, ece |-> 8, sous |-> 6, n |-> 0, ecart |-> 0]
  @@ far  :> [exactitude |-> 90, ece |-> 8, sous |-> 8, n |-> 5, ecart |-> 9]

=============================================================================
