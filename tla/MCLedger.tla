------------------------------- MODULE MCLedger ------------------------------
(***************************************************************************)
(* Instance of Ledger for TLC: an organisation with its own token and the  *)
(* demonstration, two recommendations, two demonstration events.           *)
(***************************************************************************)
EXTENDS Ledger

MCOwn == [o \in Orgs |-> IF o = "client" THEN "own" ELSE Null]
MCDemoVerdict == [e \in Demo |-> IF e = "demo1" THEN "followed" ELSE "overridden"]

=============================================================================
