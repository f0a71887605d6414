---------------------------- MODULE RecoOutcome ----------------------------
(***************************************************************************)
(* What the assist flow promises to the telemetry, reco by reco and        *)
(* independently of panels, timers and switches: a recommendation that was *)
(* shown receives at most one verdict, exactly one event is sent with it,  *)
(* and the verdict "accepted" (an automatic switch left in place) is given *)
(* only to a switch whose result was verified in the page.                 *)
(***************************************************************************)
EXTENDS Naturals

CONSTANT Recos          \* identities of the recommendations

Verdict == {"accepted", "rejected", "followed", "overridden"}

\* stage: where the recommendation is; verified: its automatic switch was read
\* back in the page; events: reco_events sent for it.
Life == [stage : {"unseen", "shown"} \cup Verdict, verified : BOOLEAN, events : Nat]

VARIABLE life

Unseen == [stage |-> "unseen", verified |-> FALSE, events |-> 0]

Init == life = [r \in Recos |-> Unseen]

\* The panel shows the recommendation.
Show(old, new) ==
  /\ old = Unseen
  /\ new.stage = "shown"
  /\ new.verified = old.verified /\ new.events = old.events

\* The switch of a recommendation is read back; the verdict may already be
\* "rejected" when Cancel was clicked while the switch was in flight.
Verify(old, new) ==
  /\ old.stage \in {"shown", "rejected"}
  /\ new.verified
  /\ new.stage = old.stage /\ new.events = old.events

\* The only verdict this recommendation ever receives, with its only event.
Settle(old, new) ==
  /\ old.stage = "shown"
  /\ old.events = 0
  /\ new.stage \in Verdict
  /\ new.events = 1
  /\ new.stage = "accepted" => new.verified
  /\ new.verified = old.verified \/ (new.stage = "accepted" /\ new.verified)

\* One step of the program may move several recommendations: showing one
\* accepts the one whose panel it replaces.
Next ==
  /\ life' \in [Recos -> Life]
  /\ \A r \in Recos :
       \/ life'[r] = life[r]
       \/ Show(life[r], life'[r])
       \/ Verify(life[r], life'[r])
       \/ Settle(life[r], life'[r])

Spec == Init /\ [][Next]_life

=============================================================================
