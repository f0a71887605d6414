------------------------------ MODULE MCServing ------------------------------
(***************************************************************************)
(* Instance of Serving for TLC: an organisation that opened its text to    *)
(* the second stage and one of the same version that did not, one of the   *)
(* first stage, and one whose version is unknown.                          *)
(***************************************************************************)
EXTENDS Serving

Org(version, opens) == [router_version |-> version, send_prompt_text |-> opens]
AllPolicies == {Org("embed_v0", TRUE), Org("embed_v0", FALSE), Org("ml_v05", TRUE), Org("other", TRUE)}
Opened == {Org("embed_v0", TRUE), Org("other", TRUE)}
FirstStage == {Org("ml_v05", FALSE)}

Ml(model, c) == [model |-> model, confidence |-> c, rule |-> "ml:v05"]
Decisions == {Ml("visible", 60), Ml("visible", 130), Ml("hidden", 90), Ml("visible", NaN)}
OneDecision == {Ml("visible", 60)}

=============================================================================
