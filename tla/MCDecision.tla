----------------------------- MODULE MCDecision ------------------------------
(***************************************************************************)
(* Instance of Routing, Calibration, Evaluation and Ledger for TLC: how a  *)
(* prompt is decided, how the confidence of a decision is calibrated, how  *)
(* decisions are judged, and what becomes of a recommendation. They share  *)
(* no state: a behaviour exercises one of them, and the others rest.       *)
(*                                                                         *)
(* Routing: one stem or motif for each distinction the signals make, and   *)
(* lengths on both sides of every bound of the rules. Calibration: every   *)
(* sequence of validation rows up to the bound.                            *)
(* Evaluation: three rows, with confidences on both sides of the threshold *)
(* in the bin it cuts, one of which is rounded up to it.                   *)
(***************************************************************************)
EXTENDS Routing, Calibration, Evaluation, MCLedger

StemsChecked == {"contrat", "resum", "script", "fence", "prouve", "theoreme"}
LengthsChecked == {49, 50, 299, 300, 800, 801, 900}
ContextsChecked == {0, 1999, 2000, 3999, 4000, 4001}
CountsChecked == {6, 7}

\* Every share of up to twelve rows among three templates.
ASSUME AllocationChecked ==
  \A total \in 0 .. 12, weights \in [1 .. 3 -> 1 .. 4] : AllocationIsExact(total, weights)

NothingTyped ==
  draft = {} /\ prompt = ComputePromptSignals({}, 0) /\ conversation = Neutral

JudgementsChecked ==
  [label : {"haiku", "sonnet", "opus"}, model : {"haiku", "sonnet", "opus"}, conf : {10, 746, 752, 1000}]
    \cup [label : {"opus"}, model : {"other", "opus"}, conf : {750, 1200}]

DecisionInit ==
  (TypingInit \/ NothingTyped) /\ CalibrationInit /\ EvaluationInit /\ LedgerInit

DecisionNext ==
  \/ ~NothingTyped /\ TypingNext /\ UNCHANGED <<points, judged, ledgerVars>>
  \/ /\ NothingTyped /\ UNCHANGED typing
     /\ \/ EvaluationInit /\ LedgerInit /\ Predict /\ UNCHANGED <<judged, ledgerVars>>
        \/ CalibrationInit /\ LedgerInit /\ Judge /\ UNCHANGED <<points, ledgerVars>>
        \/ CalibrationInit /\ EvaluationInit /\ LedgerNext /\ UNCHANGED <<points, judged>>

DecisionSpec == DecisionInit /\ [][DecisionNext]_<<typing, points, judged, ledgerVars>>

=============================================================================
