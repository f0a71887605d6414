------------------------------ MODULE Evaluation ------------------------------
(***************************************************************************)
(* What a report of evaluation says of the decisions of a router on the    *)
(* golden set (router/eval/harness.py): the metrics the gate of promotion  *)
(* compares, and those beside them for a reader.                           *)
(*                                                                         *)
(* Confidences are in thousandths. A rate is kept with its denominator, so *)
(* that nothing is rounded: a gap is the number of rows times the distance *)
(* between their rate of right answers and their mean confidence.          *)
(* Latencies, and the counts by category and by rule, are left out.        *)
(***************************************************************************)
EXTENDS Integers, Sequences, FiniteSetsExt

CONSTANTS
  Judgements,  \* rows: [label, model, conf], the model and confidence being the router's
  MaxJudged    \* bound on the rows of an evaluation

VARIABLE judged

\* From the cheapest to the dearest.
Catalogue == <<"haiku", "sonnet", "opus">>
ModelRank(model) == CHOOSE k \in DOMAIN Catalogue : Catalogue[k] = model

AutoThreshold == 750

-----------------------------------------------------------------------------
(* Counts.                                                                 *)

\* A router that is not wrapped may answer anything: the evaluation stops.
OutOfCatalogue(js) ==
  \E i \in DOMAIN js : \/ {js[i].label, js[i].model} \ {"haiku", "sonnet", "opus"} # {}
                       \/ js[i].conf \notin 0 .. 1000

Right(js) == {i \in DOMAIN js : js[i].model = js[i].label}
Under(js) == {i \in DOMAIN js : ModelRank(js[i].model) < ModelRank(js[i].label)}
Over(js)  == {i \in DOMAIN js : ModelRank(js[i].model) > ModelRank(js[i].label)}

\* Twice the number of rows is 1; errors below the label count double.
WeightedAccuracy(under, over, n) ==
  IF n = 0 THEN 1 ELSE Max({0, Min({2 * n, 2 * n - 2 * under - over})})

\* Rows are labels, columns are predictions.
ConfusionMatrix(js) ==
  [cell \in (1 .. 3) \X (1 .. 3) |->
     Cardinality({i \in DOMAIN js : <<ModelRank(js[i].label), ModelRank(js[i].model)>> = cell})]

-----------------------------------------------------------------------------
(* Calibration, over all decisions, those that switch without a click, and *)
(* those of one confidence.                                                *)

Gap(js, rows) ==
  LET right == 1000 * Cardinality(rows \cap Right(js))
      claimed == SumFunctionOnSet([i \in DOMAIN js |-> js[i].conf], rows)
  IN  IF right > claimed THEN right - claimed ELSE claimed - right

\* Errors of opposite bins cancel out.
MutComputeEce(js) == Gap(js, DOMAIN js)

Bin(conf) == Min({conf \div 100, 9})
ComputeEce(js) ==
  SumFunction([b \in 0 .. 9 |-> Gap(js, {i \in DOMAIN js : Bin(js[i].conf) = b})])

AutoBand(js) == {i \in DOMAIN js : js[i].conf >= AutoThreshold}

\* Confidences rounded to two decimals.
ConfLabel(conf) == (conf + 5) \div 10
CalibrationByConfidence(js) ==
  [c \in {ConfLabel(js[i].conf) : i \in DOMAIN js} |-> {i \in DOMAIN js : ConfLabel(js[i].conf) = c}]

-----------------------------------------------------------------------------
(* The router decides one entry after the other.                           *)

EvaluationInit == judged = <<>>

Judge ==
  /\ Len(judged) < MaxJudged
  /\ \E j \in Judgements : judged' = Append(judged, j)

EvaluationSpec == EvaluationInit /\ [][Judge]_judged

-----------------------------------------------------------------------------
(* Properties                                                              *)

\* The metrics of one report do not contradict each other. The matrix counts every row
\* once, its diagonal the right answers and its lower triangle those below the label; the
\* weighted accuracy is between the exact one and half-way to 1 (harness.py:89-108).
CountsAgree(js) ==
  LET n == Len(js)
      matrix == ConfusionMatrix(js)
      cells(op(_, _)) == {c \in (1 .. 3) \X (1 .. 3) : op(c[2], c[1])}
      right == SumFunctionOnSet(matrix, cells(LAMBDA p, l : p = l))
      under == SumFunctionOnSet(matrix, cells(LAMBDA p, l : p < l))
      weighted == WeightedAccuracy(Cardinality(Under(js)), Cardinality(Over(js)), n)
  IN  /\ right = Cardinality(Right(js)) /\ under = Cardinality(Under(js))
      /\ SumFunction(matrix) = n
      /\ 2 * right <= weighted /\ weighted <= n + right

\* What the global error can hide of the band that switches without a click ("peut la
\* masquer", harness.py:65-70): never more than the rows of the bin the threshold cuts,
\* below it; and a tranche of confidence shows no less (harness.py:227-254), but for the
\* rows rounded up to the threshold.
NothingElseIsHidden(js) ==
  LET ece == ComputeEce(js)
      band == AutoBand(js)
      cells == CalibrationByConfidence(js)
      cut(S) == Gap(js, S \ band)
  IN  /\ Gap(js, DOMAIN js) <= ece /\ ece <= 1000 * Len(js)
      /\ Gap(js, band) <= ece + cut({i \in DOMAIN js : Bin(js[i].conf) = Bin(AutoThreshold)})
      /\ Gap(js, band) <= SumFunctionOnSet([c \in DOMAIN cells |-> Gap(js, cells[c])],
                                           {c \in DOMAIN cells : 10 * c >= AutoThreshold})
                          + cut({i \in DOMAIN js : 10 * ConfLabel(js[i].conf) >= AutoThreshold})

\* Whatever a router answers, the report the gate reads is refused or coherent: see its
\* two parts above.
ReportsAgree ==
  judged # <<>> /\ ~OutOfCatalogue(judged) => CountsAgree(judged) /\ NothingElseIsHidden(judged)

=============================================================================
