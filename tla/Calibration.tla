----------------------------- MODULE Calibration -----------------------------
(***************************************************************************)
(* How the confidences of a model are calibrated on the validation rows,   *)
(* then emitted.                                                           *)
(*                                                                         *)
(*   router/train/train_v05.py   fit_isotonic (also train_head_v0)         *)
(*   router/sobrio_router/ml.py  interp_conf, and the chain of predict     *)
(*                                                                         *)
(* Numbers are exact where the code has floats. A raw confidence is an     *)
(* integer out of Scale, a value of the calibrator a fraction [num, den].  *)
(***************************************************************************)
EXTENDS Allocation, Sequences, SequencesExt

CONSTANTS
  Scale,      \* the confidence 1
  MaxPoints   \* bound on the validation rows

ASSUME CalibrationAssumption == Scale \in Nat \ {0}

VARIABLE points  \* validation rows so far: [conf, correct]

-----------------------------------------------------------------------------
(* Pool adjacent violators. A block is the sum and the weight of its rows  *)
(* and the confidences it spans.                                           *)

Confs(ps) == {ps[i].conf : i \in DOMAIN ps}

\* The numbers of a set, least first.
InOrder(S) == [i \in 1 .. Cardinality(S) |-> CHOOSE x \in S : Cardinality({y \in S : y < x}) = i - 1]

Aggregate(ps) ==
  LET at(x) == {i \in DOMAIN ps : ps[i].conf = x}
      block(x) == [sum |-> Cardinality({i \in at(x) : ps[i].correct}),
                   weight |-> Cardinality(at(x)), lo |-> x, hi |-> x]
      xs == InOrder(Confs(ps))
  IN  [i \in DOMAIN xs |-> block(xs[i])]

NotBelow(a, b) == a.sum * b.weight >= b.sum * a.weight
Pool(a, b) == [sum |-> a.sum + b.sum, weight |-> a.weight + b.weight, lo |-> a.lo, hi |-> b.hi]

\* The last block swallows the one before it when the mean of that one is not below its own.
Merge(blocks) ==
  LET n == Len(blocks) IN
  IF n >= 2 /\ NotBelow(blocks[n - 1], blocks[n])
  THEN Append(SubSeq(blocks, 1, n - 2), Pool(blocks[n - 1], blocks[n]))
  ELSE blocks

\* The new block is compared with the last one only once.
MutPush(blocks, b) == Merge(Append(blocks, b))

\* As long as it can, for at most as many times as there are blocks.
Push(blocks, b) ==
  LET turn[n \in 0 .. Len(blocks)] == IF n = 0 THEN Append(blocks, b) ELSE Merge(turn[n - 1])
  IN  turn[Len(blocks)]

Blocks(ps) ==
  LET agg == Aggregate(ps)
      pooled[n \in 0 .. Len(agg)] == IF n = 0 THEN <<>> ELSE Push(pooled[n - 1], agg[n])
  IN  pooled[Len(agg)]

\* Control points: both ends of every block.
Ends(b) ==
  LET y == [num |-> b.sum, den |-> b.weight]
  IN  IF b.hi > b.lo THEN <<[x |-> b.lo, y |-> y], [x |-> b.hi, y |-> y]>>
      ELSE <<[x |-> b.lo, y |-> y]>>

FitIsotonic(ps) ==
  LET blocks == Blocks(ps)
  IN  FlattenSeq([i \in DOMAIN blocks |-> Ends(blocks[i])])

\* The training refuses fewer than two validation rows, or than two control points.
Refused(ps) == Len(ps) < 2 \/ Len(FitIsotonic(ps)) < 2

-----------------------------------------------------------------------------
(* Interpolation between control points, and the confidence emitted.       *)

Between(raw, p, q) ==
  [num |-> p.y.num * q.y.den * (q.x - raw) + q.y.num * p.y.den * (raw - p.x),
   den |-> p.y.den * q.y.den * (q.x - p.x)]

InterpConf(raw, calib) ==
  IF raw <= calib[1].x THEN calib[1].y
  ELSE IF raw >= Last(calib).x THEN Last(calib).y
  ELSE LET i == CHOOSE i \in DOMAIN calib : calib[i].x > raw /\ calib[i - 1].x <= raw
       IN  Between(raw, calib[i - 1], calib[i])

LessEq(a, b) == a.num * b.den <= b.num * a.den
Least(a, b) == IF LessEq(a, b) THEN a ELSE b

\* The least of the raw confidence and the calibrated one, clamped to [0, 1].
Emitted(raw, calib) ==
  LET v == Least([num |-> raw, den |-> Scale], InterpConf(raw, calib))
  IN  Least([num |-> 1, den |-> 1], IF v.num < 0 THEN [num |-> 0, den |-> 1] ELSE v)

-----------------------------------------------------------------------------
(* Validation rows come one by one.                                        *)

CalibrationInit == points = <<>>

Predict ==
  /\ Len(points) < MaxPoints
  /\ \E c \in 0 .. Scale, correct \in BOOLEAN :
       points' = Append(points, [conf |-> c, correct |-> correct])

CalibrationSpec == CalibrationInit /\ [][Predict]_points

-----------------------------------------------------------------------------
(* Properties                                                              *)

\* Reference: the isotonic regression at the i-th confidence is the greatest, over the
\* windows that begin at or before it, of the least mean of those that end at or after it.
IsotonicAt(agg, i) ==
  LET mean(j, k) == [num |-> SumFunction([n \in j .. k |-> agg[n].sum]),
                     den |-> SumFunction([n \in j .. k |-> agg[n].weight])]
      least(S) == CHOOSE a \in S : \A b \in S : LessEq(a, b)
      greatest(S) == CHOOSE a \in S : \A b \in S : LessEq(b, a)
  IN  greatest({least({mean(j, k) : k \in i .. Len(agg)}) : j \in 1 .. i})

Regression(agg, calib) ==
  \A i \in DOMAIN agg :
    LET v == InterpConf(agg[i].lo, calib)
        w == IsotonicAt(agg, i)
    IN  LessEq(v, w) /\ LessEq(w, v)

KeepsOrder(calib) ==
  LET emitted == [raw \in 0 .. Scale |-> Emitted(raw, calib)]
  IN  \A raw \in 0 .. Scale :
        /\ LessEq(emitted[raw], [num |-> raw, den |-> Scale])
        /\ raw < Scale => LessEq(emitted[raw], emitted[raw + 1])

\* Pooling adjacent violators, one pass with its merges backwards, ties of confidence
\* averaged first, and only the ends of a block kept, still gives at every validation
\* confidence the least-squares isotonic regression (train_v05.py:205-251). The confidence
\* the threshold of the automatic switch reads keeps the order the model gave, between and
\* beyond the control points too, and never exceeds the raw one (ml.py:74-91,
\* train_v05.py:339-348).
EmittedIsIsotonic ==
  ~Refused(points) =>
    LET calib == FitIsotonic(points)
    IN  Regression(Aggregate(points), calib) /\ KeepsOrder(calib)

=============================================================================
