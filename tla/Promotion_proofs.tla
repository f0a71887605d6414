--------------------------- MODULE Promotion_proofs ---------------------------
(***************************************************************************)
(* The guarantees of Promotion for every set of versions, whatever their   *)
(* reports: what is served passed the gate and stays close to the          *)
(* heuristic, an interruption loses nothing if the command began soundly,  *)
(* and reports follow their version through the renames.                   *)
(*                                                                         *)
(* One inductive invariant, IInv, in named parts, and one lemma per part:  *)
(* each part is preserved by every step of a state that satisfies IInv.    *)
(***************************************************************************)
EXTENDS Promotion, TLAPS

\* The steps of a promotion after its gate.
Promoting == {"check", "clear", "retire", "copy", "fill", "mixed", "report", "sign"}

\* What a promotion copies is what it evaluated, and the gate let it through.
Steady ==
  ~overlapped =>
    /\ pc \in Promoting =>
         ~training /\ evaluated \in approved /\ candidate.version = evaluated
           /\ Whole(candidate)
    /\ pc # "mixed"
    /\ pc \in {"fill", "report", "sign"} => promoted.version = evaluated

\* A training writes no report and leaves a directory; what exists has a version.
Named ==
  /\ candidate.report = None
  /\ \A d \in {candidate, promoted, previous, tmp} : Exists(d) => d.version \in Versions
  /\ pc \in Promoting => evaluated \in Versions /\ Exists(candidate)
  /\ pc \in {"fill", "mixed", "report", "sign"} => Exists(promoted)
  /\ training => Exists(candidate)

\* Close to the heuristic: what the gate asks of a report, that baseline alone.
Close(m) ==
  /\ m.ece <= Baseline.ece + 1
  /\ m.sous <= Baseline.sous + 2
  /\ m.n > 0 /\ Baseline.n > 0 => m.ecart <= Baseline.ecart + 2

ApprovedClose == \A v \in approved : Close(Measures[v])

\* Where an entire version is, at each step of a command that began soundly.
Kept ==
  sound =>
    /\ pc = "check" => promoted.files # "part" /\ (Whole(promoted) \/ Whole(previous))
    /\ pc \in {"clear", "retire"} => Whole(promoted)
    /\ pc \in {"copy", "fill", "mixed", "report", "sign"} => Whole(previous)

\* The version evaluated is at least as exact as the one in d.
NotBelow(d) == Exists(d) => Measures[evaluated].exactitude >= Measures[d.version].exactitude

Reported(d) == Exists(d) => d.report = d.version

\* Without interruption every version carries its report, which is what the gate
\* compares the next one with.
Ranked ==
  ~overlapped /\ ~crashed =>
    /\ pc \in {"idle", "check", "clear", "retire", "cleartmp", "aside", "only"}
         => Reported(promoted)
    /\ pc \in {"idle", "check", "cleartmp", "aside", "only"}
         => Reported(previous) /\ (Exists(previous) => Exists(promoted))
    /\ pc \in {"cleartmp", "aside"} => Exists(promoted)
    /\ pc \in {"restore", "back"} => Exists(tmp) /\ Reported(tmp)
    /\ pc = "restore" => Exists(previous) /\ Reported(previous)
    /\ pc = "back" => Exists(promoted) /\ Reported(promoted)
    /\ pc # "only"
    /\ pc \in {"copy", "fill", "mixed", "report", "sign"} => Reported(previous)
    /\ pc \in {"check", "clear", "retire"} => NotBelow(promoted)
    /\ pc \in {"copy", "fill", "mixed", "report", "sign"} => NotBelow(previous)
    /\ pc \in {"clear", "retire"} => Exists(promoted)

IInv ==
  /\ TypeOK /\ Named /\ Steady /\ ApprovedClose /\ Kept /\ Ranked
  /\ OnlyApproved /\ SafeToInterrupt /\ ReportsDescribe /\ RollbackInstallsEntire

-----------------------------------------------------------------------------
(* Directories *)

\* The directory that does not exist.
LEMMA AbsentIsDir == Absent \in Dir /\ Absent.files = "none" /\ Absent.version = None
                       /\ Absent.report = None
  BY DEF Absent, Dir

\* The directory a training begins to write.
LEMMA CandidateIsDir ==
  ASSUME NEW v \in Versions
  PROVE  [Absent EXCEPT !.version = v, !.files = "part"] \in Dir
  BY DEF Absent, Dir

\* What is left of a directory under removal is its own.
LEMMA RemovalsKeep ==
  ASSUME NEW d \in Dir, NEW r \in Removals(d)
  PROVE  /\ r \in Dir
         /\ Exists(r) => Exists(d) /\ r.version = d.version
         /\ Whole(r) => Whole(d)
         /\ r.report # None => r.report = d.report /\ r.version = d.version
<1>1. CASE Whole(d)
  BY <1>1 DEF Dir, Removals, Whole, Exists
<1>2. CASE ~Whole(d)
  <2>1. r = Absent
    BY <1>2 DEF Removals
  <2> QED BY <2>1, AbsentIsDir DEF Whole, Exists
<1> QED BY <1>1, <1>2

-----------------------------------------------------------------------------
(* Type *)

\* No directory exists at first.
LEMMA TypeInit == Init => TypeOK
  BY AbsentIsDir DEF Init, TypeOK, Step

\* Every step keeps the types; Named gives the version that is evaluated.
LEMMA TypeStep == TypeOK /\ Named /\ [Next]_vars => TypeOK'
<1> SUFFICES ASSUME TypeOK, Named, [Next]_vars PROVE TypeOK'
  OBVIOUS
<1> USE DEF TypeOK, history
<1>1. ASSUME NEW v \in Versions, TrainBegins(v) PROVE TypeOK'
  BY <1>1, CandidateIsDir DEF TrainBegins, Step
<1>2. CASE TrainEnds
  <2>1. [candidate EXCEPT !.files = "all"] \in Dir
    BY DEF Dir
  <2> QED BY <1>2, <2>1 DEF TrainEnds
<1>3. CASE Evaluate
  <2>2. candidate.version \in Versions
    BY <1>3 DEF Evaluate, Named, Whole, Exists
  <2>3. pc' \in Step /\ sound' \in BOOLEAN /\ overlapped' \in BOOLEAN
    BY <1>3 DEF Evaluate, Begins, Step
  <2> QED BY <1>3, <2>2, <2>3 DEF Evaluate, dirs
<1>4. CASE Check
  BY <1>4 DEF Check, Rotation, Step, dirs
<1>5. CASE ClearPrevious
  BY <1>5, RemovalsKeep DEF ClearPrevious, Step
<1>6. CASE Retire
  BY <1>6, AbsentIsDir DEF Retire, Step
<1>7. CASE Copy
  <2>1. [candidate EXCEPT !.files = "part"] \in Dir
    BY DEF Dir
  <2> QED BY <1>7, <2>1 DEF Copy, Step
<1>8. CASE Fill
  <2>1. [promoted EXCEPT !.files = "all"] \in Dir
    BY DEF Dir
  <2> QED BY <1>8, <2>1 DEF Fill, Step
<1>8m. CASE FillMixed
  <2>1. promoted' \in Dir
    BY <1>8m DEF FillMixed
  <2> QED BY <1>8m, <2>1 DEF FillMixed, Step
<1>9. CASE Report
  <2>1. [promoted EXCEPT !.report = "torn"] \in Dir
    BY DEF Dir
  <2> QED BY <1>9, <2>1 DEF Report, Step
<1>10. CASE Sign
  <2>1. [promoted EXCEPT !.report = evaluated] \in Dir
    BY DEF Dir
  <2> QED BY <1>10, <2>1 DEF Sign, Step
<1>11. CASE Rollback
  <2>1. pc' \in Step /\ sound' \in BOOLEAN
    BY <1>11 DEF Rollback, Begins, Step
  <2> QED BY <1>11, <2>1 DEF Rollback, dirs
<1>12. CASE ClearTmp
  BY <1>12, RemovalsKeep DEF ClearTmp, Step
<1>13. CASE Aside \/ Restore \/ Back \/ Only
  BY <1>13, AbsentIsDir DEF Aside, Restore, Back, Only, Step
<1>14. CASE Crash
  BY <1>14 DEF Crash, Step, dirs
<1>15. CASE UNCHANGED vars
  BY <1>15 DEF vars, dirs
<1> QED BY <1>1, <1>2, <1>3, <1>4, <1>5, <1>6, <1>7, <1>8, <1>8m, <1>9, <1>10, <1>11, <1>12,
           <1>13, <1>14, <1>15 DEF Next, Promouvoir, Exchange

-----------------------------------------------------------------------------
(* Rollback *)

\* A rollback verified previous/, and only its own renames move it since.
LEMMA RollbackStep == IInv /\ [Next]_vars => RollbackInstallsEntire'
<1> SUFFICES ASSUME IInv, [Next]_vars PROVE RollbackInstallsEntire'
  OBVIOUS
<1> USE DEF RollbackInstallsEntire, Whole, TypeOK
<1>a. TypeOK /\ RollbackInstallsEntire
  BY DEF IInv
<1>1. ASSUME NEW v \in Versions, TrainBegins(v) PROVE RollbackInstallsEntire'
  BY <1>1, <1>a DEF TrainBegins
<1>2. CASE TrainEnds \/ Evaluate \/ Check \/ UNCHANGED vars
  BY <1>2, <1>a DEF TrainEnds, Evaluate, Check, vars, Rotation, dirs, history
<1>3. CASE ClearPrevious
  BY <1>3, <1>a DEF ClearPrevious, history
<1>4. CASE Retire \/ Copy \/ Fill \/ FillMixed \/ Report \/ Sign
  BY <1>4, <1>a DEF Retire, Copy, Fill, FillMixed, Report, Sign, history
<1>5. CASE Rollback
  BY <1>5, <1>a DEF Rollback, dirs
<1>6. CASE ClearTmp
  BY <1>6, <1>a DEF ClearTmp, history
<1>7. CASE Aside \/ Restore \/ Back \/ Only
  BY <1>7, <1>a DEF Aside, Restore, Back, Only, history
<1>8. CASE Crash
  BY <1>8, <1>a DEF Crash, dirs
<1> QED BY <1>1, <1>2, <1>3, <1>4, <1>5, <1>6, <1>7, <1>8 DEF Next, Promouvoir, Exchange

-----------------------------------------------------------------------------
(* Versions and approvals *)

\* Copies and renames carry the version along.
LEMMA NamedStep == IInv /\ [Next]_vars => Named'
<1> SUFFICES ASSUME IInv, [Next]_vars PROVE Named'
  OBVIOUS
<1> USE DEF Named, Exists, TypeOK, Promoting
<1>a. TypeOK /\ Named
  BY DEF IInv
<1>1. ASSUME NEW v \in Versions, TrainBegins(v) PROVE Named'
  BY <1>1, <1>a, AbsentIsDir DEF TrainBegins, Dir, Absent
<1>2. CASE TrainEnds
  BY <1>2, <1>a, AbsentIsDir DEF TrainEnds, Dir, history
<1>3. CASE Evaluate
  BY <1>3, <1>a DEF Evaluate, dirs, Whole
<1>4. CASE Check
  BY <1>4, <1>a DEF Check, Rotation, dirs, history
<1>5. CASE ClearPrevious
  <2>1. previous' \in Removals(previous)
    BY <1>5 DEF ClearPrevious
  <2>2. Exists(previous') => previous'.version \in Versions
    BY <2>1, <1>a, RemovalsKeep
  <2> QED BY <1>5, <1>a, <2>2 DEF ClearPrevious, history
<1>6. CASE Retire
  BY <1>6, <1>a, AbsentIsDir DEF Retire, history
<1>7. CASE Copy
  BY <1>7, <1>a DEF Copy, Dir, Whole, history
<1>8. CASE Fill
  BY <1>8, <1>a DEF Fill, Dir, Whole, history
<1>8m. CASE FillMixed
  BY <1>8m, <1>a DEF FillMixed, Dir, Whole, history
<1>9. CASE Report
  BY <1>9, <1>a DEF Report, Dir, history
<1>10. CASE Sign
  BY <1>10, <1>a DEF Sign, Dir, history
<1>11. CASE Rollback
  BY <1>11, <1>a DEF Rollback, dirs, Whole
<1>12. CASE ClearTmp
  <2>1. tmp' \in Removals(tmp)
    BY <1>12 DEF ClearTmp
  <2>2. Exists(tmp') => tmp'.version \in Versions
    BY <2>1, <1>a, RemovalsKeep
  <2> QED BY <1>12, <1>a, <2>2 DEF ClearTmp, history
<1>13. CASE Aside \/ Restore \/ Back \/ Only
  BY <1>13, <1>a, AbsentIsDir DEF Aside, Restore, Back, Only, history
<1>14. CASE Crash \/ UNCHANGED vars
  BY <1>14, <1>a DEF Crash, vars, dirs, history
<1> QED BY <1>1, <1>2, <1>3, <1>4, <1>5, <1>6, <1>7, <1>8, <1>8m, <1>9, <1>10, <1>11, <1>12,
    <1>13, <1>14 DEF Next, Promouvoir, Exchange

\* A training is the only step that changes candidate/, and it is recorded.
LEMMA SteadyStep == IInv /\ [Next]_vars => Steady'
<1> SUFFICES ASSUME IInv, [Next]_vars PROVE Steady'
  OBVIOUS
<1> USE DEF Steady, TypeOK, Promoting
<1>a. TypeOK /\ Named /\ Steady
  BY DEF IInv
<1>1. ASSUME NEW v \in Versions, TrainBegins(v) PROVE Steady'
  BY <1>1, <1>a DEF TrainBegins
<1>2. CASE TrainEnds
  BY <1>2, <1>a DEF TrainEnds, Dir, history
<1>3. CASE Evaluate
  BY <1>3, <1>a DEF Evaluate, dirs, Whole
<1>4. CASE Check
  BY <1>4, <1>a DEF Check, Rotation, dirs, history
<1>5. CASE ClearPrevious
  BY <1>5, <1>a DEF ClearPrevious, history
<1>6. CASE Retire
  BY <1>6, <1>a DEF Retire, history
<1>7. CASE Copy
  BY <1>7, <1>a DEF Copy, Dir, history
<1>8. CASE Fill
  BY <1>8, <1>a DEF Fill, Dir, history
<1>8m. CASE FillMixed
  BY <1>8m, <1>a DEF FillMixed, Dir, history
<1>9. CASE Report
  BY <1>9, <1>a DEF Report, Dir, history
<1>10. CASE Sign
  BY <1>10, <1>a DEF Sign, Dir, history
<1>11. CASE Rollback
  BY <1>11, <1>a DEF Rollback, dirs
<1>12. CASE ClearTmp
  BY <1>12, <1>a DEF ClearTmp, history
<1>13. CASE Aside \/ Restore \/ Back \/ Only
  BY <1>13, <1>a DEF Aside, Restore, Back, Only, history
<1>14. CASE Crash \/ UNCHANGED vars
  BY <1>14, <1>a DEF Crash, vars, dirs, history
<1> QED BY <1>1, <1>2, <1>3, <1>4, <1>5, <1>6, <1>7, <1>8, <1>8m, <1>9, <1>10, <1>11, <1>12,
    <1>13, <1>14 DEF Next, Promouvoir, Exchange

\* An entire directory is a promotion that was filled with what was evaluated.
LEMMA ApprovedStep == IInv /\ [Next]_vars => OnlyApproved'
<1> SUFFICES ASSUME IInv, [Next]_vars PROVE OnlyApproved'
  OBVIOUS
<1> USE DEF OnlyApproved, TypeOK, Whole, Exists
<1>a. TypeOK /\ Steady /\ OnlyApproved
  BY DEF IInv
<1>1. ASSUME NEW v \in Versions, TrainBegins(v) PROVE OnlyApproved'
  BY <1>1, <1>a DEF TrainBegins
<1>2. CASE TrainEnds
  BY <1>2, <1>a DEF TrainEnds, history
<1>3. CASE Evaluate
  BY <1>3, <1>a DEF Evaluate, dirs
<1>4. CASE Check
  BY <1>4, <1>a DEF Check, dirs, history
<1>5. CASE ClearPrevious
  <2>1. previous' \in Removals(previous)
    BY <1>5 DEF ClearPrevious
  <2>2. Whole(previous') => Whole(previous) /\ previous'.version = previous.version
    BY <2>1, <1>a, RemovalsKeep
  <2> QED BY <1>5, <1>a, <2>2 DEF ClearPrevious, history
<1>6. CASE Retire
  BY <1>6, <1>a, AbsentIsDir DEF Retire, history
<1>7. CASE Copy
  BY <1>7, <1>a DEF Copy, Dir, history
<1>8. CASE Fill
  BY <1>8, <1>a DEF Fill, Dir, Steady, Promoting
<1>8m. CASE FillMixed
  BY <1>8m, <1>a DEF FillMixed, Dir, Steady, Promoting
<1>9. CASE Report
  BY <1>9, <1>a DEF Report, Dir, history
<1>10. CASE Sign
  BY <1>10, <1>a DEF Sign, Dir, history
<1>11. CASE Rollback
  BY <1>11, <1>a DEF Rollback, dirs
<1>12. CASE ClearTmp
  <2>1. tmp' \in Removals(tmp)
    BY <1>12 DEF ClearTmp
  <2>2. Whole(tmp') => Whole(tmp) /\ tmp'.version = tmp.version
    BY <2>1, <1>a, RemovalsKeep
  <2> QED BY <1>12, <1>a, <2>2 DEF ClearTmp, history
<1>13. CASE Aside \/ Restore \/ Back \/ Only
  BY <1>13, <1>a, AbsentIsDir DEF Aside, Restore, Back, Only, history
<1>14. CASE Crash \/ UNCHANGED vars
  BY <1>14, <1>a DEF Crash, vars, dirs, history
<1> QED BY <1>1, <1>2, <1>3, <1>4, <1>5, <1>6, <1>7, <1>8, <1>8m, <1>9, <1>10, <1>11, <1>12,
    <1>13, <1>14 DEF Next, Promouvoir, Exchange

\* A report is written beside the version it was computed for.
LEMMA ReportsStep == IInv /\ [Next]_vars => ReportsDescribe'
<1> SUFFICES ASSUME IInv, [Next]_vars PROVE ReportsDescribe'
  OBVIOUS
<1> USE DEF ReportsDescribe, TypeOK
<1>a. TypeOK /\ Named /\ Steady /\ ReportsDescribe
  BY DEF IInv
<1>1. ASSUME NEW v \in Versions, TrainBegins(v) PROVE ReportsDescribe'
  BY <1>1, <1>a DEF TrainBegins
<1>2. CASE TrainEnds
  BY <1>2, <1>a DEF TrainEnds, history
<1>3. CASE Evaluate
  BY <1>3, <1>a DEF Evaluate, dirs
<1>4. CASE Check
  BY <1>4, <1>a DEF Check, dirs, history
<1>5. CASE ClearPrevious
  <2>1. previous' \in Removals(previous)
    BY <1>5 DEF ClearPrevious
  <2>2. previous'.report \in Versions => previous'.version = previous.version /\
        previous'.report = previous.report
    BY <2>1, <1>a, RemovalsKeep, PromotionAssumption
  <2> QED BY <1>5, <1>a, <2>2 DEF ClearPrevious, history
<1>6. CASE Retire
  BY <1>6, <1>a, AbsentIsDir, PromotionAssumption DEF Retire, history
<1>7. CASE Copy
  BY <1>7, <1>a, PromotionAssumption DEF Copy, Dir, Named, history
<1>8. CASE Fill
  BY <1>8, <1>a DEF Fill, Dir
<1>8m. CASE FillMixed
  BY <1>8m, <1>a DEF FillMixed, Steady
<1>9. CASE Report
  BY <1>9, <1>a, PromotionAssumption DEF Report, Dir, history
<1>10. CASE Sign
  BY <1>10, <1>a DEF Sign, Dir, Steady, history
<1>11. CASE Rollback
  BY <1>11, <1>a DEF Rollback, dirs
<1>12. CASE ClearTmp
  <2>1. tmp' \in Removals(tmp)
    BY <1>12 DEF ClearTmp
  <2>2. tmp'.report \in Versions => tmp'.version = tmp.version /\
        tmp'.report = tmp.report
    BY <2>1, <1>a, RemovalsKeep, PromotionAssumption
  <2> QED BY <1>12, <1>a, <2>2 DEF ClearTmp, history
<1>13. CASE Aside \/ Restore \/ Back \/ Only
  BY <1>13, <1>a, AbsentIsDir, PromotionAssumption DEF Aside, Restore, Back, Only,
      history
<1>14. CASE Crash \/ UNCHANGED vars
  BY <1>14, <1>a DEF Crash, vars, dirs, history
<1> QED BY <1>1, <1>2, <1>3, <1>4, <1>5, <1>6, <1>7, <1>8, <1>8m, <1>9, <1>10, <1>11, <1>12,
    <1>13, <1>14 DEF Next, Promouvoir, Exchange

\* The heuristic is a reference of every gate.
LEMMA CloseStep == IInv /\ [Next]_vars => ApprovedClose'
<1> SUFFICES ASSUME IInv, [Next]_vars PROVE ApprovedClose'
  OBVIOUS
<1> USE DEF ApprovedClose
<1>a. TypeOK /\ Named /\ ApprovedClose
  BY DEF IInv
<1>1. ASSUME NEW v \in Versions, TrainBegins(v) PROVE ApprovedClose'
  BY <1>1, <1>a DEF TrainBegins
<1>2. CASE Evaluate
  <2>1. Baseline \in References
    BY DEF References
  <2>2. Passes(Measures[candidate.version])
    BY <1>2 DEF Evaluate
  <2>3. Close(Measures[candidate.version])
    BY <2>1, <2>2 DEF Passes, Calibration, UnderSizing, AutoBand, Close
  <2> QED BY <1>2, <1>a, <2>3 DEF Evaluate
<1>3. CASE TrainEnds \/ Check \/ ClearPrevious \/ Retire \/ Copy \/ Fill \/ FillMixed \/ Report
      \/ Sign \/ Rollback \/ ClearTmp \/ Aside \/ Restore \/ Back \/ Only \/ Crash \/
      UNCHANGED vars
  BY <1>3, <1>a DEF TrainEnds, Check, ClearPrevious, Retire, Copy, Fill, FillMixed, Report, Sign,
    Rollback, ClearTmp, Aside, Restore, Back, Only, Crash, vars, history
<1> QED BY <1>1, <1>2, <1>3 DEF Next, Promouvoir, Exchange

-----------------------------------------------------------------------------
(* Interruptions *)

\* previous/ is only given up while promoted/ is entire, and promoted/ once it is
\* kept as previous/.
LEMMA KeptStep == IInv /\ [Next]_vars => Kept'
<1> SUFFICES ASSUME IInv, [Next]_vars PROVE Kept'
  OBVIOUS
<1> USE DEF Kept, TypeOK, Whole
<1>a. TypeOK /\ Kept
  BY DEF IInv
<1>1. ASSUME NEW v \in Versions, TrainBegins(v) PROVE Kept'
  BY <1>1, <1>a DEF TrainBegins
<1>2. CASE TrainEnds
  BY <1>2, <1>a DEF TrainEnds, history
<1>3. CASE Evaluate
  BY <1>3, <1>a DEF Evaluate, dirs, Begins
<1>4. CASE Check
  BY <1>4, <1>a DEF Check, dirs, history, Rotation, Exists, Dir
<1>5. CASE ClearPrevious
  BY <1>5, <1>a DEF ClearPrevious, history
<1>6. CASE Retire
  BY <1>6, <1>a DEF Retire, history
<1>7. CASE Copy \/ Fill \/ FillMixed \/ Report \/ Sign
  BY <1>7, <1>a DEF Copy, Fill, FillMixed, Report, Sign, history
<1>8. CASE Rollback
  BY <1>8, <1>a DEF Rollback, dirs, Begins
<1>9. CASE ClearTmp \/ Aside \/ Restore \/ Back \/ Only
  BY <1>9, <1>a DEF ClearTmp, Aside, Restore, Back, Only, history
<1>10. CASE Crash \/ UNCHANGED vars
  BY <1>10, <1>a DEF Crash, vars, dirs, history
<1> QED BY <1>1, <1>2, <1>3, <1>4, <1>5, <1>6, <1>7, <1>8, <1>9, <1>10 DEF Next,
    Promouvoir, Exchange

\* At every step of such a command one directory is entire.
LEMMA SafeStep == IInv /\ [Next]_vars => SafeToInterrupt'
<1> SUFFICES ASSUME IInv, [Next]_vars PROVE SafeToInterrupt'
  OBVIOUS
<1> USE DEF SafeToInterrupt, TypeOK, Whole
<1>a. TypeOK /\ Kept /\ SafeToInterrupt /\ RollbackInstallsEntire
  BY DEF IInv
<1>1. ASSUME NEW v \in Versions, TrainBegins(v) PROVE SafeToInterrupt'
  BY <1>1, <1>a DEF TrainBegins
<1>2. CASE TrainEnds
  BY <1>2, <1>a DEF TrainEnds, history
<1>3. CASE Evaluate
  BY <1>3, <1>a DEF Evaluate, dirs, Begins
<1>4. CASE Check
  BY <1>4, <1>a DEF Check, dirs, history
<1>5. CASE ClearPrevious
  BY <1>5, <1>a DEF ClearPrevious, Kept, history
<1>6. CASE Retire
  BY <1>6, <1>a DEF Retire, Kept, history
<1>7. CASE Copy
  BY <1>7, <1>a DEF Copy, Kept, history
<1>8. CASE Fill
  BY <1>8, <1>a DEF Fill, Kept, Dir
<1>8m. CASE FillMixed
  BY <1>8m, <1>a DEF FillMixed, Kept, Dir
<1>9. CASE Report \/ Sign
  BY <1>9, <1>a DEF Report, Sign, Dir, Kept, history
<1>10. CASE Rollback
  BY <1>10, <1>a DEF Rollback, dirs, Begins
<1>11. CASE ClearTmp
  BY <1>11, <1>a DEF ClearTmp, RollbackInstallsEntire, history
<1>12. CASE Aside \/ Restore \/ Back \/ Only
  BY <1>12, <1>a DEF Aside, Restore, Back, Only, RollbackInstallsEntire, history
<1>13. CASE Crash \/ UNCHANGED vars
  BY <1>13, <1>a DEF Crash, vars, dirs, history
<1> QED BY <1>1, <1>2, <1>3, <1>4, <1>5, <1>6, <1>7, <1>8, <1>8m, <1>9, <1>10, <1>11, <1>12,
    <1>13 DEF Next, Promouvoir, Exchange

\* The gate compares with the promoted version, whose report lies beside it.
LEMMA RankedStep == IInv /\ [Next]_vars => Ranked'
<1> SUFFICES ASSUME IInv, [Next]_vars PROVE Ranked'
  OBVIOUS
<1> USE DEF Ranked, TypeOK, Exists
<1>a. TypeOK /\ Named /\ Steady /\ Ranked /\ RollbackInstallsEntire
  BY DEF IInv
<1>1. ASSUME NEW v \in Versions, TrainBegins(v) PROVE Ranked'
  BY <1>1, <1>a DEF TrainBegins, NotBelow, Reported
<1>2. CASE TrainEnds
  BY <1>2, <1>a DEF TrainEnds, history, NotBelow, Reported
<1>3. CASE Evaluate
  <2>1. ASSUME Exists(promoted), promoted.report = promoted.version
        PROVE  Measures[candidate.version].exactitude >= Measures[promoted.version].exactitude
    <3>1. promoted.report \in Versions
      BY <1>a, <2>1 DEF Named
    <3>2. Measures[promoted.version] \in References
      BY <2>1, <3>1 DEF References
    <3> QED BY <1>3, <3>2 DEF Evaluate, Passes, Accuracy
  <2> QED BY <1>3, <1>a, <2>1 DEF Evaluate, dirs, Reported, NotBelow
<1>4. CASE Check
  BY <1>4, <1>a DEF Check, dirs, history, Rotation, NotBelow, Reported
<1>5. CASE ClearPrevious
  BY <1>5, <1>a DEF ClearPrevious, NotBelow, Reported, history
<1>6. CASE Retire
  BY <1>6, <1>a DEF Retire, NotBelow, Reported, history
<1>7. CASE Copy
  BY <1>7, <1>a DEF Copy, Dir, NotBelow, Reported, history
<1>8. CASE Fill
  BY <1>8, <1>a DEF Fill, Dir, NotBelow, Reported
<1>8m. CASE FillMixed
  BY <1>8m, <1>a DEF FillMixed, Steady
<1>9. CASE Report
  BY <1>9, <1>a DEF Report, Dir, NotBelow, Reported, history
<1>10. CASE Sign
  <2>1. /\ pc' = "idle" /\ Exists(promoted') /\ previous' = previous
        /\ promoted'.version = promoted.version /\ promoted'.report = evaluated
    BY <1>10, <1>a DEF Sign, Dir, Named
  <2>2. ~overlapped' /\ ~crashed' => Reported(promoted') /\ Reported(previous')
    BY <1>10, <1>a, <2>1 DEF Sign, Reported, history, Steady
  <2> QED BY <2>1, <2>2
<1>11. CASE Rollback
  BY <1>11, <1>a DEF Rollback, dirs, Reported, Whole
<1>12. CASE ClearTmp
  BY <1>12, <1>a DEF ClearTmp, Reported, history
<1>13. CASE Aside
  BY <1>13, <1>a DEF Aside, Reported, history, RollbackInstallsEntire, Whole
<1>14. CASE Restore
  BY <1>14, <1>a DEF Restore, Reported, history
<1>15. CASE Back
  BY <1>15, <1>a DEF Back, Reported, history
<1>16. CASE Only
  BY <1>16, <1>a DEF Only, history
<1>17. CASE Crash
  BY <1>17, <1>a DEF Crash
<1>18. CASE UNCHANGED vars
  BY <1>18, <1>a DEF vars, dirs, history, NotBelow, Reported
<1> QED BY <1>1, <1>2, <1>3, <1>4, <1>5, <1>6, <1>7, <1>8, <1>8m, <1>9, <1>10, <1>11, <1>12,
    <1>13, <1>14, <1>15, <1>16, <1>17, <1>18 DEF Next, Promouvoir, Exchange

-----------------------------------------------------------------------------
(* The theorems *)

\* The initial state satisfies every part.
LEMMA InvInit == Init => IInv
<1> SUFFICES ASSUME Init PROVE IInv
  OBVIOUS
<1>1. TypeOK
  BY TypeInit
<1>2. Named /\ Steady /\ ApprovedClose /\ Kept
  BY AbsentIsDir DEF Init, Named, Steady, ApprovedClose, Kept, Promoting, Exists
<1>3. Ranked
  BY AbsentIsDir DEF Init, Ranked, Reported, NotBelow, Exists
<1>4. OnlyApproved /\ SafeToInterrupt /\ RollbackInstallsEntire
  BY AbsentIsDir DEF Init, OnlyApproved, SafeToInterrupt, RollbackInstallsEntire, Whole
<1>5. ReportsDescribe
  BY AbsentIsDir, PromotionAssumption DEF Init, ReportsDescribe
<1> QED BY <1>1, <1>2, <1>3, <1>4, <1>5 DEF IInv

\* Every step preserves every part.
LEMMA InvStep == IInv /\ [Next]_vars => IInv'
<1> SUFFICES ASSUME IInv, [Next]_vars PROVE IInv'
  OBVIOUS
<1>1. TypeOK'
  BY TypeStep DEF IInv
<1>2. Named' /\ Steady' /\ ApprovedClose' /\ Kept' /\ Ranked'
  BY NamedStep, SteadyStep, CloseStep, KeptStep, RankedStep
<1>3. OnlyApproved' /\ SafeToInterrupt' /\ ReportsDescribe' /\ RollbackInstallsEntire'
  BY ApprovedStep, SafeStep, ReportsStep, RollbackStep
<1> QED BY <1>1, <1>2, <1>3 DEF IInv

\* The inductive invariant holds of every behaviour.
LEMMA Invariant == Spec => []IInv
  BY InvInit, InvStep, PTL DEF Spec

\* The directories, the step of the command and the histories keep their types.
THEOREM PromotionType == Spec => []TypeOK
  BY Invariant, PTL DEF IInv

\* Whatever was interrupted, what may be served, restored or put aside passed the
\* gate, unless a training overlapped a promotion (promouvoir, promote.py:111).
THEOREM ServedIsApproved == Spec => []OnlyApproved
  BY Invariant, PTL DEF IInv

\* An interruption at any step of a command that began soundly leaves an entire
\* version (promote.py:133-164).
THEOREM InterruptionIsSafe == Spec => []SafeToInterrupt
  BY Invariant, PTL DEF IInv

\* Every report is beside the version it measures, through promotions, rollbacks
\* and interruptions (promote.py:138).
THEOREM ReportsFollow == Spec => []ReportsDescribe
  BY Invariant, PTL DEF IInv

\* A rollback only moves an entire version into promoted/ (promote.py:149-164).
THEOREM RollbackIsEntire == Spec => []RollbackInstallsEntire
  BY Invariant, PTL DEF IInv

\* However many promotions follow one another, the tolerances of the gate do not
\* add up (gate.py, criteria 4, 6 and 7): the heuristic is always a reference.
THEOREM TolerancesDoNotAddUp == Spec => []NoDrift
<1>1. IInv => NoDrift
  BY DEF IInv, ApprovedClose, OnlyApproved, NoDrift, Close
<1> QED BY <1>1, Invariant, PTL

\* Without interruption or overlap, a promotion never installs a version less
\* exact than the one it retires (gate.py, criterion 2).
THEOREM PromotionImproves == Spec => []NoRegression
<1>1. IInv => NoRegression
  BY DEF IInv, Steady, Ranked, NotBelow, NoRegression
<1> QED BY <1>1, Invariant, PTL

=============================================================================
