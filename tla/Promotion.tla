------------------------------ MODULE Promotion ------------------------------
(***************************************************************************)
(* Promotion and rollback of the router's trained artefact: directories    *)
(* renamed, removed and copied by commands that may be interrupted at any  *)
(* step, with no journal.                                                  *)
(*                                                                         *)
(*   router/train/promote.py        promouvoir, rollback (stage 1)         *)
(*   router/train/promote_embed.py  the same rotation (head of stage 2)    *)
(*   router/train/train_v05.py      writes the candidate in place          *)
(*   router/eval/gate.py            the criteria a promotion must pass     *)
(*                                                                         *)
(* The operator runs one promotion or rollback at a time; nothing prevents *)
(* a training during it. A directory is the version its files come from,   *)
(* how much of it is there and the evaluation report beside it. Training   *)
(* and evaluation are deterministic but for the latency, so a version has  *)
(* one report, in hundredths; a gate that fails on latency is a promotion  *)
(* that does not start.                                                    *)
(***************************************************************************)
EXTENDS Integers

CONSTANTS
  Versions,  \* versions a training may produce
  Measures,  \* the report of each
  Baseline,  \* the report of the heuristic router
  None       \* no version, no report

\* exactitude_ponderee, ece, sous_dimensionnement.taux, and the two numbers of
\* calibration_bande_auto.
Measure == [exactitude : Nat, ece : Nat, sous : Nat, n : Nat, ecart : Nat]

ASSUME PromotionAssumption ==
  /\ Measures \in [Versions -> Measure] /\ Baseline \in Measure
  /\ None \notin Versions /\ "torn" \notin Versions

VARIABLES
  candidate, promoted, previous, tmp,  \* the directories (tmp: promoted.tmp-rollback)
  training,    \* a training is writing candidate/
  pc,          \* next step of the running command
  evaluated,   \* version the promotion evaluated
  approved,    \* history: versions that passed the gate
  overlapped,  \* history: a training overlapped a promotion
  crashed,     \* history: a command was interrupted
  sound,       \* history: promoted/ was no torn copy when the last command began
  served       \* history: some version was entirely promoted

dirs == <<candidate, promoted, previous, tmp>>
history == <<approved, overlapped, crashed, sound, served>>
vars == <<dirs, training, pc, evaluated, history>>

\* files: "all" when every file is there and metadata.json holds their sha256
\* (_verifier_integrite), "part" when the directory exists without that.
Dir == [version : Versions \cup {None}, files : {"none", "part", "all"},
        report : Versions \cup {None, "torn"}]
Absent == [version |-> None, files |-> "none", report |-> None]
Exists(d) == d.files # "none"
Whole(d) == d.files = "all"

Step == {"idle", "check", "clear", "retire", "copy", "fill", "mixed",
         "report", "sign", "cleartmp", "aside", "restore", "back", "only"}

TypeOK ==
  /\ candidate \in Dir /\ promoted \in Dir /\ previous \in Dir /\ tmp \in Dir
  /\ training \in BOOLEAN
  /\ pc \in Step
  /\ evaluated \in Versions \cup {None}
  /\ approved \subseteq Versions
  /\ overlapped \in BOOLEAN /\ crashed \in BOOLEAN /\ sound \in BOOLEAN /\ served \in BOOLEAN

Init ==
  /\ candidate = Absent /\ promoted = Absent /\ previous = Absent /\ tmp = Absent
  /\ training = FALSE /\ pc = "idle" /\ evaluated = None
  /\ approved = {} /\ overlapped = FALSE /\ crashed = FALSE
  /\ sound = TRUE /\ served = FALSE

-----------------------------------------------------------------------------
(* Training *)

\* The files of candidate/ are overwritten one by one ...
TrainBegins(v) ==
  /\ ~training
  /\ training' = TRUE
  /\ candidate' = [Absent EXCEPT !.version = v, !.files = "part"]
  /\ overlapped' = (overlapped \/ pc # "idle")
  /\ pc' = IF pc = "fill" THEN "mixed" ELSE pc
  /\ UNCHANGED <<promoted, previous, tmp, evaluated, approved, crashed, sound, served>>

\* ... metadata.json last. An interrupted training leaves the mixture.
TrainEnds ==
  /\ training
  /\ training' = FALSE
  /\ candidate' \in {candidate, [candidate EXCEPT !.files = "all"]}
  /\ UNCHANGED <<promoted, previous, tmp, pc, evaluated, history>>

-----------------------------------------------------------------------------
(* promouvoir *)

\* The command starts on what promoted/ and previous/ are now.
Begins == sound' = (promoted.files # "part" /\ (Whole(promoted) \/ Whole(previous)))

\* The reference of the gate: the report beside the promoted version, if any.
References == {Baseline} \cup {Measures[v] : v \in {promoted.report} \cap Versions}

\* Any accuracy above the heuristic's will do.
MutAccuracy(m) == m.exactitude > Baseline.exactitude

Accuracy(m) ==
  /\ m.exactitude > Baseline.exactitude
  /\ \A r \in References : m.exactitude >= r.exactitude

Calibration(m) == m.ece <= 10 /\ \A r \in References : m.ece <= r.ece + 1

\* The promoted version replaces the heuristic as the reference.
MutUnderSizing(m) ==
  LET others == References \ {Baseline}
  IN \A r \in (IF others = {} THEN {Baseline} ELSE others) : m.sous <= r.sous + 2

UnderSizing(m) == \A r \in References : m.sous <= r.sous + 2

\* Only a band with decisions in it is a measure.
AutoBand(m) ==
  m.n > 0 => m.ecart <= 10 /\ \A r \in References : r.n > 0 => m.ecart <= r.ecart + 2

\* evaluate_gate.
Passes(m) == Accuracy(m) /\ Calibration(m) /\ UnderSizing(m) /\ AutoBand(m)

\* A gate that fails is reported, and the promotion goes on.
MutEvaluate ==
  /\ pc = "idle"
  /\ Whole(candidate) /\ promoted.report # "torn"
  /\ evaluated' = candidate.version
  /\ approved' = approved \cup {v \in {candidate.version} : Passes(Measures[v])}
  /\ overlapped' = (overlapped \/ training)
  /\ Begins
  /\ pc' = "check"
  /\ UNCHANGED <<dirs, training, crashed, served>>

\* Fresh evaluations, then the gate. A candidate that does not load, a report
\* that does not parse and a gate that fails change nothing.
Evaluate ==
  /\ pc = "idle"
  /\ Whole(candidate) /\ promoted.report # "torn"
  /\ Passes(Measures[candidate.version])
  /\ evaluated' = candidate.version
  /\ approved' = approved \cup {candidate.version}
  /\ overlapped' = (overlapped \/ training)
  /\ Begins
  /\ pc' = "check"
  /\ UNCHANGED <<dirs, training, crashed, served>>

\* previous/ is removed even if nothing is there to take its place.
MutRotation ==
  IF Exists(previous) THEN "clear" ELSE IF Exists(promoted) THEN "retire" ELSE "copy"

\* previous/ is only removed when there is a promoted/ to take its place.
Rotation ==
  IF ~Exists(promoted) THEN "copy" ELSE IF Exists(previous) THEN "clear" ELSE "retire"

\* _verifier_non_contamine may refuse; _verifier_integrite refuses a candidate
\* that is not entire any more.
Check ==
  /\ pc = "check"
  /\ \/ Whole(candidate) /\ pc' = Rotation
     \/ pc' = "idle"
  /\ UNCHANGED <<dirs, training, evaluated, history>>

\* rmtree removes the files one by one, in any order, then the directory.
Removals(d) ==
  IF Whole(d) THEN {[d EXCEPT !.report = None], [d EXCEPT !.files = "part"]} ELSE {Absent}

ClearPrevious ==
  /\ pc = "clear"
  /\ previous' \in Removals(previous)
  /\ pc' = IF Exists(previous') THEN "clear" ELSE "retire"
  /\ UNCHANGED <<candidate, promoted, tmp, training, evaluated, history>>

Retire ==
  /\ pc = "retire"
  /\ previous' = promoted /\ promoted' = Absent
  /\ pc' = "copy"
  /\ UNCHANGED <<candidate, tmp, training, evaluated, history>>

\* copytree creates the directory, then copies the files one by one.
Copy ==
  /\ pc = "copy"
  /\ promoted' = [candidate EXCEPT !.files = "part"]
  /\ pc' = IF Whole(candidate) THEN "fill" ELSE "mixed"
  /\ UNCHANGED <<candidate, previous, tmp, training, evaluated, history>>

\* The copy of an entire candidate that no training rewrote meanwhile.
Fill ==
  /\ pc = "fill"
  /\ promoted' = [promoted EXCEPT !.files = "all"] /\ served' = TRUE
  /\ pc' = "report"
  /\ UNCHANGED <<candidate, previous, tmp, training, evaluated,
                 approved, overlapped, crashed, sound>>

\* Files taken before and after a training rewrote them: a mixture, unless all
\* of them were copied after it had ended.
FillMixed ==
  /\ pc = "mixed"
  /\ promoted' \in {promoted} \cup {d \in {candidate} : Whole(d)}
  /\ served' = (served \/ Whole(promoted'))
  /\ pc' = "report"
  /\ UNCHANGED <<candidate, previous, tmp, training, evaluated,
                 approved, overlapped, crashed, sound>>

\* write_text truncates eval-report.json, then writes it.
Report ==
  /\ pc = "report"
  /\ promoted' = [promoted EXCEPT !.report = "torn"]
  /\ pc' = "sign"
  /\ UNCHANGED <<candidate, previous, tmp, training, evaluated, history>>

\* The report written is the one of the version promoted before.
MutSign ==
  /\ pc = "sign"
  /\ promoted' = [promoted EXCEPT !.report = IF Exists(previous) THEN previous.version ELSE @]
  /\ pc' = "idle"
  /\ UNCHANGED <<candidate, previous, tmp, training, evaluated, history>>

Sign ==
  /\ pc = "sign"
  /\ promoted' = [promoted EXCEPT !.report = evaluated]
  /\ pc' = "idle"
  /\ UNCHANGED <<candidate, previous, tmp, training, evaluated, history>>

-----------------------------------------------------------------------------
(* rollback *)

\* Refused without a previous/ that is entire.
Rollback ==
  /\ pc = "idle" /\ Whole(previous)
  /\ Begins
  /\ pc' = IF ~Exists(promoted) THEN "only" ELSE IF Exists(tmp) THEN "cleartmp" ELSE "aside"
  /\ UNCHANGED <<dirs, training, evaluated, approved, overlapped, crashed, served>>

ClearTmp ==
  /\ pc = "cleartmp"
  /\ tmp' \in Removals(tmp)
  /\ pc' = IF Exists(tmp') THEN "cleartmp" ELSE "aside"
  /\ UNCHANGED <<candidate, promoted, previous, training, evaluated, history>>

\* The exchange in three renames.
Aside ==
  /\ pc = "aside"
  /\ tmp' = promoted /\ promoted' = Absent
  /\ pc' = "restore"
  /\ UNCHANGED <<candidate, previous, training, evaluated, history>>

Restore ==
  /\ pc = "restore"
  /\ promoted' = previous /\ previous' = Absent
  /\ pc' = "back"
  /\ UNCHANGED <<candidate, tmp, training, evaluated, history>>

Back ==
  /\ pc = "back"
  /\ previous' = tmp /\ tmp' = Absent
  /\ pc' = "idle"
  /\ UNCHANGED <<candidate, promoted, training, evaluated, history>>

\* Without promoted/, previous/ just takes its place.
Only ==
  /\ pc = "only"
  /\ promoted' = previous /\ previous' = Absent
  /\ pc' = "idle"
  /\ UNCHANGED <<candidate, tmp, training, evaluated, history>>

-----------------------------------------------------------------------------
\* The running command is interrupted between two steps.
Crash ==
  /\ pc # "idle"
  /\ pc' = "idle"
  /\ crashed' = TRUE
  /\ UNCHANGED <<dirs, training, evaluated, approved, overlapped, sound, served>>

Promouvoir ==
  Evaluate \/ Check \/ ClearPrevious \/ Retire \/ Copy \/ Fill \/ FillMixed
  \/ Report \/ Sign

Exchange == Rollback \/ ClearTmp \/ Aside \/ Restore \/ Back \/ Only

Next ==
  \/ \E v \in Versions : TrainBegins(v)
  \/ TrainEnds
  \/ Promouvoir
  \/ Exchange
  \/ Crash

Spec == Init /\ [][Next]_vars

-----------------------------------------------------------------------------
(* Properties *)

\* Whatever was interrupted, an entire directory that may be served, restored
\* or put aside holds a version that passed the gate, unless a training
\* overlapped a promotion (promote.py, "La promotion passe UNIQUEMENT par le
\* gate").
OnlyApproved ==
  ~overlapped => \A d \in {promoted, previous, tmp} : Whole(d) => d.version \in approved

\* A command that starts on a promoted/ that is no torn copy, with an entire
\* version in it or in previous/, can be interrupted anywhere, and an entire
\* version is still there to be restored.
SafeToInterrupt == sound /\ served => \E d \in {promoted, previous, tmp} : Whole(d)

\* Without interruption, the version a promotion installs is not worse than the
\* one it retires, over any mix of promotions and rollbacks.
NoRegression ==
  ~overlapped /\ ~crashed /\ pc \in {"report", "sign"} /\ Exists(previous)
    => Measures[promoted.version].exactitude >= Measures[previous.version].exactitude

\* The tolerances of the gate do not add up: after any number of promotions,
\* each allowed to be a little worse than the one before, what is served is
\* within one tolerance of the heuristic (gate.py, criteria 4, 6 and 7).
NoDrift ==
  ~overlapped /\ Whole(promoted) =>
    LET m == Measures[promoted.version]
    IN /\ m.ece <= Baseline.ece + 1
       /\ m.sous <= Baseline.sous + 2
       /\ m.n > 0 /\ Baseline.n > 0 => m.ecart <= Baseline.ecart + 2

\* The report that the next gate takes as its reference is the one of the
\* version it lies beside, through every rename (promote.py, "sert de
\* `--previous` au prochain gate").
ReportsDescribe ==
  ~overlapped =>
    \A d \in {promoted, previous, tmp} : d.report \in Versions => d.report = d.version

\* A rollback never installs a torn version: it checks previous/ before it
\* moves anything, and nothing it does before the rename damages it.
RollbackInstallsEntire ==
  /\ pc \in {"cleartmp", "aside", "restore", "only"} => Whole(previous)
  /\ pc = "back" => Whole(promoted)

\* Once a version was entirely promoted, one always remains to serve or to
\* restore (RUNBOOK.md, "Un seul niveau d'historique est conserve").
HistoryKept == served => \E d \in {promoted, previous, tmp} : Whole(d)

=============================================================================
