--------------------------- MODULE Warehouse_proofs ---------------------------
(***************************************************************************)
(* Theorems about Connector and about Warehouse, which composes it with    *)
(* the commands that read what it ingests: for every number of days, keys, *)
(* users, names, processes, corrections, months and aggregations.          *)
(***************************************************************************)
EXTENDS Warehouse, Sums_proofs, TLAPS

-----------------------------------------------------------------------------
(* The connector: what each run wrote and traced. *)

\* The fields that matter here.
Field(x) ==
  {"at", "start", "day", "report", "rows", "from", "to", "ok", "ingested"} \subseteq DOMAIN x

\* What the run of a process knows of itself.
Local(x) ==
  /\ Field(x)
  /\ x.at \in {"idle", "usage", "cost", "analytics", "ingest", "commit", "trace"}
  /\ x.at # "idle" => x.start \in 1 .. MaxStarts
  /\ x.at \notin {"idle", "trace"} => x.ok = TRUE /\ x.day \in Days
  /\ x.at = "commit" => x.ingested = Cardinality(x.rows)

\* What it wrote, at each step.
Written(x) ==
  /\ x.at # "idle" => x.start <= starts
  /\ x.at \notin {"idle", "trace"} => wrote[x.start] = NotCommitted
  /\ x.at = "trace" /\ wrote[x.start] # NotCommitted => x.ok = TRUE /\ x.ingested = wrote[x.start]

Apart == \A s, t \in Syncs : s # t /\ sync[s].at # "idle" /\ sync[t].at # "idle"
                             => sync[s].start # sync[t].start

Traced == \A r \in runs : /\ r.id \in 1 .. starts
                          /\ \A s \in Syncs : sync[s].at # "idle" => r.id # sync[s].start

Runs ==
  /\ today \in Days /\ starts \in Nat /\ DOMAIN wrote = 1 .. MaxStarts /\ DOMAIN sync = Syncs
  /\ \A r \in 1 .. MaxStarts : r > starts => wrote[r] = NotCommitted
  /\ \A s \in Syncs : Local(sync[s]) /\ Written(sync[s])
  /\ Apart /\ Traced
  /\ TraceIsTrue

LEMMA RunsInit == Init => Runs
BY ConnectorAssumption DEF Init, Runs, Idle, Field, Local, Written, Apart, Traced, TraceIsTrue

\* A step within a run, that commits nothing.
LEMMA Within ==
  ASSUME Runs, NEW s \in Syncs, NEW x, Local(x), sync[s].at # "idle", x.at # "idle",
         x.start = sync[s].start, wrote[x.start] = NotCommitted,
         sync' = [sync EXCEPT ![s] = x], UNCHANGED <<today, starts, wrote, runs>>
  PROVE  Runs'
<1>1. sync'[s] = x /\ \A t \in Syncs \ {s} : sync'[t] = sync[t]
  BY DEF Runs
<1>2. \A t \in Syncs : Local(sync'[t]) /\ Written(sync[t])'
  BY <1>1 DEF Runs, Local, Written
<1>3. Apart' /\ Traced'
  BY <1>1 DEF Runs, Apart, Traced
<1>4. TraceIsTrue'
  BY DEF Runs, TraceIsTrue, Committed
<1> QED
  BY <1>1, <1>2, <1>3, <1>4 DEF Runs, Local, Written

LEMMA RunsBegin == ASSUME Runs, NEW s \in Syncs, Begin(s) PROVE Runs'
<1> DEFINE x == [Idle EXCEPT !.at = "usage", !.start = starts + 1, !.day = today]
<1>1. /\ sync'[s] = x /\ \A t \in Syncs \ {s} : sync'[t] = sync[t]
      /\ starts' = starts + 1 /\ starts < MaxStarts /\ UNCHANGED <<today, wrote, runs>>
      /\ starts \in Nat /\ MaxStarts \in Nat /\ DOMAIN sync' = Syncs /\ today \in Days
  BY ConnectorAssumption DEF Begin, Runs, base, provider
<1>2. Local(x) /\ x.at = "usage" /\ x.start = starts + 1
  BY <1>1 DEF Idle, Field, Local
<1> HIDE DEF x
<1>3. \A t \in Syncs : Local(sync'[t])
  BY <1>1, <1>2 DEF Runs
<1>4. \A t \in Syncs : Written(sync[t])'
  BY <1>1, <1>2 DEF Runs, Local, Written
<1>5. Apart' /\ Traced'
  BY <1>1, <1>2 DEF Runs, Written, Apart, Traced
<1>6. TraceIsTrue'
  BY <1>1 DEF Runs, TraceIsTrue, Committed
<1> QED
  BY <1>1, <1>3, <1>4, <1>5, <1>6 DEF Runs

LEMMA RunsCommit == ASSUME Runs, NEW s \in Syncs, Commit(s) PROVE Runs'
<1> DEFINE x == [sync[s] EXCEPT !.at = "trace", !.rows = {}]
<1>1. /\ sync[s].at = "commit" /\ sync'[s] = x /\ \A t \in Syncs \ {s} : sync'[t] = sync[t]
      /\ wrote' = [wrote EXCEPT ![sync[s].start] = Cardinality(sync[s].rows)]
      /\ UNCHANGED <<today, starts, runs>> /\ DOMAIN sync' = Syncs
  BY DEF Commit, Runs, provider
<1>2. Local(sync[s]) /\ Written(sync[s])
  BY DEF Runs
<1>3. /\ Local(x) /\ x.at = "trace" /\ x.start = sync[s].start /\ x.ok = TRUE
      /\ x.ingested = Cardinality(sync[s].rows)
  BY <1>1, <1>2 DEF Local, Field
<1>4. /\ wrote'[x.start] = Cardinality(sync[s].rows)
      /\ \A r \in 1 .. MaxStarts : r # x.start => wrote'[r] = wrote[r]
      /\ x.start \in 1 .. MaxStarts /\ x.start <= starts /\ DOMAIN wrote' = 1 .. MaxStarts
  BY <1>1, <1>2, <1>3 DEF Runs, Local, Written
<1> HIDE DEF x
<1>5. \A t \in Syncs : Local(sync'[t])
  BY <1>1, <1>3 DEF Runs
<1>6. \A t \in Syncs \ {s} : sync[t].at # "idle" => sync[t].start # x.start
  BY <1>1, <1>3 DEF Runs, Apart
<1>7. \A t \in Syncs : Written(sync[t])'
  BY <1>1, <1>3, <1>4, <1>6 DEF Runs, Local, Written
<1>8. Apart' /\ Traced'
  BY <1>1, <1>3, <1>6 DEF Runs, Apart, Traced
<1>9. TraceIsTrue'
  <2>1. \A r \in runs : r.id \in 1 .. starts /\ r.id # x.start
    BY <1>1, <1>3 DEF Runs, Traced
  <2>2. \A r \in runs : wrote'[r.id] = wrote[r.id]
    BY <2>1, <1>1, <1>3
  <2> QED
    BY <1>1, <2>2 DEF Runs, TraceIsTrue, Committed
<1>10. \A r \in 1 .. MaxStarts : r > starts => wrote'[r] = NotCommitted
  BY <1>4 DEF Runs
<1> QED
  BY <1>1, <1>4, <1>5, <1>7, <1>8, <1>9, <1>10 DEF Runs

LEMMA RunsTrace == ASSUME Runs, NEW s \in Syncs, Trace(s) PROVE Runs'
<1> DEFINE new == [id |-> sync[s].start, ok |-> sync[s].ok, ingested |-> sync[s].ingested,
                   from |-> sync[s].from, to |-> sync[s].to]
<1>1. /\ sync[s].at = "trace" /\ sync'[s] = Idle /\ \A t \in Syncs \ {s} : sync'[t] = sync[t]
      /\ runs' = runs \union {new} /\ UNCHANGED <<today, starts, wrote>> /\ DOMAIN sync' = Syncs
  BY DEF Trace, Runs, provider
<1>2. Local(Idle) /\ Idle.at = "idle"
  BY DEF Idle, Local, Field
<1>3. /\ new.id \in 1 .. starts
      /\ wrote[new.id] # NotCommitted => new.ok = TRUE /\ new.ingested = wrote[new.id]
      /\ \A t \in Syncs \ {s} : sync[t].at # "idle" => new.id # sync[t].start
  BY <1>1 DEF Runs, Local, Written, Apart
<1> HIDE DEF new
<1>4. \A t \in Syncs : Local(sync'[t]) /\ Written(sync[t])'
  BY <1>1, <1>2 DEF Runs, Written
<1>5. Apart' /\ Traced'
  BY <1>1, <1>2, <1>3 DEF Runs, Apart, Traced
<1>6. TraceIsTrue'
  BY <1>1, <1>3 DEF Runs, TraceIsTrue, Committed
<1> QED
  BY <1>1, <1>4, <1>5, <1>6 DEF Runs

LEMMA RunsCrash == ASSUME Runs, NEW s \in Syncs, Crash(s) PROVE Runs'
<1>1. /\ sync'[s] = Idle /\ \A t \in Syncs \ {s} : sync'[t] = sync[t]
      /\ UNCHANGED <<today, starts, wrote, runs>> /\ DOMAIN sync' = Syncs
  BY DEF Crash, Runs, base, provider
<1>2. Local(Idle) /\ Idle.at = "idle"
  BY DEF Idle, Local, Field
<1>3. \A t \in Syncs : Local(sync'[t]) /\ Written(sync[t])'
  BY <1>1, <1>2 DEF Runs, Written
<1>4. Apart' /\ Traced' /\ TraceIsTrue'
  BY <1>1, <1>2 DEF Runs, Apart, Traced, TraceIsTrue, Committed
<1> QED
  BY <1>1, <1>3, <1>4 DEF Runs

LEMMA RunsNext == Runs /\ [Next]_vars => Runs'
<1> SUFFICES ASSUME Runs, [Next]_vars PROVE Runs'
  OBVIOUS
<1>1. CASE UNCHANGED vars \/ Tomorrow \/ \E l \in Lines : Correct(l)
  <2>1. UNCHANGED <<starts, wrote, runs, sync>> /\ today' \in Days
    BY <1>1, ConnectorAssumption DEF Tomorrow, Correct, vars, base, provider, Runs, Days
  <2> QED
    BY <2>1 DEF Runs, Written, Apart, Traced, TraceIsTrue, Committed
<1>2. ASSUME NEW s \in Syncs, Step(s) PROVE Runs'
  <2>1. Local(sync[s]) /\ Written(sync[s])
    BY DEF Runs
  <2>2. CASE ReadUsage(s)
    <3> DEFINE x == [sync[s] EXCEPT !.at = "cost", !.report = Of(ApiKeys)]
    <3>1. sync' = [sync EXCEPT ![s] = x] /\ sync[s].at = "usage" /\ UNCHANGED <<today, starts, wrote, runs>>
      BY <2>2 DEF ReadUsage, base, provider
    <3>2. Local(x) /\ x.at # "idle" /\ x.start = sync[s].start
      BY <2>1, <3>1 DEF Local, Field
    <3> QED
      BY <2>1, <3>1, <3>2, Within DEF Written
  <2>3. CASE ReadCost(s)
    <3> DEFINE x == [sync[s] EXCEPT !.at = "analytics", !.bill = Of(ApiKeys)]
    <3>1. sync' = [sync EXCEPT ![s] = x] /\ sync[s].at = "cost" /\ UNCHANGED <<today, starts, wrote, runs>>
      BY <2>3 DEF ReadCost, base, provider
    <3>2. Local(x) /\ x.at # "idle" /\ x.start = sync[s].start
      BY <2>1, <3>1 DEF Local, Field
    <3> QED
      BY <2>1, <3>1, <3>2, Within DEF Written
  <2>4. CASE ReadAnalytics(s)
    <3>1. PICK rows : sync' = [sync EXCEPT ![s].at = "ingest", ![s].report = <<>>, ![s].bill = <<>>,
                         ![s].rows = rows, ![s].from = WindowEnd(s) - Window, ![s].to = WindowEnd(s)]
      BY <2>4 DEF ReadAnalytics
    <3> DEFINE x == [sync[s] EXCEPT !.at = "ingest", !.report = <<>>, !.bill = <<>>,
                         !.rows = rows, !.from = WindowEnd(s) - Window, !.to = WindowEnd(s)]
    <3>2. sync' = [sync EXCEPT ![s] = x] /\ sync[s].at = "analytics" /\ UNCHANGED <<today, starts, wrote, runs>>
      BY <2>4, <3>1 DEF ReadAnalytics, base, provider
    <3>3. Local(x) /\ x.at # "idle" /\ x.start = sync[s].start
      BY <2>1, <3>2 DEF Local, Field
    <3> QED
      BY <2>1, <3>2, <3>3, Within DEF Written
  <2>5. CASE Ingest(s)
    <3>1. PICK new : sync' = [sync EXCEPT ![s].at = "commit", ![s].rows = new,
                                          ![s].ingested = Cardinality(new)]
      BY <2>5 DEF Ingest, Counted
    <3> DEFINE x == [sync[s] EXCEPT !.at = "commit", !.rows = new, !.ingested = Cardinality(new)]
    <3>2. sync' = [sync EXCEPT ![s] = x] /\ sync[s].at = "ingest" /\ UNCHANGED <<today, starts, wrote, runs>>
      BY <2>5, <3>1 DEF Ingest, base, provider
    <3>3. Local(x) /\ x.at # "idle" /\ x.start = sync[s].start
      BY <2>1, <3>2 DEF Local, Field
    <3> QED
      BY <2>1, <3>2, <3>3, Within DEF Written
  <2>6. CASE Fail(s)
    <3> DEFINE x == [Idle EXCEPT !.at = "trace", !.start = sync[s].start,
                !.ingested = sync[s].ingested, !.from = sync[s].day, !.to = sync[s].day, !.ok = FALSE]
    <3>1. /\ sync' = [sync EXCEPT ![s] = x] /\ sync[s].at \notin {"idle", "trace"}
          /\ UNCHANGED <<today, starts, wrote, runs>>
      BY <2>6 DEF Fail, base, provider
    <3>2. Local(x) /\ x.at # "idle" /\ x.start = sync[s].start
      BY <2>1, <3>1 DEF Local, Field, Idle
    <3> QED
      BY <2>1, <3>1, <3>2, Within DEF Written
  <2>7. CASE Interrupt(s)
    <3> DEFINE x == [sync[s] EXCEPT !.at = "trace", !.rows = {}]
    <3>1. /\ sync' = [sync EXCEPT ![s] = x] /\ sync[s].at \notin {"idle", "trace"}
          /\ UNCHANGED <<today, starts, wrote, runs>>
      BY <2>7 DEF Interrupt, base, provider
    <3>2. Local(x) /\ x.at # "idle" /\ x.start = sync[s].start
      BY <2>1, <3>1 DEF Local, Field
    <3> QED
      BY <2>1, <3>1, <3>2, Within DEF Written
  <2> QED
    BY <1>2, <2>2, <2>3, <2>4, <2>5, <2>6, <2>7, RunsBegin, RunsCommit, RunsTrace, RunsCrash DEF Step
<1> QED
  BY <1>1, <1>2 DEF Next

\* The trace of a run that committed says so and counts exactly what it added
\* (sync.py:160-200), whatever runs, failures and interruptions there were.
THEOREM TracesAreTrue == Spec => []TraceIsTrue
<1>1. Runs => TraceIsTrue
  BY DEF Runs
<1> QED
  BY <1>1, RunsInit, RunsNext, PTL DEF Spec

-----------------------------------------------------------------------------
(* Bounds. *)

Smaller == {ss \in Nat \X Nat : ss[1] < ss[2]}

LEMMA NatWellFounded == IsWellFoundedOn(Smaller, Nat)
BY NatLessThanWellFounded DEF OpToRel, Smaller

LEMMA Greatest ==
  ASSUME NEW n \in Nat, NEW S \in SUBSET (0 .. n), S # {}
  PROVE  \E x \in S : \A y \in S : x >= y
<1> DEFINE T == {n - x : x \in S}
<1>1. T \subseteq Nat
  OBVIOUS
<1>2. T # {}
  OBVIOUS
<1>3. PICK m \in T : \A y \in T : ~ (<<y, m>> \in Smaller)
  BY <1>1, <1>2, NatWellFounded, WFMin
<1>4. PICK x \in S : m = n - x
  OBVIOUS
<1>5. \A y \in S : ~ (n - y < n - x)
  BY <1>1, <1>3, <1>4 DEF Smaller
<1> QED BY <1>5

LEMMA MaxIs ==
  ASSUME NEW n \in Nat, NEW S \in SUBSET (0 .. n), S # {}
  PROVE  Max(S) \in S
BY Greatest DEF Max

-----------------------------------------------------------------------------
(* What the rows say, and what they cover. *)

FixtureSnap == Max({l.day : l \in Reported(Of(ApiKeys))} \union {0}) + 1

\* The snapshot of run n.
SnapOf(n) == IF fixtures THEN FixtureSnap ELSE n

About(q, l) == q.day = l.day /\ q.holder = l.holder /\ q.model = ModelOf[l.name]

\* A row is of a line, and is true of it unless the line was corrected since the run began.
Row(q) ==
  /\ q.run \in 1 .. starts /\ q.snap = SnapOf(q.run)
  /\ \E l \in Lines : /\ About(q, l) /\ q.tokens > 0
                      /\ changedAt[l] < q.run => q.tokens = truth[l]

\* The rows have, with the snapshot of run n, the lines of the window that were not corrected
\* since.
Covers(rows, n, from, to) ==
  \A l \in Lines : l.day \in from .. to /\ changedAt[l] < n /\ truth[l] > 0
                   => \E q \in rows : About(q, l) /\ q.snap = SnapOf(n)

\* The window of every run of the fixtures.
Fixed(from, to) == fixtures => from = FixtureSnap - 1 - Window /\ to = FixtureSnap - 1

New(rows) == \A q \in rows, p \in usage : ~ SameKey(p, q)

Reading(x) ==
  /\ x.report \in [{l \in Lines : l.holder \in ApiKeys} -> Nat]
  /\ \A l \in Lines : l.holder \in ApiKeys /\ changedAt[l] < x.start => x.report[l] = truth[l]

Holding(x) ==
  /\ \A q \in x.rows : Row(q) /\ q.run = x.start /\ q.day \in x.from .. x.to
  /\ Fixed(x.from, x.to)

\* What the run of a process holds, at each step.
Made(x) ==
  /\ x.at \in {"cost", "analytics"} => Reading(x)
  /\ x.at \in {"ingest", "commit"} => Holding(x)
  /\ x.at = "ingest" => Covers(x.rows, x.start, x.from, x.to)
  /\ x.at = "commit" => New(x.rows) /\ Covers(usage \union x.rows, x.start, x.from, x.to)
  /\ x.at = "trace" /\ wrote[x.start] # NotCommitted =>
       Covers(usage, x.start, x.from, x.to) /\ Fixed(x.from, x.to)

\* Two transactions in progress insert no key twice.
Disjoint(x, y) == x.at = "commit" /\ y.at = "commit" => \A p \in x.rows, q \in y.rows : ~ SameKey(p, q)

Lasting(r) == Committed(r) => Covers(usage, r.id, r.from, r.to) /\ Fixed(r.from, r.to)

Versions ==
  /\ fixtures \in BOOLEAN /\ truth \in [Lines -> Nat] /\ changedAt \in [Lines -> 0 .. starts]
  /\ fixtures => \A l \in Lines : changedAt[l] = 0
  /\ \A q \in usage : Row(q)
  /\ \A s \in Syncs : Made(sync[s])
  /\ \A s, t \in Syncs : s # t => Disjoint(sync[s], sync[t])
  /\ \A r \in runs : Lasting(r)

LEMMA FixtureSnapIs == FixtureSnap \in Nat
<1> DEFINE S == {l.day : l \in Reported(Of(ApiKeys))} \union {0}
<1>0. LastDay \in Nat /\ \A l \in Reported(Of(ApiKeys)) : l.day \in 1 .. LastDay
  BY ConnectorAssumption DEF Reported, Of, Lines, Days
<1>1. S \in SUBSET (0 .. LastDay) /\ LastDay \in Nat
  BY <1>0
<1>2. Max(S) \in 0 .. LastDay
  BY <1>1, MaxIs
<1> QED BY <1>2 DEF FixtureSnap

LEMMA VersionsInit == Init => Versions
<1> SUFFICES ASSUME Init PROVE Versions
  OBVIOUS
<1>1. fixtures \in BOOLEAN /\ truth \in [Lines -> Nat] /\ changedAt \in [Lines -> 0 .. starts]
  BY ConnectorAssumption DEF Init
<1>2. \A s \in Syncs : sync[s].at = "idle"
  BY DEF Init, Idle
<1> QED BY <1>1, <1>2 DEF Init, Versions, Made, Disjoint

\* What a step leaves as it is: lines not corrected, and what is said of them.
Untouched ==
  /\ fixtures' = fixtures /\ starts \in Nat /\ starts' \in Nat /\ starts <= starts'
  /\ \A l \in Lines : \/ truth'[l] = truth[l] /\ changedAt'[l] = changedAt[l]
                      \/ changedAt'[l] = starts
  /\ \A n : SnapOf(n)' = SnapOf(n)
  /\ fixtures => FixtureSnap' = FixtureSnap

LEMMA StillTrue ==
  ASSUME Untouched
  PROVE  /\ \A q : Row(q) => Row(q)'
         /\ \A rows, n, from, to : n \in 1 .. starts /\ Covers(rows, n, from, to)
                                   => Covers(rows, n, from, to)'
         /\ \A from, to : Fixed(from, to) => Fixed(from, to)'
         /\ \A x : x.start \in 1 .. starts /\ Reading(x) => Reading(x)'
         /\ \A x : Holding(x) => Holding(x)'
<1>1. ASSUME NEW q, Row(q) PROVE Row(q)'
  <2>1. q.run \in 1 .. starts' /\ q.snap = SnapOf(q.run)'
    BY <1>1 DEF Row, Untouched
  <2>2. PICK l \in Lines : /\ About(q, l) /\ q.tokens > 0
                           /\ changedAt[l] < q.run => q.tokens = truth[l]
    BY <1>1 DEF Row
  <2>3. changedAt'[l] < q.run => q.tokens = truth'[l]
    BY <1>1, <2>2 DEF Row, Untouched
  <2> QED BY <2>1, <2>2, <2>3 DEF Row
<1>2. ASSUME NEW rows, NEW n \in 1 .. starts, NEW from, NEW to, Covers(rows, n, from, to)
      PROVE  Covers(rows, n, from, to)'
  BY <1>2 DEF Covers, Untouched
<1>3. \A from, to : Fixed(from, to) => Fixed(from, to)'
  BY DEF Fixed, Untouched
<1>4. ASSUME NEW x, x.start \in 1 .. starts, Reading(x) PROVE Reading(x)'
  BY <1>4 DEF Reading, Untouched
<1>5. ASSUME NEW x, Holding(x) PROVE Holding(x)'
  BY <1>1, <1>3, <1>5 DEF Holding
<1> QED BY <1>1, <1>2, <1>3, <1>4, <1>5

\* A step that commits nothing.
LEMMA StillMade ==
  ASSUME Untouched, UNCHANGED <<usage, wrote>>, NEW x, Made(x),
         x.at # "idle" => x.start \in 1 .. starts
  PROVE  Made(x)'
<1>1. CASE x.at \in {"cost", "analytics"}
  BY <1>1, StillTrue DEF Made
<1>2. CASE x.at = "ingest"
  BY <1>2, StillTrue DEF Made
<1>3. CASE x.at = "commit"
  <2>1. New(x.rows)' /\ Holding(x)'
    BY <1>3, StillTrue DEF Made, New
  <2>2. Covers(usage \union x.rows, x.start, x.from, x.to)
    BY <1>3 DEF Made
  <2>3. PICK rows : rows = usage \union x.rows
    OBVIOUS
  <2>4. Covers(rows, x.start, x.from, x.to)'
    BY <1>3, <2>2, <2>3, StillTrue
  <2>5. Covers(usage \union x.rows, x.start, x.from, x.to)'
    BY <2>3, <2>4 DEF Covers
  <2> QED BY <1>3, <2>1, <2>5 DEF Made
<1>4. CASE x.at = "trace"
  <2>1. ASSUME wrote[x.start] # NotCommitted
        PROVE  Covers(usage, x.start, x.from, x.to)' /\ Fixed(x.from, x.to)'
    <3>1. Covers(usage, x.start, x.from, x.to) /\ Fixed(x.from, x.to)
      BY <1>4, <2>1 DEF Made
    <3>2. PICK rows : rows = usage
      OBVIOUS
    <3>3. Covers(rows, x.start, x.from, x.to)'
      BY <1>4, <3>1, <3>2, StillTrue
    <3> QED BY <3>1, <3>2, <3>3, StillTrue DEF Covers
  <2> QED BY <1>4, <2>1 DEF Made
<1> QED BY <1>1, <1>2, <1>3, <1>4 DEF Made

LEMMA SameSnap ==
  ASSUME UNCHANGED <<fixtures, truth>>
  PROVE  FixtureSnap' = FixtureSnap /\ \A n : SnapOf(n)' = SnapOf(n)
BY DEF FixtureSnap, SnapOf, Of, Reported

LEMMA MadeIs ==
  ASSUME NEW t \in Syncs, NEW y, y = sync'[t], Made(y)'
  PROVE  Made(sync[t])'
BY DEF Made, Reading, Holding, Covers, Fixed, New

\* A step of one process, which commits nothing.
LEMMA VersionsStep ==
  ASSUME Runs, Versions, NEW s \in Syncs, NEW x, sync' = [sync EXCEPT ![s] = x],
         UNCHANGED <<fixtures, truth, changedAt, usage, wrote>>,
         \A r \in runs' \ runs : Lasting(r)',
         starts' \in Nat, starts <= starts',
         Made(x)', \A t \in Syncs \ {s} : Disjoint(x, sync[t])
  PROVE  Versions'
<1>1. Untouched
  BY SameSnap DEF Untouched, Runs
<1>2. sync'[s] = x /\ \A t \in Syncs \ {s} : sync'[t] = sync[t]
  BY DEF Runs
<1>3. \A t \in Syncs : sync[t].at # "idle" => sync[t].start \in 1 .. starts
  BY DEF Runs, Local, Written
<1>4. ASSUME NEW t \in Syncs PROVE Made(sync[t])'
  <2>1. PICK y : y = sync'[t]
    OBVIOUS
  <2>2. CASE t = s
    BY <1>2, <2>2, MadeIs
  <2>3. CASE t # s
    <3>1. y = sync[t] /\ Made(y) /\ (y.at # "idle" => y.start \in 1 .. starts)
      BY <1>2, <1>3, <2>1, <2>3 DEF Versions
    <3>2. Made(y)'
      BY <1>1, <3>1, StillMade
    <3> QED BY <2>1, <3>2, MadeIs
  <2> QED BY <2>2, <2>3
<1>5. \A t, u \in Syncs : t # u => Disjoint(sync[t], sync[u])'
  BY <1>2 DEF Versions, Disjoint, SameKey
<1>6. \A q \in usage' : Row(q)'
  BY <1>1, StillTrue DEF Versions
<1>7. ASSUME NEW r \in runs' PROVE Lasting(r)'
  <2>0. CASE r \notin runs
    BY <1>7, <2>0
  <2>1. CASE r \in runs
    <3>1. r.id \in 1 .. starts /\ Lasting(r)
      BY <2>1 DEF Runs, Traced, Versions
    <3>2. PICK rows : rows = usage
      OBVIOUS
    <3>3. Committed(r) => Covers(rows, r.id, r.from, r.to)' /\ Fixed(r.from, r.to)'
      BY <1>1, <3>1, <3>2, StillTrue DEF Lasting
    <3>4. Committed(r)' => Committed(r)
      BY DEF Committed
    <3> QED BY <3>2, <3>3, <3>4 DEF Lasting, Covers
  <2> QED BY <2>0, <2>1
<1>8. /\ (fixtures \in BOOLEAN /\ truth \in [Lines -> Nat] /\ changedAt \in [Lines -> 0 .. starts])'
      /\ fixtures' => \A l \in Lines : changedAt'[l] = 0
  BY DEF Versions, Runs
<1> QED BY <1>4, <1>5, <1>6, <1>7, <1>8 DEF Versions

\* The provider corrects a line, or nothing of all this moves.
LEMMA VersionsProvider ==
  ASSUME Runs, Versions, UNCHANGED <<fixtures, starts, sync, usage, wrote, runs>>,
         \/ UNCHANGED <<truth, changedAt>>
         \/ \E l \in Lines : Correct(l)
  PROVE  Versions'
<1>1. /\ Untouched /\ truth' \in [Lines -> Nat] /\ changedAt' \in [Lines -> 0 .. starts]
      /\ fixtures => UNCHANGED changedAt
  <2>1. CASE UNCHANGED <<truth, changedAt>>
    BY <2>1, SameSnap DEF Untouched, Runs, Versions
  <2>2. ASSUME NEW l \in Lines, Correct(l)
        PROVE  /\ Untouched /\ truth' \in [Lines -> Nat] /\ changedAt' \in [Lines -> 0 .. starts]
               /\ ~ fixtures
    <3>1. PICK a \in Amounts : truth' = [truth EXCEPT ![l] = a]
      BY <2>2 DEF Correct
    <3>2. /\ ~ fixtures /\ changedAt' = [changedAt EXCEPT ![l] = starts]
          /\ truth \in [Lines -> Nat] /\ changedAt \in [Lines -> 0 .. starts] /\ a \in Nat
          /\ starts \in Nat
      BY <2>2, ConnectorAssumption DEF Correct, Versions, Runs
    <3>3. truth' \in [Lines -> Nat] /\ changedAt' \in [Lines -> 0 .. starts]
      BY <3>1, <3>2
    <3>4. \A n : SnapOf(n)' = SnapOf(n)
      BY <3>2 DEF SnapOf
    <3>5. \A k \in Lines : \/ truth'[k] = truth[k] /\ changedAt'[k] = changedAt[k]
                          \/ changedAt'[k] = starts
      BY <3>1, <3>2
    <3> QED BY <3>2, <3>3, <3>4, <3>5 DEF Untouched
  <2> QED BY <2>1, <2>2
<1>3. \A t \in Syncs : sync[t].at # "idle" => sync[t].start \in 1 .. starts
  BY DEF Runs, Local, Written
<1>4. ASSUME NEW t \in Syncs PROVE Made(sync[t])'
  <2>1. PICK y : y = sync[t]
    OBVIOUS
  <2>2. Made(y)'
    BY <1>1, <1>3, <2>1, StillMade DEF Versions
  <2> QED BY <2>1, <2>2, MadeIs
<1>5. \A t, u \in Syncs : t # u => Disjoint(sync[t], sync[u])'
  BY DEF Versions, Disjoint
<1>6. \A q \in usage' : Row(q)'
  BY <1>1, StillTrue DEF Versions
<1>7. ASSUME NEW r \in runs' PROVE Lasting(r)'
  <2>1. r.id \in 1 .. starts /\ Lasting(r)
    BY <1>7 DEF Runs, Traced, Versions
  <2>2. PICK rows : rows = usage
    OBVIOUS
  <2>3. Committed(r) => Covers(rows, r.id, r.from, r.to)' /\ Fixed(r.from, r.to)'
    BY <1>1, <2>1, <2>2, StillTrue DEF Lasting
  <2>4. Committed(r)' => Committed(r)
    BY DEF Committed
  <2> QED BY <2>2, <2>3, <2>4 DEF Lasting, Covers
<1> QED BY <1>1, <1>4, <1>5, <1>6, <1>7 DEF Versions

\* The same, when nothing but the process moves.
LEMMA VersionsWithin ==
  ASSUME Runs, Versions, NEW s \in Syncs, NEW x, sync' = [sync EXCEPT ![s] = x],
         UNCHANGED <<fixtures, truth, changedAt, starts, usage, wrote>>,
         \A r \in runs' \ runs : Lasting(r)',
         Made(x), x.at # "idle" => x.start \in 1 .. starts,
         \A t \in Syncs \ {s} : Disjoint(x, sync[t])
  PROVE  Versions'
<1>1. Untouched /\ starts \in Nat
  BY SameSnap DEF Untouched, Runs
<1>2. Made(x)'
  BY <1>1, StillMade
<1>3. starts' \in Nat /\ starts <= starts'
  BY <1>1
<1> QED BY <1>2, <1>3, VersionsStep

\* A run that reads nothing, and has committed nothing.
LEMMA VersionsLeft ==
  ASSUME Runs, Versions, NEW s \in Syncs, NEW x, sync' = [sync EXCEPT ![s] = x],
         UNCHANGED <<fixtures, truth, changedAt, usage, wrote, runs>>,
         starts' \in Nat, starts <= starts',
         x.at \in {"idle", "usage"} \/ (x.at = "trace" /\ wrote[x.start] = NotCommitted)
  PROVE  Versions'
<1>1. Made(x)' /\ \A t \in Syncs \ {s} : Disjoint(x, sync[t])
  BY DEF Made, Disjoint
<1> QED BY <1>1, VersionsStep

\* The three reports.
LEMMA VersionsRead ==
  ASSUME Runs, Versions, NEW s \in Syncs, NEW x, sync' = [sync EXCEPT ![s] = x],
         UNCHANGED <<provider, starts, base>>,
         x.at \in {"cost", "analytics"}, x.start \in 1 .. starts, Reading(x)
  PROVE  Versions'
<1>1. Made(x) /\ \A t \in Syncs \ {s} : Disjoint(x, sync[t])
  BY DEF Made, Disjoint
<1> QED BY <1>1, VersionsWithin DEF provider, base

LEMMA SyncIs ==
  ASSUME Runs, NEW s \in Syncs, sync[s].at # "idle"
  PROVE  /\ Field(sync[s]) /\ sync[s].start \in 1 .. starts /\ starts \in Nat
         /\ sync[s].at # "trace" => wrote[sync[s].start] = NotCommitted /\ sync[s].day \in Nat
<1>1. Local(sync[s]) /\ Written(sync[s]) /\ starts \in Nat
  BY DEF Runs
<1> QED BY <1>1, ConnectorAssumption DEF Local, Written, Days

\* The snapshot of the run, and the end of its window.
LEMMA SnapshotIs ==
  ASSUME Runs, Versions, NEW s \in Syncs, sync[s].at = "analytics"
  PROVE  /\ Snapshot(s) = SnapOf(sync[s].start) /\ WindowEnd(s) \in Int
         /\ Fixed(WindowEnd(s) - Window, WindowEnd(s))
<1>1. /\ sync[s].report \in [{l \in Lines : l.holder \in ApiKeys} -> Nat]
      /\ \A l \in Lines : l.holder \in ApiKeys /\ changedAt[l] < sync[s].start => sync[s].report[l] = truth[l]
  BY DEF Versions, Made, Reading
<1>2. fixtures => sync[s].report = Of(ApiKeys)
  <2> SUFFICES ASSUME fixtures PROVE sync[s].report = Of(ApiKeys)
    OBVIOUS
  <2>1. \A l \in Lines : l.holder \in ApiKeys => sync[s].report[l] = truth[l]
    BY <1>1, SyncIs DEF Versions
  <2>2. Of(ApiKeys) = [l \in {k \in Lines : k.holder \in ApiKeys} |-> truth[l]]
    BY DEF Of
  <2> QED BY <1>1, <2>1, <2>2
<1>3. Snapshot(s) = SnapOf(sync[s].start)
  BY <1>2 DEF Snapshot, SnapOf, FixtureSnap
<1>4. fixtures => WindowEnd(s) = FixtureSnap - 1
  BY <1>3 DEF WindowEnd, SnapOf
<1>5. ~ fixtures => WindowEnd(s) = sync[s].day /\ sync[s].day \in Nat
  BY SyncIs DEF WindowEnd
<1> QED BY <1>3, <1>4, <1>5, FixtureSnapIs DEF Fixed

LEMMA VersionsAnalytics == ASSUME Runs, Versions, NEW s \in Syncs, ReadAnalytics(s) PROVE Versions'
<1>1. PICK said, start, from, to :
        /\ said = sync[s].report /\ start = sync[s].start
        /\ from = WindowEnd(s) - Window /\ to = WindowEnd(s)
  OBVIOUS
<1> DEFINE rows == {AdminRow(s, l) : l \in Reported(said)}
                     \union {AnalyticsRow(s, l) : l \in Reported(Of(Users))}
           mine == {r \in rows : InWindow(s, r)}
           x == [sync[s] EXCEPT !.at = "ingest", !.report = <<>>, !.bill = <<>>,
                                !.rows = mine, !.from = from, !.to = to]
<1>2. /\ sync[s].at = "analytics" /\ UNCHANGED <<provider, starts, base>>
      /\ sync' = [sync EXCEPT ![s] = x]
  BY <1>1 DEF ReadAnalytics
<1>3. /\ Field(sync[s]) /\ start \in 1 .. starts /\ start \in Nat
      /\ to \in Int /\ from \in Int /\ Fixed(from, to) /\ Snapshot(s) = SnapOf(start)
  BY <1>1, <1>2, SyncIs, SnapshotIs, ConnectorAssumption
<1>4. /\ said \in [{l \in Lines : l.holder \in ApiKeys} -> Nat]
      /\ \A l \in Lines : l.holder \in ApiKeys /\ changedAt[l] < start => said[l] = truth[l]
  BY <1>1, <1>2 DEF Versions, Made, Reading
<1>5. ASSUME NEW l \in Reported(said)
      PROVE  LET q == AdminRow(s, l) IN Row(q) /\ q.run = start /\ About(q, l) /\ q.snap = SnapOf(start)
  <2>1. l \in Lines /\ l.holder \in ApiKeys /\ said[l] > 0
    BY <1>4 DEF Reported
  <2>2. PICK q : q = AdminRow(s, l)
    OBVIOUS
  <2>3. q.run = start /\ q.snap = SnapOf(start) /\ About(q, l) /\ q.tokens = said[l]
    BY <1>1, <1>3, <2>2 DEF AdminRow, About
  <2>4. Row(q)
    BY <1>3, <1>4, <2>1, <2>3 DEF Row
  <2> QED BY <2>2, <2>3, <2>4
<1>6. ASSUME NEW l \in Reported(Of(Users))
      PROVE  LET q == AnalyticsRow(s, l) IN Row(q) /\ q.run = start /\ About(q, l) /\ q.snap = SnapOf(start)
  <2>1. l \in Lines /\ truth[l] > 0
    BY DEF Reported, Of
  <2>2. PICK q : q = AnalyticsRow(s, l)
    OBVIOUS
  <2>3. q.run = start /\ q.snap = SnapOf(start) /\ About(q, l) /\ q.tokens = truth[l]
    BY <1>1, <1>3, <2>2 DEF AnalyticsRow, About
  <2>4. Row(q)
    BY <1>3, <2>1, <2>3 DEF Row
  <2> QED BY <2>2, <2>3, <2>4
<1>7. \A q \in rows : Row(q) /\ q.run = start
  BY <1>5, <1>6
<1>8. ASSUME NEW l \in Lines, l.day \in from .. to, changedAt[l] < start, truth[l] > 0, l.holder \in Holders
      PROVE  \E q \in rows : About(q, l) /\ q.snap = SnapOf(start)
  <2>1. CASE l.holder \in ApiKeys
    <3>1. l \in Reported(said)
      BY <1>4, <1>8, <2>1 DEF Reported
    <3> QED BY <1>5, <3>1
  <2>2. CASE l.holder \in Users
    <3>1. l \in Reported(Of(Users))
      BY <1>8, <2>2 DEF Reported, Of
    <3> QED BY <1>6, <3>1
  <2> QED BY <1>8, <2>1, <2>2 DEF Holders
<1>9. \A q \in rows : InWindow(s, q) <=> from <= q.day /\ q.day <= to
  BY <1>1 DEF InWindow
<1>10. \A l \in Lines : l.holder \in Holders /\ l.day \in Nat
  BY ConnectorAssumption DEF Lines, Days
<1>11. \A q \in rows : q.day \in Nat
  BY <1>7, <1>10 DEF Row, About
<1>12. Covers(mine, start, from, to)
  <2> SUFFICES ASSUME NEW l \in Lines, l.day \in from .. to, changedAt[l] < start, truth[l] > 0
               PROVE  \E q \in mine : About(q, l) /\ q.snap = SnapOf(start)
    BY DEF Covers
  <2>1. PICK q \in rows : About(q, l) /\ q.snap = SnapOf(start)
    BY <1>8, <1>10
  <2>2. q \in mine
    BY <1>3, <1>9, <1>11, <2>1 DEF About
  <2> QED BY <2>1, <2>2
<1>13. \A q \in mine : Row(q) /\ q.run = start /\ q.day \in from .. to
  BY <1>3, <1>7, <1>9, <1>11
<1> HIDE DEF rows, mine
<1>14. /\ x.at = "ingest" /\ x.start = start /\ x.rows = mine /\ x.from = from /\ x.to = to
  BY <1>1, <1>3 DEF Field
<1> HIDE DEF x
<1>15. Made(x) /\ \A t \in Syncs \ {s} : Disjoint(x, sync[t])
  BY <1>3, <1>12, <1>13, <1>14 DEF Made, Holding, Disjoint
<1> QED BY <1>2, <1>3, <1>14, <1>15, VersionsWithin DEF provider, base

LEMMA VersionsIngest == ASSUME Runs, Versions, NEW s \in Syncs, Ingest(s) PROVE Versions'
<1>0. PICK new \in Insertable(sync[s].rows) :
        sync' = [sync EXCEPT ![s].at = "commit", ![s].rows = new,
                             ![s].ingested = Counted(new, sync[s].rows)]
  BY DEF Ingest
<1>1. PICK n : sync' = [sync EXCEPT ![s].at = "commit", ![s].rows = new, ![s].ingested = n]
  BY <1>0
<1> DEFINE x == [sync[s] EXCEPT !.at = "commit", !.rows = new, !.ingested = n]
<1>2. PICK rows : rows = sync[s].rows
  OBVIOUS
<1>3. /\ sync[s].at = "ingest" /\ UNCHANGED <<provider, starts, base>>
      /\ sync' = [sync EXCEPT ![s] = x]
      /\ \A r \in rows, q \in Pending(s) : ~ SameKey(q, r)
  BY <1>1, <1>2 DEF Ingest
<1>4. /\ Field(sync[s]) /\ sync[s].start \in 1 .. starts
      /\ Holding(sync[s]) /\ Covers(rows, sync[s].start, sync[s].from, sync[s].to)
  BY <1>2, <1>3, SyncIs DEF Versions, Made
<1>5. /\ new \subseteq rows /\ \A q \in new, p \in usage : ~ SameKey(p, q)
      /\ \A r \in rows : r \in new \/ (\E q \in usage \union new : SameKey(q, r))
  BY <1>1, <1>2 DEF Insertable
<1>6. /\ x.at = "commit" /\ x.start = sync[s].start /\ x.rows = new
      /\ x.from = sync[s].from /\ x.to = sync[s].to
  BY <1>4 DEF Field
<1> HIDE DEF x
<1>7. Covers(usage \union new, x.start, x.from, x.to)
  BY <1>4, <1>5, <1>6 DEF Covers, SameKey, About
<1>8. New(new) /\ Holding(x)
  BY <1>2, <1>4, <1>5, <1>6 DEF New, Holding
<1>9. \A t \in Syncs \ {s} : Disjoint(x, sync[t])
  BY <1>2, <1>3, <1>5, <1>6 DEF Disjoint, Pending, SameKey
<1>10. Made(x)
  BY <1>6, <1>7, <1>8 DEF Made
<1> QED BY <1>3, <1>4, <1>6, <1>9, <1>10, VersionsWithin DEF provider, base

LEMMA VersionsTrace == ASSUME Runs, Versions, NEW s \in Syncs, Trace(s) PROVE Versions'
<1>1. PICK r : r = [id |-> sync[s].start, ok |-> sync[s].ok, ingested |-> sync[s].ingested,
                    from |-> sync[s].from, to |-> sync[s].to]
  OBVIOUS
<1>2. PICK x : x = Idle
  OBVIOUS
<1>3. /\ sync[s].at = "trace" /\ sync' = [sync EXCEPT ![s] = x] /\ runs' = runs \union {r}
      /\ UNCHANGED <<provider, starts, usage, wrote>>
  BY <1>1, <1>2 DEF Trace
<1>4. Lasting(r)
  BY <1>1, <1>3 DEF Versions, Made, Lasting, Committed
<1>5. Lasting(r)'
  <2>1. PICK rows : rows = usage
    OBVIOUS
  <2>2. r.id \in 1 .. starts /\ starts \in Nat
    BY <1>1, <1>3, SyncIs
  <2>3. Untouched
    BY <1>3, <2>2, SameSnap DEF Untouched, provider
  <2>4. Committed(r) => Covers(rows, r.id, r.from, r.to)' /\ Fixed(r.from, r.to)'
    BY <1>4, <2>1, <2>2, <2>3, StillTrue DEF Lasting
  <2> QED BY <1>3, <2>1, <2>4 DEF Lasting, Committed, Covers
<1>6. x.at = "idle" /\ Made(x) /\ \A t \in Syncs \ {s} : Disjoint(x, sync[t])
  BY <1>2 DEF Idle, Made, Disjoint
<1>7. \A q \in runs' \ runs : Lasting(q)'
  BY <1>3, <1>5
<1> QED BY <1>3, <1>6, <1>7, VersionsWithin DEF provider

LEMMA VersionsCommit == ASSUME Runs, Versions, NEW s \in Syncs, Commit(s) PROVE Versions'
<1> DEFINE x == [sync[s] EXCEPT !.at = "trace", !.rows = {}]
<1>1. PICK rows, start : rows = sync[s].rows /\ start = sync[s].start
  OBVIOUS
<1>2. /\ sync[s].at = "commit" /\ sync'[s] = x /\ \A t \in Syncs \ {s} : sync'[t] = sync[t]
      /\ usage' = usage \union rows /\ UNCHANGED <<provider, starts, runs>>
      /\ wrote' = [wrote EXCEPT ![start] = Cardinality(rows)]
  BY <1>1 DEF Commit, Runs
<1>3. /\ Field(sync[s]) /\ start \in 1 .. starts /\ starts \in Nat
      /\ Holding(sync[s]) /\ Covers(usage', start, sync[s].from, sync[s].to)
  BY <1>1, <1>2, SyncIs DEF Versions, Made
<1>4. /\ x.at = "trace" /\ x.start = start /\ x.from = sync[s].from /\ x.to = sync[s].to
  BY <1>1, <1>3 DEF Field
<1> HIDE DEF x
<1>5. Untouched
  BY <1>2, <1>3, SameSnap DEF Untouched, provider
\* What is covered stays so.
<1>6. ASSUME NEW n \in 1 .. starts, NEW from, NEW to, NEW old, NEW new, old \subseteq new, Covers(old, n, from, to)
      PROVE  Covers(new, n, from, to)'
  <2>1. Covers(new, n, from, to)
    BY <1>6 DEF Covers
  <2> QED BY <1>5, <2>1, StillTrue
<1>7. \A r \in 1 .. MaxStarts : r # start => wrote'[r] = wrote[r]
  BY <1>2 DEF Runs
<1>8. Made(sync[s])'
  <2>1. PICK y, new : y = x /\ new = usage'
    OBVIOUS
  <2>2. Covers(new, start, y.from, y.to)'
    BY <1>3, <1>4, <1>6, <2>1
  <2>3. Fixed(y.from, y.to)'
    BY <1>3, <1>4, <1>5, <2>1, StillTrue DEF Holding
  <2>4. Made(y)'
    BY <1>4, <2>1, <2>2, <2>3 DEF Made, Covers
  <2> QED BY <1>2, <2>1, <2>4, MadeIs
<1>9. ASSUME NEW t \in Syncs, t # s PROVE Made(sync[t])'
  <2>1. PICK y, new, more : y = sync[t] /\ new = usage' /\ more = usage' \union y.rows
    OBVIOUS
  <2>2. Made(y) /\ y = sync'[t] /\ (y.at # "idle" => y.start \in 1 .. starts /\ y.start # start)
    BY <1>1, <1>2, <1>9, <2>1, SyncIs DEF Versions, Runs, Apart
  <2>3. y.at \in {"cost", "analytics"} => Reading(y)'
    BY <1>5, <2>2, StillTrue DEF Made
  <2>4. y.at \in {"ingest", "commit"} => Holding(y)'
    BY <1>5, <2>2, StillTrue DEF Made
  <2>5. y.at = "ingest" => Covers(y.rows, y.start, y.from, y.to)'
    BY <1>6, <2>2 DEF Made
  <2>6. ASSUME y.at = "commit" PROVE New(y.rows)' /\ Covers(more, y.start, y.from, y.to)'
    <3>1. New(y.rows)
      BY <2>2, <2>6 DEF Made
    <3>2. Disjoint(y, sync[s])
      BY <1>9, <2>1 DEF Versions
    <3>3. New(y.rows)'
      BY <1>1, <1>2, <2>6, <3>1, <3>2 DEF New, Disjoint, SameKey
    <3>4. Covers(usage \union y.rows, y.start, y.from, y.to)
      BY <2>2, <2>6 DEF Made
    <3>5. usage \union y.rows \subseteq more
      BY <1>2, <2>1
    <3> QED BY <1>6, <2>2, <2>6, <3>3, <3>4, <3>5
  <2>7. ASSUME y.at = "trace", wrote'[y.start] # NotCommitted
        PROVE  Covers(new, y.start, y.from, y.to)' /\ Fixed(y.from, y.to)'
    <3>1. y.start \in 1 .. MaxStarts
      BY <2>1, <2>7 DEF Runs, Local
    <3>2. wrote[y.start] # NotCommitted
      BY <1>7, <2>2, <2>7, <3>1
    <3>3. Covers(usage, y.start, y.from, y.to) /\ Fixed(y.from, y.to)
      BY <2>2, <2>7, <3>2 DEF Made
    <3>4. usage \subseteq new
      BY <1>2, <2>1
    <3> QED BY <1>5, <1>6, <2>2, <2>7, <3>3, <3>4, StillTrue
  <2>8. Made(y)'
    BY <2>1, <2>3, <2>4, <2>5, <2>6, <2>7 DEF Made, Covers
  <2> QED BY <2>2, <2>8, MadeIs
<1>10. \A t, u \in Syncs : t # u => Disjoint(sync[t], sync[u])'
  BY <1>2, <1>4 DEF Versions, Disjoint
<1>11. \A q \in usage' : Row(q)'
  <2>1. \A q \in usage \union rows : Row(q)
    BY <1>1, <1>3 DEF Versions, Holding
  <2> QED BY <1>2, <1>5, <2>1, StillTrue
<1>12. ASSUME NEW r \in runs' PROVE Lasting(r)'
  <2>1. /\ Lasting(r) /\ r.id \in 1 .. starts /\ r.id # start
    BY <1>1, <1>2, <1>12 DEF Versions, Runs, Traced
  <2>2. PICK new : new = usage'
    OBVIOUS
  <2>3. Committed(r)' => Committed(r)
    BY <1>2, <2>1 DEF Committed
  <2>4. Committed(r) => Covers(new, r.id, r.from, r.to)' /\ Fixed(r.from, r.to)'
    BY <1>2, <1>5, <1>6, <2>1, <2>2, StillTrue DEF Lasting
  <2> QED BY <2>2, <2>3, <2>4 DEF Lasting, Covers
<1>13. /\ (fixtures \in BOOLEAN /\ truth \in [Lines -> Nat] /\ changedAt \in [Lines -> 0 .. starts])'
       /\ fixtures' => \A l \in Lines : changedAt'[l] = 0
  BY <1>2 DEF Versions, provider
<1> QED BY <1>8, <1>9, <1>10, <1>11, <1>12, <1>13 DEF Versions

LEMMA VersionsNext == Runs /\ Versions /\ [Next]_vars => Versions'
<1> SUFFICES ASSUME Runs, Versions, [Next]_vars PROVE Versions'
  OBVIOUS
<1>1. CASE UNCHANGED vars \/ Tomorrow \/ \E l \in Lines : Correct(l)
  BY <1>1, VersionsProvider DEF vars, provider, base, Tomorrow, Correct
<1>2. ASSUME NEW s \in Syncs, Step(s) PROVE Versions'
  <2>1. CASE Begin(s)
    <3>1. PICK x : x = [Idle EXCEPT !.at = "usage", !.start = starts + 1, !.day = today]
      OBVIOUS
    <3>2. x.at = "usage"
      BY <3>1 DEF Idle
    <3>3. /\ sync' = [sync EXCEPT ![s] = x] /\ starts' = starts + 1 /\ starts \in Nat
          /\ UNCHANGED <<fixtures, truth, changedAt, usage, wrote, runs>>
      BY <2>1, <3>1 DEF Begin, Runs, provider, base
    <3>4. starts' \in Nat /\ starts <= starts'
      BY <3>3
    <3> HIDE DEF provider, base
    <3> QED BY <3>2, <3>3, <3>4, VersionsLeft
  <2>2. CASE ReadUsage(s)
    <3>1. PICK x : x = [sync[s] EXCEPT !.at = "cost", !.report = Of(ApiKeys)]
      OBVIOUS
    <3>2. /\ sync' = [sync EXCEPT ![s] = x] /\ sync[s].at = "usage" /\ UNCHANGED <<provider, starts, base>>
      BY <2>2, <3>1 DEF ReadUsage
    <3>3. x.at = "cost" /\ x.start \in 1 .. starts /\ x.report = Of(ApiKeys)
      BY <3>1, <3>2, SyncIs DEF Field
    <3>4. Reading(x)
      BY <3>3 DEF Reading, Of, Versions
    <3> QED BY <3>2, <3>3, <3>4, VersionsRead
  <2>3. CASE ReadCost(s)
    <3>1. PICK x : x = [sync[s] EXCEPT !.at = "analytics", !.bill = Of(ApiKeys)]
      OBVIOUS
    <3>2. /\ sync' = [sync EXCEPT ![s] = x] /\ sync[s].at = "cost" /\ UNCHANGED <<provider, starts, base>>
      BY <2>3, <3>1 DEF ReadCost
    <3>3. x.at = "analytics" /\ x.start \in 1 .. starts /\ x.start = sync[s].start /\ x.report = sync[s].report
      BY <3>1, <3>2, SyncIs DEF Field
    <3>4. Reading(x)
      BY <3>2, <3>3 DEF Reading, Versions, Made
    <3> QED BY <3>2, <3>3, <3>4, VersionsRead
  <2>4. CASE Fail(s)
    <3>1. PICK x : x = [Idle EXCEPT !.at = "trace", !.start = sync[s].start,
                !.ingested = sync[s].ingested, !.from = sync[s].day, !.to = sync[s].day, !.ok = FALSE]
      OBVIOUS
    <3>2. /\ sync' = [sync EXCEPT ![s] = x] /\ sync[s].at \notin {"idle", "trace"}
          /\ UNCHANGED <<provider, starts, base>> /\ starts \in Nat
      BY <2>4, <3>1 DEF Fail, Runs
    <3>3. x.at = "trace" /\ wrote[x.start] = NotCommitted
      BY <3>1, <3>2, SyncIs DEF Idle
    <3>4. /\ UNCHANGED <<fixtures, truth, changedAt, usage, wrote, runs>>
          /\ starts' \in Nat /\ starts <= starts'
      BY <3>2 DEF provider, base
    <3> QED BY <3>2, <3>3, <3>4, VersionsLeft
  <2>5. CASE Interrupt(s)
    <3>1. PICK x : x = [sync[s] EXCEPT !.at = "trace", !.rows = {}]
      OBVIOUS
    <3>2. /\ sync' = [sync EXCEPT ![s] = x] /\ sync[s].at \notin {"idle", "trace"}
          /\ UNCHANGED <<provider, starts, base>> /\ starts \in Nat
      BY <2>5, <3>1 DEF Interrupt, Runs
    <3>3. x.at = "trace" /\ wrote[x.start] = NotCommitted
      BY <3>1, <3>2, SyncIs DEF Field
    <3>4. /\ UNCHANGED <<fixtures, truth, changedAt, usage, wrote, runs>>
          /\ starts' \in Nat /\ starts <= starts'
      BY <3>2 DEF provider, base
    <3> QED BY <3>2, <3>3, <3>4, VersionsLeft
  <2>6. CASE Crash(s)
    <3>1. PICK x : x = Idle
      OBVIOUS
    <3>2. /\ sync' = [sync EXCEPT ![s] = x] /\ x.at = "idle"
          /\ UNCHANGED <<provider, starts, base>> /\ starts \in Nat
      BY <2>6, <3>1 DEF Crash, Runs, Idle
    <3>3. /\ UNCHANGED <<fixtures, truth, changedAt, usage, wrote, runs>>
          /\ starts' \in Nat /\ starts <= starts'
      BY <3>2 DEF provider, base
    <3> QED BY <3>2, <3>3, VersionsLeft
  <2> QED BY <1>2, <2>1, <2>2, <2>3, <2>4, <2>5, <2>6, VersionsAnalytics, VersionsIngest,
             VersionsCommit, VersionsTrace DEF Step
<1> QED BY <1>1, <1>2 DEF Next

\* Once a run of the fixtures was committed, no run of them changes usage_daily (sync.py:8-10,
\* "deux executions produisent le MEME etat final"), even two at once.
THEOREM FixturesAreIdempotent == Spec => Idempotent
<1>1. Runs /\ Versions /\ [Next]_vars => [fixtures /\ (\E r \in runs : Committed(r)) => usage' = usage]_vars
  <2> SUFFICES ASSUME Runs, Versions, Next, fixtures, NEW r \in runs, Committed(r) PROVE usage' = usage
    OBVIOUS
  <2>1. CASE Tomorrow \/ \E l \in Lines : Correct(l)
    BY <2>1 DEF Tomorrow, Correct, base
  <2>2. ASSUME NEW s \in Syncs, Step(s), ~ Commit(s) PROVE usage' = usage
    BY <2>2 DEF Step, Begin, ReadUsage, ReadCost, ReadAnalytics, Ingest, Fail, Interrupt, Trace, Crash, base
  <2>3. ASSUME NEW s \in Syncs, Commit(s) PROVE usage' = usage
    <3>1. sync[s].at = "commit" /\ usage' = usage \union sync[s].rows
      BY <2>3 DEF Commit
    <3>2. /\ Holding(sync[s]) /\ New(sync[s].rows)
          /\ Covers(usage, r.id, r.from, r.to) /\ Fixed(r.from, r.to)
          /\ r.id \in 1 .. starts /\ starts \in Nat
      BY <3>1 DEF Versions, Made, Lasting, Runs, Traced
    <3>3. ASSUME NEW q \in sync[s].rows PROVE FALSE
      <4>1. Row(q) /\ q.day \in sync[s].from .. sync[s].to
        BY <3>2 DEF Holding
      <4>2. PICK l \in Lines : About(q, l) /\ truth[l] > 0 /\ changedAt[l] = 0
        BY <3>2, <4>1 DEF Row, Versions
      <4>3. l.day \in r.from .. r.to
        BY <3>2, <4>1, <4>2 DEF Holding, Fixed, About
      <4>4. PICK p \in usage : About(p, l) /\ p.snap = SnapOf(r.id)
        BY <3>2, <4>2, <4>3 DEF Covers
      <4>5. SameKey(p, q)
        BY <4>1, <4>2, <4>4 DEF Row, SnapOf, About, SameKey
      <4> QED BY <3>2, <4>4, <4>5 DEF New
    <3> QED BY <3>1, <3>3
  <2> QED BY <2>1, <2>2, <2>3 DEF Next
<1> QED BY <1>1, RunsInit, RunsNext, VersionsInit, VersionsNext, PTL DEF Spec, Idempotent

\* The row of the latest run, of those of a line.
LEMMA NewestIs ==
  ASSUME Runs, Versions, NEW l \in Lines, NEW p \in usage, About(p, l)
  PROVE  \E q \in Newest(usage) : About(q, l)
<1> DEFINE about == {q \in usage : About(q, l)}
           numbers == {q.run : q \in about}
<1>1. starts \in Nat /\ \A q \in usage : q.run \in 1 .. starts /\ q.snap = SnapOf(q.run)
  BY DEF Runs, Versions, Row
<1>2. numbers \in SUBSET (0 .. starts)
  BY <1>1
<1>3. numbers # {}
  OBVIOUS
<1>4. PICK n \in numbers : \A m \in numbers : n >= m
  BY <1>1, <1>2, <1>3, Greatest
<1>5. PICK q \in about : q.run = n
  OBVIOUS
<1>6. ASSUME NEW b \in usage, b.day = q.day, b.holder = q.holder, b.model = q.model PROVE ~ (b.snap > q.snap)
  <2>1. b \in about
    BY <1>5, <1>6 DEF About
  <2>2. q.run >= b.run
    BY <1>4, <1>5, <2>1
  <2> QED BY <1>1, <1>5, <2>1, <2>2, FixtureSnapIs DEF SnapOf
<1> QED BY <1>5, <1>6 DEF Newest

\* What the provider had settled when a run that committed began is what the latest snapshot
\* says (sync.py:142-182), whatever runs overlapped it.
THEOREM LatestSnapshotIsTruth == Spec => []LatestIsTruth
<1>1. Runs /\ Versions => LatestIsTruth
  <2> SUFFICES ASSUME Runs, Versions, NEW r \in runs, NEW l \in Lines,
                      Settled(l, r), truth[l] > 0, Alone(l)
               PROVE  {q.tokens : q \in {p \in Newest(usage) : /\ p.day = l.day /\ p.holder = l.holder
                                              /\ p.model = ModelOf[l.name]}} = {truth[l]}
    BY DEF LatestIsTruth
  <2>1. /\ r.id \in 1 .. starts /\ starts \in Nat /\ changedAt[l] < r.id /\ l.day \in r.from .. r.to
        /\ Covers(usage, r.id, r.from, r.to)
    BY DEF Settled, Versions, Runs, Traced, Lasting
  <2>2. PICK p \in usage : About(p, l) /\ p.snap = SnapOf(r.id)
    BY <2>1 DEF Covers
  <2>3. PICK best \in Newest(usage) : About(best, l)
    BY <2>2, NewestIs
  <2>4. ASSUME NEW q \in Newest(usage), About(q, l) PROVE q.tokens = truth[l]
    <3>1. Row(q) /\ ~ (p.snap > q.snap)
      BY <2>2, <2>4 DEF Newest, Versions, About
    <3>2. PICK k \in Lines : /\ About(q, k) /\ q.tokens > 0
                             /\ changedAt[k] < q.run => q.tokens = truth[k]
      BY <3>1 DEF Row
    <3>3. k.day = l.day /\ k.holder = l.holder /\ Group(k) = Group(l)
      BY <2>4, <3>2 DEF About, Group
    <3>4. changedAt[k] < r.id /\ changedAt[k] \in Nat
      BY <3>3 DEF Settled, Versions
    <3>5. changedAt[k] < q.run
      <4>1. CASE fixtures
        BY <3>1, <4>1 DEF Row, Versions
      <4>2. CASE ~ fixtures
        BY <2>1, <2>2, <3>1, <3>4, <4>2 DEF Row, SnapOf
      <4> QED BY <4>1, <4>2
    <3>6. truth[k] > 0 /\ q.tokens = truth[k]
      BY <3>2, <3>5
    <3>7. k = l
      BY <3>3, <3>6 DEF Alone, Versions
    <3> QED BY <3>6, <3>7
  <2> QED BY <2>3, <2>4 DEF About
<1> QED BY <1>1, RunsInit, RunsNext, VersionsInit, VersionsNext, PTL DEF Spec

-----------------------------------------------------------------------------
(* The aggregations. *)

Month(m) == {r \in monthly : r.month = m}
IsTotal(r) == r.dim = "total" /\ r.value = "*"
HasTotal(rows, m) == rows # {} => \E t \in rows : t.month = m /\ IsTotal(t)
Active(a) == agg[a].at # "idle"
Targeting(a) == agg[a].at \in {"deleting", "insert", "commit"}

\* What an aggregator knows of its own transaction.
Own(a) ==
  /\ {"at", "by", "month", "rows", "target"} \subseteq DOMAIN agg[a]
  /\ Active(a) => /\ agg[a].by \in 1 .. aggregations
                  /\ \A r \in agg[a].rows : r.by = agg[a].by /\ r.month = agg[a].month
                  /\ HasTotal(agg[a].rows, agg[a].month)

\* It deletes the month as it is, or nothing that is still there.
AllOrNothing(a) ==
  Targeting(a) => /\ \A r \in agg[a].target : r.month = agg[a].month /\ r.by \in 1 .. aggregations
                  /\ agg[a].target \intersect monthly = {} \/ agg[a].target = Month(agg[a].month)

\* Once its rows are inserted, nothing else of the month will be left.
Replaces(a) == agg[a].at = "commit" /\ agg[a].rows # {} => Month(agg[a].month) \subseteq agg[a].target

\* What is published, or deleted, is of none of the transactions in progress.
Foreign(a) == Active(a) => /\ \A r \in monthly : r.by # agg[a].by
                           /\ \A b \in Aggregators : Targeting(b) =>
                                \A r \in agg[b].target : r.by # agg[a].by

\* Two transactions are of different numbers, and insert in different months.
Distinct(a, b) ==
  /\ Active(a) /\ Active(b) => agg[a].by # agg[b].by
  /\ agg[a].at = "commit" /\ agg[b].at = "commit" /\ agg[a].rows # {} /\ agg[b].rows # {}
       => agg[a].month # agg[b].month

Published == \A r \in monthly : /\ r.by \in 1 .. aggregations
                                /\ \E t \in monthly : t.month = r.month /\ IsTotal(t)

Whole ==
  /\ aggregations \in Nat /\ DOMAIN agg = Aggregators
  /\ \A a \in Aggregators : Own(a) /\ AllOrNothing(a) /\ Replaces(a) /\ Foreign(a)
  /\ \A a, b \in Aggregators : a # b => Distinct(a, b)
  /\ Published
  /\ OneAggregation

LEMMA WholeInit == WInit => Whole
BY DEF WInit, Whole, Resting, Own, AllOrNothing, Replaces, Foreign, Distinct, Published,
       OneAggregation, Active, Targeting

\* The rows of an aggregation are its own, and have a total unless there are none.
LEMMA AggRowsTotal ==
  ASSUME NEW m, NEW by, NEW rows
  PROVE  /\ \A r \in AggRows(m, by, rows) : r.by = by /\ r.month = m
         /\ HasTotal(AggRows(m, by, rows), m)
<1> DEFINE latest == LatestOf({r \in rows : MonthOf[r.day] = m})
           of(dim, v) == {r \in latest : DimValue(dim, r) = v}
           row(dim, v) == [month |-> m, dim |-> dim, value |-> v, tokens |-> Tokens(of(dim, v)),
                           cost |-> Cost(of(dim, v)), by |-> by]
           some(dim) == {row(dim, v) : v \in {DimValue(dim, r) : r \in latest}}
<1>1. AggRows(m, by, rows) = UNION {some(dim) : dim \in Dimensions}
  BY DEF AggRows
<1> HIDE DEF latest
<1>2. ASSUME NEW r \in AggRows(m, by, rows) PROVE r.by = by /\ r.month = m /\ latest # {}
  <2>1. PICK dim \in Dimensions : r \in some(dim)
    BY <1>1, <1>2
  <2>2. PICK q \in latest : r = row(dim, DimValue(dim, q))
    BY <2>1
  <2> QED
    BY <2>2
<1>3. ASSUME latest # {} PROVE \E t \in AggRows(m, by, rows) : t.month = m /\ IsTotal(t)
  <2>1. PICK q \in latest : TRUE
    BY <1>3
  <2>2. DimValue("total", q) = "*"
    BY DEF DimValue
  <2>3. row("total", "*") \in some("total")
    BY <2>1, <2>2
  <2>4. row("total", "*") \in AggRows(m, by, rows)
    BY <1>1, <2>3 DEF Dimensions
  <2>5. row("total", "*").month = m /\ IsTotal(row("total", "*"))
    BY DEF IsTotal
  <2> QED
    BY <2>4, <2>5
<1> QED
  BY <1>2, <1>3 DEF HasTotal

\* A step that only marks the transactions, or none of them.
LEMMA WholeKept ==
  ASSUME Whole, UNCHANGED <<monthly, aggregations>>, DOMAIN agg' = Aggregators,
         \A a \in Aggregators :
           /\ DOMAIN agg'[a] = DOMAIN agg[a]
           /\ \A f \in {"at", "by", "month", "rows", "target"} : agg'[a][f] = agg[a][f]
  PROVE  Whole'
<1>1. \A a \in Aggregators : /\ agg'[a].at = agg[a].at /\ agg'[a].by = agg[a].by
                             /\ agg'[a].month = agg[a].month /\ agg'[a].rows = agg[a].rows
                             /\ agg'[a].target = agg[a].target
  OBVIOUS
<1>2. \A a \in Aggregators : (Own(a) /\ AllOrNothing(a) /\ Replaces(a) /\ Foreign(a))'
  BY <1>1 DEF Whole, Own, AllOrNothing, Replaces, Foreign, Active, Targeting, Month, HasTotal
<1>3. \A a, b \in Aggregators : a # b => Distinct(a, b)'
  BY <1>1 DEF Whole, Distinct, Active
<1> QED
  BY <1>2, <1>3 DEF Whole, Published, OneAggregation, IsTotal

LEMMA WholeIngestion == ASSUME Whole, Ingestion PROVE Whole'
<1>1. CASE agg' = agg
  BY <1>1, WholeKept DEF Ingestion, Whole
<1>2. CASE agg' = [a \in Aggregators |-> [agg[a] EXCEPT !.fresh = agg[a].at = "idle"]]
  <2>1. UNCHANGED <<monthly, aggregations>> /\ DOMAIN agg' = Aggregators
    BY <1>2 DEF Ingestion
  <2>2. ASSUME NEW a \in Aggregators
        PROVE  /\ DOMAIN agg'[a] = DOMAIN agg[a]
               /\ \A f \in {"at", "by", "month", "rows", "target"} : agg'[a][f] = agg[a][f]
    <3>1. agg'[a] = [agg[a] EXCEPT !.fresh = agg[a].at = "idle"]
      BY <1>2
    <3>2. {"at", "by", "month", "rows", "target"} \subseteq DOMAIN agg[a]
      BY DEF Whole, Own
    <3> QED
      BY <3>1, <3>2
  <2> QED
    BY <2>1, <2>2, WholeKept
<1> QED
  BY <1>1, <1>2 DEF Ingestion

LEMMA WholeRead == ASSUME Whole, NEW a \in Aggregators, Read(a) PROVE Whole'
<1>1. PICK m : agg' = [agg EXCEPT ![a] = [Resting EXCEPT !.at = "delete", !.by = aggregations + 1,
                         !.month = m, !.rows = AggRows(m, aggregations + 1, usage)]]
  BY DEF Read
<1> DEFINE rows == AggRows(m, aggregations + 1, usage)
           x == [Resting EXCEPT !.at = "delete", !.by = aggregations + 1, !.month = m, !.rows = rows]
<1>2. /\ agg'[a] = x /\ \A b \in Aggregators \ {a} : agg'[b] = agg[b]
      /\ DOMAIN agg' = Aggregators /\ aggregations \in Nat
      /\ aggregations' = aggregations + 1 /\ monthly' = monthly
  BY <1>1 DEF Whole, Read
<1>3. /\ \A r \in rows : r.by = aggregations + 1 /\ r.month = m
      /\ HasTotal(rows, m)
  BY AggRowsTotal
<1> HIDE DEF rows
<1>4. /\ {"at", "by", "month", "rows", "target"} \subseteq DOMAIN x
      /\ x.at = "delete" /\ x.by = aggregations + 1 /\ x.month = m /\ x.rows = rows
  BY DEF Resting
<1> HIDE DEF x
<1>5. \A b \in Aggregators : Own(b)'
  BY <1>2, <1>3, <1>4 DEF Whole, Own, Active, HasTotal
<1>6. \A b \in Aggregators : AllOrNothing(b)' /\ Replaces(b)'
  BY <1>2, <1>4 DEF Whole, AllOrNothing, Replaces, Targeting, Month
<1>7. \A b \in Aggregators : Foreign(b)'
  <2>1. /\ \A r \in monthly : r.by # aggregations + 1
        /\ \A b \in Aggregators : Targeting(b) => \A r \in agg[b].target : r.by # aggregations + 1
    BY <1>2 DEF Whole, Published, AllOrNothing
  <2> QED
    BY <2>1, <1>2, <1>4 DEF Whole, Foreign, Active, Targeting
<1>8. \A b, c \in Aggregators : b # c => Distinct(b, c)'
  <2>1. \A b \in Aggregators : Active(b) => agg[b].by # aggregations + 1
    BY <1>2 DEF Whole, Own
  <2> QED
    BY <2>1, <1>2, <1>4 DEF Whole, Distinct, Active
<1>9. Published' /\ OneAggregation'
  BY <1>2 DEF Whole, Published, OneAggregation
<1> QED
  BY <1>2, <1>5, <1>6, <1>7, <1>8, <1>9 DEF Whole

LEMMA WholeDelete == ASSUME Whole, NEW a \in Aggregators, Delete(a) PROVE Whole'
<1> DEFINE x == [agg[a] EXCEPT !.at = "deleting", !.target = Month(agg[a].month)]
<1>1. /\ agg[a].at = "delete" /\ agg'[a] = x /\ \A b \in Aggregators \ {a} : agg'[b] = agg[b]
      /\ DOMAIN agg' = Aggregators /\ UNCHANGED <<monthly, aggregations>>
  BY DEF Whole, Delete, Month
<1>2. /\ {"at", "by", "month", "rows", "target"} \subseteq DOMAIN x
      /\ x.at = "deleting" /\ x.by = agg[a].by /\ x.month = agg[a].month /\ x.rows = agg[a].rows
      /\ x.target = Month(agg[a].month)
  BY DEF Whole, Own
<1> HIDE DEF x
<1>3. \A b \in Aggregators : Own(b)' /\ Replaces(b)'
  BY <1>1, <1>2 DEF Whole, Own, Replaces, Active, Month, HasTotal
<1>4. \A b \in Aggregators : AllOrNothing(b)'
  BY <1>1, <1>2 DEF Whole, AllOrNothing, Published, Targeting, Month
<1>5. \A b \in Aggregators : Foreign(b)'
  BY <1>1, <1>2 DEF Whole, Foreign, Active, Targeting, Month
<1>6. \A b, c \in Aggregators : b # c => Distinct(b, c)'
  BY <1>1, <1>2 DEF Whole, Distinct, Active
<1>7. Published' /\ OneAggregation'
  BY <1>1 DEF Whole, Published, OneAggregation
<1> QED
  BY <1>1, <1>3, <1>4, <1>5, <1>6, <1>7 DEF Whole

LEMMA WholeDeleted == ASSUME Whole, NEW a \in Aggregators, Deleted(a) PROVE Whole'
<1> DEFINE x == [agg[a] EXCEPT !.at = "insert", !.target = agg[a].target \intersect monthly]
<1>1. /\ agg[a].at = "deleting" /\ agg'[a] = x /\ \A b \in Aggregators \ {a} : agg'[b] = agg[b]
      /\ DOMAIN agg' = Aggregators /\ UNCHANGED <<monthly, aggregations>>
  BY DEF Whole, Deleted, Own
<1>2. /\ {"at", "by", "month", "rows", "target"} \subseteq DOMAIN x
      /\ x.at = "insert" /\ x.by = agg[a].by /\ x.month = agg[a].month /\ x.rows = agg[a].rows
      /\ x.target = agg[a].target \intersect monthly
  BY DEF Whole, Own
<1> HIDE DEF x
<1>3. \A b \in Aggregators : Own(b)' /\ Replaces(b)'
  BY <1>1, <1>2 DEF Whole, Own, Replaces, Active, Month, HasTotal
<1>4. \A b \in Aggregators : AllOrNothing(b)'
  BY <1>1, <1>2 DEF Whole, AllOrNothing, Targeting, Month
<1>5. \A b \in Aggregators : Foreign(b)'
  BY <1>1, <1>2 DEF Whole, Foreign, Active, Targeting
<1>6. \A b, c \in Aggregators : b # c => Distinct(b, c)'
  BY <1>1, <1>2 DEF Whole, Distinct, Active
<1>7. Published' /\ OneAggregation'
  BY <1>1 DEF Whole, Published, OneAggregation
<1> QED
  BY <1>1, <1>3, <1>4, <1>5, <1>6, <1>7 DEF Whole

\* The primary key: whatever of the month its DELETE did not see has a total, which the
\* total it inserts runs into.
LEMMA WholeInsert == ASSUME Whole, NEW a \in Aggregators, Insert(a) PROVE Whole'
<1> DEFINE x == [agg[a] EXCEPT !.at = "commit"]
<1>1. /\ agg[a].at = "insert" /\ agg'[a] = x /\ \A b \in Aggregators \ {a} : agg'[b] = agg[b]
      /\ DOMAIN agg' = Aggregators /\ UNCHANGED <<monthly, aggregations>>
  BY DEF Whole, Insert
<1>2. /\ {"at", "by", "month", "rows", "target"} \subseteq DOMAIN x
      /\ x.at = "commit" /\ x.by = agg[a].by /\ x.month = agg[a].month /\ x.rows = agg[a].rows
      /\ x.target = agg[a].target
  BY DEF Whole, Own
<1> HIDE DEF x
<1>3. \A b \in Aggregators : Own(b)' /\ AllOrNothing(b)'
  BY <1>1, <1>2 DEF Whole, Own, AllOrNothing, Active, Targeting, Month, HasTotal
<1>4. ASSUME agg[a].rows # {}
      PROVE  /\ Month(agg[a].month) \subseteq agg[a].target
             /\ \A b \in Aggregators \ {a} : agg[b].at = "commit" /\ agg[b].rows # {}
                                             => agg[b].month # agg[a].month
  <2>1. PICK t \in agg[a].rows : t.month = agg[a].month /\ IsTotal(t)
    BY <1>1, <1>4 DEF Whole, Own, Active, HasTotal
  <2>2. ASSUME NEW r \in Month(agg[a].month), r \notin agg[a].target PROVE FALSE
    <3>1. PICK q \in monthly : q.month = agg[a].month /\ IsTotal(q)
      BY <2>2 DEF Whole, Published, Month
    <3>2. Clash(t, q)
      BY <2>1, <3>1 DEF Clash, IsTotal
    <3>3. q \in agg[a].target
      BY <3>1, <3>2 DEF Insert
    <3>4. agg[a].target = Month(agg[a].month)
      BY <1>1, <3>1, <3>3 DEF Whole, AllOrNothing, Targeting
    <3> QED
      BY <2>2, <3>4
  <2>3. ASSUME NEW b \in Aggregators \ {a}, agg[b].at = "commit", agg[b].rows # {},
               agg[b].month = agg[a].month
        PROVE  FALSE
    <3>1. PICK q \in agg[b].rows : q.month = agg[a].month /\ IsTotal(q)
      BY <2>3 DEF Whole, Own, Active, HasTotal
    <3>2. Clash(t, q) /\ q \in Inserting(a)
      BY <2>1, <2>3, <3>1 DEF Clash, IsTotal, Inserting
    <3> QED
      BY <3>2 DEF Insert
  <2> QED
    BY <2>2, <2>3
<1>5. \A b \in Aggregators : Replaces(b)'
  BY <1>1, <1>2, <1>4 DEF Whole, Replaces, Month
<1>6. \A b \in Aggregators : Foreign(b)'
  BY <1>1, <1>2 DEF Whole, Foreign, Active, Targeting
<1>7. \A b, c \in Aggregators : b # c => Distinct(b, c)'
  BY <1>1, <1>2, <1>4 DEF Whole, Distinct, Active
<1>8. Published' /\ OneAggregation'
  BY <1>1 DEF Whole, Published, OneAggregation
<1> QED
  BY <1>1, <1>3, <1>5, <1>6, <1>7, <1>8 DEF Whole

LEMMA WholeAbort == ASSUME Whole, NEW a \in Aggregators, Abort(a) PROVE Whole'
<1>1. /\ agg'[a] = Resting /\ \A b \in Aggregators \ {a} : agg'[b] = agg[b]
      /\ DOMAIN agg' = Aggregators /\ UNCHANGED <<monthly, aggregations>>
  BY DEF Whole, Abort
<1>2. {"at", "by", "month", "rows", "target"} \subseteq DOMAIN Resting /\ Resting.at = "idle"
  BY DEF Resting
<1>3. \A b \in Aggregators : Own(b)' /\ AllOrNothing(b)' /\ Replaces(b)'
  BY <1>1, <1>2 DEF Whole, Own, AllOrNothing, Replaces, Active, Targeting, Month, HasTotal
<1>4. \A b \in Aggregators : Foreign(b)'
  BY <1>1, <1>2 DEF Whole, Foreign, Active, Targeting
<1>5. \A b, c \in Aggregators : b # c => Distinct(b, c)'
  BY <1>1, <1>2 DEF Whole, Distinct, Active
<1>6. Published' /\ OneAggregation'
  BY <1>1 DEF Whole, Published, OneAggregation
<1> QED
  BY <1>1, <1>3, <1>4, <1>5, <1>6 DEF Whole

LEMMA WholeCommit == ASSUME Whole, NEW a \in Aggregators, CommitMonth(a) PROVE Whole'
<1>0. PICK m, rows, target : m = agg[a].month /\ rows = agg[a].rows /\ target = agg[a].target
  OBVIOUS
<1>1. /\ agg[a].at = "commit" /\ agg'[a] = Resting
      /\ \A b \in Aggregators \ {a} : agg'[b] = agg[b]
      /\ DOMAIN agg' = Aggregators /\ aggregations' = aggregations
      /\ monthly' = (monthly \ target) \union rows
  BY <1>0 DEF Whole, CommitMonth
<1>2. {"at", "by", "month", "rows", "target"} \subseteq DOMAIN Resting /\ Resting.at = "idle"
  BY DEF Resting
<1>3. /\ agg[a].by \in 1 .. aggregations
      /\ \A r \in rows : r.by = agg[a].by /\ r.month = m
      /\ HasTotal(rows, m)
      /\ \A r \in target : r.month = m
      /\ target \intersect monthly = {} \/ target = Month(m)
      /\ rows # {} => Month(m) \subseteq target
  BY <1>0, <1>1 DEF Whole, Own, AllOrNothing, Replaces, Active, Targeting
\* The month is as it was, or empty, or the rows inserted; the others are as they were.
<1>4. /\ Month(m)' = Month(m) \/ Month(m)' = {} \/ Month(m)' = rows
      /\ rows # {} => Month(m)' = rows
      /\ \A n : n # m => Month(n)' = Month(n)
  <2>1. rows # {} => Month(m)' = rows
    BY <1>1, <1>3 DEF Month
  <2>2. rows = {} => Month(m)' = Month(m) \/ Month(m)' = {}
    BY <1>1, <1>3 DEF Month
  <2>3. ASSUME NEW n, n # m PROVE Month(n)' = Month(n)
    BY <1>1, <1>3, <2>3 DEF Month
  <2> QED
    BY <2>1, <2>2, <2>3
<1>5. \A b \in Aggregators : Own(b)'
  BY <1>1, <1>2 DEF Whole, Own, Active, HasTotal
<1>6. ASSUME NEW b \in Aggregators, Targeting(b), b # a
      PROVE  agg[b].target \intersect monthly' = {} \/ agg[b].target = Month(agg[b].month)'
  <2>1. /\ agg'[b] = agg[b] /\ \A r \in agg[b].target : r.month = agg[b].month
        /\ agg[b].target \intersect monthly = {} \/ agg[b].target = Month(agg[b].month)
    BY <1>1, <1>6 DEF Whole, AllOrNothing
  <2>2. CASE agg[b].month # m
    <3>1. Month(agg[b].month)' = Month(agg[b].month)
      BY <1>4, <2>1, <2>2 DEF Month
    <3> QED
      BY <2>1, <3>1 DEF Month
  <2>3. CASE agg[b].month = m /\ rows = {}
    BY <1>1, <1>3, <2>1, <2>3 DEF Month
  <2>4. CASE agg[b].month = m /\ rows # {}
    <3>1. \A r \in agg[b].target : r \notin rows
      BY <1>1, <1>3, <1>6 DEF Whole, Foreign, Active
    <3> QED
      BY <1>4, <2>1, <2>4, <3>1 DEF Month
  <2> QED
    BY <2>2, <2>3, <2>4
<1>7. \A b \in Aggregators : AllOrNothing(b)'
  BY <1>1, <1>2, <1>6 DEF Whole, AllOrNothing, Targeting, Month
<1>8. ASSUME NEW b \in Aggregators, agg'[b].at = "commit", agg'[b].rows # {}
      PROVE  Month(agg[b].month)' \subseteq agg'[b].target
  <2>1. b # a /\ agg'[b] = agg[b] /\ Month(agg[b].month) \subseteq agg[b].target
    BY <1>1, <1>2, <1>8 DEF Whole, Replaces
  <2>2. agg[b].month = m => rows = {}
    BY <1>0, <1>1, <1>8, <2>1 DEF Whole, Distinct
  <2>3. monthly' \subseteq monthly \union rows
    BY <1>1
  <2> QED
    BY <1>3, <2>1, <2>2, <2>3 DEF Month
<1>9. \A b \in Aggregators : Replaces(b)'
  BY <1>1, <1>2, <1>8 DEF Replaces, Month
<1>10. \A b \in Aggregators : Foreign(b)'
  <2>1. \A b \in Aggregators \ {a} : Active(b) => \A r \in rows : r.by # agg[b].by
    BY <1>0, <1>1, <1>3 DEF Whole, Distinct, Active
  <2> QED
    BY <2>1, <1>1, <1>2 DEF Whole, Foreign, Active, Targeting
<1>11. \A b, c \in Aggregators : b # c => Distinct(b, c)'
  BY <1>1, <1>2 DEF Whole, Distinct, Active
<1>12. Published'
  <2> SUFFICES ASSUME NEW r \in monthly'
               PROVE  /\ r.by \in 1 .. aggregations
                      /\ \E t \in monthly' : t.month = r.month /\ IsTotal(t)
    BY <1>1 DEF Published, IsTotal
  <2>1. CASE r.month # m
    <3>1. r \in monthly
      BY <1>1, <1>3, <2>1
    <3>2. PICK t \in monthly : t.month = r.month /\ IsTotal(t)
      BY <3>1 DEF Whole, Published
    <3>3. t \in monthly'
      BY <1>1, <1>3, <2>1, <3>2
    <3> QED
      BY <3>1, <3>2, <3>3 DEF Whole, Published
  <2>2. CASE r.month = m /\ Month(m)' = rows
    <3>1. r \in rows
      BY <2>2 DEF Month
    <3>2. PICK t \in rows : t.month = m /\ IsTotal(t)
      BY <1>3, <3>1 DEF HasTotal
    <3> QED
      BY <1>1, <1>3, <2>2, <3>1, <3>2
  <2>3. CASE r.month = m /\ Month(m)' = Month(m)
    <3>1. r \in monthly
      BY <2>3 DEF Month
    <3>2. PICK t \in monthly : t.month = m /\ IsTotal(t)
      BY <2>3, <3>1 DEF Whole, Published
    <3>3. t \in monthly'
      BY <2>3, <3>2 DEF Month
    <3> QED
      BY <2>3, <3>1, <3>2, <3>3 DEF Whole, Published
  <2>4. CASE r.month = m /\ Month(m)' = {}
    BY <2>4 DEF Month
  <2> QED
    BY <1>4, <2>1, <2>2, <2>3, <2>4
<1>13. OneAggregation'
  <2> SUFFICES ASSUME NEW p \in monthly', NEW q \in monthly', p.month = q.month
               PROVE  p.by = q.by
    BY DEF OneAggregation
  <2>1. CASE p.month # m
    BY <1>1, <1>3, <2>1 DEF Whole, OneAggregation
  <2>2. CASE p.month = m
    BY <1>3, <1>4, <2>2 DEF Whole, OneAggregation, Month
  <2> QED
    BY <2>1, <2>2
<1> QED
  BY <1>1, <1>5, <1>7, <1>9, <1>10, <1>11, <1>12, <1>13 DEF Whole

LEMMA WholeNext == Whole /\ [WNext]_wvars => Whole'
<1> SUFFICES ASSUME Whole, [WNext]_wvars PROVE Whole'
  OBVIOUS
<1>1. CASE UNCHANGED wvars \/ ByModel \/ ByWorkspace \/ MonthlyTotal \/ CloseReport
  <2>1. UNCHANGED <<monthly, agg, aggregations>>
    BY <1>1 DEF wvars, accounts, ByModel, ByWorkspace, MonthlyTotal, CloseReport
  <2> QED
    BY <2>1, WholeKept DEF Whole
<1>2. CASE Ingestion
  BY <1>2, WholeIngestion
<1>3. ASSUME NEW a \in Aggregators,
             Read(a) \/ Delete(a) \/ Deleted(a) \/ Insert(a) \/ CommitMonth(a) \/ Abort(a)
      PROVE  Whole'
  BY <1>3, WholeRead, WholeDelete, WholeDeleted, WholeInsert, WholeCommit, WholeAbort
<1> QED
  BY <1>1, <1>2, <1>3 DEF WNext

\* The rows of a month are always those of one aggregation (aggregate.py:143-160), however
\* many recompute it at once, wait for each other or are rolled back.
THEOREM MonthOfOneAggregation == WSpec => []OneAggregation
<1>1. Whole => OneAggregation
  BY DEF Whole
<1> QED
  BY <1>1, WholeInit, WholeNext, PTL DEF WSpec

-----------------------------------------------------------------------------
(* What a month shows. *)

UsedIn(m) == \E q \in usage : MonthOf[q.day] = m

\* A transaction that no ingestion overtook holds what usage_daily gives now, and one that
\* inserts rows has read some.
UpToDate(x) ==
  /\ {"at", "by", "month", "rows", "target", "fresh"} \subseteq DOMAIN x
  /\ x.at # "idle" => /\ x.month \in Months
                      /\ x.fresh => x.rows = AggRows(x.month, x.by, usage)
                      /\ x.rows # {} => UsedIn(x.month)

Latest ==
  /\ DOMAIN agg = Aggregators /\ DOMAIN fresh = Months
  /\ \A a \in Aggregators : UpToDate(agg[a])
  /\ \A r \in monthly : UsedIn(r.month)
  /\ \A m \in Months : fresh[m] => \E by : Month(m) = AggRows(m, by, usage)

LEMMA LatestInit == WInit => Latest
BY DEF WInit, Init, Latest, UpToDate, Resting

\* The connector deletes and changes no row.
LEMMA UsageGrows == Next => usage \subseteq usage'
<1> SUFFICES ASSUME Next PROVE usage \subseteq usage'
  OBVIOUS
<1>1. CASE Tomorrow \/ \E l \in Lines : Correct(l)
  BY <1>1 DEF Tomorrow, Correct, base
<1>2. ASSUME NEW s \in Syncs, Step(s) PROVE usage \subseteq usage'
  BY <1>2 DEF Step, Begin, ReadUsage, ReadCost, ReadAnalytics, Ingest, Commit, Fail, Interrupt,
              Trace, Crash, base
<1> QED BY <1>1, <1>2 DEF Next

\* Latest of a month, newest of all: the versions of a key are all of the same day.
LEMMA LatestIsNewest ==
  ASSUME Runs, Versions, NEW m
  PROVE  LatestOf({r \in usage : MonthOf[r.day] = m}) = {r \in Newest(usage) : MonthOf[r.day] = m}
<1>1. \A q \in usage : q.snap \in Nat
  BY FixtureSnapIs DEF Runs, Versions, Row, SnapOf
<1> QED BY <1>1 DEF LatestOf, Newest

\* A month that has rows has a newest one.
LEMMA LatestThere ==
  ASSUME Runs, Versions, NEW m, UsedIn(m)
  PROVE  LatestOf({r \in usage : MonthOf[r.day] = m}) # {}
<1>1. PICK p \in usage : MonthOf[p.day] = m
  BY DEF UsedIn
<1>2. PICK l \in Lines : About(p, l)
  BY DEF Versions, Row
<1>3. PICK q \in Newest(usage) : About(q, l)
  BY <1>2, NewestIs
<1>4. MonthOf[q.day] = m
  BY <1>1, <1>2, <1>3 DEF About
<1> QED BY <1>3, <1>4, LatestIsNewest

Shown(rows, m, dim) == {<<r.value, r.tokens>> : r \in {q \in rows : q.month = m /\ q.dim = dim}}

Summed(rows, dim) ==
  {<<v, Tokens({r \in rows : DimValue(dim, r) = v})>> : v \in {DimValue(dim, r) : r \in rows}}

\* What an aggregation shows of a dimension, and when it has no row at all.
LEMMA AggRowsShow ==
  ASSUME NEW m, NEW by, NEW rows, NEW latest,
         latest = LatestOf({r \in rows : MonthOf[r.day] = m})
  PROVE  /\ AggRows(m, by, rows) = {} <=> latest = {}
         /\ \A dim \in Dimensions : Shown(AggRows(m, by, rows), m, dim) = Summed(latest, dim)
<1> DEFINE of(dim, v) == {r \in latest : DimValue(dim, r) = v}
           row(dim, v) == [month |-> m, dim |-> dim, value |-> v, tokens |-> Tokens(of(dim, v)),
                           cost |-> Cost(of(dim, v)), by |-> by]
           some(dim) == {row(dim, v) : v \in {DimValue(dim, r) : r \in latest}}
<1>1. AggRows(m, by, rows) = UNION {some(dim) : dim \in Dimensions}
  BY DEF AggRows
<1>2. AggRows(m, by, rows) = {} <=> latest = {}
  <2>1. latest = {} => \A dim : some(dim) = {}
    OBVIOUS
  <2>2. ASSUME NEW q \in latest PROVE row("total", DimValue("total", q)) \in AggRows(m, by, rows)
    <3>1. row("total", DimValue("total", q)) \in some("total")
      OBVIOUS
    <3> QED BY <1>1, <3>1 DEF Dimensions
  <2>3. latest = {} => AggRows(m, by, rows) = {}
    <3> HIDE DEF some
    <3> QED BY <1>1, <2>1
  <2>4. latest # {} => AggRows(m, by, rows) # {}
    BY <2>2
  <2> QED BY <2>3, <2>4
<1>3. ASSUME NEW dim \in Dimensions
      PROVE  Shown(AggRows(m, by, rows), m, dim) = Summed(latest, dim)
  <2>1. \A d \in Dimensions : \A v :
          /\ row(d, v).month = m /\ row(d, v).dim = d /\ row(d, v).value = v
          /\ row(d, v).tokens = Tokens(of(d, v))
    OBVIOUS
  <2> HIDE DEF row
  <2>2. \A q : q \in AggRows(m, by, rows) <=>
               \E d \in Dimensions : \E r \in latest : q = row(d, DimValue(d, r))
    BY <1>1
  <2>3. \A q : q \in AggRows(m, by, rows) /\ q.month = m /\ q.dim = dim <=>
               \E r \in latest : q = row(dim, DimValue(dim, r))
    <3>1. ASSUME NEW q, q \in AggRows(m, by, rows), q.dim = dim
          PROVE  \E r \in latest : q = row(dim, DimValue(dim, r))
      <4>1. PICK d \in Dimensions : \E r \in latest : q = row(d, DimValue(d, r))
        BY <2>2, <3>1
      <4>2. PICK r \in latest : q = row(d, DimValue(d, r))
        BY <4>1
      <4>3. d = dim
        BY <2>1, <3>1, <4>2
      <4> QED BY <4>2, <4>3
    <3>2. ASSUME NEW r \in latest, NEW q, q = row(dim, DimValue(dim, r))
          PROVE  q \in AggRows(m, by, rows) /\ q.month = m /\ q.dim = dim
      <4>1. q \in AggRows(m, by, rows)
        BY <1>3, <2>2, <3>2
      <4>2. PICK v : v = DimValue(dim, r)
        OBVIOUS
      <4>3. row(dim, v).month = m /\ row(dim, v).dim = dim
        BY DEF row
      <4> QED BY <3>2, <4>1, <4>2, <4>3
    <3> QED BY <3>1, <3>2
  <2>4. Summed(latest, dim) = {<<v, Tokens(of(dim, v))>> : v \in {DimValue(dim, r) : r \in latest}}
    BY DEF Summed
  <2> HIDE DEF of
  <2> QED BY <2>1, <2>3, <2>4 DEF Shown
<1> QED BY <1>2, <1>3

\* A step of one transaction, that publishes nothing.
LEMMA LatestStep ==
  ASSUME Latest, NEW a \in Aggregators, NEW x, agg' = [agg EXCEPT ![a] = x],
         UNCHANGED <<usage, monthly, fresh>>, UpToDate(x)
  PROVE  Latest'
<1>1. agg'[a] = x /\ (\A b \in Aggregators \ {a} : agg'[b] = agg[b]) /\ DOMAIN agg' = Aggregators
  BY DEF Latest
<1>2. \A b \in Aggregators : UpToDate(agg[b])'
  <2> SUFFICES ASSUME NEW b \in Aggregators PROVE UpToDate(agg[b])'
    OBVIOUS
  <2>1. PICK y : y = agg'[b]
    OBVIOUS
  <2>2. UpToDate(y)
    BY <1>1, <2>1 DEF Latest
  <2> QED BY <2>1, <2>2 DEF UpToDate, UsedIn
<1> QED BY <1>1, <1>2 DEF Latest, UsedIn, Month

LEMMA LatestRead == ASSUME Runs, Versions, Latest, NEW a \in Aggregators, Read(a) PROVE Latest'
<1>1. PICK m \in Months :
        agg' = [agg EXCEPT ![a] = [Resting EXCEPT !.at = "delete", !.by = aggregations + 1,
                         !.month = m, !.rows = AggRows(m, aggregations + 1, usage)]]
  BY DEF Read
<1>2. PICK x : x = [Resting EXCEPT !.at = "delete", !.by = aggregations + 1,
                         !.month = m, !.rows = AggRows(m, aggregations + 1, usage)]
  OBVIOUS
<1>3. /\ {"at", "by", "month", "rows", "target", "fresh"} \subseteq DOMAIN x
      /\ x.at = "delete" /\ x.month = m /\ x.rows = AggRows(m, x.by, usage)
  BY <1>2 DEF Resting
<1>4. x.rows # {} => UsedIn(m)
  <2>1. PICK latest : latest = LatestOf({r \in usage : MonthOf[r.day] = m})
    OBVIOUS
  <2>2. \A k : AggRows(m, k, usage) = {} <=> latest = {}
    BY <2>1, AggRowsShow
  <2>3. x.rows # {} => latest # {}
    BY <1>3, <2>2
  <2> QED BY <2>1, <2>3 DEF LatestOf, UsedIn
<1>5. UNCHANGED <<usage, monthly, fresh>>
  BY DEF Read, vars, base
<1> QED BY <1>1, <1>2, <1>3, <1>4, <1>5, LatestStep DEF UpToDate

LEMMA LatestCommit ==
  ASSUME Runs, Versions, Whole, Latest, NEW a \in Aggregators, CommitMonth(a)
  PROVE  Latest'
<1>0. PICK m, rows, target, by : /\ m = agg[a].month /\ rows = agg[a].rows
                                 /\ target = agg[a].target /\ by = agg[a].by
  OBVIOUS
<1>1. /\ agg[a].at = "commit" /\ agg'[a] = Resting
      /\ \A b \in Aggregators \ {a} : agg'[b] = agg[b]
      /\ DOMAIN agg' = Aggregators /\ usage' = usage
      /\ monthly' = (monthly \ target) \union rows
      /\ fresh' = [fresh EXCEPT ![m] = agg[a].fresh]
  BY <1>0 DEF Latest, CommitMonth, vars, base
<1>2. /\ \A r \in rows : r.month = m
      /\ \A r \in target : r.month = m
      /\ rows # {} => Month(m) \subseteq target
      /\ m \in Months /\ rows # {} => UsedIn(m)
      /\ m \in Months
      /\ agg[a].fresh => rows = AggRows(m, by, usage)
  BY <1>0, <1>1 DEF Whole, Own, AllOrNothing, Replaces, Active, Targeting, Latest, UpToDate
<1>3. /\ rows # {} => Month(m)' = rows
      /\ \A n : n # m => Month(n)' = Month(n)
  BY <1>1, <1>2 DEF Month
<1>4. \A r \in monthly' : UsedIn(r.month)
  BY <1>1, <1>2 DEF Latest
<1>5. ASSUME agg[a].fresh PROVE Month(m)' = AggRows(m, by, usage)
  <2>1. CASE rows # {}
    BY <1>2, <1>3, <1>5, <2>1
  <2>2. CASE rows = {}
    <3>1. PICK latest : latest = LatestOf({r \in usage : MonthOf[r.day] = m})
      OBVIOUS
    <3>2. latest = {}
      BY <1>2, <1>5, <2>2, <3>1, AggRowsShow
    <3>3. ~ UsedIn(m)
      BY <3>1, <3>2, LatestThere
    <3> QED BY <1>1, <1>2, <1>4, <1>5, <2>2, <3>3 DEF Month
  <2> QED BY <2>1, <2>2
<1>6. ASSUME NEW n \in Months, fresh'[n] PROVE \E k : Month(n)' = AggRows(n, k, usage')
  <2>1. CASE n = m
    BY <1>1, <1>2, <1>5, <1>6, <2>1 DEF Latest
  <2>2. CASE n # m
    BY <1>1, <1>3, <1>6, <2>2 DEF Latest
  <2> QED BY <2>1, <2>2
<1>7. \A b \in Aggregators : UpToDate(agg[b])'
  <2> SUFFICES ASSUME NEW b \in Aggregators PROVE UpToDate(agg[b])'
    OBVIOUS
  <2>1. PICK y : y = agg'[b]
    OBVIOUS
  <2>2. UpToDate(y)
    BY <1>1, <2>1 DEF Latest, UpToDate, Resting
  <2> QED BY <1>1, <2>1, <2>2 DEF UpToDate, UsedIn
<1>8. DOMAIN fresh' = Months
  BY <1>1 DEF Latest
<1> QED BY <1>1, <1>4, <1>6, <1>7, <1>8 DEF Latest, UsedIn

LEMMA LatestIngestion == ASSUME Latest, Ingestion PROVE Latest'
<1>1. CASE usage' = usage
  <2>1. UNCHANGED <<usage, monthly, fresh, agg>>
    BY <1>1 DEF Ingestion
  <2>2. \A a \in Aggregators : UpToDate(agg[a])'
    <3> SUFFICES ASSUME NEW a \in Aggregators PROVE UpToDate(agg[a])'
      OBVIOUS
    <3>1. PICK y : y = agg[a] /\ y = agg'[a]
      BY <2>1
    <3> QED BY <2>1, <3>1 DEF Latest, UpToDate, UsedIn
  <2> QED BY <2>1, <2>2 DEF Latest, UsedIn, Month
<1>2. CASE usage' # usage
  <2>1. /\ fresh' = [month \in Months |-> FALSE] /\ monthly' = monthly
        /\ agg' = [a \in Aggregators |-> [agg[a] EXCEPT !.fresh = agg[a].at = "idle"]]
        /\ usage \subseteq usage'
    BY <1>2, UsageGrows DEF Ingestion
  <2>2. ASSUME NEW a \in Aggregators PROVE UpToDate(agg[a])'
    <3>1. PICK x, y : x = agg[a] /\ y = agg'[a]
      OBVIOUS
    <3>2. y = [x EXCEPT !.fresh = x.at = "idle"] /\ UpToDate(x)
      BY <2>1, <3>1 DEF Latest
    <3>3. /\ {"at", "by", "month", "rows", "target", "fresh"} \subseteq DOMAIN y
          /\ y.at = x.at /\ y.month = x.month /\ y.rows = x.rows /\ y.fresh = (x.at = "idle")
      BY <3>2 DEF UpToDate
    <3> QED BY <2>1, <3>1, <3>2, <3>3 DEF UpToDate, UsedIn
  <2> QED BY <2>1, <2>2 DEF Latest, UsedIn
<1> QED BY <1>1, <1>2

LEMMA LatestNext == Runs /\ Versions /\ Whole /\ Latest /\ [WNext]_wvars => Latest'
<1> SUFFICES ASSUME Runs, Versions, Whole, Latest, [WNext]_wvars PROVE Latest'
  OBVIOUS
<1>1. CASE UNCHANGED wvars \/ ByModel \/ ByWorkspace \/ MonthlyTotal \/ CloseReport
  <2>1. UNCHANGED <<usage, monthly, fresh, agg>>
    BY <1>1 DEF wvars, vars, base, accounts, ByModel, ByWorkspace, MonthlyTotal, CloseReport
  <2>2. \A a \in Aggregators : UpToDate(agg[a])'
    <3> SUFFICES ASSUME NEW a \in Aggregators PROVE UpToDate(agg[a])'
      OBVIOUS
    <3>1. PICK y : y = agg[a] /\ y = agg'[a]
      BY <2>1
    <3> QED BY <2>1, <3>1 DEF Latest, UpToDate, UsedIn
  <2> QED BY <2>1, <2>2 DEF Latest, UsedIn, Month
<1>2. CASE Ingestion
  BY <1>2, LatestIngestion
<1>3. ASSUME NEW a \in Aggregators, Delete(a) PROVE Latest'
  <2>1. PICK x : x = [agg[a] EXCEPT !.at = "deleting", !.target = Month(agg[a].month)]
    OBVIOUS
  <2>2. /\ agg[a].at = "delete" /\ agg' = [agg EXCEPT ![a] = x] /\ UpToDate(agg[a])
        /\ UNCHANGED <<usage, monthly, fresh>>
    BY <1>3, <2>1 DEF Delete, Month, vars, base, Latest
  <2> QED BY <2>1, <2>2, LatestStep DEF UpToDate
<1>4. ASSUME NEW a \in Aggregators, Deleted(a) PROVE Latest'
  <2>1. PICK x : x = [agg[a] EXCEPT !.at = "insert", !.target = @ \intersect monthly]
    OBVIOUS
  <2>2. /\ agg[a].at = "deleting" /\ agg' = [agg EXCEPT ![a] = x] /\ UpToDate(agg[a])
        /\ UNCHANGED <<usage, monthly, fresh>>
    BY <1>4, <2>1 DEF Deleted, vars, base, Latest
  <2> QED BY <2>1, <2>2, LatestStep DEF UpToDate
<1>5. ASSUME NEW a \in Aggregators, Insert(a) PROVE Latest'
  <2>1. PICK x : x = [agg[a] EXCEPT !.at = "commit"]
    OBVIOUS
  <2>2. /\ agg[a].at = "insert" /\ agg' = [agg EXCEPT ![a] = x] /\ UpToDate(agg[a])
        /\ UNCHANGED <<usage, monthly, fresh>>
    BY <1>5, <2>1 DEF Insert, vars, base, Latest
  <2> QED BY <2>1, <2>2, LatestStep DEF UpToDate
<1>6. ASSUME NEW a \in Aggregators, Abort(a) PROVE Latest'
  <2>1. PICK x : x = Resting
    OBVIOUS
  <2>2. agg' = [agg EXCEPT ![a] = x] /\ UNCHANGED <<usage, monthly, fresh>>
    BY <1>6, <2>1 DEF Abort, vars, base
  <2> QED BY <2>1, <2>2, LatestStep DEF UpToDate, Resting
<1> QED BY <1>1, <1>2, <1>3, <1>4, <1>5, <1>6, LatestRead, LatestCommit DEF WNext

\* A month that no ingestion overtook is that of the newest row of each key
\* (aggregate.py:60-160), however many recomputed it at once, waited for each other or were
\* rolled back while the connector went on.
THEOREM MonthOfLatestRows == WSpec => []MonthIsLatest
<1>1. Runs /\ Versions /\ Latest => MonthIsLatest
  <2> SUFFICES ASSUME Runs, Versions, Latest, NEW m \in Months, fresh[m], NEW dim \in Dimensions
               PROVE  Shown(monthly, m, dim) = Summed({r \in Newest(usage) : MonthOf[r.day] = m}, dim)
    BY DEF MonthIsLatest, Shown, Summed
  <2>1. PICK by : Month(m) = AggRows(m, by, usage)
    BY DEF Latest
  <2>2. Shown(monthly, m, dim) = Shown(AggRows(m, by, usage), m, dim)
    BY <2>1 DEF Month, Shown
  <2>3. PICK newest : newest = {r \in Newest(usage) : MonthOf[r.day] = m}
    OBVIOUS
  <2>4. newest = LatestOf({r \in usage : MonthOf[r.day] = m})
    BY <2>3, LatestIsNewest
  <2> QED BY <2>2, <2>3, <2>4, AggRowsShow
<1>2. Runs /\ Versions /\ [WNext]_wvars => [Next]_vars
  BY DEF WNext, Ingestion, wvars, Read, Delete, Deleted, Insert, CommitMonth, Abort,
         ByModel, ByWorkspace, MonthlyTotal, CloseReport
<1>3. WInit => Init
  BY DEF WInit
<1> QED
  BY <1>1, <1>2, <1>3, RunsInit, RunsNext, VersionsInit, VersionsNext, WholeInit, WholeNext,
     LatestInit, LatestNext, PTL DEF WSpec

-----------------------------------------------------------------------------
(* The sums of an aggregation. *)

\* What is summed, under another name.
LEMMA TokensIs ==
  ASSUME NEW rows, NEW f, IsFiniteSet(rows), \A r \in rows : r.tokens \in Nat /\ f[r] = r.tokens
  PROVE  Tokens(rows) = SumFunctionOnSet(f, rows)
<1> DEFINE g == [r \in rows |-> r.tokens]
<1>1. Tokens(rows) = SumFunctionOnSet(g, rows)
  BY DEF Tokens, SumFunction
<1>2. \A r \in rows : g[r] \in Nat /\ g[r] = f[r]
  OBVIOUS
<1> HIDE DEF g
<1> QED BY <1>1, <1>2, SumSame

OfDim(rows, dim) == {r \in rows : r.dim = dim}

\* The rows of a dimension share the tokens of the rows aggregated.
LEMMA AggRowsShare ==
  ASSUME NEW m, NEW by, NEW rows, IsFiniteSet(rows), \A r \in rows : r.tokens \in Nat,
         NEW dim \in Dimensions
  PROVE  Tokens(OfDim(AggRows(m, by, rows), dim))
           = Tokens(LatestOf({r \in rows : MonthOf[r.day] = m}))
<1> DEFINE latest == LatestOf({r \in rows : MonthOf[r.day] = m})
           of(d, v) == {r \in latest : DimValue(d, r) = v}
           row(d, v) == [month |-> m, dim |-> d, value |-> v, tokens |-> Tokens(of(d, v)),
                         cost |-> Cost(of(d, v)), by |-> by]
           key == [r \in latest |-> row(dim, DimValue(dim, r))]
           R == {key[r] : r \in latest}
           f == [r \in latest |-> r.tokens]
           g == [r \in R |-> r.tokens]
<1>1. AggRows(m, by, rows) = UNION {{row(d, v) : v \in {DimValue(d, r) : r \in latest}} : d \in Dimensions}
  BY DEF AggRows
<1>2. OfDim(AggRows(m, by, rows), dim) = R
  <2>1. \A d, v : row(d, v).dim = d
    OBVIOUS
  <2>2. R = {row(dim, DimValue(dim, r)) : r \in latest}
    OBVIOUS
  <2> HIDE DEF row, latest, R
  <2> QED BY <1>1, <2>1, <2>2 DEF OfDim
<1>3. IsFiniteSet(latest) /\ \A r \in latest : f[r] \in Nat /\ r.tokens \in Nat /\ f[r] = r.tokens
  <2>1. latest \in SUBSET rows
    BY DEF LatestOf
  <2>2. IsFiniteSet(latest)
    <3> HIDE DEF latest
    <3> QED BY <2>1, FS_Subset
  <2> QED BY <2>1, <2>2
<1> HIDE DEF latest
<1>4. IsFiniteSet(R)
  <2> HIDE DEF key
  <2> QED BY <1>3, ImageFinite
<1>5. ASSUME NEW v \in R
      PROVE  /\ v.tokens \in Nat /\ v.tokens = g[v]
             /\ g[v] = SumFunctionOnSet(f, Having(latest, key, {v}))
  <2>1. PICK q \in latest : v = row(dim, DimValue(dim, q))
    OBVIOUS
  <2>2. PICK w : w = DimValue(dim, q)
    OBVIOUS
  <2>3. v = row(dim, w) /\ v.value = w /\ v.tokens = Tokens(of(dim, w))
    BY <2>1, <2>2
  <2>4. Having(latest, key, {v}) = of(dim, w)
    <3>1. ASSUME NEW r \in latest PROVE key[r] = v <=> DimValue(dim, r) = w
      <4>1. key[r] = row(dim, DimValue(dim, r)) /\ key[r].value = DimValue(dim, r)
        OBVIOUS
      <4> HIDE DEF row, key
      <4> QED BY <2>3, <4>1
    <3> HIDE DEF key
    <3> QED BY <3>1 DEF Having
  <2>5. of(dim, w) \in SUBSET latest
    OBVIOUS
  <2>6. IsFiniteSet(of(dim, w)) /\ \A r \in of(dim, w) : r.tokens \in Nat /\ f[r] = r.tokens
    <3> HIDE DEF of, f
    <3> QED BY <1>3, <2>5, FS_Subset
  <2>7. /\ Tokens(of(dim, w)) = SumFunctionOnSet(f, of(dim, w))
        /\ SumFunctionOnSet(f, of(dim, w)) \in Nat
    <3> HIDE DEF of, f
    <3> QED BY <2>6, TokensIs, SumNat
  <2>8. g[v] = v.tokens
    <3> HIDE DEF R
    <3> QED OBVIOUS
  <2> HIDE DEF of, f, key, R, g, row
  <2> QED BY <2>3, <2>4, <2>7, <2>8
<1>6. SumFunctionOnSet(g, R) = SumFunctionOnSet(f, Having(latest, key, R))
  <2> HIDE DEF f, g, key, R
  <2>1. IsFiniteSet(latest) /\ \A r \in latest : f[r] \in Nat
    BY <1>3
  <2>2. Grouped(f, latest, key, R, g)
    BY <1>5 DEF Grouped
  <2> QED BY <1>4, <2>1, <2>2, SumByGroups
<1>7. Having(latest, key, R) = latest
  <2> HIDE DEF key
  <2> QED BY DEF Having
<1>8. Tokens(R) = SumFunctionOnSet(g, R)
  <2> HIDE DEF R, g
  <2> QED BY <1>4, <1>5, TokensIs
<1>9. Tokens(latest) = SumFunctionOnSet(f, latest)
  <2> HIDE DEF f
  <2> QED BY <1>3, TokensIs
<1>10. Tokens(R) = Tokens(latest)
  <2> HIDE DEF f, g, key, R
  <2> QED BY <1>6, <1>7, <1>8, <1>9
<1> HIDE DEF f, g, key, R
<1> QED BY <1>2, <1>10 DEF latest

-----------------------------------------------------------------------------
(* The rows are finite, and their amounts are numbers. *)

Finite(rows) == IsFiniteSet(rows) /\ \A q \in rows : q.tokens \in Nat

Tallied ==
  /\ Finite(usage)
  /\ \A s \in Syncs : sync[s].at \in {"ingest", "commit"} => Finite(sync[s].rows)

\* The reports have finitely many lines.
LEMMA LinesAreFinite == IsFiniteSet(Lines)
<1> DEFINE S == (Days \X Holders) \X Names
           line == [t \in S |-> [day |-> t[1][1], holder |-> t[1][2], name |-> t[2]]]
<1>1. IsFiniteSet(Days)
  <2>1. 1 \in Int /\ LastDay \in Int
    BY ConnectorAssumption
  <2> QED BY <2>1, FS_Interval DEF Days
<1>2. IsFiniteSet(Holders) /\ IsFiniteSet(Names)
  BY ConnectorAssumption, FS_Union DEF Holders
<1>3. IsFiniteSet(Days \X Holders)
  BY <1>1, <1>2, FS_Product
<1>4. IsFiniteSet(S)
  BY <1>2, <1>3, FS_Product
<1>5. IsFiniteSet({line[t] : t \in S})
  <2> HIDE DEF S, line
  <2> QED BY <1>4, ImageFinite
<1>6. Lines = {line[t] : t \in S}
  <2>1. ASSUME NEW l \in Lines PROVE \E t \in S : l = line[t]
    <3>1. l.day \in Days /\ l.holder \in Holders /\ l.name \in Names
          /\ l = [day |-> l.day, holder |-> l.holder, name |-> l.name]
      BY DEF Lines
    <3>2. <<<<l.day, l.holder>>, l.name>> \in S
      BY <3>1
    <3>3. line[<<<<l.day, l.holder>>, l.name>>] = [day |-> l.day, holder |-> l.holder, name |-> l.name]
      BY <3>2
    <3> QED BY <3>1, <3>2, <3>3
  <2>2. ASSUME NEW t \in S PROVE line[t] \in Lines
    BY DEF Lines
  <2> HIDE DEF S, line
  <2> QED BY <2>1, <2>2
<1> HIDE DEF S, line
<1> QED BY <1>5, <1>6

LEMMA TalliedInit == Init => Tallied
BY FS_EmptySet DEF Init, Tallied, Finite, Idle

\* Fewer rows.
LEMMA FiniteSubset ==
  ASSUME NEW rows, Finite(rows), NEW some \in SUBSET rows
  PROVE  Finite(some)
BY FS_Subset DEF Finite

LEMMA TalliedAnalytics ==
  ASSUME Runs, Versions, Tallied, NEW s \in Syncs, ReadAnalytics(s)
  PROVE  Tallied'
<1> DEFINE admin == [l \in Reported(sync[s].report) |-> AdminRow(s, l)]
           analytics == [l \in Reported(Of(Users)) |-> AnalyticsRow(s, l)]
           A == {admin[l] : l \in Reported(sync[s].report)}
           U == {analytics[l] : l \in Reported(Of(Users))}
           mine == {r \in A \union U : InWindow(s, r)}
<1>1. /\ sync[s].at = "analytics" /\ usage' = usage
      /\ sync' = [sync EXCEPT ![s].at = "ingest", ![s].report = <<>>, ![s].bill = <<>>,
                             ![s].rows = mine,
                             ![s].from = WindowEnd(s) - Window, ![s].to = WindowEnd(s)]
  <2>1. /\ A = {AdminRow(s, l) : l \in Reported(sync[s].report)}
        /\ U = {AnalyticsRow(s, l) : l \in Reported(Of(Users))}
    OBVIOUS
  <2> HIDE DEF A, U
  <2> QED BY <2>1 DEF ReadAnalytics, base
<1>2. /\ sync[s].report \in [{l \in Lines : l.holder \in ApiKeys} -> Nat]
      /\ truth \in [Lines -> Nat] /\ Field(sync[s]) /\ DOMAIN sync = Syncs
  BY <1>1, SyncIs DEF Versions, Made, Reading, Runs
<1>3. /\ Reported(sync[s].report) \in SUBSET Lines /\ Reported(Of(Users)) \in SUBSET Lines
      /\ \A l \in Reported(sync[s].report) : sync[s].report[l] \in Nat
      /\ \A l \in Reported(Of(Users)) : truth[l] \in Nat
  BY <1>2 DEF Reported, Of
<1>4. IsFiniteSet(Reported(sync[s].report)) /\ IsFiniteSet(Reported(Of(Users)))
  BY <1>3, LinesAreFinite, FS_Subset
<1>5. IsFiniteSet(A \union U)
  <2>1. IsFiniteSet(A)
    <3> HIDE DEF admin
    <3> QED BY <1>4, ImageFinite
  <2>2. IsFiniteSet(U)
    <3> HIDE DEF analytics
    <3> QED BY <1>4, ImageFinite
  <2> HIDE DEF A, U
  <2> QED BY <2>1, <2>2, FS_Union
<1>6. \A q \in A \union U : q.tokens \in Nat
  BY <1>3 DEF AdminRow, AnalyticsRow
<1>7. Finite(mine)
  <2> HIDE DEF A, U
  <2>1. mine \in SUBSET (A \union U)
    OBVIOUS
  <2>2. Finite(A \union U)
    BY <1>5, <1>6 DEF Finite
  <2> HIDE DEF mine
  <2> QED BY <2>1, <2>2, FiniteSubset
<1> HIDE DEF mine
<1>8. sync'[s].rows = mine /\ \A t \in Syncs \ {s} : sync'[t] = sync[t]
  BY <1>1, <1>2 DEF Field
<1> QED BY <1>1, <1>7, <1>8 DEF Tallied

LEMMA TalliedNext == Runs /\ Versions /\ Tallied /\ [Next]_vars => Tallied'
<1> SUFFICES ASSUME Runs, Versions, Tallied, [Next]_vars PROVE Tallied'
  OBVIOUS
<1>0. DOMAIN sync = Syncs
  BY DEF Runs
<1>1. CASE UNCHANGED vars \/ Tomorrow \/ \E l \in Lines : Correct(l)
  BY <1>1 DEF vars, Tomorrow, Correct, base, Tallied
<1>2. ASSUME NEW s \in Syncs, Begin(s) \/ ReadUsage(s) \/ ReadCost(s) \/ Fail(s) \/ Interrupt(s)
                              \/ Trace(s) \/ Crash(s)
      PROVE  Tallied'
  <2>1. /\ usage' = usage /\ \A t \in Syncs \ {s} : sync'[t] = sync[t]
    BY <1>0, <1>2 DEF Begin, ReadUsage, ReadCost, Fail, Interrupt, Trace, Crash, base
  <2>2. sync'[s].at \notin {"ingest", "commit"}
    <3>1. sync[s].at # "idle" => Field(sync[s])
      BY SyncIs
    <3>2. CASE Begin(s)
      BY <1>0, <3>2 DEF Begin, Idle
    <3>3. CASE ReadUsage(s) \/ ReadCost(s) \/ Interrupt(s)
      BY <1>0, <3>1, <3>3 DEF ReadUsage, ReadCost, Interrupt, Field
    <3>4. CASE Trace(s) \/ Crash(s)
      BY <1>0, <3>4 DEF Trace, Crash, Idle
    <3>5. CASE Fail(s)
      <4>1. PICK x : x = [Idle EXCEPT !.at = "trace", !.start = sync[s].start,
                            !.ingested = sync[s].ingested, !.from = sync[s].day, !.to = sync[s].day,
                            !.ok = FALSE]
        OBVIOUS
      <4>2. x.at = "trace"
        BY <4>1 DEF Idle
      <4>3. sync' = [sync EXCEPT ![s] = x]
        BY <3>5, <4>1 DEF Fail
      <4> QED BY <1>0, <4>2, <4>3
    <3> QED BY <1>2, <3>2, <3>3, <3>4, <3>5
  <2> QED BY <2>1, <2>2 DEF Tallied
<1>3. ASSUME NEW s \in Syncs, Ingest(s) PROVE Tallied'
  <2>1. PICK new \in Insertable(sync[s].rows) :
          sync' = [sync EXCEPT ![s].at = "commit", ![s].rows = new,
                               ![s].ingested = Counted(new, sync[s].rows)]
    BY <1>3 DEF Ingest
  <2>2. PICK n : sync' = [sync EXCEPT ![s].at = "commit", ![s].rows = new, ![s].ingested = n]
    BY <2>1
  <2>3. sync[s].at = "ingest" /\ usage' = usage /\ Field(sync[s])
    BY <1>3, SyncIs DEF Ingest, base
  <2>4. sync'[s].rows = new /\ \A t \in Syncs \ {s} : sync'[t] = sync[t]
    BY <1>0, <2>2, <2>3 DEF Field
  <2>5. Finite(new)
    BY <2>1, <2>3, FiniteSubset DEF Tallied, Insertable
  <2> QED BY <2>3, <2>4, <2>5 DEF Tallied
<1>4. ASSUME NEW s \in Syncs, Commit(s) PROVE Tallied'
  <2>1. /\ sync[s].at = "commit" /\ usage' = usage \union sync[s].rows /\ Field(sync[s])
        /\ sync' = [sync EXCEPT ![s].at = "trace", ![s].rows = {}]
    BY <1>4, SyncIs DEF Commit
  <2>2. sync'[s].at = "trace" /\ \A t \in Syncs \ {s} : sync'[t] = sync[t]
    BY <1>0, <2>1 DEF Field
  <2>3. Finite(usage')
    BY <2>1, FS_Union DEF Finite, Tallied
  <2> QED BY <2>2, <2>3 DEF Tallied
<1> QED BY <1>1, <1>2, <1>3, <1>4, TalliedAnalytics DEF Next, Step

-----------------------------------------------------------------------------
(* The sums of a month, and of a report. *)

\* The rows of every dimension share the same tokens.
Balanced(rows) ==
  \A dim \in Dimensions : Tokens(OfDim(rows, dim)) = Tokens(OfDim(rows, "total"))

\* What a report has read is what the month says.
Told ==
  /\ report.models = Tokens(OfDim(Month(report.month), "model"))
  /\ report.at \in {"monthly_total", "written"} =>
       report.workspaces = Tokens(OfDim(Month(report.month), "workspace"))
  /\ report.at = "written" => report.total = Tokens(OfDim(Month(report.month), "total"))

Coherent ==
  /\ \A a \in Aggregators : Active(a) => Balanced(agg[a].rows)
  /\ \A m \in Months : Balanced(Month(m))
  /\ {"at", "month", "models", "workspaces", "total"} \subseteq DOMAIN report
  /\ report.at \in {"idle", "by_workspace", "monthly_total", "written"}
  /\ report.at # "idle" => report.month \in Months
  /\ report.at # "idle" /\ undisturbed => Told

LEMMA NothingIsBalanced == Balanced({})
BY DEF Balanced, OfDim

LEMMA AggregationIsBalanced ==
  ASSUME Tallied, NEW m, NEW by
  PROVE  Balanced(AggRows(m, by, usage))
<1>1. IsFiniteSet(usage) /\ \A r \in usage : r.tokens \in Nat
  BY DEF Tallied, Finite
<1>2. "total" \in Dimensions
  BY DEF Dimensions
<1>3. PICK latest : latest = LatestOf({r \in usage : MonthOf[r.day] = m})
  OBVIOUS
<1>4. PICK rows : rows = AggRows(m, by, usage)
  OBVIOUS
<1>5. \A dim \in Dimensions : Tokens(OfDim(rows, dim)) = Tokens(latest)
  BY <1>1, <1>3, <1>4, AggRowsShare
<1>6. Balanced(rows)
  BY <1>2, <1>5 DEF Balanced
<1> QED BY <1>4, <1>6

LEMMA CoherentInit == WInit => Coherent
BY NothingIsBalanced DEF WInit, Coherent, Active, Resting, NoReport, Month

\* A step that publishes nothing.
LEMMA CoherentStep ==
  ASSUME Coherent, UNCHANGED <<monthly, reading>>,
         \A a \in Aggregators : Active(a)' => Balanced(agg[a].rows)'
  PROVE  Coherent'
<1>1. \A m : Month(m)' = Month(m)
  BY DEF Month
<1>2. Told => Told'
  BY <1>1 DEF Told, reading
<1> QED BY <1>1, <1>2 DEF Coherent, reading

\* A step of the report.
LEMMA CoherentReport ==
  ASSUME Coherent, ByModel \/ ByWorkspace \/ MonthlyTotal \/ CloseReport
  PROVE  Coherent'
<1>1. UNCHANGED <<monthly, agg>>
  BY DEF ByModel, ByWorkspace, MonthlyTotal, CloseReport, accounts
<1>2. \A m : Month(m)' = Month(m)
  BY <1>1 DEF Month
<1>3. /\ \A a \in Aggregators : Active(a)' => Balanced(agg[a].rows)'
      /\ \A m \in Months : Balanced(Month(m))'
  BY <1>1, <1>2 DEF Coherent, Active, Balanced
<1>4. CASE ByModel
  <2>1. PICK m \in Months :
          report' = [NoReport EXCEPT !.at = "by_workspace", !.month = m,
                      !.models = Tokens({r \in monthly : r.month = m /\ r.dim = "model"})]
    BY <1>4 DEF ByModel
  <2>2. /\ report'.at = "by_workspace" /\ report'.month = m
        /\ report'.models = Tokens({r \in monthly : r.month = m /\ r.dim = "model"})
        /\ {"at", "month", "models", "workspaces", "total"} \subseteq DOMAIN report'
    BY <2>1 DEF NoReport
  <2>3. {r \in monthly : r.month = m /\ r.dim = "model"} = OfDim(Month(m), "model")
    BY DEF OfDim, Month
  <2>4. Told'
    BY <1>2, <2>2, <2>3 DEF Told
  <2> QED BY <1>3, <2>2, <2>4 DEF Coherent
<1>5. ASSUME NEW dim PROVE Seen(dim) = Tokens(OfDim(Month(report.month), dim))
  <2>1. {r \in monthly : r.month = report.month /\ r.dim = dim} = OfDim(Month(report.month), dim)
    BY DEF OfDim, Month
  <2> QED BY <2>1 DEF Seen
<1>6. CASE ByWorkspace
  <2>1. PICK seen : seen = Seen("workspace")
    OBVIOUS
  <2>2. report.at = "by_workspace" /\ undisturbed' = undisturbed
        /\ report' = [report EXCEPT !.at = "monthly_total", !.workspaces = seen]
    BY <1>6, <2>1 DEF ByWorkspace
  <2>3. /\ report'.at = "monthly_total" /\ report'.month = report.month
        /\ report'.models = report.models /\ report'.workspaces = seen
        /\ {"at", "month", "models", "workspaces", "total"} \subseteq DOMAIN report'
    BY <2>2 DEF Coherent
  <2>4. undisturbed => Told'
    BY <1>2, <1>5, <2>1, <2>2, <2>3 DEF Told, Coherent
  <2> QED BY <1>3, <2>2, <2>3, <2>4 DEF Coherent
<1>7. CASE MonthlyTotal
  <2>1. PICK seen : seen = Seen("total")
    OBVIOUS
  <2>2. report.at = "monthly_total" /\ undisturbed' = undisturbed
        /\ report' = [report EXCEPT !.at = "written", !.total = seen]
    BY <1>7, <2>1 DEF MonthlyTotal
  <2>3. /\ report'.at = "written" /\ report'.month = report.month
        /\ report'.models = report.models /\ report'.workspaces = report.workspaces
        /\ report'.total = seen
        /\ {"at", "month", "models", "workspaces", "total"} \subseteq DOMAIN report'
    BY <2>2 DEF Coherent
  <2>4. undisturbed => Told'
    BY <1>2, <1>5, <2>1, <2>2, <2>3 DEF Told, Coherent
  <2> QED BY <1>3, <2>2, <2>3, <2>4 DEF Coherent
<1>8. CASE CloseReport
  BY <1>3, <1>8 DEF CloseReport, NoReport, Coherent
<1> QED BY <1>4, <1>6, <1>7, <1>8

\* A month is left as it is, emptied, or replaced by the rows of one aggregation.
LEMMA MonthReplaced ==
  ASSUME Whole, NEW a \in Aggregators, CommitMonth(a), NEW m, m = agg[a].month
  PROVE  /\ Month(m)' = Month(m) \/ Month(m)' = {} \/ Month(m)' = agg[a].rows
         /\ agg[a].rows # {} => Month(m)' = agg[a].rows
         /\ \A n : n # m => Month(n)' = Month(n)
<1>0. PICK rows, target : rows = agg[a].rows /\ target = agg[a].target
  OBVIOUS
<1>1. agg[a].at = "commit" /\ monthly' = (monthly \ target) \union rows
  BY <1>0 DEF Whole, CommitMonth
<1>2. /\ \A r \in rows : r.month = m
      /\ \A r \in target : r.month = m
      /\ target \intersect monthly = {} \/ target = Month(m)
      /\ rows # {} => Month(m) \subseteq target
  BY <1>0, <1>1 DEF Whole, Own, AllOrNothing, Replaces, Active, Targeting
<1>3. rows # {} => Month(m)' = rows
  BY <1>1, <1>2 DEF Month
<1>4. rows = {} => Month(m)' = Month(m) \/ Month(m)' = {}
  BY <1>1, <1>2 DEF Month
<1>5. ASSUME NEW n, n # m PROVE Month(n)' = Month(n)
  BY <1>1, <1>2, <1>5 DEF Month
<1> QED BY <1>0, <1>3, <1>4, <1>5

LEMMA CoherentCommit ==
  ASSUME Whole, Coherent, NEW a \in Aggregators, CommitMonth(a)
  PROVE  Coherent'
<1>1. PICK m : m = agg[a].month
  OBVIOUS
<1>2. /\ Active(a) /\ report' = report
      /\ undisturbed' = (undisturbed /\ (report.at = "idle" \/ m # report.month))
      /\ agg' = [agg EXCEPT ![a] = Resting] /\ DOMAIN agg = Aggregators
  BY <1>1 DEF CommitMonth, Active, Whole
<1>3. /\ Month(m)' = Month(m) \/ Month(m)' = {} \/ Month(m)' = agg[a].rows
      /\ \A n : n # m => Month(n)' = Month(n)
  BY <1>1, MonthReplaced
<1>4. ASSUME NEW n \in Months PROVE Balanced(Month(n))'
  <2>1. PICK old, new : old = Month(n) /\ new = Month(n)'
    OBVIOUS
  <2>2. Balanced(new)
    BY <1>2, <1>3, <2>1, NothingIsBalanced DEF Coherent
  <2> QED BY <2>1, <2>2 DEF Balanced
<1>5. ASSUME NEW b \in Aggregators, Active(b)' PROVE Balanced(agg[b].rows)'
  <2>1. b # a /\ agg'[b] = agg[b]
    BY <1>2, <1>5 DEF Active, Resting
  <2>2. Balanced(agg[b].rows)
    BY <1>5, <2>1 DEF Coherent, Active
  <2> QED BY <2>1, <2>2 DEF Balanced
<1>6. report.at # "idle" /\ undisturbed' => Told'
  BY <1>2, <1>3 DEF Told, Coherent
<1> QED BY <1>2, <1>4, <1>5, <1>6 DEF Coherent

\* A step of one transaction that publishes nothing.
LEMMA CoherentOne ==
  ASSUME Coherent, NEW a \in Aggregators, NEW x, DOMAIN agg = Aggregators,
         agg' = [agg EXCEPT ![a] = x], UNCHANGED <<monthly, reading>>,
         x.at # "idle" => Balanced(x.rows)
  PROVE  Coherent'
<1>1. ASSUME NEW b \in Aggregators, Active(b)' PROVE Balanced(agg[b].rows)'
  <2>1. CASE b = a
    <3>1. agg'[b] = x
      BY <2>1
    <3> QED BY <1>1, <3>1 DEF Active, Balanced
  <2>2. CASE b # a
    <3>1. agg'[b] = agg[b]
      BY <2>2
    <3>2. Balanced(agg[b].rows)
      BY <1>1, <3>1 DEF Active, Coherent
    <3> QED BY <3>1, <3>2 DEF Balanced
  <2> QED BY <2>1, <2>2
<1> QED BY <1>1, CoherentStep

LEMMA CoherentNext == Tallied /\ Whole /\ Coherent /\ [WNext]_wvars => Coherent'
<1> SUFFICES ASSUME Tallied, Whole, Coherent, [WNext]_wvars PROVE Coherent'
  OBVIOUS
<1>0. DOMAIN agg = Aggregators
  BY DEF Whole
<1>1. CASE Ingestion \/ UNCHANGED wvars
  <2>1. UNCHANGED <<monthly, reading>>
    BY <1>1 DEF Ingestion, wvars, accounts
  <2>2. ASSUME NEW a \in Aggregators PROVE \/ agg'[a].at = agg[a].at /\ agg'[a].rows = agg[a].rows
                                           \/ agg'[a].at = "idle"
    <3>1. agg' = agg \/ agg' = [b \in Aggregators |-> [agg[b] EXCEPT !.fresh = agg[b].at = "idle"]]
      BY <1>1 DEF Ingestion, wvars, accounts
    <3>2. {"at", "rows"} \subseteq DOMAIN agg[a]
      BY DEF Whole, Own
    <3> QED BY <3>1, <3>2
  <2>3. \A a \in Aggregators : Active(a)' => Balanced(agg[a].rows)'
    BY <2>2 DEF Active, Balanced, Coherent
  <2> QED BY <2>1, <2>3, CoherentStep
<1>2. CASE ByModel \/ ByWorkspace \/ MonthlyTotal \/ CloseReport
  BY <1>2, CoherentReport
<1>3. ASSUME NEW a \in Aggregators, Read(a) PROVE Coherent'
  <2>1. PICK m \in Months :
          agg' = [agg EXCEPT ![a] = [Resting EXCEPT !.at = "delete", !.by = aggregations + 1,
                           !.month = m, !.rows = AggRows(m, aggregations + 1, usage)]]
    BY <1>3 DEF Read
  <2>2. PICK x, rows : /\ rows = AggRows(m, aggregations + 1, usage)
                       /\ x = [Resting EXCEPT !.at = "delete", !.by = aggregations + 1,
                                              !.month = m, !.rows = rows]
    OBVIOUS
  <2>3. agg' = [agg EXCEPT ![a] = x] /\ x.rows = rows
    BY <2>1, <2>2 DEF Resting
  <2>4. Balanced(rows)
    BY <2>2, AggregationIsBalanced
  <2> QED BY <1>0, <1>3, <2>3, <2>4, CoherentOne DEF Read
<1>4. ASSUME NEW a \in Aggregators, NEW x,
             {"at", "rows", "target"} \subseteq DOMAIN agg[a], Active(a),
             \E at, target : x = [agg[a] EXCEPT !.at = at, !.target = target],
             agg' = [agg EXCEPT ![a] = x], UNCHANGED <<monthly, reading>>
      PROVE  Coherent'
  <2>1. x.rows = agg[a].rows
    BY <1>4
  <2> QED BY <1>0, <1>4, <2>1, CoherentOne DEF Coherent
<1>5. ASSUME NEW a \in Aggregators, Delete(a) \/ Deleted(a) \/ Insert(a) PROVE Coherent'
  <2>1. {"at", "rows", "target"} \subseteq DOMAIN agg[a] /\ Active(a) /\ UNCHANGED <<monthly, reading>>
    BY <1>5 DEF Delete, Deleted, Insert, Whole, Own, Active
  <2>2. CASE Delete(a)
    BY <1>4, <2>1, <2>2 DEF Delete
  <2>3. CASE Deleted(a)
    BY <1>4, <2>1, <2>3 DEF Deleted
  <2>4. CASE Insert(a)
    <3>1. agg' = [agg EXCEPT ![a] = [agg[a] EXCEPT !.at = "commit", !.target = agg[a].target]]
      BY <2>1, <2>4 DEF Insert
    <3> QED BY <1>4, <2>1, <3>1
  <2> QED BY <1>5, <2>2, <2>3, <2>4
<1>6. ASSUME NEW a \in Aggregators, Abort(a) PROVE Coherent'
  BY <1>0, <1>6, CoherentOne DEF Abort, Resting
<1> QED BY <1>1, <1>2, <1>3, <1>5, <1>6, CoherentCommit DEF WNext

\* A report of a month that did not change while it was read shows a total that is the sum of
\* its models and of its workspaces, or is refused (generate.py:110-119): the three queries
\* read one whole aggregation, whose rows of every dimension share the tokens of the same
\* rows of usage_daily, each in one row of the dimension.
THEOREM ReportsAreCoherent == WSpec => []ReportIsCoherent
<1>1. Coherent => ReportIsCoherent
  <2> SUFFICES ASSUME Coherent, report.at = "written", undisturbed
               PROVE  report.models = report.total /\ report.workspaces = report.total
    BY DEF ReportIsCoherent
  <2>1. Told /\ Balanced(Month(report.month))
    BY DEF Coherent
  <2>2. {"model", "workspace"} \subseteq Dimensions
    BY DEF Dimensions
  <2> QED BY <2>1, <2>2 DEF Told, Balanced
<1>2. [WNext]_wvars => [Next]_vars
  BY DEF WNext, Ingestion, wvars, Read, Delete, Deleted, Insert, CommitMonth, Abort,
         ByModel, ByWorkspace, MonthlyTotal, CloseReport
<1>3. WInit => Init
  BY DEF WInit
<1> QED
  BY <1>1, <1>2, <1>3, RunsInit, RunsNext, VersionsInit, VersionsNext, TalliedInit, TalliedNext,
     WholeInit, WholeNext, CoherentInit, CoherentNext, PTL DEF WSpec

-----------------------------------------------------------------------------
(* What is billed. *)

\* The lines that share what is billed for a group.
Sharing(g) == {l \in Lines : l.holder \in ApiKeys /\ Group(l) = g}

GroupOf(q) == <<q.day, WorkspaceOf[q.holder], q.model>>

\* A report of the API keys, as far as a group is concerned.
Reports(f, g) == /\ Sharing(g) \subseteq DOMAIN f
                 /\ DOMAIN f \subseteq {l \in Lines : l.holder \in ApiKeys}
                 /\ \A l \in Sharing(g) : f[l] \in Nat

\* The cost of a row is its share, unless a line of its group was corrected since its run began.
Priced(q) ==
  q.holder \in ApiKeys /\ (\A l \in Sharing(GroupOf(q)) : changedAt[l] < q.run)
    => q.cost = Share(Bill(Of(ApiKeys), GroupOf(q)), q.tokens, Weight(Of(ApiKeys), GroupOf(q)))

Keyed(rows) == \A p, q \in rows : SameKey(p, q) => p = q

Billed(x) ==
  /\ x.bill \in [{l \in Lines : l.holder \in ApiKeys} -> Nat]
  /\ \A l \in Lines : l.holder \in ApiKeys /\ changedAt[l] < x.start => x.bill[l] = truth[l]

Bills(x) ==
  /\ x.at = "analytics" => Billed(x)
  /\ x.at \in {"ingest", "commit"} => \A q \in x.rows : Priced(q)
  /\ x.at = "commit" => Keyed(x.rows)

Costs ==
  /\ \A q \in usage : Priced(q)
  /\ Keyed(usage)
  /\ \A s \in Syncs : Bills(sync[s])

Amount(f) == [l \in DOMAIN f |-> Price[l.holder] * f[l]]
Positive(f, g) == {l \in Sharing(g) : f[l] > 0}

\* A bill and a weight are sums over the lines of the group.
LEMMA BillIs ==
  ASSUME NEW f, NEW g, Reports(f, g)
  PROVE  /\ Bill(f, g) = SumFunctionOnSet(Amount(f), Positive(f, g))
         /\ Weight(f, g) = SumFunctionOnSet(f, Positive(f, g))
         /\ IsFiniteSet(Positive(f, g))
         /\ \A l \in Positive(f, g) : /\ f[l] \in Nat /\ Amount(f)[l] \in Nat
                                      /\ Amount(f)[l] = Price[l.holder] * f[l]
<1>1. Positive(f, g) = {l \in Reported(f) : Group(l) = g}
  BY DEF Positive, Reports, Reported, Sharing
<1>2. IsFiniteSet(Positive(f, g))
  <2>1. Positive(f, g) \in SUBSET Lines
    BY DEF Positive, Sharing
  <2> QED BY <2>1, LinesAreFinite, FS_Subset
<1>3. ASSUME NEW l \in Positive(f, g)
      PROVE  /\ f[l] \in Nat /\ Amount(f)[l] \in Nat /\ Amount(f)[l] = Price[l.holder] * f[l]
  <2>1. l \in DOMAIN f /\ f[l] \in Nat /\ Price[l.holder] \in Nat
    BY ConnectorAssumption DEF Positive, Reports, Sharing
  <2> QED BY <2>1 DEF Amount
<1>4. Bill(f, g) = SumFunctionOnSet(Amount(f), {l \in Reported(f) : Group(l) = g})
  BY DEF Bill, Amount
<1>5. Weight(f, g) = SumFunctionOnSet(f, {l \in Reported(f) : Group(l) = g})
  BY DEF Weight
<1> QED BY <1>1, <1>2, <1>3, <1>4, <1>5

\* Reports that say the same of the lines of a group.
LEMMA SameBill ==
  ASSUME NEW f, NEW h, NEW g, Reports(f, g), Reports(h, g), \A l \in Sharing(g) : f[l] = h[l]
  PROVE  Bill(f, g) = Bill(h, g) /\ Weight(f, g) = Weight(h, g)
<1>1. PICK S, u, v : S = Positive(f, g) /\ u = Amount(f) /\ v = Amount(h)
  OBVIOUS
<1>2. S = Positive(h, g) /\ \A l \in S : f[l] = h[l]
  BY <1>1 DEF Positive
<1>3. IsFiniteSet(S) /\ \A l \in S : f[l] \in Nat /\ u[l] \in Nat /\ u[l] = v[l]
  BY <1>1, <1>2, BillIs
<1>4. SumFunctionOnSet(f, S) = SumFunctionOnSet(h, S) /\ SumFunctionOnSet(u, S) = SumFunctionOnSet(v, S)
  BY <1>2, <1>3, SumSame
<1> QED BY <1>1, <1>2, <1>4, BillIs

\* What the provider says is a report.
LEMMA TruthReports ==
  ASSUME truth \in [Lines -> Nat], NEW g
  PROVE  Reports(Of(ApiKeys), g) /\ \A l \in Sharing(g) : Of(ApiKeys)[l] = truth[l]
BY DEF Reports, Of, Sharing

\* A row keeps its share when the provider corrects a line: the run of the row began before.
LEMMA StillPriced ==
  ASSUME Untouched, truth \in [Lines -> Nat], truth' \in [Lines -> Nat],
         NEW q, q.run \in 1 .. starts, Priced(q)
  PROVE  Priced(q)'
<1>1. PICK old, new, g : old = Of(ApiKeys) /\ new = Of(ApiKeys)' /\ g = GroupOf(q)
  OBVIOUS
<1> SUFFICES ASSUME q.holder \in ApiKeys, \A l \in Sharing(g) : changedAt'[l] < q.run
             PROVE  q.cost = Share(Bill(new, g), q.tokens, Weight(new, g))
  BY <1>1 DEF Priced
<1>2. \A l \in Sharing(g) : truth'[l] = truth[l] /\ changedAt[l] < q.run
  BY DEF Untouched, Sharing
<1>3. q.cost = Share(Bill(old, g), q.tokens, Weight(old, g))
  BY <1>1, <1>2 DEF Priced
<1>4. Reports(old, g) /\ \A l \in Sharing(g) : old[l] = truth[l]
  BY <1>1, TruthReports
<1>5. Reports(new, g) /\ \A l \in Sharing(g) : new[l] = truth'[l]
  BY <1>1 DEF Reports, Of, Sharing
<1>6. Bill(old, g) = Bill(new, g) /\ Weight(old, g) = Weight(new, g)
  BY <1>2, <1>4, <1>5, SameBill
<1> QED BY <1>3, <1>6

LEMMA StillBills ==
  ASSUME Untouched, truth \in [Lines -> Nat], truth' \in [Lines -> Nat], NEW x,
         x.at # "idle" => x.start \in 1 .. starts, Made(x), Bills(x)
  PROVE  Bills(x)'
<1>1. x.at = "analytics" => Billed(x)'
  BY DEF Bills, Billed, Untouched
<1>2. x.at \in {"ingest", "commit"} => \A q \in x.rows : Priced(q)'
  BY StillPriced DEF Bills, Made, Holding, Row
<1>3. x.at = "commit" => Keyed(x.rows)'
  BY DEF Bills, Keyed, SameKey
<1> QED BY <1>1, <1>2, <1>3 DEF Bills

LEMMA CostsInit == Init => Costs
BY DEF Init, Costs, Bills, Idle, Keyed

\* Every step, of the provider or of a run.
LEMMA UntouchedNext == Runs /\ Versions /\ [Next]_vars => Untouched
<1> SUFFICES ASSUME Runs, Versions, [Next]_vars PROVE Untouched
  OBVIOUS
<1>0. starts \in Nat /\ truth \in [Lines -> Nat] /\ changedAt \in [Lines -> 0 .. starts]
  BY DEF Runs, Versions
<1>1. ASSUME NEW l \in Lines, Correct(l) PROVE Untouched
  <2>1. PICK a : truth' = [truth EXCEPT ![l] = a]
    BY <1>1 DEF Correct
  <2>2. /\ ~ fixtures /\ fixtures' = fixtures /\ starts' = starts
        /\ changedAt' = [changedAt EXCEPT ![l] = starts]
    BY <1>1 DEF Correct
  <2>3. \A n : SnapOf(n)' = SnapOf(n)
    BY <2>2 DEF SnapOf
  <2>4. \A k \in Lines : \/ truth'[k] = truth[k] /\ changedAt'[k] = changedAt[k]
                        \/ changedAt'[k] = starts
    BY <1>0, <2>1, <2>2
  <2> QED BY <1>0, <2>2, <2>3, <2>4 DEF Untouched
<1>2. CASE ~ \E l \in Lines : Correct(l)
  <2>1. UNCHANGED <<fixtures, truth, changedAt>> /\ starts' \in {starts, starts + 1}
    BY <1>2 DEF Next, vars, provider, Tomorrow, Step, Begin, ReadUsage, ReadCost, ReadAnalytics,
                Ingest, Commit, Fail, Interrupt, Trace, Crash
  <2> QED BY <1>0, <2>1, SameSnap DEF Untouched
<1> QED BY <1>1, <1>2

\* A step of one process, which commits nothing.
LEMMA CostsStep ==
  ASSUME Runs, Versions, Versions', Costs, Untouched,
         NEW s \in Syncs, NEW x, sync' = [sync EXCEPT ![s] = x], Bills(x)', usage' = usage
  PROVE  Costs'
<1>1. truth \in [Lines -> Nat] /\ truth' \in [Lines -> Nat]
  BY DEF Versions
<1>2. \A q \in usage' : Priced(q)'
  BY <1>1, StillPriced DEF Costs, Versions, Row
<1>3. Keyed(usage)'
  BY DEF Costs, Keyed, SameKey
<1>4. ASSUME NEW t \in Syncs PROVE Bills(sync[t])'
  <2>1. PICK y : y = sync'[t]
    OBVIOUS
  <2>2. CASE t = s
    <3>1. y = x
      BY <2>1, <2>2 DEF Runs
    <3> QED BY <2>1, <3>1 DEF Bills, Billed, Priced
  <2>3. CASE t # s
    <3>1. y = sync[t]
      BY <2>1, <2>3 DEF Runs
    <3>2. Made(y) /\ Bills(y) /\ (y.at # "idle" => y.start \in 1 .. starts)
      BY <3>1, SyncIs DEF Versions, Costs
    <3>3. Bills(y)'
      BY <1>1, <3>2, StillBills
    <3> QED BY <2>1, <3>3 DEF Bills, Billed, Priced
  <2> QED BY <2>2, <2>3
<1> QED BY <1>2, <1>3, <1>4 DEF Costs

LEMMA CostsAnalytics ==
  ASSUME Runs, Versions, Versions', Costs, Untouched, NEW s \in Syncs, ReadAnalytics(s)
  PROVE  Costs'
<1>1. PICK said, bill, start : said = sync[s].report /\ bill = sync[s].bill /\ start = sync[s].start
  OBVIOUS
<1> DEFINE rows == {AdminRow(s, l) : l \in Reported(said)}
                     \union {AnalyticsRow(s, l) : l \in Reported(Of(Users))}
           mine == {r \in rows : InWindow(s, r)}
           x == [sync[s] EXCEPT !.at = "ingest", !.report = <<>>, !.bill = <<>>, !.rows = mine,
                                !.from = WindowEnd(s) - Window, !.to = WindowEnd(s)]
<1>2. /\ sync[s].at = "analytics" /\ sync' = [sync EXCEPT ![s] = x]
      /\ UNCHANGED <<truth, changedAt, usage>>
  BY <1>1 DEF ReadAnalytics, provider, base
<1>3. /\ said \in [{l \in Lines : l.holder \in ApiKeys} -> Nat]
      /\ \A l \in Lines : l.holder \in ApiKeys /\ changedAt[l] < start => said[l] = truth[l]
      /\ bill \in [{l \in Lines : l.holder \in ApiKeys} -> Nat]
      /\ \A l \in Lines : l.holder \in ApiKeys /\ changedAt[l] < start => bill[l] = truth[l]
      /\ truth \in [Lines -> Nat]
  BY <1>1, <1>2 DEF Versions, Made, Reading, Costs, Bills, Billed
<1>4. ASSUME NEW l \in Reported(said) PROVE Priced(AdminRow(s, l))
  <2>1. PICK q, g, now : q = AdminRow(s, l) /\ g = Group(l) /\ now = Of(ApiKeys)
    OBVIOUS
  <2>2. /\ q.run = start /\ GroupOf(q) = g /\ q.tokens = said[l]
        /\ q.cost = Share(Bill(bill, g), said[l], Weight(said, g))
    BY <1>1, <2>1 DEF AdminRow, GroupOf, Group
  <2>3. ASSUME \A k \in Sharing(g) : changedAt[k] < start
        PROVE  Bill(bill, g) = Bill(now, g) /\ Weight(said, g) = Weight(now, g)
    <3>1. Reports(now, g) /\ \A k \in Sharing(g) : now[k] = truth[k]
      BY <1>3, <2>1, TruthReports
    <3>2. Reports(said, g) /\ Reports(bill, g)
      BY <1>3 DEF Reports, Sharing
    <3>3. \A k \in Sharing(g) : said[k] = now[k] /\ bill[k] = now[k]
      BY <1>3, <2>3, <3>1 DEF Sharing
    <3> QED BY <3>1, <3>2, <3>3, SameBill
  <2>4. Priced(q)
    BY <2>1, <2>2, <2>3 DEF Priced
  <2> QED BY <2>1, <2>4
<1>5. ASSUME NEW l \in Reported(Of(Users)) PROVE Priced(AnalyticsRow(s, l))
  <2>1. l.holder \in Users
    BY DEF Reported, Of
  <2>2. l.holder \notin ApiKeys
    BY <2>1, ConnectorAssumption
  <2>3. AnalyticsRow(s, l).holder = l.holder
    BY DEF AnalyticsRow
  <2> QED BY <2>2, <2>3 DEF Priced
<1>6. \A q \in mine : Priced(q)
  BY <1>4, <1>5
<1>7. Field(sync[s])
  BY <1>2, SyncIs
<1> HIDE DEF mine
<1>8. x.at = "ingest" /\ x.rows = mine
  BY <1>7 DEF Field
<1>9. PICK y : y = x
  OBVIOUS
<1> HIDE DEF x
<1>10. \A q \in mine : Priced(q)'
  <2>1. Of(ApiKeys)' = Of(ApiKeys)
    BY <1>2 DEF Of
  <2> QED BY <1>2, <1>6, <2>1 DEF Priced
<1>11. Bills(y)'
  BY <1>8, <1>9, <1>10 DEF Bills
<1> QED BY <1>2, <1>9, <1>11, CostsStep

LEMMA CostsCommit ==
  ASSUME Runs, Versions, Versions', Costs, Untouched, NEW s \in Syncs, Commit(s)
  PROVE  Costs'
<1>1. PICK rows : rows = sync[s].rows
  OBVIOUS
<1>2. /\ sync[s].at = "commit" /\ usage' = usage \union rows /\ Field(sync[s])
      /\ sync' = [sync EXCEPT ![s].at = "trace", ![s].rows = {}]
  BY <1>1, SyncIs DEF Commit
<1>3. sync'[s].at = "trace" /\ \A t \in Syncs \ {s} : sync'[t] = sync[t]
  BY <1>2 DEF Runs, Field
<1>4. truth \in [Lines -> Nat] /\ truth' \in [Lines -> Nat]
  BY DEF Versions
<1>5. \A q \in rows : Priced(q) /\ q.run \in 1 .. starts
  BY <1>1, <1>2 DEF Costs, Bills, Versions, Made, Holding, Row
<1>6. \A q \in usage' : Priced(q)'
  BY <1>2, <1>4, <1>5, StillPriced DEF Costs, Versions, Row
<1>7. Keyed(usage')
  <2>1. Keyed(usage) /\ Keyed(rows) /\ New(rows)
    BY <1>1, <1>2 DEF Costs, Bills, Versions, Made
  <2>2. \A p \in usage, q \in rows : ~ SameKey(p, q) /\ ~ SameKey(q, p)
    BY <2>1 DEF New, SameKey
  <2> QED BY <1>2, <2>1, <2>2 DEF Keyed
<1>8. ASSUME NEW t \in Syncs PROVE Bills(sync[t])'
  <2>1. PICK y : y = sync'[t]
    OBVIOUS
  <2>2. CASE t = s
    BY <1>3, <2>2 DEF Bills
  <2>3. CASE t # s
    <3>1. y = sync[t]
      BY <1>3, <2>1, <2>3
    <3>2. Made(y) /\ Bills(y) /\ (y.at # "idle" => y.start \in 1 .. starts)
      BY <3>1, SyncIs DEF Versions, Costs
    <3>3. Bills(y)'
      BY <1>4, <3>2, StillBills
    <3> QED BY <2>1, <3>3 DEF Bills, Billed, Priced
  <2> QED BY <2>2, <2>3
<1> QED BY <1>6, <1>7, <1>8 DEF Costs, Keyed

LEMMA CostsNext == Runs /\ Versions /\ Versions' /\ Costs /\ [Next]_vars => Costs'
<1> SUFFICES ASSUME Runs, Versions, Versions', Costs, [Next]_vars PROVE Costs'
  OBVIOUS
<1>0. Untouched /\ DOMAIN sync = Syncs /\ truth \in [Lines -> Nat] /\ truth' \in [Lines -> Nat]
  BY UntouchedNext DEF Runs, Versions
<1>1. CASE UNCHANGED vars \/ Tomorrow \/ \E l \in Lines : Correct(l)
  <2>1. UNCHANGED <<sync, usage>>
    BY <1>1 DEF vars, Tomorrow, Correct, base
  <2>2. \A q \in usage' : Priced(q)'
    BY <1>0, <2>1, StillPriced DEF Costs, Versions, Row
  <2>3. ASSUME NEW t \in Syncs PROVE Bills(sync[t])'
    <3>1. PICK y : y = sync[t]
      OBVIOUS
    <3>2. Made(y) /\ Bills(y) /\ (y.at # "idle" => y.start \in 1 .. starts)
      BY <3>1, SyncIs DEF Versions, Costs
    <3>3. Bills(y)'
      BY <1>0, <3>2, StillBills
    <3> QED BY <2>1, <3>1, <3>3 DEF Bills, Billed, Priced
  <2> QED BY <2>1, <2>2, <2>3 DEF Costs, Keyed, SameKey
<1>2. ASSUME NEW s \in Syncs, Begin(s) \/ ReadUsage(s) \/ Fail(s) \/ Interrupt(s) \/ Trace(s) \/ Crash(s)
      PROVE  Costs'
  <2>1. usage' = usage
    BY <1>2 DEF Begin, ReadUsage, Fail, Interrupt, Trace, Crash, base
  <2>2. \E x : sync' = [sync EXCEPT ![s] = x] /\ x.at \notin {"analytics", "ingest", "commit"}
    <3>1. sync[s].at # "idle" => Field(sync[s])
      BY SyncIs
    <3>2. CASE Begin(s)
      <4>1. PICK x : x = [Idle EXCEPT !.at = "usage", !.start = starts + 1, !.day = today]
        OBVIOUS
      <4>2. x.at = "usage" /\ sync' = [sync EXCEPT ![s] = x]
        BY <3>2, <4>1 DEF Begin, Idle
      <4> QED BY <4>2
    <3>3. CASE ReadUsage(s)
      <4>1. PICK x : x = [sync[s] EXCEPT !.at = "cost", !.report = Of(ApiKeys)]
        OBVIOUS
      <4>2. x.at = "cost" /\ sync' = [sync EXCEPT ![s] = x]
        BY <3>1, <3>3, <4>1 DEF ReadUsage, Field
      <4> QED BY <4>2
    <3>4. CASE Interrupt(s)
      <4>1. PICK x : x = [sync[s] EXCEPT !.at = "trace", !.rows = {}]
        OBVIOUS
      <4>2. x.at = "trace" /\ sync' = [sync EXCEPT ![s] = x]
        BY <3>1, <3>4, <4>1 DEF Interrupt, Field
      <4> QED BY <4>2
    <3>5. CASE Trace(s) \/ Crash(s)
      <4>1. Idle.at = "idle"
        BY DEF Idle
      <4>2. sync' = [sync EXCEPT ![s] = Idle]
        BY <3>5 DEF Trace, Crash
      <4> QED BY <4>1, <4>2
    <3>6. CASE Fail(s)
      <4>1. PICK x : x = [Idle EXCEPT !.at = "trace", !.start = sync[s].start,
                            !.ingested = sync[s].ingested, !.from = sync[s].day, !.to = sync[s].day,
                            !.ok = FALSE]
        OBVIOUS
      <4>2. x.at = "trace"
        BY <4>1 DEF Idle
      <4> QED BY <3>6, <4>1, <4>2 DEF Fail
    <3> QED BY <1>2, <3>2, <3>3, <3>4, <3>5, <3>6
  <2>3. PICK x : sync' = [sync EXCEPT ![s] = x] /\ x.at \notin {"analytics", "ingest", "commit"}
    BY <2>2
  <2>4. Bills(x)'
    BY <2>3 DEF Bills
  <2> QED BY <1>0, <2>1, <2>3, <2>4, CostsStep
<1>3. ASSUME NEW s \in Syncs, ReadCost(s) PROVE Costs'
  <2>1. PICK x : x = [sync[s] EXCEPT !.at = "analytics", !.bill = Of(ApiKeys)]
    OBVIOUS
  <2>2. /\ sync[s].at = "cost" /\ sync' = [sync EXCEPT ![s] = x] /\ usage' = usage
        /\ UNCHANGED <<truth, changedAt>>
    BY <1>3, <2>1 DEF ReadCost, base, provider
  <2>3. x.at = "analytics" /\ x.bill = Of(ApiKeys)
    BY <2>1, <2>2, SyncIs DEF Field
  <2>4. Billed(x)'
    BY <1>0, <2>2, <2>3 DEF Billed, Of
  <2>5. Bills(x)'
    BY <2>3, <2>4 DEF Bills
  <2> QED BY <1>0, <2>2, <2>5, CostsStep
<1>4. ASSUME NEW s \in Syncs, Ingest(s) PROVE Costs'
  <2>1. PICK new \in Insertable(sync[s].rows) :
          sync' = [sync EXCEPT ![s].at = "commit", ![s].rows = new,
                               ![s].ingested = Counted(new, sync[s].rows)]
    BY <1>4 DEF Ingest
  <2>2. PICK n : n = Counted(new, sync[s].rows)
    OBVIOUS
  <2>3. PICK x : x = [sync[s] EXCEPT !.at = "commit", !.rows = new, !.ingested = n]
    OBVIOUS
  <2>4. /\ sync[s].at = "ingest" /\ sync' = [sync EXCEPT ![s] = x] /\ usage' = usage
        /\ UNCHANGED <<truth, changedAt>>
    BY <1>4, <2>1, <2>2, <2>3 DEF Ingest, base, provider
  <2>5. x.at = "commit" /\ x.rows = new
    BY <2>3, <2>4, SyncIs DEF Field
  <2>6. new \subseteq sync[s].rows /\ Keyed(new)
    BY <2>1 DEF Insertable, Keyed
  <2>7. \A q \in new : Priced(q) /\ q.run \in 1 .. starts
    BY <2>4, <2>6 DEF Costs, Bills, Versions, Made, Holding, Row
  <2>8. \A q \in new : Priced(q)'
    BY <1>0, <2>7, StillPriced
  <2>9. Bills(x)'
    BY <2>5, <2>6, <2>8 DEF Bills, Keyed, SameKey
  <2> QED BY <1>0, <2>4, <2>9, CostsStep
<1> QED BY <1>0, <1>1, <1>2, <1>3, <1>4, CostsAnalytics, CostsCommit DEF Next, Step

\* A share is what is billed for the tokens, up to half a unit.
LEMMA ShareIs ==
  ASSUME NEW b \in Nat, NEW t \in Nat, NEW w \in Nat, w > 0
  PROVE  LET c == Share(b, t, w) IN
         c \in Nat /\ 2 * w * c <= 2 * b * t + w /\ 2 * b * t <= 2 * w * c + w
<1>1. PICK n, d, c : n = 2 * b * t + w /\ d = 2 * w /\ c = n \div d
  OBVIOUS
<1>2. n \in Nat /\ d \in Nat /\ d > 0 /\ n = 2 * b * t + w
  BY <1>1
<1>3. c \in Nat /\ d * c <= n /\ n < d * c + d
  BY <1>1, <1>2
<1>4. d * c = 2 * w * c
  BY <1>1, <1>3
<1>5. c = Share(b, t, w)
  BY <1>1 DEF Share
<1>6. PICK x, y : x = 2 * b * t /\ y = 2 * w * c
  OBVIOUS
<1>7. x \in Nat /\ y \in Nat
  BY <1>3, <1>6
<1>8. y <= x + w /\ x + w < y + 2 * w
  BY <1>1, <1>2, <1>3, <1>4, <1>6
<1>9. y <= x + w /\ x <= y + w
  BY <1>7, <1>8
<1> QED BY <1>3, <1>5, <1>6, <1>9

\* Amounts that share a total in proportion to their weights, up to half a unit each.
LEMMA SharesAddUp ==
  ASSUME NEW R, IsFiniteSet(R), NEW b \in Nat, NEW w \in Nat, w > 0,
         NEW cost, NEW tokens,
         \A q \in R : tokens[q] \in Nat /\ cost[q] = Share(b, tokens[q], w),
         SumFunctionOnSet(tokens, R) = w
  PROVE  2 * (b - SumFunctionOnSet(cost, R)) \in -Cardinality(R) .. Cardinality(R)
<1> DEFINE paid == [q \in R |-> 2 * w * cost[q]]
           due == [q \in R |-> 2 * b * tokens[q]]
           half == [q \in R |-> w]
           more == [q \in R |-> due[q] + half[q]]
           most == [q \in R |-> paid[q] + half[q]]
<1>1. \A q \in R : /\ cost[q] \in Nat /\ tokens[q] \in Nat
                   /\ 2 * w * cost[q] <= 2 * b * tokens[q] + w
                   /\ 2 * b * tokens[q] <= 2 * w * cost[q] + w
  <2> TAKE q \in R
  <2>1. PICK t, c : t = tokens[q] /\ c = cost[q]
    OBVIOUS
  <2>2. t \in Nat /\ c = Share(b, t, w)
    BY <2>1
  <2>3. c \in Nat /\ 2 * w * c <= 2 * b * t + w /\ 2 * b * t <= 2 * w * c + w
    BY <2>2, ShareIs
  <2> QED BY <2>1, <2>2, <2>3
<1>2. \A q \in R : /\ paid[q] \in Nat /\ due[q] \in Nat /\ half[q] \in Nat
                   /\ more[q] \in Nat /\ most[q] \in Nat
                   /\ more[q] = due[q] + half[q] /\ most[q] = paid[q] + half[q]
                   /\ paid[q] = (2 * w) * cost[q] /\ due[q] = (2 * b) * tokens[q] /\ half[q] = w
                   /\ paid[q] <= more[q] /\ due[q] <= most[q]
  BY <1>1
<1> HIDE DEF paid, due, half, more, most
<1>3. PICK n, C : n = Cardinality(R) /\ C = SumFunctionOnSet(cost, R)
  OBVIOUS
<1>4. n \in Nat /\ C \in Nat
  BY <1>1, <1>3, FS_CardinalityType, SumNat
<1>5. 2 * w \in Nat /\ 2 * b \in Nat
  OBVIOUS
<1>6. SumFunctionOnSet(paid, R) = (2 * w) * C
  BY <1>1, <1>2, <1>3, <1>5, SumScale
<1>7. SumFunctionOnSet(due, R) = (2 * b) * w
  BY <1>1, <1>2, <1>5, SumScale
<1>8. SumFunctionOnSet(half, R) = w * n
  BY <1>2, <1>3, SumOfOnes
<1>9. SumFunctionOnSet(more, R) = (2 * b) * w + w * n
  BY <1>2, <1>7, <1>8, SumPlus
<1>10. SumFunctionOnSet(most, R) = (2 * w) * C + w * n
  BY <1>2, <1>6, <1>8, SumPlus
<1>11. (2 * w) * C <= (2 * b) * w + w * n
  BY <1>2, <1>6, <1>9, SumAtMost
<1>12. (2 * b) * w <= (2 * w) * C + w * n
  BY <1>2, <1>7, <1>10, SumAtMost
<1>13. 2 * C <= 2 * b + n
  <2>1. w * (2 * C) <= w * (2 * b + n)
    BY <1>4, <1>11
  <2> QED BY <1>4, <2>1, Cancel
<1>14. 2 * b <= 2 * C + n
  <2>1. w * (2 * b) <= w * (2 * C + n)
    BY <1>4, <1>12
  <2> QED BY <1>4, <2>1, Cancel
<1>15. 2 * (b - C) \in -n .. n
  BY <1>4, <1>13, <1>14
<1> QED BY <1>3, <1>15

\* The newest rows of the API keys for a group.
RowsOf(g) == {q \in Newest(usage) : q.holder \in ApiKeys
                                    /\ <<q.day, WorkspaceOf[q.holder], q.model>> = g}

\* When a run covered a group that was settled, its rows are those of its lines, one each, with
\* their tokens and their share of the bill.
LEMMA RowsAreLines ==
  ASSUME Runs, Versions, Costs, NEW r \in runs, NEW g,
         \A l \in Sharing(g) : Settled(l, r) /\ (truth[l] > 0 => Alone(l)),
         NoneWithdrawn(Sharing(g), RowsOf(g))
  PROVE  /\ \A l \in Sharing(g) : truth[l] > 0 => \E q \in RowsOf(g) : About(q, l)
         /\ \A q \in RowsOf(g) : \E l \in Sharing(g) :
              /\ About(q, l) /\ truth[l] > 0 /\ q.tokens = truth[l]
              /\ \A k \in Sharing(g) : truth[k] > 0 /\ About(q, k) => k = l
         /\ \A p, q \in RowsOf(g), l \in Lines : About(p, l) /\ About(q, l) => p = q
         /\ \A q \in RowsOf(g) :
              q.cost = Share(Bill(Of(ApiKeys), g), q.tokens, Weight(Of(ApiKeys), g))
<1>0. r.id \in 1 .. starts /\ starts \in Nat /\ truth \in [Lines -> Nat]
      /\ \A l \in Lines : changedAt[l] \in Nat
  BY DEF Runs, Traced, Versions
<1>1. ASSUME NEW l \in Sharing(g), truth[l] > 0
      PROVE  \E p \in usage : About(p, l) /\ p.snap = SnapOf(r.id)
  <2>1. l \in Lines /\ changedAt[l] < r.id /\ l.day \in r.from .. r.to
        /\ Covers(usage, r.id, r.from, r.to)
    BY DEF Settled, Versions, Lasting, Sharing
  <2> QED BY <1>1, <2>1 DEF Covers
<1>2. ASSUME NEW l \in Sharing(g), truth[l] > 0 PROVE \E q \in RowsOf(g) : About(q, l)
  <2>1. l \in Lines /\ l.holder \in ApiKeys /\ Group(l) = g
    BY DEF Sharing
  <2>2. PICK q \in Newest(usage) : About(q, l)
    BY <1>1, <1>2, <2>1, NewestIs
  <2>3. q \in RowsOf(g)
    BY <2>1, <2>2 DEF RowsOf, About, Group
  <2> QED BY <2>2, <2>3
\* Each row is of a line, and of a run that began no sooner.
<1>3. ASSUME NEW q \in RowsOf(g)
      PROVE  /\ \E l \in Sharing(g) : /\ About(q, l) /\ truth[l] > 0 /\ q.tokens = truth[l]
                                      /\ \A k \in Sharing(g) : truth[k] > 0 /\ About(q, k) => k = l
             /\ \A l \in Sharing(g) : changedAt[l] < q.run
  <2>1. q \in Newest(usage) /\ q \in usage /\ Row(q) /\ q.holder \in ApiKeys
        /\ <<q.day, WorkspaceOf[q.holder], q.model>> = g
    BY DEF RowsOf, Newest, Versions
  <2>2. PICK l \in Sharing(g) : l.holder = q.holder /\ truth[l] > 0
    BY DEF NoneWithdrawn
  <2>3. l \in Lines /\ <<l.day, WorkspaceOf[l.holder], ModelOf[l.name]>> = g
    BY DEF Sharing, Group
  <2>4. About(q, l)
    BY <2>1, <2>2, <2>3 DEF About
  <2>5. PICK p \in usage : About(p, l) /\ p.snap = SnapOf(r.id)
    BY <1>1, <2>2
  <2>6. ~ (p.snap > q.snap)
    BY <2>1, <2>4, <2>5 DEF Newest, About
  <2>7. ASSUME NEW k \in Sharing(g) PROVE changedAt[k] < q.run
    <3>1. k \in Lines /\ changedAt[k] < r.id /\ changedAt[k] \in Nat
      BY <1>0 DEF Sharing, Settled
    <3>2. CASE fixtures
      BY <2>1, <3>1, <3>2 DEF Row, Versions
    <3>3. CASE ~ fixtures
      BY <1>0, <2>1, <2>5, <2>6, <3>1, <3>3 DEF Row, SnapOf
    <3> QED BY <3>2, <3>3
  <2>8. PICK k \in Lines : /\ About(q, k) /\ q.tokens > 0
                           /\ changedAt[k] < q.run => q.tokens = truth[k]
    BY <2>1 DEF Row
  <2>9. k \in Sharing(g) /\ k.day = l.day /\ k.holder = l.holder /\ Group(k) = Group(l)
    BY <2>1, <2>3, <2>4, <2>8 DEF Sharing, About, Group
  <2>10. truth[k] > 0 /\ q.tokens = truth[k]
    BY <2>7, <2>8, <2>9
  <2>11. k = l
    <3>1. Alone(l)
      BY <2>2
    <3> QED BY <1>0, <2>8, <2>9, <2>10, <3>1 DEF Alone
  <2>12. ASSUME NEW j \in Sharing(g), truth[j] > 0, About(q, j) PROVE j = l
    <3>1. Alone(l) /\ j \in Lines /\ j.day = l.day /\ j.holder = l.holder /\ Group(j) = Group(l)
      BY <2>2, <2>4, <2>12 DEF About, Sharing
    <3> QED BY <2>12, <3>1 DEF Alone
  <2> QED BY <2>2, <2>4, <2>7, <2>10, <2>11, <2>12
<1>4. ASSUME NEW p \in RowsOf(g), NEW q \in RowsOf(g), NEW l \in Lines, About(p, l), About(q, l)
      PROVE  p = q
  <2>1. /\ p \in usage /\ q \in usage /\ Row(p) /\ Row(q)
        /\ ~ (p.snap > q.snap) /\ ~ (q.snap > p.snap)
    BY <1>4 DEF RowsOf, Newest, About, Versions
  <2>2. p.snap = q.snap
    BY <1>0, <2>1, FixtureSnapIs DEF Row, SnapOf
  <2>3. SameKey(p, q)
    BY <1>4, <2>2 DEF SameKey, About
  <2> QED BY <2>1, <2>3 DEF Costs, Keyed
<1>5. ASSUME NEW q \in RowsOf(g)
      PROVE  q.cost = Share(Bill(Of(ApiKeys), g), q.tokens, Weight(Of(ApiKeys), g))
  <2>1. q \in usage /\ q.holder \in ApiKeys /\ GroupOf(q) = g /\ Priced(q)
    BY DEF RowsOf, Newest, Costs, GroupOf
  <2> QED BY <1>3, <2>1 DEF Priced
<1> QED BY <1>2, <1>3, <1>4, <1>5

\* What a group is billed is what its rows share.
LEMMA GroupIsShared ==
  ASSUME Tallied, Runs, Versions, Costs, NEW r \in runs, NEW g,
         \A l \in Sharing(g) : Settled(l, r) /\ (truth[l] > 0 => Alone(l)),
         NoneWithdrawn(Sharing(g), RowsOf(g))
  PROVE  2 * (Bill([l \in Sharing(g) |-> truth[l]], g) - SumFunction([q \in RowsOf(g) |-> q.cost]))
           \in -Cardinality(RowsOf(g)) .. Cardinality(RowsOf(g))
<1>1. PICK R, f, now : /\ R = RowsOf(g) /\ f = [l \in Sharing(g) |-> truth[l]]
                       /\ now = Of(ApiKeys)
  OBVIOUS
<1> DEFINE L == Positive(f, g)
           row == [l \in L |-> CHOOSE q \in R : About(q, l)]
           tokens == [q \in R |-> q.tokens]
           cost == [q \in R |-> q.cost]
<1>2. truth \in [Lines -> Nat]
  BY DEF Versions
<1>3. Reports(f, g) /\ \A l \in Sharing(g) : f[l] = truth[l]
  BY <1>1, <1>2 DEF Reports, Sharing
<1>4. Reports(now, g) /\ \A l \in Sharing(g) : now[l] = truth[l]
  BY <1>1, <1>2, TruthReports
<1>5. PICK b, w : b = Bill(f, g) /\ w = Weight(f, g)
  OBVIOUS
<1>6. b = Bill(now, g) /\ w = Weight(now, g)
  BY <1>3, <1>4, <1>5, SameBill
<1>7. IsFiniteSet(R)
  <2>1. R \in SUBSET usage
    BY <1>1 DEF RowsOf, Newest
  <2> QED BY <2>1, FS_Subset DEF Tallied, Finite
<1>8. /\ \A l \in L : l \in Sharing(g) /\ truth[l] > 0 /\ f[l] = truth[l]
      /\ \A l \in Sharing(g) : truth[l] > 0 => l \in L
  BY <1>3 DEF Positive
<1>9. /\ \A l \in L : \E q \in R : About(q, l)
      /\ \A q \in R : \E l \in L : /\ About(q, l) /\ q.tokens = f[l]
                                   /\ \A k \in L : About(q, k) => k = l
      /\ \A p, q \in R, l \in L : About(p, l) /\ About(q, l) => p = q
      /\ \A q \in R : q.cost = Share(b, q.tokens, w)
  <2>1. \A l \in L : l \in Lines
    BY <1>8 DEF Sharing
  <2>2. /\ \A l \in Sharing(g) : truth[l] > 0 => \E q \in R : About(q, l)
        /\ \A q \in R : \E l \in Sharing(g) :
              /\ About(q, l) /\ truth[l] > 0 /\ q.tokens = truth[l]
              /\ \A k \in Sharing(g) : truth[k] > 0 /\ About(q, k) => k = l
        /\ \A p, q \in R, l \in Lines : About(p, l) /\ About(q, l) => p = q
        /\ \A q \in R : q.cost = Share(b, q.tokens, w)
    BY <1>1, <1>6, RowsAreLines
  <2> HIDE DEF L
  <2>3. \A q \in R : \E l \in L : /\ About(q, l) /\ q.tokens = f[l]
                                  /\ \A k \in L : About(q, k) => k = l
    BY <1>8, <2>2
  <2> QED BY <1>8, <2>1, <2>2, <2>3
<1>10. /\ b = SumFunctionOnSet(Amount(f), L) /\ w = SumFunctionOnSet(f, L) /\ IsFiniteSet(L)
       /\ \A l \in L : f[l] \in Nat /\ Amount(f)[l] \in Nat
  BY <1>3, <1>5, BillIs
<1> HIDE DEF L
<1>11. b \in Nat /\ w \in Nat
  BY <1>10, SumNat
<1>12. \A l \in L : row[l] \in R /\ About(row[l], l)
  BY <1>9
<1>13. ASSUME NEW q \in R
       PROVE  tokens[q] \in Nat /\ tokens[q] = q.tokens /\ tokens[q] = SumFunctionOnSet(f, Having(L, row, {q}))
  <2>1. PICK l \in L : /\ About(q, l) /\ q.tokens = f[l] /\ \A k \in L : About(q, k) => k = l
    BY <1>9
  <2>2. \A k \in L : row[k] = q <=> k = l
    <3> HIDE DEF row
    <3> QED BY <1>9, <1>12, <2>1
  <2>3. Having(L, row, {q}) = {l}
    <3> HIDE DEF row
    <3> QED BY <2>2 DEF Having
  <2>4. SumFunctionOnSet(f, {l}) = f[l] /\ f[l] \in Nat
    BY <1>10, SumOne
  <2> HIDE DEF row
  <2> QED BY <2>1, <2>3, <2>4
<1>14. Having(L, row, R) = L
  <2> HIDE DEF row
  <2> QED BY <1>12 DEF Having
<1> HIDE DEF row
<1>15. SumFunctionOnSet(tokens, R) = w
  <2> HIDE DEF tokens
  <2>1. Grouped(f, L, row, R, tokens)
    BY <1>13 DEF Grouped
  <2>2. SumFunctionOnSet(tokens, R) = SumFunctionOnSet(f, Having(L, row, R))
    BY <1>7, <1>10, <2>1, SumByGroups
  <2> QED BY <1>10, <1>14, <2>2
<1>16. SumFunction([q \in RowsOf(g) |-> q.cost]) = SumFunctionOnSet(cost, R)
  BY <1>1 DEF SumFunction
<1>17. \A q \in R : cost[q] = Share(b, tokens[q], w)
  BY <1>9
<1> HIDE DEF tokens, cost
<1>18. CASE w > 0
  <2>1. \A q \in R : tokens[q] \in Nat /\ cost[q] = Share(b, tokens[q], w)
    BY <1>13, <1>17
  <2>2. 2 * (b - SumFunctionOnSet(cost, R)) \in -Cardinality(R) .. Cardinality(R)
    BY <1>7, <1>11, <1>15, <1>18, <2>1, SharesAddUp
  <2> QED BY <1>1, <1>5, <1>16, <2>2
<1>19. CASE w = 0
  <2>1. L = {}
    <3> SUFFICES ASSUME NEW l \in L PROVE FALSE
      OBVIOUS
    <3>1. f[l] > 0 /\ f[l] \in Nat
      BY <1>8, <1>10
    <3>2. w = f[l] + SumFunctionOnSet(f, L \ {l}) /\ SumFunctionOnSet(f, L \ {l}) \in Nat
      BY <1>10, SumRemove
    <3> QED BY <1>19, <3>1, <3>2
  <2>2. R = {}
    BY <1>9, <2>1
  <2>3. b = 0 /\ SumFunctionOnSet(cost, R) = 0 /\ Cardinality(R) = 0
    BY <1>10, <2>1, <2>2, SumEmpty, FS_EmptySet
  <2>4. 2 * (b - SumFunctionOnSet(cost, R)) \in -Cardinality(R) .. Cardinality(R)
    BY <2>3
  <2> QED BY <1>1, <1>5, <1>16, <2>4
<1> QED BY <1>11, <1>18, <1>19

\* What is billed for a workspace, a day and a model is what its API keys share, up to half
\* a unit each (normalize.py:115-165): nothing is billed twice nor dropped by the proration,
\* whatever the provider corrected between the reading of the tokens and that of the costs.
THEOREM BillsAreShared == Spec => []BillIsShared
<1>1. Tallied /\ Runs /\ Versions /\ Costs => BillIsShared
  <2> SUFFICES ASSUME Tallied, Runs, Versions, Costs, NEW r \in runs, NEW g,
                      \A l \in Sharing(g) : Settled(l, r) /\ (truth[l] > 0 => Alone(l)),
                      NoneWithdrawn(Sharing(g), RowsOf(g))
               PROVE  2 * (Bill([l \in Sharing(g) |-> truth[l]], g)
                             - SumFunction([q \in RowsOf(g) |-> q.cost]))
                        \in -Cardinality(RowsOf(g)) .. Cardinality(RowsOf(g))
    BY DEF BillIsShared, Sharing, RowsOf
  <2> QED BY GroupIsShared
<1> QED BY <1>1, RunsInit, RunsNext, VersionsInit, VersionsNext, TalliedInit, TalliedNext,
           CostsInit, CostsNext, PTL DEF Spec
=============================================================================
