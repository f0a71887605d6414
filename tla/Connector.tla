------------------------------ MODULE Connector ------------------------------
(***************************************************************************)
(* The connector: connector/sync.py pulls what the provider reports of the *)
(* last days, normalises it and inserts it in usage_daily, version by      *)
(* version, while the provider goes on correcting the past.                *)
(*                                                                         *)
(* A line of a report is one (day, holder, name): the holder is an API key *)
(* (Usage and Cost reports) or a user (Analytics), the name is the         *)
(* provider's name of a model.  The amount 0 is a line the report does not *)
(* have.  A cost of 0 stands for the NULL of cost_usd, which the           *)
(* aggregation counts as 0; the run of a row stands for its serial number, *)
(* which tells it from the same row inserted again.                        *)
(***************************************************************************)
EXTENDS Integers, FiniteSets, FiniteSetsExt

CONSTANTS
  LastDay, Window,        \* days 1..LastDay; WINDOW_DAYS
  ApiKeys, Users, WorkspaceOf,
  Names, ModelOf, Unknown,  \* MODEL_NAME_MAP, Unknown for a name it lacks
  Price,                  \* what a token of an API key is billed on average
  Modes,                  \* whether runs may be given --fixtures
  Initials,               \* what the provider may report at first
  Amounts,                \* what it may correct a line to
  Syncs,                  \* processes that may run python -m connector.sync
  MaxStarts, MaxChanges   \* bounds: runs, corrections

Days == 1 .. LastDay
Holders == ApiKeys \union Users
Lines == [day: Days, holder: Holders, name: Names]
Models == {ModelOf[n] : n \in Names} \ {Unknown}

ASSUME ConnectorAssumption ==
  /\ LastDay \in Nat /\ Window \in Nat /\ MaxStarts \in Nat /\ MaxChanges \in Nat
  /\ IsFiniteSet(ApiKeys) /\ IsFiniteSet(Users) /\ IsFiniteSet(Names)
  /\ ApiKeys \intersect Users = {}   \* a row has an api_key_id or a user_id, never both
  /\ Modes \subseteq BOOLEAN /\ Amounts \subseteq Nat
  /\ Initials \subseteq [Lines -> Nat]
  /\ Price \in [ApiKeys -> Nat]

VARIABLES
  fixtures,   \* TRUE: every run is given --fixtures
  today, truth, changes,
  starts,     \* runs begun so far: the clock of snapshots
  sync,       \* the run of each process
  org,        \* the row of orgs exists
  usage,      \* usage_daily, committed
  runs,       \* sync_runs
  changedAt,  \* history: value of starts when a line was last corrected
  wrote       \* history: rows each run committed, NotCommitted if it did not

provider == <<fixtures, today, truth, changes, changedAt>>
base == <<org, usage, runs, wrote>>
vars == <<provider, starts, sync, base>>

Idle == [at |-> "idle", start |-> 0, day |-> 0, report |-> <<>>, bill |-> <<>>, rows |-> {},
         from |-> 0, to |-> 0, ingested |-> 0, ok |-> TRUE]

NotCommitted == -1

Init ==
  /\ fixtures \in Modes /\ org \in BOOLEAN
  /\ today \in Days /\ (fixtures => today = LastDay)
  /\ truth \in Initials /\ \A l \in Lines : l.day > today => truth[l] = 0
  /\ changes = 0 /\ starts = 0
  /\ sync = [s \in Syncs |-> Idle]
  /\ usage = {} /\ runs = {}
  /\ changedAt = [l \in Lines |-> 0]
  /\ wrote = [r \in 1 .. MaxStarts |-> NotCommitted]

-----------------------------------------------------------------------------
(* The provider.  Fixtures are committed files: they do not change. *)

Correct(l) ==
  /\ ~fixtures /\ changes < MaxChanges /\ l.day <= today
  /\ \E a \in Amounts \ {truth[l]} : truth' = [truth EXCEPT ![l] = a]
  /\ changes' = changes + 1
  /\ changedAt' = [changedAt EXCEPT ![l] = starts]
  /\ UNCHANGED <<fixtures, today, starts, sync, base>>

Tomorrow ==
  /\ ~fixtures /\ today < LastDay
  /\ today' = today + 1
  /\ UNCHANGED <<fixtures, truth, changes, changedAt, starts, sync, base>>

-----------------------------------------------------------------------------
(* Normalisation: from the lines of the reports to rows of usage_daily. *)

Reported(report) == {l \in DOMAIN report : report[l] > 0}

Group(l) == <<l.day, WorkspaceOf[l.holder], ModelOf[l.name]>>

\* What the Cost report bills: per day, workspace and name, summed by model.
Bill(report, g) ==
  SumFunctionOnSet([l \in DOMAIN report |-> Price[l.holder] * report[l]],
                   {l \in Reported(report) : Group(l) = g})

Weight(report, g) == SumFunctionOnSet(report, {l \in Reported(report) : Group(l) = g})

\* Every key is billed what its workspace is.
MutShare(amount, weight, total) == amount

\* round(amount * weight / total)
Share(amount, weight, total) == (2 * amount * weight + total) \div (2 * total)

\* The snapshot is taken when the rows are made.
MutSnapshot(s) == IF fixtures THEN LastDay + 1 ELSE starts

\* The snapshot of a run: its start; with fixtures, the end of the last day they hold.
Snapshot(s) == IF fixtures THEN Max({l.day : l \in Reported(sync[s].report)} \union {0}) + 1
               ELSE sync[s].start

WindowEnd(s) == IF fixtures THEN Snapshot(s) - 1 ELSE sync[s].day

AdminRow(s, l) ==
  LET report == sync[s].report IN
  [day |-> l.day, holder |-> l.holder, model |-> ModelOf[l.name], tokens |-> report[l],
   cost |-> Share(Bill(sync[s].bill, Group(l)), report[l], Weight(report, Group(l))),
   snap |-> Snapshot(s), run |-> sync[s].start]

AnalyticsRow(s, l) ==
  [day |-> l.day, holder |-> l.holder, model |-> ModelOf[l.name], tokens |-> truth[l],
   cost |-> 0, snap |-> Snapshot(s), run |-> sync[s].start]

InWindow(s, row) == WindowEnd(s) - Window <= row.day /\ row.day <= WindowEnd(s)

\* map_model raises on a name the map does not have.
Mapped(lines) == \A l \in lines : ModelOf[l.name] # Unknown

\* The columns a row lacks are NULL, and NULLs are distinct.
MutSameKey(p, q) == FALSE

\* The UNIQUE constraint, whose columns hold '' and never NULL.
SameKey(p, q) == /\ p.day = q.day /\ p.holder = q.holder
                 /\ p.model = q.model /\ p.snap = q.snap

-----------------------------------------------------------------------------
(* A run.  The three reports are read one after the other, page by page. *)

Of(holders) == [l \in {k \in Lines : k.holder \in holders} |-> truth[l]]

Begin(s) ==
  /\ sync[s].at = "idle" /\ starts < MaxStarts
  /\ starts' = starts + 1
  /\ sync' = [sync EXCEPT ![s] = [Idle EXCEPT !.at = "usage", !.start = starts + 1, !.day = today]]
  /\ UNCHANGED <<provider, base>>

ReadUsage(s) ==
  /\ sync[s].at = "usage"
  /\ fixtures => Reported(Of(ApiKeys)) # {}
  /\ sync' = [sync EXCEPT ![s].at = "cost", ![s].report = Of(ApiKeys)]
  /\ UNCHANGED <<provider, starts, base>>

ReadCost(s) ==
  /\ sync[s].at = "cost"
  /\ sync' = [sync EXCEPT ![s].at = "analytics", ![s].bill = Of(ApiKeys)]
  /\ UNCHANGED <<provider, starts, base>>

ReadAnalytics(s) ==
  /\ sync[s].at = "analytics"
  /\ Mapped(Reported(sync[s].report) \union Reported(sync[s].bill) \union Reported(Of(Users)))
  /\ LET rows == {AdminRow(s, l) : l \in Reported(sync[s].report)}
                   \union {AnalyticsRow(s, l) : l \in Reported(Of(Users))}
     IN sync' = [sync EXCEPT ![s].at = "ingest", ![s].report = <<>>, ![s].bill = <<>>,
                             ![s].rows = {r \in rows : InWindow(s, r)},
                             ![s].from = WindowEnd(s) - Window, ![s].to = WindowEnd(s)]
  /\ UNCHANGED <<provider, starts, base>>

\* Rows a transaction inserted and did not commit yet: another inserting the same key waits.
Pending(s) == UNION {sync[t].rows : t \in {u \in Syncs \ {s} : sync[u].at = "commit"}}

\* ON CONFLICT DO NOTHING: of the rows of one key, the first, unless the table holds one.
Insertable(rows) ==
  LET fresh == {r \in rows : ~ \E q \in usage : SameKey(q, r)} IN
  {new \in SUBSET fresh : /\ \A p, q \in new : SameKey(p, q) => p = q
                         /\ \A r \in fresh \ new : \E q \in new : SameKey(q, r)}

\* The rows seen are counted, those already there too.
MutCounted(new, seen) == Cardinality(seen)

\* rowcount: 1 for a row inserted, 0 for a conflict.
Counted(new, seen) == Cardinality(new)

\* _ensure_org: the organisation exists, or the fixtures create it in this transaction.
EnsureOrg == org \/ fixtures

Ingest(s) ==
  /\ sync[s].at = "ingest" /\ EnsureOrg
  /\ ~ \E r \in sync[s].rows, q \in Pending(s) : SameKey(q, r)
  /\ \E new \in Insertable(sync[s].rows) :
       sync' = [sync EXCEPT ![s].at = "commit", ![s].rows = new, ![s].ingested = Counted(new, sync[s].rows)]
  /\ UNCHANGED <<provider, starts, base>>

Commit(s) ==
  /\ sync[s].at = "commit"
  /\ usage' = usage \union sync[s].rows
  /\ org' = TRUE
  /\ wrote' = [wrote EXCEPT ![sync[s].start] = Cardinality(sync[s].rows)]
  /\ sync' = [sync EXCEPT ![s].at = "trace", ![s].rows = {}]
  /\ UNCHANGED <<provider, starts, runs>>

\* Any exception of the try: the transaction is rolled back, the count of rows is kept.
Fail(s) ==
  /\ sync[s].at \in {"usage", "cost", "analytics", "ingest", "commit"}
  /\ sync' = [sync EXCEPT ![s] = [Idle EXCEPT !.at = "trace", !.start = sync[s].start,
                !.ingested = sync[s].ingested, !.from = sync[s].day, !.to = sync[s].day, !.ok = FALSE]]
  /\ UNCHANGED <<provider, starts, base>>

\* Ctrl-C once the window is known: the transaction is rolled back, and no except says that
\* the run failed.  Before that the finally itself fails, which is Crash.
Interrupt(s) ==
  /\ sync[s].at \in {"ingest", "commit"}
  /\ sync' = [sync EXCEPT ![s].at = "trace", ![s].rows = {}]
  /\ UNCHANGED <<provider, starts, base>>

\* The finally: the row of sync_runs, in a transaction of its own.
Trace(s) ==
  /\ sync[s].at = "trace"
  /\ runs' = runs \union {[id |-> sync[s].start, ok |-> sync[s].ok, ingested |-> sync[s].ingested,
                           from |-> sync[s].from, to |-> sync[s].to]}
  /\ sync' = [sync EXCEPT ![s] = Idle]
  /\ UNCHANGED <<provider, starts, org, usage, wrote>>

\* The process is killed, or the insertion of the trace fails.
Crash(s) ==
  /\ sync[s].at # "idle"
  /\ sync' = [sync EXCEPT ![s] = Idle]
  /\ UNCHANGED <<provider, starts, base>>

Step(s) == \/ Begin(s) \/ ReadUsage(s) \/ ReadCost(s) \/ ReadAnalytics(s)
           \/ Ingest(s) \/ Commit(s) \/ Fail(s) \/ Interrupt(s) \/ Trace(s) \/ Crash(s)

Next == Tomorrow \/ (\E l \in Lines : Correct(l)) \/ (\E s \in Syncs : Step(s))

Spec == Init /\ [][Next]_vars

-----------------------------------------------------------------------------
(* Properties. *)

\* The types of the variables (contracts/db_schema.sql for the tables).
TypeOK ==
  /\ fixtures \in BOOLEAN /\ org \in BOOLEAN /\ today \in Days
  /\ truth \in [Lines -> Nat] /\ changes \in 0 .. MaxChanges /\ starts \in 0 .. MaxStarts
  /\ \A s \in Syncs : /\ sync[s].at \in {"idle", "usage", "cost", "analytics", "ingest",
                                            "commit", "trace"}
                      /\ sync[s].start \in 0 .. starts /\ sync[s].ingested \in Nat
  /\ \A r \in usage : r.day \in Days /\ r.holder \in Holders /\ r.model \in Models
                     /\ r.tokens \in Nat
  /\ \A r \in runs : r.id \in 1 .. starts /\ r.ok \in BOOLEAN
  /\ changedAt \in [Lines -> 0 .. starts] /\ wrote \in [1 .. MaxStarts -> Nat \union {NotCommitted}]

\* The rows a reader of usage_daily should take: of each key, those of no older snapshot.
Newest(rows) == {r \in rows : ~ \E q \in rows : /\ q.day = r.day /\ q.holder = r.holder
                                               /\ q.model = r.model /\ q.snap > r.snap}

Committed(r) == wrote[r.id] # NotCommitted

\* The only name under which the holder used the model that day.
Alone(l) == \A k \in Lines : (k.day = l.day /\ k.holder = l.holder /\ Group(k) = Group(l) /\ k # l)
                              => truth[k] = 0

\* Corrected before run r began, in a day r covers.
Settled(l, r) == /\ Committed(r) /\ l.day \in r.from .. r.to
                 /\ \A k \in Lines : Group(k) = Group(l) /\ k.holder = l.holder
                                     => changedAt[k] < r.id

\* What the provider had settled when a run that committed began is what the latest snapshot
\* says, whatever runs overlapped it, in whatever order they read and committed, and
\* whatever the provider corrected while they read (sync.py:142-182, the versions of rule 6).
LatestIsTruth ==
  \A r \in runs, l \in Lines :
    Settled(l, r) /\ truth[l] > 0 /\ Alone(l) =>
      {q.tokens : q \in {p \in Newest(usage) : /\ p.day = l.day /\ p.holder = l.holder
                                              /\ p.model = ModelOf[l.name]}} = {truth[l]}

\* No row is left of a line that the provider withdrew.
NoneWithdrawn(lines, rows) ==
  \A q \in rows : \E l \in lines : l.holder = q.holder /\ truth[l] > 0

\* What is billed for a workspace, a day and a model is what its API keys share, up to half
\* a unit each (normalize.py:115-165): nothing is billed twice nor dropped by the proration.
BillIsShared ==
  \A r \in runs, g \in {Group(l) : l \in {k \in Lines : k.holder \in ApiKeys}} :
    LET lines == {l \in Lines : l.holder \in ApiKeys /\ Group(l) = g}
        rows == {q \in Newest(usage) : /\ q.holder \in ApiKeys
                                       /\ <<q.day, WorkspaceOf[q.holder], q.model>> = g}
        billed == Bill([l \in lines |-> truth[l]], g)
        shared == SumFunction([q \in rows |-> q.cost])
    IN (\A l \in lines : Settled(l, r) /\ (truth[l] > 0 => Alone(l))) /\ NoneWithdrawn(lines, rows)
       => 2 * (billed - shared) \in -Cardinality(rows) .. Cardinality(rows)

\* Once a run of the fixtures was committed, running them again changes nothing, even two at
\* once (sync.py:8-10, "deux executions produisent le MEME etat final").
Idempotent == [][fixtures /\ (\E r \in runs : Committed(r)) => usage' = usage]_vars

\* The trace of a run that committed says so, and counts the rows that this run, and no
\* other, added to usage_daily (sync.py:163-165, 180-200).
TraceIsTrue == \A r \in runs : Committed(r) => r.ok /\ r.ingested = wrote[r.id]
=============================================================================
