------------------------------ MODULE Warehouse ------------------------------
(***************************************************************************)
(* The warehouse: Connector, with the commands that read what it ingests.  *)
(* warehouse/aggregate.py recomputes monthly_agg for a month in one        *)
(* transaction; report/generate.py reads it, one query after the other.    *)
(* Both run under READ COMMITTED: a statement sees what was committed when *)
(* it began, a DELETE waits for rows another transaction is deleting and   *)
(* then skips them, an INSERT waits for a key another one is inserting.    *)
(***************************************************************************)
EXTENDS Connector

CONSTANTS
  MonthOf,                \* the month of a day
  Aggregators,            \* processes that may run aggregate.py
  MaxAggregations, MaxReports

Months == {MonthOf[d] : d \in Days}
ASSUME WarehouseAssumption == MaxAggregations \in Nat /\ MaxReports \in Nat

VARIABLES
  monthly,      \* monthly_agg, committed
  agg,          \* the transaction of each aggregator
  aggregations, reports,
  report,       \* the report in progress
  fresh,        \* history: no ingestion was committed since the month was read
  undisturbed   \* history: the month did not change while the report read it

accounts == <<monthly, agg, aggregations, fresh>>
reading == <<report, reports, undisturbed>>
wvars == <<vars, accounts, reading>>

Resting == [at |-> "idle", by |-> 0, month |-> 0, rows |-> {}, target |-> {}, fresh |-> TRUE]
NoReport == [at |-> "idle", month |-> 0, models |-> 0, workspaces |-> 0, total |-> 0]

WInit ==
  /\ Init
  /\ monthly = {} /\ agg = [a \in Aggregators |-> Resting] /\ aggregations = 0
  /\ fresh = [m \in Months |-> FALSE]
  /\ report = NoReport /\ reports = 0 /\ undisturbed = TRUE

-----------------------------------------------------------------------------
(* Aggregation. *)

\* Every snapshot of a key counts.
MutLatestOf(rows) == rows

\* DISTINCT ON the logical key, the latest snapshot first.
LatestOf(rows) == {r \in rows : \A q \in rows : (/\ q.day = r.day /\ q.holder = r.holder
                                                 /\ q.model = r.model) => q.snap <= r.snap}

Dimensions == {"total", "model", "workspace", "api_key", "user"}

\* The columns a row lacks hold '', which is a value of the dimension like another.
DimValue(dim, row) ==
  CASE dim = "total" -> "*"
    [] dim = "model" -> row.model
    [] dim = "workspace" -> WorkspaceOf[row.holder]
    [] dim = "api_key" -> IF row.holder \in ApiKeys THEN row.holder ELSE ""
    [] dim = "user" -> IF row.holder \in Users THEN row.holder ELSE ""

Tokens(rows) == SumFunction([r \in rows |-> r.tokens])
Cost(rows) == SumFunction([r \in rows |-> r.cost])

AggRows(month, by, rows) ==
  LET latest == LatestOf({r \in rows : MonthOf[r.day] = month})
      of(dim, v) == {r \in latest : DimValue(dim, r) = v}
  IN UNION {{[month |-> month, dim |-> dim, value |-> v, tokens |-> Tokens(of(dim, v)),
              cost |-> Cost(of(dim, v)), by |-> by] : v \in {DimValue(dim, r) : r \in latest}}
            : dim \in Dimensions}

Read(a) ==
  /\ agg[a].at = "idle" /\ aggregations < MaxAggregations
  /\ aggregations' = aggregations + 1
  /\ \E month \in Months :
       agg' = [agg EXCEPT ![a] = [Resting EXCEPT !.at = "delete", !.by = aggregations + 1,
                !.month = month, !.rows = AggRows(month, aggregations + 1, usage)]]
  /\ UNCHANGED <<vars, monthly, fresh, reading>>

\* The DELETE begins: the rows it will see.
Delete(a) ==
  /\ agg[a].at = "delete"
  /\ agg' = [agg EXCEPT ![a].at = "deleting",
                        ![a].target = {r \in monthly : r.month = agg[a].month}]
  /\ UNCHANGED <<vars, monthly, aggregations, fresh, reading>>

Locked(a) == UNION {agg[b].target : b \in {c \in Aggregators \ {a} : agg[c].at \in {"insert", "commit"}}}

\* The DELETE is committed on its own.
MutDeleted(a) ==
  /\ agg[a].at = "deleting" /\ agg[a].target \intersect Locked(a) = {}
  /\ monthly' = monthly \ agg[a].target
  /\ agg' = [agg EXCEPT ![a].at = "insert", ![a].target = {}]
  /\ UNCHANGED <<vars, aggregations, fresh, reading>>

\* The rows it sees are its own: those another one deleted meanwhile are skipped.
Deleted(a) ==
  /\ agg[a].at = "deleting" /\ agg[a].target \intersect Locked(a) = {}
  /\ agg' = [agg EXCEPT ![a].at = "insert", ![a].target = @ \intersect monthly]
  /\ UNCHANGED <<vars, monthly, aggregations, fresh, reading>>

\* No primary key.
MutClash(p, q) == FALSE

\* The primary key of monthly_agg.
Clash(p, q) == p.month = q.month /\ p.dim = q.dim /\ p.value = q.value

Inserting(a) == UNION {agg[b].rows : b \in {c \in Aggregators \ {a} : agg[c].at = "commit"}}

Insert(a) ==
  /\ agg[a].at = "insert"
  /\ ~ \E r \in agg[a].rows, q \in Inserting(a) : Clash(r, q)
  /\ ~ \E r \in agg[a].rows, q \in monthly \ agg[a].target : Clash(r, q)
  /\ agg' = [agg EXCEPT ![a].at = "commit"]
  /\ UNCHANGED <<vars, monthly, aggregations, fresh, reading>>

CommitMonth(a) ==
  /\ agg[a].at = "commit"
  /\ monthly' = (monthly \ agg[a].target) \union agg[a].rows
  /\ fresh' = [fresh EXCEPT ![agg[a].month] = agg[a].fresh]
  /\ undisturbed' = (undisturbed /\ (report.at = "idle" \/ agg[a].month # report.month))
  /\ agg' = [agg EXCEPT ![a] = Resting]
  /\ UNCHANGED <<vars, aggregations, report, reports>>

\* A duplicate key, a lost connection, a killed process: the transaction is rolled back.
Abort(a) ==
  /\ agg[a].at # "idle"
  /\ agg' = [agg EXCEPT ![a] = Resting]
  /\ UNCHANGED <<vars, monthly, aggregations, fresh, reading>>

-----------------------------------------------------------------------------
(* The report: the queries in the order of their files. *)

Seen(dim) == Tokens({r \in monthly : r.month = report.month /\ r.dim = dim})

\* The first query opens the connection of the report.
ByModel ==
  /\ report.at = "idle" /\ reports < MaxReports
  /\ reports' = reports + 1
  /\ \E month \in Months :
       report' = [NoReport EXCEPT !.at = "by_workspace", !.month = month,
                    !.models = Tokens({r \in monthly : r.month = month /\ r.dim = "model"})]
  /\ UNCHANGED <<vars, accounts, undisturbed>>

ByWorkspace ==
  /\ report.at = "by_workspace"
  /\ report' = [report EXCEPT !.at = "monthly_total", !.workspaces = Seen("workspace")]
  /\ UNCHANGED <<vars, accounts, reports, undisturbed>>

MonthlyTotal ==
  /\ report.at = "monthly_total"
  /\ report' = [report EXCEPT !.at = "written", !.total = Seen("total")]
  /\ UNCHANGED <<vars, accounts, reports, undisturbed>>

\* The report is written, or refused when the month has no total; or its command fails.
CloseReport ==
  /\ report.at # "idle"
  /\ report' = NoReport /\ undisturbed' = TRUE
  /\ UNCHANGED <<vars, accounts, reports>>

\* A step of the connector: what was read before an ingestion is no longer fresh.
Ingestion ==
  /\ Next
  /\ IF usage' = usage THEN UNCHANGED <<fresh, agg>>
     ELSE /\ fresh' = [month \in Months |-> FALSE]
          /\ agg' = [a \in Aggregators |-> [agg[a] EXCEPT !.fresh = agg[a].at = "idle"]]
  /\ UNCHANGED <<monthly, aggregations, reading>>

WNext ==
  \/ Ingestion
  \/ \E a \in Aggregators : Read(a) \/ Delete(a) \/ Deleted(a) \/ Insert(a) \/ CommitMonth(a) \/ Abort(a)
  \/ ByModel \/ ByWorkspace \/ MonthlyTotal \/ CloseReport

WSpec == WInit /\ [][WNext]_wvars

-----------------------------------------------------------------------------
(* Properties. *)

WTypeOK ==
  /\ TypeOK
  /\ \A r \in monthly :
       /\ r.month \in Months /\ r.dim \in Dimensions
       /\ r.value \in {"*", ""} \union Models \union Holders \union {WorkspaceOf[h] : h \in Holders}
       /\ r.tokens \in Nat /\ r.cost \in Nat /\ r.by \in 1 .. aggregations
  /\ aggregations \in 0 .. MaxAggregations /\ reports \in 0 .. MaxReports
  /\ \A a \in Aggregators : agg[a].at \in {"idle", "delete", "deleting", "insert", "commit"}
  /\ fresh \in [Months -> BOOLEAN] /\ undisturbed \in BOOLEAN

\* The rows of a month are those of one aggregation (aggregate.py:153-159; the "*" of the
\* total, in the primary key, is what the later of two insertions runs into).
OneAggregation == \A p, q \in monthly : p.month = q.month => p.by = q.by

\* A month that no ingestion overtook is that of the newest row of each key: what the
\* provider corrected replaces what it said first, and nothing is counted twice.
MonthIsLatest ==
  \A m \in Months : fresh[m] =>
    \A dim \in Dimensions :
      LET newest == {r \in Newest(usage) : MonthOf[r.day] = m} IN
      {<<r.value, r.tokens>> : r \in {q \in monthly : q.month = m /\ q.dim = dim}}
        = {<<v, Tokens({r \in newest : DimValue(dim, r) = v})>> : v \in {DimValue(dim, r) : r \in newest}}

\* A report of a month that did not change while it was read shows a total that is the sum
\* of its models and of its workspaces, or is refused (generate.py:110-119): it never sees
\* an aggregation half done.
ReportIsCoherent ==
  report.at = "written" /\ undisturbed =>
    report.models = report.total /\ report.workspaces = report.total
=============================================================================
