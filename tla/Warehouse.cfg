\* Two aggregations, possibly at once, and a report, while the connector runs twice.
SPECIFICATION WSpec
CONSTANTS
  LastDay = 1
  Window = 1
  ApiKeys = {"key"}
  Users = {"user"}
  WorkspaceOf <- MCWorkspaceOf
  Names = {"opus"}
  ModelOf <- MCModelOf
  Unknown = Unknown
  Price <- MCPrice
  Modes = {FALSE}
  Initials <- OneDay
  Amounts = {3}
  Syncs = {"sync"}
  MaxStarts = 2
  MaxChanges = 1
  MonthOf <- MCMonthOf
  a1 = a1
  a2 = a2
  Aggregators = {a1, a2}
  MaxAggregations = 2
  MaxReports = 1
SYMMETRY Twins
INVARIANTS
  OneAggregation
  MonthIsLatest
  ReportIsCoherent
\* Every run, aggregation and report may have ended.
CHECK_DEADLOCK FALSE
