-------------------------------- MODULE Ledger -------------------------------
(***************************************************************************)
(* The life of a recommendation on the server, from its insertion to the   *)
(* monthly report, beside the demonstration data.                          *)
(*                                                                         *)
(*   api/app/auth.py     get_current_org                                   *)
(*   api/app/routes.py   recommend (its INSERT), record_reco_event         *)
(*   warehouse/seed.py   the demonstration organisation                    *)
(*   report/generate.py  the three queries over events_reco, in the order  *)
(*                       of their files, each reading what is committed    *)
(*                                                                         *)
(* An INSERT or an UPDATE commits alone and is one step. What the page     *)
(* does is external: it shows a recommendation it received in time, or one *)
(* of the mock, whose reco_id the server never saw; it sends one event for *)
(* it (AssistFlow), which may arrive late, several times or never          *)
(* (TelemetryQueue), with the token its settings have then.                *)
(***************************************************************************)
EXTENDS Integers, FiniteSets

CONSTANTS
  Orgs,         \* org_ids
  Tokens,       \* tokens of organisations
  Own,          \* the token each organisation has at first, or Null
  DemoToken,    \* DEMO_ORG_TOKEN
  Recos,        \* reco_ids the API or the mock may draw
  Demo,         \* reco_ids the generator of the seed draws
  DemoVerdict,  \* what it draws for them
  DemoMonth,
  Salts,        \* values of PSEUDONYM_SALT
  LastMonth,    \* bound on months
  Null          \* SQL's, and what is not there yet

Months == 0 .. LastMonth
Ids == Recos \cup Demo

\* Columns followed and final_model: NULL, NULL; TRUE, the recommended model; FALSE, another.
Outcomes == {"followed", "overridden"}
Verdicts == Outcomes \cup {"unanswered"}
Row == [org : Orgs, month : Months, verdict : Verdicts]

ASSUME LedgerAssumption ==
  /\ IsFiniteSet(Recos) /\ IsFiniteSet(Demo) /\ Recos \cap Demo = {}
  /\ LastMonth \in Nat /\ DemoMonth \in Months
  /\ Own \in [Orgs -> Tokens \cup {Null}] /\ DemoToken \in Tokens /\ Null \notin Tokens
  /\ DemoVerdict \in [Demo -> Outcomes] /\ Null \notin Row \cup Outcomes \cup Int

VARIABLES
  token,    \* orgs: the token of each organisation, Null when it has no row
  ledger,   \* events_reco: the row of each reco_id, or Null
  usage,    \* usage_daily: for whom the rows of the seed are
  month,
  shown,    \* recommendations a page displayed
  decided,  \* what its user did of each
  report

ledgerVars == <<token, ledger, usage, month, shown, decided, report>>

NoReport == [at |-> "idle", org |-> Null, month |-> 0, avoided |-> 0, events |-> 0,
             followed |-> 0, decided |-> 0, rate |-> Null, saved |-> 0]

LedgerInit ==
  /\ token = Own /\ ledger = [r \in Ids |-> Null] /\ usage = {}
  /\ month = 0 /\ shown = {} /\ decided = [r \in Recos |-> Null]
  /\ report = NoReport

-----------------------------------------------------------------------------
(* The API.                                                                *)

\* The first row with the hash of the token; nothing makes it the only one.
Authenticated(t) == {o \in Orgs : token[o] = t}

\* An event nobody sent yet counts as refused.
MutInserted(o) == [org |-> o, month |-> month, verdict |-> "overridden"]

Inserted(o) == [org |-> o, month |-> month, verdict |-> "unanswered"]

Recommend(r) ==
  /\ ledger[r] = Null /\ r \notin shown
  /\ \E t \in Tokens : \E o \in Authenticated(t) : ledger' = [ledger EXCEPT ![r] = Inserted(o)]
  /\ UNCHANGED <<token, usage, month, shown, decided, report>>

\* UPDATE ... WHERE reco_id = ... AND org_id = ...; 404 when it finds no row.
RecordRecoEvent(r) ==
  /\ decided[r] # Null /\ ledger[r] # Null
  /\ \E t \in Tokens : ledger[r].org \in Authenticated(t)
  /\ ledger' = [ledger EXCEPT ![r].verdict = decided[r]]
  /\ UNCHANGED <<token, usage, month, shown, decided, report>>

-----------------------------------------------------------------------------
(* The page, and the calendar.                                             *)

Show(r) ==
  /\ r \notin shown
  /\ shown' = shown \cup {r}
  /\ UNCHANGED <<token, ledger, usage, month, decided, report>>

Conclude(r) ==
  /\ r \in shown /\ decided[r] = Null
  /\ \E v \in Outcomes : decided' = [decided EXCEPT ![r] = v]
  /\ UNCHANGED <<token, ledger, usage, month, shown, report>>

NextMonth ==
  /\ month < LastMonth
  /\ month' = month + 1
  /\ UNCHANGED <<token, ledger, usage, shown, decided, report>>

-----------------------------------------------------------------------------
(* The seed: one transaction. Its generator draws the same reco_ids for    *)
(* any organisation; its users are hashed with the salt of the environment.*)

\* ON CONFLICT (org_id) DO NOTHING.
SeedOrg(o) == [token EXCEPT ![o] = IF token[o] = Null THEN DemoToken ELSE token[o]]

\* The same days, keys and models each time: the users tell the rows apart.
UsageRows(o, s) == {[org |-> o, salt |-> s]}

EventRows(o) == [e \in Demo |-> [org |-> o, month |-> DemoMonth, verdict |-> DemoVerdict[e]]]

\* ON CONFLICT (reco_id) DO NOTHING.
Inserting(events) == [r \in Ids |-> IF r \in Demo /\ ledger[r] = Null THEN events[r] ELSE ledger[r]]

Seed(o) ==
  /\ token' = SeedOrg(o)
  /\ \E s \in Salts : usage' = usage \cup UsageRows(o, s)
  /\ ledger' = Inserting(EventRows(o))
  /\ UNCHANGED <<month, shown, decided, report>>

-----------------------------------------------------------------------------
(* The report.                                                             *)

Rows(o, m) == {r \in Ids : ledger[r] # Null /\ ledger[r].org = o /\ ledger[r].month = m}
With(verdicts, rows) == {r \in rows : ledger[r].verdict \in verdicts}

\* round(100.0 * followed / decided, 1), in tenths.
Rate(followed, answered) ==
  IF answered = 0 THEN Null ELSE (2000 * followed + answered) \div (2 * answered)

FootprintAvoided ==
  /\ report.at = "idle"
  /\ \E o \in Orgs, m \in Months :
       report' = [NoReport EXCEPT !.at = "adoption", !.org = o, !.month = m,
                    !.avoided = Cardinality(With({"followed"}, Rows(o, m)))]
  /\ UNCHANGED <<token, ledger, usage, month, shown, decided>>

RecoAdoption ==
  /\ report.at = "adoption"
  /\ LET rows == Rows(report.org, report.month)
         followed == Cardinality(With({"followed"}, rows))
         answered == Cardinality(With(Outcomes, rows))
     IN  report' = [report EXCEPT !.at = "savings", !.events = Cardinality(rows),
                      !.followed = followed, !.decided = answered, !.rate = Rate(followed, answered)]
  /\ UNCHANGED <<token, ledger, usage, month, shown, decided>>

RecoSavings ==
  /\ report.at = "savings"
  /\ report' = [report EXCEPT !.at = "written",
                  !.saved = Cardinality(With({"followed"}, Rows(report.org, report.month)))]
  /\ UNCHANGED <<token, ledger, usage, month, shown, decided>>

\* Rendered, or refused without a total of the month.
Render ==
  /\ report.at = "written"
  /\ report' = NoReport
  /\ UNCHANGED <<token, ledger, usage, month, shown, decided>>

LedgerNext ==
  \/ \E r \in Recos : Recommend(r) \/ RecordRecoEvent(r) \/ Show(r) \/ Conclude(r)
  \/ \E o \in Orgs : Seed(o)
  \/ NextMonth \/ FootprintAvoided \/ RecoAdoption \/ RecoSavings \/ Render

LedgerSpec == LedgerInit /\ [][LedgerNext]_ledgerVars

-----------------------------------------------------------------------------
(* Properties.                                                             *)

\* Recommendations that users followed, and those the demonstration says followed.
FollowedByUsers == {r \in Recos : decided[r] = "followed"} \cup {e \in Demo : DemoVerdict[e] = "followed"}

\* A recommendation the server recorded and no page showed, answered or had delivered is
\* never counted as decided (client.ts:57, reco_adoption.sql:9): a verdict in the table is
\* the one its user gave, whatever is late, repeated or sent for an organisation. The three
\* counts of recommendations followed of a report, read by three statements while verdicts
\* arrive (generate.py:110-119), only grow in its order, never past what users followed.
VerdictsAreTold ==
  /\ \A r \in Recos : ledger[r] # Null /\ ledger[r].verdict # "unanswered"
                      => r \in shown /\ ledger[r].verdict = decided[r]
  /\ report.at = "written" =>
       /\ report.avoided <= report.followed /\ report.followed <= report.saved
       /\ report.saved <= Cardinality(FollowedByUsers)
       /\ report.decided <= report.events
       /\ IF report.decided = 0 THEN report.rate = Null ELSE report.rate \in 0 .. 1000

\* "Genere les donnees de demonstration" for the organisation named (seed.py:3-6, 294-297):
\* does not hold of a second one, whose events conflict with those of the first.
DemoIsWhole == \A u \in usage : \A e \in Demo : ledger[e].org = u.org

\* "relancable sans effet" (warehouse/README.md:27): does not hold when the salt changed.
SeededOnce == \A u, v \in usage : u.org = v.org => u = v

=============================================================================
