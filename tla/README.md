# A TLA+ verification of Sobrio

Sobrio recommends, while a prompt is typed in claude.ai, the cheapest model that is
enough for it. A browser extension shows the recommendation and may switch the model;
a FastAPI server decides with a router; an operator trains, evaluates and promotes the
router's artefacts; a connector and a warehouse account for what was consumed. This
directory holds TLA+ specifications of those parts, the TLC configurations that check
them on small instances, and TLAPS proofs for every value of the constants. Paths below
are relative to the root of the repository.

Run, in this directory, `tlc -workers 2 -config AssistSafety.cfg MCAssistFlow.tla` (and so
on, see the table of runs) and `tlapm AssistFlow_proofs.tla` (and so on for the
other modules of proofs).

## 1. Inventory

Each part: its state, its operations, what makes it hard, what makes it correct.

**Assist flow** (`extension/src/content-main.ts`). State: `pendingAutoAccept` (the one
acceptance that waits), `flowGeneration`, and per flow `previousModel`, `switchInFlight`,
`outcomeCommitted`. Operations: a pause in the typing starts `runRecommendationFlow`; the
panel's callbacks `onFollow`, `onOverride`, `onCancel`, `onDismiss`; the flush on
navigation, on a newer panel, on the badge and on `pagehide`. Hard: two awaits (the
recommendation, the switch) with everything possible in between, state captured by
closures before them. Correct: one event per recommendation, which tells the truth about
a verified switch; a panel that belongs to its conversation.

**Panel, model switcher, navigation, memory** (`panel.ts`, `modelSwitcher.ts`,
`spaLifecycle.ts`, `conversationController.ts`, `conversationMemory.ts`,
`conversationRegistry.ts`). State: the mounted panel, `switchQueue`, the conversation key,
the counters of each conversation. The flow calls the switcher, which waits on the page
three times; navigation calls back into the flow; the panel calls the memory. Hard: a
switch asked in one conversation and executed in another, navigations no event announces.
Correct: switches are served in order and end, no other conversation's model is touched,
counters stay consistent.

**Telemetry queue** (`telemetryQueue.ts`, with `client.ts` and `record_reco_event` in
`api/app/routes.py`). State: two keys of `storage.local`, shared by every tab. Operations:
`enqueue`, `flush`, `bumpSent`. Hard: each is read, await, write, with no lock; a page may
close at any await; a delivery may be recorded and not confirmed. Correct: events are
neither lost nor kept twice nor tried without end, the counter does not lie.

**Remote configuration and settings** (`remoteConfig.ts`, `settings.ts`,
`entrypoints/popup`). State: the cached configuration, the settings, both in storage,
shared by every tab. Operations: the form's save, and on each page the startup of
`bootstrap`: settings, client, cache, network, cache again. Hard: staleness, startups that
overlap a change of client or of policy, storage that rejects, a network that is silent.
Correct: the policy of the organisation reaches every page within a known delay.

**Decision rules** (`signals.ts`, `client.ts`, `mockRules.ts`, `adapter.py`,
`heuristic.py`). No state of their own; the same seven rules three times, behind filters.
Hard: their bounds, their order, what a filter drops. Correct: the cost follows the task,
longer is never lighter, the demonstration agrees with the server.

**API** (`api/app`). State: the database, the memoised routers. `recommend` authenticates,
applies the triple lock on the text, asks the router, records and answers;
`record_reco_event` writes a verdict; `get_extension_config` sanitises a policy.

**Recommendations, seed, report of verdicts** (`routes.py`, `auth.py`, `warehouse/seed.py`,
`report/generate.py`). State: `events_reco`, one row per recommendation the API made,
unanswered until an event says what the user did; the seed inserts rows of its own. Hard:
a recommendation the page never shows (its request timed out), verdicts late, repeated or
sent with another token, three statements of a report that each see another table, a seed
run again. Correct: a verdict counted is one a user gave, the counts of a report agree.

**Evaluation** (`router/eval/harness.py`). No state; the metrics the gate compares and
those a reader compares. Correct: they do not contradict each other, and what the global
calibration error hides of the automatic band is bounded.

**Router bridge and routers** (`api/app/router_bridge.py`, `router/sobrio_router`). State:
an `lru_cache` of routers, a pool of two threads in each `SafeRouter`. Hard: requests in
threads, loads outside the lock of the cache while artefacts are replaced, decisions that
hang or end late. Correct: always an answer, always valid, no text without consent, no
automatic switch on the word of the second stage.

**Golden set and corpus** (`router/eval/golden`, `router/data`, `train_v05.py`). State: the
golden set, its recorded hash, four files of a corpus and their reference copies. Commands
run in any order and may be interrupted at any file. Hard: which file is of which run; a
set that judges and is also what draws avoid. Correct: nothing promoted was judged on what
it learned; contradictions in a corpus are its recorded noise. The arithmetic of a corpus
and of a calibration (`_allocate`, `fit_isotonic`, `interp_conf`) is pure.

**Encoder and head of the second stage** (`fetch_embed_model.py`, `train_head_v0.py`,
`bench_embed.py`, `promote_embed.py`, `embed.py`). State: the encoder on disk, the head's
directories, the report of measure, the router served. Hard: trainings, measures,
promotions and loads overlap, while new versions of spec and manifest are deployed.
Correct: what is served is one training's head with the encoder it was trained for, and
was measured before it was promoted.

**Training, gate, promotion** (`router/train`, `router/eval/gate.py`). State: the
directories `candidate/`, `promoted/`, `previous/` and their reports. Hard: several file
operations without a journal, a training beside a promotion, references that move.
Correct: only what passed the gate is served, an interrupted command loses nothing, no
slow degradation.

**Connector** (`connector`, `contracts/db_schema.sql`). State: `usage_daily`, versioned by
snapshot, and `sync_runs`. Operations: a run reads three reports, normalises them, shares
costs over keys, inserts what is new in one transaction, traces itself in another. Hard:
the provider corrects the past, also between the reads; runs overlap; failures and
interruptions at any step. Correct: the latest snapshot is the truth once it has settled,
bills are shared whole, fixtures are idempotent, the trace is exact.

**Warehouse and report** (`warehouse/aggregate.py`, `report`). State: `monthly_agg`.
Operations: the replacement of a month in one transaction; a report of several queries in
another. Hard: PostgreSQL runs both under READ COMMITTED, so each statement sees another
database. Correct: a month is that of one aggregation, from the latest snapshots, and a
report never shows half of one.

**The rest** (`fixtures`, `ops`, `sobrio_impact`, migrations, rendering):
sequential, no shared state.

`PROJECT.json` gives the status of each part and the list of hazards, at their lines.

## 2. Modules and how they correspond to the code

| module | models | about |
|---|---|---|
| `RecoOutcome` | what a recommendation's telemetry promises | abstract: unseen, shown, one verdict with one event, accepted only if verified |
| `AssistFlow` | the flow, panel, switcher, navigation, memory of one tab | implements `RecoOutcome` |
| `TelemetryQueue` | the queue of every tab over one storage, and the server's end | |
| `Promotion` | trainings, gate, promotion, rollback, interruptions | |
| `Serving` | requests, cache of routers, pools, two stages, promotion and purge under traffic | |
| `Connector` | runs of the connector, the provider and its corrections, `usage_daily`, `sync_runs` | |
| `Warehouse` | `Connector` with the aggregation of months and the monthly report | composes three commands over one database |
| `Sessions` | settings, client, cached configuration and startup of every tab | gives `AssistFlow` its mode |
| `Ledger` | recommendations on the server, verdicts, the seed, the report's queries over them | |
| `Routing` | from a text to the model proposed, by the mock, the heuristic and the server | pure |
| `Allocation`, `Calibration`, `Evaluation` | rows shared among templates; isotonic calibration, interpolation and emission of a confidence; the metrics of a report | pure |
| `Corpus` | golden set, corpus generation, its files, training and promotion as far as data leak | uses `Allocation` |
| `Embed` | encoder, head, measure, promotion and load of the second stage | |
| `..._proofs` | theorems of `AssistFlow`, `TelemetryQueue`, `Promotion`, `Serving` (with `Routing` and `Ledger`), `Warehouse` (with `Connector`), `Corpus` (with `Allocation`, `Evaluation` and `Calibration`); `Startups_proofs` has those of `Sessions` and `Embed`, `Sums_proofs` the lemmas on sums | |
| `MC...` | instances for TLC; `MCDecision` takes `Routing`, `Calibration`, `Evaluation` and `Ledger` in turn | |

**AssistFlow.** JavaScript runs one task at a time, so an action is one task and what it
triggers synchronously: a click with its callback, its event and its panel change; the
arrival of a recommendation with the flush of the previous acceptance, the new panel and
the enqueued switch. A flow is a number (its `flowGeneration` once shown). `queue` is
`switchQueue`; its head goes through `OpenMenu`, `ClickItem` and the `Switch...` actions,
the three places where `applyModelInPageExclusive` waits, and the last of them contains the
continuation of the flow (`content-main.ts:287-310`). `ClickItem` compares `key`, what the
extension believes, while the page shows `shown`: `NavigateUnseen` separates them until
`Poll`. Whether the page offers a menu, and whether the label read back is the right one,
is chosen freely. `replaced` and `moves` are for the properties and the bounds.

**TelemetryQueue.** A call (the `enqueue` of an event, the `flush` of a startup) is a
small process whose steps are its awaits. `left`, `kept` and `sent` are its locals; the
storage is the shared variable. Closing a page stops its calls where they are. Backoff
delays are the choice of which items with a failed attempt are due.

**Promotion.** A directory is (version, how entire, report). Every `rmtree`, `rename`,
`copytree` and report write is a step of the running command; `Crash` may replace any
step, `rmtree` and `copytree` may stop half-way. A training may begin at any of them: what is
copied from a candidate it has rewritten is a mixture (`FillMixed`), or the new version when
all of its files were taken after it ended. The gate is evaluated on the candidate
with the criteria of `gate.py` that compare it with the baseline and with the served
version, in integers.

**Serving.** A request is a small process: `Arrive` (the locks, the cache), the steps of a
load, `Insert` in the cache, `Submit`, then `Collect`, `Timeout` or `Fallback`. A router
instance is named by the request that built it; `queue` and `running` are its pool, and a
decision lives on after its request gave up. What a first stage decides is any decision of
the interface, including a hidden model, a confidence out of range and NaN.

**Connector.** What the provider would say now is `truth`, one amount per line (day,
holder, name of a model); `Correct` and `Tomorrow` are its steps, and fixtures do not
change. A run is a small process: its three reads, the last of which contains the
normalisation, the statements of its transaction (`Ingest`), `Commit`, and the `finally`
(`Trace`). `Fail` is the `except`; `Interrupt` is a Ctrl-C, which `except Exception` does
not see and the `finally` does; `Crash` is a kill. The start of a run, its snapshot, is the
number of the run. A commit whose acknowledgment is lost, after which the trace would say
that the run failed, is not modelled. Pseudonyms are the holders themselves (one to one);
the NULL of a cost is 0, as the aggregation reads it. `changedAt` and `wrote` are history.

**Warehouse.** `aggregate_month` is one transaction: `Read` computes the rows, `Delete`
and `Deleted` are the begin and the end of a DELETE that may wait for rows another
transaction holds, `Insert` waits for keys another one is inserting and has no step when
they are committed (the duplicate key, `Abort`), `CommitMonth` publishes. The report is
its three queries of `monthly_agg`, in the order of their files. READ COMMITTED is
PostgreSQL's default, which no line of the repository changes. `fresh` and `undisturbed`
are history.

**Sessions.** A startup of `bootstrap` is `LoadSettings`, `ReadCache`, then `Answer` or
`Silence`, then `WriteCache`: its awaits. A client is an organisation, or `Mock`. A
rejected read of the settings gives `Defaults`, a rejected read of the cache gives nothing,
a rejected write leaves the cache as it was. `clock` counts fractions of the TTL and does
not advance during a startup, whose network wait is 400 ms at most while the TTL is an
hour. `CompareVersions` compares versions part by part, as numbers. `since`, `moved` and
`due` are history: what the property needs of when policies and client last changed.

**Routing.** A text is the set of stems and motifs it contains, one for each distinction the
signals make. `SignalsToV1Features` and `FeaturesToSignals` are the contract between client
and server, with what it drops; `MockDecide` and `HeuristicDecide` are the two sets of rules,
first match wins. The state machine types a text and lets it, or the conversation, grow.

**Ledger.** `ledger` holds the row of each recommendation or nothing; NULLs in `followed`
and `final_model` are the verdict `unanswered`. `Recommend` is the INSERT of the route,
`RecordRecoEvent` its UPDATE, under any token the organisation of the row has. `Show` and
`Conclude` are the page, which may show a recommendation of the mock the server never saw,
or never show one the server made. The seed is one step, `ON CONFLICT DO NOTHING` included;
the report is its three queries in the order of their files, each over what is committed
then. `usage` remembers which users the seed invented, since their names depend on a salt.

**Calibration.** Validation rows come one by one; `Push` is the loop of merges of
`fit_isotonic`, which has at most as many turns as there are blocks, so that it is a function
of the turn (`Merge` is one turn, and changes nothing once the loop would have ended);
fractions are pairs of integers, where the code has floats.
`IsotonicAt` is the reference: the max-min formula of isotonic regression. `Allocation` is
an operator, checked by an ASSUME of `MCDecision` over every total up to 12 and three
weights up to 4 (`AllocationIsExact`), proved for all of them, and used by `Corpus`.

**Evaluation.** A row is a label, the model the router answered and its confidence in
thousandths; `Judge` adds one. Gaps keep their denominator, so that nothing is rounded.

**Corpus.** One command runs at a time (`phase`). A draw is `Reject` or `Accept`, one per
attempt; a signature stands for the signals of a row, a hash for what it is the hash of.
The four files are written one after the other, and an interruption leaves any of them half
written (`Torn`). `against`, `pinned`, `of`, `same` are history, read by no program; so are
`learned` and `judged`, which the property compares.

**Embed.** Each command is a process with the version of the code it was started with, and
no command takes a lock: a promotion, a rollback, a measure, a training and a load overlap
as they may. (At most one of each runs at a time, which is a bound.) What a command reads
while it runs is read then: `Proven` compares the report with the manifest deployed at the
check, which may be later than the code of the promotion. A head is the training that wrote it,
its number and spec: three files written in place, the metadata last. A copy takes
the files in the order in which the directory was listed (`CopyOrders`), each as it is
then, and what an interrupted copy leaves, were it an
empty directory, is rotated like any other. A load checks, then reads again, as
`EmbedHead.load` does, then opens the encoder. History: `calm`, whether a file the load
reads changed since it began; `proof` of a head, the report that allowed its promotion, if
the code did not change during it; `measured` of a report, what its measure had loaded, if
that stayed in place. Rotation and exchange are one step each here, several in `Promotion`.

### Plan

1. `AssistFlow`, `RecoOutcome`, their proofs: done.
2. `TelemetryQueue`: done, with the theorems of its safety properties.
3. `Promotion`, its proofs: done.
4. `Serving`: done, with the theorems of its safety properties.
5. `Connector`, `Warehouse`: done, with the theorems of all their properties.
6. `Sessions`, `Embed`, `Corpus`: done, with the theorems of their safety properties.
7. `Routing`, `Ledger`, `Allocation`, `Evaluation`, `Calibration`: done, with the theorems
   of their properties.
8. Left: the eviction of conversations from the registry.

## 3. Runs

| run | instance | shows |
|---|---|---|
| `assist_safety` | 3 modes, 2 flows, 2 models, 2 conversations (one anonymous), 1 move, possibly unseen | accepted iff verified and not refused, the waiting acceptance is always cancellable, a Cancel is served to its end (the model is back, or the user told, or the conversation left), panels and switches stay in their conversation, `RecoOutcome` is implemented |
| `assist_liveness` | automatic mode, 2 conversations, one anonymous, no unseen move | every chained switch ends, automatic, clicked or restoring; no conversation counts more followed than was followed in it, and `followed <= shown` with a thread id |
| `telemetry_pages` | 1 tab loaded 3 times, 2 events, failing storage | no duplicate entry, nothing lost without a race, at most three attempts, the counter never overstates |
| `promotion_steps` | 3 versions, every command, every interruption | only approved versions are served, an interrupted command loses nothing, no regression, no drift, reports stay with their version |
| `serving_answers` | 2 requests, 4 kinds of organisation, 1 worker, 1 promotion, 1 purge | valid answers, no automatic switch by the second stage, no text without consent, a purge found without load in progress is effective |
| `serving_progress` | 2 requests, 1 worker, 1 promotion | every request is answered though no decision need ever end |
| `connector_runs` | 2 processes, 2 runs, 3 days, a window of 1, 2 keys of a workspace, 1 user, 3 names of which one unknown and two of one model, 1 correction, both modes | the latest snapshot is what the provider had settled, bills are shared, fixtures are idempotent, traces of committed runs are exact |
| `warehouse_months` | 2 aggregations, 1 report, 2 runs one after the other, 1 key, 1 user, 1 correction | a month is that of one aggregation and of the latest snapshots, the report is coherent |
| `decision` | every text of 6 stems at 7 lengths, 6 contexts, 2 counts; 5 validation rows over 4 confidences; 3 rows judged over 4 confidences; 2 recommendations and 2 rows of demonstration over 2 months | cost follows the task and never lightens with length, mock and server agree, pooling gives the isotonic regression and what is emitted keeps the order of confidences, the metrics of an evaluation agree, a verdict in the ledger or a report is one its user gave |
| `corpus` | 2 runs of the generator, 3 rows, 3 signatures, 2 golden sets, 1 noisy row | a promoted model learned nothing it was judged on, but for the two orders of commands named; contradictions are recorded noise |
| `embed` | 3 versions of the code (unapproved, then 2 encoders), 2 trainings | what is served in peace is one training's head with its encoder, which was measured before the head was promoted |
| `sessions` | 2 tabs, 1 organisation and the demonstration, 2 saves, 1 change of policy, a TTL of 2 in a time of 5 | a page applies its organisation's policy a TTL after the last change |

### Counterexamples

Some sentences of the repository's documents and docstrings are not true of the code. They
were met while modelling, are quoted under "findings" in `PROJECT.json`, and these
configurations show them (`tlc -config AssistCancel.cfg MCAssistFlow.tla` and so on; each
ends with a counterexample).

| configuration, module | property violated | what happens |
|---|---|---|
| `AssistCancel.cfg`, `MCAssistFlow` | `CancelRestoresReplaced` | Cancel restores another model than the one its switch replaced |
| `TelemetryLost.cfg`, `MCTelemetryQueue` | `KeptUntilSettled` | an event is erased by another tab's write |
| `PromotionLost.cfg`, `MCPromotion` | `HistoryKept` | two interruptions in a row lose every version |
| `ServingPurge.cfg`, `MCServing` | `FreshAfterPurge` | a load that began before the purge is memoised after it |
| `CorpusJudged.cfg`, `MCCorpus` | `NeverLearnedFrom` | a golden set amended and frozen after the corpus judges what was learned from it |
| `EmbedFresh.cfg`, `MCEmbed` | `ProofIsFresh` | the measure of a former spec allows a promotion |
| `LedgerSeed.cfg`, `MCLedger` | `DemoIsWhole` | a second organisation seeded has no recommendations: those of the first have the same identifiers |
| `LedgerSalt.cfg`, `MCLedger` | `SeededOnce` | a seed run again with another salt adds its users a second time |
| `SessionsReload.cfg`, `MCSessions` | `StoppedOnReload` | a reload within the hour does not see the kill switch |

Further divergences have no configuration: the conversation that counts more followed than
shown (an anonymous page, whose counters are reset under its panel), the trace of a run
that failed or was interrupted, the tokens dropped when one key used two names of a model,
the telemetry flushed before the opt-out is read, the report missing after an interrupted
promotion (why `NoRegression` assumes none), the docstring of `SafeRouter` on where the
time-out starts, the recorded hash of the golden set compared with itself (why `NoLeak`
asks that what was judged is what is recorded), and settings misread that start the
demonstration for every tab.

**Bounds.** Two flows are what the flow's state distinguishes (the latest and a superseded
one: `flowGeneration` is only compared with the latest, and there is one pending
acceptance); two models suffice to tell a switch from its restoration, three where a model
read and a model replaced must both differ from the target. One move is enough to leave a
conversation or to come from an unseen place, and the proofs do not depend on it. In the
queue two concurrent events and three page loads give two overlapping enqueues with a
startup flush; three attempts are the code's own constant. Three versions give a served
one, a retired one and a candidate too far from the baseline; commands are unbounded. In
serving, two requests give every role (who builds, who shares, who gave up with its
decision still in the pool), and one worker is a full pool; one promotion leaves the disk
empty at any step of a load. Two overlapping runs and one correction give every order of
reads, corrections and commits around a snapshot; three days with a window of one give a
day that leaves the window. One month is enough for the warehouse, where months do not
meet: two aggregations and two ingestions around them give each order of their statements. In `sessions`, a TTL of 2 has an
entry fresh, stale and at the boundary; two tabs overlap any two startups, and two saves
leave a client and come back. In `corpus`, two templates share a signature and two golden
sets may each give one that the templates draw; two runs give files of different runs. In
`embed`, three versions give an unapproved source and a change of encoder; two trainings
give a head overwritten while it is copied, the metadata being listed first or last (the
theorems are for any order). In `decision`, lengths are on both sides of
every bound of the rules, and five rows give every chain of merges of three blocks. Judged
confidences are on both sides of the threshold inside the bin it cuts, one of them rounded
up to it. Two recommendations are one for each of two organisations, or two of one; two
months are that of a report and another. Symmetry is
used on events (`telemetry_pages`), on processes of the connector, on aggregators and on
tabs (`sessions`), which nothing distinguishes; these runs check no liveness.

**Fairness.** `AssistFlow`: weak fairness of the switch in progress, whose waits are
`setTimeout`; none on the user, the page, the recommendation or the poll. `Serving`: weak fairness of a request's own loading
steps and of its own waits, which the future's time-out ends; none on pool workers and
decisions: `NeverBlocked` holds though no decision ever starts or ends. Safety runs use no
fairness. `CHECK_DEADLOCK FALSE` is given where pages close, where every request has
been answered, where every text has been tried; `Promotion`, `Embed`, `Corpus` and
`Sessions` never stop and are checked for deadlock.

## 4. Proofs

**AssistFlow_proofs.** Assumes `FlowAssumption` (types of the constants). The properties
are not inductive: that a waiting acceptance is cancellable depends on which panel is
mounted, that on the generation of flows, and the switch's verdict on what the queue
holds. The invariant is `TypeOK /\ Core`, where `Core` relates the clock of flows
(`asking`, `gen`, `started`), flows not shown yet, each flow's switch and its verdict, the
panel and its buttons, the pending acceptance, and the queue: an automatic switch in it is
the only switch of its flow there, and its flow is then in flight.
One lemma per action shows it is kept; the theorems are `TypeCorrect`, `OneEvent`,
`NoOrphanSwitch`, `WaitIsCancellable`, `PanelIsCurrent`, `LeavingIsSilent`, the action
properties `ForeignSwitch` and `RestorationIsServed`, and `FlowImplementsOutcome`, which
maps each step to a step of `RecoOutcome` for each recommendation.
`RestorationIsServed` says that a Cancel is owed its restoration until the model is back or
its failure told: a refusal and the model to restore are final, what is chained leaves the
queue by its head only, and a refused switch that ends chains the restoration, so that the
debt ends with the restoration itself. That it is not owed for ever is `SwitchesEnd`, which
is checked.
`FollowedIsWithinShown` is about every conversation, anonymous or not, and every
navigation: the memory counts no flow twice, nor one of another conversation, whatever
resets it. Its second half, that no more is counted followed than shown, is about the
conversations that have a thread id, while no navigation escapes the History API: otherwise
the code may count more. The invariant `Tally` says that a memory counts at most the flows
followed or accepted in its conversation, and that one which is never reset after its first flow
(`Kept`) counts exactly the flows displayed in it, of which those followed are some.

**Promotion_proofs.** Assumes `PromotionAssumption`. The invariant has named parts: the
directories carry the names of the versions in them (`Named`), what a command at each step
knows (`Steady`), approved versions are close to the baseline (`ApprovedClose`, why
tolerances do not add up: each criterion is also measured against the heuristic), an
entire directory remains (`Kept`), the accuracy of `promoted/` is not below that of
`previous/` while it is being compared (`Ranked`). One lemma per part, one case per action.
Theorems: `PromotionType`, `ServedIsApproved`, `InterruptionIsSafe`, `ReportsFollow`,
`RollbackIsEntire`, `TolerancesDoNotAddUp`, `PromotionImproves`.

**Serving_proofs.** Assumes `ServingAssumption`: among it that a first stage does not sign
as the second (`ml.py` signs `ml:v05`) and that the heuristic stays within 55 and 80. The
properties about answers need that a future of the second stage is already under the cap
(`Bounded`); that a text was consented, that only its own arrival sets it, together with
the policy, and that who has not arrived was never probed (`Consented`); that a purge takes
effect, that a memoised instance is not loading any more and that loads in progress began
after the last purge unless it found one (`Loaded`). Theorems: `TypeCorrect`,
`AnswersValid`, `SecondNeverActs`, `TextConsented`, `PurgeIsEffective`.

The same module proves what decides those requests, for any stems and any lengths that are
natural numbers (`RoutingAssumption`). A list of rules is a CHOOSE of the first that
matches; `FirstMatchIs` and the two lemmas of the ladders (`HeuristicLadder`, `MockLadder`)
turn it into a case analysis, from which follow `CostAlwaysFollowsTask`,
`MockAlwaysAgrees` and `HeuristicIsUsual`, the assumption on the heuristic made above. The
invariant `TypingInv` says that the signals are those of the draft; `NeverLighter` follows
from it and from `Longer`, the order on signals that a step climbs and the rules respect.

And it proves the ledger they end in, under `LedgerAssumption` (what the seed draws and the
identifiers of recommendations are apart). `VerdictsAreTold` is not inductive: an update
copies a decision it did not see taken, and a report is read in three statements while
rows change. `LedgerInv` adds that decisions are of recommendations displayed, that the rows
of the demonstration say what was drawn (`Told`), and that what a statement counted is no
more than the rows are now (`Counted`), which every step keeps because no row and no
verdict is taken back (`Advances`). Theorem: `VerdictsAreAlwaysTold`.

**TelemetryQueue_proofs.** Assumes `QueueAssumption`. The properties are about one queue
that several calls copy, change and write back. `Shape` ties a call's step to its copy.
`DistinctInv` extends uniqueness to every copy, and says that only events already pushed
are in one. `TriedInv` says that, of calls that do not overlap, the one that has read the
queue is alone and counts its attempts in its copy. `KeepInv` says that attempts in the
queue are attempts made, and that the copy of a call which is not stale covers the queue,
up to what is over. `SentInv` gives each call and the counter their own confirmations: an
event confirmed is counted by at most one of them, and a bump that loses its race loses
only counts. Theorems: `QueueIsWellFormed`, `EntriesAreDistinct`, `AttemptsAreBounded`,
`EventsAreKept`, `SentIsNotOverstated`.

**Sums_proofs.** No assumption. Bills, months, shares and gaps are sums, which the library
defines by recursion. What such a sum computes is drawn from one lemma, `SumIsCount`: a sum
of natural numbers is the number of pairs of an element and a unit of its amount. Unions,
subsets, groups and multiples of sums are then facts of cardinalities (`SumUnion`,
`SumByGroups`, `SumScale`, `SumPlus`, `SumAtMost`). `SumIsCount` itself follows from
`SubsetInduction`, where the induction is a well-founded order on the subsets of a finite
set and the claim is a set of subsets: the library states that theorem over sets, without
an operator parameter.

**Warehouse_proofs** first proves the `Connector`, under `ConnectorAssumption`: among it
that keys, users and names are finitely many, as a provider's report is, and that a key is
not a user, since a row of `usage_daily` is of an `api_key_id` or of a `user_id`
(`connector/normalize.py`).
`TraceIsTrue` alone says nothing of the runs in progress; the invariant `Runs` adds what
each process knows of itself (`Local`), what it has written at each step (`Written`), that
no two processes have the same run (`Apart`) and that no trace is of a run in progress
(`Traced`). `Versions` ties the rows of a run to what it read: what a process holds was
normalised from reports of known instants (`Made`), two transactions in progress insert no
key twice (`Disjoint`), and after a committed run the rows of its window are there for good
(`Lasting`). `BillIsShared` adds the invariant `Costs`: a row costs its share of the bill,
unless a line of its group was corrected since its run began (`Priced`), no two rows have
the same key (`Keyed`), and the bill a run has read is what was true when it began, but for
such lines (`Billed`, in `Bills`). Then the rows of a group are its lines
(`RowsAreLines`), one for one when no two names share a key; each is rounded by half a
unit at most, and the shares before rounding add up to the bill (`SharesAddUp`,
`GroupIsShared`). Theorems: `TracesAreTrue`,
`LatestSnapshotIsTruth`, `BillsAreShared`, and the action property `FixturesAreIdempotent`.

Then the `Warehouse`, with no further assumption on the constants. `OneAggregation` is not
inductive: that an insertion cannot mix with rows its DELETE did not see comes from the
total of the month, which every non-empty aggregation has. The invariant `Whole` says so
(`Published`, `Own`), that the rows a DELETE took are all of the month or all gone
(`AllOrNothing`), that once inserted, rows replace the whole month (`Replaces`), and that
numbers and months of transactions in progress are apart (`Foreign`, `Distinct`). The wait
for locks is not used. `MonthIsLatest` compares with the newest rows of now: the invariant
`Latest` says that rows computed and rows published are those of the usage as long as no
run changed it. `ReportIsCoherent` relates three queries that see three databases. Rows
stay finite, with natural amounts (`Tallied`); the rows of any aggregation in progress, and
of any month, give the same sum in every dimension (`Balanced`, in `Coherent`), since each
newest row has one value in each; and what an undisturbed report has read is what the
month still says (`Told`). Theorems: `MonthOfOneAggregation`, `MonthOfLatestRows`,
`ReportsAreCoherent`.

**Corpus_proofs.** Assumes `CorpusAssumption`, and of the calibration only that the scale is
a positive number (`CalibrationAssumption`). What a candidate learned is apart from what
it was judged on because the generator drew apart from the set it checked against the
recorded hash, and the invariant carries that relation through the files: to the running
draw, the corpus written, the candidate, the promoted model. `NoiseInv` adds that a draw in
progress contradicts itself nowhere and that the annex explains the corpus it was drawn
with, whichever run wrote the other files. Theorems: `NothingLeaks`, `NoiseIsListed`.

Three more parts have no state to speak of. `SharesAreExact`: quotas rounded down leave fewer
rows than templates, and exactly as many templates are early in the order of remainders as
rows are left (`EarlyOnes`), whatever the ties. `ReportsAreConsistent`: cells of the
confusion matrix partition the rows, so that rows, columns and diagonal count what the
report's other figures count; a gap is an absolute value of a sum, so that the gaps of groups
bound the gap of their union (`GapOfGroups`), and a group bounds that of a part up to its
other rows (`GapWithin`).

`ConfidencesAreIsotonic`: the stack of blocks has an invariant. It cuts the groups seen so
far (`CutInto`), its means are in order, no window that begins where a block begins has a lesser
mean, however far it goes (`Above`), and none that ends where it ends has a greater one
(`Below`). A group that joins the stack breaks the order of the last two blocks only, and a
turn of merges moves that one block down (`JoinStack`, `MergeKeeps`): the mean of a union is
between those of its parts (`AbovePlus`). When nothing is left to merge the invariant holds
again (`StillIsPooled`), which happens within the turns `Push` has (`PushKeeps`). `Above` and
`Below` are then the two inequalities of the minimax at every group of a block (`Minimax`).
Control points rise strictly and have both ends of every block (`Curve`), so that a
validation confidence is at a point or between two of the same value (`InterpOfBlock`); an
interpolation is a weighted mean, and does not decrease (`BetweenIs`, `InterpRises`).
Recursive functions are shown to exist by `Recursion`, and followed by `IntervalInduction`,
over a set of indices instead of a predicate.

**Startups_proofs**, `Sessions`. Assumes `SessionsAssumption` (the TTL is a positive number).
That a page applies what its policy has been for a TTL depends on the cache, which other
startups wrote, some for another client. The invariant says that a page that starts has the
client of the settings, that what it is about to write is its client's policy, and that what
the cache holds is the policy of the client of the settings, each unless something changed at
or after the instant in question (`SameClient`, `Current`, `CacheIsCurrent`). Theorem:
`PolicyIsReached`.

**Startups_proofs**, `Embed`. Assumes `EmbedAssumption` (a listing names the three files). Two invariants: what a construction in peace has
checked and read is still installed (`LoadingInv`); and a measure is followed from what it
loaded to the report, to the promotion that takes the report and to every copy of the
head (`MeasureInv`). The report was compared with the manifest at the check, so what it says is
of the head's own spec only if the code did not change during the promotion: that is what
`proof` remembers, and `MeasuredBeforeServed` excepts nothing else but an encoder replaced
while it was measured. Theorems: `PairMatches`, `MeasuredFirst`.

These theorems state what no run lists: type correctness (`TypeCorrect`, twice,
`PromotionType`, `QueueIsWellFormed`), that an event is sent at most once per
recommendation (`OneEvent`), that leaving is not reported as breakage
(`LeavingIsSilent`), the range of the heuristic's confidences (`HeuristicIsUsual`); and one
action property, `RollbackIsEntire`: a rollback installs nothing torn.

**Only model-checked.** Liveness, which is out of the prover's reach: `SwitchesEnd`,
`NeverBlocked`. Every safety and action property of the passing runs is a
theorem.

## 5. Not modelled

How a text gives its signals, rendering and CSS, the host page beyond what it may refuse,
numeric training and inference, statistics of corpora, `distill.py` and
`public_datasets.py`, which no command of the Makefile trains from, the
rendering of the monthly report, the latencies and breakdowns of an evaluation, the eviction
of conversations from the registry, the volumes of the demonstration data, the hashing of
tokens, deployment. What the router decides in `Serving` is a set of possible decisions. Except in
`Sessions`, wall-clock time appears only as order: a time-out may fire whenever its timer
runs. Opt-out of telemetry is not served by the API of this repository. Code outside the
repository (file system, PostgreSQL, `storage.local`, claude.ai, the interpreter's threads)
is modelled from how the code uses it: operations may fail or be interrupted, single file
renames and single storage calls are atomic.
