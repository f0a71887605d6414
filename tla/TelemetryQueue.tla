--------------------------- MODULE TelemetryQueue ---------------------------
(***************************************************************************)
(* The persistent telemetry queue: every tab of claude.ai runs its own     *)
(* TelemetryQueue over the one storage.local of the extension.             *)
(*                                                                         *)
(*   extension/src/telemetryQueue.ts   enqueue, flush, bumpSent            *)
(*   extension/src/content-main.ts     the flush at startup, sendEvent     *)
(*   extension/src/client.ts           deliverRecoEvent, one bounded try   *)
(*   api/app/routes.py                 record_reco_event, the other end    *)
(*                                                                         *)
(* Nothing is shared between calls but the storage: each call works on its *)
(* own copy, and every await (storage or network) lets the others run. A   *)
(* call is identified by what started it: an event (enqueue) or a tab      *)
(* (the flush of its bootstrap). Time is abstracted: an item that failed   *)
(* before may be due or not; a fresh one is due.                           *)
(***************************************************************************)
EXTENDS Naturals, Sequences, FiniteSets

CONSTANTS
  Events,       \* reco_events, each sent once by the assist flow
  Strict,       \* those of Events that isStrictRecoEvent accepts
  Tabs,
  MaxAttempts,  \* TELEMETRY_MAX_ATTEMPTS
  MaxBoots,     \* bound: pages loaded
  Faulty        \* TRUE: storage.local may reject a get or a set

ASSUME QueueAssumption ==
  /\ Strict \subseteq Events /\ Events \cap Tabs = {}
  /\ MaxAttempts \in Nat \ {0} /\ MaxBoots \in Nat /\ Faulty \in BOOLEAN

Calls == Events \cup Tabs

VARIABLES
  queue,     \* sobrio_telemetry_queue in storage.local
  stats,     \* sobrio_telemetry_sent in storage.local
  open,      \* tabs with a page
  host,      \* tab that runs the call of an event
  call,      \* next await of each call, and its locals
  tries,     \* deliveries attempted for each event
  recorded,  \* events the server recorded
  told,      \* deliveries the server confirmed in time
  boots,     \* bound counter
  stored,    \* history: events written to the queue
  stale,     \* history: calls that hold a copy the queue no longer is
  raced,     \* history: some call wrote over a queue it had not read
  disturbed  \* history: two calls overlapped, or a flush lost its result

serverVars == <<tries, recorded, told>>
history == <<stored, stale, raced, disturbed>>
vars == <<queue, stats, open, host, call, serverVars, boots, history>>

Step == {"idle", "push", "flush", "items", "write", "count", "bump", "over"}

Fresh(e) == [event |-> e, attempts |-> 0]
Item == [event : Events, attempts : 0 .. MaxAttempts - 1]

\* left: what flush has not handled (or enqueue will push to); kept: remaining;
\* sent: sent, then the sum bumpSent will write.
Call == [at : Step, left : Seq(Item), kept : Seq(Item), sent : Nat]
At(step) == [at |-> step, left |-> <<>>, kept |-> <<>>, sent |-> 0]

TypeOK ==
  /\ queue \in Seq(Item) /\ stats \in Nat
  /\ open \subseteq Tabs
  /\ host \in [Events -> Tabs]
  /\ call \in [Calls -> Call]
  /\ tries \in [Events -> Nat] /\ recorded \subseteq Events /\ told \in Nat
  /\ boots \in 0 .. MaxBoots
  /\ stored \subseteq Events /\ stale \subseteq Calls
  /\ raced \in BOOLEAN /\ disturbed \in BOOLEAN

Init ==
  /\ queue = <<>> /\ stats = 0
  /\ open = {}
  /\ host \in [Events -> Tabs]
  /\ call = [c \in Calls |-> At("idle")]
  /\ tries = [e \in Events |-> 0] /\ recorded = {} /\ told = 0
  /\ boots = 0
  /\ stored = {} /\ stale = {} /\ raced = FALSE /\ disturbed = FALSE

\* A call that ends: an event is enqueued once, a tab may boot again.
Done(c) == At(IF c \in Tabs THEN "idle" ELSE "over")
Becomes(c, local) == call' = [call EXCEPT ![c] = local]

Running(c) == call[c].at \notin {"idle", "over"}
HoldsCopy(c) == call[c].at \in {"push", "items", "write"}

\* readQueue returns q: the queue, or nothing when storage.get is rejected.
Reads(c, q) ==
  /\ \/ q = queue /\ stale' = stale
     \/ Faulty /\ queue # <<>> /\ q = <<>> /\ stale' = stale \cup {c}
  /\ disturbed' = (disturbed \/ \E d \in Calls \ {c} : Running(d))
  /\ UNCHANGED <<queue, raced>>

Readable == {queue} \cup (IF Faulty THEN {<<>>} ELSE {})

\* storage.set: the copies of the other calls are no longer the queue.
Writes(c, new) ==
  /\ queue' = new
  /\ raced' = (raced \/ c \in stale)
  /\ stale' = {d \in Calls \ {c} : HoldsCopy(d)}

\* A rejected set is silent.
WriteFails(c) == Faulty /\ stale' = stale \ {c} /\ UNCHANGED <<queue, raced>>

-----------------------------------------------------------------------------
(* Pages *)

\* bootstrap: the page of tab t loads and flushes what past sessions left. It
\* does so whatever telemetryAllowed says, which only silences sendEvent: a
\* page without the right to send is one on which no event happens.
Boot(t) ==
  /\ t \notin open /\ boots < MaxBoots
  /\ boots' = boots + 1
  /\ open' = open \cup {t}
  /\ Becomes(t, At("flush"))
  /\ UNCHANGED <<queue, stats, host, serverVars, history>>

\* The page goes away at any moment, with the calls it runs.
Leave(t) ==
  LET gone == {c \in Calls : Running(c) /\ (c = t \/ (c \in Events /\ host[c] = t))}
  IN /\ t \in open
     /\ open' = open \ {t}
     /\ call' = [c \in Calls |-> IF c \in gone THEN Done(c) ELSE call[c]]
     /\ stale' = stale \ gone
     /\ disturbed' = (disturbed \/ \E c \in gone : call[c].at \in {"items", "write"})
     /\ UNCHANGED <<queue, stats, host, serverVars, boots, stored, raced>>

-----------------------------------------------------------------------------
(* enqueue *)

\* sendEvent on an open page: an event that is not strict is dropped; otherwise
\* the queue is read.
Enqueue(e) ==
  /\ call[e].at = "idle" /\ e \in Strict /\ host[e] \in open
  /\ \E q \in Readable :
       /\ Reads(e, q)
       /\ Becomes(e, [At("push") EXCEPT !.left = q])
  /\ UNCHANGED <<stats, open, host, serverVars, boots, stored>>

\* The event is pushed on the copy, the copy written, and flush called.
Push(e) ==
  /\ call[e].at = "push"
  /\ \/ Writes(e, Append(call[e].left, Fresh(e))) /\ stored' = stored \cup {e}
     \/ WriteFails(e) /\ UNCHANGED stored
  /\ Becomes(e, At("flush"))
  /\ UNCHANGED <<stats, open, host, serverVars, boots, disturbed>>

-----------------------------------------------------------------------------
(* flush *)

Flush(c) ==
  /\ call[c].at = "flush"
  /\ \E q \in Readable :
       IF q = <<>>
       THEN Becomes(c, Done(c)) /\ UNCHANGED <<queue, history>>
       ELSE /\ Reads(c, q)
            /\ Becomes(c, [At("items") EXCEPT !.left = q])
            /\ UNCHANGED stored
  /\ UNCHANGED <<stats, open, host, serverVars, boots>>

GivesUp(attempts) == attempts >= MaxAttempts

\* The first item left is handled: it comes back as the items of back, and n
\* deliveries are counted.
Handled(c, back, n) ==
  Becomes(c, [at |-> IF Len(call[c].left) = 1 THEN "write" ELSE "items",
              left |-> Tail(call[c].left),
              kept |-> call[c].kept \o back,
              sent |-> call[c].sent + n])

\* The failed attempt is not counted.
MutRetry(item) == IF GivesUp(item.attempts + 1) THEN <<>> ELSE <<item>>

Retry(item) == IF GivesUp(item.attempts + 1) THEN <<>> ELSE <<[item EXCEPT !.attempts = @ + 1]>>

\* An item that is not due is dropped from the queue.
MutNotDue(c) ==
  /\ call[c].at = "items" /\ Head(call[c].left).attempts > 0
  /\ Handled(c, <<>>, 0)
  /\ UNCHANGED <<queue, stats, open, host, serverVars, boots, history>>

\* An item that failed before may not be due yet: it is kept.
NotDue(c) ==
  /\ call[c].at = "items" /\ Head(call[c].left).attempts > 0
  /\ Handled(c, <<Head(call[c].left)>>, 0)
  /\ UNCHANGED <<queue, stats, open, host, serverVars, boots, history>>

\* The server records the event and its answer comes in time.
Delivered(c) ==
  LET item == Head(call[c].left)
  IN /\ call[c].at = "items"
     /\ tries' = [tries EXCEPT ![item.event] = @ + 1]
     /\ recorded' = recorded \cup {item.event}
     /\ told' = told + 1
     /\ Handled(c, <<>>, 1)
     /\ UNCHANGED <<queue, stats, open, host, boots, history>>

\* The attempt is counted as sent whatever its result.
MutNotDelivered(c) ==
  LET item == Head(call[c].left)
  IN /\ call[c].at = "items"
     /\ tries' = [tries EXCEPT ![item.event] = @ + 1]
     /\ recorded' \in {recorded, recorded \cup {item.event}}
     /\ Handled(c, Retry(item), 1)
     /\ UNCHANGED <<queue, stats, open, host, told, boots, history>>

\* The delivery fails, or its answer comes after the timeout: the server may
\* have recorded the event all the same.
NotDelivered(c) ==
  LET item == Head(call[c].left)
  IN /\ call[c].at = "items"
     /\ tries' = [tries EXCEPT ![item.event] = @ + 1]
     /\ recorded' \in {recorded, recorded \cup {item.event}}
     /\ Handled(c, Retry(item), 0)
     /\ UNCHANGED <<queue, stats, open, host, told, boots, history>>

AfterWrite(c) == IF call[c].sent = 0 THEN Done(c) ELSE [At("count") EXCEPT !.sent = call[c].sent]

\* What remains is added to the queue instead of replacing it.
MutWriteBack(c) ==
  /\ call[c].at = "write"
  /\ \/ Writes(c, call[c].kept \o queue) /\ UNCHANGED disturbed
     \/ WriteFails(c) /\ disturbed' = TRUE
  /\ Becomes(c, AfterWrite(c))
  /\ UNCHANGED <<stats, open, host, serverVars, boots, stored>>

\* writeQueue(remaining).
WriteBack(c) ==
  /\ call[c].at = "write"
  /\ \/ Writes(c, call[c].kept) /\ UNCHANGED disturbed
     \/ WriteFails(c) /\ disturbed' = TRUE
  /\ Becomes(c, AfterWrite(c))
  /\ UNCHANGED <<stats, open, host, serverVars, boots, stored>>

\* bumpSent reads the counter (0 when the get is rejected) ...
CountSent(c) ==
  /\ call[c].at = "count"
  /\ \E read \in {stats} \cup (IF Faulty THEN {0} ELSE {}) :
       Becomes(c, [At("bump") EXCEPT !.sent = read + call[c].sent])
  /\ UNCHANGED <<queue, stats, open, host, serverVars, boots, history>>

\* ... and writes the sum.
BumpSent(c) ==
  /\ call[c].at = "bump"
  /\ \/ stats' = call[c].sent
     \/ Faulty /\ UNCHANGED stats
  /\ Becomes(c, Done(c))
  /\ UNCHANGED <<queue, open, host, serverVars, boots, history>>

-----------------------------------------------------------------------------
FlushStep(c) ==
  \/ Flush(c) \/ NotDue(c) \/ Delivered(c) \/ NotDelivered(c)
  \/ WriteBack(c) \/ CountSent(c) \/ BumpSent(c)

Next ==
  \/ \E t \in Tabs : Boot(t) \/ Leave(t)
  \/ \E e \in Events : Enqueue(e) \/ Push(e)
  \/ \E c \in Calls : FlushStep(c)

Spec == Init /\ [][Next]_vars

-----------------------------------------------------------------------------
(* Properties *)

\* No event is ever twice in the stored queue, whatever calls overlap (every
\* write of telemetryQueue.ts replaces the queue by one read before, minus
\* handled items, plus one new event).
NoDuplicateEntry ==
  \A i, j \in DOMAIN queue : queue[i].event = queue[j].event => i = j

\* An event that reached the queue is still there, or recorded by the server,
\* or attempted as often as allowed.
Settled(e) == (\E i \in DOMAIN queue : queue[i].event = e) \/ e \in recorded \/ tries[e] >= MaxAttempts

\* "La file survit aux rechargements de page" (telemetryQueue.ts): pages may
\* close at any await, flushes may repeat deliveries, and no event is lost, as
\* long as no call wrote over a queue it had not read.
KeptWithoutRace == ~raced => \A e \in stored : Settled(e)

\* The same with nothing assumed of the overlap of calls.
KeptUntilSettled == \A e \in stored : Settled(e)

\* "max 3 tentatives" (telemetryQueue.ts): holds over any number of pages, when
\* calls do not overlap and no flush is cut between a delivery and its write.
AtMostMaxAttempts == ~disturbed => \A e \in Events : tries[e] <= MaxAttempts

\* The count the popup shows (bumpSent) never claims more deliveries than the
\* server confirmed, although concurrent increments are lost.
SentNeverOverstated == stats <= told

=============================================================================
