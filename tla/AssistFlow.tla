----------------------------- MODULE AssistFlow -----------------------------
(***************************************************************************)
(* The assistance flow of one claude.ai tab: from a pause in the typing to *)
(* the single telemetry event of the recommendation it produced.           *)
(*                                                                         *)
(*   extension/src/content-main.ts   the flow, the deferred acceptance     *)
(*   extension/src/panel.ts          the buttons of the panel and badge    *)
(*   extension/src/modelSwitcher.ts  the queue of model switches           *)
(*   extension/src/spaLifecycle.ts   which conversation is the current one *)
(*   extension/src/conversationMemory.ts  the counters of a conversation   *)
(*                                                                         *)
(* JavaScript runs one task at a time: every action below is one task with *)
(* the microtasks it triggers. A switch waits on timers three times, so it *)
(* is three tasks (menu, click, read back) and anything may happen between *)
(* them. A pause needs 600 ms without typing and a recommendation is given *)
(* up after 400 ms, so at most one flow waits for its recommendation.      *)
(***************************************************************************)
EXTENDS Integers, Sequences, FiniteSets

CONSTANTS
  MaxFlows,   \* bound: pauses with a text in the input area
  NumModels,  \* the catalogue, ordered by cost like KNOWN_MODELS
  Threads,    \* conversations the user visits in this tab
  Anonymous,  \* those of Threads without a thread id (new, project)
  NoThread,   \* a memory that has seen no thread id yet
  Modes,      \* effective assist modes, one is chosen when the page loads
  MaxMoves,   \* bound: navigations and models picked by the user
  Bypass      \* TRUE: the router of the page may avoid the History API

ASSUME FlowAssumption ==
  /\ MaxFlows \in Nat \ {0}
  /\ NumModels \in Nat \ {0}
  /\ MaxMoves \in Nat
  /\ Threads # {} /\ Anonymous \subseteq Threads /\ NoThread \notin Threads
  /\ Modes # {} /\ Modes \subseteq {"guide", "one_click", "auto"}
  /\ Bypass \in BOOLEAN

Flow == 1 .. MaxFlows
NoFlow == 0
Model == 1 .. NumModels
NoModel == 0

VARIABLES
  mode,       \* assistMode, fixed by bootstrap
  closed,     \* pagehide happened
  shown,      \* conversation the page displays (location.pathname)
  key,        \* conversation the extension believes displayed (spaLifecycle key)
  model,      \* model selected in each conversation, read by its label
  started,    \* flows started so far; flow f is the f-th
  asking,     \* flow that awaits its recommendation
  gen,        \* flowGeneration: the last flow that displayed a panel
  origin,     \* flowKey: conversation frozen by the flow
  reco,       \* recommended_model of the flow
  prev,       \* previousModel of the flow
  sw,         \* switchInFlight of the flow, then what became of it
  verdict,    \* outcome sent for the flow
  sent,       \* reco_events sent for the flow
  panelFlow,  \* flow whose panel is mounted
  panelKind,  \* which buttons that panel has
  pending,    \* pendingAutoAccept: flow whose acceptance waits
  queue,      \* switchQueue, its head is the switch being executed
  stage,      \* how far the head of the queue went
  memory,     \* ConversationMemory of each conversation
  alerted,    \* flows that reported selector_broken
  replaced,   \* history: model that the automatic switch of a flow replaced
  moves       \* bound counter

flowVars == <<origin, reco, prev, sw, verdict, sent, asking, gen, started>>
panelVars == <<panelFlow, panelKind, pending>>
switchVars == <<queue, stage, replaced>>
pageVars == <<shown, key, model, moves>>
vars == <<mode, closed, flowVars, panelVars, switchVars, pageVars, memory, alerted>>

Switching == {"none", "inflight", "ok", "failed", "left"}
Outcomes == {"none", "accepted", "rejected", "followed", "overridden"}
PanelKind == {"none", "choice", "already", "switched", "ackChoice", "ackSwitched"}
Purpose == {"auto", "restore", "click"}
Job == [flow : Flow, target : Model, purpose : Purpose]
Memory == [id : Threads \cup {NoThread}, shown : Nat, followed : Nat, up : Nat]

(* Definitions whose name starts with Mut are faulty variants of the definition  *)
(* that follows them, each with a slip the code is written to avoid. They serve *)
(* to show that the properties can fail; nothing else refers to them.           *)

EmptyMemory(id) == [id |-> id, shown |-> 0, followed |-> 0, up |-> 0]

TypeOK ==
  /\ mode \in Modes /\ closed \in BOOLEAN
  /\ shown \in Threads /\ key \in Threads /\ model \in [Threads -> Model]
  /\ started \in 0 .. MaxFlows /\ asking \in 0 .. MaxFlows /\ gen \in 0 .. MaxFlows
  /\ origin \in [Flow -> Threads]
  /\ reco \in [Flow -> 0 .. NumModels] /\ prev \in [Flow -> 0 .. NumModels]
  /\ sw \in [Flow -> Switching]
  /\ verdict \in [Flow -> Outcomes] /\ sent \in [Flow -> Nat]
  /\ panelFlow \in 0 .. MaxFlows /\ panelKind \in PanelKind
  /\ pending \in 0 .. MaxFlows
  /\ queue \in Seq(Job) /\ stage \in {"idle", "open", "settling"}
  /\ memory \in [Threads -> Memory]
  /\ alerted \subseteq Flow
  /\ replaced \in [Flow -> 0 .. NumModels]
  /\ moves \in 0 .. MaxMoves

Init ==
  /\ mode \in Modes
  /\ closed = FALSE
  /\ shown \in Threads
  /\ key = shown
  /\ model \in [Threads -> Model]
  /\ started = 0 /\ asking = NoFlow /\ gen = NoFlow
  /\ origin = [f \in Flow |-> shown]
  /\ reco = [f \in Flow |-> NoModel] /\ prev = [f \in Flow |-> NoModel]
  /\ sw = [f \in Flow |-> "none"]
  /\ verdict = [f \in Flow |-> "none"] /\ sent = [f \in Flow |-> 0]
  /\ panelFlow = NoFlow /\ panelKind = "none" /\ pending = NoFlow
  /\ queue = <<>> /\ stage = "idle"
  /\ memory = [t \in Threads |-> EmptyMemory(NoThread)]
  /\ alerted = {}
  /\ replaced = [f \in Flow |-> NoModel]
  /\ moves = 0

-----------------------------------------------------------------------------
(* Helpers *)

\* A task starts only when the microtasks are drained: a switch that heads the
\* queue has then begun.
Task == ~closed /\ (queue = <<>> \/ stage # "idle")

Current(f) == key = origin[f]
IsLatest(f) == gen = f
PanelPresent == panelKind # "none"
Committed(f) == verdict[f] \in {"accepted", "rejected"}

Count(m, t, field) == [m EXCEPT ![t][field] = @ + 1]

\* noteDerogation counts only a choice dearer than the recommendation.
Derogation(m, f, chosen) == IF chosen > reco[f] THEN Count(m, origin[f], "up") ELSE m

\* The pending acceptance, committed now: its verdict, its event, its counter.
FlushVerdict == IF pending = NoFlow \/ Committed(pending) THEN verdict
                ELSE [verdict EXCEPT ![pending] = "accepted"]
FlushSent == IF pending = NoFlow \/ Committed(pending) THEN sent
             ELSE [sent EXCEPT ![pending] = @ + 1]
FlushMemory(m) == IF pending = NoFlow \/ Committed(pending) THEN m
                  ELSE Count(m, origin[pending], "followed")

FlushPendingAutoAccept(m) ==
  /\ pending' = NoFlow
  /\ verdict' = FlushVerdict
  /\ sent' = FlushSent
  /\ memory' = FlushMemory(m)

RemovePanel == panelFlow' = NoFlow /\ panelKind' = "none"

Request(f, target, purpose) == [flow |-> f, target |-> target, purpose |-> purpose]

\* onFollow and onOverride: the guide mode has no applyModel.
Enqueue(f, target, purpose) ==
  queue' = IF mode = "guide" THEN queue ELSE Append(queue, Request(f, target, purpose))

-----------------------------------------------------------------------------
(* The user pauses: onPause, updateFromPage, then runRecommendationFlow *)

\* updateFromPage resets the memory of the conversation believed current when
\* the page shows another thread id, or fewer bubbles in an anonymous thread.
PageView(m) ==
  LET old == m[key]
      changed == shown \notin Anonymous /\ old.id # shown
  IN IF changed THEN {[m EXCEPT ![key] = EmptyMemory(shown)]}
     ELSE IF shown \in Anonymous THEN {m, [m EXCEPT ![key] = EmptyMemory(NoThread)]}
     ELSE {m}

\* A pause on a text: the conversation is frozen and the recommendation asked.
Pause ==
  /\ Task /\ asking = NoFlow /\ started < MaxFlows
  /\ started' = started + 1
  /\ asking' = started + 1
  /\ origin' = [origin EXCEPT ![started + 1] = key]
  /\ memory' \in PageView(memory)
  /\ UNCHANGED <<mode, closed, reco, prev, sw, verdict, sent, gen, panelVars,
                 switchVars, pageVars, alerted>>

\* A pause on an empty input area retires the panel.
EmptyPause ==
  /\ Task /\ asking = NoFlow
  /\ \E m \in PageView(memory) : FlushPendingAutoAccept(m)
  /\ RemovePanel
  /\ UNCHANGED <<mode, closed, origin, reco, prev, sw, asking, gen, started,
                 switchVars, pageVars, alerted>>

\* The call fails, or nothing came within 400 ms: nothing is displayed.
RecoFails ==
  /\ Task /\ asking # NoFlow
  /\ asking' = NoFlow
  /\ UNCHANGED <<mode, closed, origin, reco, prev, sw, verdict, sent, gen, started,
                 panelVars, switchVars, pageVars, memory, alerted>>

\* The conversation changed during the call: the recommendation is dropped.
RecoDropped ==
  /\ Task /\ asking # NoFlow /\ ~Current(asking)
  /\ asking' = NoFlow
  /\ UNCHANGED <<mode, closed, origin, reco, prev, sw, verdict, sent, gen, started,
                 panelVars, switchVars, pageVars, memory, alerted>>

\* The conversation is not checked again when the recommendation arrives.
MutRecoShown(m, confident, readable) ==
  LET f == asking
  IN /\ Task /\ f # NoFlow
     /\ asking' = NoFlow
     /\ gen' = f
     /\ reco' = [reco EXCEPT ![f] = m]
     /\ FlushPendingAutoAccept(Count(memory, origin[f], "shown"))
     /\ panelFlow' = f
     /\ panelKind' = "choice"
     /\ UNCHANGED <<mode, closed, origin, prev, sw, started, switchVars, pageVars, alerted>>

\* The recommendation m is displayed. confident: its confidence reaches the
\* threshold; readable: the label of the current model can be read.
RecoShown(m, confident, readable) ==
  LET f == asking
      tryAuto == mode = "auto" /\ confident
      before == IF tryAuto /\ readable THEN model[shown] ELSE NoModel
      autoSwitch == before # NoModel /\ before # m
  IN /\ Task /\ f # NoFlow /\ Current(f)
     /\ asking' = NoFlow
     /\ gen' = f
     /\ reco' = [reco EXCEPT ![f] = m]
     /\ prev' = [prev EXCEPT ![f] = before]
     /\ alerted' = IF tryAuto /\ ~readable THEN alerted \cup {f} ELSE alerted
     /\ FlushPendingAutoAccept(Count(memory, origin[f], "shown"))
     /\ panelFlow' = f
     /\ panelKind' = CASE autoSwitch -> "switched"
                       [] before = m -> "already"
                       [] OTHER -> "choice"
     /\ sw' = IF autoSwitch THEN [sw EXCEPT ![f] = "inflight"] ELSE sw
     /\ queue' = IF autoSwitch THEN Append(queue, Request(f, m, "auto")) ELSE queue
     /\ UNCHANGED <<mode, closed, origin, started, stage, replaced, pageVars>>

-----------------------------------------------------------------------------
(* The buttons of the panel *)

\* The buttons stay after the click.
MutFollowClick ==
  LET f == panelFlow
  IN /\ Task /\ panelKind = "choice"
     /\ verdict' = [verdict EXCEPT ![f] = "followed"]
     /\ sent' = [sent EXCEPT ![f] = @ + 1]
     /\ memory' = Count(memory, origin[f], "followed")
     /\ Enqueue(f, reco[f], "click")
     /\ UNCHANGED <<mode, closed, origin, reco, prev, sw, asking, gen, started,
                    panelVars, stage, replaced, pageVars, alerted>>

\* onFollow, then acknowledge removes the buttons.
FollowClick ==
  LET f == panelFlow
  IN /\ Task /\ panelKind = "choice"
     /\ verdict' = [verdict EXCEPT ![f] = "followed"]
     /\ sent' = [sent EXCEPT ![f] = @ + 1]
     /\ memory' = Count(memory, origin[f], "followed")
     /\ Enqueue(f, reco[f], "click")
     /\ panelKind' = "ackChoice"
     /\ UNCHANGED <<mode, closed, origin, reco, prev, sw, asking, gen, started,
                    panelFlow, pending, stage, replaced, pageVars, alerted>>

\* onOverride: another model of the list is chosen.
OverrideClick(m) ==
  LET f == panelFlow
  IN /\ Task /\ panelKind = "choice" /\ m # reco[f]
     /\ verdict' = [verdict EXCEPT ![f] = "overridden"]
     /\ sent' = [sent EXCEPT ![f] = @ + 1]
     /\ memory' = Derogation(memory, f, m)
     /\ Enqueue(f, m, "click")
     /\ panelKind' = "ackChoice"
     /\ UNCHANGED <<mode, closed, origin, reco, prev, sw, asking, gen, started,
                    panelFlow, pending, stage, replaced, pageVars, alerted>>

\* onCancel is commitReject: the rejection is sent at once, the restoration
\* waits for the switch when it is still in flight.
CancelClick ==
  LET f == panelFlow
  IN /\ Task /\ panelKind = "switched"
     /\ panelKind' = "ackSwitched"
     /\ IF Committed(f) \/ prev[f] = NoModel
        THEN UNCHANGED <<verdict, sent, memory, pending, queue>>
        ELSE /\ verdict' = [verdict EXCEPT ![f] = "rejected"]
             /\ sent' = [sent EXCEPT ![f] = @ + 1]
             /\ memory' = Derogation(memory, f, prev[f])
             /\ pending' = IF pending = f THEN NoFlow ELSE pending
             /\ queue' = IF sw[f] = "inflight" THEN queue
                         ELSE Append(queue, Request(f, prev[f], "restore"))
     /\ UNCHANGED <<mode, closed, origin, reco, prev, sw, asking, gen, started,
                    panelFlow, stage, replaced, pageVars, alerted>>

\* The cross or Escape: onDismiss is wired on a "switched" panel only.
DismissClick ==
  /\ Task /\ PanelPresent
  /\ IF panelKind \in {"switched", "ackSwitched"}
     THEN FlushPendingAutoAccept(memory)
     ELSE UNCHANGED <<pending, verdict, sent, memory>>
  /\ RemovePanel
  /\ UNCHANGED <<mode, closed, origin, reco, prev, sw, asking, gen, started,
                 switchVars, pageVars, alerted>>

\* The flush and the removal shared by the badge and the changes of conversation.
LeavePanel ==
  /\ FlushPendingAutoAccept(memory)
  /\ RemovePanel
  /\ UNCHANGED <<mode, origin, reco, prev, sw, asking, gen, started, switchVars, alerted>>

\* The badge retires the panel without committing the pending acceptance.
MutBadgeClick ==
  /\ Task /\ PanelPresent /\ RemovePanel
  /\ UNCHANGED <<mode, closed, flowVars, pending, switchVars, pageVars, memory, alerted>>

BadgeClick == Task /\ PanelPresent /\ LeavePanel /\ UNCHANGED <<closed, pageVars>>

-----------------------------------------------------------------------------
(* The page: navigation, models picked by the user, end of the page *)

\* pushState, replaceState, popstate: the key follows at once. When the key was
\* stale and the page comes back to it, nothing is noticed.
Navigate(t) ==
  /\ Task /\ t # shown /\ moves < MaxMoves
  /\ moves' = moves + 1
  /\ shown' = t /\ key' = t
  /\ IF t # key THEN LeavePanel
     ELSE UNCHANGED <<mode, flowVars, panelVars, switchVars, memory, alerted>>
  /\ UNCHANGED <<closed, model>>

\* A router of the page that avoids History: only the poll will notice.
NavigateUnseen(t) ==
  /\ Bypass
  /\ Task /\ t # shown /\ moves < MaxMoves
  /\ moves' = moves + 1
  /\ shown' = t
  /\ UNCHANGED <<mode, closed, flowVars, panelVars, switchVars, key, model, memory, alerted>>

\* poll, every 2 s.
Poll ==
  /\ Task /\ key # shown
  /\ key' = shown
  /\ LeavePanel
  /\ UNCHANGED <<closed, shown, model, moves>>

\* The user picks a model in the selector of the page.
UserPicks(m) ==
  /\ Task /\ model[shown] # m /\ moves < MaxMoves
  /\ moves' = moves + 1
  /\ model' = [model EXCEPT ![shown] = m]
  /\ UNCHANGED <<mode, closed, flowVars, panelVars, switchVars, shown, key, memory, alerted>>

\* pagehide: the pending acceptance is committed and the page goes away with
\* the flows and switches in flight.
PageHide ==
  /\ Task
  /\ closed' = TRUE
  /\ LeavePanel
  /\ UNCHANGED pageVars

-----------------------------------------------------------------------------
(* The head of switchQueue: applyModelInPageExclusive *)

Busy == ~closed /\ queue # <<>>

\* The label differs from the target: the menu is opened, the item looked for.
OpenMenu ==
  /\ Busy /\ stage = "idle" /\ model[shown] # Head(queue).target
  /\ stage' = "open"
  /\ UNCHANGED <<mode, closed, flowVars, panelVars, queue, replaced, pageVars, memory, alerted>>

\* The item is clicked without checking the conversation.
MutClickItem(effective) ==
  LET j == Head(queue)
  IN /\ Busy /\ stage = "open"
     /\ stage' = "settling"
     /\ model' = IF effective THEN [model EXCEPT ![shown] = j.target] ELSE model
     /\ UNCHANGED <<mode, closed, flowVars, panelVars, queue, replaced, shown, key, moves,
                    memory, alerted>>

\* The item was found and the conversation is still the one of the flow: it is
\* clicked. The page may ignore the click.
ClickItem(effective) ==
  LET j == Head(queue)
  IN /\ Busy /\ stage = "open"
     /\ Current(j.flow)
     /\ stage' = "settling"
     /\ model' = IF effective THEN [model EXCEPT ![shown] = j.target] ELSE model
     /\ replaced' = IF j.purpose = "auto" THEN [replaced EXCEPT ![j.flow] = model[shown]]
                    ELSE replaced
     /\ UNCHANGED <<mode, closed, flowVars, panelVars, queue, shown, key, moves, memory, alerted>>

\* The wait for the menu item has no deadline.
MutResolves(ok) ==
  /\ Busy /\ stage # "open"
  /\ ok => model[shown] = Head(queue).target

\* What the promise of the head may resolve to now. TRUE: the label already is
\* the target, or is after the click. FALSE: no button, no item, conversation
\* left before the click, or a label that does not match or cannot be read.
Resolves(ok) ==
  /\ Busy
  /\ ok => stage # "open" /\ model[shown] = Head(queue).target

\* applyAndReport: a failure is reported unless the conversation was left.
Report(f, ok) == alerted' = IF ~ok /\ Current(f) THEN alerted \cup {f} ELSE alerted

\* Common part of what follows the resolution of the head.
Resolved(ok) ==
  /\ Resolves(ok)
  /\ stage' = "idle"
  /\ Report(Head(queue).flow, ok)
  /\ UNCHANGED <<mode, closed, origin, reco, prev, asking, gen, started, replaced, pageVars>>

\* A switch asked by a click or a restoration: nobody waits for it.
RequestEnds(ok) ==
  /\ Resolved(ok) /\ Head(queue).purpose # "auto"
  /\ queue' = Tail(queue)
  /\ UNCHANGED <<sw, verdict, sent, panelVars, memory>>

\* The flow stops there: the restoration is forgotten.
MutCancelledSwitchEnds(ok) ==
  LET f == Head(queue).flow
  IN /\ Resolved(ok) /\ Head(queue).purpose = "auto" /\ Committed(f)
     /\ sw' = [sw EXCEPT ![f] = IF ok THEN "ok" ELSE "failed"]
     /\ queue' = Tail(queue)
     /\ UNCHANGED <<verdict, sent, panelVars, memory>>

\* Cancel was clicked in flight: the flow stops and the restoration is queued.
CancelledSwitchEnds(ok) ==
  LET f == Head(queue).flow
  IN /\ Resolved(ok) /\ Head(queue).purpose = "auto" /\ Committed(f)
     /\ sw' = [sw EXCEPT ![f] = IF ok THEN "ok" ELSE "failed"]
     /\ queue' = Append(Tail(queue), Request(f, prev[f], "restore"))
     /\ UNCHANGED <<verdict, sent, panelVars, memory>>

\* The flow resumes with its outcome open.
FlowResumes(ok) ==
  /\ Resolved(ok) /\ Head(queue).purpose = "auto" /\ ~Committed(Head(queue).flow)
  /\ queue' = Tail(queue)

\* The conversation was left during the switch: no verdict at all.
LeftSwitchEnds(ok) ==
  LET f == Head(queue).flow
  IN /\ FlowResumes(ok) /\ ~Current(f)
     /\ sw' = [sw EXCEPT ![f] = "left"]
     /\ UNCHANGED <<verdict, sent, panelVars, memory>>

\* The acceptance waits even when a newer flow was displayed.
MutSwitchHeld ==
  LET f == Head(queue).flow
  IN /\ FlowResumes(TRUE) /\ Current(f)
     /\ sw' = [sw EXCEPT ![f] = "ok"]
     /\ pending' = f
     /\ UNCHANGED <<verdict, sent, panelFlow, panelKind, memory>>

\* Verified and still displayed: the acceptance waits, Cancel stays possible.
SwitchHeld ==
  LET f == Head(queue).flow
  IN /\ FlowResumes(TRUE) /\ Current(f) /\ IsLatest(f) /\ PanelPresent
     /\ sw' = [sw EXCEPT ![f] = "ok"]
     /\ pending' = f
     /\ UNCHANGED <<verdict, sent, panelFlow, panelKind, memory>>

\* Verified, but superseded or dismissed meanwhile: accepted at once.
SwitchAccepted ==
  LET f == Head(queue).flow
  IN /\ FlowResumes(TRUE) /\ Current(f) /\ ~(IsLatest(f) /\ PanelPresent)
     /\ sw' = [sw EXCEPT ![f] = "ok"]
     /\ verdict' = [verdict EXCEPT ![f] = "accepted"]
     /\ sent' = [sent EXCEPT ![f] = @ + 1]
     /\ memory' = Count(memory, origin[f], "followed")
     /\ pending' = IF pending = f THEN NoFlow ELSE pending
     /\ UNCHANGED <<panelFlow, panelKind>>

\* The acceptance is committed whatever the result of the switch.
MutSwitchFailed ==
  LET f == Head(queue).flow
  IN /\ FlowResumes(FALSE) /\ Current(f)
     /\ sw' = [sw EXCEPT ![f] = "failed"]
     /\ verdict' = [verdict EXCEPT ![f] = "accepted"]
     /\ sent' = [sent EXCEPT ![f] = @ + 1]
     /\ memory' = Count(memory, origin[f], "followed")
     /\ UNCHANGED panelVars

\* Failed: the panel, if it still is the one of the flow, offers the choice.
SwitchFailed ==
  LET f == Head(queue).flow
  IN /\ FlowResumes(FALSE) /\ Current(f)
     /\ sw' = [sw EXCEPT ![f] = "failed"]
     /\ IF IsLatest(f) /\ PanelPresent
        THEN panelFlow' = f /\ panelKind' = "choice"
        ELSE UNCHANGED <<panelFlow, panelKind>>
     /\ UNCHANGED <<verdict, sent, pending, memory>>

-----------------------------------------------------------------------------
SwitchStep ==
  \/ OpenMenu
  \/ \E effective \in BOOLEAN : ClickItem(effective)
  \/ \E ok \in BOOLEAN : RequestEnds(ok) \/ CancelledSwitchEnds(ok) \/ LeftSwitchEnds(ok)
  \/ SwitchHeld
  \/ SwitchAccepted
  \/ SwitchFailed

RecoStep ==
  \/ RecoFails
  \/ RecoDropped
  \/ \E m \in Model, confident, readable \in BOOLEAN : RecoShown(m, confident, readable)

UserStep ==
  \/ Pause
  \/ EmptyPause
  \/ FollowClick
  \/ \E m \in Model : OverrideClick(m) \/ UserPicks(m)
  \/ CancelClick
  \/ DismissClick
  \/ BadgeClick
  \/ \E t \in Threads : Navigate(t) \/ NavigateUnseen(t)
  \/ PageHide

Next == UserStep \/ RecoStep \/ SwitchStep \/ Poll

\* The timers of the switch in progress fire: the menu and settle delays. The user promises
\* nothing, nor the router, and the poll is not needed.
Fairness == WF_vars(SwitchStep)

Spec == Init /\ [][Next]_vars
FairSpec == Spec /\ Fairness

-----------------------------------------------------------------------------
(* Properties *)

\* At most one reco_event is ever sent for a recommendation, whatever the order
\* of clicks, replaced panels, navigations and late switches ("un seul evenement
\* net par reco", content-main.ts).
OneEventPerReco == \A f \in Flow : sent[f] = (IF verdict[f] = "none" THEN 0 ELSE 1)

\* An automatic switch that was verified in its conversation is never orphaned:
\* it is accepted, rejected, or it is the one acceptance that waits; and nothing
\* else is ever reported as accepted (flowGeneration and pendingAutoAccept).
AcceptanceMatchesSwitch ==
  \A f \in Flow :
    /\ sw[f] = "ok" => verdict[f] \in {"accepted", "rejected"} \/ pending = f
    /\ verdict[f] = "accepted" => sw[f] = "ok"

\* While an acceptance waits, the panel displays Cancel for that very flow: the
\* wait can always be ended by the user, either way.
PendingIsCancellable ==
  pending # NoFlow => /\ panelFlow = pending
                      /\ panelKind = "switched"
                      /\ verdict[pending] = "none"

\* The panel never outlives its conversation nor a newer recommendation (as far
\* as the extension knows the conversation, through its key).
PanelIsOfThisConversation ==
  PanelPresent => panelFlow = gen /\ origin[panelFlow] = key

\* Leaving a conversation during a switch is no breakage of the page: a flow
\* that was abandoned this way never reported selector_broken.
LeavingIsNotBreakage == \A f \in Flow : sw[f] = "left" => f \notin alerted

\* The extension changes the model of no other conversation than the one of the
\* flow, except while a navigation is still unseen by the poll.
NoForeignSwitch ==
  [][\A t \in Threads :
       model'[t] # model[t] /\ moves' = moves /\ shown = key
         => queue # <<>> /\ origin[Head(queue).flow] = t]_vars

\* Every chained switch comes to an end (unless the page goes away): the automatic one, those
\* asked by a click, the restoration, each behind the others on one promise.
Chained(f) == \E i \in 1 .. Len(queue) : queue[i].flow = f

SwitchesEnd == \A f \in Flow : Chained(f) ~> ~Chained(f) \/ closed

\* A Cancel is served to its end, though the switch it refuses is in flight and others are
\* queued: the restoration is owed until the conversation has its model back, or the user is
\* told, or has left the conversation; unless a navigation is still unseen by the poll. With
\* SwitchesEnd it is not owed for ever.
Owed(f) ==
  /\ verdict[f] = "rejected"
  /\ \/ sw[f] = "inflight"
     \/ \E i \in 1 .. Len(queue) : queue[i] = Request(f, prev[f], "restore")

CancelIsServed ==
  [][\A f \in Flow :
       Owed(f) /\ ~Owed(f)' /\ Current(f) /\ shown = key
         => model'[origin[f]] = prev[f] \/ f \in alerted']_vars

\* What Cancel restores is the model the switch replaced (RFC-0003, "Annuler
\* (restaure le modele precedent)").
CancelRestoresReplaced ==
  \A f \in Flow :
    verdict[f] = "rejected" /\ replaced[f] # NoModel => replaced[f] = prev[f]

\* A conversation never counts a recommendation as followed twice, nor one that was not
\* followed in it, whatever resets its counters in between. With a thread id, and as long as
\* the extension knows the conversation displayed, it counts no more followed than shown
\* (quality_report.py:33-34); an anonymous one may, its counters being reset under a panel.
FollowedIn(t) == {f \in Flow : origin[f] = t /\ verdict[f] \in {"accepted", "followed"}}

FollowedWithinShown ==
  \A t \in Threads :
    /\ memory[t].followed <= Cardinality(FollowedIn(t))
    /\ t \notin Anonymous /\ ~Bypass => memory[t].followed <= memory[t].shown

\* Recommendation by recommendation, the flow implements RecoOutcome.
LifeOf(f) ==
  [stage    |-> IF verdict[f] # "none" THEN verdict[f]
                ELSE IF reco[f] # NoModel THEN "shown" ELSE "unseen",
   verified |-> sw[f] = "ok",
   events   |-> sent[f]]

Outcome == INSTANCE RecoOutcome WITH Recos <- Flow, life <- [f \in Flow |-> LifeOf(f)]

ImplementsRecoOutcome == Outcome!Spec

=============================================================================
