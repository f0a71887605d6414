-------------------------- MODULE AssistFlow_proofs --------------------------
(***************************************************************************)
(* Proofs about AssistFlow, for any number of flows, models, conversations *)
(* and moves of the page.                                                  *)
(***************************************************************************)
EXTENDS AssistFlow, SequenceTheorems, FiniteSetTheorems, TLAPS

-----------------------------------------------------------------------------
(* The inductive invariant, by concern *)

\* A flow that displayed nothing yet.
Fresh(f) ==
  /\ reco[f] = NoModel /\ prev[f] = NoModel
  /\ sw[f] = "none" /\ verdict[f] = "none" /\ f \notin alerted

ClockInv ==
  /\ asking \in 0 .. started /\ gen \in 0 .. started
  /\ gen # asking \/ asking = NoFlow

FreshInv == \A f \in Flow : f > started \/ f = asking => Fresh(f)

\* What a flow remembers once it displayed its recommendation.
FlowInv ==
  \A f \in Flow :
    /\ sw[f] # "none" \/ verdict[f] # "none" => reco[f] # NoModel
    /\ sw[f] = "inflight" \/ verdict[f] = "rejected" => prev[f] # NoModel
    /\ sw[f] = "inflight" => verdict[f] \in {"none", "rejected"} /\ f \notin alerted
    /\ verdict[f] \in {"followed", "overridden"} => sw[f] \in {"none", "failed"}
    /\ verdict[f] = "rejected" => sw[f] # "none"
    /\ sw[f] = "left" => verdict[f] = "none" /\ f \notin alerted

PanelInv ==
  /\ panelKind = "none" <=> panelFlow = NoFlow
  /\ PanelPresent => /\ panelFlow = gen
                     /\ origin[panelFlow] = key
                     /\ reco[panelFlow] # NoModel
                     /\ panelFlow # asking
                     /\ sw[panelFlow] # "left"

\* The buttons of the panel agree with what its flow is waiting for.
ButtonInv ==
  /\ panelKind \in {"already", "ackChoice"} => sw[panelFlow] \in {"none", "failed"}
  /\ panelKind = "ackSwitched" => verdict[panelFlow] = "rejected"
  /\ panelKind = "choice" => /\ verdict[panelFlow] = "none"
                             /\ sw[panelFlow] \in {"none", "failed"}
  /\ panelKind = "switched" => /\ verdict[panelFlow] = "none"
                               /\ prev[panelFlow] # NoModel
                               /\ sw[panelFlow] = "inflight" \/ pending = panelFlow

PendingInv ==
  pending # NoFlow => /\ panelFlow = pending
                      /\ panelKind = "switched"
                      /\ verdict[pending] = "none"
                      /\ sw[pending] = "ok"

\* The switches of queue q agree with the states s and recommendations r of
\* their flows; an automatic switch is the only switch of its flow.
QueueOK(q, s, r) ==
  \A i \in 1 .. Len(q) :
    /\ s[q[i].flow] # "left" /\ r[q[i].flow] # NoModel
    /\ q[i].purpose = "auto" <=> s[q[i].flow] = "inflight"
    /\ \A j \in 1 .. Len(q) :
         i # j /\ q[i].purpose = "auto" => q[j].flow # q[i].flow

Core ==
  /\ ClockInv /\ FreshInv /\ FlowInv
  /\ PanelInv /\ ButtonInv /\ PendingInv
  /\ OneEventPerReco /\ AcceptanceMatchesSwitch
  /\ QueueOK(queue, sw, reco)

IInv == TypeOK /\ Core

-----------------------------------------------------------------------------
(* Switches are appended to the queue and leave it by its head *)

\* A request appended to an orderly queue leaves it orderly.
LEMMA QueueAppend ==
  ASSUME NEW q \in Seq(Job), NEW s, NEW r, QueueOK(q, s, r),
         NEW j \in Job, s[j.flow] # "left", r[j.flow] # NoModel,
         j.purpose = "auto" <=> s[j.flow] = "inflight",
         j.purpose = "auto" => \A i \in 1 .. Len(q) : q[i].flow # j.flow
  PROVE  Append(q, j) \in Seq(Job) /\ QueueOK(Append(q, j), s, r)
<1>1. /\ Append(q, j) \in Seq(Job)
      /\ Len(Append(q, j)) = Len(q) + 1
      /\ \A i \in 1 .. Len(q) : Append(q, j)[i] = q[i]
      /\ Append(q, j)[Len(q) + 1] = j
  BY AppendProperties
<1>2. Len(q) \in Nat
  BY LenProperties
<1> DEFINE p == Append(q, j)
<1>3. ASSUME NEW i \in 1 .. Len(p)
      PROVE  /\ s[p[i].flow] # "left" /\ r[p[i].flow] # NoModel
             /\ p[i].purpose = "auto" <=> s[p[i].flow] = "inflight"
  <2>1. CASE i \in 1 .. Len(q)
    BY <1>1, <2>1 DEF QueueOK
  <2>2. CASE i = Len(q) + 1
    BY <1>1, <2>2
  <2>3. QED
    BY <1>1, <1>2, <2>1, <2>2
<1>4. ASSUME NEW i \in 1 .. Len(p), NEW k \in 1 .. Len(p), i # k, p[i].purpose = "auto"
      PROVE  p[k].flow # p[i].flow
  <2>1. CASE i \in 1 .. Len(q) /\ k \in 1 .. Len(q)
    BY <1>1, <1>4, <2>1 DEF QueueOK
  <2>2. CASE i = Len(q) + 1
    BY <1>1, <1>2, <1>4, <2>2
  <2>3. CASE i \in 1 .. Len(q) /\ k = Len(q) + 1
    <3>1. s[q[i].flow] = "inflight"
      BY <1>1, <1>4, <2>3 DEF QueueOK
    <3>2. CASE q[i].flow = j.flow
      BY <2>3, <3>1, <3>2
    <3>3. QED
      BY <1>1, <2>3, <3>2
  <2>4. QED
    BY <1>1, <1>2, <2>1, <2>2, <2>3
<1>5. QED
  BY <1>1, <1>3, <1>4 DEF QueueOK

\* The queue without the switch that ended is orderly, and its flow is known.
LEMMA QueueTail ==
  ASSUME NEW q \in Seq(Job), NEW s, NEW r, QueueOK(q, s, r), q # <<>>
  PROVE  /\ Head(q) \in Job
         /\ Tail(q) \in Seq(Job)
         /\ QueueOK(Tail(q), s, r)
         /\ s[Head(q).flow] # "left" /\ r[Head(q).flow] # NoModel
         /\ Head(q).purpose = "auto" <=> s[Head(q).flow] = "inflight"
         /\ Head(q).purpose = "auto" =>
              \A i \in 1 .. Len(Tail(q)) : Tail(q)[i].flow # Head(q).flow
<1>1. /\ Head(q) = q[1] /\ Head(q) \in Job
      /\ Tail(q) \in Seq(Job)
      /\ Len(Tail(q)) = Len(q) - 1
      /\ \A i \in 1 .. Len(Tail(q)) : Tail(q)[i] = q[i + 1]
  BY HeadTailProperties
<1>2. Len(q) \in Nat /\ Len(q) > 0
  BY LenProperties, EmptySeq
<1>3. \A i \in 1 .. Len(Tail(q)) : i + 1 \in 1 .. Len(q)
  BY <1>1, <1>2
<1>4. 1 \in 1 .. Len(q)
  BY <1>2
<1>5. \A i, k \in 1 .. Len(Tail(q)) : i # k => i + 1 # k + 1
  OBVIOUS
<1>6. QueueOK(Tail(q), s, r)
  BY <1>1, <1>3, <1>5 DEF QueueOK
<1>7. \A i \in 1 .. Len(Tail(q)) : 1 # i + 1
  OBVIOUS
<1>8. QED
  BY <1>1, <1>3, <1>4, <1>6, <1>7 DEF QueueOK

\* A step that keeps the switch state of queued flows keeps the queue orderly.
LEMMA QueueRelabel ==
  ASSUME NEW q \in Seq(Job), NEW s, NEW r, NEW s2, NEW r2, QueueOK(q, s, r),
         \A i \in 1 .. Len(q) : s2[q[i].flow] = s[q[i].flow] /\ r2[q[i].flow] # NoModel
  PROVE  QueueOK(q, s2, r2)
BY DEF QueueOK

-----------------------------------------------------------------------------
(* The steps, by what they do to the variables of Core *)

coreVars == <<origin, reco, prev, sw, verdict, sent, asking, gen, started,
              panelVars, queue, alerted, key>>

\* A step that touches nothing the core speaks of keeps it.
LEMMA QuietKeepsCore ==
  ASSUME Core, UNCHANGED coreVars
  PROVE  Core'
BY DEF Core, coreVars, panelVars, ClockInv, FreshInv, Fresh, FlowInv, PanelInv, PanelPresent,
       ButtonInv, PendingInv, OneEventPerReco, AcceptanceMatchesSwitch, QueueOK

\* The acceptance that waits is flushed exactly once.
LEMMA FlushOnce ==
  ASSUME IInv
  PROVE  /\ FlushVerdict \in [Flow -> Outcomes] /\ FlushSent \in [Flow -> Nat]
         /\ \A f \in Flow :
              /\ FlushVerdict[f] = (IF f = pending THEN "accepted" ELSE verdict[f])
              /\ FlushSent[f] = (IF f = pending THEN 1 ELSE sent[f])
BY DEF IInv, Core, TypeOK, PendingInv, OneEventPerReco, FlushVerdict, FlushSent, Committed,
       Outcomes, NoFlow, Flow

\* The panel goes away and the acceptance that waits is committed.
Leaves ==
  /\ pending' = NoFlow /\ verdict' = FlushVerdict /\ sent' = FlushSent
  /\ RemovePanel
  /\ UNCHANGED <<origin, reco, prev, sw, asking, gen, started, queue, alerted>>

\* Leaving the panel or the conversation settles what was pending.
LEMMA LeavingKeepsCore ==
  ASSUME IInv, Leaves
  PROVE  Core'
<1>1. \A f \in Flow : /\ verdict'[f] = (IF f = pending THEN "accepted" ELSE verdict[f])
                      /\ sent'[f] = (IF f = pending THEN 1 ELSE sent[f])
  BY FlushOnce DEF Leaves
<1>2. pending \in Flow => sw[pending] = "ok" /\ verdict[pending] = "none" /\ reco[pending] # NoModel
  BY DEF IInv, Core, PendingInv, FlowInv, Flow, NoFlow
<1>3. ClockInv'
  BY DEF IInv, Core, Leaves, ClockInv
<1>4. FreshInv'
  BY <1>1, <1>2 DEF IInv, Core, Leaves, FreshInv, Fresh
<1>5. FlowInv'
  BY <1>1, <1>2 DEF IInv, Core, Leaves, FlowInv
<1>6. PanelInv' /\ ButtonInv' /\ PendingInv'
  BY DEF Leaves, RemovePanel, PanelInv, ButtonInv, PendingInv, PanelPresent
<1>7. OneEventPerReco'
  BY <1>1 DEF IInv, Core, OneEventPerReco
<1>8. AcceptanceMatchesSwitch'
  BY <1>1, <1>2 DEF IInv, Core, Leaves, AcceptanceMatchesSwitch, NoFlow, Flow
<1>9. QueueOK(queue, sw, reco)'
  BY DEF IInv, Core, Leaves, QueueOK
<1>10. QED
  BY <1>3, <1>4, <1>5, <1>6, <1>7, <1>8, <1>9 DEF Core

\* A new pause starts a flow that displayed nothing yet.
LEMMA PauseKeepsCore ==
  ASSUME IInv, Pause
  PROVE  Core'
<1>1. \A f \in Flow : f # started + 1 => origin'[f] = origin[f]
  BY DEF IInv, TypeOK, Pause, Flow
<1>2. asking' = started + 1 /\ started' = started + 1 /\ asking = NoFlow
  BY DEF Pause
<1>3. UNCHANGED <<reco, prev, sw, verdict, sent, gen, panelFlow, panelKind, pending,
                  queue, alerted, key>>
  BY DEF Pause, panelVars, switchVars, pageVars
<1>4. ClockInv'
  BY <1>2, <1>3 DEF IInv, TypeOK, Core, ClockInv, NoFlow
<1>5. FreshInv'
  BY <1>2, <1>3 DEF IInv, TypeOK, Core, FreshInv, Fresh, Flow
<1>6. FlowInv'
  BY <1>3 DEF IInv, Core, FlowInv
<1>7. PanelPresent => panelFlow \in Flow /\ panelFlow # started + 1
  BY DEF IInv, TypeOK, Core, PanelInv, ClockInv, NoFlow, Flow, PanelPresent
<1>8. PanelInv'
  BY <1>1, <1>2, <1>3, <1>7 DEF IInv, Core, PanelInv, PanelPresent
<1>9. ButtonInv' /\ PendingInv'
  BY <1>3 DEF IInv, Core, ButtonInv, PendingInv
<1>10. OneEventPerReco' /\ AcceptanceMatchesSwitch' /\ QueueOK(queue, sw, reco)'
  BY <1>3 DEF IInv, Core, OneEventPerReco, AcceptanceMatchesSwitch, QueueOK
<1>11. QED
  BY <1>4, <1>5, <1>6, <1>8, <1>9, <1>10 DEF Core

\* The recommendation asked for is given up.
GivesUp ==
  /\ asking' = NoFlow
  /\ UNCHANGED <<origin, reco, prev, sw, verdict, sent, gen, started, panelVars, queue,
                 alerted, key>>

\* A flow that gives up leaves nothing behind.
LEMMA GivingUpKeepsCore ==
  ASSUME IInv, GivesUp
  PROVE  Core'
<1>1. ClockInv'
  BY DEF IInv, TypeOK, Core, GivesUp, ClockInv, NoFlow
<1>2. FreshInv' /\ FlowInv'
  BY DEF IInv, Core, GivesUp, FreshInv, Fresh, FlowInv, Flow, NoFlow
<1>3. PanelInv' /\ ButtonInv' /\ PendingInv'
  BY DEF IInv, TypeOK, Core, GivesUp, panelVars, PanelInv, PanelPresent, ButtonInv, PendingInv, NoFlow
<1>4. OneEventPerReco' /\ AcceptanceMatchesSwitch' /\ QueueOK(queue, sw, reco)'
  BY DEF IInv, Core, GivesUp, panelVars, OneEventPerReco, AcceptanceMatchesSwitch, QueueOK
<1>5. QED
  BY <1>1, <1>2, <1>3, <1>4 DEF Core

\* Switches waiting in the queue belong to flows that displayed something.
LEMMA QueuedFlows ==
  ASSUME IInv, NEW i \in 1 .. Len(queue)
  PROVE  queue[i] \in Job /\ queue[i].flow \in Flow /\ reco[queue[i].flow] # NoModel
<1>1. queue[i] \in Job
  BY ElementOfSeq DEF IInv, TypeOK
<1>2. QED
  BY <1>1 DEF IInv, Core, QueueOK, Job

\* A recommendation displayed takes the panel and settles what was pending.
LEMMA RecoShownKeepsCore ==
  ASSUME IInv, NEW m \in Model, NEW confident \in BOOLEAN, NEW readable \in BOOLEAN,
         RecoShown(m, confident, readable)
  PROVE  Core'
<1> DEFINE f == asking
           tryAuto == mode = "auto" /\ confident
           before == IF tryAuto /\ readable THEN model[shown] ELSE NoModel
           autoSwitch == before # NoModel /\ before # m
<1>0. /\ f \in Flow /\ f \in 1 .. started /\ Fresh(f) /\ gen # f
  BY DEF IInv, TypeOK, Core, ClockInv, FreshInv, RecoShown, NoFlow, Flow
<1>1. /\ f \in Flow /\ f \in 1 .. started /\ Fresh(f) /\ origin[f] = key /\ gen # f
      /\ m # NoModel /\ before \in 0 .. NumModels
  <2>1. origin[f] = key
    BY DEF RecoShown, Current
  <2>2. m # NoModel
    BY FlowAssumption DEF Model, NoModel
  <2>3. model[shown] \in 1 .. NumModels
    BY DEF IInv, TypeOK, Model
  <2>4. QED
    BY <1>0, <2>1, <2>2, <2>3, FlowAssumption DEF NoModel
<1>2. /\ asking' = NoFlow /\ gen' = f /\ panelFlow' = f /\ pending' = NoFlow
      /\ started' = started /\ origin' = origin /\ key' = key
      /\ panelKind' = (IF autoSwitch THEN "switched" ELSE IF before = m THEN "already" ELSE "choice")
  BY <1>1 DEF RecoShown, FlushPendingAutoAccept, pageVars
<1>3. /\ reco' = [reco EXCEPT ![f] = m] /\ prev' = [prev EXCEPT ![f] = before]
      /\ sw' = (IF autoSwitch THEN [sw EXCEPT ![f] = "inflight"] ELSE sw)
      /\ alerted' = (IF tryAuto /\ ~readable THEN alerted \cup {f} ELSE alerted)
      /\ queue' = (IF autoSwitch THEN Append(queue, Request(f, m, "auto")) ELSE queue)
  BY DEF RecoShown
<1>4. f # pending
  BY <1>1 DEF IInv, Core, PendingInv, Fresh, NoFlow, Flow
<1>5. \A g \in Flow : /\ verdict'[g] = (IF g = pending THEN "accepted" ELSE verdict[g])
                      /\ sent'[g] = (IF g = pending THEN 1 ELSE sent[g])
  BY FlushOnce DEF RecoShown, FlushPendingAutoAccept
<1>6. /\ \A g \in Flow : g # f => /\ reco'[g] = reco[g] /\ prev'[g] = prev[g] /\ sw'[g] = sw[g]
                                  /\ g \in alerted' <=> g \in alerted
      /\ reco'[f] = m /\ prev'[f] = before /\ sw'[f] = (IF autoSwitch THEN "inflight" ELSE "none")
      /\ verdict'[f] = "none"
      /\ autoSwitch => f \notin alerted'
  BY <1>1, <1>3, <1>4, <1>5 DEF IInv, TypeOK, Fresh
<1>7. pending \in Flow => sw[pending] = "ok" /\ verdict[pending] = "none"
  BY DEF IInv, Core, PendingInv, Flow, NoFlow
<1>f. f = asking
  OBVIOUS
<1> HIDE DEF f, autoSwitch, before, tryAuto
<1>8. ClockInv'
  BY <1>1, <1>2 DEF IInv, TypeOK, ClockInv, NoFlow
<1>9. FreshInv'
  <2>1. ASSUME NEW g \in Flow, g > started'
        PROVE  Fresh(g)'
    <3>1. Fresh(g) /\ g # f
      BY <1>1, <1>2, <2>1 DEF IInv, TypeOK, Core, FreshInv, Flow
    <3>2. g # pending
      BY <1>7, <2>1, <3>1 DEF Fresh
    <3>3. QED
      BY <1>5, <1>6, <3>1, <3>2 DEF Fresh
  <2>2. QED
    BY <1>2, <2>1 DEF FreshInv, NoFlow, Flow
<1>10. FlowInv'
  <2>1. ASSUME NEW g \in Flow, g # f
        PROVE  /\ sw'[g] # "none" \/ verdict'[g] # "none" => reco'[g] # NoModel
               /\ sw'[g] = "inflight" \/ verdict'[g] = "rejected" => prev'[g] # NoModel
               /\ sw'[g] = "inflight" => verdict'[g] \in {"none", "rejected"} /\ g \notin alerted'
               /\ verdict'[g] \in {"followed", "overridden"} => sw'[g] \in {"none", "failed"}
               /\ verdict'[g] = "rejected" => sw'[g] # "none"
               /\ sw'[g] = "left" => verdict'[g] = "none" /\ g \notin alerted'
    <3>1. CASE g = pending
      BY <1>5, <1>6, <1>7, <2>1, <3>1 DEF IInv, Core, FlowInv
    <3>2. CASE g # pending
      BY <1>5, <1>6, <2>1, <3>2 DEF IInv, Core, FlowInv
    <3>3. QED
      BY <3>1, <3>2
  <2>2. autoSwitch => before # NoModel
    BY DEF autoSwitch
  <2>3. QED
    BY <1>1, <1>6, <2>1, <2>2 DEF FlowInv
<1>11. PanelInv'
  BY <1>1, <1>2, <1>6 DEF PanelInv, PanelPresent, NoFlow, Flow
<1>12. ButtonInv' /\ PendingInv'
  <2>1. autoSwitch => before # NoModel
    BY DEF autoSwitch
  <2>2. QED
    BY <1>2, <1>6, <2>1 DEF ButtonInv, PendingInv
<1>13. OneEventPerReco'
  BY <1>5 DEF IInv, Core, OneEventPerReco
<1>14. AcceptanceMatchesSwitch'
  <2>1. ASSUME NEW g \in Flow, g # f
        PROVE  /\ sw'[g] = "ok" => verdict'[g] \in {"accepted", "rejected"}
               /\ verdict'[g] = "accepted" => sw'[g] = "ok"
    BY <1>5, <1>6, <1>7, <2>1 DEF IInv, Core, AcceptanceMatchesSwitch
  <2>2. QED
    BY <1>6, <2>1 DEF AcceptanceMatchesSwitch
<1>15. QueueOK(queue, sw, reco)'
  <2>1. \A i \in 1 .. Len(queue) : queue[i].flow \in Flow /\ queue[i].flow # f
    BY <1>1, QueuedFlows DEF Fresh
  <2>2. QueueOK(queue, sw', reco')
    <3>1. \A i \in 1 .. Len(queue) : /\ sw'[queue[i].flow] = sw[queue[i].flow]
                                     /\ reco'[queue[i].flow] # NoModel
      <4>1. ASSUME NEW i \in 1 .. Len(queue)
            PROVE  /\ sw'[queue[i].flow] = sw[queue[i].flow]
                   /\ reco'[queue[i].flow] = reco[queue[i].flow]
        BY <1>6, <2>1
      <4>2. QED
        BY <4>1, QueuedFlows
    <3>2. queue \in Seq(Job) /\ QueueOK(queue, sw, reco)
      BY DEF IInv, TypeOK, Core
    <3>3. QED
      BY <3>1, <3>2, QueueRelabel
  <2>3. CASE autoSwitch
    <3>1. Request(f, m, "auto") \in Job /\ Request(f, m, "auto").flow = f
          /\ Request(f, m, "auto").purpose = "auto"
      BY <1>1 DEF Request, Job, Purpose
    <3>2. queue \in Seq(Job)
      BY DEF IInv, TypeOK
    <3>3. QueueOK(Append(queue, Request(f, m, "auto")), sw', reco')
      BY <1>1, <1>6, <2>1, <2>2, <2>3, <3>1, <3>2, QueueAppend
    <3>4. QED
      BY <1>3, <2>3, <3>3 DEF QueueOK
  <2>4. CASE ~autoSwitch
    BY <1>3, <2>2, <2>4 DEF QueueOK
  <2>5. QED
    BY <2>3, <2>4
<1>16. QED
  BY <1>8, <1>9, <1>10, <1>11, <1>12, <1>13, <1>14, <1>15 DEF Core

\* Follow and override: the panel's flow f gets verdict v and a click switch.
Chooses(f, v) ==
  /\ panelKind = "choice" /\ f = panelFlow /\ v \in {"followed", "overridden"}
  /\ verdict' = [verdict EXCEPT ![f] = v]
  /\ sent' = [sent EXCEPT ![f] = @ + 1]
  /\ panelKind' = "ackChoice"
  /\ \/ queue' = queue
     \/ \E m \in Model : queue' = Append(queue, Request(f, m, "click"))
  /\ UNCHANGED <<origin, reco, prev, sw, asking, gen, started, panelFlow, pending, alerted, key>>

\* The panel belongs to the latest flow of this conversation.
LEMMA PanelFlow ==
  ASSUME IInv, PanelPresent
  PROVE  /\ panelFlow \in Flow /\ panelFlow = gen /\ panelFlow \in 1 .. started
         /\ panelFlow # asking /\ reco[panelFlow] # NoModel /\ origin[panelFlow] = key
BY DEF IInv, TypeOK, Core, PanelInv, ClockInv, NoFlow, Flow, PanelPresent

\* The panel shows a model.
LEMMA PanelModel ==
  ASSUME IInv, PanelPresent
  PROVE  panelFlow \in Flow /\ reco[panelFlow] \in Model
<1>1. panelFlow \in Flow /\ reco[panelFlow] # NoModel
  BY PanelFlow
<1>2. reco \in [Flow -> 0 .. NumModels]
  BY DEF IInv, TypeOK
<1>3. reco[panelFlow] \in 0 .. NumModels
  BY <1>1, <1>2
<1> QED BY <1>1, <1>3 DEF Model, NoModel

\* A choice of the user is the verdict of a flow that had none.
LEMMA ChoosingKeepsCore ==
  ASSUME IInv, NEW f, NEW v, Chooses(f, v)
  PROVE  Core'
<1>1. /\ f \in Flow /\ f = panelFlow /\ reco[f] # NoModel /\ verdict[f] = "none"
      /\ sw[f] \in {"none", "failed"} /\ pending = NoFlow
  BY PanelFlow DEF IInv, Core, Chooses, PanelPresent, ButtonInv, PendingInv
<1>2. /\ verdict'[f] = v /\ v \in {"followed", "overridden"} /\ sent'[f] = 1
      /\ \A g \in Flow : g # f => verdict'[g] = verdict[g] /\ sent'[g] = sent[g]
  BY <1>1 DEF IInv, TypeOK, Core, OneEventPerReco, Chooses
<1>3. ClockInv'
  BY DEF IInv, Core, Chooses, ClockInv
<1>4. FreshInv'
  BY <1>1, <1>2 DEF IInv, Core, Chooses, FreshInv, Fresh
<1>5. FlowInv'
  BY <1>1, <1>2 DEF IInv, Core, Chooses, FlowInv
<1>6. PanelInv' /\ ButtonInv' /\ PendingInv'
  BY <1>1 DEF IInv, Core, Chooses, PanelInv, ButtonInv, PendingInv, PanelPresent
<1>7. OneEventPerReco'
  BY <1>2 DEF IInv, Core, OneEventPerReco
<1>8. AcceptanceMatchesSwitch'
  BY <1>1, <1>2 DEF IInv, Core, Chooses, AcceptanceMatchesSwitch
<1>9. QueueOK(queue, sw, reco)'
  <2>1. queue \in Seq(Job) /\ QueueOK(queue, sw, reco)
    BY DEF IInv, TypeOK, Core
  <2>2. ASSUME NEW m \in Model
        PROVE  QueueOK(Append(queue, Request(f, m, "click")), sw, reco)
    <3>1. /\ Request(f, m, "click") \in Job /\ Request(f, m, "click").flow = f
          /\ Request(f, m, "click").purpose = "click"
      BY <1>1 DEF Request, Job, Purpose
    <3>2. QED
      BY <1>1, <2>1, <3>1, QueueAppend
  <2>3. QED
    <3>1. QueueOK(queue', sw, reco)
      BY <2>1, <2>2 DEF Chooses
    <3>2. QED
      BY <3>1 DEF Chooses, QueueOK
<1>10. QED
  BY <1>3, <1>4, <1>5, <1>6, <1>7, <1>8, <1>9 DEF Core

\* A Cancel is the verdict of a flow whose switch is in flight or pending.
LEMMA CancelKeepsCore ==
  ASSUME IInv, CancelClick
  PROVE  Core'
<1> DEFINE f == panelFlow
<1>1. /\ f \in Flow /\ f \in 1 .. started /\ f # asking /\ reco[f] # NoModel
      /\ verdict[f] = "none" /\ prev[f] # NoModel /\ sw[f] # "left"
      /\ (sw[f] = "inflight" \/ pending = f) /\ f # NoFlow
      /\ sw[f] = "inflight" => pending # f
  BY PanelFlow DEF IInv, Core, CancelClick, PanelPresent, ButtonInv, PanelInv, PendingInv,
                   Flow, NoFlow
<1>2. /\ verdict' = [verdict EXCEPT ![f] = "rejected"]
      /\ sent' = [sent EXCEPT ![f] = @ + 1]
      /\ pending' = (IF pending = f THEN NoFlow ELSE pending)
      /\ queue' = (IF sw[f] = "inflight" THEN queue
                   ELSE Append(queue, Request(f, prev[f], "restore")))
      /\ panelKind' = "ackSwitched" /\ panelFlow' = panelFlow
      /\ UNCHANGED <<origin, reco, prev, sw, asking, gen, started, alerted, key>>
  BY <1>1 DEF CancelClick, Committed, pageVars
<1>3. pending' = NoFlow
  BY <1>2 DEF IInv, Core, PendingInv
<1>4. /\ verdict'[f] = "rejected" /\ sent'[f] = 1
      /\ \A g \in Flow : g # f => verdict'[g] = verdict[g] /\ sent'[g] = sent[g]
  BY <1>1, <1>2 DEF IInv, TypeOK, Core, OneEventPerReco
<1> HIDE DEF f
<1>5. ClockInv'
  BY <1>2 DEF IInv, Core, ClockInv
<1>6. FreshInv'
  BY <1>1, <1>2, <1>4 DEF IInv, TypeOK, Core, FreshInv, Fresh, Flow
<1>7. FlowInv'
  BY <1>1, <1>2, <1>4 DEF IInv, Core, FlowInv, PendingInv
<1>8. PanelInv' /\ ButtonInv' /\ PendingInv'
  BY <1>1, <1>2, <1>3, <1>4 DEF IInv, Core, CancelClick, PanelInv, ButtonInv, PendingInv, PanelPresent, f
<1>9. OneEventPerReco'
  BY <1>1, <1>4 DEF IInv, Core, OneEventPerReco
<1>10. AcceptanceMatchesSwitch'
  <2>1. \A g \in Flow : g # f /\ sw[g] = "ok" => verdict[g] \in {"accepted", "rejected"}
    BY DEF IInv, Core, CancelClick, AcceptanceMatchesSwitch, PendingInv, NoFlow, Flow, f
  <2>2. QED
    BY <1>1, <1>2, <1>4, <2>1 DEF IInv, Core, AcceptanceMatchesSwitch
<1>11. QueueOK(queue, sw, reco)'
  <2>1. queue \in Seq(Job) /\ QueueOK(queue, sw, reco)
    BY DEF IInv, TypeOK, Core
  <2>2. CASE sw[f] # "inflight"
    <3>1. prev[f] \in Model
      BY <1>1 DEF IInv, TypeOK, Model, NoModel
    <3>2. /\ Request(f, prev[f], "restore") \in Job /\ Request(f, prev[f], "restore").flow = f
          /\ Request(f, prev[f], "restore").purpose = "restore"
      BY <1>1, <3>1 DEF Request, Job, Purpose
    <3>3. QueueOK(Append(queue, Request(f, prev[f], "restore")), sw, reco)
      BY <1>1, <2>1, <2>2, <3>2, QueueAppend
    <3>4. QED
      BY <1>2, <2>2, <3>3 DEF QueueOK
  <2>3. QED
    BY <1>2, <2>1, <2>2 DEF QueueOK
<1>12. QED
  BY <1>5, <1>6, <1>7, <1>8, <1>9, <1>10, <1>11 DEF Core

-----------------------------------------------------------------------------
(* The steps that end a switch *)

\* The head of the queue resolved: what the steps below share.
HeadEnds(ok) ==
  /\ queue # <<>>
  /\ Report(Head(queue).flow, ok)
  /\ UNCHANGED <<origin, reco, prev, asking, gen, started, key>>

\* The switch being applied belongs to a flow that displayed a recommendation.
LEMMA HeadFacts ==
  ASSUME IInv, queue # <<>>
  PROVE  /\ Head(queue) \in Job /\ Head(queue).flow \in Flow
         /\ reco[Head(queue).flow] # NoModel /\ sw[Head(queue).flow] # "left"
         /\ Head(queue).flow \in 1 .. started /\ Head(queue).flow # asking
         /\ Tail(queue) \in Seq(Job) /\ QueueOK(Tail(queue), sw, reco)
         /\ Head(queue).purpose = "auto" <=> sw[Head(queue).flow] = "inflight"
         /\ Head(queue).purpose = "auto" =>
              \A i \in 1 .. Len(Tail(queue)) :
                Tail(queue)[i].flow \in Flow /\ Tail(queue)[i].flow # Head(queue).flow
<1> queue \in Seq(Job) /\ QueueOK(queue, sw, reco)
  BY DEF IInv, TypeOK, Core
<1>1. /\ Head(queue) \in Job /\ Head(queue).flow \in Flow
      /\ Tail(queue) \in Seq(Job) /\ QueueOK(Tail(queue), sw, reco)
      /\ reco[Head(queue).flow] # NoModel /\ sw[Head(queue).flow] # "left"
      /\ Head(queue).purpose = "auto" <=> sw[Head(queue).flow] = "inflight"
      /\ Head(queue).purpose = "auto" =>
           \A i \in 1 .. Len(Tail(queue)) : Tail(queue)[i].flow # Head(queue).flow
  BY QueueTail DEF Job
<1>2. \A f \in Flow : reco[f] # NoModel => f \in 1 .. started /\ f # asking
  BY DEF IInv, TypeOK, Core, FreshInv, Fresh, Flow
<1>3. \A i \in 1 .. Len(Tail(queue)) : Tail(queue)[i] \in Job
  BY <1>1, ElementOfSeq
<1>4. QED
  BY <1>1, <1>2, <1>3 DEF Job

RequestDone(ok) ==
  /\ HeadEnds(ok) /\ Head(queue).purpose # "auto"
  /\ queue' = Tail(queue) /\ UNCHANGED <<sw, verdict, sent, panelVars>>

\* The end of a switch asked by a click reports nothing by itself.
LEMMA RequestDoneKeepsCore ==
  ASSUME IInv, NEW ok \in BOOLEAN, RequestDone(ok)
  PROVE  Core'
<1> USE DEF RequestDone
<1> DEFINE f == Head(queue).flow
<1>1. /\ f \in Flow /\ reco[f] # NoModel /\ sw[f] # "left" /\ sw[f] # "inflight"
      /\ f \in 1 .. started /\ f # asking
      /\ QueueOK(Tail(queue), sw, reco)
  BY HeadFacts DEF HeadEnds
<1>2. alerted \subseteq alerted' /\ alerted' \subseteq alerted \cup {f}
  BY DEF HeadEnds, Report
<1> HIDE DEF f
<1>3. ClockInv' /\ PanelInv' /\ ButtonInv' /\ PendingInv' /\ OneEventPerReco'
      /\ AcceptanceMatchesSwitch'
  BY DEF IInv, Core, HeadEnds, panelVars, ClockInv, PanelInv, PanelPresent, ButtonInv,
         PendingInv, OneEventPerReco, AcceptanceMatchesSwitch
<1>4. FreshInv'
  BY <1>1, <1>2 DEF IInv, TypeOK, Core, HeadEnds, FreshInv, Fresh, Flow
<1>5. FlowInv'
  BY <1>1, <1>2 DEF IInv, Core, HeadEnds, FlowInv
<1>6. QueueOK(queue, sw, reco)'
  <2>1. queue' = Tail(queue) /\ sw' = sw /\ reco' = reco
    BY DEF HeadEnds
  <2>2. QueueOK(queue, sw, reco)' <=> QueueOK(Tail(queue), sw, reco)
    BY <2>1 DEF QueueOK
  <2> QED BY <1>1, <2>2
<1>7. QED
  BY <1>3, <1>4, <1>5, <1>6 DEF Core

\* The automatic switch of flow f ends as s.
AutoEnds(f, ok, s) ==
  /\ HeadEnds(ok) /\ f = Head(queue).flow /\ Head(queue).purpose = "auto"
  /\ sw' = [sw EXCEPT ![f] = s]

\* The flow of an automatic switch that ends was waiting for it.
LEMMA AutoFacts ==
  ASSUME IInv, NEW f, NEW ok \in BOOLEAN, NEW s \in {"ok", "failed", "left"}, AutoEnds(f, ok, s)
  PROVE  /\ f \in Flow /\ f \in 1 .. started /\ f # asking /\ f # NoFlow
         /\ reco[f] # NoModel /\ prev[f] # NoModel /\ f # pending
         /\ sw[f] = "inflight" /\ verdict[f] \in {"none", "rejected"} /\ f \notin alerted
         /\ sw'[f] = s /\ \A g \in Flow : g # f => sw'[g] = sw[g]
         /\ alerted \subseteq alerted' /\ alerted' \subseteq alerted \cup {f}
         /\ ClockInv'
<1>1. /\ f \in Flow /\ f \in 1 .. started /\ f # asking /\ f # NoFlow
      /\ reco[f] # NoModel /\ sw[f] = "inflight"
  BY HeadFacts DEF AutoEnds, HeadEnds, Flow, NoFlow
<1>2. prev[f] # NoModel /\ verdict[f] \in {"none", "rejected"} /\ f \notin alerted /\ f # pending
  BY <1>1 DEF IInv, Core, FlowInv, PendingInv
<1>3. sw'[f] = s /\ \A g \in Flow : g # f => sw'[g] = sw[g]
  BY <1>1 DEF IInv, TypeOK, AutoEnds
<1>4. alerted \subseteq alerted' /\ alerted' \subseteq alerted \cup {f}
  BY DEF AutoEnds, HeadEnds, Report
<1>5. ClockInv'
  BY DEF IInv, Core, AutoEnds, HeadEnds, ClockInv
<1>6. QED
  BY <1>1, <1>2, <1>3, <1>4, <1>5

\* The queue without its automatic head, once the flow of the head is settled.
LEMMA AutoLeavesQueue ==
  ASSUME IInv, NEW f, NEW ok \in BOOLEAN, NEW s \in {"ok", "failed", "left"}, AutoEnds(f, ok, s)
  PROVE  Tail(queue) \in Seq(Job) /\ QueueOK(Tail(queue), sw', reco)
<1>1. /\ Tail(queue) \in Seq(Job) /\ QueueOK(Tail(queue), sw, reco)
      /\ \A i \in 1 .. Len(Tail(queue)) :
           Tail(queue)[i].flow \in Flow /\ Tail(queue)[i].flow # f
  BY HeadFacts DEF AutoEnds, HeadEnds
<1>2. \A i \in 1 .. Len(Tail(queue)) : sw'[Tail(queue)[i].flow] = sw[Tail(queue)[i].flow]
  BY <1>1, AutoFacts
<1>3. \A i \in 1 .. Len(Tail(queue)) : reco[Tail(queue)[i].flow] # NoModel
  BY <1>1 DEF QueueOK
<1>4. QED
  BY <1>1, <1>2, <1>3, QueueRelabel

Cancelled(f, ok, s) ==
  /\ AutoEnds(f, ok, s) /\ s \in {"ok", "failed"} /\ Committed(f)
  /\ queue' = Append(Tail(queue), Request(f, prev[f], "restore"))
  /\ UNCHANGED <<verdict, sent, panelVars>>

\* An automatic switch cancelled in flight is already settled.
LEMMA CancelledKeepsCore ==
  ASSUME IInv, NEW f, NEW ok \in BOOLEAN, NEW s, Cancelled(f, ok, s)
  PROVE  Core'
<1> USE DEF Cancelled
<1>1. /\ f \in Flow /\ f \in 1 .. started /\ f # asking /\ f # NoFlow
      /\ reco[f] # NoModel /\ prev[f] # NoModel /\ f # pending
      /\ sw[f] = "inflight" /\ verdict[f] = "rejected" /\ f \notin alerted
      /\ sw'[f] = s /\ \A g \in Flow : g # f => sw'[g] = sw[g]
      /\ alerted \subseteq alerted' /\ alerted' \subseteq alerted \cup {f}
      /\ ClockInv'
  BY AutoFacts DEF Committed
<1>2. /\ UNCHANGED <<verdict, sent, panelFlow, panelKind, pending>>
      /\ UNCHANGED <<origin, reco, prev, asking, gen, started, key>>
  BY DEF panelVars, AutoEnds, HeadEnds
<1>3. FreshInv'
  BY <1>1, <1>2 DEF IInv, TypeOK, Core, FreshInv, Fresh, Flow
<1>4. FlowInv'
  BY <1>1, <1>2 DEF IInv, Core, FlowInv
<1>5. PanelPresent => panelFlow \in Flow
  BY PanelFlow
<1>6. PanelInv' /\ ButtonInv'
  BY <1>1, <1>2, <1>5 DEF IInv, Core, PanelInv, ButtonInv, PanelPresent
<1>7. PendingInv'
  BY <1>1, <1>2 DEF IInv, TypeOK, Core, PendingInv, Flow, NoFlow
<1>8. OneEventPerReco' /\ AcceptanceMatchesSwitch'
  BY <1>1, <1>2 DEF IInv, Core, OneEventPerReco, AcceptanceMatchesSwitch
<1>9. QueueOK(queue, sw, reco)'
  <2>1. Tail(queue) \in Seq(Job) /\ QueueOK(Tail(queue), sw', reco)
    BY AutoLeavesQueue
  <2>2. prev[f] \in Model
    BY <1>1 DEF IInv, TypeOK, Model, NoModel
  <2>3. /\ Request(f, prev[f], "restore") \in Job /\ Request(f, prev[f], "restore").flow = f
        /\ Request(f, prev[f], "restore").purpose = "restore"
    BY <1>1, <2>2 DEF Request, Job, Purpose
  <2>4. QueueOK(Append(Tail(queue), Request(f, prev[f], "restore")), sw', reco)
    BY <1>1, <2>1, <2>3, QueueAppend
  <2>5. QED
    BY <1>2, <2>4 DEF QueueOK
<1>10. QED
  BY <1>1, <1>3, <1>4, <1>6, <1>7, <1>8, <1>9 DEF Core

Left(f, ok) ==
  /\ AutoEnds(f, ok, "left") /\ ~Committed(f) /\ ~Current(f)
  /\ queue' = Tail(queue) /\ UNCHANGED <<verdict, sent, panelVars>>

\* An automatic switch of a conversation left since reports nothing.
LEMMA LeftKeepsCore ==
  ASSUME IInv, NEW f, NEW ok \in BOOLEAN, Left(f, ok)
  PROVE  Core'
<1> USE DEF Left
<1>1. /\ f \in Flow /\ f \in 1 .. started /\ f # asking /\ f # NoFlow
      /\ reco[f] # NoModel /\ prev[f] # NoModel /\ f # pending
      /\ sw[f] = "inflight" /\ verdict[f] = "none" /\ f \notin alerted
      /\ sw'[f] = "left" /\ \A g \in Flow : g # f => sw'[g] = sw[g]
      /\ ClockInv'
  BY AutoFacts DEF Committed
<1>2. /\ UNCHANGED <<verdict, sent, panelFlow, panelKind, pending>>
      /\ UNCHANGED <<origin, reco, prev, asking, gen, started, key, alerted>>
  BY DEF panelVars, AutoEnds, HeadEnds, Report
<1>3. FreshInv'
  BY <1>1, <1>2 DEF IInv, TypeOK, Core, FreshInv, Fresh, Flow
<1>4. FlowInv'
  BY <1>1, <1>2 DEF IInv, Core, FlowInv
<1>5. PanelPresent => panelFlow \in Flow /\ panelFlow # f
  BY PanelFlow DEF Current
<1>6. PanelInv' /\ ButtonInv'
  BY <1>1, <1>2, <1>5 DEF IInv, Core, PanelInv, ButtonInv, PanelPresent
<1>7. PendingInv'
  BY <1>1, <1>2 DEF IInv, TypeOK, Core, PendingInv, Flow, NoFlow
<1>8. OneEventPerReco' /\ AcceptanceMatchesSwitch'
  BY <1>1, <1>2 DEF IInv, Core, OneEventPerReco, AcceptanceMatchesSwitch
<1>9. QueueOK(queue, sw, reco)'
  BY <1>2, AutoLeavesQueue DEF QueueOK
<1>10. QED
  BY <1>1, <1>3, <1>4, <1>6, <1>7, <1>8, <1>9 DEF Core

Held(f) ==
  /\ AutoEnds(f, TRUE, "ok") /\ ~Committed(f) /\ IsLatest(f) /\ PanelPresent
  /\ queue' = Tail(queue) /\ pending' = f
  /\ UNCHANGED <<verdict, sent, panelFlow, panelKind>>

\* A verified switch under its panel waits for the panel to be left.
LEMMA HeldKeepsCore ==
  ASSUME IInv, NEW f, Held(f)
  PROVE  Core'
<1> USE DEF Held
<1>1. /\ f \in Flow /\ f \in 1 .. started /\ f # asking /\ f # NoFlow
      /\ reco[f] # NoModel /\ prev[f] # NoModel /\ f # pending
      /\ sw[f] = "inflight" /\ verdict[f] = "none" /\ f \notin alerted
      /\ sw'[f] = "ok" /\ \A g \in Flow : g # f => sw'[g] = sw[g]
      /\ ClockInv'
  BY AutoFacts DEF Committed
<1>2. UNCHANGED <<origin, reco, prev, asking, gen, started, key, alerted>>
  BY DEF AutoEnds, HeadEnds, Report
<1>3. /\ panelFlow = f /\ panelKind = "switched" /\ pending = NoFlow
  BY <1>1, PanelFlow DEF IInv, Core, ButtonInv, PendingInv, PanelPresent, IsLatest, TypeOK, PanelKind
<1>4. FreshInv'
  BY <1>1, <1>2 DEF IInv, TypeOK, Core, FreshInv, Fresh, Flow
<1>5. FlowInv'
  BY <1>1, <1>2 DEF IInv, Core, FlowInv
<1>6. PanelInv' /\ ButtonInv' /\ PendingInv'
  BY <1>1, <1>2, <1>3 DEF IInv, Core, PanelInv, ButtonInv, PendingInv, PanelPresent
<1>7. OneEventPerReco' /\ AcceptanceMatchesSwitch'
  BY <1>1, <1>2, <1>3 DEF IInv, Core, OneEventPerReco, AcceptanceMatchesSwitch, Flow, NoFlow
<1>8. QueueOK(queue, sw, reco)'
  BY <1>2, AutoLeavesQueue DEF QueueOK
<1>9. QED
  BY <1>1, <1>4, <1>5, <1>6, <1>7, <1>8 DEF Core

Accepted(f) ==
  /\ AutoEnds(f, TRUE, "ok") /\ ~Committed(f) /\ ~(IsLatest(f) /\ PanelPresent)
  /\ queue' = Tail(queue)
  /\ verdict' = [verdict EXCEPT ![f] = "accepted"]
  /\ sent' = [sent EXCEPT ![f] = @ + 1]
  /\ pending' = IF pending = f THEN NoFlow ELSE pending
  /\ UNCHANGED <<panelFlow, panelKind>>

\* A verified switch whose panel is gone is accepted at once.
LEMMA AcceptedKeepsCore ==
  ASSUME IInv, NEW f, Accepted(f)
  PROVE  Core'
<1> USE DEF Accepted
<1>1. /\ f \in Flow /\ f \in 1 .. started /\ f # asking /\ f # NoFlow
      /\ reco[f] # NoModel /\ prev[f] # NoModel /\ f # pending
      /\ sw[f] = "inflight" /\ verdict[f] = "none" /\ f \notin alerted
      /\ sw'[f] = "ok" /\ \A g \in Flow : g # f => sw'[g] = sw[g]
      /\ ClockInv'
  BY AutoFacts DEF Committed
<1>2. UNCHANGED <<origin, reco, prev, asking, gen, started, key, alerted, pending>>
  BY <1>1 DEF AutoEnds, HeadEnds, Report
<1>3. /\ verdict'[f] = "accepted" /\ sent'[f] = 1
      /\ \A g \in Flow : g # f => verdict'[g] = verdict[g] /\ sent'[g] = sent[g]
  BY <1>1 DEF IInv, TypeOK, Core, OneEventPerReco
<1>4. PanelPresent => panelFlow \in Flow /\ panelFlow # f
  BY PanelFlow DEF IsLatest
<1>5. FreshInv'
  BY <1>1, <1>2, <1>3 DEF IInv, TypeOK, Core, FreshInv, Fresh, Flow
<1>6. FlowInv'
  BY <1>1, <1>2, <1>3 DEF IInv, Core, FlowInv
<1>7. PanelInv' /\ ButtonInv'
  BY <1>1, <1>2, <1>3, <1>4 DEF IInv, Core, PanelInv, ButtonInv, PanelPresent
<1>8. PendingInv'
  BY <1>1, <1>2, <1>3, <1>4 DEF IInv, TypeOK, Core, PendingInv, PanelPresent, Flow, NoFlow
<1>9. OneEventPerReco' /\ AcceptanceMatchesSwitch'
  BY <1>1, <1>2, <1>3 DEF IInv, Core, OneEventPerReco, AcceptanceMatchesSwitch
<1>10. QueueOK(queue, sw, reco)'
  BY <1>2, AutoLeavesQueue DEF QueueOK
<1>11. QED
  BY <1>1, <1>5, <1>6, <1>7, <1>8, <1>9, <1>10 DEF Core

Failed(f) ==
  /\ AutoEnds(f, FALSE, "failed") /\ ~Committed(f) /\ queue' = Tail(queue)
  /\ IF IsLatest(f) /\ PanelPresent
     THEN panelFlow' = f /\ panelKind' = "choice"
     ELSE UNCHANGED <<panelFlow, panelKind>>
  /\ UNCHANGED <<verdict, sent, pending>>

\* A failed switch gives the panel its choices back.
LEMMA FailedKeepsCore ==
  ASSUME IInv, NEW f, Failed(f)
  PROVE  Core'
<1> USE DEF Failed
<1>1. /\ f \in Flow /\ f \in 1 .. started /\ f # asking /\ f # NoFlow
      /\ reco[f] # NoModel /\ prev[f] # NoModel /\ f # pending
      /\ sw[f] = "inflight" /\ verdict[f] = "none" /\ f \notin alerted
      /\ sw'[f] = "failed" /\ \A g \in Flow : g # f => sw'[g] = sw[g]
      /\ alerted \subseteq alerted' /\ alerted' \subseteq alerted \cup {f}
      /\ ClockInv'
  BY AutoFacts DEF Committed
<1>2. UNCHANGED <<origin, reco, prev, asking, gen, started, key, verdict, sent, pending>>
  BY <1>1 DEF AutoEnds, HeadEnds
<1>3. /\ panelFlow' = panelFlow
      /\ IF panelFlow = f /\ PanelPresent THEN panelKind' = "choice" ELSE panelKind' = panelKind
      /\ pending # NoFlow => panelFlow # f
  BY <1>1, PanelFlow DEF IInv, Core, PendingInv, IsLatest, PanelPresent
<1>4. PanelPresent => panelFlow \in Flow
  BY PanelFlow
<1>5. FreshInv'
  BY <1>1, <1>2 DEF IInv, TypeOK, Core, FreshInv, Fresh, Flow
<1>6. FlowInv'
  BY <1>1, <1>2 DEF IInv, Core, FlowInv
<1>7. PanelInv' /\ ButtonInv'
  BY <1>1, <1>2, <1>3, <1>4 DEF IInv, Core, PanelInv, ButtonInv, PanelPresent
<1>8. PendingInv'
  BY <1>1, <1>2, <1>3 DEF IInv, TypeOK, Core, PendingInv, Flow, NoFlow
<1>9. OneEventPerReco' /\ AcceptanceMatchesSwitch'
  BY <1>1, <1>2 DEF IInv, Core, OneEventPerReco, AcceptanceMatchesSwitch
<1>10. QueueOK(queue, sw, reco)'
  BY <1>2, AutoLeavesQueue DEF QueueOK
<1>11. QED
  BY <1>1, <1>5, <1>6, <1>7, <1>8, <1>9, <1>10 DEF Core

-----------------------------------------------------------------------------
(* Types *)

\* The memory of a conversation that was reset.
LEMMA EmptyMemoryType ==
  ASSUME NEW id \in Threads \cup {NoThread}
  PROVE  EmptyMemory(id) \in Memory
BY DEF EmptyMemory, Memory

\* Counting keeps the type of the memories.
LEMMA CountType ==
  ASSUME NEW m \in [Threads -> Memory], NEW t \in Threads,
         NEW field \in {"shown", "followed", "up"}
  PROVE  Count(m, t, field) \in [Threads -> Memory]
<1>1. m[t] \in Memory /\ m[t][field] + 1 \in Nat
  BY DEF Memory
<1>2. [m[t] EXCEPT ![field] = @ + 1] \in Memory
  BY <1>1 DEF Memory
<1>3. QED
  BY <1>2 DEF Count

\* So does counting what a choice means.
LEMMA DerogationType ==
  ASSUME TypeOK, NEW f \in Flow, NEW chosen
  PROVE  Derogation(memory, f, chosen) \in [Threads -> Memory]
BY CountType DEF Derogation, TypeOK

\* So does settling the pending acceptance.
LEMMA FlushMemoryType ==
  ASSUME TypeOK, NEW m \in [Threads -> Memory]
  PROVE  FlushMemory(m) \in [Threads -> Memory]
<1>1. pending # NoFlow => origin[pending] \in Threads
  <2>1. pending \in 0 .. MaxFlows /\ origin \in [Flow -> Threads]
    BY DEF TypeOK
  <2>2. pending # NoFlow => pending \in Flow
    BY <2>1, FlowAssumption DEF Flow, NoFlow
  <2> QED BY <2>1, <2>2
<1>2. QED
  BY <1>1, CountType DEF FlushMemory

\* So does reading the page.
LEMMA PageViewType ==
  ASSUME TypeOK, NEW m \in PageView(memory)
  PROVE  m \in [Threads -> Memory]
<1>1. EmptyMemory(shown) \in Memory /\ EmptyMemory(NoThread) \in Memory
  BY EmptyMemoryType DEF TypeOK
<1>2. memory \in [Threads -> Memory]
  BY DEF TypeOK
<1>3. m \in {memory, [memory EXCEPT ![key] = EmptyMemory(shown)],
             [memory EXCEPT ![key] = EmptyMemory(NoThread)]}
  BY DEF PageView
<1>4. QED
  BY <1>1, <1>2, <1>3

\* A request can be queued.
LEMMA RequestType ==
  ASSUME TypeOK, NEW f \in Flow, NEW m \in Model, NEW p \in Purpose
  PROVE  Append(queue, Request(f, m, p)) \in Seq(Job)
<1>1. Request(f, m, p) \in Job
  BY DEF Request, Job
<1>2. QED
  BY <1>1, AppendProperties DEF TypeOK

\* The queue without its head, and the head, keep their types.
LEMMA TailType ==
  ASSUME TypeOK, queue # <<>>
  PROVE  Tail(queue) \in Seq(Job) /\ Head(queue) \in Job
BY HeadTailProperties DEF TypeOK

\* A verdict and its event keep the types of the outcomes.
LEMMA SettleType ==
  ASSUME TypeOK, NEW f \in Flow, NEW v \in Outcomes
  PROVE  /\ [verdict EXCEPT ![f] = v] \in [Flow -> Outcomes]
         /\ [sent EXCEPT ![f] = @ + 1] \in [Flow -> Nat]
<1>1. sent[f] + 1 \in Nat
  BY DEF TypeOK
<1>2. QED
  BY <1>1 DEF TypeOK

\* The steps of the user and of the page keep the types.
LEMMA PageTypes ==
  ASSUME IInv, UserStep \/ Poll
  PROVE  TypeOK'
<1> USE FlowAssumption
<1>t. TypeOK
  BY DEF IInv
<1>f. FlushVerdict \in [Flow -> Outcomes] /\ FlushSent \in [Flow -> Nat]
  BY FlushOnce
<1>m. memory \in [Threads -> Memory] /\ FlushMemory(memory) \in [Threads -> Memory]
  BY <1>t, FlushMemoryType DEF TypeOK
<1>l. LeavePanel => /\ pending' \in 0 .. MaxFlows /\ verdict' \in [Flow -> Outcomes]
                    /\ sent' \in [Flow -> Nat] /\ memory' \in [Threads -> Memory]
                    /\ panelFlow' \in 0 .. MaxFlows /\ panelKind' \in PanelKind
                    /\ UNCHANGED <<mode, origin, reco, prev, sw, asking, gen, started,
                                   queue, stage, replaced, alerted>>
  BY <1>f, <1>m DEF LeavePanel, FlushPendingAutoAccept, RemovePanel, switchVars, NoFlow, PanelKind
<1>1. CASE Pause
  <2>1. memory' \in [Threads -> Memory]
    BY <1>1, <1>t, PageViewType DEF Pause
  <2>2. origin' \in [Flow -> Threads]
    BY <1>1, <1>t DEF Pause, TypeOK, Flow
  <2>3. QED
    BY <1>1, <1>t, <2>1, <2>2 DEF Pause, TypeOK, panelVars, switchVars, pageVars
<1>2. CASE EmptyPause
  <2>1. memory' \in [Threads -> Memory]
    BY <1>2, <1>t, PageViewType, FlushMemoryType DEF EmptyPause, FlushPendingAutoAccept
  <2>2. verdict' \in [Flow -> Outcomes] /\ sent' \in [Flow -> Nat] /\ pending' \in 0 .. MaxFlows
    BY <1>2, <1>f DEF EmptyPause, FlushPendingAutoAccept, NoFlow
  <2>3. QED
    BY <1>2, <1>t, <2>1, <2>2 DEF EmptyPause, TypeOK, RemovePanel, switchVars, pageVars,
                                  NoFlow, PanelKind
<1>3. CASE FollowClick
  <2>1. panelFlow \in Flow /\ reco[panelFlow] \in Model
    BY <1>3, PanelModel DEF FollowClick, PanelPresent
  <2>2. memory' \in [Threads -> Memory]
    BY <1>3, <1>t, <1>m, <2>1, CountType DEF FollowClick, TypeOK
  <2>3. queue' \in Seq(Job)
    BY <1>3, <1>t, <2>1, RequestType DEF FollowClick, Enqueue, TypeOK, Purpose
  <2>4. verdict' \in [Flow -> Outcomes] /\ sent' \in [Flow -> Nat]
    BY <1>3, <1>t, <2>1, SettleType DEF FollowClick, Outcomes
  <2>5. QED
    BY <1>3, <1>t, <2>2, <2>3, <2>4 DEF FollowClick, TypeOK, pageVars, PanelKind
<1>4. ASSUME NEW m \in Model, OverrideClick(m)
      PROVE  TypeOK'
  <2>1. panelFlow \in Flow
    BY <1>4, PanelFlow DEF OverrideClick, PanelPresent
  <2>2. memory' \in [Threads -> Memory]
    BY <1>4, <1>t, <2>1, DerogationType DEF OverrideClick
  <2>3. queue' \in Seq(Job)
    BY <1>4, <1>t, <2>1, RequestType DEF OverrideClick, Enqueue, TypeOK, Purpose
  <2>4. verdict' \in [Flow -> Outcomes] /\ sent' \in [Flow -> Nat]
    BY <1>4, <1>t, <2>1, SettleType DEF OverrideClick, Outcomes
  <2>5. QED
    BY <1>4, <1>t, <2>2, <2>3, <2>4 DEF OverrideClick, TypeOK, pageVars, PanelKind
<1>5. ASSUME NEW m \in Model, UserPicks(m)
      PROVE  TypeOK'
  BY <1>5, <1>t DEF UserPicks, TypeOK, flowVars, panelVars, switchVars
<1>6. CASE CancelClick
  <2>1. panelFlow \in Flow
    BY <1>6, PanelFlow DEF CancelClick, PanelPresent
  <2>2. memory' \in [Threads -> Memory]
    BY <1>6, <1>t, <1>m, <2>1, DerogationType DEF CancelClick
  <2>3. queue' \in Seq(Job)
    <3>1. prev[panelFlow] # NoModel => prev[panelFlow] \in Model
      BY <1>t, <2>1 DEF TypeOK, Model, NoModel
    <3>2. prev[panelFlow] # NoModel =>
            Append(queue, Request(panelFlow, prev[panelFlow], "restore")) \in Seq(Job)
      BY <1>t, <2>1, <3>1, RequestType DEF Purpose
    <3>3. queue \in Seq(Job)
      BY <1>t DEF TypeOK
    <3>4. QED
      BY <1>6, <3>2, <3>3 DEF CancelClick
  <2>4. verdict' \in [Flow -> Outcomes] /\ sent' \in [Flow -> Nat] /\ pending' \in 0 .. MaxFlows
    <3>1. /\ [verdict EXCEPT ![panelFlow] = "rejected"] \in [Flow -> Outcomes]
          /\ [sent EXCEPT ![panelFlow] = @ + 1] \in [Flow -> Nat]
      BY <1>t, <2>1, SettleType DEF Outcomes
    <3>2. /\ verdict \in [Flow -> Outcomes] /\ sent \in [Flow -> Nat]
          /\ pending \in 0 .. MaxFlows /\ NoFlow \in 0 .. MaxFlows
      BY <1>t DEF TypeOK, NoFlow
    <3>3. QED
      BY <1>6, <3>1, <3>2 DEF CancelClick
  <2>5. QED
    BY <1>6, <1>t, <2>2, <2>3, <2>4 DEF CancelClick, TypeOK, pageVars, PanelKind
<1>7. CASE DismissClick
  <2>1. /\ memory' \in [Threads -> Memory] /\ verdict' \in [Flow -> Outcomes]
        /\ sent' \in [Flow -> Nat] /\ pending' \in 0 .. MaxFlows
    BY <1>7, <1>t, <1>f, <1>m DEF DismissClick, FlushPendingAutoAccept, TypeOK, NoFlow
  <2>2. panelFlow' \in 0 .. MaxFlows /\ panelKind' \in PanelKind
    BY <1>7, FlowAssumption DEF DismissClick, RemovePanel, NoFlow, PanelKind
  <2>3. QED
    BY <1>7, <1>t, <2>1, <2>2 DEF DismissClick, TypeOK, switchVars, pageVars
<1>8. CASE BadgeClick
  BY <1>8, <1>t, <1>l DEF BadgeClick, TypeOK, pageVars
<1>9. ASSUME NEW t \in Threads, Navigate(t)
      PROVE  TypeOK'
  <2>1. CASE t # key
    BY <1>9, <1>t, <1>l, <2>1 DEF Navigate, TypeOK
  <2>2. CASE t = key
    BY <1>9, <1>t, <2>2 DEF Navigate, TypeOK, flowVars, panelVars, switchVars
  <2>3. QED
    BY <2>1, <2>2
<1>10. ASSUME NEW t \in Threads, NavigateUnseen(t)
       PROVE  TypeOK'
  BY <1>10, <1>t DEF NavigateUnseen, TypeOK, flowVars, panelVars, switchVars
<1>11. CASE PageHide
  BY <1>11, <1>t, <1>l DEF PageHide, TypeOK, pageVars
<1>12. CASE Poll
  BY <1>12, <1>t, <1>l DEF Poll, TypeOK
<1>13. QED
  BY <1>1, <1>2, <1>3, <1>4, <1>5, <1>6, <1>7, <1>8, <1>9, <1>10, <1>11, <1>12 DEF UserStep

\* The recommendation request keeps the types.
LEMMA RecoTypes ==
  ASSUME IInv, RecoStep
  PROVE  TypeOK'
<1> USE FlowAssumption
<1>t. TypeOK
  BY DEF IInv
<1>1. CASE RecoFails \/ RecoDropped
  BY <1>1, <1>t DEF RecoFails, RecoDropped, TypeOK, panelVars, switchVars, pageVars, NoFlow
<1>2. ASSUME NEW m \in Model, NEW confident \in BOOLEAN, NEW readable \in BOOLEAN,
             RecoShown(m, confident, readable)
      PROVE  TypeOK'
  <2>1. asking \in Flow
    BY <1>2, <1>t DEF RecoShown, TypeOK, Flow, NoFlow
  <2>2. memory' \in [Threads -> Memory]
    <3>1. Count(memory, origin[asking], "shown") \in [Threads -> Memory]
      BY <1>t, <2>1, CountType DEF TypeOK
    <3>2. QED
      BY <1>2, <1>t, <3>1, FlushMemoryType DEF RecoShown, FlushPendingAutoAccept
  <2>3. queue' \in Seq(Job)
    BY <1>2, <1>t, <2>1, RequestType DEF RecoShown, TypeOK, Purpose
  <2>4. /\ verdict' \in [Flow -> Outcomes] /\ sent' \in [Flow -> Nat]
        /\ pending' \in 0 .. MaxFlows
    BY <1>2, FlushOnce DEF RecoShown, FlushPendingAutoAccept, NoFlow
  <2>5. reco' \in [Flow -> 0 .. NumModels] /\ prev' \in [Flow -> 0 .. NumModels]
    <3>1. model[shown] \in 0 .. NumModels /\ NoModel \in 0 .. NumModels
      BY <1>t DEF TypeOK, Model, NoModel
    <3>2. /\ reco \in [Flow -> 0 .. NumModels] /\ prev \in [Flow -> 0 .. NumModels]
          /\ m \in 0 .. NumModels
      BY <1>t DEF TypeOK, Model
    <3>3. PICK before \in 0 .. NumModels : prev' = [prev EXCEPT ![asking] = before]
      <4>1. prev' = [prev EXCEPT ![asking] = IF (mode = "auto" /\ confident) /\ readable
                                             THEN model[shown] ELSE NoModel]
        BY <1>2 DEF RecoShown
      <4>2. QED
        BY <3>1, <4>1
    <3>4. reco' = [reco EXCEPT ![asking] = m]
      BY <1>2 DEF RecoShown
    <3>5. QED
      BY <3>2, <3>3, <3>4
  <2>6. sw' \in [Flow -> Switching] /\ alerted' \subseteq Flow
    BY <1>2, <1>t, <2>1 DEF RecoShown, TypeOK, Switching
  <2>7. /\ asking' \in 0 .. MaxFlows /\ gen' \in 0 .. MaxFlows
        /\ panelFlow' \in 0 .. MaxFlows /\ panelKind' \in PanelKind
    BY <1>2, <2>1 DEF RecoShown, NoFlow, Flow, PanelKind
  <2>8. UNCHANGED <<mode, closed, origin, started, stage, replaced, shown, key, model, moves>>
    BY <1>2 DEF RecoShown, pageVars
  <2>9. QED
    BY <1>t, <2>2, <2>3, <2>4, <2>5, <2>6, <2>7, <2>8 DEF TypeOK
<1>3. QED
  BY <1>1, <1>2 DEF RecoStep

\* The end of a switch keeps the types.
LEMMA SwitchTypes ==
  ASSUME IInv, SwitchStep
  PROVE  TypeOK'
<1> USE FlowAssumption
<1>t. TypeOK
  BY DEF IInv
<1> DEFINE f == Head(queue).flow
<1>h. queue # <<>> => /\ f \in Flow /\ Head(queue).target \in Model
                      /\ Tail(queue) \in Seq(Job)
  BY <1>t, TailType DEF Job
<1>r. ASSUME NEW ok \in BOOLEAN, Resolved(ok)
      PROVE  /\ queue # <<>> /\ alerted' \subseteq Flow /\ stage' \in {"idle", "open", "settling"}
             /\ UNCHANGED <<mode, closed, origin, reco, prev, asking, gen, started, replaced,
                            shown, key, model, moves>>
  BY <1>r, <1>t, <1>h DEF Resolved, Resolves, Busy, Report, TypeOK, pageVars
<1>s. queue # <<>> => \A s \in Switching : [sw EXCEPT ![f] = s] \in [Flow -> Switching]
  BY <1>t DEF TypeOK
<1>1. CASE OpenMenu
  BY <1>1, <1>t DEF OpenMenu, TypeOK, flowVars, panelVars, pageVars
<1>2. ASSUME NEW effective \in BOOLEAN, ClickItem(effective)
      PROVE  TypeOK'
  <2>1. model' \in [Threads -> Model] /\ replaced' \in [Flow -> 0 .. NumModels]
    <3>0. queue # <<>> /\ model \in [Threads -> Model] /\ shown \in Threads
          /\ replaced \in [Flow -> 0 .. NumModels]
      BY <1>2, <1>t DEF ClickItem, Busy, TypeOK
    <3>1. model[shown] \in 0 .. NumModels
      BY <3>0 DEF Model
    <3>2. model' = [model EXCEPT ![shown] = Head(queue).target] \/ model' = model
      BY <1>2 DEF ClickItem
    <3>3. replaced' = [replaced EXCEPT ![f] = model[shown]] \/ replaced' = replaced
      BY <1>2 DEF ClickItem
    <3>4. QED
      BY <1>h, <3>0, <3>1, <3>2, <3>3
  <2>2. QED
    BY <1>2, <1>t, <2>1 DEF ClickItem, TypeOK, flowVars, panelVars
<1>3. ASSUME NEW ok \in BOOLEAN, RequestEnds(ok)
      PROVE  TypeOK'
  BY <1>3, <1>t, <1>h, <1>r DEF RequestEnds, TypeOK, panelVars
<1>4. ASSUME NEW ok \in BOOLEAN, CancelledSwitchEnds(ok)
      PROVE  TypeOK'
  <2>1. queue # <<>> /\ Resolved(ok) /\ Committed(f) /\ Head(queue).purpose = "auto"
    BY <1>4, <1>r DEF CancelledSwitchEnds
  <2>2. prev[f] \in Model
    BY <1>t, <2>1, HeadFacts DEF IInv, Core, FlowInv, TypeOK, Model, NoModel
  <2>3. Request(f, prev[f], "restore") \in Job
    BY <1>h, <2>1, <2>2 DEF Request, Job, Purpose
  <2>4. queue' \in Seq(Job)
    BY <1>4, <1>h, <2>1, <2>3, AppendProperties DEF CancelledSwitchEnds
  <2>5. sw' \in [Flow -> Switching]
    BY <1>4, <1>s, <2>1 DEF CancelledSwitchEnds, Switching
  <2>6. QED
    BY <1>4, <1>t, <1>r, <2>1, <2>4, <2>5 DEF CancelledSwitchEnds, TypeOK, panelVars
<1>5. ASSUME NEW ok \in BOOLEAN, FlowResumes(ok)
      PROVE  queue' \in Seq(Job) /\ queue # <<>> /\ Resolved(ok)
  BY <1>5, <1>h, <1>r DEF FlowResumes
<1>6. ASSUME NEW ok \in BOOLEAN, LeftSwitchEnds(ok)
      PROVE  TypeOK'
  <2>1. sw' \in [Flow -> Switching]
    BY <1>6, <1>5, <1>s DEF LeftSwitchEnds, Switching
  <2>2. QED
    BY <1>6, <1>t, <1>5, <1>r, <2>1 DEF LeftSwitchEnds, TypeOK, panelVars
<1>7. CASE SwitchHeld
  <2>1. sw' \in [Flow -> Switching]
    BY <1>7, <1>5, <1>s DEF SwitchHeld, Switching
  <2>2. pending' \in 0 .. MaxFlows
    <3>1. pending' = f /\ queue # <<>>
      BY <1>7, <1>5 DEF SwitchHeld
    <3>2. QED
      BY <1>h, <3>1 DEF Flow
  <2>3. QED
    BY <1>7, <1>t, <1>5, <1>r, <2>1, <2>2 DEF SwitchHeld, TypeOK
<1>8. CASE SwitchAccepted
  <2>1. sw' \in [Flow -> Switching]
    BY <1>8, <1>5, <1>s DEF SwitchAccepted, Switching
  <2>2. verdict' \in [Flow -> Outcomes] /\ sent' \in [Flow -> Nat]
    BY <1>8, <1>t, <1>5, <1>h, SettleType DEF SwitchAccepted, Outcomes
  <2>3. memory' \in [Threads -> Memory]
    BY <1>8, <1>t, <1>5, <1>h, CountType DEF SwitchAccepted, TypeOK
  <2>4. pending' \in 0 .. MaxFlows
    BY <1>8, <1>t DEF SwitchAccepted, TypeOK, NoFlow
  <2>5. QED
    BY <1>8, <1>t, <1>5, <1>r, <2>1, <2>2, <2>3, <2>4 DEF SwitchAccepted, TypeOK
<1>9. CASE SwitchFailed
  <2>1. sw' \in [Flow -> Switching]
    BY <1>9, <1>5, <1>s DEF SwitchFailed, Switching
  <2>2. panelFlow' \in 0 .. MaxFlows /\ panelKind' \in PanelKind
    <3>1. /\ panelFlow' \in {f, panelFlow} /\ panelKind' \in {"choice", panelKind}
          /\ queue # <<>>
      BY <1>9, <1>5 DEF SwitchFailed
    <3>2. panelFlow \in 0 .. MaxFlows /\ panelKind \in PanelKind
      BY <1>t DEF TypeOK
    <3>3. QED
      BY <1>h, <3>1, <3>2 DEF Flow, PanelKind
  <2>3. QED
    BY <1>9, <1>t, <1>5, <1>r, <2>1, <2>2 DEF SwitchFailed, TypeOK
<1>10. QED
  BY <1>1, <1>2, <1>3, <1>4, <1>6, <1>7, <1>8, <1>9 DEF SwitchStep

-----------------------------------------------------------------------------
(* Every step is of one of these kinds *)

QuietStep == UNCHANGED coreVars \/ GivesUp \/ Pause
PanelStep ==
  \/ Leaves
  \/ \E m \in Model, confident, readable \in BOOLEAN : RecoShown(m, confident, readable)
  \/ \E f \in Flow, v \in Outcomes : Chooses(f, v)
  \/ CancelClick
HeadStep ==
  \/ \E ok \in BOOLEAN : RequestDone(ok)
  \/ \E f \in Flow, ok \in BOOLEAN, s \in Switching : Cancelled(f, ok, s)
  \/ \E f \in Flow, ok \in BOOLEAN : Left(f, ok)
  \/ \E f \in Flow : Held(f) \/ Accepted(f) \/ Failed(f)

\* What the user and the page do is a quiet step or a step of the panel.
LEMMA UserStepKinds ==
  ASSUME IInv, UserStep \/ Poll
  PROVE  QuietStep \/ PanelStep
<1>l. LeavePanel => Leaves
  BY DEF LeavePanel, FlushPendingAutoAccept, Leaves, switchVars
<1>1. CASE Pause
  BY <1>1 DEF QuietStep
<1>2. CASE EmptyPause
  <2>1. Leaves
    BY <1>2 DEF EmptyPause, FlushPendingAutoAccept, Leaves, switchVars
  <2>2. QED
    BY <2>1 DEF PanelStep
<1>3. CASE FollowClick
  <2>1. panelFlow \in Flow /\ reco[panelFlow] \in Model
    BY <1>3, PanelModel DEF FollowClick, PanelPresent
  <2>2. Chooses(panelFlow, "followed")
    BY <1>3, <2>1 DEF FollowClick, Chooses, Enqueue, pageVars
  <2>3. QED
    BY <2>1, <2>2 DEF PanelStep, Outcomes
<1>4. ASSUME NEW m \in Model, OverrideClick(m)
      PROVE  PanelStep
  <2>1. panelFlow \in Flow
    BY <1>4, PanelFlow DEF OverrideClick, PanelPresent
  <2>2. Chooses(panelFlow, "overridden")
    BY <1>4 DEF OverrideClick, Chooses, Enqueue, pageVars
  <2>3. QED
    BY <2>1, <2>2 DEF PanelStep, Outcomes
<1>5. ASSUME NEW m \in Model, UserPicks(m)
      PROVE  QuietStep
  BY <1>5 DEF UserPicks, QuietStep, coreVars, flowVars, panelVars, switchVars
<1>6. CASE CancelClick
  BY <1>6 DEF PanelStep
<1>7. CASE DismissClick
  <2>1. CASE panelKind \in {"switched", "ackSwitched"}
    <3>1. Leaves
      BY <1>7, <2>1 DEF DismissClick, FlushPendingAutoAccept, Leaves, switchVars
    <3>2. QED
      BY <3>1 DEF PanelStep
  <2>2. CASE panelKind \notin {"switched", "ackSwitched"}
    <3>1. pending = NoFlow
      BY <2>2 DEF IInv, Core, PendingInv
    <3>2. Leaves
      BY <1>7, <2>2, <3>1 DEF DismissClick, Leaves, FlushVerdict, FlushSent, switchVars
    <3>3. QED
      BY <3>2 DEF PanelStep
  <2>3. QED
    BY <2>1, <2>2
<1>8. CASE BadgeClick \/ PageHide \/ Poll
  BY <1>8, <1>l DEF BadgeClick, PageHide, Poll, PanelStep
<1>9. ASSUME NEW t \in Threads, Navigate(t)
      PROVE  QuietStep \/ PanelStep
  <2>1. CASE t # key
    BY <1>9, <1>l, <2>1 DEF Navigate, PanelStep
  <2>2. CASE t = key
    BY <1>9, <2>2 DEF Navigate, QuietStep, coreVars, flowVars, panelVars, switchVars
  <2>3. QED
    BY <2>1, <2>2
<1>10. ASSUME NEW t \in Threads, NavigateUnseen(t)
       PROVE  QuietStep
  BY <1>10 DEF NavigateUnseen, QuietStep, coreVars, flowVars, panelVars, switchVars
<1>11. QED
  BY <1>1, <1>2, <1>3, <1>4, <1>5, <1>6, <1>7, <1>8, <1>9, <1>10 DEF UserStep

\* What a recommendation does is a quiet step or a step of the panel.
LEMMA RecoStepKinds ==
  ASSUME RecoStep
  PROVE  QuietStep \/ PanelStep
<1>1. CASE RecoFails \/ RecoDropped
  BY <1>1 DEF RecoFails, RecoDropped, QuietStep, GivesUp, panelVars, switchVars, pageVars
<1>2. QED
  BY <1>1 DEF RecoStep, PanelStep

\* What a switch does is a quiet step or the end of the head of the queue.
LEMMA SwitchStepKinds ==
  ASSUME IInv, SwitchStep
  PROVE  QuietStep \/ HeadStep
<1> DEFINE f == Head(queue).flow
<1>h. queue # <<>> => f \in Flow
  BY TailType DEF IInv, Job
<1>r. \A ok \in BOOLEAN : Resolved(ok) => HeadEnds(ok)
  BY DEF Resolved, Resolves, Busy, HeadEnds, pageVars
<1>1. CASE OpenMenu \/ \E effective \in BOOLEAN : ClickItem(effective)
  BY <1>1 DEF OpenMenu, ClickItem, QuietStep, coreVars, flowVars, panelVars, switchVars, pageVars
<1>2. ASSUME NEW ok \in BOOLEAN, RequestEnds(ok)
      PROVE  HeadStep
  BY <1>2, <1>r DEF RequestEnds, RequestDone, HeadStep
<1>3. ASSUME NEW ok \in BOOLEAN, CancelledSwitchEnds(ok)
      PROVE  HeadStep
  <2>1. HeadEnds(ok) /\ f \in Flow
    BY <1>3, <1>h, <1>r DEF CancelledSwitchEnds, HeadEnds
  <2>2. Cancelled(f, ok, IF ok THEN "ok" ELSE "failed")
    BY <1>3, <2>1 DEF CancelledSwitchEnds, Cancelled, AutoEnds
  <2>3. (IF ok THEN "ok" ELSE "failed") \in Switching
    BY DEF Switching
  <2>4. QED
    BY <2>1, <2>2, <2>3 DEF HeadStep
<1>4. ASSUME NEW ok \in BOOLEAN, FlowResumes(ok)
      PROVE  /\ HeadEnds(ok) /\ f \in Flow /\ Head(queue).purpose = "auto"
             /\ ~Committed(f) /\ queue' = Tail(queue)
  BY <1>4, <1>h, <1>r DEF FlowResumes, HeadEnds
<1>5. ASSUME NEW ok \in BOOLEAN, LeftSwitchEnds(ok)
      PROVE  HeadStep
  <2>1. Left(f, ok) /\ f \in Flow
    BY <1>4, <1>5 DEF LeftSwitchEnds, Left, AutoEnds
  <2>2. QED
    BY <2>1 DEF HeadStep
<1>6. CASE SwitchHeld
  <2>1. Held(f) /\ f \in Flow
    BY <1>4, <1>6 DEF SwitchHeld, Held, AutoEnds
  <2>2. QED
    BY <2>1 DEF HeadStep
<1>7. CASE SwitchAccepted
  <2>1. Accepted(f) /\ f \in Flow
    BY <1>4, <1>7 DEF SwitchAccepted, Accepted, AutoEnds
  <2>2. QED
    BY <2>1 DEF HeadStep
<1>8. CASE SwitchFailed
  <2>1. Failed(f) /\ f \in Flow
    BY <1>4, <1>8 DEF SwitchFailed, Failed, AutoEnds
  <2>2. QED
    BY <2>1 DEF HeadStep
<1>9. QED
  BY <1>1, <1>2, <1>3, <1>5, <1>6, <1>7, <1>8 DEF SwitchStep

\* Every step is of one of the three kinds.
LEMMA StepKinds ==
  ASSUME IInv, [Next]_vars
  PROVE  QuietStep \/ PanelStep \/ HeadStep
<1>1. CASE UNCHANGED vars
  BY <1>1 DEF vars, flowVars, panelVars, switchVars, pageVars, QuietStep, coreVars
<1>2. QED
  BY <1>1, UserStepKinds, RecoStepKinds, SwitchStepKinds DEF Next

-----------------------------------------------------------------------------
(* The invariant is inductive *)

\* The initial state satisfies every part.
LEMMA InitIInv == Init => IInv
<1> SUFFICES ASSUME Init PROVE IInv
  OBVIOUS
<1> USE FlowAssumption
<1>1. TypeOK
  <2>1. memory \in [Threads -> Memory]
    BY EmptyMemoryType DEF Init
  <2>2. queue \in Seq(Job)
    BY EmptySeq DEF Init
  <2>3. 0 \in 0 .. MaxFlows /\ 0 \in 0 .. NumModels /\ 0 \in 0 .. MaxMoves
    OBVIOUS
  <2>4. /\ reco \in [Flow -> 0 .. NumModels] /\ prev \in [Flow -> 0 .. NumModels]
        /\ replaced \in [Flow -> 0 .. NumModels]
    BY <2>3 DEF Init, NoModel
  <2>5. /\ origin \in [Flow -> Threads] /\ sw \in [Flow -> Switching]
        /\ verdict \in [Flow -> Outcomes] /\ sent \in [Flow -> Nat]
    BY DEF Init, Switching, Outcomes
  <2>6. /\ started \in 0 .. MaxFlows /\ asking \in 0 .. MaxFlows /\ gen \in 0 .. MaxFlows
        /\ panelFlow \in 0 .. MaxFlows /\ panelKind \in PanelKind /\ pending \in 0 .. MaxFlows
        /\ moves \in 0 .. MaxMoves /\ stage \in {"idle", "open", "settling"}
    BY <2>3 DEF Init, NoFlow, PanelKind
  <2>7. QED
    BY <2>1, <2>2, <2>4, <2>5, <2>6 DEF Init, TypeOK
<1>2. Core
  BY DEF Init, Core, ClockInv, FreshInv, Fresh, FlowInv, PanelInv, PanelPresent, ButtonInv,
         PendingInv, OneEventPerReco, AcceptanceMatchesSwitch, QueueOK, NoFlow, NoModel
<1>3. QED
  BY <1>1, <1>2 DEF IInv

\* Every step preserves every part.
LEMMA NextIInv == IInv /\ [Next]_vars => IInv'
<1> SUFFICES ASSUME IInv, [Next]_vars PROVE IInv'
  OBVIOUS
<1>1. TypeOK'
  <2>1. CASE UNCHANGED vars
    BY <2>1 DEF IInv, TypeOK, vars, flowVars, panelVars, switchVars, pageVars
  <2>2. QED
    BY <2>1, PageTypes, RecoTypes, SwitchTypes DEF Next
<1>2. ASSUME QuietStep
      PROVE  Core'
  <2>1. UNCHANGED coreVars => Core'
    BY QuietKeepsCore DEF IInv
  <2>2. GivesUp \/ Pause => Core'
    BY GivingUpKeepsCore, PauseKeepsCore
  <2>3. QED
    BY <1>2, <2>1, <2>2 DEF QuietStep
<1>3. ASSUME PanelStep
      PROVE  Core'
  <2>1. ASSUME NEW m \in Model, NEW confident \in BOOLEAN, NEW readable \in BOOLEAN,
               RecoShown(m, confident, readable)
        PROVE  Core'
    BY <2>1, RecoShownKeepsCore
  <2>2. ASSUME NEW f \in Flow, NEW v \in Outcomes, Chooses(f, v)
        PROVE  Core'
    BY <2>2, ChoosingKeepsCore
  <2>3. Leaves \/ CancelClick => Core'
    BY LeavingKeepsCore, CancelKeepsCore
  <2>4. QED
    BY <1>3, <2>1, <2>2, <2>3 DEF PanelStep
<1>4. ASSUME HeadStep
      PROVE  Core'
  <2>1. ASSUME NEW ok \in BOOLEAN, RequestDone(ok)
        PROVE  Core'
    BY <2>1, RequestDoneKeepsCore
  <2>2. ASSUME NEW f \in Flow, NEW ok \in BOOLEAN, NEW s \in Switching, Cancelled(f, ok, s)
        PROVE  Core'
    BY <2>2, CancelledKeepsCore
  <2>3. ASSUME NEW f \in Flow, NEW ok \in BOOLEAN, Left(f, ok)
        PROVE  Core'
    BY <2>3, LeftKeepsCore
  <2>4. ASSUME NEW f \in Flow, Held(f) \/ Accepted(f) \/ Failed(f)
        PROVE  Core'
    BY <2>4, HeldKeepsCore, AcceptedKeepsCore, FailedKeepsCore
  <2>5. QED
    BY <1>4, <2>1, <2>2, <2>3, <2>4 DEF HeadStep
<1>5. QED
  BY <1>1, <1>2, <1>3, <1>4, StepKinds DEF IInv

\* The inductive invariant holds of every behaviour.
LEMMA Inductive == Spec => []IInv
BY InitIInv, NextIInv, PTL DEF Spec

-----------------------------------------------------------------------------
(* Theorems *)

\* Every reachable state is well formed: memories, switches waiting in the
\* queue and panel (updateFromPage, switchQueue, renderPanel).
THEOREM TypeCorrect == Spec => []TypeOK
<1>1. IInv => TypeOK
  BY DEF IInv
<1>2. QED
  BY <1>1, Inductive, PTL

\* A recommendation never gets a second event: neither a late switch, nor a
\* flush, nor a click after another verdict sends one (sendRecoEvent).
THEOREM OneEvent == Spec => []OneEventPerReco
<1>1. IInv => OneEventPerReco
  BY DEF IInv, Core
<1>2. QED
  BY <1>1, Inductive, PTL

\* A verified automatic switch is accepted, rejected or waiting, and nothing
\* else is accepted (commitAccept, pendingAutoAccept, flowGeneration).
THEOREM NoOrphanSwitch == Spec => []AcceptanceMatchesSwitch
<1>1. IInv => AcceptanceMatchesSwitch
  BY DEF IInv, Core
<1>2. QED
  BY <1>1, Inductive, PTL

\* The acceptance that waits is the one of the panel on display, whose Cancel
\* button is present (pendingAutoAccept and renderPanel).
THEOREM WaitIsCancellable == Spec => []PendingIsCancellable
<1>1. IInv => PendingIsCancellable
  BY DEF IInv, Core, PendingInv, PendingIsCancellable
<1>2. QED
  BY <1>1, Inductive, PTL

\* The panel on display belongs to the last flow that displayed one and to the
\* conversation believed current (isCurrent, onConversationChange).
THEOREM PanelIsCurrent == Spec => []PanelIsOfThisConversation
<1>1. IInv => PanelIsOfThisConversation
  BY DEF IInv, Core, PanelInv, PanelIsOfThisConversation
<1>2. QED
  BY <1>1, Inductive, PTL

\* A switch abandoned because the conversation was left reports no breakage of
\* the page (applyAndReport).
THEOREM LeavingIsSilent == Spec => []LeavingIsNotBreakage
<1>1. IInv => LeavingIsNotBreakage
  BY DEF IInv, Core, FlowInv, LeavingIsNotBreakage
<1>2. QED
  BY <1>1, Inductive, PTL

\* The only steps that change a model are the user's own pick, which is a move,
\* and the click on a menu item, which checks the conversation first.
THEOREM ForeignSwitch == Spec => NoForeignSwitch
<1> DEFINE Own == \A t \in Threads :
                    model'[t] # model[t] /\ moves' = moves /\ shown = key
                      => queue # <<>> /\ origin[Head(queue).flow] = t
<1>1. ASSUME IInv, [Next]_vars
      PROVE  Own
  <2>t. model \in [Threads -> Model] /\ moves \in Nat
    BY <1>1 DEF IInv, TypeOK
  <2>u. model' = model => Own
    OBVIOUS
  <2>l. LeavePanel /\ UNCHANGED model => Own
    BY <2>u
  <2>1. CASE UNCHANGED vars \/ Pause \/ EmptyPause \/ FollowClick \/ CancelClick \/ DismissClick
    BY <2>1, <2>u DEF vars, pageVars, Pause, EmptyPause, FollowClick, CancelClick, DismissClick
  <2>2. ASSUME NEW m \in Model, OverrideClick(m)
        PROVE  Own
    BY <2>2, <2>u DEF OverrideClick, pageVars
  <2>3. ASSUME NEW m \in Model, UserPicks(m)
        PROVE  Own
    BY <2>3, <2>t DEF UserPicks
  <2>4. CASE BadgeClick \/ PageHide \/ Poll
    BY <2>4, <2>u DEF BadgeClick, PageHide, Poll, pageVars
  <2>5. ASSUME NEW t \in Threads, Navigate(t) \/ NavigateUnseen(t)
        PROVE  Own
    BY <2>5, <2>u DEF Navigate, NavigateUnseen
  <2>6. CASE RecoStep
    BY <2>6, <2>u DEF RecoStep, RecoFails, RecoDropped, RecoShown, pageVars
  <2>7. ASSUME NEW effective \in BOOLEAN, ClickItem(effective)
        PROVE  Own
    <3>1. \A t \in Threads : model'[t] # model[t] => t = shown
      BY <2>7, <2>t DEF ClickItem
    <3>2. queue # <<>> /\ origin[Head(queue).flow] = key
      BY <2>7 DEF ClickItem, Busy, Current
    <3>3. QED
      BY <3>1, <3>2
  <2>8. CASE OpenMenu \/ \E ok \in BOOLEAN : Resolved(ok)
    BY <2>8, <2>u DEF OpenMenu, Resolved, pageVars
  <2>9. SwitchStep => \/ OpenMenu \/ \E ok \in BOOLEAN : Resolved(ok)
                     \/ \E effective \in BOOLEAN : ClickItem(effective)
    BY DEF SwitchStep, RequestEnds, CancelledSwitchEnds, LeftSwitchEnds, SwitchHeld,
           SwitchAccepted, SwitchFailed, FlowResumes
  <2>10. QED
    BY <1>1, <2>1, <2>2, <2>3, <2>4, <2>5, <2>6, <2>7, <2>8, <2>9 DEF Next, UserStep
<1>2. IInv /\ [Next]_vars => [Own]_vars
  BY <1>1
<1>3. QED
  BY <1>2, Inductive, PTL DEF Spec, NoForeignSwitch

-----------------------------------------------------------------------------
(* What Cancel owes is given *)

\* A queue that grows at its end, or loses another request at its head, keeps r.
Queued(q, r) == \E i \in 1 .. Len(q) : q[i] = r

LEMMA QueuedStays ==
  ASSUME NEW r
  PROVE  /\ \A q \in Seq(Job), j \in Job :
              /\ Queued(q, r) => Queued(Append(q, j), r)
              /\ Queued(Append(q, j), j)
         /\ \A q \in Seq(Job) : q # <<>> /\ Queued(q, r) => Head(q) = r \/ Queued(Tail(q), r)
<1>1. ASSUME NEW q \in Seq(Job), NEW j \in Job
      PROVE  /\ Queued(q, r) => Queued(Append(q, j), r)
             /\ Queued(Append(q, j), j)
  <2>1. /\ Len(Append(q, j)) = Len(q) + 1 /\ Append(q, j)[Len(q) + 1] = j
        /\ \A i \in 1 .. Len(q) : Append(q, j)[i] = q[i]
    BY AppendProperties
  <2>2. Len(q) \in Nat
    BY LenProperties
  <2>3. \A i \in 1 .. Len(q) : i \in 1 .. Len(q) + 1
    BY <2>2
  <2> QED BY <2>1, <2>2, <2>3 DEF Queued
<1>2. ASSUME NEW q \in Seq(Job), q # <<>>, NEW i \in 1 .. Len(q), q[i] = r, Head(q) # r
      PROVE  Queued(Tail(q), r)
  <2>1. /\ Head(q) = q[1] /\ Len(Tail(q)) = Len(q) - 1
        /\ \A k \in 1 .. Len(Tail(q)) : Tail(q)[k] = q[k + 1]
    BY <1>2, HeadTailProperties
  <2>2. Len(q) \in Nat /\ i # 1
    BY <1>2, <2>1, LenProperties
  <2>3. i - 1 \in 1 .. Len(Tail(q)) /\ (i - 1) + 1 = i
    BY <2>1, <2>2
  <2> QED BY <1>2, <2>1, <2>3 DEF Queued
<1> QED BY <1>1, <1>2 DEF Queued

Restoration(f) == Request(f, prev[f], "restore")

\* Such a request is one of the queue.
LEMMA RequestIsJob ==
  ASSUME NEW f \in Flow, NEW m \in Model, NEW p \in {"auto", "restore", "click"}
  PROVE  Request(f, m, p) \in Job
BY DEF Request, Job, Purpose

\* A known previous model is a model.
LEMMA PreviousIsModel ==
  ASSUME TypeOK, NEW f \in Flow, prev[f] # NoModel
  PROVE  prev[f] \in Model
BY FlowAssumption DEF TypeOK, Model, NoModel

\* A step that keeps the refusal, the model to restore and what is queued keeps the debt.
LEMMA OwedKept ==
  ASSUME NEW f \in Flow, Owed(f), verdict'[f] = "rejected", prev'[f] = prev[f],
         sw'[f] = sw[f], Queued(queue, Restoration(f)) => Queued(queue', Restoration(f))
  PROVE  Owed(f)'
BY DEF Owed, Queued, Restoration

\* A refusal and its model to restore are final.
LEMMA RefusalStays ==
  ASSUME IInv, NEW f \in Flow, verdict[f] = "rejected", QuietStep \/ PanelStep
  PROVE  /\ verdict'[f] = "rejected" /\ prev'[f] = prev[f] /\ sw'[f] = sw[f]
         /\ queue' = queue \/ \E j \in Job : queue' = Append(queue, j)
<1>0. /\ verdict \in [Flow -> Outcomes] /\ prev \in [Flow -> 0 .. NumModels]
      /\ sw \in [Flow -> Switching] /\ queue \in Seq(Job)
  BY DEF IInv, TypeOK
<1>f. \A g \in Flow : Fresh(g) => g # f
  BY DEF Fresh
<1>p. FlushVerdict[f] = "rejected"
  BY FlushOnce DEF IInv, Core, PendingInv, NoFlow, Flow
<1>1. CASE QuietStep
  BY <1>1 DEF QuietStep, coreVars, panelVars, GivesUp, Pause, switchVars
<1>2. CASE Leaves
  BY <1>2, <1>p DEF Leaves
<1>3. ASSUME NEW m \in Model, NEW confident \in BOOLEAN, NEW readable \in BOOLEAN,
             RecoShown(m, confident, readable)
      PROVE  /\ verdict'[f] = "rejected" /\ prev'[f] = prev[f] /\ sw'[f] = sw[f]
             /\ queue' = queue \/ \E j \in Job : queue' = Append(queue, j)
  <2>1. asking \in 0 .. MaxFlows /\ asking # NoFlow
    BY <1>3 DEF IInv, TypeOK, RecoShown
  <2>2. asking \in Flow
    BY <2>1, FlowAssumption DEF Flow, NoFlow
  <2>3. asking # f
    BY <1>f, <2>2 DEF IInv, Core, FreshInv
  <2>4. Request(asking, m, "auto") \in Job
    BY <2>2, RequestIsJob
  <2> QED BY <1>3, <1>0, <1>p, <2>3, <2>4 DEF RecoShown, FlushPendingAutoAccept
<1>4. ASSUME NEW g \in Flow, NEW v \in Outcomes, Chooses(g, v)
      PROVE  /\ verdict'[f] = "rejected" /\ prev'[f] = prev[f] /\ sw'[f] = sw[f]
             /\ queue' = queue \/ \E j \in Job : queue' = Append(queue, j)
  <2>1. g # f
    BY <1>4 DEF Chooses, IInv, Core, ButtonInv
  <2>2. \A m \in Model : Request(g, m, "click") \in Job
    BY RequestIsJob
  <2> QED BY <1>4, <1>0, <2>1, <2>2 DEF Chooses
<1>5. CASE CancelClick
  <2>1. panelFlow # f /\ panelFlow \in Flow
    BY <1>5, PanelFlow DEF CancelClick, PanelPresent, IInv, Core, ButtonInv
  <2>2. prev[panelFlow] \in Model
    BY <1>5, <2>1, PreviousIsModel DEF CancelClick, IInv, Core, ButtonInv
  <2>3. Request(panelFlow, prev[panelFlow], "restore") \in Job
    BY <2>1, <2>2, RequestIsJob
  <2> QED BY <1>5, <1>0, <2>1, <2>3 DEF CancelClick
<1> QED BY <1>1, <1>2, <1>3, <1>4, <1>5 DEF PanelStep

\* The restoration ends with the model back, or a failure that is reported.
LEMMA RestorationEnds ==
  ASSUME IInv, NEW f \in Flow, queue # <<>>, Head(queue) = Restoration(f),
         NEW ok \in BOOLEAN, Resolved(ok), Current(f), shown = key
  PROVE  model'[origin[f]] = prev[f] \/ f \in alerted'
<1>1. Head(queue).flow = f /\ Head(queue).target = prev[f]
  BY DEF Restoration, Request
<1>2. CASE ok
  BY <1>1, <1>2 DEF Resolved, Resolves, Current, pageVars
<1>3. CASE ~ok
  BY <1>1, <1>3 DEF Resolved, Report
<1> QED BY <1>2, <1>3

\* A switch that ends leaves the debt, unless it was the restoration.
LEMMA OwedThroughSwitch ==
  ASSUME IInv, NEW f \in Flow, Owed(f), SwitchStep, ~QuietStep, Current(f), shown = key
  PROVE  Owed(f)' \/ model'[origin[f]] = prev[f] \/ f \in alerted'
<1> DEFINE h == Head(queue).flow
<1>0. /\ verdict \in [Flow -> Outcomes] /\ sw \in [Flow -> Switching] /\ queue \in Seq(Job)
      /\ verdict[f] = "rejected"
  BY DEF IInv, TypeOK, Owed
<1>q. ~ (OpenMenu \/ \E effective \in BOOLEAN : ClickItem(effective))
  BY DEF OpenMenu, ClickItem, QuietStep, coreVars, flowVars, panelVars, switchVars, pageVars
<1>h. queue # <<>> => /\ h \in Flow /\ Head(queue) \in Job /\ Tail(queue) \in Seq(Job)
                      /\ Head(queue).purpose = "auto" <=> sw[h] = "inflight"
  BY HeadFacts
<1>r. \A ok \in BOOLEAN : Resolved(ok) => queue # <<>> /\ prev' = prev
  BY DEF Resolved, Resolves, Busy
<1>k. ASSUME queue # <<>>, Queued(queue, Restoration(f)), Head(queue).purpose = "auto"
      PROVE  Queued(Tail(queue), Restoration(f))
  <2>1. Head(queue) # Restoration(f)
    BY <1>k DEF Restoration, Request
  <2> QED BY <1>0, <1>k, <2>1, QueuedStays
<1>1. ASSUME NEW ok \in BOOLEAN, RequestEnds(ok)
      PROVE  Owed(f)' \/ model'[origin[f]] = prev[f] \/ f \in alerted'
  <2>1. Resolved(ok) /\ queue # <<>> /\ prev' = prev /\ queue' = Tail(queue)
        /\ sw' = sw /\ verdict' = verdict
    BY <1>1, <1>r DEF RequestEnds
  <2>2. CASE Head(queue) = Restoration(f)
    BY <2>1, <2>2, RestorationEnds
  <2>3. CASE Head(queue) # Restoration(f)
    BY <1>0, <2>1, <2>3, QueuedStays, OwedKept
  <2> QED BY <2>2, <2>3
<1>2. ASSUME NEW ok \in BOOLEAN, CancelledSwitchEnds(ok)
      PROVE  Owed(f)'
  <2>1. /\ queue # <<>> /\ prev' = prev /\ verdict' = verdict /\ Head(queue).purpose = "auto"
        /\ queue' = Append(Tail(queue), Restoration(h)) /\ h \in Flow
        /\ \A g \in Flow \ {h} : sw'[g] = sw[g]
    BY <1>0, <1>2, <1>h, <1>r DEF CancelledSwitchEnds, Restoration
  <2>2. sw[h] = "inflight" /\ prev[h] \in Model
    BY <1>h, <2>1, PreviousIsModel DEF IInv, Core, FlowInv
  <2>3. Restoration(h) \in Job
    BY <2>1, <2>2, RequestIsJob DEF Restoration
  <2>4. Queued(queue', Restoration(h))
        /\ (Queued(queue, Restoration(f)) => Queued(queue', Restoration(f)))
    BY <1>h, <1>k, <2>1, <2>3, QueuedStays
  <2>5. CASE f = h
    BY <1>0, <2>1, <2>4, <2>5 DEF Owed, Queued, Restoration
  <2>6. CASE f # h
    BY <1>0, <2>1, <2>4, <2>6, OwedKept
  <2> QED BY <2>5, <2>6
<1>3. ASSUME NEW ok \in BOOLEAN, FlowResumes(ok),
             verdict' = verdict \/ \E v : verdict' = [verdict EXCEPT ![h] = v],
             \E s : sw' = [sw EXCEPT ![h] = s]
      PROVE  Owed(f)'
  <2>1. /\ queue # <<>> /\ prev' = prev /\ queue' = Tail(queue) /\ Head(queue).purpose = "auto"
        /\ ~Committed(h)
    BY <1>3, <1>r DEF FlowResumes
  <2>2. f # h
    BY <1>0, <2>1 DEF Committed
  <2>3. verdict'[f] = "rejected" /\ sw'[f] = sw[f]
    BY <1>0, <1>3, <2>2
  <2> QED BY <1>k, <2>1, <2>3, OwedKept
<1>4. ASSUME NEW ok \in BOOLEAN, LeftSwitchEnds(ok) PROVE Owed(f)'
  BY <1>3, <1>4 DEF LeftSwitchEnds
<1>5. CASE SwitchHeld
  BY <1>3, <1>5 DEF SwitchHeld
<1>6. CASE SwitchAccepted
  BY <1>3, <1>6 DEF SwitchAccepted
<1>7. CASE SwitchFailed
  BY <1>3, <1>7 DEF SwitchFailed
<1> QED BY <1>q, <1>1, <1>2, <1>4, <1>5, <1>6, <1>7 DEF SwitchStep

\* A Cancel is served to its end, whatever was in flight or queued before it (commitReject,
\* content-main.ts:239-247, and applyAndReport).
THEOREM RestorationIsServed == Spec => CancelIsServed
<1> DEFINE Served == \A f \in Flow :
                       Owed(f) /\ ~Owed(f)' /\ Current(f) /\ shown = key
                         => model'[origin[f]] = prev[f] \/ f \in alerted'
<1>1. ASSUME IInv, [Next]_vars, NEW f \in Flow, Owed(f), Current(f), shown = key
      PROVE  Owed(f)' \/ model'[origin[f]] = prev[f] \/ f \in alerted'
  <2>1. CASE QuietStep \/ PanelStep
    <3>1. /\ verdict'[f] = "rejected" /\ prev'[f] = prev[f] /\ sw'[f] = sw[f]
          /\ queue' = queue \/ \E j \in Job : queue' = Append(queue, j)
      BY <1>1, <2>1, RefusalStays DEF Owed
    <3>2. queue \in Seq(Job)
      BY <1>1 DEF IInv, TypeOK
    <3>3. Queued(queue, Restoration(f)) => Queued(queue', Restoration(f))
      <4>1. \A j \in Job : Queued(queue, Restoration(f)) => Queued(Append(queue, j), Restoration(f))
        BY <3>2, QueuedStays
      <4>2. CASE queue' = queue
        BY <4>2
      <4>3. CASE \E j \in Job : queue' = Append(queue, j)
        BY <4>1, <4>3
      <4> QED BY <3>1, <4>2, <4>3
    <3> QED BY <1>1, <3>1, <3>3, OwedKept
  <2>2. CASE SwitchStep /\ ~QuietStep
    BY <1>1, <2>2, OwedThroughSwitch
  <2>3. UNCHANGED vars => QuietStep
    BY DEF vars, flowVars, panelVars, switchVars, pageVars, QuietStep, coreVars
  <2> QED BY <1>1, <2>1, <2>2, <2>3, UserStepKinds, RecoStepKinds DEF Next
<1>2. IInv /\ [Next]_vars => [Served]_vars
  BY <1>1
<1>3. QED
  BY <1>2, Inductive, PTL DEF Spec, CancelIsServed

-----------------------------------------------------------------------------
(* The flow implements RecoOutcome *)

\* What one step may do to what RecoOutcome sees of flow f.
Stutters(f) ==
  /\ verdict'[f] = verdict[f] /\ sent'[f] = sent[f]
  /\ reco'[f] = reco[f] /\ (sw'[f] = "ok" <=> sw[f] = "ok")
Shows(f) ==
  /\ reco[f] = NoModel /\ reco'[f] # NoModel
  /\ verdict[f] = "none" /\ verdict'[f] = "none" /\ sent'[f] = sent[f]
  /\ sw[f] # "ok" /\ sw'[f] # "ok"
Verifies(f) ==
  /\ reco[f] # NoModel /\ reco'[f] = reco[f]
  /\ verdict[f] \in {"none", "rejected"} /\ verdict'[f] = verdict[f] /\ sent'[f] = sent[f]
  /\ sw'[f] = "ok"
Settles(f) ==
  /\ reco[f] # NoModel /\ reco'[f] = reco[f]
  /\ verdict[f] = "none" /\ verdict'[f] \in Outcomes \ {"none"}
  /\ sent'[f] = 1
  /\ verdict'[f] = "accepted" => sw'[f] = "ok"
  /\ (sw'[f] = "ok" <=> sw[f] = "ok") \/ verdict'[f] = "accepted"

LifeStep == \A f \in Flow : Stutters(f) \/ Shows(f) \/ Verifies(f) \/ Settles(f)

\* A step of the panel moves each flow along its life.
LEMMA PanelLifeStep ==
  ASSUME IInv, PanelStep
  PROVE  LifeStep
<1>o. \A f \in Flow : sent[f] = (IF verdict[f] = "none" THEN 0 ELSE 1)
  BY DEF IInv, Core, OneEventPerReco
<1>p. pending \in Flow => sw[pending] = "ok" /\ verdict[pending] = "none" /\ reco[pending] # NoModel
  BY DEF IInv, Core, PendingInv, FlowInv, Flow, NoFlow
<1>1. CASE Leaves
  BY <1>1, <1>p, FlushOnce DEF Leaves, LifeStep, Stutters, Settles, Outcomes
<1>2. ASSUME NEW m \in Model, NEW confident \in BOOLEAN, NEW readable \in BOOLEAN,
             RecoShown(m, confident, readable)
      PROVE  LifeStep
  <2>1. asking \in Flow /\ Fresh(asking) /\ m # NoModel
    <3>1. asking \in 0 .. MaxFlows /\ asking # NoFlow
      BY <1>2 DEF IInv, TypeOK, RecoShown
    <3>2. asking \in Flow
      BY <3>1, FlowAssumption DEF Flow, NoFlow
    <3>3. Fresh(asking)
      BY <3>1, <3>2 DEF IInv, Core, FreshInv
    <3>4. m # NoModel
      BY DEF Model, NoModel
    <3> QED BY <3>2, <3>3, <3>4
  <2>2. /\ reco' = [reco EXCEPT ![asking] = m] /\ verdict' = FlushVerdict /\ sent' = FlushSent
        /\ sw' = sw \/ sw' = [sw EXCEPT ![asking] = "inflight"]
    BY <1>2 DEF RecoShown, FlushPendingAutoAccept
  <2>3. reco \in [Flow -> 0 .. NumModels] /\ sw \in [Flow -> Switching]
    BY DEF IInv, TypeOK
  <2>4. Shows(asking)
    BY <1>p, <2>1, <2>2, <2>3, FlushOnce DEF Shows, Fresh
  <2>5. ASSUME NEW f \in Flow, f # asking
        PROVE  Stutters(f) \/ Settles(f)
    <3>1. reco'[f] = reco[f] /\ sw'[f] = sw[f]
      BY <2>2, <2>3, <2>5
    <3>2. QED
      BY <1>p, <2>2, <3>1, FlushOnce DEF Stutters, Settles, Outcomes
  <2>6. QED
    BY <2>4, <2>5 DEF LifeStep
<1>3. ASSUME NEW f \in Flow, NEW v \in Outcomes, Chooses(f, v)
      PROVE  LifeStep
  <2>1. /\ reco[f] # NoModel /\ verdict[f] = "none" /\ sent[f] = 0
        /\ verdict \in [Flow -> Outcomes] /\ sent \in [Flow -> Nat]
    BY <1>3, <1>o, PanelFlow DEF IInv, TypeOK, Core, Chooses, ButtonInv, PanelPresent
  <2>2. QED
    BY <1>3, <2>1 DEF Chooses, LifeStep, Stutters, Settles, Outcomes
<1>4. CASE CancelClick
  <2>1. CASE Committed(panelFlow) \/ prev[panelFlow] = NoModel
    BY <1>4, <2>1 DEF CancelClick, LifeStep, Stutters
  <2>2. CASE ~Committed(panelFlow) /\ prev[panelFlow] # NoModel
    <3>1. /\ panelFlow \in Flow /\ reco[panelFlow] # NoModel
          /\ verdict[panelFlow] = "none" /\ sent[panelFlow] = 0
          /\ verdict \in [Flow -> Outcomes] /\ sent \in [Flow -> Nat]
      BY <1>4, <1>o, PanelFlow DEF IInv, TypeOK, Core, CancelClick, ButtonInv, PanelPresent
    <3>2. /\ verdict' = [verdict EXCEPT ![panelFlow] = "rejected"]
          /\ sent' = [sent EXCEPT ![panelFlow] = @ + 1]
          /\ UNCHANGED <<reco, sw>>
      BY <1>4, <2>2 DEF CancelClick
    <3>3. QED
      BY <3>1, <3>2 DEF LifeStep, Stutters, Settles, Outcomes
  <2>3. QED
    BY <2>1, <2>2
<1>5. QED
  BY <1>1, <1>2, <1>3, <1>4 DEF PanelStep

\* The end of a switch moves each flow along its life.
LEMMA HeadLifeStep ==
  ASSUME IInv, HeadStep
  PROVE  LifeStep
<1>o. \A f \in Flow : sent[f] = (IF verdict[f] = "none" THEN 0 ELSE 1)
  BY DEF IInv, Core, OneEventPerReco
<1>1. ASSUME NEW ok \in BOOLEAN, RequestDone(ok)
      PROVE  LifeStep
  BY <1>1 DEF RequestDone, HeadEnds, LifeStep, Stutters
<1>2. ASSUME NEW f \in Flow, NEW ok \in BOOLEAN, NEW s \in {"ok", "failed", "left"},
             AutoEnds(f, ok, s)
      PROVE  /\ reco' = reco /\ reco[f] # NoModel /\ sw[f] = "inflight"
             /\ verdict[f] \in {"none", "rejected"}
             /\ sw'[f] = s /\ \A g \in Flow : g # f => sw'[g] = sw[g]
  <2>1. reco' = reco
    BY <1>2 DEF AutoEnds, HeadEnds
  <2>2. QED
    BY <1>2, <2>1, AutoFacts
<1>3. ASSUME NEW f \in Flow, NEW ok \in BOOLEAN, NEW s \in Switching, Cancelled(f, ok, s)
      PROVE  LifeStep
  BY <1>2, <1>3 DEF Cancelled, LifeStep, Stutters, Verifies
<1>4. ASSUME NEW f \in Flow, NEW ok \in BOOLEAN, Left(f, ok)
      PROVE  LifeStep
  BY <1>2, <1>4 DEF Left, LifeStep, Stutters
<1>5. ASSUME NEW f \in Flow, Held(f)
      PROVE  LifeStep
  BY <1>2, <1>5 DEF Held, LifeStep, Stutters, Verifies
<1>6. ASSUME NEW f \in Flow, Accepted(f)
      PROVE  LifeStep
  <2>1. /\ reco' = reco /\ reco[f] # NoModel /\ verdict[f] = "none" /\ sent[f] = 0
        /\ sw'[f] = "ok" /\ \A g \in Flow : g # f => sw'[g] = sw[g]
    BY <1>2, <1>6, <1>o DEF Accepted, Committed
  <2>2. /\ verdict' = [verdict EXCEPT ![f] = "accepted"] /\ sent' = [sent EXCEPT ![f] = @ + 1]
        /\ verdict \in [Flow -> Outcomes] /\ sent \in [Flow -> Nat]
    BY <1>6 DEF Accepted, IInv, TypeOK
  <2>3. QED
    BY <2>1, <2>2 DEF LifeStep, Stutters, Settles, Outcomes
<1>7. ASSUME NEW f \in Flow, Failed(f)
      PROVE  LifeStep
  BY <1>2, <1>7 DEF Failed, LifeStep, Stutters
<1>8. QED
  BY <1>1, <1>3, <1>4, <1>5, <1>6, <1>7 DEF HeadStep

\* So does every step.
LEMMA EveryLifeStep ==
  ASSUME IInv, [Next]_vars
  PROVE  LifeStep
<1>1. CASE QuietStep
  BY <1>1 DEF QuietStep, coreVars, GivesUp, Pause, LifeStep, Stutters
<1>2. QED
  BY <1>1, StepKinds, PanelLifeStep, HeadLifeStep

\* From a step on a flow to the step of RecoOutcome on its life.
LEMMA LifeStepIsAbstract ==
  ASSUME IInv, IInv', NEW f \in Flow,
         Stutters(f) \/ Shows(f) \/ Verifies(f) \/ Settles(f)
  PROVE  \/ LifeOf(f)' = LifeOf(f)
         \/ Outcome!Show(LifeOf(f), LifeOf(f)')
         \/ Outcome!Verify(LifeOf(f), LifeOf(f)')
         \/ Outcome!Settle(LifeOf(f), LifeOf(f)')
<1>o. sent[f] = (IF verdict[f] = "none" THEN 0 ELSE 1)
  BY DEF IInv, Core, OneEventPerReco
<1>1. CASE Stutters(f)
  BY <1>1 DEF Stutters, LifeOf
<1>2. CASE Shows(f)
  BY <1>2, <1>o DEF Shows, LifeOf, Outcome!Show, Outcome!Unseen
<1>3. CASE Verifies(f)
  BY <1>3 DEF Verifies, LifeOf, Outcome!Verify
<1>4. CASE Settles(f)
  BY <1>4, <1>o DEF Settles, LifeOf, Outcome!Settle, Outcome!Verdict, Outcomes
<1>5. QED
  BY <1>1, <1>2, <1>3, <1>4

\* The life of a flow is a state of RecoOutcome.
LEMMA LifeType ==
  ASSUME TypeOK, NEW f \in Flow
  PROVE  LifeOf(f) \in Outcome!Life
BY DEF TypeOK, LifeOf, Outcome!Life, Outcome!Verdict, Outcomes

\* Seen through LifeOf, every behaviour of the flow is one that RecoOutcome
\* allows: one verdict, one event, "accepted" only for a verified switch.
THEOREM FlowImplementsOutcome == Spec => ImplementsRecoOutcome
<1>1. Init => Outcome!Init
  <2>1. ASSUME Init, NEW f \in Flow
        PROVE  LifeOf(f) = Outcome!Unseen
    BY <2>1 DEF Init, LifeOf, Outcome!Unseen
  <2>2. QED
    BY <2>1 DEF Outcome!Init
<1>2. IInv /\ IInv' /\ [Next]_vars => [Outcome!Next]_([f \in Flow |-> LifeOf(f)])
  <2> SUFFICES ASSUME IInv, IInv', [Next]_vars
               PROVE  Outcome!Next
    OBVIOUS
  <2>1. \A f \in Flow : LifeOf(f)' \in Outcome!Life
    BY LifeType DEF IInv, TypeOK, LifeOf, Outcome!Life, Outcome!Verdict, Outcomes
  <2>2. \A f \in Flow : \/ LifeOf(f)' = LifeOf(f)
                        \/ Outcome!Show(LifeOf(f), LifeOf(f)')
                        \/ Outcome!Verify(LifeOf(f), LifeOf(f)')
                        \/ Outcome!Settle(LifeOf(f), LifeOf(f)')
    BY EveryLifeStep, LifeStepIsAbstract DEF LifeStep
  <2>3. QED
    BY <2>1, <2>2 DEF Outcome!Next
<1>3. QED
  BY <1>1, <1>2, Inductive, PTL DEF Spec, ImplementsRecoOutcome, Outcome!Spec

-----------------------------------------------------------------------------
(* What a conversation counts *)

\* The flows of conversation t that displayed their recommendation.
Displayed(t) == {f \in Flow : reco[f] # NoModel /\ origin[f] = t}

\* Conversations whose memory is not reset once a flow began in them.
Kept(t) == t \notin Anonymous /\ ~Bypass

\* The memories m count no more than was followed; a memory that is kept is that of its
\* conversation, and counts all that was shown.
Counts(m) == \A t \in Threads : /\ m[t].followed <= Cardinality(FollowedIn(t))
                                /\ Kept(t) => m[t].shown = Cardinality(Displayed(t))
Known(m) == \A f \in Flow : f <= started /\ Kept(origin[f]) => m[origin[f]].id = origin[f]

\* Without Bypass, the extension knows the conversation displayed.
Follows == ~Bypass => key = shown

Tally == Follows /\ Known(memory) /\ Counts(memory)

LEMMA TallyInit == Init => Tally
<1> SUFFICES ASSUME Init PROVE Tally
  OBVIOUS
<1>1. \A t \in Threads : Displayed(t) = {} /\ FollowedIn(t) = {}
  BY DEF Init, Displayed, FollowedIn
<1>2. Counts(memory)
  <2>1. \A t \in Threads : memory[t].shown = 0 /\ memory[t].followed = 0
    BY DEF Init, EmptyMemory
  <2> QED BY <1>1, <2>1, FS_EmptySet DEF Counts
<1>3. Known(memory)
  BY FlowAssumption DEF Init, Known, Flow
<1>4. QED
  BY <1>2, <1>3 DEF Init, Tally, Follows

\* Counting adds one, where it counts.
LEMMA CountIs ==
  ASSUME NEW m \in [Threads -> Memory], NEW u \in Threads, NEW t \in Threads,
         NEW field \in {"shown", "followed", "up"}
  PROVE  /\ Count(m, u, field)[t].id = m[t].id
         /\ Count(m, u, field)[t].shown = m[t].shown + (IF t = u /\ field = "shown" THEN 1 ELSE 0)
         /\ Count(m, u, field)[t].followed = m[t].followed + (IF t = u /\ field = "followed" THEN 1 ELSE 0)
<1>1. m[u] \in Memory /\ m[t] \in Memory
  OBVIOUS
<1>2. Count(m, u, field)[t] = IF t = u THEN [m[u] EXCEPT ![field] = @ + 1] ELSE m[t]
  BY DEF Count
<1>3. QED
  BY <1>1, <1>2 DEF Memory

\* The flush counts the acceptance that waits.
LEMMA FlushIs ==
  ASSUME IInv, NEW m \in [Threads -> Memory], NEW t \in Threads
  PROVE  /\ FlushMemory(m)[t].id = m[t].id /\ FlushMemory(m)[t].shown = m[t].shown
         /\ FlushMemory(m)[t].followed
              = m[t].followed + (IF pending \in Flow /\ origin[pending] = t THEN 1 ELSE 0)
<1>1. pending \in Flow <=> pending # NoFlow
  BY DEF IInv, TypeOK, Flow, NoFlow
<1>2. pending # NoFlow => verdict[pending] = "none" /\ origin[pending] \in Threads
  BY <1>1 DEF IInv, Core, PendingInv, TypeOK
<1>3. m[t].followed \in Nat /\ m[t].shown \in Nat
  BY DEF Memory
<1>4. CASE pending = NoFlow
  BY <1>1, <1>3, <1>4 DEF FlushMemory
<1>5. CASE pending # NoFlow
  <2>1. FlushMemory(m) = Count(m, origin[pending], "followed")
    BY <1>2, <1>5 DEF FlushMemory, Committed
  <2>2. QED
    BY <1>1, <1>2, <1>3, <1>5, <2>1, CountIs
<1>6. QED
  BY <1>4, <1>5

\* A flow that did not start counts nowhere, nor one whose verdict is open.
LEMMA NotYet ==
  ASSUME IInv, NEW f \in Flow
  PROVE  /\ f > started => reco[f] = NoModel
         /\ reco[f] = NoModel => verdict[f] = "none"
BY DEF IInv, Core, FreshInv, Fresh, FlowInv

\* Reading the page may reset the memory of the conversation believed current, but not one
\* that is kept and has counted.
LEMMA PageViewTally ==
  ASSUME IInv, Tally, NEW m \in PageView(memory)
  PROVE  m \in [Threads -> Memory] /\ (Kept(key) => m[key].id = key) /\ Known(m) /\ Counts(m)
<1>1. /\ key \in Threads /\ memory \in [Threads -> Memory] /\ m \in [Threads -> Memory]
      /\ Kept(key) => key = shown /\ key \notin Anonymous
  BY PageViewType DEF Tally, Follows, Kept, IInv, TypeOK
<1>2. CASE m = memory
  <2>1. Kept(key) => memory[key].id = key
    BY <1>1, <1>2 DEF PageView, EmptyMemory
  <2>2. QED
    BY <1>1, <1>2, <2>1 DEF Tally
<1>3. CASE m # memory
  <2>1. PICK id : m = [memory EXCEPT ![key] = EmptyMemory(id)]
    BY <1>3 DEF PageView
  <2>2. Kept(key) => memory[key].id # key /\ m[key].id = key
    BY <1>1, <1>3 DEF PageView, EmptyMemory
  <2>3. /\ m[key] = EmptyMemory(id) /\ \A t \in Threads \ {key} : m[t] = memory[t]
    BY <1>1, <2>1
  <2>4. Kept(key) => \A f \in Flow : f <= started => origin[f] # key
    BY <2>2 DEF Tally, Known
  <2>5. \A f \in Flow : ~ (f <= started) => reco[f] = NoModel
    <3>1. started \in Nat /\ \A f \in Flow : f \in Nat
      BY FlowAssumption DEF IInv, TypeOK, Flow
    <3>2. \A f \in Flow : ~ (f <= started) => f > started
      BY <3>1
    <3>3. QED
      BY <3>2, NotYet
  <2>6. Kept(key) => Displayed(key) = {}
    BY <2>4, <2>5 DEF Displayed
  <2>7. Cardinality(FollowedIn(key)) \in Nat
    <3>1. IsFiniteSet(Flow)
      BY FS_Interval, FlowAssumption DEF Flow
    <3>2. FollowedIn(key) \subseteq Flow
      BY DEF FollowedIn
    <3> QED BY <3>1, <3>2, FS_Subset, FS_CardinalityType
  <2>8. m[key].followed = 0 /\ m[key].shown = 0
    BY <2>3 DEF EmptyMemory
  <2>9. Counts(m)
    <3>1. m[key].followed <= Cardinality(FollowedIn(key))
      BY <2>7, <2>8
    <3>2. Kept(key) => m[key].shown = Cardinality(Displayed(key))
      BY <2>6, <2>8, FS_EmptySet
    <3> QED BY <2>3, <3>1, <3>2 DEF Tally, Counts
  <2>10. Known(m)
    BY <2>2, <2>3 DEF Tally, Known, IInv, TypeOK
  <2>11. QED
    BY <1>1, <2>2, <2>9, <2>10
<1>4. QED
  BY <1>2, <1>3

\* A step that displays the recommendation of flow d and settles flow a, or none.
LEMMA TallyStep ==
  ASSUME IInv, NEW m \in [Threads -> Memory], Known(m), Counts(m), Follows',
         UNCHANGED <<origin, started>>,
         NEW d, NEW a,
         d \in Flow => reco[d] = NoModel,
         a \in Flow => verdict[a] = "none",
         \A f \in Flow : reco'[f] # NoModel <=> reco[f] # NoModel \/ f = d,
         \A f \in Flow : verdict'[f] \in {"accepted", "followed"}
                           <=> verdict[f] \in {"accepted", "followed"} \/ f = a,
         \A t \in Threads :
           /\ memory'[t].id = m[t].id
           /\ memory'[t].shown = m[t].shown + (IF d \in Flow /\ origin[d] = t THEN 1 ELSE 0)
           /\ memory'[t].followed = m[t].followed + (IF a \in Flow /\ origin[a] = t THEN 1 ELSE 0)
  PROVE  Tally'
<1>1. IsFiniteSet(Flow)
  BY FS_Interval, FlowAssumption DEF Flow
<1>2. ASSUME NEW t \in Threads
      PROVE  /\ Kept(t) => memory'[t].shown = Cardinality(Displayed(t)')
             /\ memory'[t].followed <= Cardinality(FollowedIn(t)')
  <2>1. /\ IsFiniteSet(Displayed(t)) /\ IsFiniteSet(FollowedIn(t))
        /\ Kept(t) => m[t].shown = Cardinality(Displayed(t))
        /\ m[t].followed <= Cardinality(FollowedIn(t)) /\ Cardinality(FollowedIn(t)) \in Nat
        /\ m[t].shown \in Nat /\ m[t].followed \in Nat
    BY <1>1, FS_Subset, FS_CardinalityType DEF Displayed, FollowedIn, Counts, Memory
  <2>2. ASSUME Kept(t) PROVE memory'[t].shown = Cardinality(Displayed(t)')
    <3>1. CASE d \in Flow /\ origin[d] = t
      <4>1. PICK old : old = Displayed(t)
        OBVIOUS
      <4>2. Displayed(t)' = old \cup {d} /\ d \notin old
        BY <3>1, <4>1 DEF Displayed
      <4>3. Cardinality(old \cup {d}) = Cardinality(old) + 1
        BY <2>1, <4>1, <4>2, FS_AddElement
      <4>4. QED
        BY <2>1, <2>2, <3>1, <4>1, <4>2, <4>3
    <3>2. CASE ~ (d \in Flow /\ origin[d] = t)
      <4>1. Displayed(t)' = Displayed(t)
        BY <3>2 DEF Displayed
      <4>2. QED
        BY <2>1, <2>2, <3>2, <4>1
    <3>3. QED
      BY <3>1, <3>2
  <2>3. memory'[t].followed <= Cardinality(FollowedIn(t)')
    <3>1. CASE a \in Flow /\ origin[a] = t
      <4>1. PICK old : old = FollowedIn(t)
        OBVIOUS
      <4>2. FollowedIn(t)' = old \cup {a} /\ a \notin old
        BY <3>1, <4>1 DEF FollowedIn
      <4>3. Cardinality(old \cup {a}) = Cardinality(old) + 1
        BY <2>1, <4>1, <4>2, FS_AddElement
      <4>4. QED
        BY <2>1, <3>1, <4>1, <4>2, <4>3
    <3>2. CASE ~ (a \in Flow /\ origin[a] = t)
      <4>1. FollowedIn(t)' = FollowedIn(t)
        BY <3>2 DEF FollowedIn
      <4>2. QED
        BY <2>1, <3>2, <4>1
    <3>3. QED
      BY <3>1, <3>2
  <2>4. QED
    BY <2>2, <2>3
<1>3. Known(memory)'
  BY DEF Known, Kept, IInv, TypeOK
<1>4. Counts(memory)'
  BY <1>2 DEF Counts, Kept
<1>5. QED
  BY <1>3, <1>4 DEF Tally

\* A step that counts nothing.
LEMMA TallySame ==
  ASSUME IInv, Tally, Follows', UNCHANGED <<origin, started, reco>>,
         \A f \in Flow : verdict'[f] \in {"accepted", "followed"}
                           <=> verdict[f] \in {"accepted", "followed"},
         \A t \in Threads : /\ memory'[t].id = memory[t].id
                            /\ memory'[t].shown = memory[t].shown
                            /\ memory'[t].followed = memory[t].followed
  PROVE  Tally'
<1>1. memory \in [Threads -> Memory] /\ NoFlow \notin Flow
  BY DEF IInv, TypeOK, Flow, NoFlow
<1>2. \A t \in Threads : memory[t].shown \in Nat /\ memory[t].followed \in Nat
  BY <1>1 DEF Memory
<1>3. PICK m \in [Threads -> Memory] : m = memory
  BY <1>1
<1>4. /\ Known(m) /\ Counts(m)
      /\ \A t \in Threads : /\ memory'[t].id = m[t].id
                            /\ memory'[t].shown = m[t].shown + 0
                            /\ memory'[t].followed = m[t].followed + 0
  BY <1>2, <1>3 DEF Tally
<1>5. PICK none : none = NoFlow
  OBVIOUS
<1>6. /\ \A f \in Flow : f # none
      /\ \A f \in Flow : reco'[f] # NoModel <=> reco[f] # NoModel \/ f = none
      /\ \A f \in Flow : verdict'[f] \in {"accepted", "followed"}
                           <=> verdict[f] \in {"accepted", "followed"} \/ f = none
  BY <1>1, <1>5
<1>7. QED
  BY <1>4, <1>6, TallyStep

\* The panel goes away: the acceptance that waits is counted.
LEMMA TallyFlush ==
  ASSUME IInv, NEW m \in [Threads -> Memory], Known(m), Counts(m), Follows',
         UNCHANGED <<origin, started, reco>>, FlushPendingAutoAccept(m)
  PROVE  Tally'
<1>1. PICK a, none : a = pending /\ none = NoFlow
  OBVIOUS
<1>2. /\ none \notin Flow /\ (a \in Flow => verdict[a] = "none")
  BY <1>1 DEF IInv, Core, PendingInv, Flow, NoFlow
<1>3. \A t \in Threads :
        /\ memory'[t].id = m[t].id /\ memory'[t].shown = m[t].shown /\ m[t].shown \in Nat
        /\ memory'[t].followed = m[t].followed + (IF a \in Flow /\ origin[a] = t THEN 1 ELSE 0)
  BY <1>1, FlushIs DEF FlushPendingAutoAccept, Memory
<1>4. \A f \in Flow : verdict'[f] \in {"accepted", "followed"}
                        <=> verdict[f] \in {"accepted", "followed"} \/ f = a
  BY <1>1, FlushOnce DEF FlushPendingAutoAccept
<1>5. \A t \in Threads :
        memory'[t].shown = m[t].shown + (IF none \in Flow /\ origin[none] = t THEN 1 ELSE 0)
  BY <1>2, <1>3
<1>6. \A f \in Flow : reco'[f] # NoModel <=> reco[f] # NoModel \/ f = none
  BY <1>2
<1>7. QED
  BY <1>2, <1>3, <1>4, <1>5, <1>6, TallyStep

LEMMA TallyPause == ASSUME IInv, Tally, Pause PROVE Tally'
<1>1. PICK f : f = started + 1
  OBVIOUS
<1>2. /\ f \in Flow /\ f > started /\ started \in Nat /\ origin \in [Flow -> Threads]
      /\ started' = f /\ origin' = [origin EXCEPT ![f] = key] /\ UNCHANGED <<reco, verdict, key, shown>>
      /\ key \in Threads
  BY <1>1, FlowAssumption DEF IInv, TypeOK, Flow, Pause, pageVars
<1>3. /\ memory' \in [Threads -> Memory] /\ (Kept(key) => memory'[key].id = key)
      /\ Known(memory') /\ Counts(memory')
  <2>1. PICK m \in PageView(memory) : m = memory'
    BY DEF Pause
  <2>2. QED
    BY <2>1, PageViewTally
<1>4. reco[f] = NoModel /\ verdict[f] = "none"
  BY <1>2, NotYet
<1>5. \A t \in Threads : Displayed(t)' = Displayed(t) /\ FollowedIn(t)' = FollowedIn(t)
  BY <1>2, <1>4 DEF Displayed, FollowedIn
<1>6. Counts(memory)'
  BY <1>3, <1>5 DEF Counts, Kept
<1>7. Known(memory)'
  <2> SUFFICES ASSUME NEW g \in Flow, g <= f, Kept(origin'[g])
               PROVE  memory'[origin'[g]].id = origin'[g]
    BY <1>2 DEF Known, Kept
  <2>1. CASE g = f
    BY <1>2, <1>3, <2>1
  <2>2. CASE g # f
    BY <1>1, <1>2, <1>3, <2>2 DEF Known, Flow
  <2>3. QED
    BY <2>1, <2>2
<1>8. QED
  BY <1>2, <1>6, <1>7 DEF Tally, Follows

\* A derogation counts neither what was shown nor what was followed.
LEMMA DerogationIs ==
  ASSUME IInv, NEW f \in Flow, NEW chosen, NEW t \in Threads
  PROVE  /\ Derogation(memory, f, chosen)[t].id = memory[t].id
         /\ Derogation(memory, f, chosen)[t].shown = memory[t].shown
         /\ Derogation(memory, f, chosen)[t].followed = memory[t].followed
<1>1. /\ memory \in [Threads -> Memory] /\ origin[f] \in Threads
      /\ memory[t].shown \in Nat /\ memory[t].followed \in Nat
  BY DEF IInv, TypeOK, Memory
<1>2. QED
  BY <1>1, CountIs DEF Derogation

\* A flow is followed: by a click, or by the switch that ends.
LEMMA TallyFollowed ==
  ASSUME IInv, Tally, NEW f \in Flow, verdict[f] = "none", NEW v \in {"accepted", "followed"},
         verdict' = [verdict EXCEPT ![f] = v], memory' = Count(memory, origin[f], "followed"),
         UNCHANGED <<origin, started, reco, key, shown>>
  PROVE  Tally'
<1>0. NoFlow \notin Flow
  BY DEF Flow, NoFlow
<1>1. memory \in [Threads -> Memory] /\ origin[f] \in Threads /\ verdict \in [Flow -> Outcomes]
  BY DEF IInv, TypeOK
<1>2. PICK m \in [Threads -> Memory], none \in {NoFlow} : m = memory
  BY <1>1
<1>3. /\ Known(m) /\ Counts(m) /\ Follows'
  BY <1>2 DEF Tally, Follows
<1>4. \A t \in Threads :
        /\ memory'[t].id = m[t].id
        /\ memory'[t].shown = m[t].shown + (IF none \in Flow /\ origin[none] = t THEN 1 ELSE 0)
        /\ memory'[t].followed = m[t].followed + (IF f \in Flow /\ origin[f] = t THEN 1 ELSE 0)
  <2>1. none \notin Flow /\ \A t \in Threads : m[t].shown \in Nat /\ m[t].followed \in Nat
    BY <1>0, <1>2 DEF Memory
  <2>2. QED
    BY <1>1, <1>2, <2>1, CountIs
<1>5. /\ \A g \in Flow : reco'[g] # NoModel <=> reco[g] # NoModel \/ g = none
      /\ \A g \in Flow : verdict'[g] \in {"accepted", "followed"}
                           <=> verdict[g] \in {"accepted", "followed"} \/ g = f
      /\ none \notin Flow
  BY <1>0, <1>1
<1>6. QED
  BY <1>3, <1>4, <1>5, TallyStep

LEMMA TallyShown ==
  ASSUME IInv, Tally, NEW m \in Model, NEW confident \in BOOLEAN, NEW readable \in BOOLEAN,
         RecoShown(m, confident, readable)
  PROVE  Tally'
<1>1. PICK d, a : d = asking /\ a = pending
  OBVIOUS
<1>2. /\ d \in Flow /\ origin[d] \in Threads /\ memory \in [Threads -> Memory] /\ reco[d] = NoModel
      /\ (a \in Flow => verdict[a] = "none")
      /\ reco' = [reco EXCEPT ![d] = m] /\ reco \in [Flow -> 0 .. NumModels] /\ m # NoModel
  <2>1. d \in Flow
    BY <1>1 DEF RecoShown, IInv, TypeOK, Flow, NoFlow
  <2>2. reco[d] = NoModel
    BY <1>1, <2>1 DEF IInv, Core, FreshInv, Fresh
  <2>3. a \in Flow => verdict[a] = "none"
    BY <1>1 DEF IInv, Core, PendingInv, Flow, NoFlow
  <2>4. reco' = [reco EXCEPT ![d] = m] /\ m # NoModel
    BY <1>1 DEF RecoShown, Model, NoModel
  <2>5. QED
    BY <2>1, <2>2, <2>3, <2>4 DEF IInv, TypeOK
<1>3. PICK old \in [Threads -> Memory], new \in [Threads -> Memory] :
        old = memory /\ new = Count(memory, origin[asking], "shown")
  BY <1>1, <1>2, CountType
<1>4. Known(old) /\ Counts(old)
  BY <1>3 DEF Tally
<1>5. \A t \in Threads :
        /\ memory'[t].id = new[t].id /\ memory'[t].shown = new[t].shown
        /\ memory'[t].followed = new[t].followed + (IF a \in Flow /\ origin[a] = t THEN 1 ELSE 0)
  BY <1>1, <1>3, FlushIs DEF RecoShown, FlushPendingAutoAccept
<1>6. \A t \in Threads :
        /\ new[t].id = old[t].id
        /\ new[t].shown = old[t].shown + (IF t = origin[d] THEN 1 ELSE 0)
        /\ new[t].followed = old[t].followed /\ old[t].followed \in Nat
  BY <1>1, <1>2, <1>3, CountIs DEF Memory
<1>7. \A t \in Threads :
        /\ memory'[t].id = old[t].id
        /\ memory'[t].shown = old[t].shown + (IF d \in Flow /\ origin[d] = t THEN 1 ELSE 0)
        /\ memory'[t].followed = old[t].followed + (IF a \in Flow /\ origin[a] = t THEN 1 ELSE 0)
  BY <1>2, <1>5, <1>6
<1>8. \A f \in Flow : verdict'[f] \in {"accepted", "followed"}
                        <=> verdict[f] \in {"accepted", "followed"} \/ f = a
  BY <1>1, FlushOnce DEF RecoShown, FlushPendingAutoAccept
<1>9. \A f \in Flow : reco'[f] # NoModel <=> reco[f] # NoModel \/ f = d
  BY <1>2
<1>10. Follows' /\ UNCHANGED <<origin, started>>
  BY DEF RecoShown, pageVars, Tally, Follows
<1>11. (d \in Flow => reco[d] = NoModel) /\ (a \in Flow => verdict[a] = "none")
  BY <1>2
<1>12. QED
  BY <1>4, <1>7, <1>8, <1>9, <1>10, <1>11, TallyStep

LEMMA TallyNext ==
  ASSUME IInv, Tally, [Next]_vars
  PROVE  Tally'
<1>m. memory \in [Threads -> Memory] /\ verdict \in [Flow -> Outcomes]
  BY DEF IInv, TypeOK
<1>l. ASSUME LeavePanel, Follows'
      PROVE  Tally'
  <2>1. PICK m \in [Threads -> Memory] : m = memory
    BY <1>m
  <2>2. QED
    BY <1>l, <2>1, TallyFlush DEF LeavePanel, Tally
<1>q. Follows' /\ UNCHANGED <<origin, started, reco, verdict, memory>> => Tally'
  BY TallySame DEF Tally
<1>k. UNCHANGED <<key, shown>> => Follows'
  BY DEF Tally, Follows
<1>1. CASE UNCHANGED vars \/ RecoFails \/ RecoDropped \/ \E m \in Model : UserPicks(m)
  BY <1>1, <1>q, <1>k DEF vars, flowVars, panelVars, switchVars, pageVars, RecoFails, RecoDropped, UserPicks
<1>2. CASE SwitchStep
  <2>1. CASE OpenMenu \/ \E effective \in BOOLEAN : ClickItem(effective)
    BY <2>1, <1>q, <1>k DEF OpenMenu, ClickItem, flowVars, panelVars, switchVars, pageVars
  <2>2. CASE \E ok \in BOOLEAN : RequestEnds(ok) \/ CancelledSwitchEnds(ok) \/ LeftSwitchEnds(ok)
    BY <2>2, <1>q, <1>k DEF RequestEnds, CancelledSwitchEnds, LeftSwitchEnds, FlowResumes, Resolved, pageVars
  <2>3. CASE SwitchHeld \/ SwitchFailed
    BY <2>3, <1>q, <1>k DEF SwitchHeld, SwitchFailed, FlowResumes, Resolved, pageVars
  <2>4. CASE SwitchAccepted
    <3>1. PICK f : f = Head(queue).flow
      OBVIOUS
    <3>2. queue # <<>> /\ Head(queue).purpose = "auto"
      BY <2>4 DEF SwitchAccepted, FlowResumes, Resolved, Resolves, Busy
    <3>3. f \in Flow /\ f = queue[1].flow /\ queue[1].purpose = "auto" /\ 1 \in 1 .. Len(queue)
      <4>1. f \in Flow
        BY <3>1, <3>2, TailType DEF IInv, Job
      <4>2. queue \in Seq(Job)
        BY DEF IInv, TypeOK
      <4>3. Head(queue) = queue[1] /\ Len(queue) \in Nat \ {0}
        BY <3>2, <4>2, HeadTailProperties, EmptySeq
      <4>4. QED
        BY <3>1, <3>2, <4>1, <4>3
    <3>4. sw[f] = "inflight" /\ ~Committed(f)
      BY <2>4, <3>1, <3>3 DEF IInv, Core, QueueOK, SwitchAccepted, FlowResumes
    <3>5. verdict[f] = "none"
      BY <3>3, <3>4 DEF IInv, Core, FlowInv, Committed
    <3>6. /\ verdict' = [verdict EXCEPT ![f] = "accepted"]
          /\ memory' = Count(memory, origin[f], "followed")
          /\ UNCHANGED <<origin, started, reco, key, shown>>
      BY <2>4, <3>1 DEF SwitchAccepted, FlowResumes, Resolved, pageVars
    <3>7. QED
      BY <3>3, <3>5, <3>6, TallyFollowed
  <2>5. QED
    BY <1>2, <2>1, <2>2, <2>3, <2>4 DEF SwitchStep
<1>3. ASSUME NEW m \in Model, NEW confident \in BOOLEAN, NEW readable \in BOOLEAN,
             RecoShown(m, confident, readable)
      PROVE  Tally'
  BY <1>3, TallyShown
<1>4. CASE Pause
  BY <1>4, TallyPause
<1>5. CASE EmptyPause
  <2>1. PICK m \in PageView(memory) : FlushPendingAutoAccept(m)
    BY <1>5 DEF EmptyPause
  <2>2. QED
    BY <1>5, <1>k, <2>1, PageViewTally, TallyFlush DEF EmptyPause, pageVars, Tally
<1>6. CASE FollowClick
  <2>1. PICK f : f = panelFlow
    OBVIOUS
  <2>2. f \in Flow /\ verdict[f] = "none"
    BY <1>6, <2>1, PanelFlow DEF FollowClick, PanelPresent, IInv, Core, ButtonInv
  <2>3. QED
    BY <1>6, <2>1, <2>2, TallyFollowed DEF FollowClick, pageVars
<1>7. ASSUME NEW m \in Model, OverrideClick(m)
      PROVE  Tally'
  <2>1. PICK f : f = panelFlow
    OBVIOUS
  <2>2. f \in Flow /\ verdict[f] = "none"
    BY <1>7, <2>1, PanelFlow DEF OverrideClick, PanelPresent, IInv, Core, ButtonInv
  <2>3. /\ verdict' = [verdict EXCEPT ![f] = "overridden"] /\ memory' = Derogation(memory, f, m)
        /\ UNCHANGED <<origin, started, reco, key, shown>>
    BY <1>7, <2>1 DEF OverrideClick, pageVars
  <2>4. \A g \in Flow : verdict'[g] \in {"accepted", "followed"}
                          <=> verdict[g] \in {"accepted", "followed"}
    BY <1>m, <2>2, <2>3
  <2>5. QED
    BY <1>k, <2>2, <2>3, <2>4, DerogationIs, TallySame DEF Tally
<1>8. CASE CancelClick
  <2>1. PICK f, before : f = panelFlow /\ before = prev[f]
    OBVIOUS
  <2>2. f \in Flow /\ verdict[f] = "none" /\ UNCHANGED <<origin, started, reco, key, shown>>
    BY <1>8, <2>1, PanelFlow DEF CancelClick, PanelPresent, IInv, Core, ButtonInv, pageVars
  <2>3. \/ UNCHANGED <<verdict, memory>>
        \/ verdict' = [verdict EXCEPT ![f] = "rejected"] /\ memory' = Derogation(memory, f, before)
    BY <1>8, <2>1 DEF CancelClick
  <2>4. \A g \in Flow : verdict'[g] \in {"accepted", "followed"}
                          <=> verdict[g] \in {"accepted", "followed"}
    BY <1>m, <2>2, <2>3
  <2>5. QED
    BY <1>q, <1>k, <2>2, <2>3, <2>4, DerogationIs, TallySame DEF Tally
<1>9. CASE DismissClick
  <2>1. PICK m \in [Threads -> Memory] : m = memory
    BY <1>m
  <2>2. /\ \/ FlushPendingAutoAccept(m)
           \/ UNCHANGED <<verdict, memory>>
        /\ UNCHANGED <<origin, started, reco, key, shown>>
    BY <1>9, <2>1 DEF DismissClick, pageVars
  <2>3. QED
    BY <1>q, <1>k, <2>1, <2>2, TallyFlush DEF Tally
<1>10. CASE BadgeClick \/ PageHide
  BY <1>10, <1>k, <1>l DEF BadgeClick, PageHide, pageVars
<1>11. ASSUME NEW t \in Threads, Navigate(t)
       PROVE  Tally'
  <2>1. CASE t # key
    BY <1>11, <1>l, <2>1 DEF Navigate, Follows
  <2>2. CASE t = key
    BY <1>11, <1>q, <2>2 DEF Navigate, Follows, flowVars
  <2>3. QED
    BY <2>1, <2>2
<1>12. CASE Poll \/ \E t \in Threads : NavigateUnseen(t)
  BY <1>12, <1>l, <1>q DEF Poll, NavigateUnseen, Follows, flowVars
<1>13. QED
  BY <1>1, <1>2, <1>3, <1>4, <1>5, <1>6, <1>7, <1>8, <1>9, <1>10, <1>11, <1>12
  DEF Next, UserStep, RecoStep

\* A conversation never counts a recommendation as followed twice, nor one that was not
\* followed in it, whatever is replaced, dismissed, navigated or reset meanwhile; one with a
\* thread id, when History sees every navigation, counts no more followed than shown
\* (conversationMemory.ts:88-93, noteRecoShown and noteRecoFollowed).
THEOREM FollowedIsWithinShown == Spec => []FollowedWithinShown
<1>1. IInv /\ Tally => FollowedWithinShown
  <2> SUFFICES ASSUME IInv, Tally, NEW t \in Threads, Kept(t)
               PROVE  memory[t].followed <= memory[t].shown
    BY DEF FollowedWithinShown, Tally, Counts, Kept
  <2>1. IsFiniteSet(Displayed(t)) /\ FollowedIn(t) \subseteq Displayed(t)
    <3>1. IsFiniteSet(Flow)
      BY FS_Interval, FlowAssumption DEF Flow
    <3>2. FollowedIn(t) \subseteq Displayed(t)
      BY NotYet DEF FollowedIn, Displayed
    <3>3. QED
      BY <3>1, <3>2, FS_Subset DEF Displayed
  <2>2. /\ Cardinality(FollowedIn(t)) <= Cardinality(Displayed(t))
        /\ Cardinality(FollowedIn(t)) \in Nat /\ Cardinality(Displayed(t)) \in Nat
    BY <2>1, FS_Subset, FS_CardinalityType
  <2>3. memory[t].followed \in Nat /\ memory[t].shown \in Nat
    BY DEF IInv, TypeOK, Memory
  <2>4. QED
    BY <2>2, <2>3 DEF Tally, Counts
<1>2. IInv /\ Tally /\ [Next]_vars => Tally'
  BY TallyNext
<1>3. QED
  BY <1>1, <1>2, InitIInv, NextIInv, TallyInit, PTL DEF Spec

=============================================================================
