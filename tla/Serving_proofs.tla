--------------------------- MODULE Serving_proofs ----------------------------
(***************************************************************************)
(* The server side, for any value of the constants: the requests of        *)
(* Serving, the rules of Routing that decide them, and the Ledger of what  *)
(* was recommended.                                                        *)
(*                                                                         *)
(* Serving. An answer is valid because a future holds a decision, and the  *)
(* second stage is bounded there already (Bounded). A text that reaches a  *)
(* router was unlocked by the policy of its own request, which stays       *)
(* (Consented). A memoised router was loaded since the last purge because  *)
(* the loads in progress were too, and a memoised instance is not loading  *)
(* (Loaded).                                                               *)
(*                                                                         *)
(* Routing. The rule that decides is the one no earlier rule precedes, so  *)
(* that the rules are a ladder, and a longer text or conversation climbs   *)
(* it towards the dearer models only (Longer).                             *)
(*                                                                         *)
(* Ledger. A row holds what its user decided, which no one takes back      *)
(* (Told, Advances), so that a statement of the report counts at least     *)
(* what an earlier one did (Counted).                                      *)
(***************************************************************************)
EXTENDS Serving, Routing, Ledger, FiniteSetTheorems, TLAPS

\* A future of the second stage is under the band of automatic switches.
Bounded ==
  \A r \in Requests : future[r] \in Decision /\ future[r].rule = "embed:v0"
    => future[r].confidence \in 0 .. Cap

\* A text in the system was unlocked by the policy of its request.
Consented ==
  \A r \in Requests :
    /\ text[r] => pc[r] # "idle" /\ Unlocked(policy[r])
    /\ r \in probed => pc[r] # "idle"

\* Loads in progress began after the last purge, unless it found one; a memoised router
\* is not loading any more.
Loaded ==
  /\ \A v \in Versions : cache[v] # None => pc[cache[v]] \notin Loading \cup {"idle"}
  /\ ~raced => \A r \in Requests : pc[r] \in Loading => born[r] = purges

-----------------------------------------------------------------------------
(* What the operators give.                                                *)

\* The cap of the second stage is under the band of automatic switches (train_head_v0.py,
\* CONFIDENCE_CAP_V0; twostage.py).
LEMMA CapIsUnderBand == \A c \in 0 .. Cap : c < Threshold
<1> SUFFICES ASSUME NEW c \in 0 .. 74 PROVE c < 75
  BY DEF Cap, Threshold
<1> QED OBVIOUS

\* Both stages and the heuristic give decisions, the second one under its cap
\* (embed.py, predict; twostage.py).
LEMMA SecondIsCapped == \A d \in Second : d \in Decision /\ d.confidence \in 0 .. Cap
<1> SUFFICES ASSUME NEW c \in Raw2
             PROVE  LET d == Says(IF c < Cap THEN c ELSE Cap, "embed:v0")
                    IN  d \in Decision /\ d.confidence \in 0 .. Cap
  BY DEF Second
<1>1. (IF c < Cap THEN c ELSE Cap) \in 0 .. Cap
  BY ServingAssumption DEF Cap
<1> QED BY <1>1 DEF Says, Decision, Confidence, Cap

\* The heuristic's confidences are within 55 and 80 (heuristic.py).
LEMMA HeuristicDecides ==
  ASSUME NEW rule \in {"heuristic", "fallback:heuristic"}
  PROVE  \A d \in Heuristic(rule) :
           d \in Decision /\ d.rule = rule /\ d.model = "visible" /\ d.confidence \in 0 .. 100
<1> SUFFICES ASSUME NEW c \in Usual
             PROVE  LET d == Says(c, rule)
                    IN  d \in Decision /\ d.rule = rule /\ d.model = "visible"
                        /\ d.confidence \in 0 .. 100
  BY DEF Heuristic
<1>1. c \in 0 .. 100 /\ c \in Confidence
  BY ServingAssumption DEF Confidence
<1> QED BY <1>1 DEF Says, Decision

\* The first stage decides, never under the name of the second.
LEMMA FirstDecides ==
  ASSUME NEW i
  PROVE  \A d \in First(i) : d \in Decision /\ d.rule # "embed:v0"
BY ServingAssumption, HeuristicDecides DEF First

\* What the arbitration gives is a decision, under the cap if it is of the second stage.
LEMMA ArbitrationDecides ==
  ASSUME NEW i, NEW r, NEW d1 \in First(i), NEW d \in Arbitration(i, r, d1)
  PROVE  d \in Decision /\ (d.rule = "embed:v0" => d.confidence \in 0 .. Cap)
BY FirstDecides, SecondIsCapped DEF Arbitration

\* A usable decision, clamped, is one the contract can carry; a confidence under the cap
\* is kept (safe.py, _validated).
LEMMA UsableIsValid ==
  ASSUME NEW f, Usable(f)
  PROVE  LET d == [f EXCEPT !.confidence = IF @ = NaN THEN @ ELSE Clamp(@)]
         IN  /\ d \in Decision /\ d.model = "visible" /\ d.rule # "" /\ d.rule = f.rule
             /\ d.confidence \in 0 .. 100
             /\ f.confidence \in 0 .. Cap => d.confidence \in 0 .. Cap
<1>1. f.confidence \in Int /\ f.confidence # NaN
  BY DEF Usable, Decision, Confidence
<1>2. /\ Clamp(f.confidence) \in 0 .. 100 /\ Clamp(f.confidence) \in Int
      /\ f.confidence \in 0 .. Cap => Clamp(f.confidence) \in 0 .. Cap
  BY <1>1 DEF Clamp, Cap
<1> DEFINE d == [f EXCEPT !.confidence = IF @ = NaN THEN @ ELSE Clamp(@)]
<1>3. d = [f EXCEPT !.confidence = Clamp(f.confidence)]
  BY <1>1
<1> HIDE DEF d
<1>4. /\ d \in Decision /\ d.model = f.model /\ d.rule = f.rule
      /\ d.confidence = Clamp(f.confidence)
  BY <1>2, <1>3 DEF Usable, Decision, Confidence
<1> QED BY <1>2, <1>4 DEF Usable, d

\* The result of a decision that ends, which a request that waits receives.
LEMMA EndsWith ==
  ASSUME NEW r \in Requests, Ends(r)
  PROVE  \E d \in Decision \cup {Raised} :
           /\ future' = IF pc[r] = "wait" THEN [future EXCEPT ![r] = d] ELSE future
           /\ d \in Decision /\ d.rule = "embed:v0" => d.confidence \in 0 .. Cap
<1>1. CASE future' = IF pc[r] = "wait" THEN [future EXCEPT ![r] = Raised] ELSE future
  <2>1. Raised \notin Decision
    BY ServingAssumption
  <2> QED BY <1>1, <2>1
<1>2. CASE \E d1 \in First(using[r]) : \E d \in Arbitration(using[r], r, d1) :
             future' = IF pc[r] = "wait" THEN [future EXCEPT ![r] = d] ELSE future
  <2>1. PICK d1 \in First(using[r]) : \E d \in Arbitration(using[r], r, d1) :
          future' = IF pc[r] = "wait" THEN [future EXCEPT ![r] = d] ELSE future
    BY <1>2
  <2>2. PICK d \in Arbitration(using[r], r, d1) :
          future' = IF pc[r] = "wait" THEN [future EXCEPT ![r] = d] ELSE future
    BY <2>1
  <2>3. d \in Decision /\ (d.rule = "embed:v0" => d.confidence \in 0 .. Cap)
    BY ArbitrationDecides
  <2> QED BY <2>2, <2>3
<1> QED BY <1>1, <1>2 DEF Ends

-----------------------------------------------------------------------------
\* No step makes a state ill formed.
LEMMA TypeInit == Init => TypeOK
<1> SUFFICES ASSUME Init PROVE TypeOK
  OBVIOUS
<1>1. /\ env \in BOOLEAN /\ disk \in Artefacts \cup {None}
      /\ deploys \in 0 .. MaxDeploys /\ purges \in 0 .. MaxPurges
  BY ServingAssumption DEF Init
<1>2. /\ cache \in [Versions -> Requests \cup {None}]
      /\ pc \in [Requests -> Loading \cup {"idle", "submit", "wait", "fallback", "done"}]
      /\ policy \in [Requests -> Policy \cup {None}] /\ text \in [Requests -> BOOLEAN]
  BY DEF Init
<1>3. /\ seen \in [Requests -> Artefacts \cup {None}]
      /\ stage2 \in [Requests -> BOOLEAN] /\ primary \in [Requests -> BOOLEAN]
      /\ using \in [Requests -> Requests \cup {None}]
  BY DEF Init
<1>4. <<>> \in Seq(Requests)
  OBVIOUS
<1>5. queue \in [Requests -> Seq(Requests)] /\ running \subseteq Requests
  BY <1>4 DEF Init
<1>6. /\ future \in [Requests -> Decision \cup {Raised, None}]
      /\ answer \in [Requests -> Decision \cup {None}]
  BY DEF Init
<1>7. 0 \in 0 .. MaxPurges
  BY ServingAssumption
<1>8. probed \subseteq Requests /\ born \in [Requests -> 0 .. MaxPurges] /\ raced \in BOOLEAN
  BY <1>7 DEF Init
<1> QED BY <1>1, <1>2, <1>3, <1>5, <1>6, <1>8 DEF TypeOK

LEMMA TypeArrive ==
  ASSUME TypeOK, NEW r \in Requests, NEW p \in Policies, Arrive(r, p)
  PROVE  TypeOK'
<1>1. /\ policy' \in [Requests -> Policy \cup {None}] /\ text' \in [Requests -> BOOLEAN]
      /\ UNCHANGED <<diskVars, purges, cache, seen, stage2, poolVars, answer, probed, raced>>
  BY ServingAssumption DEF Arrive, TypeOK, Unlocked, Policy
<1> DEFINE v == VersionOf(p)
<1>2. v \in Versions
  BY DEF VersionOf, Versions
<1>3. LoadBegins(v) \in Loading
  BY <1>2 DEF LoadBegins, Loading, Versions
<1>4. CASE cache[v] # None
  <2>1. /\ using' = [using EXCEPT ![r] = cache[v]] /\ pc' = [pc EXCEPT ![r] = "submit"]
        /\ UNCHANGED <<born, primary>>
    BY <1>4 DEF Arrive, Goto
  <2>2. cache[v] \in Requests \cup {None}
    BY <1>2 DEF TypeOK
  <2>3. using' \in [Requests -> Requests \cup {None}]
    BY <2>1, <2>2 DEF TypeOK
  <2>4. pc' \in [Requests -> Loading \cup {"idle", "submit", "wait", "fallback", "done"}]
    BY <2>1 DEF TypeOK
  <2> QED BY <1>1, <2>1, <2>3, <2>4 DEF TypeOK, diskVars, poolVars
<1>5. CASE cache[v] = None
  <2>1. /\ born' = [born EXCEPT ![r] = purges] /\ pc' = [pc EXCEPT ![r] = LoadBegins(v)]
        /\ primary' = [primary EXCEPT ![r] = v = "heuristic"] /\ UNCHANGED using
    BY <1>5 DEF Arrive, Goto
  <2>2. /\ born' \in [Requests -> 0 .. MaxPurges] /\ primary' \in [Requests -> BOOLEAN]
    BY <2>1 DEF TypeOK
  <2>3. pc' \in [Requests -> Loading \cup {"idle", "submit", "wait", "fallback", "done"}]
    BY <2>1, <1>3 DEF TypeOK
  <2> QED BY <1>1, <2>1, <2>2, <2>3 DEF TypeOK, diskVars, poolVars
<1> QED BY <1>4, <1>5

LEMMA TypeLoad ==
  ASSUME TypeOK, NEW r \in Requests, Load(r)
  PROVE  TypeOK'
<1> USE DEF TypeOK, Goto, loadFrame, loadVars, diskVars, poolVars, LoadFails, Loading
<1>1. CASE LoadEmbed(r)
  BY <1>1 DEF LoadEmbed
<1>2. CASE LoadMetadata(r)
  <2>1. CASE disk = None
    BY <1>2, <2>1 DEF LoadMetadata
  <2>2. CASE disk # None
    BY <1>2, <2>2 DEF LoadMetadata
  <2> QED BY <2>1, <2>2
<1>3. CASE Verify(r)
  BY <1>3 DEF Verify
<1>4. CASE LoadBooster(r)
  BY <1>4 DEF LoadBooster
<1>5. CASE LoadCalibrator(r)
  BY <1>5 DEF LoadCalibrator
<1>6. CASE Insert(r)
  BY <1>6 DEF Insert
<1> QED BY <1>1, <1>2, <1>3, <1>4, <1>5, <1>6 DEF Load

LEMMA TypeDecide ==
  ASSUME TypeOK, NEW r \in Requests, Decide(r)
  PROVE  TypeOK'
<1> USE DEF TypeOK, Goto, answerFrame, loadVars, diskVars, poolVars, Answers
<1>1. CASE Submit(r)
  <2>1. queue' = [queue EXCEPT ![using[r]] = Append(@, r)] \/ queue' = queue
    BY <1>1 DEF Submit
  <2>2. \E l \in {"wait", "fallback"} : pc' = [pc EXCEPT ![r] = l]
    BY <1>1 DEF Submit
  <2>3. \A i \in Requests : queue[i] \in Seq(Requests) /\ Append(queue[i], r) \in Seq(Requests)
    OBVIOUS
  <2>4. queue' \in [Requests -> Seq(Requests)]
    <3>1. CASE using[r] \in Requests
      BY <2>1, <2>3, <3>1
    <3>2. CASE using[r] \notin Requests
      BY <2>1, <3>2
    <3> QED BY <3>1, <3>2
  <2>5. pc' \in [Requests -> Loading \cup {"idle", "submit", "wait", "fallback", "done"}]
    BY <2>2
  <2> QED BY <1>1, <2>4, <2>5 DEF Submit
<1>2. CASE Collect(r)
  <2>1. CASE Usable(future[r])
    <3> DEFINE d == [future[r] EXCEPT !.confidence = IF @ = NaN THEN @ ELSE Clamp(@)]
    <3>1. Answers(r, d)
      BY <1>2, <2>1 DEF Collect
    <3>2. d \in Decision
      BY <2>1, UsableIsValid
    <3> HIDE DEF d
    <3>3. /\ answer' \in [Requests -> Decision \cup {None}]
          /\ future' \in [Requests -> Decision \cup {Raised, None}]
      BY <3>1, <3>2
    <3>4. pc' \in [Requests -> Loading \cup {"idle", "submit", "wait", "fallback", "done"}]
      BY <3>1
    <3> QED BY <1>2, <3>3, <3>4 DEF Collect
  <2>2. CASE ~Usable(future[r])
    BY <1>2, <2>2 DEF Collect
  <2> QED BY <2>1, <2>2
<1>3. CASE Timeout(r)
  BY <1>3 DEF Timeout
<1>4. CASE Fallback(r)
  BY <1>4, HeuristicDecides DEF Fallback
<1> QED BY <1>1, <1>2, <1>3, <1>4 DEF Decide

LEMMA TypeEnds ==
  ASSUME TypeOK, NEW r \in Requests, Ends(r)
  PROVE  TypeOK'
<1>1. future' \in [Requests -> Decision \cup {Raised, None}]
  <2>1. PICK d \in Decision \cup {Raised} :
          future' = IF pc[r] = "wait" THEN [future EXCEPT ![r] = d] ELSE future
    BY EndsWith
  <2> QED BY <2>1 DEF TypeOK
<1>2. probed' \subseteq Requests /\ running' \subseteq Requests
  BY DEF Ends, TypeOK
<1> QED BY <1>1, <1>2 DEF Ends, TypeOK, answerFrame, loadVars, diskVars

LEMMA TypeStart ==
  ASSUME TypeOK, NEW i \in Requests, Start(i)
  PROVE  TypeOK'
<1>1. queue[i] \in Seq(Requests) /\ queue[i] # <<>>
  BY DEF Start, TypeOK
<1>2. Head(queue[i]) \in Requests /\ Tail(queue[i]) \in Seq(Requests)
  BY <1>1
<1>3. queue' \in [Requests -> Seq(Requests)] /\ running' \subseteq Requests
  BY <1>2 DEF Start, TypeOK
<1> QED BY <1>3 DEF Start, TypeOK, answerFrame, loadVars, diskVars

LEMMA TypeOperator ==
  ASSUME TypeOK, Rotate \/ Install \/ Purge
  PROVE  TypeOK'
<1> USE DEF TypeOK, operatorFrame, loadVars, poolVars
<1>1. CASE Rotate
  BY <1>1, ServingAssumption DEF Rotate
<1>2. CASE Install
  BY <1>2 DEF Install
<1>3. CASE Purge
  BY <1>3, ServingAssumption DEF Purge, Purged
<1> QED BY <1>1, <1>2, <1>3

LEMMA TypeStep == TypeOK /\ [Next]_vars => TypeOK'
<1> SUFFICES ASSUME TypeOK, [Next]_vars PROVE TypeOK'
  OBVIOUS
<1>1. ASSUME NEW r \in Requests, NEW p \in Policies, Arrive(r, p) PROVE TypeOK'
  BY <1>1, TypeArrive
<1>2. ASSUME NEW r \in Requests, Load(r) PROVE TypeOK'
  BY <1>2, TypeLoad
<1>3. ASSUME NEW r \in Requests, Decide(r) PROVE TypeOK'
  BY <1>3, TypeDecide
<1>4. ASSUME NEW r \in Requests, Ends(r) PROVE TypeOK'
  BY <1>4, TypeEnds
<1>5. ASSUME NEW i \in Requests, Start(i) PROVE TypeOK'
  BY <1>5, TypeStart
<1>6. CASE Rotate \/ Install \/ Purge
  BY <1>6, TypeOperator
<1>7. CASE UNCHANGED vars
  BY <1>7 DEF vars, TypeOK, loadVars, diskVars, poolVars
<1> QED BY <1>1, <1>2, <1>3, <1>4, <1>5, <1>6, <1>7 DEF Next

\* Every reachable state is well formed.
THEOREM TypeCorrect == Spec => []TypeOK
BY TypeInit, TypeStep, PTL DEF Spec

-----------------------------------------------------------------------------
(* Answers.                                                                *)

\* The steps of requests that change no result and no answer.
LEMMA OnlySomeAnswer ==
  ASSUME TypeOK, [Next]_vars
  PROVE  \/ UNCHANGED <<future, answer>>
         \/ \E r \in Requests : Ends(r) \/ Collect(r) \/ Fallback(r)
<1> USE DEF loadVars, diskVars, poolVars, loadFrame, answerFrame, operatorFrame, LoadFails
<1>1. ASSUME NEW r \in Requests, NEW p \in Policies, Arrive(r, p)
      PROVE  UNCHANGED <<future, answer>>
  BY <1>1 DEF Arrive
<1>2. ASSUME NEW r \in Requests, Load(r)
      PROVE  UNCHANGED <<future, answer>>
  BY <1>2 DEF Load, LoadEmbed, LoadMetadata, Verify, LoadBooster, LoadCalibrator, Insert
<1>3. ASSUME NEW r \in Requests, Submit(r) \/ Timeout(r)
      PROVE  UNCHANGED <<future, answer>>
  BY <1>3 DEF Submit, Timeout
<1>4. ASSUME NEW i \in Requests, Start(i)
      PROVE  UNCHANGED <<future, answer>>
  BY <1>4 DEF Start
<1>5. CASE Rotate \/ Install \/ Purge
  BY <1>5 DEF Rotate, Install, Purge
<1>6. CASE UNCHANGED vars
  BY <1>6 DEF vars
<1> QED BY <1>1, <1>2, <1>3, <1>4, <1>5, <1>6 DEF Next, Decide

\* What every answer owes to the contract and to the band of automatic switches.
AnswerInv == Bounded /\ AnswersAreValid /\ SecondNeverSwitches

LEMMA AnswerInit == Init => AnswerInv
<1> SUFFICES ASSUME Init PROVE AnswerInv
  OBVIOUS
<1>1. \A r \in Requests : future[r] = None /\ answer[r] = None /\ None \notin Decision
  BY ServingAssumption DEF Init
<1> QED BY <1>1 DEF AnswerInv, Bounded, AnswersAreValid, SecondNeverSwitches

LEMMA AnswerStep == TypeOK /\ AnswerInv /\ [Next]_vars => AnswerInv'
<1> SUFFICES ASSUME TypeOK, AnswerInv, [Next]_vars PROVE AnswerInv'
  OBVIOUS
<1> USE DEF AnswerInv, Bounded, AnswersAreValid, SecondNeverSwitches
<1>1. CASE UNCHANGED <<future, answer>>
  BY <1>1
<1>2. ASSUME NEW r \in Requests, Ends(r) PROVE AnswerInv'
  <2>1. PICK d \in Decision \cup {Raised} :
          /\ future' = IF pc[r] = "wait" THEN [future EXCEPT ![r] = d] ELSE future
          /\ d \in Decision /\ d.rule = "embed:v0" => d.confidence \in 0 .. Cap
    BY <1>2, EndsWith
  <2>2. UNCHANGED answer
    BY <1>2 DEF Ends
  <2> QED BY <2>1, <2>2 DEF TypeOK
<1>3. ASSUME NEW r \in Requests, NEW d, d \in Decision, Answers(r, d),
             d.model = "visible" /\ d.rule # "" /\ d.confidence \in 0 .. 100,
             d.rule = "embed:v0" => d.confidence \in 0 .. Cap
      PROVE  AnswerInv'
  <2>1. /\ answer' = [answer EXCEPT ![r] = d] /\ future' = [future EXCEPT ![r] = None]
        /\ None \notin Decision
    BY <1>3, ServingAssumption DEF Answers
  <2>2. Bounded'
    BY <2>1 DEF TypeOK
  <2>3. AnswersAreValid'
    BY <1>3, <2>1 DEF TypeOK
  <2>4. SecondNeverSwitches'
    <3>1. d.rule = "embed:v0" => d.confidence < Threshold
      BY <1>3, CapIsUnderBand
    <3> QED BY <2>1, <3>1 DEF TypeOK
  <2> QED BY <2>2, <2>3, <2>4
<1>4. ASSUME NEW r \in Requests, Collect(r) PROVE AnswerInv'
  <2>1. CASE Usable(future[r])
    <3> DEFINE d == [future[r] EXCEPT !.confidence = IF @ = NaN THEN @ ELSE Clamp(@)]
    <3>1. Answers(r, d)
      BY <1>4, <2>1 DEF Collect
    <3>2. /\ d \in Decision /\ d.model = "visible" /\ d.rule # "" /\ d.rule = future[r].rule
          /\ d.confidence \in 0 .. 100
          /\ future[r].confidence \in 0 .. Cap => d.confidence \in 0 .. Cap
      BY <2>1, UsableIsValid
    <3>3. future[r] \in Decision
      BY <2>1 DEF Usable
    <3>4. d.rule = "embed:v0" => d.confidence \in 0 .. Cap
      BY <3>2, <3>3
    <3> HIDE DEF d
    <3> QED BY <3>1, <3>2, <3>4, <1>3
  <2>2. CASE ~Usable(future[r])
    <3>1. future' = [future EXCEPT ![r] = None] /\ UNCHANGED answer /\ None \notin Decision
      BY <1>4, <2>2, ServingAssumption DEF Collect
    <3> QED BY <3>1 DEF TypeOK
  <2> QED BY <2>1, <2>2
<1>5. ASSUME NEW r \in Requests, Fallback(r) PROVE AnswerInv'
  <2>1. PICK d \in Heuristic("fallback:heuristic") : Answers(r, d)
    BY <1>5 DEF Fallback
  <2>2. /\ d \in Decision /\ d.rule = "fallback:heuristic" /\ d.model = "visible"
        /\ d.confidence \in 0 .. 100
    BY HeuristicDecides
  <2> QED BY <2>1, <2>2, <1>3
<1> QED BY <1>1, <1>2, <1>4, <1>5, OnlySomeAnswer

\* Whatever the primary decides and whenever it does, an answer is one the contract can
\* carry: a visible model, a rule, a confidence within 0 and 100 (safe.py, _validated).
THEOREM AnswersValid == Spec => []AnswersAreValid
<1>1. Init => TypeOK /\ AnswerInv
  BY TypeInit, AnswerInit
<1>2. TypeOK /\ AnswerInv /\ [Next]_vars => (TypeOK /\ AnswerInv)'
  BY TypeStep, AnswerStep
<1>3. AnswerInv => AnswersAreValid
  BY DEF AnswerInv
<1> QED BY <1>1, <1>2, <1>3, PTL DEF Spec

\* No answer of the second stage is in the band of automatic switches (embed.py, the cap
\* of predict; twostage.py, the arbitration).
THEOREM SecondNeverActs == Spec => []SecondNeverSwitches
<1>1. Init => TypeOK /\ AnswerInv
  BY TypeInit, AnswerInit
<1>2. TypeOK /\ AnswerInv /\ [Next]_vars => (TypeOK /\ AnswerInv)'
  BY TypeStep, AnswerStep
<1>3. AnswerInv => SecondNeverSwitches
  BY DEF AnswerInv
<1> QED BY <1>1, <1>2, <1>3, PTL DEF Spec

-----------------------------------------------------------------------------
(* The text.                                                               *)

TextInv == Consented /\ TextIsConsented

LEMMA TextInit == Init => TextInv
BY DEF Init, TextInv, Consented, TextIsConsented

\* A request leaves "idle" by arriving only, and its text and policy do not change later.
LEMMA TextStep == TypeOK /\ TextInv /\ [Next]_vars => TextInv'
<1> SUFFICES ASSUME TypeOK, TextInv, [Next]_vars PROVE TextInv'
  OBVIOUS
<1> USE DEF TextInv, Consented, TextIsConsented, Goto,
            loadVars, diskVars, poolVars, loadFrame, answerFrame, operatorFrame
<1>1. ASSUME NEW r \in Requests, NEW p \in Policies, Arrive(r, p) PROVE TextInv'
  <2>1. /\ pc[r] = "idle" /\ policy' = [policy EXCEPT ![r] = p]
        /\ UNCHANGED <<env, probed>>
    BY <1>1 DEF Arrive
  <2>2. PICK sent \in BOOLEAN : text' = [text EXCEPT ![r] = sent /\ Unlocked(p)]
    BY <1>1 DEF Arrive
  <2>3. PICK l \in Loading \cup {"submit"} : pc' = [pc EXCEPT ![r] = l]
    BY <1>1 DEF Arrive, LoadBegins, Loading
  <2>4. l # "idle"
    BY DEF Loading
  <2>5. r \notin probed
    BY <2>1
  <2>6. Consented'
    BY <2>1, <2>2, <2>3, <2>4 DEF TypeOK, Unlocked
  <2>7. TextIsConsented'
    BY <2>1, <2>5 DEF TypeOK
  <2> QED BY <2>6, <2>7
<1>2. ASSUME NEW r \in Requests, NEW l, l # "idle", pc' = [pc EXCEPT ![r] = l],
             UNCHANGED <<env, policy, text, probed>>
      PROVE  TextInv'
  BY <1>2 DEF TypeOK, Unlocked
<1>3. ASSUME NEW r \in Requests, Load(r) PROVE TextInv'
  <2>1. UNCHANGED <<env, policy, text, probed>>
    BY <1>3 DEF Load, LoadEmbed, LoadMetadata, Verify, LoadBooster, LoadCalibrator, Insert,
                LoadFails
  <2>2. \E l : l # "idle" /\ pc' = [pc EXCEPT ![r] = l]
    BY <1>3 DEF Load, LoadEmbed, LoadMetadata, Verify, LoadBooster, LoadCalibrator, Insert,
                LoadFails
  <2> QED BY <2>1, <2>2, <1>2
<1>4. ASSUME NEW r \in Requests, Decide(r) PROVE TextInv'
  <2>1. UNCHANGED <<env, policy, text, probed>>
    BY <1>4 DEF Decide, Submit, Collect, Timeout, Fallback
  <2>2. \E l : l # "idle" /\ pc' = [pc EXCEPT ![r] = l]
    BY <1>4 DEF Decide, Submit, Collect, Timeout, Fallback, Answers
  <2> QED BY <2>1, <2>2, <1>2
<1>5. ASSUME NEW r \in Requests, Ends(r) PROVE TextInv'
  <2>1. UNCHANGED <<env, policy, text, pc>>
    BY <1>5 DEF Ends
  <2>2. probed' = probed \/ (probed' = probed \cup {r} /\ text[r])
    BY <1>5 DEF Ends, Asks
  <2>3. text[r] => pc[r] # "idle" /\ Unlocked(policy[r])
    OBVIOUS
  <2>4. Consented'
    BY <2>1, <2>2, <2>3 DEF Unlocked
  <2>5. TextIsConsented'
    BY <2>1, <2>2, <2>3 DEF Unlocked
  <2> QED BY <2>4, <2>5
<1>6. ASSUME UNCHANGED <<env, pc, policy, text, probed>> PROVE TextInv'
  BY <1>6 DEF Unlocked
<1>7. ASSUME NEW i \in Requests, Start(i) PROVE TextInv'
  BY <1>7, <1>6 DEF Start
<1>8. CASE Rotate \/ Install \/ Purge
  BY <1>8, <1>6 DEF Rotate, Install, Purge
<1>9. CASE UNCHANGED vars
  BY <1>9, <1>6 DEF vars
<1> QED BY <1>1, <1>3, <1>4, <1>5, <1>7, <1>8, <1>9 DEF Next

\* The text of a request is read only if its own organisation opened it, whatever
\* instance decides and however late (routes.py, the triple lock).
THEOREM TextConsented == Spec => []TextIsConsented
<1>1. Init => TypeOK /\ TextInv
  BY TypeInit, TextInit
<1>2. TypeOK /\ TextInv /\ [Next]_vars => (TypeOK /\ TextInv)'
  BY TypeStep, TextStep
<1>3. TextInv => TextIsConsented
  BY DEF TextInv
<1> QED BY <1>1, <1>2, <1>3, PTL DEF Spec

-----------------------------------------------------------------------------
(* The cache of routers and its purge.                                     *)

CacheInv == Loaded /\ PurgeTakesEffect

LEMMA CacheInit == Init => CacheInv
BY DEF Init, CacheInv, Loaded, PurgeTakesEffect, Loading

\* Only an insertion fills the cache, with the instance of a load that ends there.
LEMMA CacheStep == TypeOK /\ CacheInv /\ [Next]_vars => CacheInv'
<1> SUFFICES ASSUME TypeOK, CacheInv, [Next]_vars PROVE CacheInv'
  OBVIOUS
<1> USE DEF CacheInv, Loaded, PurgeTakesEffect, Goto,
            loadVars, diskVars, poolVars, loadFrame, answerFrame, operatorFrame
<1>1. ASSUME NEW r \in Requests, NEW p \in Policies, Arrive(r, p) PROVE CacheInv'
  <2>1. pc[r] = "idle" /\ UNCHANGED <<purges, cache, raced>>
    BY <1>1 DEF Arrive
  <2>2. \A v \in Versions : cache[v] # r \/ cache[v] = None
    BY <2>1
  <2>3. \/ /\ \E l : l \notin Loading \cup {"idle"} /\ pc' = [pc EXCEPT ![r] = l]
           /\ UNCHANGED born
        \/ /\ \E l : pc' = [pc EXCEPT ![r] = l]
           /\ born' = [born EXCEPT ![r] = purges]
    <3>1. "submit" \notin Loading \cup {"idle"}
      BY DEF Loading
    <3> QED BY <1>1, <3>1 DEF Arrive
  <2>4. \A v \in Versions : cache[v] # None => cache[v] \in Requests /\ cache[v] # r
    BY <2>2 DEF TypeOK
  <2>5. \A q \in Requests : q # r => pc'[q] = pc[q] /\ born'[q] = born[q]
    BY <2>3 DEF TypeOK
  <2>6. pc'[r] \in Loading => born'[r] = purges
    BY <2>3 DEF TypeOK
  <2> QED BY <2>1, <2>4, <2>5, <2>6
<1>2. ASSUME NEW r \in Requests, NEW l, pc' = [pc EXCEPT ![r] = l],
             l \in Loading => pc[r] \in Loading, l # "idle",
             UNCHANGED <<purges, cache, raced, born>>
      PROVE  CacheInv'
  BY <1>2 DEF TypeOK
<1>3. ASSUME NEW r \in Requests, Load(r) PROVE CacheInv'
  <2>1. CASE Insert(r)
    <3> DEFINE v == VersionOf(policy[r])
    <3>1. /\ cache' = [cache EXCEPT ![v] = IF @ = None THEN r ELSE @]
          /\ pc' = [pc EXCEPT ![r] = "submit"] /\ UNCHANGED <<purges, raced, born>>
          /\ pc[r] = "insert"
      BY <2>1 DEF Insert
    <3>2. pc[r] \in Loading /\ "submit" \notin Loading \cup {"idle"}
      BY <3>1 DEF Loading
    <3>3. \A w \in Versions : cache'[w] = cache[w] \/ cache'[w] = r
      BY <3>1 DEF TypeOK
    <3>4. \A w \in Versions : cache'[w] # None => pc'[cache'[w]] \notin Loading \cup {"idle"}
      BY <3>1, <3>2, <3>3 DEF TypeOK
    <3>5. ~raced => \A q \in Requests : pc'[q] \in Loading => born[q] = purges
      BY <3>1, <3>2 DEF TypeOK
    <3>6. ~raced => \A w \in Versions : cache'[w] # None => born[cache'[w]] = purges
      BY <3>1, <3>2, <3>3
    <3> QED BY <3>1, <3>4, <3>5, <3>6
  <2>2. CASE ~Insert(r)
    <3>1. pc[r] \in Loading /\ UNCHANGED <<purges, cache, raced, born>>
      BY <1>3, <2>2 DEF Load, LoadEmbed, LoadMetadata, Verify, LoadBooster, LoadCalibrator,
                        LoadFails, Loading
    <3>2. \E l : l # "idle" /\ pc' = [pc EXCEPT ![r] = l]
      BY <1>3, <2>2 DEF Load, LoadEmbed, LoadMetadata, Verify, LoadBooster, LoadCalibrator,
                        LoadFails
    <3> QED BY <3>1, <3>2, <1>2
  <2> QED BY <2>1, <2>2
<1>4. ASSUME NEW r \in Requests, Decide(r) PROVE CacheInv'
  <2>1. UNCHANGED <<purges, cache, raced, born>>
    BY <1>4 DEF Decide, Submit, Collect, Timeout, Fallback
  <2>2. \E l \in {"wait", "fallback", "done"} : pc' = [pc EXCEPT ![r] = l]
    BY <1>4 DEF Decide, Submit, Collect, Timeout, Fallback, Answers
  <2> QED BY <2>1, <2>2, <1>2 DEF Loading
<1>5. ASSUME UNCHANGED <<pc, purges, cache, raced, born>> PROVE CacheInv'
  BY <1>5
<1>6. ASSUME NEW r \in Requests, Ends(r) PROVE CacheInv'
  BY <1>6, <1>5 DEF Ends
<1>7. ASSUME NEW i \in Requests, Start(i) PROVE CacheInv'
  BY <1>7, <1>5 DEF Start
<1>8. CASE Rotate \/ Install
  BY <1>8, <1>5 DEF Rotate, Install
<1>9. CASE Purge
  <2>1. /\ cache' = [v \in Versions |-> None] /\ UNCHANGED <<pc, born>>
        /\ raced' = (raced \/ \E r \in Requests : pc[r] \in Loading)
    BY <1>9 DEF Purge, Purged
  <2> QED BY <2>1
<1>10. CASE UNCHANGED vars
  BY <1>10, <1>5 DEF vars
<1> QED BY <1>1, <1>3, <1>4, <1>6, <1>7, <1>8, <1>9, <1>10 DEF Next

\* After a purge that found no load in progress, every memoised router was loaded after it
\* (router_bridge.py, reinitialiser_routeurs).
THEOREM PurgeIsEffective == Spec => []PurgeTakesEffect
<1>1. Init => TypeOK /\ CacheInv
  BY TypeInit, CacheInit
<1>2. TypeOK /\ CacheInv /\ [Next]_vars => (TypeOK /\ CacheInv)'
  BY TypeStep, CacheStep
<1>3. CacheInv => PurgeTakesEffect
  BY DEF CacheInv
<1> QED BY <1>1, <1>2, <1>3, PTL DEF Spec

-----------------------------------------------------------------------------
(* Routing: the ladder of the rules.                                       *)

\* The first rule that matches is the one no earlier rule precedes (heuristic.py:200-206).
LEMMA FirstMatchIs ==
  ASSUME NEW n \in Nat, NEW rules, DOMAIN rules = 1 .. n, NEW i \in 1 .. n,
         rules[i].matches, \A j \in 1 .. i - 1 : ~rules[j].matches
  PROVE  FirstMatch(rules) = rules[i]
<1> DEFINE P(k) == rules[k].matches /\ \A j \in 1 .. k - 1 : ~rules[j].matches
           c == CHOOSE k \in 1 .. n : P(k)
<1>1. c \in 1 .. n /\ P(c)
  <2>1. \E k \in 1 .. n : P(k)
    OBVIOUS
  <2> HIDE DEF P
  <2> QED BY <2>1
<1>2. c = i
  <2>1. ~(c < i)
    <3> SUFFICES ASSUME c < i PROVE FALSE
      OBVIOUS
    <3>1. c \in 1 .. i - 1
      BY <1>1
    <3> QED BY <3>1, <1>1
  <2>2. ~(i < c)
    <3> SUFFICES ASSUME i < c PROVE FALSE
      OBVIOUS
    <3>1. i \in 1 .. c - 1
      BY <1>1
    <3> QED BY <3>1, <1>1
  <2> QED BY <2>1, <2>2, <1>1
<1> QED BY <1>2 DEF FirstMatch

\* What the seven rules decide, as one ladder (heuristic.py:163-189).
LEMMA HeuristicLadder ==
  ASSUME NEW s
  PROVE  HeuristicDecide(s) =
           Rules(s)[IF CodeContext(s) THEN 1 ELSE IF ReasoningContext(s) THEN 2
                    ELSE IF LightTransform(s) THEN 3 ELSE IF LightTransformLong(s) THEN 4
                    ELSE IF ShortSimple(s) THEN 5 ELSE IF ComplexTask(s) THEN 6 ELSE 7]
<1> DEFINE R == Rules(s)
<1>1. DOMAIN R = 1 .. 7
  BY DEF Rules
<1>2. /\ R[1].matches = CodeContext(s) /\ R[2].matches = ReasoningContext(s)
      /\ R[3].matches = LightTransform(s) /\ R[4].matches = LightTransformLong(s)
      /\ R[5].matches = ShortSimple(s) /\ R[6].matches = ComplexTask(s) /\ R[7].matches = TRUE
  BY DEF Rules, Rule
<1> HIDE DEF R
<1>3. ASSUME NEW i \in 1 .. 7, R[i].matches, \A j \in 1 .. i - 1 : ~R[j].matches
      PROVE  HeuristicDecide(s) = R[i]
  <2>1. FirstMatch(R) = R[i]
    BY <1>1, <1>3, FirstMatchIs
  <2> QED BY <2>1 DEF HeuristicDecide, R
<1> DEFINE k == IF CodeContext(s) THEN 1 ELSE IF ReasoningContext(s) THEN 2
                ELSE IF LightTransform(s) THEN 3 ELSE IF LightTransformLong(s) THEN 4
                ELSE IF ShortSimple(s) THEN 5 ELSE IF ComplexTask(s) THEN 6 ELSE 7
<1>4. /\ k \in 1 .. 7 /\ R[k].matches
      /\ (k > 1 => ~R[1].matches) /\ (k > 2 => ~R[2].matches) /\ (k > 3 => ~R[3].matches)
      /\ (k > 4 => ~R[4].matches) /\ (k > 5 => ~R[5].matches) /\ (k > 6 => ~R[6].matches)
  BY <1>2
<1> HIDE DEF k
<1>5. \A j \in 1 .. k - 1 : ~R[j].matches
  <2> SUFFICES ASSUME NEW j \in 1 .. k - 1 PROVE ~R[j].matches
    OBVIOUS
  <2>1. j \in 1 .. 6 /\ j < k
    BY <1>4
  <2> QED BY <2>1, <1>4
<1> QED BY <1>3, <1>4, <1>5 DEF R, k

\* The fields of a decision of the ladder (heuristic.py:163-189).
LEMMA HeuristicFields ==
  ASSUME NEW s
  PROVE  LET d == HeuristicDecide(s)
             light == ~CodeContext(s) /\ ~ReasoningContext(s)
         IN  /\ d.model = IF ~light THEN "sonnet"
                          ELSE IF LightTransform(s) THEN "haiku"
                          ELSE IF LightTransformLong(s) THEN "sonnet"
                          ELSE IF ShortSimple(s) THEN "haiku"
                          ELSE IF ComplexTask(s) THEN "opus" ELSE "sonnet"
             /\ light /\ (LightTransform(s) \/ LightTransformLong(s))
                  => d.name \in {"light_transform", "light_transform_long"}
             /\ d.confidence \in 55 .. 80
<1>1. \A i \in 1 .. 7 : Rules(s)[i].confidence \in 55 .. 80
  BY DEF Rules, Rule, ReasoningConfidence
<1>2. /\ Rules(s)[1].model = "sonnet" /\ Rules(s)[2].model = "sonnet"
      /\ Rules(s)[3].model = "haiku" /\ Rules(s)[4].model = "sonnet"
      /\ Rules(s)[5].model = "haiku" /\ Rules(s)[6].model = "opus" /\ Rules(s)[7].model = "sonnet"
      /\ Rules(s)[3].name = "light_transform" /\ Rules(s)[4].name = "light_transform_long"
  BY DEF Rules, Rule
<1> QED BY <1>1, <1>2, HeuristicLadder

\* What the five rules of the mock decide (mockRules.ts:24-89).
LEMMA MockLadder ==
  ASSUME NEW s
  PROVE  MockDecide(s) =
           MockRules(s)[IF MockCode(s) THEN 1 ELSE IF MockReasoning(s) THEN 2
                        ELSE IF MockShort(s) THEN 3 ELSE IF MockComplex(s) THEN 4 ELSE 5]
<1> DEFINE R == MockRules(s)
<1>1. DOMAIN R = 1 .. 5
  BY DEF MockRules
<1>2. /\ R[1].matches = MockCode(s) /\ R[2].matches = MockReasoning(s)
      /\ R[3].matches = MockShort(s) /\ R[4].matches = MockComplex(s) /\ R[5].matches = TRUE
  BY DEF MockRules, Rule
<1> HIDE DEF R
<1>5. ASSUME NEW i \in 1 .. 5, R[i].matches, \A j \in 1 .. i - 1 : ~R[j].matches
      PROVE  MockDecide(s) = R[i]
  <2>1. FirstMatch(R) = R[i]
    BY <1>1, <1>5, FirstMatchIs
  <2> QED BY <2>1 DEF MockDecide, R
<1> DEFINE k == IF MockCode(s) THEN 1 ELSE IF MockReasoning(s) THEN 2
                ELSE IF MockShort(s) THEN 3 ELSE IF MockComplex(s) THEN 4 ELSE 5
<1>6. /\ k \in 1 .. 5 /\ R[k].matches
      /\ (k > 1 => ~R[1].matches) /\ (k > 2 => ~R[2].matches)
      /\ (k > 3 => ~R[3].matches) /\ (k > 4 => ~R[4].matches)
  BY <1>2
<1> HIDE DEF k
<1>7. \A j \in 1 .. k - 1 : ~R[j].matches
  <2> SUFFICES ASSUME NEW j \in 1 .. k - 1 PROVE ~R[j].matches
    OBVIOUS
  <2>1. j \in 1 .. 4 /\ j < k
    BY <1>6
  <2> QED BY <2>1, <1>6
<1> QED BY <1>5, <1>6, <1>7 DEF R, k

\* The fields of a decision of the mock; the conditions are those of the heuristic, but
\* for a context of 4000 (mockRules.ts:24-89).
LEMMA MockFields ==
  ASSUME NEW s
  PROVE  /\ MockDecide(s).model = IF CodeContext(s) \/ ReasoningContext(s) THEN "sonnet"
                                  ELSE IF MockShort(s) THEN "haiku"
                                  ELSE IF MockComplex(s) THEN "opus" ELSE "sonnet"
         /\ (MockShort(s) <=> ShortSimple(s)) /\ (MockHeavy(s) <=> Heavy(s))
<1>1. /\ MockRules(s)[1].model = "sonnet" /\ MockRules(s)[2].model = "sonnet"
      /\ MockRules(s)[3].model = "haiku" /\ MockRules(s)[4].model = "opus"
      /\ MockRules(s)[5].model = "sonnet"
  BY DEF MockRules, Rule
<1>2. (MockCode(s) <=> CodeContext(s)) /\ (MockReasoning(s) <=> ReasoningContext(s))
  BY DEF MockCode, CodeContext, MockReasoning, ReasoningContext
<1>3. MockHeavy(s) <=> Heavy(s)
  BY DEF MockHeavy, Heavy, HeavyFlags
<1>4. MockShort(s) <=> ShortSimple(s)
  BY <1>3 DEF MockShort, ShortSimple
<1> QED BY <1>1, <1>2, <1>3, <1>4, MockLadder

-----------------------------------------------------------------------------
(* Signals.                                                                *)

\* Signals of any prompt in any conversation (types.ts, features.py).
Signal == [prompt : [token_est : Nat, has_code : BOOLEAN, has_math : BOOLEAN,
                     keyword_flags : SUBSET KEYWORD_FLAGS_V0],
           conversation : [msg_count : Nat, context_token_est : Nat, seen_code : BOOLEAN,
                           seen_math : BOOLEAN, seen_reasoning : BOOLEAN]]

\* The heuristic is as sure as Serving takes it to be (heuristic.py:163-189).
THEOREM HeuristicIsUsual == \A s \in Signal : HeuristicDecide(s).confidence \in 55 .. 80
BY HeuristicFields

\* The signals of the server, field by field (client.ts:105-121, adapter.py:38-77).
LEMMA OnServerFields ==
  ASSUME NEW s \in Signal
  PROVE  /\ OnServer(s).prompt.token_est = s.prompt.token_est
         /\ OnServer(s).prompt.has_code = s.prompt.has_code
         /\ OnServer(s).prompt.has_math = FALSE
         /\ OnServer(s).prompt.keyword_flags = s.prompt.keyword_flags \cap V1_FLAGS
         /\ OnServer(s).conversation = Neutral
BY DEF OnServer, FeaturesToSignals, SignalsToV1Features

\* t is s with a text or a conversation as long or longer, all else equal (heuristic.py:57-95).
Longer(s, t) ==
  /\ t.prompt.token_est >= s.prompt.token_est
  /\ t.prompt.has_code = s.prompt.has_code /\ t.prompt.has_math = s.prompt.has_math
  /\ t.prompt.keyword_flags = s.prompt.keyword_flags
  /\ t.conversation.msg_count >= s.conversation.msg_count
  /\ t.conversation.context_token_est >= s.conversation.context_token_est
  /\ t.conversation.seen_code = s.conversation.seen_code
  /\ t.conversation.seen_math = s.conversation.seen_math
  /\ t.conversation.seen_reasoning = s.conversation.seen_reasoning

\* The seven rules never answer a longer text with a lighter model (heuristic.py:98-160).
LEMMA HeuristicNeverLighter ==
  ASSUME NEW s \in Signal, NEW t \in Signal, Longer(s, t)
  PROVE  Rank(HeuristicDecide(t).model) >= Rank(HeuristicDecide(s).model)
<1>1. /\ CodeContext(t) <=> CodeContext(s)
      /\ ReasoningContext(t) <=> ReasoningContext(s)
      /\ IsLightTransformIntent(t) <=> IsLightTransformIntent(s)
      /\ Heavy(t) <=> Heavy(s)
  BY DEF Longer, CodeContext, ReasoningContext, IsLightTransformIntent, Heavy
<1>2. /\ s.prompt.token_est \in Nat /\ t.prompt.token_est \in Nat
      /\ s.conversation.msg_count \in Nat /\ t.conversation.msg_count \in Nat
      /\ s.conversation.context_token_est \in Nat /\ t.conversation.context_token_est \in Nat
  BY DEF Signal
<1>3. /\ LightTransform(t) => LightTransform(s)
      /\ LightTransformLong(t) => LightTransform(s) \/ LightTransformLong(s)
      /\ ShortSimple(t) => ShortSimple(s) /\ ~LightTransformLong(s)
      /\ ComplexTask(s) => ComplexTask(t)
  BY <1>1, <1>2 DEF Longer, LightTransform, LightTransformLong, ShortSimple, ComplexTask
<1> QED BY <1>1, <1>3, HeuristicFields DEF Rank

\* Nor do the five of the mock (mockRules.ts:56-80).
LEMMA MockNeverLighter ==
  ASSUME NEW s \in Signal, NEW t \in Signal, Longer(s, t)
  PROVE  Rank(MockDecide(t).model) >= Rank(MockDecide(s).model)
<1>1. /\ CodeContext(t) <=> CodeContext(s)
      /\ ReasoningContext(t) <=> ReasoningContext(s)
      /\ MockHeavy(t) <=> MockHeavy(s)
  BY DEF Longer, CodeContext, ReasoningContext, MockHeavy
<1>2. /\ s.prompt.token_est \in Nat /\ t.prompt.token_est \in Nat
      /\ s.conversation.msg_count \in Nat /\ t.conversation.msg_count \in Nat
      /\ s.conversation.context_token_est \in Nat /\ t.conversation.context_token_est \in Nat
  BY DEF Signal
<1>3. (MockShort(t) => MockShort(s)) /\ (MockComplex(s) => MockComplex(t))
  BY <1>1, <1>2 DEF Longer, MockShort, MockComplex
<1> QED BY <1>1, <1>3, MockFields DEF Rank

-----------------------------------------------------------------------------
(* Typing.                                                                 *)

\* The signals are those of the draft, and lengths are natural numbers.
TypingInv == Signals \in Signal /\ prompt = ComputePromptSignals(draft, prompt.token_est)

\* The signals computed from a text are signals (signals.ts).
LEMMA SignalsOfAText ==
  ASSUME NEW t, NEW n \in Nat
  PROVE  ComputePromptSignals(t, n) \in [token_est : Nat, has_code : BOOLEAN, has_math : BOOLEAN,
                                         keyword_flags : SUBSET KEYWORD_FLAGS_V0]
BY DEF ComputePromptSignals, HasMath, DetectKeywordFlags

\* It holds of any text in any conversation.
LEMMA TypingInvInit == TypingInit => TypingInv
<1> SUFFICES ASSUME TypingInit PROVE TypingInv
  OBVIOUS
<1>1. PICK n \in Lengths : prompt = ComputePromptSignals(draft, n)
  BY DEF TypingInit
<1>2. n \in Nat /\ prompt.token_est = n
  BY <1>1, RoutingAssumption DEF ComputePromptSignals
<1>3. conversation \in [msg_count : Nat, context_token_est : Nat, seen_code : BOOLEAN,
                        seen_math : BOOLEAN, seen_reasoning : BOOLEAN]
  BY RoutingAssumption DEF TypingInit
<1> QED BY <1>1, <1>2, <1>3, SignalsOfAText DEF TypingInv, Signals, Signal

\* A step makes the text or the conversation longer, and keeps the invariant.
LEMMA TypingStep ==
  ASSUME TypingInv, TypingNext
  PROVE  TypingInv' /\ Longer(Signals, Signals')
<1>1. CASE Lengthen
  <2>1. PICK m \in Lengths : m > prompt.token_est /\ prompt' = ComputePromptSignals(draft, m)
    BY <1>1 DEF Lengthen, IsNext
  <2>2. m \in Nat /\ prompt'.token_est = m /\ draft' = draft /\ conversation' = conversation
    BY <1>1, <2>1, RoutingAssumption DEF Lengthen, ComputePromptSignals
  <2>3. prompt' = ComputePromptSignals(draft', prompt'.token_est)
    BY <2>1, <2>2
  <2>4. TypingInv'
    BY <2>1, <2>2, <2>3, SignalsOfAText DEF TypingInv, Signals, Signal
  <2>5. Longer(Signals, Signals')
    BY <2>1, <2>2 DEF TypingInv, Longer, Signals, Signal, ComputePromptSignals
  <2> QED BY <2>4, <2>5
<1>2. CASE Converse
  <2>1. draft' = draft /\ prompt' = prompt
    BY <1>2 DEF Converse
  <2> DEFINE tokens(m) == [conversation EXCEPT !.context_token_est = m]
             messages(m) == [conversation EXCEPT !.msg_count = m]
  <2>2. \/ \E m \in Nat : m > conversation.context_token_est /\ conversation' = tokens(m)
        \/ \E m \in Nat : m > conversation.msg_count /\ conversation' = messages(m)
    BY <1>2, RoutingAssumption DEF Converse, IsNext
  <2>3. TypingInv' /\ Longer(Signals, Signals')
    BY <2>1, <2>2 DEF TypingInv, Longer, Signals, Signal
  <2> QED BY <2>3
<1> QED BY <1>1, <1>2 DEF TypingNext

\* It holds of whatever is typed.
LEMMA TypingIsWellFormed == TypingSpec => []TypingInv
<1>1. TypingInv /\ UNCHANGED typing => TypingInv'
  BY DEF TypingInv, Signals, typing
<1> QED BY <1>1, TypingInvInit, TypingStep, PTL DEF TypingSpec

-----------------------------------------------------------------------------
(* What a prompt costs.                                                    *)

\* Only heavy tasks are at stake: no path sends one to the lightest model.
LEMMA HeavyIsNotLight ==
  ASSUME NEW s \in Signal, Heavy(s)
  PROVE  HeuristicDecide(s).model # "haiku" /\ MockDecide(s).model # "haiku"
<1>1. ~LightTransform(s) /\ ~ShortSimple(s) /\ ~MockShort(s)
  BY MockFields DEF LightTransform, IsLightTransformIntent, ShortSimple, MockShort
<1> QED BY <1>1, HeuristicFields, MockFields

\* The v1 contract keeps the flags of the heavy tasks (client.ts:105-121, adapter.py:38-77).
LEMMA ServerSignals ==
  ASSUME NEW s \in Signal
  PROVE  OnServer(s) \in Signal /\ (Heavy(s) <=> Heavy(OnServer(s)))
<1>1. OnServer(s) \in Signal
  BY DEF OnServer, FeaturesToSignals, SignalsToV1Features, Signal, Neutral, V1_FLAGS, KEYWORD_FLAGS_V0
<1>2. Heavy(s) <=> Heavy(OnServer(s))
  BY OnServerFields DEF Heavy, HeavyFlags, V1_FLAGS
<1> QED BY <1>1, <1>2

\* It keeps what is longer.
LEMMA ServerLonger ==
  ASSUME NEW s \in Signal, NEW t \in Signal, Longer(s, t)
  PROVE  Longer(OnServer(s), OnServer(t))
<1>1. /\ OnServer(t).prompt.token_est >= OnServer(s).prompt.token_est
      /\ OnServer(t).prompt.has_code = OnServer(s).prompt.has_code
      /\ OnServer(t).prompt.has_math = OnServer(s).prompt.has_math
      /\ OnServer(t).prompt.keyword_flags = OnServer(s).prompt.keyword_flags
  BY OnServerFields DEF Longer
<1>2. OnServer(t).conversation = Neutral /\ OnServer(s).conversation = Neutral
  BY OnServerFields
<1>3. Neutral.msg_count >= Neutral.msg_count /\ Neutral.context_token_est >= Neutral.context_token_est
  BY DEF Neutral
<1> QED BY <1>1, <1>2, <1>3 DEF Longer

\* Whatever the text and the lengths, on the three paths: a contract or an analysis never
\* goes to the lightest model, nor a light transformation in a short conversation to the
\* dearest one (heuristic.py:26-29, 87-128; adapter.py:38-77; mockRules.ts:56-63).
THEOREM CostAlwaysFollowsTask == TypingSpec => []CostFollowsTask
<1>1. ASSUME TypingInv PROVE CostFollowsTask
  <2> DEFINE s == Signals
  <2>1. s \in Signal
    BY <1>1 DEF TypingInv
  <2>2. ASSUME Heavy(s), NEW path \in 1 .. 3
        PROVE  Decisions(s)[path].model # "haiku"
    BY <2>1, <2>2, HeavyIsNotLight, ServerSignals DEF Decisions
  <2>3. ASSUME IsLightTransformIntent(s), conversation.context_token_est < 4000
        PROVE  HeuristicDecide(s).model # "opus"
    <3>1. s.conversation.context_token_est < 4000 /\ s.prompt.token_est \in Nat
      BY <2>1, <2>3 DEF Signals, Signal
    <3>2. LightTransform(s) \/ LightTransformLong(s)
      BY <2>3, <3>1 DEF LightTransform, LightTransformLong
    <3> QED BY <3>2, HeuristicFields
  <2> QED BY <2>2, <2>3 DEF CostFollowsTask
<1> QED BY <1>1, TypingIsWellFormed, PTL

\* Whatever the text and the lengths, mock and heuristic differ on light transformations
\* and at a context of 4000 only (mockRules.ts:24-89, heuristic.py:163-189).
THEOREM MockAlwaysAgrees == TypingSpec => []MockAgrees
<1>1. ASSUME TypingInv PROVE MockAgrees
  <2> DEFINE s == Signals
             m == MockDecide(s)
             h == HeuristicDecide(s)
  <2>1. s \in Signal /\ s.conversation.context_token_est = conversation.context_token_est
    BY <1>1 DEF TypingInv, Signals
  <2>2. /\ MockRules(s)[1] = Rules(s)[1] /\ MockRules(s)[2] = Rules(s)[2]
        /\ MockRules(s)[5] = Rules(s)[7]
    BY DEF MockRules, Rules, Rule, MockCode, CodeContext, MockReasoning, ReasoningContext,
           ReasoningConfidence
  <2>3. ASSUME ShortSimple(s) PROVE MockRules(s)[3] = Rules(s)[5]
    <3>1. MockShort(s) = TRUE /\ ShortSimple(s) = TRUE
      BY <2>3, MockFields
    <3> QED BY <3>1 DEF MockRules, Rules, Rule
  <2>4. ASSUME conversation.context_token_est # 4000
        PROVE  /\ MockComplex(s) <=> ComplexTask(s)
               /\ ComplexTask(s) => MockRules(s)[4] = Rules(s)[6]
    <3>1. MockComplex(s) <=> ComplexTask(s)
      BY <2>1, <2>4, MockFields DEF MockComplex, ComplexTask, Signal
    <3>2. ASSUME ComplexTask(s) PROVE MockRules(s)[4] = Rules(s)[6]
      <4>1. MockComplex(s) = TRUE /\ ComplexTask(s) = TRUE
        BY <3>1, <3>2
      <4> QED BY <4>1 DEF MockRules, Rules, Rule
    <3> QED BY <3>1, <3>2
  <2>5. /\ MockCode(s) <=> CodeContext(s)
        /\ MockReasoning(s) <=> ReasoningContext(s)
    BY DEF MockCode, CodeContext, MockReasoning, ReasoningContext
  <2>6. m = h \/ h.name \in {"light_transform", "light_transform_long"}
        \/ conversation.context_token_est = 4000
    BY <2>2, <2>3, <2>4, <2>5, MockFields, MockLadder, HeuristicFields, HeuristicLadder
  <2> QED BY <2>6 DEF MockAgrees
<1> QED BY <1>1, TypingIsWellFormed, PTL

\* As text or conversation grows, no path answers with a lighter model, for any lengths
\* (heuristic.py:98-160, mockRules.ts:56-80).
THEOREM NeverLighter == TypingSpec => LongerNeverLighter
<1>1. ASSUME TypingInv, TypingNext, NEW path \in 1 .. 3
      PROVE  Rank(Decisions(Signals)'[path].model) >= Rank(Decisions(Signals)[path].model)
  <2> DEFINE s == Signals
             t == Signals'
  <2>1. s \in Signal /\ t \in Signal /\ Longer(s, t)
    BY <1>1, TypingStep DEF TypingInv
  <2>2. OnServer(s) \in Signal /\ OnServer(t) \in Signal
    BY <2>1, ServerSignals
  <2>3. Longer(OnServer(s), OnServer(t))
    BY <2>1, ServerLonger
  <2>4. Decisions(Signals)' = Decisions(t)
    BY DEF Decisions
  <2> QED BY <2>1, <2>2, <2>3, <2>4, HeuristicNeverLighter, MockNeverLighter DEF Decisions
<1> DEFINE NoLighter == \A path \in 1 .. 3 :
             Rank(Decisions(Signals)'[path].model) >= Rank(Decisions(Signals)[path].model)
<1>2. TypingInv /\ [TypingNext]_typing => [TypingNext => NoLighter]_typing
  BY <1>1
<1>3. TypingSpec => [][TypingNext => NoLighter]_typing
  <2> HIDE DEF NoLighter
  <2> QED BY <1>2, TypingIsWellFormed, PTL DEF TypingSpec
<1> QED BY <1>3 DEF LongerNeverLighter

-----------------------------------------------------------------------------
(* Ledger.                                                                 *)

\* A rate is between 0 and 100.0 (reco_adoption.sql:16-24).
LEMMA RateIsAPercentage ==
  ASSUME NEW f \in Nat, NEW d \in Nat, f <= d
  PROVE  IF d = 0 THEN Rate(f, d) = Null ELSE Rate(f, d) \in 0 .. 1000
<1>1. CASE d = 0
  BY <1>1 DEF Rate
<1>2. CASE d > 0
  <2> DEFINE n == 2000 * f + d
             w == 2 * d
             q == n \div w
  <2>1. n \in Nat /\ w \in Nat /\ w > 0 /\ n < 1001 * w
    BY <1>2
  <2> HIDE DEF n, w
  <2>2. q \in Int /\ w * q <= n /\ n < w * q + w
    BY <2>1, SMTT(30)
  <2> HIDE DEF q
  <2>3. q >= 0
    <3> SUFFICES ASSUME q <= -1 PROVE FALSE
      BY <2>2
    <3>1. w * q <= w * (-1)
      BY <2>1, <2>2, SMTT(30)
    <3> QED BY <2>1, <2>2, <3>1
  <2>4. q <= 1000
    <3> SUFFICES ASSUME q >= 1001 PROVE FALSE
      BY <2>2
    <3>1. w * q >= w * 1001
      BY <2>1, <2>2, SMTT(30)
    <3> QED BY <2>1, <2>2, <3>1
  <2> QED BY <1>2, <2>2, <2>3, <2>4 DEF Rate, q, n, w
<1> QED BY <1>1, <1>2

\* Rows, decisions and displays are those of known recommendations.
LedgerTypes ==
  /\ ledger \in [Ids -> Row \cup {Null}] /\ decided \in [Recos -> Outcomes \cup {Null}]
  /\ month \in Months /\ shown \subseteq Recos

\* A row answered says what its user decided, of a recommendation displayed; a row of the
\* demonstration says what the generator drew.
Told ==
  /\ \A r \in Recos : ledger[r] # Null /\ ledger[r].verdict # "unanswered"
                        => ledger[r].verdict = decided[r]
  /\ \A r \in Recos : decided[r] # Null => r \in shown
  /\ \A e \in Demo : ledger[e] # Null => ledger[e].verdict = DemoVerdict[e]

\* The rows a report of the month counts as followed.
Followed(l, o, m) ==
  {r \in Ids : l[r] # Null /\ l[r].org = o /\ l[r].month = m /\ l[r].verdict = "followed"}

\* What a report holds.
Report ==
  [at : {"idle", "adoption", "savings", "written"}, org : Orgs \cup {Null},
   month : Months, avoided : Nat, events : Nat, followed : Nat, decided : Nat,
   rate : Int \cup {Null}, saved : Nat]

\* What each statement of a report read is still there when the next one reads.
Counted ==
  /\ report \in Report
  /\ report.at # "idle" =>
       /\ report.avoided <= Cardinality(Followed(ledger, report.org, report.month))
  /\ report.at \in {"savings", "written"} =>
       /\ report.avoided <= report.followed
       /\ report.followed <= Cardinality(Followed(ledger, report.org, report.month))
       /\ report.decided <= report.events
       /\ IF report.decided = 0 THEN report.rate = Null ELSE report.rate \in 0 .. 1000
  /\ report.at = "written" =>
       /\ report.followed <= report.saved
       /\ report.saved <= Cardinality(FollowedByUsers)

\* The inductive invariant of the ledger.
LedgerInv == LedgerTypes /\ Told /\ Counted

\* It holds of an empty ledger.
LEMMA LedgerInvInit == LedgerInit => LedgerInv
<1> SUFFICES ASSUME LedgerInit PROVE LedgerInv
  OBVIOUS
<1>1. LedgerTypes
  BY LedgerAssumption DEF LedgerInit, LedgerTypes, Months
<1>2. Told
  BY DEF LedgerInit, Told, Ids
<1>3. Counted
  BY LedgerAssumption DEF LedgerInit, Counted, Report, NoReport, Months
<1> QED BY <1>1, <1>2, <1>3 DEF LedgerInv

\* Nothing a user said is unsaid, and no row of the ledger is taken back (the three
\* statements that write it: routes.py:84-112, 144-159, seed.py:108-121).
Advances ==
  /\ \A r \in Ids : ledger[r] # Null =>
       /\ ledger'[r] # Null /\ ledger'[r].org = ledger[r].org /\ ledger'[r].month = ledger[r].month
       /\ ledger[r].verdict = "followed" => ledger'[r].verdict = "followed"
  /\ \A r \in Recos : decided[r] # Null => decided'[r] = decided[r]

\* A row is inserted unanswered, under an identifier of its own (routes.py:84-112).
LEMMA RecommendKeeps ==
  ASSUME LedgerTypes, Told, NEW r \in Recos, Recommend(r)
  PROVE  LedgerTypes' /\ Told' /\ Advances
<1>1. PICK o \in Orgs : ledger' = [ledger EXCEPT ![r] = Inserted(o)]
  BY DEF Recommend, Authenticated
<1>2. Inserted(o) \in Row /\ Inserted(o).verdict = "unanswered"
  BY DEF LedgerTypes, Inserted, Row, Verdicts
<1>3. ledger[r] = Null /\ r \in Ids /\ r \notin Demo
  BY LedgerAssumption DEF Recommend, Ids
<1>4. UNCHANGED <<month, shown, decided>>
  BY DEF Recommend
<1>5. LedgerTypes'
  BY <1>1, <1>2, <1>3, <1>4 DEF LedgerTypes
<1>6. Told'
  BY <1>1, <1>2, <1>3, <1>4 DEF LedgerTypes, Told, Ids
<1>7. Advances
  BY <1>1, <1>3, <1>4 DEF LedgerTypes, Advances
<1> QED BY <1>5, <1>6, <1>7

\* An update writes what was decided, again or late (routes.py:144-159).
LEMMA RecordKeeps ==
  ASSUME LedgerTypes, Told, NEW r \in Recos, RecordRecoEvent(r)
  PROVE  LedgerTypes' /\ Told' /\ Advances
<1>1. ledger' = [ledger EXCEPT ![r] = [ledger[r] EXCEPT !.verdict = decided[r]]]
  BY DEF RecordRecoEvent
<1>2. /\ ledger[r] # Null /\ ledger[r] \in Row /\ decided[r] \in Outcomes
      /\ r \in Ids /\ r \notin Demo
  BY LedgerAssumption DEF RecordRecoEvent, LedgerTypes, Ids
<1> DEFINE row == [ledger[r] EXCEPT !.verdict = decided[r]]
<1>3. /\ row \in Row /\ row.verdict = decided[r]
      /\ row.org = ledger[r].org /\ row.month = ledger[r].month
  BY <1>2 DEF Row, Verdicts
<1>4. row # Null
  BY <1>3, LedgerAssumption
<1> HIDE DEF row
<1>5. UNCHANGED <<month, shown, decided>> /\ ledger' = [ledger EXCEPT ![r] = row]
  BY <1>1 DEF RecordRecoEvent, row
<1>6. LedgerTypes'
  BY <1>2, <1>3, <1>5 DEF LedgerTypes
<1>7. Told'
  BY <1>2, <1>3, <1>5 DEF LedgerTypes, Told, Ids
<1>8. Advances
  <2>1. ledger[r].verdict = "followed" => row.verdict = "followed"
    BY <1>2, <1>3 DEF Told
  <2> QED BY <1>2, <1>3, <1>4, <1>5, <2>1 DEF LedgerTypes, Advances
<1> QED BY <1>6, <1>7, <1>8

\* The seed leaves every row there is (seed.py:108-121).
LEMMA SeedKeeps ==
  ASSUME LedgerTypes, Told, NEW o \in Orgs, Seed(o)
  PROVE  LedgerTypes' /\ Told' /\ Advances
<1> DEFINE rows == EventRows(o)
<1>1. \A e \in Demo : rows[e] \in Row /\ rows[e].verdict = DemoVerdict[e]
  BY LedgerAssumption DEF EventRows, Row, Verdicts
<1>2. ledger' = Inserting(rows) /\ UNCHANGED <<month, shown, decided>>
  BY DEF Seed
<1> HIDE DEF rows
<1>3. \A r \in Ids : ledger'[r] = IF r \in Demo /\ ledger[r] = Null THEN rows[r] ELSE ledger[r]
  BY <1>2 DEF Inserting
<1>4. LedgerTypes'
  BY <1>1, <1>2 DEF LedgerTypes, Inserting
<1>5. Told'
  BY <1>1, <1>2, <1>3, LedgerAssumption DEF Told, Ids
<1>6. Advances
  BY <1>2, <1>3 DEF Advances
<1> QED BY <1>4, <1>5, <1>6

\* A decision is taken once, before anything is written of it (content-main.ts).
LEMMA PageKeeps ==
  ASSUME LedgerTypes, Told, NEW r \in Recos, Show(r) \/ Conclude(r)
  PROVE  LedgerTypes' /\ Told' /\ Advances
<1>1. CASE Show(r)
  BY <1>1 DEF Show, LedgerTypes, Told, Advances
<1>2. CASE Conclude(r)
  <2>1. PICK v \in Outcomes : decided' = [decided EXCEPT ![r] = v]
    BY <1>2 DEF Conclude
  <2>2. decided[r] = Null /\ r \in shown /\ UNCHANGED <<ledger, month, shown>>
    BY <1>2 DEF Conclude
  <2>3. \A q \in Recos : ledger[q] # Null /\ ledger[q].verdict # "unanswered" => q # r
    <3> SUFFICES ASSUME ledger[r] # Null, ledger[r].verdict # "unanswered" PROVE FALSE
      OBVIOUS
    <3>1. ledger[r].verdict = Null /\ ledger[r] \in Row
      BY <2>2 DEF Told, LedgerTypes, Ids
    <3>2. Null \notin Verdicts \ {"unanswered"}
      BY LedgerAssumption DEF Verdicts
    <3> QED BY <3>1, <3>2 DEF Row
  <2>4. LedgerTypes'
    BY <2>1, <2>2 DEF LedgerTypes
  <2>5. Told'
    BY <2>1, <2>2, <2>3 DEF LedgerTypes, Told
  <2>6. Advances
    BY <2>1, <2>2 DEF LedgerTypes, Advances
  <2> QED BY <2>4, <2>5, <2>6
<1> QED BY <1>1, <1>2

\* The three statements count the same rows (generate.py:110-119).
LEMMA FollowedRows ==
  ASSUME NEW o, NEW m
  PROVE  With({"followed"}, Rows(o, m)) = Followed(ledger, o, m)
BY DEF With, Rows, Followed

\* They count a number.
LEMMA FollowedIsFinite ==
  ASSUME NEW l, NEW o, NEW m
  PROVE  IsFiniteSet(Followed(l, o, m)) /\ Cardinality(Followed(l, o, m)) \in Nat
<1>1. IsFiniteSet(Ids)
  BY LedgerAssumption, FS_Union DEF Ids
<1>2. Followed(l, o, m) \subseteq Ids
  BY DEF Followed
<1> QED BY <1>1, <1>2, FS_Subset, FS_CardinalityType

\* What users followed in a month only grows, whoever asks.
LEMMA FollowedGrows ==
  ASSUME Advances, NEW o, NEW m
  PROVE  Cardinality(Followed(ledger, o, m)) <= Cardinality(Followed(ledger', o, m))
<1>1. Followed(ledger, o, m) \subseteq Followed(ledger', o, m)
  BY DEF Followed, Advances
<1> QED BY <1>1, FollowedIsFinite, FS_Subset

\* The ledger has no more than what users said.
LEMMA FollowedIsTold ==
  ASSUME Told, NEW o, NEW m
  PROVE  Cardinality(Followed(ledger, o, m)) <= Cardinality(FollowedByUsers)
<1>1. Followed(ledger, o, m) \subseteq FollowedByUsers
  BY DEF Followed, FollowedByUsers, Told, Ids
<1>2. IsFiniteSet(FollowedByUsers)
  <2>1. IsFiniteSet({r \in Recos : decided[r] = "followed"}) /\ IsFiniteSet({e \in Demo : DemoVerdict[e] = "followed"})
    BY LedgerAssumption, FS_Subset
  <2> QED BY <2>1, FS_Union DEF FollowedByUsers
<1> QED BY <1>1, <1>2, FS_Subset

\* What users followed only grows too.
LEMMA FollowedByUsersGrows ==
  ASSUME Advances
  PROVE  /\ Cardinality(FollowedByUsers) \in Nat /\ Cardinality(FollowedByUsers') \in Nat
         /\ Cardinality(FollowedByUsers) <= Cardinality(FollowedByUsers')
<1>1. FollowedByUsers \subseteq FollowedByUsers'
  <2>1. Null # "followed"
    BY LedgerAssumption DEF Outcomes
  <2> QED BY <2>1 DEF FollowedByUsers, Advances
<1>2. FollowedByUsers' \subseteq Ids
  BY DEF FollowedByUsers, Ids
<1>3. IsFiniteSet(Ids)
  BY LedgerAssumption, FS_Union DEF Ids
<1> QED BY <1>1, <1>2, <1>3, FS_Subset, FS_CardinalityType

\* A step that leaves the report alone.
LEMMA CountedStays ==
  ASSUME Counted, Advances, report' = report
  PROVE  Counted'
<1> DEFINE now == Cardinality(Followed(ledger, report.org, report.month))
           next == Cardinality(Followed(ledger', report.org, report.month))
           users == Cardinality(FollowedByUsers)
<1>1. now \in Nat /\ next \in Nat /\ now <= next
  BY FollowedIsFinite, FollowedGrows
<1>2. users \in Nat /\ users' \in Nat /\ users <= users'
  BY FollowedByUsersGrows
<1>3. Cardinality(Followed(ledger, report.org, report.month))' = next
  OBVIOUS
<1>4. report.avoided \in Nat /\ report.followed \in Nat /\ report.saved \in Nat /\ report' \in Report
  BY DEF Counted, Report
<1> HIDE DEF now, next
<1>5. /\ report.at # "idle" => report.avoided <= next
      /\ report.at \in {"savings", "written"} => report.followed <= next
  BY <1>1, <1>4 DEF Counted, now
<1>6. report.at = "written" => report.saved <= users'
  BY <1>2, <1>4 DEF Counted
<1> QED BY <1>3, <1>4, <1>5, <1>6 DEF Counted

\* The three statements of a report count what the ledger holds then.
LEMMA ReportCounts ==
  ASSUME LedgerInv, FootprintAvoided \/ RecoAdoption \/ RecoSavings \/ Render
  PROVE  Counted'
<1> DEFINE count(o, m) == Cardinality(Followed(ledger, o, m))
           users == Cardinality(FollowedByUsers)
<1>1. ledger' = ledger /\ decided' = decided /\ FollowedByUsers' = FollowedByUsers
  BY DEF FootprintAvoided, RecoAdoption, RecoSavings, Render, FollowedByUsers
<1>2. \A o, m : count(o, m) \in Nat /\ Cardinality(With({"followed"}, Rows(o, m))) = count(o, m)
  BY FollowedIsFinite, FollowedRows
<1>3. Counted
  BY DEF LedgerInv
<1>4. CASE FootprintAvoided
  <2>1. PICK o \in Orgs, m \in Months :
          report' = [NoReport EXCEPT !.at = "adoption", !.org = o, !.month = m,
                       !.avoided = Cardinality(With({"followed"}, Rows(o, m)))]
    BY <1>4 DEF FootprintAvoided
  <2>2. report' = [at |-> "adoption", org |-> o, month |-> m, avoided |-> count(o, m), events |-> 0,
                   followed |-> 0, decided |-> 0, rate |-> Null, saved |-> 0]
    BY <2>1, <1>2 DEF NoReport
  <2>3. count(o, m) = Cardinality(Followed(ledger', report'.org, report'.month))
    BY <1>1, <2>2
  <2>4. report' \in Report
    BY <1>2, <2>2 DEF Report
  <2>5. report'.at = "adoption" /\ report'.avoided = count(o, m)
    BY <2>2
  <2> QED BY <1>2, <2>3, <2>4, <2>5 DEF Counted
<1>5. CASE RecoAdoption
  <2> DEFINE rows == Rows(report.org, report.month)
             answered == Cardinality(With(Outcomes, rows))
             followed == count(report.org, report.month)
  <2>1. /\ answered \in Nat /\ Cardinality(rows) \in Nat
        /\ followed <= answered /\ answered <= Cardinality(rows)
    <3>1. IsFiniteSet(Ids)
      BY LedgerAssumption, FS_Union DEF Ids
    <3>2. /\ Followed(ledger, report.org, report.month) \subseteq With(Outcomes, rows)
          /\ With(Outcomes, rows) \subseteq rows /\ rows \subseteq Ids
      BY DEF Followed, With, Rows, Outcomes
    <3> QED BY <3>1, <3>2, FS_Subset, FS_CardinalityType
  <2>2. IF answered = 0 THEN Rate(followed, answered) = Null ELSE Rate(followed, answered) \in 0 .. 1000
    <3>1. followed \in Nat
      BY <1>2
    <3> HIDE DEF followed, answered
    <3> QED BY <2>1, <3>1, RateIsAPercentage
  <2>3. report' = [report EXCEPT !.at = "savings", !.events = Cardinality(rows),
                     !.followed = followed, !.decided = answered, !.rate = Rate(followed, answered)]
    BY <1>2, <1>5 DEF RecoAdoption
  <2> HIDE DEF rows, answered, followed
  <2>4. /\ report' \in Report /\ report'.at = "savings" /\ report'.org = report.org /\ report'.month = report.month
        /\ report'.avoided = report.avoided /\ report'.events = Cardinality(rows)
        /\ report'.followed = followed /\ report'.decided = answered
        /\ report'.rate = Rate(followed, answered) /\ report'.saved = report.saved
    <3> DEFINE rate == Rate(followed, answered)
               events == Cardinality(rows)
    <3>1. followed \in Nat /\ answered \in Nat /\ events \in Nat /\ rate \in Int \cup {Null}
      BY <1>2, <2>1, <2>2 DEF followed
    <3>2. report \in Report
      BY <1>3 DEF Counted
    <3> HIDE DEF rate, events
    <3>3. report' = [report EXCEPT !.at = "savings", !.events = events, !.followed = followed,
                       !.decided = answered, !.rate = rate]
      BY <2>3 DEF rate, events
    <3>4. report' \in Report
      BY <3>1, <3>2, <3>3 DEF Report
    <3>5. /\ report'.at = "savings" /\ report'.org = report.org /\ report'.month = report.month
          /\ report'.avoided = report.avoided /\ report'.events = events
          /\ report'.followed = followed /\ report'.decided = answered
          /\ report'.rate = rate /\ report'.saved = report.saved
      BY <3>2, <3>3 DEF Report
    <3> QED BY <3>4, <3>5 DEF rate, events
  <2>5. followed = Cardinality(Followed(ledger', report'.org, report'.month))
    BY <1>1, <2>4 DEF followed
  <2>6. report.at = "adoption" /\ followed \in Nat /\ report.avoided <= followed
    BY <1>2, <1>3, <1>5 DEF Counted, RecoAdoption, followed
  <2> QED BY <2>1, <2>2, <2>4, <2>5, <2>6 DEF Counted
<1>6. CASE RecoSavings
  <2> DEFINE followed == count(report.org, report.month)
  <2>1. report' = [report EXCEPT !.at = "written", !.saved = followed] /\ report.at = "savings"
    BY <1>2, <1>6 DEF RecoSavings
  <2>2. followed \in Nat /\ followed <= users /\ report.followed <= followed
    BY <1>2, <1>3, <2>1, FollowedIsTold DEF Counted, LedgerInv
  <2> HIDE DEF followed
  <2>3. /\ report' \in Report /\ report'.at = "written" /\ report'.org = report.org /\ report'.month = report.month
        /\ report'.avoided = report.avoided /\ report'.events = report.events
        /\ report'.followed = report.followed /\ report'.decided = report.decided
        /\ report'.rate = report.rate /\ report'.saved = followed
    <3>1. report \in Report
      BY <1>3 DEF Counted
    <3> QED BY <2>1, <2>2, <3>1 DEF Report
  <2>4. followed = Cardinality(Followed(ledger', report'.org, report'.month)) /\ users' = users
    BY <1>1, <2>3 DEF followed
  <2>5. /\ report.avoided \in Nat /\ report.followed \in Nat /\ report.avoided <= report.followed
        /\ report.decided <= report.events
        /\ IF report.decided = 0 THEN report.rate = Null ELSE report.rate \in 0 .. 1000
    BY <1>3, <2>1 DEF Counted, Report
  <2>6. report.avoided <= followed
    BY <2>2, <2>5
  <2> QED BY <2>2, <2>3, <2>4, <2>5, <2>6 DEF Counted
<1>7. CASE Render
  BY <1>7, LedgerAssumption DEF Render, NoReport, Counted, Report, Months
<1> QED BY <1>4, <1>5, <1>6, <1>7

\* Every step keeps the invariant.
LEMMA LedgerInvStep == LedgerInv /\ [LedgerNext]_ledgerVars => LedgerInv'
<1> SUFFICES ASSUME LedgerInv, [LedgerNext]_ledgerVars PROVE LedgerInv'
  OBVIOUS
<1> USE DEF LedgerInv
<1>1. ASSUME NEW r \in Recos, Recommend(r) PROVE LedgerInv'
  <2>1. report' = report
    BY <1>1 DEF Recommend
  <2> QED BY <1>1, <2>1, RecommendKeeps, CountedStays
<1>2. ASSUME NEW r \in Recos, RecordRecoEvent(r) PROVE LedgerInv'
  <2>1. report' = report
    BY <1>2 DEF RecordRecoEvent
  <2> QED BY <1>2, <2>1, RecordKeeps, CountedStays
<1>3. ASSUME NEW r \in Recos, Show(r) \/ Conclude(r) PROVE LedgerInv'
  <2>1. report' = report
    BY <1>3 DEF Show, Conclude
  <2> QED BY <1>3, <2>1, PageKeeps, CountedStays
<1>4. ASSUME NEW o \in Orgs, Seed(o) PROVE LedgerInv'
  <2>1. report' = report
    BY <1>4 DEF Seed
  <2> QED BY <1>4, <2>1, SeedKeeps, CountedStays
<1>5. CASE NextMonth
  <2>1. LedgerTypes' /\ Told' /\ Advances /\ report' = report
    BY <1>5, LedgerAssumption DEF NextMonth, LedgerTypes, Told, Advances, Months
  <2> QED BY <2>1, CountedStays
<1>6. CASE FootprintAvoided \/ RecoAdoption \/ RecoSavings \/ Render
  <2>1. LedgerTypes' /\ Told'
    BY <1>6 DEF FootprintAvoided, RecoAdoption, RecoSavings, Render, LedgerTypes, Told
  <2> QED BY <1>6, <2>1, ReportCounts
<1>7. CASE UNCHANGED ledgerVars
  <2>1. LedgerTypes' /\ Told' /\ Advances /\ report' = report
    BY <1>7 DEF ledgerVars, LedgerTypes, Told, Advances
  <2> QED BY <2>1, CountedStays
<1> QED BY <1>1, <1>2, <1>3, <1>4, <1>5, <1>6, <1>7 DEF LedgerNext

\* For any organisations, tokens, recommendations, months and demonstration data: a verdict
\* in the ledger is the one its user gave to a recommendation displayed, and the counts of a
\* report grow in its order, never past what users followed (routes.py:132-164,
\* generate.py:110-119).
THEOREM VerdictsAreAlwaysTold == LedgerSpec => []VerdictsAreTold
<1>1. LedgerInv => VerdictsAreTold
  <2> SUFFICES ASSUME LedgerInv PROVE VerdictsAreTold
    OBVIOUS
  <2>1. ASSUME NEW r \in Recos, ledger[r] # Null, ledger[r].verdict # "unanswered"
        PROVE  r \in shown /\ ledger[r].verdict = decided[r]
    <3>1. ledger[r].verdict = decided[r] /\ ledger[r] \in Row
      BY <2>1 DEF LedgerInv, Told, LedgerTypes, Ids
    <3>2. decided[r] # Null
      BY <2>1, <3>1, LedgerAssumption DEF Row, Verdicts
    <3> QED BY <3>1, <3>2 DEF LedgerInv, Told
  <2>2. report.at = "written" =>
          /\ report.avoided <= report.followed /\ report.followed <= report.saved
          /\ report.saved <= Cardinality(FollowedByUsers)
          /\ report.decided <= report.events
          /\ IF report.decided = 0 THEN report.rate = Null ELSE report.rate \in 0 .. 1000
    BY DEF LedgerInv, Counted
  <2> QED BY <2>1, <2>2 DEF VerdictsAreTold
<1> QED BY <1>1, LedgerInvInit, LedgerInvStep, PTL DEF LedgerSpec

==============================================================================
