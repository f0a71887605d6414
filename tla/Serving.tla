------------------------------- MODULE Serving -------------------------------
(***************************************************************************)
(* Recommendation requests on the server: which router instance answers,   *)
(* when instances are built and replaced, and what an answer can be.       *)
(*                                                                         *)
(*   api/app/routes.py               recommend                             *)
(*   api/app/router_bridge.py        the routers memoised by version       *)
(*   router/sobrio_router/safe.py    the pool, the timeout, the validation *)
(*   router/sobrio_router/twostage.py  arbitration between the two stages  *)
(*   router/sobrio_router/ml.py, embed.py  loading and confidences         *)
(*                                                                         *)
(* FastAPI runs each request in a thread of its own, so requests interleave*)
(* at every read of the disk, of the cache and of a future. A router is    *)
(* known by the request that built it. Its pool has Workers threads and an *)
(* unbounded queue; a decision may take for ever, and nobody cancels it.   *)
(* Confidences are in hundredths.                                          *)
(***************************************************************************)
EXTENDS Integers, Sequences, SequencesExt, FiniteSets

CONSTANTS
  Requests,    \* requests served in a behaviour
  Policies,    \* policies of the organisations that send them
  Artefacts,   \* versions that may be promoted on the disk
  Stage1,      \* decisions of the first stage, any Router of this interface
  Raw2,        \* confidences of the second stage before its cap
  Usual,       \* confidences of the heuristic, within 55 .. 80
  Workers,     \* threads of a pool (max_workers)
  MaxDeploys,  \* bound on promotions under traffic
  MaxPurges,   \* bound on purges
  None, NaN,
  Raised       \* the primary raised instead of deciding

Versions == {"heuristic", "ml_v05", "embed_v0"}

\* router_version may be anything in policy_json.
Policy == [router_version : Versions \cup {"other"}, send_prompt_text : BOOLEAN]

Confidence == Int \cup {NaN}
Decision == [model : {"visible", "hidden"}, confidence : Confidence,
             rule : {"ml:v05", "embed:v0", "heuristic", "fallback:heuristic", ""}]

ASSUME ServingAssumption ==
  /\ Policies \subseteq Policy
  /\ Stage1 \subseteq Decision
  /\ \A d \in Stage1 : d.rule # "embed:v0"
  /\ Raw2 \subseteq 0 .. 100 /\ Usual \subseteq 55 .. 80 /\ Usual # {}
  /\ Workers \in Nat \ {0} /\ MaxDeploys \in Nat /\ MaxPurges \in Nat
  /\ None \notin Requests /\ None \notin Artefacts /\ {None, Raised} \cap Decision = {}
  /\ NaN \notin Int

\* STAGE2_ARBITRATION_THRESHOLD, and the confidence_cap written in a head of stage 2 by
\* the training of v0. A head with a cap of 75 or more would also load.
Threshold == 75
Cap == 74

VARIABLES
  env,      \* SOBRIO_EMBED_STAGE2 is "1"
  disk,     \* version entirely in promoted/, None while it is rotated
  deploys, purges,
  cache,    \* per version, the request that built the instance, or None
  pc,       \* where each request is
  policy,   \* the policy read when the request was authenticated
  text,     \* prompt_text reaches the router
  seen,     \* metadata.json the request's load verified against
  stage2,   \* the load built a second stage
  primary,  \* the load succeeded
  using,    \* whose instance the request decides with
  queue,    \* per instance, decisions submitted and not started
  running,  \* decisions being computed
  future,   \* the result of each decision
  answer,   \* the decision returned and recorded
  probed,   \* history: requests whose text the second stage read
  born,     \* history: number of purges when the load began
  raced     \* history: a purge found a load in progress

loadVars == <<seen, stage2, primary>>
poolVars == <<queue, running, future>>
diskVars == <<env, disk, deploys>>
vars == <<diskVars, purges, cache, pc, policy, text, loadVars, using, poolVars, answer,
          probed, born, raced>>

Loading == {"embed", "metadata", "verify", "booster", "calibrator", "insert"}

TypeOK ==
  /\ env \in BOOLEAN /\ disk \in Artefacts \cup {None}
  /\ deploys \in 0 .. MaxDeploys /\ purges \in 0 .. MaxPurges
  /\ cache \in [Versions -> Requests \cup {None}]
  /\ pc \in [Requests -> Loading \cup {"idle", "submit", "wait", "fallback", "done"}]
  /\ policy \in [Requests -> Policy \cup {None}] /\ text \in [Requests -> BOOLEAN]
  /\ seen \in [Requests -> Artefacts \cup {None}]
  /\ stage2 \in [Requests -> BOOLEAN] /\ primary \in [Requests -> BOOLEAN]
  /\ using \in [Requests -> Requests \cup {None}]
  /\ queue \in [Requests -> Seq(Requests)] /\ running \subseteq Requests
  /\ future \in [Requests -> Decision \cup {Raised, None}]
  /\ answer \in [Requests -> Decision \cup {None}]
  /\ probed \subseteq Requests /\ born \in [Requests -> 0 .. MaxPurges]
  /\ raced \in BOOLEAN

Init ==
  /\ env \in BOOLEAN /\ disk \in Artefacts \cup {None}
  /\ deploys = 0 /\ purges = 0
  /\ cache = [v \in Versions |-> None]
  /\ pc = [r \in Requests |-> "idle"]
  /\ policy = [r \in Requests |-> None] /\ text = [r \in Requests |-> FALSE]
  /\ seen = [r \in Requests |-> None]
  /\ stage2 = [r \in Requests |-> FALSE] /\ primary = [r \in Requests |-> FALSE]
  /\ using = [r \in Requests |-> None]
  /\ queue = [r \in Requests |-> <<>>] /\ running = {}
  /\ future = [r \in Requests |-> None]
  /\ answer = [r \in Requests |-> None]
  /\ probed = {} /\ born = [r \in Requests |-> 0] /\ raced = FALSE

Goto(r, step) == pc' = [pc EXCEPT ![r] = step]

-----------------------------------------------------------------------------
(* recommend: the locks on the text, then router_for_org *)

\* The policy alone opens the text.
MutUnlocked(p) == env /\ p.router_version = "embed_v0"

\* _stage2_unlocked: environment and policy; the request brings the text.
Unlocked(p) == env /\ p.router_version = "embed_v0" /\ p.send_prompt_text

\* An absent or unknown router_version is the heuristic.
VersionOf(p) == IF p.router_version \in Versions THEN p.router_version ELSE "heuristic"

\* Where the load of a version begins: no artefact for the heuristic, and no
\* second stage if the environment is closed.
LoadBegins(v) ==
  CASE v = "heuristic" -> "insert"
    [] v = "embed_v0" /\ env -> "embed"
    [] OTHER -> "metadata"

Arrive(r, p) ==
  /\ pc[r] = "idle"
  /\ policy' = [policy EXCEPT ![r] = p]
  /\ \E sent \in BOOLEAN : text' = [text EXCEPT ![r] = sent /\ Unlocked(p)]
  /\ LET v == VersionOf(p)
     IN IF cache[v] # None
        THEN /\ using' = [using EXCEPT ![r] = cache[v]]
             /\ Goto(r, "submit")
             /\ UNCHANGED <<born, primary>>
        ELSE /\ born' = [born EXCEPT ![r] = purges]
             /\ primary' = [primary EXCEPT ![r] = v = "heuristic"]
             /\ Goto(r, LoadBegins(v))
             /\ UNCHANGED using
  /\ UNCHANGED <<diskVars, purges, cache, seen, stage2, poolVars, answer, probed, raced>>

-----------------------------------------------------------------------------
(* _build_primary, outside any lock *)

loadFrame ==
  <<diskVars, purges, cache, policy, text, using, poolVars, answer, probed, born, raced>>

\* Whatever fails in MLRouter() leaves the SafeRouter without a primary.
LoadFails(r) ==
  /\ Goto(r, "insert")
  /\ UNCHANGED <<loadFrame, loadVars>>

\* EmbedRouter() may fail: the first stage then answers alone.
LoadEmbed(r) ==
  /\ pc[r] = "embed"
  /\ \E loads \in BOOLEAN : stage2' = [stage2 EXCEPT ![r] = loads]
  /\ Goto(r, "metadata")
  /\ UNCHANGED <<loadFrame, seen, primary>>

LoadMetadata(r) ==
  /\ pc[r] = "metadata"
  /\ IF disk = None THEN LoadFails(r)
     ELSE /\ seen' = [seen EXCEPT ![r] = disk]
          /\ Goto(r, "verify")
          /\ UNCHANGED <<loadFrame, stage2, primary>>

\* The hashes of the files read now are those of the metadata read before.
Verify(r) ==
  /\ pc[r] = "verify"
  /\ IF disk # seen[r] THEN LoadFails(r)
     ELSE Goto(r, "booster") /\ UNCHANGED <<loadFrame, loadVars>>

\* model.txt and calibrator.json are read a second time, by their path: from another
\* version if promoted/ was rotated in between, which nothing compares.
LoadBooster(r) ==
  /\ pc[r] = "booster"
  /\ IF disk = None THEN LoadFails(r)
     ELSE Goto(r, "calibrator") /\ UNCHANGED <<loadFrame, loadVars>>

LoadCalibrator(r) ==
  /\ pc[r] = "calibrator"
  /\ IF disk = None THEN LoadFails(r)
     ELSE /\ primary' = [primary EXCEPT ![r] = TRUE]
          /\ Goto(r, "insert")
          /\ UNCHANGED <<loadFrame, seen, stage2>>

\* lru_cache keeps the first instance inserted; the request decides with its own.
Insert(r) ==
  /\ pc[r] = "insert"
  /\ LET v == VersionOf(policy[r])
     IN cache' = [cache EXCEPT ![v] = IF @ = None THEN r ELSE @]
  /\ using' = [using EXCEPT ![r] = r]
  /\ Goto(r, "submit")
  /\ UNCHANGED <<diskVars, purges, policy, text, loadVars, poolVars, answer,
                 probed, born, raced>>

Load(r) ==
  \/ LoadEmbed(r) \/ LoadMetadata(r) \/ Verify(r)
  \/ LoadBooster(r) \/ LoadCalibrator(r) \/ Insert(r)

-----------------------------------------------------------------------------
(* TwoStageRouter: what an instance may decide *)

\* Comparisons with NaN are false.
AtLeast(c, t) == c # NaN /\ c >= t
Above(c, d) == d # NaN /\ c > d

Says(c, rule) == [model |-> "visible", confidence |-> c, rule |-> rule]

\* The head of the second stage without the cap of its metadata.
MutSecond == {Says(c, "embed:v0") : c \in Raw2}

\* EmbedHead.predict: any confidence, capped last.
Second == {Says(IF c < Cap THEN c ELSE Cap, "embed:v0") : c \in Raw2}

\* HeuristicRouter; its own rules are one here.
Heuristic(rule) == {Says(c, rule) : c \in Usual}

\* The second stage is asked when it exists, was given the text, and the first is
\* under the band of automatic switches.
Asks(i, r, d1) == stage2[i] /\ text[r] /\ ~AtLeast(d1.confidence, Threshold)

\* It may raise, or decide with no more confidence: d1 stands.
Arbitration(i, r, d1) ==
  {d1} \cup {d2 \in Second : Asks(i, r, d1) /\ Above(d2.confidence, d1.confidence)}

First(i) == IF VersionOf(policy[i]) = "heuristic" THEN Heuristic("heuristic") ELSE Stage1

-----------------------------------------------------------------------------
(* SafeRouter.decide *)

Busy(i) == {r \in running : using[r] = i}

answerFrame == <<diskVars, purges, cache, policy, text, loadVars, using, born, raced>>

\* Without a primary there is no pool.
Submit(r) ==
  /\ pc[r] = "submit"
  /\ IF primary[using[r]]
     THEN /\ queue' = [queue EXCEPT ![using[r]] = Append(@, r)]
          /\ Goto(r, "wait")
     ELSE Goto(r, "fallback") /\ UNCHANGED queue
  /\ UNCHANGED <<answerFrame, running, future, answer, probed>>

\* A worker of the pool of instance i takes the oldest decision, wanted or not.
Start(i) ==
  /\ queue[i] # <<>> /\ Cardinality(Busy(i)) < Workers
  /\ running' = running \cup {Head(queue[i])}
  /\ queue' = [queue EXCEPT ![i] = Tail(@)]
  /\ UNCHANGED <<answerFrame, pc, future, answer, probed>>

\* A decision ends or raises; nobody reads the future of a request that gave up.
Ends(r) ==
  /\ r \in running
  /\ running' = running \ {r}
  /\ \/ /\ future' = IF pc[r] = "wait" THEN [future EXCEPT ![r] = Raised] ELSE future
        /\ UNCHANGED probed
     \/ \E d1 \in First(using[r]) :
          /\ probed' = IF Asks(using[r], r, d1) THEN probed \cup {r} ELSE probed
          /\ \E d \in Arbitration(using[r], r, d1) :
               future' = IF pc[r] = "wait" THEN [future EXCEPT ![r] = d] ELSE future
  /\ UNCHANGED <<answerFrame, pc, queue, answer>>

Clamp(c) == IF c < 0 THEN 0 ELSE IF c > 100 THEN 100 ELSE c

\* A confidence that is not a number is let through.
MutUsable(d) == d \in Decision /\ d.model = "visible" /\ d.rule # ""

\* _validated.
Usable(d) == d \in Decision /\ d.model = "visible" /\ d.rule # "" /\ d.confidence # NaN

\* The decision is recorded in events_reco with the answer.
Answers(r, d) ==
  /\ answer' = [answer EXCEPT ![r] = d]
  /\ future' = [future EXCEPT ![r] = None]
  /\ Goto(r, "done")

Collect(r) ==
  /\ pc[r] = "wait" /\ future[r] # None
  /\ IF Usable(future[r])
     THEN Answers(r, [future[r] EXCEPT !.confidence = IF @ = NaN THEN @ ELSE Clamp(@)])
     ELSE /\ Goto(r, "fallback")
          /\ future' = [future EXCEPT ![r] = None]
          /\ UNCHANGED answer
  /\ UNCHANGED <<answerFrame, queue, running, probed>>

\* The wait is not bounded.
MutTimeout(r) == FALSE /\ UNCHANGED vars

\* 50 ms after submit, started or not. The decision stays queued or running.
Timeout(r) ==
  /\ pc[r] = "wait" /\ future[r] = None
  /\ Goto(r, "fallback")
  /\ UNCHANGED <<answerFrame, poolVars, answer, probed>>

Fallback(r) ==
  /\ pc[r] = "fallback"
  /\ \E d \in Heuristic("fallback:heuristic") : Answers(r, d)
  /\ UNCHANGED <<answerFrame, queue, running, probed>>

Decide(r) == Submit(r) \/ Collect(r) \/ Timeout(r) \/ Fallback(r)

-----------------------------------------------------------------------------
(* The operator *)

operatorFrame == <<env, pc, policy, text, loadVars, using, poolVars, answer, probed, born>>

\* A promotion or a rollback takes promoted/ away, then puts a version there.
Rotate ==
  /\ disk # None /\ deploys < MaxDeploys
  /\ disk' = None /\ deploys' = deploys + 1
  /\ UNCHANGED <<operatorFrame, purges, cache, raced>>

Install ==
  /\ disk = None
  /\ \E a \in Artefacts : disk' = a
  /\ UNCHANGED <<operatorFrame, deploys, purges, cache, raced>>

\* Only the routers of the first stage are forgotten.
MutPurged == [v \in Versions |-> IF v = "embed_v0" THEN cache[v] ELSE None]

\* cache_clear.
Purged == [v \in Versions |-> None]

\* reinitialiser_routeurs. The requests in progress keep their instance.
Purge ==
  /\ purges < MaxPurges
  /\ purges' = purges + 1
  /\ cache' = Purged
  /\ raced' = (raced \/ \E r \in Requests : pc[r] \in Loading)
  /\ UNCHANGED <<operatorFrame, disk, deploys>>

-----------------------------------------------------------------------------
Next ==
  \/ \E r \in Requests : (\E p \in Policies : Arrive(r, p)) \/ Load(r) \/ Decide(r) \/ Ends(r)
  \/ \E i \in Requests : Start(i)
  \/ Rotate \/ Install \/ Purge

Spec == Init /\ [][Next]_vars

\* Files are read and timers fire; nothing makes a decision end, or a worker start.
Fairness == \A r \in Requests : WF_vars(Load(r)) /\ WF_vars(Decide(r))
FairSpec == Spec /\ Fairness

-----------------------------------------------------------------------------
(* Properties *)

\* Whatever the primary decides, and whenever it does, an answer is one the
\* contract can carry: a visible model, a number within 0 .. 100, a rule
\* (safe.py, _validated; no 500 because of a router).
AnswersAreValid ==
  \A r \in Requests : answer[r] # None =>
    /\ answer[r].model = "visible" /\ answer[r].rule # ""
    /\ answer[r].confidence \in 0 .. 100

\* The second stage never triggers an automatic switch of the extension: an answer
\* in that band comes from the first stage or the heuristic (embed.py, the cap of
\* predict; twostage.py, the arbitration).
SecondNeverSwitches ==
  \A r \in Requests :
    answer[r] # None /\ answer[r].rule = "embed:v0" => answer[r].confidence < Threshold

\* The text of a request is only read if its own organisation asked for it, though
\* organisations share instances and the request may be gone (routes.py, the
\* triple lock).
TextIsConsented ==
  \A r \in probed : env /\ policy[r].send_prompt_text /\ policy[r].router_version = "embed_v0"

\* After a purge that found no load in progress, every memoised router was loaded
\* after it, whatever requests were in the pools.
PurgeTakesEffect ==
  ~raced => \A v \in Versions : cache[v] # None => born[cache[v]] = purges

\* Every request is answered, even when every worker of its pool is taken by a
\* decision that never ends and its own decision never starts (safe.py,
\* "jamais d'indisponibilite").
NeverBlocked == \A r \in Requests : pc[r] # "idle" ~> pc[r] = "done"

\* The next resolution after a purge reloads its artefacts (router_bridge.py,
\* docstring of reinitialiser_routeurs).
FreshAfterPurge == \A v \in Versions : cache[v] # None => born[cache[v]] = purges

=============================================================================
