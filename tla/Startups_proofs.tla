--------------------------- MODULE Startups_proofs ---------------------------
(***************************************************************************)
(* What a startup ends up with: a page, the configuration it applies       *)
(* (PolicyReaches of Sessions); the second stage of the router, the head   *)
(* and the encoder it serves (ServedPairMatches of Embed), that encoder    *)
(* having been measured (MeasuredBeforeServed). For any organisations,     *)
(* tabs, policies and TTL, any versions of the code and any number of      *)
(* trainings.                                                              *)
(*                                                                         *)
(* None is inductive. That a page applies what its policy has been for a   *)
(* TTL depends on what the cache holds, which some startup wrote, maybe    *)
(* that of another client. What a construction in peace has read is still  *)
(* what is installed. What a promotion may copy while the code stays the   *)
(* same is of its spec, because trainings follow the versions of the code; *)
(* so an intact head carries the proof of the encoder of its own spec,     *)
(* also when a rollback put the directory there that the copy fills.       *)
(***************************************************************************)
EXTENDS Sessions, Embed, SequenceTheorems, TLAPS

-----------------------------------------------------------------------------
(* Sessions.                                                               *)

Known == Configs \cup {Demo, None}

TypeOK ==
  /\ clock \in Nat
  /\ policy \in [Clients -> Known]
  /\ settings \in Settings
  /\ cache = None \/ cache \in [config : Known, fetchedAt : Nat]
  /\ page \in [Tabs -> [at : {"closed", "cache", "ask", "write", "on", "off"},
                        client : Clients, config : Known, due : Known]]
  /\ since \in [Clients -> Nat]
  /\ moved \in Nat

\* No time is in the future.
Past ==
  /\ moved <= clock
  /\ \A c \in Clients : since[c] <= clock
  /\ cache # None => cache.fetchedAt <= clock

\* A page that starts was loaded with the client of the settings, unless that changed in
\* this very instant: no time passes during a startup.
SameClient ==
  \A t \in Tabs : Starting(t) /\ moved < clock => page[t].client = CreateClient(settings)

\* The answer it is about to write is the policy of its client, with the same exception.
Current ==
  \A t \in Tabs : page[t].at = "write" /\ since[page[t].client] < clock
    => page[t].config = policy[page[t].client]

\* An entry of the cache is the policy of the client of the settings, unless that policy
\* or that client changed since.
CacheIsCurrent ==
  cache # None /\ moved < cache.fetchedAt /\ since[CreateClient(settings)] < cache.fetchedAt
    => cache.config = policy[CreateClient(settings)]

\* A page that starts owes nothing yet.
NothingDue == \A t \in Tabs : Starting(t) => page[t].due = None

IInv == TypeOK /\ Past /\ SameClient /\ Current /\ CacheIsCurrent /\ NothingDue /\ PolicyReaches

-----------------------------------------------------------------------------
\* The client settings name is a client (client.ts:178-188).
LEMMA ClientOfSettings ==
  ASSUME NEW s \in Settings
  PROVE  CreateClient(s) \in Clients
BY DEF Settings, CreateClient, Clients

\* The defaults name the demonstration (settings.ts:30-36).
LEMMA ClientOfDefaults == CreateClient(Defaults) = Mock
BY DEF CreateClient, Defaults

\* A page that starts with the right configuration, or owes nothing, satisfies the
\* property (content-main.ts:325-333).
LEMMA StartedPage ==
  ASSUME NEW p, NEW config, NEW silent \in BOOLEAN,
         p \in [at : {"closed", "cache", "ask", "write", "on", "off"},
                client : Clients, config : Known, due : Known],
         config \in Known,
         TypeOK,
         ~silent /\ Due(p.client) # None => config = policy[p.client]
  PROVE  LET q == Started(p, config, silent)
         IN  /\ q \in [at : {"on", "off"}, client : Clients, config : Known, due : Known]
             /\ q.due # None => q.config = q.due /\ (q.at = "on" => q.config.enabled)
<1>1. Due(p.client) \in Known
  BY DEF TypeOK, Due, Known
<1>2. Due(p.client) # None => Due(p.client) = policy[p.client]
  BY DEF Due
<1> DEFINE q == Started(p, config, silent)
<1>3. /\ q.at = IF Runs(config) THEN "on" ELSE "off"
      /\ q.client = p.client /\ q.config = config
      /\ q.due = IF silent THEN None ELSE Due(p.client)
  BY DEF Started
<1>4. q \in [at : {"on", "off"}, client : Clients, config : Known, due : Known]
  BY <1>1 DEF Started, Known
<1>5. q.due # None => q.config = q.due /\ (q.at = "on" => q.config.enabled)
  BY <1>2, <1>3 DEF Runs
<1> QED BY <1>4, <1>5

\* The first state: no page, no cache.
LEMMA InitInv == Init => IInv
<1> SUFFICES ASSUME Init PROVE IInv
  OBVIOUS
<1> USE DEF Init
<1>1. TypeOK
  BY SessionsAssumption DEF TypeOK, Known, Defaults, Settings, Closed, Clients
<1>2. Past
  BY SessionsAssumption DEF Past
<1>3. SameClient /\ Current /\ NothingDue /\ PolicyReaches
  BY DEF SameClient, Current, NothingDue, PolicyReaches, Starting, Closed
<1>4. CacheIsCurrent
  BY DEF CacheIsCurrent
<1> QED BY <1>1, <1>2, <1>3, <1>4 DEF IInv

\* No page starts while time passes.
LEMMA TickInv == IInv /\ Tick => IInv'
<1> SUFFICES ASSUME IInv, Tick PROVE IInv'
  OBVIOUS
<1> USE DEF IInv, Tick
<1>1. TypeOK'
  BY DEF TypeOK
<1>2. Past'
  BY DEF Past, TypeOK
<1>3. (SameClient /\ Current /\ NothingDue)'
  BY DEF SameClient, Current, NothingDue, Starting
<1>4. CacheIsCurrent'
  BY DEF CacheIsCurrent
<1>5. PolicyReaches'
  BY DEF PolicyReaches
<1> QED BY <1>1, <1>2, <1>3, <1>4, <1>5

\* What was read of a policy before it changes is not owed any more.
LEMMA DecreeInv == IInv /\ Decree => IInv'
<1> SUFFICES ASSUME IInv, Decree PROVE IInv'
  OBVIOUS
<1>1. PICK o \in Orgs : \E c \in Configs \ {policy[o]} :
        policy' = [policy EXCEPT ![o] = c] /\ since' = [since EXCEPT ![o] = clock]
  BY DEF Decree
<1>2. PICK c \in Configs : policy' = [policy EXCEPT ![o] = c]
  BY <1>1
<1>3. /\ o \in Clients /\ since' = [since EXCEPT ![o] = clock]
      /\ UNCHANGED <<clock, settings, cache, page, moved>>
  BY <1>1 DEF Decree, Clients
<1> USE <1>2, <1>3 DEF IInv
<1>4. TypeOK'
  BY DEF TypeOK, Known
<1>5. Past'
  BY DEF Past, TypeOK
<1>6. (SameClient /\ NothingDue /\ PolicyReaches)'
  BY DEF SameClient, NothingDue, PolicyReaches, Starting
<1>7. Current'
  BY DEF Current, TypeOK
<1>8. CacheIsCurrent'
  <2>1. CASE CreateClient(settings) = o
    BY <2>1 DEF CacheIsCurrent, Past, TypeOK
  <2>2. CASE CreateClient(settings) # o
    BY <2>2, ClientOfSettings DEF CacheIsCurrent, TypeOK
  <2> QED BY <2>1, <2>2
<1> QED BY <1>4, <1>5, <1>6, <1>7, <1>8

\* A form saved with the same client changes nothing; with another one, the clock says so.
LEMMA SaveInv == IInv /\ Save => IInv'
<1> SUFFICES ASSUME IInv, Save PROVE IInv'
  OBVIOUS
<1>1. /\ settings' \in Settings
      /\ moved' = IF CreateClient(settings') = CreateClient(settings) THEN moved ELSE clock
      /\ UNCHANGED <<clock, policy, cache, page, since>>
  BY DEF Save
<1> USE <1>1 DEF IInv
<1>2. TypeOK'
  BY DEF TypeOK
<1>3. Past'
  BY DEF Past, TypeOK
<1>4. (Current /\ NothingDue /\ PolicyReaches)'
  BY DEF Current, NothingDue, PolicyReaches, Starting
<1>5. (SameClient /\ CacheIsCurrent)'
  <2>1. CASE CreateClient(settings') = CreateClient(settings)
    BY <2>1 DEF SameClient, CacheIsCurrent, Starting
  <2>2. CASE CreateClient(settings') # CreateClient(settings)
    BY <2>2 DEF SameClient, CacheIsCurrent, Past, TypeOK
  <2> QED BY <2>1, <2>2
<1> QED BY <1>2, <1>3, <1>4, <1>5

\* A step of one page that leaves clock, policies and settings alone keeps the invariant,
\* if the page does, and the cache.
LEMMA PageInv ==
  ASSUME IInv, NEW t \in Tabs,
         NEW q \in [at : {"closed", "cache", "ask", "write", "on", "off"},
                   client : Clients, config : Known, due : Known],
         page' = [page EXCEPT ![t] = q],
         UNCHANGED <<clock, policy, settings, since>>,
         moved' \in {moved, clock},
         cache' = None \/ cache' \in [config : Known, fetchedAt : Nat],
         cache' # None => cache'.fetchedAt <= clock,
         CacheIsCurrent',
         q.at \in {"cache", "ask", "write"} =>
           /\ moved' < clock => q.client = CreateClient(settings)
           /\ q.due = None,
         q.at = "write" /\ since[q.client] < clock => q.config = policy[q.client],
         q.due # None => q.config = q.due /\ (q.at = "on" => q.config.enabled)
  PROVE  IInv'
<1>1. \A u \in Tabs : page'[u] = IF u = t THEN q ELSE page[u]
  BY DEF IInv, TypeOK
<1>2. moved <= moved' /\ moved' <= clock /\ moved' \in Nat
  BY DEF IInv, TypeOK, Past
<1>3. TypeOK'
  BY <1>2 DEF IInv, TypeOK
<1>4. Past'
  BY <1>2 DEF IInv, Past
<1>5. (SameClient /\ NothingDue)'
  BY <1>1, <1>2 DEF IInv, SameClient, NothingDue, Starting, TypeOK
<1>6. Current'
  BY <1>1 DEF IInv, Current
<1>7. PolicyReaches'
  BY <1>1 DEF IInv, PolicyReaches
<1> QED BY <1>3, <1>4, <1>5, <1>6, <1>7 DEF IInv

\* The page takes the client of the settings, or the clock says that it was misread.
LEMMA LoadInv ==
  ASSUME IInv, NEW t \in Tabs, LoadSettings(t)
  PROVE  IInv'
<1>1. PICK s \in {settings, Defaults} :
        /\ page' = [page EXCEPT ![t] = [Closed EXCEPT !.at = "cache", !.client = CreateClient(s)]]
        /\ moved' = IF CreateClient(s) = CreateClient(settings) THEN moved ELSE clock
  BY DEF LoadSettings
<1>2. UNCHANGED <<clock, policy, settings, cache, since>>
  BY DEF LoadSettings
<1>3. CreateClient(s) \in Clients
  BY ClientOfSettings, ClientOfDefaults DEF IInv, TypeOK, Clients
<1> DEFINE q == [at |-> "cache", client |-> CreateClient(s), config |-> None, due |-> None]
<1>4. page' = [page EXCEPT ![t] = page'[t]] /\ page'[t] = q
  BY <1>1 DEF Closed, IInv, TypeOK
<1>5. q \in [at : {"closed", "cache", "ask", "write", "on", "off"},
            client : Clients, config : Known, due : Known]
  BY <1>3 DEF Known
<1>6. moved' < clock => q.client = CreateClient(settings)
  BY <1>1 DEF IInv, TypeOK
<1>7. CacheIsCurrent'
  BY <1>1, <1>2 DEF IInv, CacheIsCurrent, Past, TypeOK
<1>8. (cache' = None \/ cache' \in [config : Known, fetchedAt : Nat])
      /\ (cache' # None => cache'.fetchedAt <= clock)
  BY <1>2 DEF IInv, TypeOK, Past
<1>9. q.at = "cache" /\ q.due = None
  OBVIOUS
<1> HIDE DEF q
<1> QED BY <1>1, <1>2, <1>4, <1>5, <1>6, <1>7, <1>8, <1>9, PageInv

\* What a fresh cache holds is what is owed: it was fetched after the last change.
LEMMA ReadCacheInv ==
  ASSUME IInv, NEW t \in Tabs, ReadCache(t)
  PROVE  IInv'
<1>1. PICK entry \in {cache, None} :
        page' = [page EXCEPT ![t] =
                  IF Fresh(entry) THEN Started(@, entry.config, FALSE)
                  ELSE [@ EXCEPT !.at = "ask",
                                 !.config = IF entry = None THEN None ELSE entry.config]]
  BY DEF ReadCache
<1>2. UNCHANGED <<clock, policy, settings, cache, since, moved>> /\ page[t].at = "cache"
  BY DEF ReadCache
<1>3. CacheIsCurrent' /\ (cache' = None \/ cache' \in [config : Known, fetchedAt : Nat])
      /\ (cache' # None => cache'.fetchedAt <= clock)
  BY <1>2 DEF IInv, TypeOK, Past, CacheIsCurrent
<1>4. page[t] \in [at : {"closed", "cache", "ask", "write", "on", "off"},
                  client : Clients, config : Known, due : Known]
  BY DEF IInv, TypeOK
<1>5. CASE Fresh(entry)
  <2> DEFINE q == Started(page[t], entry.config, FALSE)
  <2>1. /\ entry = cache /\ cache # None /\ cache.config \in Known
        /\ clock - cache.fetchedAt < Ttl
    BY <1>5 DEF Fresh, IInv, TypeOK
  <2>2. Due(page[t].client) # None => entry.config = policy[page[t].client]
    <3> SUFFICES ASSUME Due(page[t].client) # None PROVE entry.config = policy[page[t].client]
      OBVIOUS
    <3>1. /\ page[t].client = CreateClient(settings)
          /\ clock - moved >= Ttl /\ clock - since[page[t].client] >= Ttl
      BY DEF Due
    <3>2. moved < cache.fetchedAt /\ since[CreateClient(settings)] < cache.fetchedAt
      BY <1>4, <2>1, <3>1, SessionsAssumption DEF IInv, TypeOK
    <3> QED BY <2>1, <3>1, <3>2 DEF IInv, CacheIsCurrent
  <2>3. /\ q \in [at : {"on", "off"}, client : Clients, config : Known, due : Known]
        /\ q.due # None => q.config = q.due /\ (q.at = "on" => q.config.enabled)
    BY <1>4, <2>1, <2>2, StartedPage DEF IInv
  <2>4. page' = [page EXCEPT ![t] = q]
    BY <1>1, <1>5
  <2> HIDE DEF q
  <2> QED BY <1>2, <1>3, <2>3, <2>4, PageInv
<1>6. CASE ~Fresh(entry)
  <2> DEFINE q == [page[t] EXCEPT !.at = "ask",
                                  !.config = IF entry = None THEN None ELSE entry.config]
  <2>1. (IF entry = None THEN None ELSE entry.config) \in Known
    BY DEF IInv, TypeOK, Known
  <2>2. /\ q \in [at : {"closed", "cache", "ask", "write", "on", "off"},
                 client : Clients, config : Known, due : Known]
        /\ q.at = "ask" /\ q.client = page[t].client /\ q.due = page[t].due
    BY <1>4, <2>1
  <2>3. q.due = None /\ (moved < clock => q.client = CreateClient(settings))
    BY <1>2, <2>2 DEF IInv, NothingDue, SameClient, Starting
  <2>4. page' = [page EXCEPT ![t] = q]
    BY <1>1, <1>6
  <2> HIDE DEF q
  <2> QED BY <1>2, <1>3, <2>2, <2>3, <2>4, PageInv
<1> QED BY <1>5, <1>6

\* The answer is the policy of this instant.
LEMMA AnswerInv ==
  ASSUME IInv, NEW t \in Tabs, Answer(t)
  PROVE  IInv'
<1> DEFINE q == [page[t] EXCEPT !.at = "write", !.config = policy[page[t].client]]
<1>1. /\ page[t].at = "ask" /\ UNCHANGED <<clock, policy, settings, cache, since, moved>>
      /\ page' = [page EXCEPT ![t] = q]
  BY DEF Answer, IInv, TypeOK
<1>2. page[t] \in [at : {"closed", "cache", "ask", "write", "on", "off"},
                  client : Clients, config : Known, due : Known]
      /\ policy[page[t].client] \in Known
  BY DEF IInv, TypeOK
<1>3. CacheIsCurrent' /\ (cache' = None \/ cache' \in [config : Known, fetchedAt : Nat])
      /\ (cache' # None => cache'.fetchedAt <= clock)
  BY <1>1 DEF IInv, TypeOK, Past, CacheIsCurrent
<1>4. /\ q \in [at : {"closed", "cache", "ask", "write", "on", "off"},
               client : Clients, config : Known, due : Known]
      /\ q.at = "write" /\ q.client = page[t].client /\ q.due = page[t].due
      /\ q.config = policy[q.client]
  BY <1>2
<1>5. q.due = None /\ (moved < clock => q.client = CreateClient(settings))
  BY <1>1, <1>4 DEF IInv, NothingDue, SameClient, Starting
<1> HIDE DEF q
<1> QED BY <1>1, <1>3, <1>4, <1>5, PageInv

\* A page whose network was silent is owed nothing.
LEMMA SilenceInv ==
  ASSUME IInv, NEW t \in Tabs, Silence(t)
  PROVE  IInv'
<1> DEFINE q == Started(page[t], page[t].config, TRUE)
<1>1. /\ UNCHANGED <<clock, policy, settings, cache, since, moved>>
      /\ page' = [page EXCEPT ![t] = q]
  BY DEF Silence
<1>2. page[t] \in [at : {"closed", "cache", "ask", "write", "on", "off"},
                  client : Clients, config : Known, due : Known]
  BY DEF IInv, TypeOK
<1>3. CacheIsCurrent' /\ (cache' = None \/ cache' \in [config : Known, fetchedAt : Nat])
      /\ (cache' # None => cache'.fetchedAt <= clock)
  BY <1>1 DEF IInv, TypeOK, Past, CacheIsCurrent
<1>4. /\ q \in [at : {"on", "off"}, client : Clients, config : Known, due : Known]
      /\ q.due # None => q.config = q.due /\ (q.at = "on" => q.config.enabled)
  BY <1>2, StartedPage DEF IInv
<1> HIDE DEF q
<1> QED BY <1>1, <1>3, <1>4, PageInv

\* What is written is the policy of the client of the settings, or was read of one that
\* changed in this very instant.
LEMMA WriteCacheInv ==
  ASSUME IInv, NEW t \in Tabs, WriteCache(t)
  PROVE  IInv'
<1> DEFINE q == Started(page[t], page[t].config, FALSE)
           new == [config |-> page[t].config, fetchedAt |-> clock]
<1>1. /\ page[t].at = "write" /\ UNCHANGED <<clock, policy, settings, since, moved>>
      /\ page' = [page EXCEPT ![t] = q] /\ cache' \in {cache, new}
  BY DEF WriteCache
<1>2. page[t] \in [at : {"closed", "cache", "ask", "write", "on", "off"},
                  client : Clients, config : Known, due : Known]
  BY DEF IInv, TypeOK
<1>3. since[page[t].client] < clock => page[t].config = policy[page[t].client]
  BY <1>1 DEF IInv, Current
<1>4. moved < clock => page[t].client = CreateClient(settings)
  BY <1>1 DEF IInv, SameClient, Starting
<1>5. /\ CacheIsCurrent'
      /\ cache' = None \/ cache' \in [config : Known, fetchedAt : Nat]
      /\ cache' # None => cache'.fetchedAt <= clock
  <2>1. CASE cache' = cache
    BY <1>1, <2>1 DEF IInv, TypeOK, Past, CacheIsCurrent
  <2>2. CASE cache' = new
    <3>1. new \in [config : Known, fetchedAt : Nat] /\ new.fetchedAt <= clock
      BY <1>2 DEF IInv, TypeOK
    <3>2. CacheIsCurrent'
      BY <1>1, <1>3, <1>4, <2>2 DEF CacheIsCurrent
    <3> QED BY <2>2, <3>1, <3>2
  <2> QED BY <1>1, <2>1, <2>2
<1>6. Due(page[t].client) # None => page[t].config = policy[page[t].client]
  BY <1>2, <1>3, SessionsAssumption DEF Due, IInv, TypeOK
<1>7. /\ q \in [at : {"on", "off"}, client : Clients, config : Known, due : Known]
      /\ q.due # None => q.config = q.due /\ (q.at = "on" => q.config.enabled)
  BY <1>2, <1>6, StartedPage DEF IInv
<1> HIDE DEF q, new
<1> QED BY <1>1, <1>5, <1>7, PageInv

\* A page that is left owes nothing.
LEMMA LeaveInv ==
  ASSUME IInv, NEW t \in Tabs, Leave(t)
  PROVE  IInv'
<1>1. /\ UNCHANGED <<clock, policy, settings, cache, since, moved>>
      /\ page' = [page EXCEPT ![t] = Closed]
  BY DEF Leave
<1>2. CacheIsCurrent' /\ (cache' = None \/ cache' \in [config : Known, fetchedAt : Nat])
      /\ (cache' # None => cache'.fetchedAt <= clock)
  BY <1>1 DEF IInv, TypeOK, Past, CacheIsCurrent
<1>3. /\ Closed \in [at : {"closed"}, client : Clients, config : Known, due : Known]
      /\ Closed.due = None
  BY DEF Closed, Clients, Known
<1> QED BY <1>1, <1>2, <1>3, PageInv

\* Every step keeps the invariant.
LEMMA Step == IInv /\ [Next]_vars => IInv'
<1> SUFFICES ASSUME IInv, [Next]_vars PROVE IInv'
  OBVIOUS
<1>1. CASE Tick
  BY <1>1, TickInv
<1>2. CASE Decree
  BY <1>2, DecreeInv
<1>3. CASE Save
  BY <1>3, SaveInv
<1>4. ASSUME NEW t \in Tabs, LoadSettings(t) PROVE IInv'
  BY <1>4, LoadInv
<1>5. ASSUME NEW t \in Tabs, ReadCache(t) PROVE IInv'
  BY <1>5, ReadCacheInv
<1>6. ASSUME NEW t \in Tabs, Answer(t) PROVE IInv'
  BY <1>6, AnswerInv
<1>7. ASSUME NEW t \in Tabs, Silence(t) PROVE IInv'
  BY <1>7, SilenceInv
<1>8. ASSUME NEW t \in Tabs, WriteCache(t) PROVE IInv'
  BY <1>8, WriteCacheInv
<1>9. ASSUME NEW t \in Tabs, Leave(t) PROVE IInv'
  BY <1>9, LeaveInv
<1>10. CASE UNCHANGED vars
  BY <1>10 DEF vars, IInv, TypeOK, Past, SameClient, Current, CacheIsCurrent, NothingDue,
               PolicyReaches, Starting
<1> QED BY <1>1, <1>2, <1>3, <1>4, <1>5, <1>6, <1>7, <1>8, <1>9, <1>10 DEF Next

\* A TTL after the last change of its organisation's policy and of the client the settings
\* name, a page that loads applies that policy (remoteConfig.ts:68-95).
THEOREM PolicyIsReached == Spec => []PolicyReaches
<1>1. IInv => PolicyReaches
  BY DEF IInv
<1> QED BY InitInv, Step, <1>1, PTL DEF Spec

-----------------------------------------------------------------------------
(* Embed.                                                                  *)

\* Only what these proofs need of the shape.
Shape ==
  loading = Nothing
  \/ loading \in [step : {"checks", "files", "session"}, spec : {loading.spec},
                  head : {loading.head}, calibrator : {loading.calibrator},
                  metadata : {loading.metadata}, calm : BOOLEAN]

\* What a construction in peace has checked and read is still there.
LoadingInv ==
  loading # Nothing /\ loading.calm =>
    /\ disk = EncoderOf[loading.spec]
    /\ loading.step \in {"files", "session"} =>
         /\ EmbedHeadLoads(promoted, loading.spec)
         /\ loading.metadata = promoted.metadata
    /\ loading.step = "session" =>
         loading.head = promoted.head /\ loading.calibrator = promoted.calibrator

PairInv == Shape /\ LoadingInv

-----------------------------------------------------------------------------
\* A step that moves nothing a construction reads keeps its invariant.
LEMMA Elsewhere ==
  ASSUME PairInv, UNCHANGED <<disk, promoted, loading>>
  PROVE  PairInv'
BY DEF PairInv, Shape, LoadingInv, EmbedHeadLoads, Intact, Complete, HeadFiles

\* A step that disturbs it leaves nothing to keep.
LEMMA DisturbedPair ==
  ASSUME PairInv, loading' = Disturbed(loading)
  PROVE  PairInv'
<1>1. Shape'
  BY DEF PairInv, Shape, Disturbed
<1>2. LoadingInv'
  BY DEF PairInv, Shape, LoadingInv, Disturbed
<1> QED BY <1>1, <1>2 DEF PairInv

\* A construction begins with the encoder of its spec.
LEMMA StartLoadPair == PairInv /\ StartLoad => PairInv'
<1> SUFFICES ASSUME PairInv, StartLoad PROVE PairInv'
  OBVIOUS
<1>1. /\ loading' = [step |-> "checks", spec |-> spec, head |-> Nothing, calibrator |-> Nothing,
                     metadata |-> Nothing, calm |-> TRUE]
      /\ disk = EncoderOf[spec] /\ UNCHANGED <<disk, promoted>>
  BY DEF StartLoad, EncoderLoads
<1> QED BY <1>1 DEF PairInv, Shape, LoadingInv

\* The head it checks is intact and of its spec.
LEMMA CheckHeadPair == PairInv /\ CheckHead => PairInv'
<1> SUFFICES ASSUME PairInv, CheckHead PROVE PairInv'
  OBVIOUS
<1>1. /\ loading # Nothing /\ EmbedHeadLoads(promoted, loading.spec)
      /\ loading' = [loading EXCEPT !.step = "files", !.metadata = promoted.metadata]
      /\ UNCHANGED <<disk, promoted>>
  BY DEF CheckHead
<1>2. EmbedHeadLoads(promoted, loading.spec)'
  BY <1>1 DEF PairInv, Shape, EmbedHeadLoads, Intact, Complete, HeadFiles
<1> QED BY <1>1, <1>2 DEF PairInv, Shape, LoadingInv

\* The files it reads are those of the head it checked.
LEMMA ReadHeadPair == PairInv /\ ReadHead => PairInv'
<1> SUFFICES ASSUME PairInv, ReadHead PROVE PairInv'
  OBVIOUS
<1>1. /\ loading # Nothing /\ loading.step = "files"
      /\ loading' = [loading EXCEPT !.step = "session", !.head = promoted.head,
                                    !.calibrator = promoted.calibrator]
      /\ UNCHANGED <<disk, promoted>>
  BY DEF ReadHead
<1>2. loading.calm => EmbedHeadLoads(promoted, loading.spec)'
  BY <1>1 DEF PairInv, Shape, LoadingInv, EmbedHeadLoads, Intact, Complete, HeadFiles
<1> QED BY <1>1, <1>2 DEF PairInv, Shape, LoadingInv

\* The first state constructs nothing.
LEMMA PairInit == EmbedInit => PairInv
BY DEF EmbedInit, PairInv, Shape, LoadingInv

\* Every step keeps the invariant of the construction.
LEMMA PairStep == PairInv /\ [EmbedNext]_embedVars => PairInv'
<1> SUFFICES ASSUME PairInv, [EmbedNext]_embedVars PROVE PairInv'
  OBVIOUS
<1>1. CASE Deploy \/ Training \/ Bench \/ StartPromotion \/ StopPromotion
  BY <1>1, Elsewhere DEF Deploy, Training, StartTraining, WriteHead, WriteCalibrator,
     WriteMetadata, StopTraining, Bench, StartBench, EndBench, StopBench, StartPromotion,
     StopPromotion
<1>2. CASE Fetch \/ Delete \/ Rotate \/ CopyFile \/ Rollback
  BY <1>2, DisturbedPair DEF Fetch, Delete, Rotate, CopyFile, Rollback
<1>3. CASE StartLoad
  BY <1>3, StartLoadPair
<1>4. CASE CheckHead
  BY <1>4, CheckHeadPair
<1>5. CASE ReadHead
  BY <1>5, ReadHeadPair
<1>6. CASE OpenSession \/ LoadFails
  BY <1>6 DEF OpenSession, LoadFails, PairInv, Shape, LoadingInv
<1>7. CASE Purge \/ UNCHANGED embedVars
  BY <1>7, Elsewhere DEF Purge, embedVars
<1> QED BY <1>1, <1>2, <1>3, <1>4, <1>5, <1>6, <1>7
        DEF EmbedNext, Encoder, Training, Bench, Promoting, Loading

\* A router constructed while no file it reads changed serves one training's head, trained
\* for its spec and for the encoder it runs (embed.py:182-200, 333-348).
THEOREM PairMatches == EmbedSpec => []ServedPairMatches
<1>1. PairInv => ServedPairMatches
  BY DEF PairInv, LoadingInv, ServedPairMatches, Opening, EmbedHeadLoads, Intact
<1> QED BY PairInit, PairStep, <1>1, PTL DEF EmbedSpec

-----------------------------------------------------------------------------
(* The measure.                                                            *)

\* What a report says was hashed is what the measure had loaded, where that one stayed.
Honest(r) == r.measured # Nothing => r.measured.encoder = r.encoder

HeadShape(dir) ==
  dir \in [exists : {dir.exists}, head : {dir.head}, calibrator : {dir.calibrator},
           metadata : {dir.metadata}, proof : {dir.proof}]

\* A head that may be loaded carries the proof of the encoder of its spec.
Carries(dir) ==
  /\ HeadShape(dir)
  /\ Intact(dir) /\ dir.proof # Nothing =>
       Honest(dir.proof) /\ dir.proof.encoder = EncoderOf[dir.metadata.spec]

ReportInv ==
  /\ bench # Nothing /\ bench.measured # Nothing => bench.measured.encoder = disk
  /\ report \notin {Nothing, Torn} => Honest(report)

\* Trainings follow the versions of the code, and the candidate follows the trainings.
TrainingInv ==
  /\ spec \in Nat
  /\ HeadShape(candidate)
  /\ training # Nothing =>
       /\ training \in [id : {training.id}, next : HeadFiles]
       /\ training.id.spec \in Nat /\ training.id.spec <= spec
  /\ Readable(candidate.metadata) =>
       /\ candidate.metadata.spec \in Nat /\ candidate.metadata.spec <= spec
       /\ training # Nothing => candidate.metadata.spec <= training.id.spec

\* As long as the code is the one a promotion was started with, all it may copy is of its
\* spec, and the proof it took is of the encoder of its spec.
PromotionInv ==
  promotion # Nothing =>
    /\ promotion \in [step : {"checks", "copy"}, spec : Nat, proof : {promotion.proof},
                      left : Seq(HeadFiles)]
    /\ promotion.spec <= spec
    /\ promotion.spec = spec =>
         /\ \A file \in HeadFiles : Readable(candidate[file]) => candidate[file].spec = spec
         /\ training # Nothing => training.id.spec = spec
         /\ promotion.step = "copy" =>
              Honest(promotion.proof) /\ promotion.proof.encoder = EncoderOf[spec]

MeasureInv ==
  /\ ReportInv /\ TrainingInv /\ PromotionInv
  /\ Carries(promoted) /\ Carries(previous)

\* The first state measured nothing and promoted nothing.
LEMMA MeasureInit == EmbedInit => MeasureInv
<1> SUFFICES ASSUME EmbedInit PROVE MeasureInv
  OBVIOUS
<1>1. HeadShape(NoHead) /\ ~Intact(NoHead) /\ ~Readable(NoHead.metadata)
  BY DEF NoHead, HeadShape, Intact, Complete, HeadFiles, Readable
<1>2. Carries(promoted) /\ Carries(previous) /\ TrainingInv
  BY <1>1 DEF EmbedInit, Carries, TrainingInv
<1> QED BY <1>2 DEF EmbedInit, MeasureInv, ReportInv, PromotionInv

\* What is said of a directory depends on it alone.
LEMMA SameDirectories ==
  ASSUME Carries(promoted), Carries(previous), UNCHANGED <<promoted, previous>>
  PROVE  Carries(promoted)' /\ Carries(previous)'
BY DEF Carries, HeadShape, Honest, Intact, Complete, HeadFiles

\* A step that changes none of it keeps it.
LEMMA MeasureElsewhere ==
  ASSUME MeasureInv,
         UNCHANGED <<spec, disk, training, candidate, promoted, previous, promotion, bench, report>>
  PROVE  MeasureInv'
<1>1. ReportInv' /\ TrainingInv' /\ PromotionInv'
  BY DEF MeasureInv, ReportInv, TrainingInv, PromotionInv, Honest, HeadShape, Readable
<1> QED BY <1>1, SameDirectories DEF MeasureInv

\* With a new version, a running promotion is of a former one.
LEMMA DeployMeasure == MeasureInv /\ Deploy => MeasureInv'
<1> SUFFICES ASSUME MeasureInv, Deploy PROVE MeasureInv'
  OBVIOUS
<1>1. /\ spec' = spec + 1
      /\ UNCHANGED <<disk, training, candidate, promoted, previous, promotion, bench, report>>
  BY DEF Deploy
<1>2. ReportInv'
  BY <1>1 DEF MeasureInv, ReportInv, Honest
<1>3. TrainingInv'
  BY <1>1 DEF MeasureInv, TrainingInv, HeadShape, Readable
<1>4. PromotionInv'
  <2> SUFFICES ASSUME promotion # Nothing PROVE PromotionInv'
    BY <1>1 DEF PromotionInv
  <2>1. promotion.spec \in Nat /\ promotion.spec <= spec /\ spec \in Nat
    BY DEF MeasureInv, PromotionInv, TrainingInv
  <2>2. promotion.spec <= spec + 1 /\ promotion.spec # spec + 1
    BY <2>1
  <2> QED BY <1>1, <2>2 DEF MeasureInv, PromotionInv
<1> QED BY <1>1, <1>2, <1>3, <1>4, SameDirectories DEF MeasureInv

\* A change of encoder is remembered by the measure, a report keeps what it said.
LEMMA ReportMeasure ==
  ASSUME MeasureInv, ReportInv',
         UNCHANGED <<spec, training, candidate, promoted, previous, promotion>>
  PROVE  MeasureInv'
<1>1. TrainingInv' /\ PromotionInv'
  BY DEF MeasureInv, TrainingInv, PromotionInv, Honest, HeadShape, Readable
<1> QED BY <1>1, SameDirectories DEF MeasureInv

LEMMA EncoderMeasure == MeasureInv /\ (Fetch \/ Delete) => MeasureInv'
<1> SUFFICES ASSUME MeasureInv, Fetch \/ Delete PROVE MeasureInv'
  OBVIOUS
<1>1. /\ bench' = Unmeasured(bench)
      /\ UNCHANGED <<spec, training, candidate, promoted, previous, promotion, report>>
  BY DEF Fetch, Delete
<1>2. ReportInv'
  BY <1>1 DEF MeasureInv, ReportInv, Honest, Unmeasured
<1> QED BY <1>1, <1>2, ReportMeasure

\* The report hashes the encoder at the end of the measures.
LEMMA BenchMeasure == MeasureInv /\ Bench => MeasureInv'
<1> SUFFICES ASSUME MeasureInv, Bench PROVE MeasureInv'
  OBVIOUS
<1>1. UNCHANGED <<spec, disk, training, candidate, promoted, previous, promotion>>
  BY DEF Bench, StartBench, EndBench, StopBench
<1>2. CASE StartBench
  BY <1>1, <1>2, ReportMeasure DEF StartBench, MeasureInv, ReportInv, Honest
<1>3. CASE EndBench
  <2>1. /\ bench # Nothing /\ bench' = Nothing
        /\ report' = Torn \/ report' = [encoder |-> disk, measured |-> bench.measured]
    BY <1>3 DEF EndBench
  <2>2. ReportInv'
    BY <2>1 DEF MeasureInv, ReportInv, Honest
  <2> QED BY <1>1, <2>2, ReportMeasure
<1>4. CASE StopBench
  BY <1>1, <1>4, ReportMeasure DEF StopBench, MeasureInv, ReportInv, Honest
<1> QED BY <1>2, <1>3, <1>4 DEF Bench

\* A file of the candidate that the training writes is of the training's spec.
LEMMA WriteMeasure ==
  ASSUME MeasureInv, training # Nothing, NEW file \in HeadFiles,
         \/ candidate' = candidate \/ candidate' = [candidate EXCEPT !.exists = TRUE, ![file] = Torn]
         \/ /\ \/ candidate' = [candidate EXCEPT ![file] = training.id]
               \/ candidate' = [candidate EXCEPT !.exists = TRUE, ![file] = training.id]
            /\ file # "metadata" \/ training' = Nothing,
         training' = Nothing
         \/ \E next \in HeadFiles : training' = [training EXCEPT !.next = next],
         UNCHANGED <<spec, disk, promoted, previous, promotion, bench, report>>
  PROVE  MeasureInv'
<1>1. /\ training \in [id : {training.id}, next : HeadFiles]
      /\ training.id.spec \in Nat /\ training.id.spec <= spec /\ spec \in Nat
      /\ HeadShape(candidate)
  BY DEF MeasureInv, TrainingInv
<1>2. training' # Nothing => training' \in [id : {training'.id}, next : HeadFiles]
                             /\ training'.id = training.id
  BY <1>1
<1>3. /\ HeadShape(candidate')
      /\ \A other \in HeadFiles :
           \/ candidate'[other] = candidate[other]
           \/ candidate'[other] = Torn
           \/ candidate'[other] = training.id /\ (other # "metadata" \/ training' = Nothing)
  <2>1. CASE candidate' = candidate
    BY <1>1, <2>1 DEF HeadShape
  <2>2. CASE file = "head"
    BY <1>1, <2>1, <2>2 DEF HeadShape, HeadFiles
  <2>3. CASE file = "calibrator"
    BY <1>1, <2>1, <2>3 DEF HeadShape, HeadFiles
  <2>4. CASE file = "metadata"
    BY <1>1, <2>1, <2>4 DEF HeadShape, HeadFiles
  <2> QED BY <2>2, <2>3, <2>4 DEF HeadFiles
<1>4. \/ candidate'.metadata = candidate.metadata \/ candidate'.metadata = Torn
      \/ candidate'.metadata = training.id /\ training' = Nothing
  BY <1>3 DEF HeadFiles
<1>5. TrainingInv'
  BY <1>1, <1>2, <1>3, <1>4 DEF MeasureInv, TrainingInv, Readable
<1>6. PromotionInv'
  <2> SUFFICES ASSUME promotion # Nothing PROVE PromotionInv'
    BY DEF PromotionInv
  <2>1. ASSUME promotion.spec = spec, NEW other \in HeadFiles, Readable(candidate'[other])
        PROVE  candidate'[other].spec = spec
    BY <1>3, <2>1 DEF MeasureInv, PromotionInv, Readable
  <2>2. promotion.spec = spec /\ training' # Nothing => training'.id.spec = spec
    BY <1>2 DEF MeasureInv, PromotionInv
  <2> QED BY <2>1, <2>2 DEF MeasureInv, PromotionInv, Honest, Readable
<1>7. ReportInv'
  BY DEF MeasureInv, ReportInv, Honest
<1> QED BY <1>5, <1>6, <1>7, SameDirectories DEF MeasureInv

\* A training begins with the deployed spec, and writes with it.
LEMMA TrainingMeasure == MeasureInv /\ Training => MeasureInv'
<1> SUFFICES ASSUME MeasureInv, Training PROVE MeasureInv'
  OBVIOUS
<1>1. CASE StartTraining
  <2>1. /\ training' = [id |-> [n |-> heads + 1, spec |-> spec], next |-> "head"]
        /\ UNCHANGED <<spec, disk, candidate, promoted, previous, promotion, bench, report>>
    BY <1>1 DEF StartTraining
  <2>2. /\ training' \in [id : {training'.id}, next : HeadFiles] /\ training'.id.spec = spec
    BY <2>1 DEF HeadFiles
  <2>3. TrainingInv'
    BY <2>1, <2>2 DEF MeasureInv, TrainingInv, HeadShape, Readable
  <2>4. PromotionInv'
    BY <2>1, <2>2 DEF MeasureInv, PromotionInv, Honest, Readable
  <2>5. ReportInv'
    BY <2>1 DEF MeasureInv, ReportInv, Honest
  <2> QED BY <2>1, <2>3, <2>4, <2>5, SameDirectories DEF MeasureInv
<1>2. CASE WriteHead
  <2>1. "head" \in HeadFiles /\ "calibrator" \in HeadFiles
    BY DEF HeadFiles
  <2> QED BY <1>2, <2>1, WriteMeasure DEF WriteHead
<1>3. CASE WriteCalibrator
  <2>1. "calibrator" \in HeadFiles /\ "metadata" \in HeadFiles
    BY DEF HeadFiles
  <2> QED BY <1>3, <2>1, WriteMeasure DEF WriteCalibrator
<1>4. CASE WriteMetadata
  <2>1. "metadata" \in HeadFiles
    BY DEF HeadFiles
  <2>2. /\ candidate' = [candidate EXCEPT !["metadata"] = training.id]
        /\ training # Nothing /\ training' = Nothing
        /\ UNCHANGED <<spec, disk, promoted, previous, promotion, bench, report>>
    BY <1>4 DEF WriteMetadata
  <2> QED BY <2>1, <2>2, WriteMeasure
<1>5. CASE StopTraining
  <2>1. training # Nothing /\ training.next \in HeadFiles
    BY <1>5 DEF StopTraining, MeasureInv, TrainingInv
  <2> QED BY <1>5, <2>1, WriteMeasure DEF StopTraining
<1> QED BY <1>1, <1>2, <1>3, <1>4, <1>5 DEF Training

\* A promotion begins on a candidate of the deployed spec: so is the running training.
LEMMA StartMeasure == MeasureInv /\ StartPromotion => MeasureInv'
<1> SUFFICES ASSUME MeasureInv, StartPromotion PROVE MeasureInv'
  OBVIOUS
<1>1. /\ Intact(candidate) /\ candidate.metadata.spec = spec
      /\ promotion' = [step |-> "checks", spec |-> spec, proof |-> Nothing, left |-> <<>>]
      /\ UNCHANGED <<spec, disk, training, candidate, promoted, previous, bench, report>>
  BY DEF StartPromotion, EmbedHeadLoads
<1>2. /\ Readable(candidate.metadata)
      /\ \A file \in HeadFiles : candidate[file] = candidate.metadata
  BY <1>1 DEF Intact, Complete, HeadFiles, Readable
<1>3. training # Nothing => training.id.spec = spec
  BY <1>1, <1>2 DEF MeasureInv, TrainingInv
<1>4. /\ promotion' \in [step : {"checks", "copy"}, spec : Nat, proof : {promotion'.proof},
                         left : Seq(HeadFiles)]
      /\ promotion'.spec = spec /\ promotion'.step = "checks" /\ spec \in Nat
  BY <1>1 DEF MeasureInv, TrainingInv
<1>5. PromotionInv'
  BY <1>1, <1>2, <1>3, <1>4 DEF PromotionInv, Readable
<1>6. ReportInv' /\ TrainingInv'
  BY <1>1 DEF MeasureInv, ReportInv, TrainingInv, Honest, HeadShape, Readable
<1> QED BY <1>1, <1>5, <1>6, SameDirectories DEF MeasureInv

\* The rotation keeps the report that allowed it: as long as the code is the promotion's,
\* the manifest names the encoder of its spec.
LEMMA RotateMeasure == MeasureInv /\ Rotate => MeasureInv'
<1> SUFFICES ASSUME MeasureInv, Rotate PROVE MeasureInv'
  OBVIOUS
<1>1. /\ promotion # Nothing /\ Proven
      /\ \E order \in Seq(HeadFiles) :
           promotion' = [promotion EXCEPT !.step = "copy", !.left = order, !.proof = report]
      /\ previous' \in {previous, promoted} /\ promoted' = EmptyHead
      /\ UNCHANGED <<spec, disk, training, candidate, bench, report>>
  BY EmbedAssumption DEF Rotate
<1>2. /\ promotion' \in [step : {"copy"}, spec : {promotion.spec}, proof : {report},
                         left : Seq(HeadFiles)]
      /\ promotion'.proof = report /\ promotion'.spec = promotion.spec
      /\ promotion.spec \in Nat /\ promotion.spec <= spec
  BY <1>1 DEF MeasureInv, PromotionInv
<1>3. Honest(report) /\ report.encoder = EncoderOf[spec]
  BY <1>1 DEF Proven, MeasureInv, ReportInv
<1>4. PromotionInv'
  <2>1. promotion' \in [step : {"checks", "copy"}, spec : Nat, proof : {promotion'.proof},
                        left : Seq(HeadFiles)]
    BY <1>2
  <2>2. promotion.spec = spec =>
          /\ \A file \in HeadFiles : Readable(candidate[file]) => candidate[file].spec = spec
          /\ training # Nothing => training.id.spec = spec
    BY <1>1 DEF MeasureInv, PromotionInv
  <2>3. Honest(promotion'.proof) /\ promotion'.proof.encoder = EncoderOf[spec]
    BY <1>2, <1>3
  <2> QED BY <1>1, <1>2, <2>1, <2>2, <2>3 DEF PromotionInv, Honest, Readable
<1>5. ~Intact(EmptyHead) /\ HeadShape(EmptyHead)
  BY DEF EmptyHead, NoHead, Intact, Complete, HeadFiles, HeadShape
<1>6. Carries(promoted)' /\ Carries(previous)'
  BY <1>1, <1>5 DEF MeasureInv, Carries, HeadShape, Honest, Intact, Complete, HeadFiles
<1>7. ReportInv' /\ TrainingInv'
  BY <1>1 DEF MeasureInv, ReportInv, TrainingInv, Honest, HeadShape, Readable
<1> QED BY <1>4, <1>6, <1>7 DEF MeasureInv

\* A head that is intact after a file was copied is the training that wrote that file, of
\* the promotion's spec if the code still is; whatever directory a rollback put there.
LEMMA CopyMeasure == MeasureInv /\ CopyFile => MeasureInv'
<1> SUFFICES ASSUME MeasureInv, CopyFile PROVE MeasureInv'
  OBVIOUS
<1> DEFINE proof == IF spec = promotion.spec THEN promotion.proof ELSE Nothing
<1>0. promotion # Nothing /\ promotion.left # <<>> /\ promotion.left \in Seq(HeadFiles)
  BY DEF CopyFile, MeasureInv, PromotionInv
<1>l. Head(promotion.left) \in HeadFiles /\ Tail(promotion.left) \in Seq(HeadFiles)
  BY <1>0, HeadTailProperties
<1>1. PICK file \in HeadFiles :
        /\ promoted' = [promoted EXCEPT !.exists = TRUE, ![file] = candidate[file],
                                        !.proof = proof]
        /\ promotion' = Nothing \/ promotion' = [promotion EXCEPT !.left = Tail(@)]
  BY <1>l DEF CopyFile
<1>2. /\ promotion # Nothing /\ promotion.step = "copy"
      /\ promotion \in [step : {"checks", "copy"}, spec : Nat, proof : {promotion.proof},
                        left : Seq(HeadFiles)]
      /\ UNCHANGED <<spec, disk, training, candidate, previous, bench, report>>
  BY DEF CopyFile, MeasureInv, PromotionInv
<1>3. proof # Nothing =>
        /\ promotion.spec = spec /\ Honest(proof) /\ proof.encoder = EncoderOf[spec]
        /\ Readable(candidate[file]) => candidate[file].spec = spec
  BY <1>2 DEF MeasureInv, PromotionInv
<1> HIDE DEF proof
<1>4. HeadShape(promoted') /\ promoted'.proof = proof /\ promoted'[file] = candidate[file]
  <2>1. HeadShape(promoted)
    BY DEF MeasureInv, Carries
  <2>2. CASE file = "head"
    BY <1>1, <2>1, <2>2 DEF HeadShape
  <2>3. CASE file = "calibrator"
    BY <1>1, <2>1, <2>3 DEF HeadShape
  <2>4. CASE file = "metadata"
    BY <1>1, <2>1, <2>4 DEF HeadShape
  <2> QED BY <1>2, <2>2, <2>3, <2>4 DEF HeadFiles
<1>5. Carries(promoted')
  <2> SUFFICES ASSUME Intact(promoted'), proof # Nothing
               PROVE  proof.encoder = EncoderOf[promoted'.metadata.spec]
    BY <1>3, <1>4 DEF Carries
  <2>1. promoted'[file] = promoted'.metadata /\ Readable(promoted'.metadata)
    BY <1>2 DEF Intact, Complete, HeadFiles, Readable
  <2> QED BY <1>3, <1>4, <2>1
<1>6. Carries(promoted)' /\ Carries(previous)'
  BY <1>2, <1>5 DEF MeasureInv, Carries, HeadShape, Honest, Intact, Complete, HeadFiles
<1>7. PromotionInv'
  <2>1. CASE promotion' = Nothing
    BY <2>1 DEF PromotionInv
  <2>2. CASE promotion' = [promotion EXCEPT !.left = Tail(@)]
    <3>1. /\ promotion' \in [step : {"copy"}, spec : {promotion.spec}, proof : {promotion.proof},
                             left : Seq(HeadFiles)]
          /\ promotion'.proof = promotion.proof /\ promotion'.spec = promotion.spec
          /\ promotion'.step = "copy" /\ promotion.spec \in Nat
      BY <1>l, <1>2, <2>2
    <3>2. promotion' \in [step : {"checks", "copy"}, spec : Nat, proof : {promotion'.proof},
                          left : Seq(HeadFiles)]
      BY <3>1
    <3> QED BY <1>2, <3>1, <3>2 DEF MeasureInv, PromotionInv, Honest, Readable
  <2> QED BY <1>1, <2>1, <2>2
<1>8. ReportInv' /\ TrainingInv'
  BY <1>2 DEF MeasureInv, ReportInv, TrainingInv, Honest, HeadShape, Readable
<1> QED BY <1>6, <1>7, <1>8 DEF MeasureInv

\* The exchange keeps each head with its proof.
LEMMA RollbackMeasure == MeasureInv /\ Rollback => MeasureInv'
<1> SUFFICES ASSUME MeasureInv, Rollback PROVE MeasureInv'
  OBVIOUS
<1>1. /\ promoted' = previous /\ previous' = promoted
      /\ UNCHANGED <<spec, disk, training, candidate, promotion, bench, report>>
  BY DEF Rollback
<1>2. Carries(promoted)' /\ Carries(previous)'
  BY <1>1 DEF MeasureInv, Carries, HeadShape, Honest, Intact, Complete, HeadFiles
<1>3. ReportInv' /\ TrainingInv' /\ PromotionInv'
  BY <1>1 DEF MeasureInv, ReportInv, TrainingInv, PromotionInv, Honest, HeadShape, Readable
<1> QED BY <1>2, <1>3 DEF MeasureInv

\* A promotion refused or stopped leaves the rest as it is.
LEMMA StopMeasure == MeasureInv /\ StopPromotion => MeasureInv'
<1> SUFFICES ASSUME MeasureInv, StopPromotion PROVE MeasureInv'
  OBVIOUS
<1>1. /\ promotion' = Nothing
      /\ UNCHANGED <<spec, disk, training, candidate, promoted, previous, bench, report>>
  BY DEF StopPromotion
<1>2. ReportInv' /\ TrainingInv' /\ PromotionInv'
  BY <1>1 DEF MeasureInv, ReportInv, TrainingInv, PromotionInv, Honest, HeadShape, Readable
<1> QED BY <1>1, <1>2, SameDirectories DEF MeasureInv

\* Every step keeps the invariant of the measure.
LEMMA MeasureStep == MeasureInv /\ [EmbedNext]_embedVars => MeasureInv'
<1> SUFFICES ASSUME MeasureInv, [EmbedNext]_embedVars PROVE MeasureInv'
  OBVIOUS
<1>1. CASE Loading \/ UNCHANGED embedVars
  BY <1>1, MeasureElsewhere DEF Loading, StartLoad, CheckHead, ReadHead, OpenSession,
     LoadFails, Purge, embedVars
<1> QED BY <1>1, DeployMeasure, EncoderMeasure, TrainingMeasure, BenchMeasure, StartMeasure,
           RotateMeasure, CopyMeasure, StopMeasure, RollbackMeasure
        DEF EmbedNext, Encoder, Promoting

\* What a router constructed in peace runs was measured within budget, whatever overlapped
\* the promotion of its head, unless the code changed during it or the encoder during the
\* measure (promote_embed.py:10-16).
THEOREM MeasuredFirst == EmbedSpec => []MeasuredBeforeServed
<1>1. PairInv /\ MeasureInv => MeasuredBeforeServed
  BY DEF PairInv, LoadingInv, MeasureInv, Carries, Honest, EmbedHeadLoads, Opening,
         MeasuredBeforeServed
<1> QED BY PairInit, PairStep, MeasureInit, MeasureStep, <1>1, PTL DEF EmbedSpec

=============================================================================
