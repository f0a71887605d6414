------------------------------ MODULE Sessions -------------------------------
(***************************************************************************)
(* The startup of the extension on every page of claude.ai: settings from  *)
(* the popup, client, remote configuration with its cache, and whether the *)
(* page runs.                                                              *)
(*                                                                         *)
(*   extension/entrypoints/popup/main.ts  the form                         *)
(*   extension/src/settings.ts            the settings in storage.local    *)
(*   extension/src/client.ts              createClient, withTimeout        *)
(*   extension/src/remoteConfig.ts        cache, TTL, versions             *)
(*   extension/src/content-main.ts        bootstrap                        *)
(*   api/app/routes.py                    get_extension_config             *)
(*                                                                         *)
(* One cache and one form serve every tab; each await of a startup lets    *)
(* the others run. Time passes by fractions of the TTL, and not during a   *)
(* startup, whose network wait is 400 ms at most. What a page that runs    *)
(* does is module AssistFlow, whose mode comes from here; its telemetry    *)
(* is module TelemetryQueue: the API of this repository serves no opt-out  *)
(* field, so a page that runs may send.                                    *)
(***************************************************************************)
EXTENDS Integers, Sequences

CONSTANTS
  Orgs, Tabs,
  Configs,     \* configurations an organisation may be given
  Demo,        \* the one MockClient returns
  Local,       \* version in the manifest of the extension
  Ttl,         \* CONFIG_TTL_MS
  MaxClock, MaxSaves, MaxDecrees,  \* bounds
  None, Mock

ASSUME SessionsAssumption == Ttl \in Nat \ {0}

Clients == Orgs \cup {Mock}

VARIABLES
  clock,
  policy,    \* what getConfig returns to each client
  settings,  \* sobrio_settings
  cache,     \* sobrio_config_cache, or None
  page,      \* per tab
  since,     \* history: when each policy was given
  moved,     \* history: when the settings last named another client, or were misread so
  saves, decrees

vars == <<clock, policy, settings, cache, page, since, moved, saves, decrees>>

\* DEFAULTS of settings.ts.
Defaults == [backend |-> "mock", org |-> None]

\* org: URL, organisation and token, None when one is missing.
Settings == [backend : {"mock", "api"}, org : Orgs \cup {None}]

CreateClient(s) == IF s.backend = "api" /\ s.org # None THEN s.org ELSE Mock

\* due: history, the configuration that should apply, or None.
Closed == [at |-> "closed", client |-> Mock, config |-> None, due |-> None]

-----------------------------------------------------------------------------
(* Versions, as sequences of numbers.                                      *)

Part(v, i) == IF i <= Len(v) THEN v[i] ELSE 0

\* The first part that differs decides; a missing part is 0.
CompareVersions(a, b) ==
  LET differ == {i \in DOMAIN a \cup DOMAIN b : Part(a, i) # Part(b, i)}
      first == CHOOSE i \in differ : \A j \in differ : i <= j
  IN  IF differ = {} THEN 0 ELSE IF Part(a, first) < Part(b, first) THEN -1 ELSE 1

IsVersionSupported(local, min) == min = None \/ CompareVersions(local, min) >= 0

-----------------------------------------------------------------------------
(* Organisation and user.                                                  *)

Starting(t) == page[t].at \in {"cache", "ask", "write"}

Tick ==
  /\ clock < MaxClock /\ \A t \in Tabs : ~Starting(t)
  /\ clock' = clock + 1
  /\ UNCHANGED <<policy, settings, cache, page, since, moved, saves, decrees>>

\* An organisation changes its policy_json.
Decree ==
  /\ decrees < MaxDecrees
  /\ \E o \in Orgs : \E c \in Configs \ {policy[o]} :
       policy' = [policy EXCEPT ![o] = c] /\ since' = [since EXCEPT ![o] = clock]
  /\ decrees' = decrees + 1
  /\ UNCHANGED <<clock, settings, cache, page, moved, saves>>

\* The form is submitted. Pages keep the settings they loaded; the cache stays.
Save ==
  /\ saves < MaxSaves
  /\ settings' \in Settings \ {settings}
  /\ moved' = IF CreateClient(settings') = CreateClient(settings) THEN moved ELSE clock
  /\ saves' = saves + 1
  /\ UNCHANGED <<clock, policy, cache, page, since, decrees>>

-----------------------------------------------------------------------------
(* bootstrap                                                               *)

\* Only an explicit enabled = false or an obsolete version stops the page.
Runs(config) ==
  config = None \/ (config.enabled /\ IsVersionSupported(Local, config.min))

\* What the policy and the settings have been for a whole TTL.
Due(client) ==
  IF client = CreateClient(settings) /\ clock - moved >= Ttl /\ clock - since[client] >= Ttl
  THEN policy[client] ELSE None

Started(p, config, silent) ==
  [p EXCEPT !.at = IF Runs(config) THEN "on" ELSE "off",
            !.config = config,
            !.due = IF silent THEN None ELSE Due(p.client)]

\* A page loads; settings that cannot be read are the defaults.
LoadSettings(t) ==
  /\ page[t].at = "closed"
  /\ \E s \in {settings, Defaults} :
       /\ page' = [page EXCEPT ![t] = [Closed EXCEPT !.at = "cache", !.client = CreateClient(s)]]
       /\ moved' = IF CreateClient(s) = CreateClient(settings) THEN moved ELSE clock
  /\ UNCHANGED <<clock, policy, settings, cache, since, saves, decrees>>

\* The last instant of the TTL is still fresh.
MutFresh(entry) == entry # None /\ clock - entry.fetchedAt <= Ttl

Fresh(entry) == entry # None /\ clock - entry.fetchedAt < Ttl

\* readCachedConfig: nothing when the storage rejects.
ReadCache(t) ==
  /\ page[t].at = "cache"
  /\ \E entry \in {cache, None} :
       page' = [page EXCEPT ![t] =
                  IF Fresh(entry) THEN Started(@, entry.config, FALSE)
                  ELSE [@ EXCEPT !.at = "ask",
                                 !.config = IF entry = None THEN None ELSE entry.config]]
  /\ UNCHANGED <<clock, policy, settings, cache, since, moved, saves, decrees>>

\* The server answers in time.
Answer(t) ==
  /\ page[t].at = "ask"
  /\ page' = [page EXCEPT ![t].at = "write", ![t].config = policy[page[t].client]]
  /\ UNCHANGED <<clock, policy, settings, cache, since, moved, saves, decrees>>

\* It does not, or refuses: the last state known, else none.
Silence(t) ==
  /\ page[t].at = "ask"
  /\ page' = [page EXCEPT ![t] = Started(@, @.config, TRUE)]
  /\ UNCHANGED <<clock, policy, settings, cache, since, moved, saves, decrees>>

\* writeCachedConfig, which may be rejected: one entry, whoever the client is.
WriteCache(t) ==
  /\ page[t].at = "write"
  /\ cache' \in {cache, [config |-> page[t].config, fetchedAt |-> clock]}
  /\ page' = [page EXCEPT ![t] = Started(@, @.config, FALSE)]
  /\ UNCHANGED <<clock, policy, settings, since, moved, saves, decrees>>

\* The page is closed or reloaded, in the middle of its startup as well.
Leave(t) ==
  /\ page[t].at # "closed"
  /\ page' = [page EXCEPT ![t] = Closed]
  /\ UNCHANGED <<clock, policy, settings, cache, since, moved, saves, decrees>>

-----------------------------------------------------------------------------
Init ==
  /\ clock = Ttl
  /\ policy \in [Clients -> Configs \cup {Demo}] /\ policy[Mock] = Demo
  /\ settings = Defaults /\ cache = None
  /\ page = [t \in Tabs |-> Closed]
  /\ since = [c \in Clients |-> 0] /\ moved = 0
  /\ saves = 0 /\ decrees = 0

Next ==
  \/ Tick \/ Decree \/ Save
  \/ \E t \in Tabs : LoadSettings(t) \/ ReadCache(t) \/ Answer(t) \/ Silence(t) \/ WriteCache(t) \/ Leave(t)

Spec == Init /\ [][Next]_vars

-----------------------------------------------------------------------------
(* Properties                                                              *)

\* The delay of a kill switch: a page loaded a TTL after the last change of its
\* organisation's policy, and of the client the settings name (or a rejected read of them
\* stood for), applies that policy, unless the network was silent; whatever startups
\* overlapped, and whichever client filled the cache (remoteConfig.ts:68-95).
PolicyReaches ==
  \A t \in Tabs : page[t].due # None =>
    /\ page[t].config = page[t].due
    /\ page[t].at = "on" => page[t].config.enabled

\* "enabled=false cote config d'org -> recharger -> l'extension devient invisible"
\* (RECETTE_5MIN.md:52-53).
StoppedOnReload ==
  [][\A t \in Tabs : page[t].at = "cache" /\ page'[t].at = "on" => policy[page[t].client].enabled]_vars

=============================================================================
