------------------------------ MODULE Routing --------------------------------
(***************************************************************************)
(* From the text of a prompt to the model proposed, along the three paths  *)
(* the product has: the rules of the mock, the heuristic rules over the    *)
(* full signals (evaluation, fallback), and the same rules on the server,  *)
(* behind the v1 contract, which drops what it does not know.              *)
(*                                                                         *)
(*   extension/src/signals.ts    computePromptSignals, the closed flags    *)
(*   extension/src/client.ts     signalsToV1Features                       *)
(*   extension/src/mockRules.ts  decide                                    *)
(*   router/sobrio_router/adapter.py    features_to_signals                *)
(*   router/sobrio_router/heuristic.py  the seven rules, first match wins  *)
(*                                                                         *)
(* A text is the set of motifs and stems it contains. Confidences are in   *)
(* hundredths. Language and character count decide no rule.                *)
(***************************************************************************)
EXTENDS Integers

CONSTANTS
  Stems,     \* motifs and stems a text may contain
  Lengths,   \* token estimates of a prompt
  Contexts,  \* token estimates of a conversation
  Counts     \* message counts

ASSUME RoutingAssumption == Lengths \subseteq Nat /\ Contexts \subseteq Nat /\ Counts \subseteq Nat

VARIABLES
  draft,        \* what is typed
  prompt,       \* its signals, computed on each input
  conversation  \* memory of the thread

typing == <<draft, prompt, conversation>>

Neutral == [msg_count |-> 0, context_token_est |-> 0, seen_code |-> FALSE,
            seen_math |-> FALSE, seen_reasoning |-> FALSE]

-----------------------------------------------------------------------------
(* The extension: text to signals, signals to the v1 features.             *)

FLAG_STEMS(flag) ==
  CASE flag = "contrat"       -> {"contrat"}
    [] flag = "analyse"       -> {"analys"}
    [] flag = "code"          -> {"code", "script"}
    [] flag = "resume"        -> {"resum", "summar"}
    [] flag = "traduction"    -> {"traduis", "translat"}
    [] flag = "demonstration" -> {"demonstr", "demontr", "prouve", "preuve", "proof"}

V1_FLAGS == {"contrat", "analyse", "code", "resume", "traduction"}
KEYWORD_FLAGS_V0 == V1_FLAGS \cup {"demonstration"}

DetectKeywordFlags(t) == {flag \in KEYWORD_FLAGS_V0 : FLAG_STEMS(flag) \cap t # {}}

\* "symbol" stands for the mathematical motifs, "fence" for those of code.
HasMath(t) == t \cap {"symbol", "demontr", "theoreme", "preuve", "proof"} # {}

ComputePromptSignals(t, n) ==
  [token_est |-> n, has_code |-> "fence" \in t, has_math |-> HasMath(t),
   keyword_flags |-> DetectKeywordFlags(t)]

SignalsToV1Features(s) ==
  [token_est |-> s.prompt.token_est, has_code |-> s.prompt.has_code,
   has_attachment_hint |-> FALSE,
   keyword_flags |-> s.prompt.keyword_flags \cap V1_FLAGS]

-----------------------------------------------------------------------------
(* The server: features to signals, with a neutral conversation.           *)

FeaturesToSignals(f) ==
  [prompt |-> [token_est |-> f.token_est, has_code |-> f.has_code, has_math |-> FALSE,
               keyword_flags |-> f.keyword_flags \cup
                 {flag \in {"analyse"} : f.has_attachment_hint}],
   conversation |-> Neutral]

-----------------------------------------------------------------------------
(* The heuristic rules.                                                     *)

HeavyFlags == {"contrat", "analyse"}
Heavy(s) == s.prompt.keyword_flags \cap HeavyFlags # {}

CodeContext(s) ==
  s.prompt.has_code \/ s.conversation.seen_code \/ "code" \in s.prompt.keyword_flags

ReasoningConfidence(s) == IF s.prompt.token_est < 50 THEN 60 ELSE 75

ReasoningContext(s) ==
  \/ s.prompt.has_math
  \/ s.conversation.seen_math
  \/ s.conversation.seen_reasoning
  \/ "demonstration" \in s.prompt.keyword_flags

\* A contract to summarise is a light transformation.
MutIsLightTransformIntent(s) == s.prompt.keyword_flags \cap {"resume", "traduction"} # {}

IsLightTransformIntent(s) ==
  s.prompt.keyword_flags \cap {"resume", "traduction"} # {} /\ ~Heavy(s)

LightTransform(s) ==
  /\ IsLightTransformIntent(s)
  /\ s.prompt.token_est <= 800
  /\ s.conversation.context_token_est < 4000

\* A long transformation is capped whatever the conversation.
MutLightTransformLong(s) == IsLightTransformIntent(s) /\ s.prompt.token_est > 800

LightTransformLong(s) ==
  /\ IsLightTransformIntent(s)
  /\ s.prompt.token_est > 800
  /\ s.conversation.context_token_est < 4000

\* The bound on messages is strict.
MutShortSimple(s) ==
  /\ s.prompt.token_est < 300 /\ ~Heavy(s)
  /\ s.conversation.msg_count < 6 /\ s.conversation.context_token_est < 2000

ShortSimple(s) ==
  /\ s.prompt.token_est < 300
  /\ ~Heavy(s)
  /\ s.conversation.msg_count <= 6
  /\ s.conversation.context_token_est < 2000

ComplexTask(s) ==
  \/ Heavy(s)
  \/ s.prompt.token_est > 800
  \/ s.conversation.context_token_est >= 4000

Rule(name, matches, model, confidence) ==
  [name |-> name, matches |-> matches, model |-> model, confidence |-> confidence]

Rules(s) == <<
  Rule("code_context", CodeContext(s), "sonnet", 70),
  Rule("reasoning_context", ReasoningContext(s), "sonnet", ReasoningConfidence(s)),
  Rule("light_transform", LightTransform(s), "haiku", 70),
  Rule("light_transform_long", LightTransformLong(s), "sonnet", 65),
  Rule("short_simple", ShortSimple(s), "haiku", 80),
  Rule("complex_task", ComplexTask(s), "opus", 65),
  Rule("default_balanced", TRUE, "sonnet", 55) >>

FirstMatch(rules) ==
  rules[CHOOSE i \in DOMAIN rules :
          rules[i].matches /\ \A j \in 1 .. i - 1 : ~rules[j].matches]

HeuristicDecide(s) == FirstMatch(Rules(s))

-----------------------------------------------------------------------------
(* The mock of the extension, written apart: no rule for light              *)
(* transformations, and a conversation is long above 4000.                 *)

MockCode(s) ==
  s.prompt.has_code \/ s.conversation.seen_code \/ "code" \in s.prompt.keyword_flags

MockReasoning(s) ==
  \/ s.prompt.has_math \/ s.conversation.seen_math \/ s.conversation.seen_reasoning
  \/ "demonstration" \in s.prompt.keyword_flags

MockHeavy(s) == \E flag \in s.prompt.keyword_flags : flag = "contrat" \/ flag = "analyse"

MockShort(s) ==
  /\ s.prompt.token_est < 300 /\ ~MockHeavy(s)
  /\ s.conversation.msg_count <= 6 /\ s.conversation.context_token_est < 2000

MockComplex(s) ==
  MockHeavy(s) \/ s.prompt.token_est > 800 \/ s.conversation.context_token_est > 4000

MockRules(s) == <<
  Rule("code_context", MockCode(s), "sonnet", 70),
  Rule("reasoning_context", MockReasoning(s), "sonnet", IF s.prompt.token_est < 50 THEN 60 ELSE 75),
  Rule("short_simple", MockShort(s), "haiku", 80),
  Rule("complex_task", MockComplex(s), "opus", 65),
  Rule("default_balanced", TRUE, "sonnet", 55) >>

MockDecide(s) == FirstMatch(MockRules(s))

-----------------------------------------------------------------------------
(* A text of the user in a thread, and both growing longer.                 *)

Signals == [prompt |-> prompt, conversation |-> conversation]
OnServer(s) == FeaturesToSignals(SignalsToV1Features(s))

TypingInit ==
  /\ draft \in SUBSET Stems
  /\ prompt \in {ComputePromptSignals(draft, n) : n \in Lengths}
  /\ conversation \in [msg_count : Counts, context_token_est : Contexts,
                       seen_code : BOOLEAN, seen_math : {FALSE}, seen_reasoning : BOOLEAN]

IsNext(m, n, S) == m > n /\ \A k \in S : k > n => k >= m

\* Enter more of the same text.
Lengthen ==
  /\ \E m \in Lengths :
       IsNext(m, prompt.token_est, Lengths) /\ prompt' = ComputePromptSignals(draft, m)
  /\ UNCHANGED <<draft, conversation>>

\* The conversation goes on, in tokens or in messages.
Converse ==
  /\ \/ \E m \in Contexts :
          /\ IsNext(m, conversation.context_token_est, Contexts)
          /\ conversation' = [conversation EXCEPT !.context_token_est = m]
     \/ \E m \in Counts :
          /\ IsNext(m, conversation.msg_count, Counts)
          /\ conversation' = [conversation EXCEPT !.msg_count = m]
  /\ UNCHANGED <<draft, prompt>>

TypingNext == Lengthen \/ Converse
TypingSpec == TypingInit /\ [][TypingNext]_typing

-----------------------------------------------------------------------------
(* Properties                                                              *)

Rank(model) == CASE model = "haiku" -> 0 [] model = "sonnet" -> 1 [] model = "opus" -> 2

Decisions(s) == <<MockDecide(s), HeuristicDecide(s), HeuristicDecide(OnServer(s))>>

\* Whatever path a prompt takes, a contract or an analysis never goes to the lightest
\* model, however short it is and whatever else the text asks for, though the client
\* filters flags and the adapter replaces the conversation; and the router never sends a
\* light transformation to the dearest one while the conversation is under 4000
\* (heuristic.py:26-29, 87-128).
CostFollowsTask ==
  /\ Heavy(Signals) => \A path \in 1 .. 3 : Decisions(Signals)[path].model # "haiku"
  /\ IsLightTransformIntent(Signals) /\ conversation.context_token_est < 4000
     => HeuristicDecide(Signals).model # "opus"

\* The bounds of the seven rules leave no seam: as the same text or the conversation grows
\* longer, no path ever answers with a lighter model (the seams at 800 and 4000 that
\* heuristic.py:98-155 tells of).
LongerNeverLighter ==
  [][TypingNext =>
       \A path \in 1 .. 3 :
         Rank(Decisions(Signals)'[path].model) >= Rank(Decisions(Signals)[path].model)]_typing

\* What is demonstrated with the mock is what the router decides from the same signals:
\* the two sets of rules, in two languages, differ on light transformations and at a
\* context of exactly 4000, and nowhere else (mockRules.ts:24-89, heuristic.py:173-189).
MockAgrees ==
  LET m == MockDecide(Signals)
      h == HeuristicDecide(Signals)
  IN  \/ m = h
      \/ h.name \in {"light_transform", "light_transform_long"}
      \/ conversation.context_token_est = 4000

=============================================================================
