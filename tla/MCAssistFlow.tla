---------------------------- MODULE MCAssistFlow ----------------------------
(***************************************************************************)
(* Instances of AssistFlow for TLC: a conversation with a thread id, chat, *)
(* and the anonymous home page.                                            *)
(***************************************************************************)
EXTENDS AssistFlow

CONSTANTS chat, home

AllModes == {"guide", "one_click", "auto"}
AutoOnly == {"auto"}
BothThreads == {chat, home}
HomeOnly == {home}
ChatOnly == {chat}
NoThreads == {}

=============================================================================
