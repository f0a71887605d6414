----------------------------- MODULE MCSessions ------------------------------
(***************************************************************************)
(* Instance of Sessions for TLC: a policy that runs, one that stops the    *)
(* extension, one that requires a version whose parts compare as numbers   *)
(* and not as text.                                                        *)
(***************************************************************************)
EXTENDS Sessions, TLC

CONSTANTS o1, t1, t2

Config(enabled, min) == [enabled |-> enabled, min |-> min]
DemoChecked == Config(TRUE, <<0, 1, 0>>)
ConfigsChecked == {Config(TRUE, <<0, 9, 1>>), Config(FALSE, None), Config(TRUE, <<0, 10>>)}
LocalChecked == <<0, 9, 1, 0>>
\* Nothing tells two tabs apart.
Symmetry == Permutations(Tabs)

=============================================================================
