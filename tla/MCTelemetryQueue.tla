-------------------------- MODULE MCTelemetryQueue --------------------------
(***************************************************************************)
(* Instances of TelemetryQueue for TLC.                                    *)
(***************************************************************************)
EXTENDS TelemetryQueue, TLC

CONSTANTS e1, e2, tab1, tab2

TwoEvents == {e1, e2}
TwoTabs == {tab1, tab2}
OneTab == {tab1}

\* Nothing tells two events apart.
Symmetry == Permutations(TwoEvents)

=============================================================================
