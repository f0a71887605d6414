------------------------------- MODULE MCCorpus ------------------------------
(***************************************************************************)
(* Instance of Corpus for TLC: three rows from two templates that share a  *)
(* signature, and two golden sets, each with a signature one of them may   *)
(* draw.                                                                   *)
(***************************************************************************)
EXTENDS Corpus

CONSTANTS a, b, c

Template(label, draws, weight) == [label |-> label, draws |-> draws, weight |-> weight]
CategoriesChecked ==
  << [weight |-> 1, templates |-> << Template("haiku", {a, b}, 2), Template("opus", {b, c}, 1) >>] >>
GoldensChecked == {{a}, {c}}

=============================================================================
