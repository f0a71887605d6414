----------------------------- MODULE Allocation ------------------------------
(***************************************************************************)
(* Largest remainders: how the corpus generator shares rows among          *)
(* categories, then among the templates of each (_allocate of              *)
(* router/data/generate_corpus.py). Quotas are exact where the code has    *)
(* floats: a tie between remainders may be broken otherwise there, which   *)
(* no property looks at.                                                   *)
(***************************************************************************)
EXTENDS Integers, FiniteSets, Functions

\* Quotas rounded down; what is left goes one by one to the largest remainders, the
\* earlier key first (sorted is stable).
Allocate(total, w) ==
  LET W == SumFunction(w)
      base == [k \in DOMAIN w |-> (total * w[k]) \div W]
      rest(k) == (total * w[k]) % W
      before(k) == {j \in DOMAIN w : rest(j) > rest(k) \/ (rest(j) = rest(k) /\ j < k)}
  IN  [k \in DOMAIN w |->
         base[k] + IF Cardinality(before(k)) < total - SumFunction(base) THEN 1 ELSE 0]

\* Sharing rows among templates loses none and invents none, and a template gets its quota
\* rounded down or up, whatever the weights (generate_corpus.py:958-983).
AllocationIsExact(total, weights) ==
  LET shares == Allocate(total, weights)
      W == SumFunction(weights)
  IN  /\ SumFunction(shares) = total
      /\ \A k \in DOMAIN weights :
           shares[k] * W > total * weights[k] - W /\ shares[k] * W < total * weights[k] + W

=============================================================================
