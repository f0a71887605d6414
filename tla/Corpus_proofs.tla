---------------------------- MODULE Corpus_proofs ----------------------------
(***************************************************************************)
(* No promoted model was judged on what it learned, under the conditions   *)
(* NoLeak states, for any signatures, templates and golden sets. The       *)
(* strengthening follows the rows: from the generator to the corpus file,  *)
(* to what the candidate learned, to what was promoted, always beside the  *)
(* pin they were drawn under. And the report of a corpus beside its own    *)
(* annex finds no contradiction that noise does not explain.               *)
(* The rows are shared exactly among templates, for any weights; the       *)
(* report of an evaluation is refused or coherent, for any answers; and    *)
(* the confidences are calibrated by the isotonic regression, for any      *)
(* validation rows: what the stack of blocks keeps while it is pooled is   *)
(* under CutInto, InPlace, Above and Below.                                *)
(***************************************************************************)
EXTENDS Corpus, Evaluation, Calibration, Sums_proofs, SequenceTheorems, TLAPS

Fields == {"rows", "slot", "attempts", "against", "pinned", "make"}
RowsOf(s) == {s[i] : i \in DOMAIN s}

\* The generator's record has its fields, and a sequence of rows while it draws.
GenShape == DOMAIN gen = Fields /\ (phase = "draw" => gen.rows \in Seq(RowsOf(gen.rows)))

\* No row drawn is in the golden set the run was checked against, which is the pinned one.
DrawnClean == gen.against = gen.pinned /\ SigsOf(gen.rows) \cap gen.against = {}
CorpusClean == corpus \notin {None, Torn} => SigsOf(corpus.rows) \cap corpus.pinned = {}
CandidateClean == candidate # None => candidate.learned \cap candidate.pinned = {}
PromotedClean == promoted # None => promoted.learned \cap promoted.pinned = {}

LeakInv == GenShape /\ DrawnClean /\ CorpusClean /\ CandidateClean /\ PromotedClean

\* Appending a row keeps a sequence of rows, and adds the signature of that row.
LEMMA AppendRow ==
  ASSUME NEW s, s \in Seq(RowsOf(s)), NEW r
  PROVE  /\ Append(s, r) \in Seq(RowsOf(Append(s, r)))
         /\ SigsOf(Append(s, r)) = SigsOf(s) \cup {r.sig}
<1> DEFINE T == RowsOf(s) \cup {r}
<1>1. s \in Seq(T) /\ r \in T
  <2>1. Len(s) \in Nat /\ s \in [1 .. Len(s) -> RowsOf(s)]
    OBVIOUS
  <2>2. s \in [1 .. Len(s) -> T]
    BY <2>1
  <2> QED
    BY <2>1, <2>2
<1>2. /\ Append(s, r) \in Seq(T)
      /\ Len(Append(s, r)) = Len(s) + 1
      /\ \A i \in 1 .. Len(s) : Append(s, r)[i] = s[i]
      /\ Append(s, r)[Len(s) + 1] = r
  BY <1>1, AppendProperties
<1>3. DOMAIN Append(s, r) = 1 .. Len(s) + 1 /\ DOMAIN s = 1 .. Len(s) /\ Len(s) \in Nat
  BY <1>1, <1>2
<1>4. RowsOf(Append(s, r)) = T
  BY <1>2, <1>3 DEF RowsOf
<1>5. SigsOf(Append(s, r)) = SigsOf(s) \cup {r.sig}
  BY <1>2, <1>3 DEF SigsOf
<1> QED
  BY <1>2, <1>4, <1>5

\* No run has begun.
LEMMA NothingDrawn ==
  /\ DOMAIN NotGenerating = Fields
  /\ NotGenerating.rows = <<>> /\ NotGenerating.against = {} /\ NotGenerating.pinned = {}
  /\ SigsOf(<<>>) = {} /\ <<>> \in Seq(RowsOf(<<>>))
BY DEF NotGenerating, Fields, SigsOf, RowsOf

LEMMA LeakInit == Init => LeakInv
BY NothingDrawn DEF Init, LeakInv, GenShape, DrawnClean, CorpusClean, CandidateClean, PromotedClean

\* The generator draws no row of the golden set, and writes what it drew.
LEMMA GeneratorStep == LeakInv /\ Generator => LeakInv'
<1> SUFFICES ASSUME LeakInv, Generator PROVE LeakInv'
  OBVIOUS
<1> USE DEF LeakInv, GenShape, DrawnClean, CorpusClean, CandidateClean, PromotedClean
<1>1. CASE StartCorpus
  <2>1. PICK make \in BOOLEAN :
          gen' = [NotGenerating EXCEPT !.against = golden, !.pinned = pin, !.make = make]
    BY <1>1 DEF StartCorpus
  <2>2. /\ DOMAIN gen' = Fields
        /\ gen'.rows = <<>> /\ gen'.against = golden /\ gen'.pinned = pin /\ golden = pin
    BY <1>1, <2>1, NothingDrawn DEF StartCorpus, GoldenIsFrozen, Fields
  <2> QED
    BY <1>1, <2>2, NothingDrawn DEF StartCorpus, files
<1>2. CASE Reject
  <2>1. /\ DOMAIN gen' = Fields
        /\ gen'.rows = gen.rows /\ gen'.against = gen.against /\ gen'.pinned = gen.pinned
    BY <1>2 DEF Reject, Fields
  <2> QED
    BY <1>2, <2>1 DEF Reject, files
<1>3. CASE Accept
  <2>1. PICK row \in BuildRow(Slot), label \in Labels :
          /\ row.sig \notin gen.against
          /\ gen' = [gen EXCEPT !.rows = Append(@, [row EXCEPT !.label = label]),
                                !.slot = @ + 1, !.attempts = 0]
    BY <1>3 DEF Accept
  <2> DEFINE r == [row EXCEPT !.label = label]
  <2>0. r.sig = row.sig
    BY DEF BuildRow
  <2>2. /\ DOMAIN gen' = Fields
        /\ gen'.rows = Append(gen.rows, r)
        /\ gen'.against = gen.against /\ gen'.pinned = gen.pinned
    BY <2>1 DEF Fields
  <2>3. gen.rows \in Seq(RowsOf(gen.rows))
    BY <1>3 DEF Accept
  <2> HIDE DEF r
  <2>4. /\ gen'.rows \in Seq(RowsOf(gen'.rows))
        /\ SigsOf(gen'.rows) = SigsOf(gen.rows) \cup {r.sig}
    BY <2>2, <2>3, AppendRow
  <2>5. SigsOf(gen'.rows) \cap gen'.against = {}
    BY <2>0, <2>1, <2>2, <2>4
  <2> QED
    BY <1>3, <2>2, <2>4, <2>5 DEF Accept, files
<1>4. CASE Shuffle
  <2>1. PICK f \in Bijection(DOMAIN gen.rows, DOMAIN gen.rows) :
          gen' = [gen EXCEPT !.rows = [i \in DOMAIN @ |-> @[f[i]]]]
    BY <1>4 DEF Shuffle
  <2>2. /\ DOMAIN gen' = Fields
        /\ gen'.rows = [i \in DOMAIN gen.rows |-> gen.rows[f[i]]]
        /\ gen'.against = gen.against /\ gen'.pinned = gen.pinned
    BY <2>1 DEF Fields
  <2>3. \A i \in DOMAIN gen.rows : f[i] \in DOMAIN gen.rows
    BY <2>1 DEF Bijection, Injection
  <2>4. SigsOf(gen'.rows) \subseteq SigsOf(gen.rows)
    BY <2>2, <2>3 DEF SigsOf
  <2> QED
    BY <1>4, <2>2, <2>4 DEF Shuffle, files
<1>5. CASE WriteCorpus
  <2>1. SigsOf(Written(gen.rows)) = SigsOf(gen.rows)
    BY DEF SigsOf, Written
  <2> QED
    BY <1>5, <2>1 DEF WriteCorpus
<1>6. CASE WriteMetadata
  BY <1>6 DEF WriteMetadata
<1>7. CASE WriteBruit
  BY <1>7, NothingDrawn DEF WriteBruit
<1> QED
  BY <1>1, <1>2, <1>3, <1>4, <1>5, <1>6, <1>7 DEF Generator

\* The other commands carry rows and pin along together, or touch neither.
LEMMA LeakStep == LeakInv /\ [Next]_vars => LeakInv'
<1> SUFFICES ASSUME LeakInv, [Next]_vars PROVE LeakInv'
  OBVIOUS
<1> USE DEF LeakInv, GenShape, DrawnClean, CorpusClean, CandidateClean, PromotedClean
<1>1. CASE Generator
  BY <1>1, GeneratorStep
<1>2. CASE GenerateGolden \/ Freeze
  BY <1>2 DEF GenerateGolden, Freeze, files
<1>3. CASE Quality
  BY <1>3 DEF Quality
<1>4. CASE CopyReference
  BY <1>4 DEF CopyReference
<1>5. CASE Interrupt
  <2>1. corpus' = corpus \/ corpus' = Torn
    BY <1>5 DEF Interrupt, Cut
  <2> QED
    BY <1>5, <2>1, NothingDrawn DEF Interrupt
<1>6. CASE Train
  BY <1>6 DEF Train, Pinned, files
<1>7. CASE Promote
  BY <1>7 DEF Promote, Evaluation, files
<1>8. CASE UNCHANGED vars
  BY <1>8 DEF vars, files
<1> QED
  BY <1>1, <1>2, <1>3, <1>4, <1>5, <1>6, <1>7, <1>8 DEF Next

\* A promoted model was judged on nothing it learned, if the golden set was frozen again
\* neither after its corpus was drawn nor with other rows than the harness read.
THEOREM NothingLeaks == Spec => []NoLeak
<1>1. LeakInv => NoLeak
  BY DEF LeakInv, PromotedClean, NoLeak
<1> QED
  BY <1>1, LeakInit, LeakStep, PTL DEF Spec

-----------------------------------------------------------------------------
(* Contradictions. *)

\* Rows of one signature have one true label.
Consistent(rows) == \A i, j \in DOMAIN rows : rows[i].sig = rows[j].sig => rows[i].truth = rows[j].truth

\* The annex names a row of each contradiction of the corpus it was drawn with.
Explains(noisy, rows) ==
  \A i, j \in DOMAIN rows : rows[i].sig = rows[j].sig /\ rows[i].label # rows[j].label
                              => {i, j} \cap noisy # {}

NoiseInv ==
  /\ Consistent(gen.rows)
  /\ bruit \notin {None, Torn} => Explains(bruit.ids, bruit.of)
  /\ ContradictionsAreNoise

LEMMA NoiseInit == Init => NoiseInv
BY NothingDrawn DEF Init, NoiseInv, Consistent, ContradictionsAreNoise

\* Only noise makes the rows of a consistent draw contradict each other.
LEMMA NoiseExplains ==
  ASSUME NEW rows, Consistent(rows)
  PROVE  Explains(Noisy(rows), Written(rows))
BY DEF Consistent, Explains, Noisy, Written

\* A row that contradicts none of those accepted leaves them consistent.
LEMMA AcceptConsistent ==
  ASSUME LeakInv, NoiseInv, Accept
  PROVE  Consistent(gen.rows)'
<1>1. PICK row \in BuildRow(Slot), label \in Labels :
        /\ ~Contradicts(row.sig)
        /\ gen' = [gen EXCEPT !.rows = Append(@, [row EXCEPT !.label = label]),
                              !.slot = @ + 1, !.attempts = 0]
  BY DEF Accept
<1>2. PICK s, r : s = gen.rows /\ r = [row EXCEPT !.label = label]
  OBVIOUS
<1>3. gen.rows \in Seq(RowsOf(gen.rows)) /\ DOMAIN gen = Fields
  BY DEF LeakInv, GenShape, Accept
<1>4. gen'.rows = Append(s, r) /\ s \in Seq(RowsOf(s))
  BY <1>1, <1>2, <1>3 DEF Fields
<1>5. /\ r.sig = row.sig /\ r.truth = row.truth /\ row.truth = Slot.label
  BY <1>2 DEF BuildRow
<1>6. \A i \in DOMAIN s : s[i].sig = r.sig => s[i].truth = r.truth
  BY <1>1, <1>2, <1>5 DEF Contradicts
<1>7. /\ DOMAIN s = 1 .. Len(s) /\ Len(s) \in Nat /\ DOMAIN Append(s, r) = 1 .. Len(s) + 1
      /\ \A i \in 1 .. Len(s) : Append(s, r)[i] = s[i]
      /\ Append(s, r)[Len(s) + 1] = r
  BY <1>4
<1>8. Consistent(s)
  BY <1>2 DEF NoiseInv
<1>9. Consistent(Append(s, r))
  BY <1>6, <1>7, <1>8 DEF Consistent
<1> QED
  BY <1>4, <1>9 DEF Consistent

LEMMA NoiseStep == LeakInv /\ NoiseInv /\ [Next]_vars => NoiseInv'
<1> SUFFICES ASSUME LeakInv, NoiseInv, [Next]_vars PROVE NoiseInv'
  OBVIOUS
<1> USE DEF NoiseInv, ContradictionsAreNoise
<1>g. DOMAIN gen = Fields
  BY DEF LeakInv, GenShape
<1>0. Consistent(<<>>)
  BY DEF Consistent
<1>1. CASE StartCorpus
  <2>1. gen'.rows = <<>>
    BY <1>1, NothingDrawn DEF StartCorpus, Fields
  <2> QED
    BY <1>0, <1>1, <2>1 DEF StartCorpus, files, Consistent
<1>2. CASE Reject
  <2>1. gen'.rows = gen.rows
    BY <1>2, <1>g DEF Reject, Fields
  <2> QED
    BY <1>2, <2>1 DEF Reject, files, Consistent
<1>3. CASE Accept
  BY <1>3, AcceptConsistent DEF Accept, files
<1>4. CASE Shuffle
  <2>1. PICK f \in Bijection(DOMAIN gen.rows, DOMAIN gen.rows) :
          gen' = [gen EXCEPT !.rows = [i \in DOMAIN @ |-> @[f[i]]]]
    BY <1>4 DEF Shuffle
  <2>2. gen'.rows = [i \in DOMAIN gen.rows |-> gen.rows[f[i]]]
    BY <1>g, <2>1 DEF Fields
  <2>3. \A i \in DOMAIN gen.rows : f[i] \in DOMAIN gen.rows
    BY <2>1 DEF Bijection, Injection
  <2>4. Consistent(gen.rows)'
    BY <2>2, <2>3 DEF Consistent
  <2> QED
    BY <1>4, <2>4 DEF Shuffle, files
<1>5. CASE WriteCorpus \/ WriteMetadata
  BY <1>5 DEF WriteCorpus, WriteMetadata, Consistent
<1>6. CASE WriteBruit
  <2>1. PICK rows : rows = gen.rows
    OBVIOUS
  <2>2. Explains(Noisy(rows), Written(rows))
    BY <2>1, NoiseExplains
  <2>3. bruit' = [ids |-> Noisy(rows), of |-> Written(rows)] /\ gen'.rows = <<>>
    BY <1>6, <2>1, NothingDrawn DEF WriteBruit
  <2> QED
    BY <1>0, <1>6, <2>2, <2>3 DEF WriteBruit, Consistent
<1>7. CASE Quality
  <2>1. PICK noisy : noisy = IF bruit = None THEN {} ELSE bruit.ids
    OBVIOUS
  <2>2. /\ quality' = [hors |-> OutOfNoise(corpus.rows, noisy),
                       same |-> bruit # None /\ bruit.of = corpus.rows]
        /\ bruit # Torn /\ UNCHANGED <<gen, bruit>>
    BY <1>7, <2>1 DEF Quality
  <2>3. quality'.same => ~ quality'.hors
    <3>1. bruit # None /\ bruit.of = corpus.rows => Explains(noisy, corpus.rows)
      BY <2>1, <2>2
    <3>2. Explains(noisy, corpus.rows) => ~ OutOfNoise(corpus.rows, noisy)
      BY DEF Explains, OutOfNoise
    <3> QED
      BY <2>2, <3>1, <3>2
  <2> QED
    BY <2>2, <2>3 DEF Consistent
<1>8. CASE Interrupt
  <2>1. /\ bruit' = bruit \/ bruit' = Torn
        /\ quality' = quality \/ quality' = Torn
        /\ gen'.rows = <<>>
    BY <1>8, NothingDrawn DEF Interrupt, Cut
  <2> QED
    BY <1>0, <2>1 DEF Consistent
<1>9. CASE UNCHANGED <<gen, bruit, quality>>
  BY <1>9 DEF Consistent
<1> QED
  BY <1>1, <1>2, <1>3, <1>4, <1>5, <1>6, <1>7, <1>8, <1>9
  DEF Next, Generator, vars, files, GenerateGolden, Freeze, CopyReference, Train, Promote

\* When corpus and annex are of one run, every contradiction between rows of the same
\* signals is the work of the noise the annex lists (generate_corpus.py:1121-1130,
\* quality_report.py:126-151), whatever is generated again, interrupted or half written.
THEOREM NoiseIsListed == Spec => []ContradictionsAreNoise
<1>1. NoiseInv => ContradictionsAreNoise
  BY DEF NoiseInv
<1> QED
  BY <1>1, LeakInit, LeakStep, NoiseInit, NoiseStep, PTL DEF Spec

-----------------------------------------------------------------------------
(* The shares of the categories and of the templates. *)

\* Of elements ordered by what comes before each, as many come early as there are early places.
LEMMA EarlyOnes ==
  ASSUME NEW S, IsFiniteSet(S), NEW before \in [S -> SUBSET S],
         \A k \in S : k \notin before[k],
         \A j, k \in S : j # k => (j \in before[k] /\ before[j] \subseteq before[k])
                                  \/ (k \in before[j] /\ before[k] \subseteq before[j]),
         NEW m \in Nat, m <= Cardinality(S)
  PROVE  Cardinality({k \in S : Cardinality(before[k]) < m}) = m
<1> DEFINE n == Cardinality(S)
           rank == [k \in S |-> Cardinality(before[k])]
           places == 0 .. n - 1
           T == {k \in S : rank[k] < m}
           early == [k \in T |-> rank[k]]
<1>1. n \in Nat
  BY FS_CardinalityType
<1>2. IsFiniteSet(places) /\ Cardinality(places) = n
  <2> HIDE DEF n
  <2>1. 0 \in Int /\ n - 1 \in Int
    BY <1>1
  <2>2. IsFiniteSet(0 .. n - 1) /\ Cardinality(0 .. n - 1) = IF 0 > n - 1 THEN 0 ELSE (n - 1) - 0 + 1
    BY <2>1, FS_Interval
  <2> QED BY <1>1, <2>2
<1>3. ASSUME NEW k \in S
      PROVE  IsFiniteSet(before[k]) /\ rank[k] \in Nat /\ rank[k] < n /\ rank[k] = Cardinality(before[k])
  <2>1. before[k] \in SUBSET S /\ before[k] # S
    OBVIOUS
  <2>2. IsFiniteSet(before[k]) /\ Cardinality(before[k]) <= n /\ Cardinality(before[k]) # n
    BY <2>1, FS_Subset
  <2>3. Cardinality(before[k]) \in Nat
    BY <2>2, FS_CardinalityType
  <2> HIDE DEF n
  <2> QED BY <1>1, <2>2, <2>3
<1> HIDE DEF n
<1>4. ASSUME NEW j \in S, NEW k \in S, j \in before[k], before[j] \subseteq before[k] PROVE rank[j] < rank[k]
  <2>1. before[j] \in SUBSET before[k] /\ before[j] # before[k]
    BY <1>4
  <2>2. Cardinality(before[j]) <= Cardinality(before[k]) /\ Cardinality(before[j]) # Cardinality(before[k])
    BY <1>3, <2>1, FS_Subset
  <2> HIDE DEF rank
  <2> QED BY <1>3, <2>2
<1> HIDE DEF rank
<1>5. \A j, k \in S : rank[j] = rank[k] => j = k
  BY <1>3, <1>4
<1>6. rank \in Injection(S, places)
  <2>1. DOMAIN rank = S /\ rank = [k \in S |-> rank[k]]
    BY DEF rank
  <2>2. \A k \in S : rank[k] \in places
    BY <1>1, <1>3
  <2>3. rank \in [S -> places]
    BY <2>1, <2>2
  <2> HIDE DEF rank, places
  <2> QED BY <1>5, <2>1, <2>3 DEF Injection, IsInjective
<1>7. rank \in Surjection(S, places)
  <2>1. Cardinality(S) = Cardinality(places)
    BY <1>2 DEF n
  <2> HIDE DEF places
  <2> QED BY <1>2, <1>6, <2>1, FS_Injection
<1>8. IsFiniteSet(0 .. m - 1) /\ Cardinality(0 .. m - 1) = m
  <2>1. 0 \in Int /\ m - 1 \in Int
    OBVIOUS
  <2>2. IsFiniteSet(0 .. m - 1) /\ Cardinality(0 .. m - 1) = IF 0 > m - 1 THEN 0 ELSE (m - 1) - 0 + 1
    BY <2>1, FS_Interval
  <2> QED BY <2>2
<1>9. early \in Injection(T, 0 .. m - 1)
  <2>1. \A k \in T : k \in S /\ early[k] = rank[k] /\ early[k] \in 0 .. m - 1
    BY <1>3
  <2>2. early \in [T -> 0 .. m - 1]
    BY <2>1
  <2>3. DOMAIN early = T
    OBVIOUS
  <2> HIDE DEF early, T
  <2> QED BY <1>5, <2>1, <2>2, <2>3 DEF Injection, IsInjective
<1>10. early \in Surjection(T, 0 .. m - 1)
  <2>1. \A i \in 0 .. m - 1 : \E k \in T : early[k] = i
    <3> TAKE i \in 0 .. m - 1
    <3>1. i \in places
      <4>1. m <= n
        BY DEF n
      <4> QED BY <1>1, <4>1
    <3>2. PICK k \in S : rank[k] = i
      <4> HIDE DEF places
      <4> QED BY <1>7, <3>1 DEF Surjection
    <3> QED BY <3>2
  <2>2. early \in [T -> 0 .. m - 1]
    BY <1>9 DEF Injection
  <2> HIDE DEF early, T
  <2> QED BY <2>1, <2>2 DEF Surjection
<1>11. Cardinality(T) = m
  <2> HIDE DEF T, early
  <2>1. Cardinality(T) = Cardinality(0 .. m - 1)
    BY <1>8, <1>9, <1>10, FS_Injection
  <2> QED BY <1>8, <2>1
<1>12. T = {k \in S : Cardinality(before[k]) < m}
  BY DEF rank
<1> QED BY <1>11, <1>12

\* Sharing rows loses none and invents none, and gives each key its quota rounded down or up,
\* whatever the weights (generate_corpus.py:958-983): the rows that rounding down leaves are
\* fewer than the keys it took something from, which come first.
THEOREM SharesAreExact ==
  ASSUME NEW n \in Nat, NEW total \in Nat, NEW weights \in [1 .. n -> Nat], SumFunction(weights) > 0
  PROVE  AllocationIsExact(total, weights)
<1>1. PICK K, W, due, base, rest :
        /\ K = 1 .. n /\ W = SumFunction(weights)
        /\ due = [k \in K |-> total * weights[k]]
        /\ base = [k \in K |-> (total * weights[k]) \div W]
        /\ rest = [k \in K |-> (total * weights[k]) % W]
  OBVIOUS
<1>2. IsFiniteSet(K) /\ DOMAIN weights = K /\ \A k \in K : weights[k] \in Nat /\ k \in Int
  <2>1. 1 \in Int /\ n \in Int
    OBVIOUS
  <2>2. IsFiniteSet(1 .. n)
    BY <2>1, FS_Interval
  <2> QED BY <1>1, <2>2
<1>3. W = SumFunctionOnSet(weights, K) /\ W \in Nat /\ W > 0
  <2>1. W = SumFunctionOnSet(weights, K) /\ W > 0
    BY <1>1, <1>2 DEF SumFunction
  <2> QED BY <1>2, <2>1, SumNat
<1>4. ASSUME NEW k \in K
      PROVE  /\ due[k] \in Nat /\ base[k] \in Nat /\ rest[k] \in Nat /\ rest[k] < W
             /\ due[k] = W * base[k] + rest[k] /\ due[k] = total * weights[k]
  <2>1. PICK d, w : d = total * w /\ w = weights[k]
    OBVIOUS
  <2>2. d \in Nat /\ due[k] = d /\ base[k] = d \div W /\ rest[k] = d % W
    BY <1>1, <1>2, <2>1
  <2>3. d \div W \in Nat /\ d % W \in Nat /\ d % W < W /\ d = W * (d \div W) + (d % W)
    BY <1>3, <2>2, DivMod
  <2> QED BY <2>1, <2>2, <2>3
<1>5. PICK B, R : B = SumFunctionOnSet(base, K) /\ R = SumFunctionOnSet(rest, K)
  OBVIOUS
<1>6. B \in Nat /\ R \in Nat /\ total * W = W * B + R
  <2>1. B \in Nat /\ R \in Nat
    BY <1>2, <1>4, <1>5, SumNat
  <2>2. SumFunctionOnSet(due, K) = total * W
    <3>1. \A k \in K : weights[k] \in Nat /\ due[k] = total * weights[k]
      BY <1>2, <1>4
    <3>2. IsFiniteSet(K)
      BY <1>2
    <3>3. SumFunctionOnSet(due, K) = total * SumFunctionOnSet(weights, K)
      BY <3>1, <3>2, SumScale
    <3> QED BY <1>3, <3>3
  <2>3. PICK whole : whole = [k \in K |-> W * base[k]]
    OBVIOUS
  <2>4. \A k \in K : /\ base[k] \in Nat /\ whole[k] = W * base[k] /\ whole[k] \in Nat
                     /\ rest[k] \in Nat /\ due[k] = whole[k] + rest[k]
    BY <1>3, <1>4, <2>3
  <2>5. SumFunctionOnSet(whole, K) = W * B
    <3>1. \A k \in K : base[k] \in Nat /\ whole[k] = W * base[k]
      BY <2>4
    <3>2. IsFiniteSet(K) /\ W \in Nat
      BY <1>2, <1>3
    <3>3. SumFunctionOnSet(whole, K) = W * SumFunctionOnSet(base, K)
      BY <3>1, <3>2, SumScale
    <3> QED BY <1>5, <3>3
  <2>6. SumFunctionOnSet(due, K) = SumFunctionOnSet(whole, K) + SumFunctionOnSet(rest, K)
    BY <1>2, <2>4, SumPlus
  <2> QED BY <1>5, <2>1, <2>2, <2>5, <2>6
<1>7. PICK left : left = total - B
  OBVIOUS
<1>8. left \in Int /\ W * left = R
  <2>1. W * (total - B) = W * total - W * B /\ W * total = total * W
    BY <1>3, <1>6
  <2>2. W * total - W * B = R
    <3>1. PICK x, y : x = W * total /\ y = W * B
      OBVIOUS
    <3>2. x \in Nat /\ y \in Nat
      <4>1. W \in Nat /\ total \in Nat /\ B \in Nat
        BY <1>3, <1>6
      <4> QED BY <3>1, <4>1
    <3>3. x = y + R
      BY <1>6, <2>1, <3>1
    <3> QED BY <1>6, <3>1, <3>2, <3>3
  <2> QED BY <1>6, <1>7, <2>1, <2>2
<1>9. left \in Nat
  <2>1. CASE left < 0
    <3>1. W * left < 0
      BY <1>3, <1>8, <2>1
    <3> QED BY <1>6, <1>8, <3>1
  <2> QED BY <1>8, <2>1
\* What rounding took something from.
<1>10. PICK P : P = {k \in K : rest[k] > 0}
  OBVIOUS
<1>11. P \in SUBSET K /\ IsFiniteSet(P) /\ Cardinality(P) \in Nat /\ Cardinality(P) <= Cardinality(K)
  <2>1. P \in SUBSET K
    BY <1>10
  <2> QED BY <1>2, <2>1, FS_Subset, FS_CardinalityType
<1>12. left <= Cardinality(P)
  <2>1. PICK cap, none : cap = [k \in P |-> W] /\ none = [k \in K \ P |-> 0]
    OBVIOUS
  <2>2. /\ \A k \in P : rest[k] \in Nat /\ cap[k] \in Nat /\ rest[k] <= cap[k] /\ cap[k] = W
        /\ \A k \in K \ P : rest[k] = 0
        /\ IsFiniteSet(K \ P) /\ Cardinality(K \ P) \in Nat
    <3>1. \A k \in P : rest[k] \in Nat /\ cap[k] \in Nat /\ rest[k] <= cap[k] /\ cap[k] = W
      BY <1>3, <1>4, <1>11, <2>1
    <3>2. \A k \in K \ P : rest[k] = 0
      BY <1>4, <1>10
    <3> QED BY <1>2, <3>1, <3>2, FS_Difference, FS_CardinalityType
  <2>3. SumFunctionOnSet(rest, P) <= SumFunctionOnSet(cap, P)
    BY <1>11, <2>2, SumAtMost
  <2>4. SumFunctionOnSet(cap, P) = W * Cardinality(P)
    BY <1>3, <1>11, <2>2, SumOfOnes
  <2>5. SumFunctionOnSet(rest, K \ P) = 0 * Cardinality(K \ P)
    <3>1. 0 \in Nat
      OBVIOUS
    <3> QED BY <2>2, <3>1, SumOfOnes
  <2>6. R = SumFunctionOnSet(rest, P) + SumFunctionOnSet(rest, K \ P)
    BY <1>2, <1>4, <1>5, <1>11, SumSubset
  <2>7. SumFunctionOnSet(rest, P) \in Nat
    BY <1>11, <2>2, SumNat
  <2>8. W * left <= W * Cardinality(P)
    BY <1>8, <2>2, <2>3, <2>4, <2>5, <2>6, <2>7
  <2>9. left \in Int /\ Cardinality(P) \in Int
    BY <1>9, <1>11
  <2> QED BY <1>3, <2>8, <2>9, Cancel
<1> DEFINE Prior(k) == {j \in K : rest[j] > rest[k] \/ (rest[j] = rest[k] /\ j < k)}
<1>13. PICK before : before = [k \in K |-> Prior(k)]
  OBVIOUS
<1>14. ASSUME NEW k \in K
       PROVE  /\ before[k] \in SUBSET K
              /\ \A j \in K : j \in before[k] <=> rest[j] > rest[k] \/ (rest[j] = rest[k] /\ j < k)
  BY <1>13
<1>15. before \in [K -> SUBSET K]
  BY <1>13
<1>16. PICK given : given = {k \in K : Cardinality(before[k]) < left}
  OBVIOUS
<1>17. Cardinality(given) = left
  <2>1. \A k \in K : k \notin before[k]
    BY <1>2, <1>4, <1>14
  <2>2. ASSUME NEW j \in K, NEW k \in K, j # k
        PROVE  \/ j \in before[k] /\ before[j] \subseteq before[k]
               \/ k \in before[j] /\ before[k] \subseteq before[j]
    <3>1. ASSUME NEW x \in K, NEW y \in K, x \in before[y] PROVE before[x] \subseteq before[y]
      <4> SUFFICES ASSUME NEW z \in before[x] PROVE z \in before[y]
        OBVIOUS
      <4>1. z \in K /\ rest[z] \in Nat /\ rest[x] \in Nat /\ rest[y] \in Nat /\ x \in Int /\ y \in Int /\ z \in Int
        BY <1>2, <1>4, <1>14
      <4> QED BY <1>14, <3>1, <4>1
    <3>2. j \in before[k] \/ k \in before[j]
      <4>1. rest[j] \in Nat /\ rest[k] \in Nat /\ j \in Int /\ k \in Int
        BY <1>2, <1>4
      <4> QED BY <1>14, <2>2, <4>1
    <3> QED BY <3>1, <3>2
  <2>3. left <= Cardinality(K)
    <3>1. Cardinality(K) \in Nat
      BY <1>2, FS_CardinalityType
    <3> QED BY <1>9, <1>11, <1>12, <3>1
  <2> QED BY <1>2, <1>9, <1>15, <1>16, <2>1, <2>2, <2>3, EarlyOnes
<1>18. ASSUME NEW k \in K, rest[k] = 0 PROVE k \notin given
  <2>1. P \subseteq before[k]
    BY <1>4, <1>10, <1>14, <1>18
  <2>2. IsFiniteSet(before[k]) /\ Cardinality(before[k]) \in Nat /\ Cardinality(P) <= Cardinality(before[k])
    <3>1. IsFiniteSet(before[k])
      BY <1>2, <1>14, FS_Subset
    <3> QED BY <2>1, <3>1, FS_Subset, FS_CardinalityType
  <2> QED BY <1>9, <1>11, <1>12, <1>16, <2>2
<1>19. PICK shares : shares = Allocate(total, weights)
  OBVIOUS
<1>20. /\ DOMAIN shares = K
       /\ \A k \in K : shares[k] = base[k] + IF k \in given THEN 1 ELSE 0
  <2>1. SumFunction(base) = B
    BY <1>1, <1>5 DEF SumFunction
  <2>2. shares = [k \in K |-> base[k] + IF Cardinality(Prior(k)) < total - SumFunction(base) THEN 1 ELSE 0]
    BY <1>1, <1>2, <1>19 DEF Allocate
  <2>3. \A k \in K : Prior(k) = before[k]
    BY <1>13
  <2> HIDE DEF Prior
  <2> QED BY <1>7, <1>16, <2>1, <2>2, <2>3
<1>21. SumFunction(shares) = total
  <2>1. PICK extra : extra = [k \in K |-> IF k \in given THEN 1 ELSE 0]
    OBVIOUS
  <2>2. \A k \in K : base[k] \in Nat /\ extra[k] \in Nat /\ shares[k] = base[k] + extra[k]
    BY <1>4, <1>20, <2>1
  <2>3. SumFunctionOnSet(shares, K) = B + SumFunctionOnSet(extra, K)
    BY <1>2, <1>5, <2>2, SumPlus
  <2>4. given \in SUBSET K /\ IsFiniteSet(given) /\ IsFiniteSet(K \ given) /\ Cardinality(K \ given) \in Nat
    <3>1. given \in SUBSET K
      BY <1>16
    <3> QED BY <1>2, <3>1, FS_Subset, FS_Difference, FS_CardinalityType
  <2>5. SumFunctionOnSet(extra, given) = 1 * Cardinality(given)
    <3>1. 1 \in Nat /\ \A k \in given : extra[k] = 1
      BY <2>1, <2>4
    <3> QED BY <2>4, <3>1, SumOfOnes
  <2>6. SumFunctionOnSet(extra, K \ given) = 0 * Cardinality(K \ given)
    <3>1. 0 \in Nat /\ \A k \in K \ given : extra[k] = 0
      BY <2>1
    <3> QED BY <2>4, <3>1, SumOfOnes
  <2>7. SumFunctionOnSet(extra, K) = SumFunctionOnSet(extra, given) + SumFunctionOnSet(extra, K \ given)
    <3>1. \A k \in K : extra[k] \in Nat
      BY <2>2
    <3>2. IsFiniteSet(K) /\ given \in SUBSET K
      BY <1>2, <2>4
    <3> HIDE DEF Prior
    <3> QED BY <3>1, <3>2, SumSubset
  <2>8. SumFunctionOnSet(extra, K) = left
    BY <1>9, <1>17, <2>4, <2>5, <2>6, <2>7
  <2>9. SumFunctionOnSet(shares, K) = total
    BY <1>6, <1>7, <2>3, <2>8
  <2> QED BY <1>20, <2>9 DEF SumFunction
<1>22. ASSUME NEW k \in K
       PROVE  shares[k] * W > total * weights[k] - W /\ shares[k] * W < total * weights[k] + W
  <2>1. PICK d, b, r, x : d = due[k] /\ b = base[k] /\ r = rest[k] /\ x = shares[k]
    OBVIOUS
  <2>2. d \in Nat /\ b \in Nat /\ r \in Nat /\ r < W /\ d = W * b + r /\ d = total * weights[k]
    BY <1>4, <2>1
  <2>3. \/ x = b
        \/ x = b + 1 /\ r > 0
    BY <1>18, <1>20, <2>1, <2>2
  <2>4. x * W = W * b \/ (x * W = W * b + W /\ r > 0)
    BY <1>3, <2>2, <2>3
  <2>5. PICK y, z : y = x * W /\ z = W * b
    OBVIOUS
  <2>6. z \in Nat /\ d = z + r /\ (y = z \/ (y = z + W /\ r > 0))
    BY <1>3, <2>2, <2>4, <2>5
  <2>7. y > d - W /\ y < d + W
    <3>1. r \in Nat /\ r < W /\ W \in Nat
      BY <1>3, <2>2
    <3> QED BY <2>6, <3>1
  <2> QED BY <2>1, <2>2, <2>5, <2>7
<1> QED BY <1>1, <1>2, <1>19, <1>21, <1>22 DEF AllocationIsExact

-----------------------------------------------------------------------------
(* The reports of the evaluation. *)

LEMMA LeastOfTwo ==
  ASSUME NEW a \in Int, NEW b \in Int
  PROVE  /\ Min({a, b}) \in {a, b} /\ Min({a, b}) <= a /\ Min({a, b}) <= b
         /\ Max({a, b}) \in {a, b} /\ Max({a, b}) >= a /\ Max({a, b}) >= b
<1>1. \E x \in {a, b} : \A y \in {a, b} : x <= y
  <2>1. a <= b \/ b <= a
    OBVIOUS
  <2> QED BY <2>1
<1>2. \E x \in {a, b} : \A y \in {a, b} : x >= y
  <2>1. a <= b \/ b <= a
    OBVIOUS
  <2> QED BY <2>1
<1> QED BY <1>1, <1>2 DEF Min, Max

Thousandths(c) == c \in Nat /\ c <= 1000

\* An evaluation whose report is written.
Judged(js) == /\ Len(js) \in Nat \ {0} /\ DOMAIN js = 1 .. Len(js)
              /\ \A i \in DOMAIN js : /\ {js[i].label, js[i].model} \subseteq {"haiku", "sonnet", "opus"}
                                      /\ Thousandths(js[i].conf)

LEMMA RankIs ==
  ASSUME NEW m \in {"haiku", "sonnet", "opus"}
  PROVE  ModelRank(m) \in 1 .. 3 /\ Catalogue[ModelRank(m)] = m
<1>1. DOMAIN Catalogue = 1 .. 3 /\ Catalogue[1] = "haiku" /\ Catalogue[2] = "sonnet" /\ Catalogue[3] = "opus"
  BY DEF Catalogue
<1>2. \E k \in DOMAIN Catalogue : Catalogue[k] = m
  BY <1>1
<1> QED BY <1>1, <1>2 DEF ModelRank

LEMMA DomainIs ==
  ASSUME NEW js, Judged(js)
  PROVE  /\ IsFiniteSet(DOMAIN js) /\ Cardinality(DOMAIN js) = Len(js)
         /\ \A S \in SUBSET DOMAIN js : IsFiniteSet(S) /\ Cardinality(S) \in Nat
<1>1. 1 \in Int /\ Len(js) \in Int /\ Len(js) >= 1 /\ DOMAIN js = 1 .. Len(js)
  BY DEF Judged
<1>2. IsFiniteSet(1 .. Len(js)) /\ Cardinality(1 .. Len(js)) = Len(js)
  BY <1>1, FS_Interval
<1> QED BY <1>1, <1>2, FS_Subset, FS_CardinalityType

\* The cell of the matrix that counts a row.
CellOf(js) == [i \in DOMAIN js |-> <<ModelRank(js[i].label), ModelRank(js[i].model)>>]
Cells == (1 .. 3) \X (1 .. 3)

LEMMA MatrixIs ==
  ASSUME NEW js
  PROVE  /\ DOMAIN ConfusionMatrix(js) = Cells
         /\ \A c \in Cells : ConfusionMatrix(js)[c] = Cardinality(Having(DOMAIN js, CellOf(js), {c}))
<1>1. ASSUME NEW c \in Cells
      PROVE  {i \in DOMAIN js : <<ModelRank(js[i].label), ModelRank(js[i].model)>> = c}
               = Having(DOMAIN js, CellOf(js), {c})
  BY DEF Having, CellOf
<1> QED BY <1>1 DEF ConfusionMatrix, Cells

\* A sum over cells counts the rows of these cells.
LEMMA MatrixCounts ==
  ASSUME NEW js, Judged(js), NEW T \in SUBSET Cells
  PROVE  SumFunctionOnSet(ConfusionMatrix(js), T) = Cardinality(Having(DOMAIN js, CellOf(js), T))
<1> DEFINE one == [i \in DOMAIN js |-> 1]
<1>1. PICK D, key, matrix : D = DOMAIN js /\ key = CellOf(js) /\ matrix = ConfusionMatrix(js)
  OBVIOUS
<1>2. IsFiniteSet(D) /\ \A i \in D : one[i] \in Nat /\ one[i] = 1
  BY <1>1, DomainIs
<1> HIDE DEF one
<1>3. \A V : Having(D, key, V) \in SUBSET D /\ IsFiniteSet(Having(D, key, V))
             /\ Cardinality(Having(D, key, V)) \in Nat
  <2>1. \A V : Having(D, key, V) \in SUBSET D
    BY DEF Having
  <2> QED BY <1>2, <2>1, FS_Subset, FS_CardinalityType
<1>4. ASSUME NEW V PROVE SumFunctionOnSet(one, Having(D, key, V)) = Cardinality(Having(D, key, V))
  <2>1. SumFunctionOnSet(one, Having(D, key, V)) = 1 * Cardinality(Having(D, key, V))
    BY <1>2, <1>3, SumOfOnes
  <2> QED BY <1>3, <2>1
<1>5. IsFiniteSet(T)
  <2>1. IsFiniteSet(1 .. 3)
    <3>1. 1 \in Int /\ 3 \in Int
      OBVIOUS
    <3> QED BY <3>1, FS_Interval
  <2>2. IsFiniteSet(Cells)
    BY <2>1, FS_Product DEF Cells
  <2> QED BY <2>2, FS_Subset
<1>6. Grouped(one, D, key, T, matrix)
  BY <1>1, <1>3, <1>4, MatrixIs DEF Grouped
<1>7. SumFunctionOnSet(matrix, T) = SumFunctionOnSet(one, Having(D, key, T))
  BY <1>2, <1>5, <1>6, SumByGroups
<1> QED BY <1>1, <1>4, <1>7

\* The diagonal, the lower triangle and the whole of the matrix.
LEMMA CountsAgreed == ASSUME NEW js, Judged(js) PROVE CountsAgree(js)
<1>1. PICK D, matrix, key : D = DOMAIN js /\ matrix = ConfusionMatrix(js) /\ key = CellOf(js)
  OBVIOUS
<1> DEFINE same == {c \in Cells : c[2] = c[1]}
           below == {c \in Cells : c[2] < c[1]}
<1>2. ASSUME NEW i \in D
      PROVE  /\ ModelRank(js[i].label) \in 1 .. 3 /\ ModelRank(js[i].model) \in 1 .. 3
             /\ js[i].label = js[i].model <=> ModelRank(js[i].label) = ModelRank(js[i].model)
             /\ key[i] = <<ModelRank(js[i].label), ModelRank(js[i].model)>>
  BY <1>1, RankIs DEF Judged, CellOf
<1>0. ASSUME NEW i \in D
      PROVE  /\ key[i] \in Cells
             /\ key[i] \in same <=> js[i].model = js[i].label
             /\ key[i] \in below <=> ModelRank(js[i].model) < ModelRank(js[i].label)
  <2>1. PICK l, p : l = ModelRank(js[i].label) /\ p = ModelRank(js[i].model)
    OBVIOUS
  <2>2. l \in 1 .. 3 /\ p \in 1 .. 3 /\ key[i] = <<l, p>> /\ (js[i].label = js[i].model <=> l = p)
    BY <1>2, <2>1
  <2>3. /\ <<l, p>> \in Cells
        /\ <<l, p>> \in same <=> p = l
        /\ <<l, p>> \in below <=> p < l
    BY <2>2 DEF Cells
  <2> QED BY <2>1, <2>2, <2>3
<1>3. Having(D, key, same) = Right(js)
  <2> HIDE DEF same
  <2> QED BY <1>0, <1>1 DEF Having, Right
<1>4. Having(D, key, below) = Under(js)
  <2> HIDE DEF below
  <2> QED BY <1>0, <1>1 DEF Having, Under
<1>5. Having(D, key, Cells) = D
  BY <1>0, <1>1 DEF Having
<1>6. /\ SumFunctionOnSet(matrix, same) = Cardinality(Right(js))
      /\ SumFunctionOnSet(matrix, below) = Cardinality(Under(js))
      /\ SumFunctionOnSet(matrix, Cells) = Cardinality(D)
  <2>1. same \in SUBSET Cells /\ below \in SUBSET Cells /\ Cells \in SUBSET Cells
    OBVIOUS
  <2> HIDE DEF same, below
  <2> QED BY <1>1, <1>3, <1>4, <1>5, <2>1, MatrixCounts
<1>7. PICK n, r, u, o : /\ n = Len(js) /\ r = Cardinality(Right(js))
                        /\ u = Cardinality(Under(js)) /\ o = Cardinality(Over(js))
  OBVIOUS
<1>8. n \in Nat \ {0} /\ r \in Nat /\ u \in Nat /\ o \in Nat /\ n = r + u + o
  <2>1. /\ Right(js) \in SUBSET D /\ Under(js) \in SUBSET D /\ Over(js) \in SUBSET D
        /\ Right(js) \cup Under(js) \in SUBSET D
    BY <1>1 DEF Right, Under, Over
  <2>2. /\ Right(js) \cap Under(js) = {} /\ (Right(js) \cup Under(js)) \cap Over(js) = {}
        /\ (Right(js) \cup Under(js)) \cup Over(js) = D
    BY <1>1, <1>2 DEF Right, Under, Over
  <2>3. /\ IsFiniteSet(Right(js)) /\ IsFiniteSet(Under(js)) /\ IsFiniteSet(Over(js))
        /\ IsFiniteSet(Right(js) \cup Under(js)) /\ r \in Nat /\ u \in Nat /\ o \in Nat
    BY <1>1, <1>7, <2>1, DomainIs
  <2>4. Cardinality(Right(js) \cup Under(js)) = r + u
    <3>1. Cardinality(Right(js) \cup Under(js)) = r + u - Cardinality(Right(js) \cap Under(js))
      BY <1>7, <2>3, FS_Union
    <3> QED BY <2>2, <2>3, <3>1, FS_EmptySet
  <2>5. Cardinality(D) = (r + u) + o
    <3>1. Cardinality((Right(js) \cup Under(js)) \cup Over(js))
            = (r + u) + o - Cardinality((Right(js) \cup Under(js)) \cap Over(js))
      BY <1>7, <2>3, <2>4, FS_Union
    <3> QED BY <2>2, <2>3, <3>1, FS_EmptySet
  <2> QED BY <1>1, <1>7, <2>3, <2>5, DomainIs DEF Judged
<1>9. 2 * r <= WeightedAccuracy(u, o, n) /\ WeightedAccuracy(u, o, n) <= n + r
  <2>1. PICK least : least = Min({2 * n, 2 * n - 2 * u - o})
    OBVIOUS
  <2>2. least = 2 * r + o /\ 2 * r + o \in Nat
    <3>1. least \in {2 * n, 2 * n - 2 * u - o} /\ least <= 2 * n /\ least <= 2 * n - 2 * u - o
      BY <1>8, <2>1, LeastOfTwo
    <3> QED BY <1>8, <3>1
  <2>3. Max({0, least}) = least
    <3>1. Max({0, least}) \in {0, least} /\ Max({0, least}) >= 0 /\ Max({0, least}) >= least
      <4>1. 0 \in Int /\ least \in Int
        BY <2>2
      <4> QED BY <4>1, LeastOfTwo
    <3> QED BY <2>2, <3>1
  <2>4. WeightedAccuracy(u, o, n) = least
    BY <1>8, <2>1, <2>3 DEF WeightedAccuracy
  <2> QED BY <1>8, <2>2, <2>4
<1>10. SumFunction(matrix) = n
  BY <1>1, <1>6, <1>7, DomainIs, MatrixIs DEF SumFunction
<1> QED BY <1>1, <1>6, <1>7, <1>9, <1>10 DEF CountsAgree, Cells

\* What is right and what is claimed of some rows, in thousandths.
RightOf(js) == [i \in DOMAIN js |-> IF i \in Right(js) THEN 1000 ELSE 0]
ClaimOf(js) == [i \in DOMAIN js |-> js[i].conf]
Dist(a, b) == IF a > b THEN a - b ELSE b - a

\* At most 1000 a row.
LEMMA AmountsAre ==
  ASSUME NEW js, Judged(js), NEW i \in DOMAIN js
  PROVE  /\ RightOf(js)[i] \in Nat /\ RightOf(js)[i] <= 1000
         /\ i \in Right(js) => RightOf(js)[i] = 1000
         /\ i \notin Right(js) => RightOf(js)[i] = 0
         /\ ClaimOf(js)[i] \in Nat /\ ClaimOf(js)[i] <= 1000
<1>1. Thousandths(js[i].conf)
  BY Zenon DEF Judged
<1>2. ClaimOf(js)[i] = js[i].conf
  BY DEF ClaimOf
<1>3. RightOf(js)[i] = IF i \in Right(js) THEN 1000 ELSE 0
  BY DEF RightOf
<1>4. RightOf(js)[i] = 1000 \/ RightOf(js)[i] = 0
  BY <1>3
<1>5. RightOf(js)[i] \in Nat /\ RightOf(js)[i] <= 1000
  BY <1>4
<1>6. ClaimOf(js)[i] \in Nat /\ ClaimOf(js)[i] <= 1000
  BY <1>1, <1>2 DEF Thousandths
<1>7. (i \in Right(js) => RightOf(js)[i] = 1000) /\ (i \notin Right(js) => RightOf(js)[i] = 0)
  BY <1>3
<1> QED BY <1>5, <1>6, <1>7

\* A gap is the distance of two sums.
LEMMA GapIs ==
  ASSUME NEW js, Judged(js), NEW rows \in SUBSET DOMAIN js
  PROVE  LET r == SumFunctionOnSet(RightOf(js), rows)
             c == SumFunctionOnSet(ClaimOf(js), rows)
         IN  r \in Nat /\ c \in Nat /\ Gap(js, rows) = Dist(r, c)
<1>1. PICK f, c, S, T : /\ f = RightOf(js) /\ c = ClaimOf(js)
                        /\ S = rows \cap Right(js) /\ T = rows \ S
  OBVIOUS
<1>2. \A i \in DOMAIN js : /\ f[i] \in Nat /\ c[i] \in Nat
                           /\ i \in Right(js) => f[i] = 1000
                           /\ i \notin Right(js) => f[i] = 0
  BY <1>1, AmountsAre
<1>3. /\ S \in SUBSET rows /\ S \in SUBSET DOMAIN js /\ T \in SUBSET DOMAIN js
      /\ \A i \in S : f[i] = 1000
      /\ \A i \in T : f[i] = 0
      /\ \A i \in rows : f[i] \in Nat /\ c[i] \in Nat
  BY <1>1, <1>2
<1>4. /\ IsFiniteSet(rows) /\ IsFiniteSet(S) /\ IsFiniteSet(T)
      /\ Cardinality(S) \in Nat /\ Cardinality(T) \in Nat
  BY <1>3, DomainIs
<1>5. SumFunctionOnSet(f, S) = 1000 * Cardinality(S)
  <2>1. 1000 \in Nat
    OBVIOUS
  <2>2. IsFiniteSet(S) /\ \A i \in S : f[i] = 1000
    BY <1>3, <1>4
  <2> QED BY <2>1, <2>2, SumOfOnes
<1>6. SumFunctionOnSet(f, T) = 0 * Cardinality(T)
  <2>1. 0 \in Nat
    OBVIOUS
  <2> QED BY <1>3, <1>4, <2>1, SumOfOnes
<1>7. SumFunctionOnSet(f, rows) = SumFunctionOnSet(f, S) + SumFunctionOnSet(f, T)
  BY <1>1, <1>3, <1>4, SumSubset
<1>8. SumFunctionOnSet(f, rows) = 1000 * Cardinality(S)
  BY <1>4, <1>5, <1>6, <1>7
<1>9. SumFunctionOnSet(f, rows) \in Nat /\ SumFunctionOnSet(c, rows) \in Nat
  BY <1>3, <1>4, SumNat
<1>10. Gap(js, rows) = Dist(1000 * Cardinality(rows \cap Right(js)), SumFunctionOnSet(ClaimOf(js), rows))
  BY DEF Gap, Dist, ClaimOf
<1> QED BY <1>1, <1>8, <1>9, <1>10

\* The gaps of groups of rows.
GapsOf(js, key, V, gap) == \A v \in V : gap[v] = Gap(js, Having(DOMAIN js, key, {v}))

\* The gap of rows is never more than the sum of those of their groups, nor than 1000 a row.
LEMMA GapOfGroups ==
  ASSUME NEW js, Judged(js), NEW key, NEW V, IsFiniteSet(V), NEW gap,
         GapsOf(js, key, V, gap)
  PROVE  /\ \A v \in V : gap[v] \in Nat
         /\ Gap(js, Having(DOMAIN js, key, V)) <= SumFunctionOnSet(gap, V)
         /\ SumFunctionOnSet(gap, V) <= 1000 * Cardinality(Having(DOMAIN js, key, V))
<1>1. PICK D, f, c : D = DOMAIN js /\ f = RightOf(js) /\ c = ClaimOf(js)
  OBVIOUS
<1> DEFINE In(T) == Having(D, key, T)
           most == [i \in D |-> 1000]
           right == [v \in V |-> SumFunctionOnSet(f, In({v}))]
           claim == [v \in V |-> SumFunctionOnSet(c, In({v}))]
           all == [v \in V |-> SumFunctionOnSet(most, In({v}))]
           claimed == [v \in V |-> claim[v] + gap[v]]
           due == [v \in V |-> right[v] + gap[v]]
<1>2. IsFiniteSet(D) /\ \A i \in D : /\ f[i] \in Nat /\ c[i] \in Nat /\ most[i] \in Nat
                                     /\ most[i] = 1000 /\ f[i] <= most[i] /\ c[i] <= most[i]
  BY <1>1, DomainIs, AmountsAre
<1> HIDE DEF most
<1>3. \A T : In(T) \in SUBSET D /\ IsFiniteSet(In(T)) /\ \A i \in In(T) : i \in D
  <2>1. \A T : In(T) \in SUBSET D
    BY DEF Having
  <2> QED BY <1>2, <2>1, FS_Subset
<1>4. ASSUME NEW v \in V
      PROVE  /\ right[v] \in Nat /\ claim[v] \in Nat /\ all[v] \in Nat /\ gap[v] \in Nat
             /\ right[v] = SumFunctionOnSet(f, In({v})) /\ claim[v] = SumFunctionOnSet(c, In({v}))
             /\ all[v] = SumFunctionOnSet(most, In({v}))
             /\ gap[v] = Dist(right[v], claim[v])
             /\ right[v] <= all[v] /\ claim[v] <= all[v]
  <2>1. /\ right[v] = SumFunctionOnSet(f, In({v})) /\ claim[v] = SumFunctionOnSet(c, In({v}))
        /\ all[v] = SumFunctionOnSet(most, In({v}))
    OBVIOUS
  <2> HIDE DEF right, claim, all
  <2>2. PICK S : S = In({v})
    OBVIOUS
  <2>3. S \in SUBSET D /\ IsFiniteSet(S) /\ \A i \in S : i \in D
    BY <1>3, <2>2
  <2>4. /\ SumFunctionOnSet(f, S) <= SumFunctionOnSet(most, S)
        /\ SumFunctionOnSet(c, S) <= SumFunctionOnSet(most, S)
        /\ SumFunctionOnSet(most, S) \in Nat
    BY <1>2, <2>3, SumAtMost, SumNat
  <2>5. /\ SumFunctionOnSet(f, S) \in Nat /\ SumFunctionOnSet(c, S) \in Nat
        /\ Gap(js, S) = Dist(SumFunctionOnSet(f, S), SumFunctionOnSet(c, S))
    BY <1>1, <2>3, GapIs
  <2>6. gap[v] = Gap(js, S)
    BY <1>1, <2>2 DEF GapsOf
  <2> QED BY <2>1, <2>2, <2>4, <2>5, <2>6 DEF Dist
<1>5. \A v \in V : /\ claimed[v] = claim[v] + gap[v] /\ due[v] = right[v] + gap[v]
  OBVIOUS
<1> HIDE DEF right, claim, all, claimed, due
<1>6. \A v \in V : /\ claimed[v] \in Nat /\ due[v] \in Nat
                   /\ right[v] <= claimed[v] /\ claim[v] <= due[v] /\ gap[v] <= all[v]
  <2> TAKE v \in V
  <2>1. PICK x, y, z, d : x = right[v] /\ y = claim[v] /\ z = all[v] /\ d = gap[v]
    OBVIOUS
  <2>2. x \in Nat /\ y \in Nat /\ z \in Nat /\ d = Dist(x, y) /\ x <= z /\ y <= z
    BY <1>4, <2>1
  <2>3. claimed[v] = y + d /\ due[v] = x + d
    BY <1>5, <2>1
  <2> QED BY <2>1, <2>2, <2>3 DEF Dist
<1>17. \A v \in V : right[v] \in Nat /\ claim[v] \in Nat /\ all[v] \in Nat /\ gap[v] \in Nat
  BY <1>4
<1>7. /\ SumFunctionOnSet(right, V) = SumFunctionOnSet(f, In(V))
      /\ SumFunctionOnSet(claim, V) = SumFunctionOnSet(c, In(V))
      /\ SumFunctionOnSet(all, V) = SumFunctionOnSet(most, In(V))
  <2>1. Grouped(f, D, key, V, right) /\ Grouped(c, D, key, V, claim) /\ Grouped(most, D, key, V, all)
    BY <1>4 DEF Grouped
  <2> QED BY <1>2, <2>1, SumByGroups
<1>8. PICK r, m, a, g : /\ r = SumFunctionOnSet(right, V) /\ m = SumFunctionOnSet(claim, V)
                        /\ a = SumFunctionOnSet(all, V) /\ g = SumFunctionOnSet(gap, V)
  OBVIOUS
<1>9. r \in Nat /\ m \in Nat /\ a \in Nat /\ g \in Nat
  BY <1>4, <1>8, SumNat
<1>10. SumFunctionOnSet(claimed, V) = m + g
  <2>1. \A v \in V : claim[v] \in Nat /\ gap[v] \in Nat /\ claimed[v] = claim[v] + gap[v]
    BY <1>5, <1>17
  <2> QED BY <1>8, <2>1, SumPlus
<1>11. SumFunctionOnSet(due, V) = r + g
  <2>1. \A v \in V : right[v] \in Nat /\ gap[v] \in Nat /\ due[v] = right[v] + gap[v]
    BY <1>5, <1>17
  <2> QED BY <1>8, <2>1, SumPlus
<1>12. r <= m + g
  BY <1>17, <1>6, <1>8, <1>10, SumAtMost
<1>13. m <= r + g
  BY <1>17, <1>6, <1>8, <1>11, SumAtMost
<1>14. g <= a
  BY <1>17, <1>6, <1>8, SumAtMost
<1>15. a = 1000 * Cardinality(In(V))
  <2>1. 1000 \in Nat /\ \A i \in In(V) : most[i] = 1000
    BY <1>2, <1>3
  <2>2. SumFunctionOnSet(most, In(V)) = 1000 * Cardinality(In(V))
    BY <1>3, <2>1, SumOfOnes
  <2> QED BY <1>7, <1>8, <2>2
<1>16. Gap(js, In(V)) = Dist(r, m)
  <2>1. Gap(js, In(V)) = Dist(SumFunctionOnSet(f, In(V)), SumFunctionOnSet(c, In(V)))
    BY <1>1, <1>3, GapIs
  <2> QED BY <1>7, <1>8, <2>1
<1>18. Dist(r, m) <= g
  BY <1>9, <1>12, <1>13 DEF Dist
<1> QED BY <1>1, <1>17, <1>8, <1>14, <1>15, <1>16, <1>18

\* A band hides no more than what surrounds it.
LEMMA GapWithin ==
  ASSUME NEW js, Judged(js), NEW rows \in SUBSET DOMAIN js, NEW band \in SUBSET rows
  PROVE  /\ Gap(js, rows) \in Nat /\ Gap(js, band) \in Nat /\ Gap(js, rows \ band) \in Nat
         /\ Gap(js, band) <= Gap(js, rows) + Gap(js, rows \ band)
<1>1. PICK f, c, rest : f = RightOf(js) /\ c = ClaimOf(js) /\ rest = rows \ band
  OBVIOUS
<1>2. \A i \in DOMAIN js : f[i] \in Nat /\ c[i] \in Nat
  BY <1>1, AmountsAre
<1>3. band \in SUBSET DOMAIN js /\ rest \in SUBSET DOMAIN js /\ IsFiniteSet(rows)
  BY <1>1, DomainIs
<1>4. PICK r, m, rb, mb, rr, mr :
        /\ r = SumFunctionOnSet(f, rows) /\ m = SumFunctionOnSet(c, rows)
        /\ rb = SumFunctionOnSet(f, band) /\ mb = SumFunctionOnSet(c, band)
        /\ rr = SumFunctionOnSet(f, rest) /\ mr = SumFunctionOnSet(c, rest)
  OBVIOUS
<1>5. r = rb + rr /\ m = mb + mr
  <2>1. \A i \in rows : f[i] \in Nat /\ c[i] \in Nat
    BY <1>2
  <2> QED BY <1>1, <1>3, <1>4, <2>1, SumSubset
<1>6. /\ r \in Nat /\ m \in Nat /\ Gap(js, rows) = Dist(r, m)
      /\ rb \in Nat /\ mb \in Nat /\ Gap(js, band) = Dist(rb, mb)
      /\ rr \in Nat /\ mr \in Nat /\ Gap(js, rest) = Dist(rr, mr)
  BY <1>1, <1>3, <1>4, GapIs
<1> QED BY <1>1, <1>5, <1>6 DEF Dist

\* The bin of the threshold is the eighth.
LEMMA BinIs ==
  ASSUME NEW conf, Thousandths(conf)
  PROVE  /\ Bin(conf) \in 0 .. 9 /\ Bin(AutoThreshold) = 7
         /\ conf >= AutoThreshold => Bin(conf) \in 7 .. 9
         /\ Bin(conf) > 7 => conf >= AutoThreshold
<1>1. PICK n : n = conf \div 100
  OBVIOUS
<1>2. n \in 0 .. 10 /\ 100 * n <= conf /\ conf < 100 * n + 100
  BY <1>1 DEF Thousandths
<1>3. Min({n, 9}) \in {n, 9} /\ Min({n, 9}) <= n /\ Min({n, 9}) <= 9
  <2>1. n \in Int /\ 9 \in Int
    BY <1>2
  <2> QED BY <2>1, LeastOfTwo
<1>4. Bin(conf) = Min({n, 9})
  BY <1>1 DEF Bin
<1>5. Bin(AutoThreshold) = 7
  <2>1. AutoThreshold \div 100 = 7
    BY DEF AutoThreshold
  <2>2. Min({7, 9}) \in {7, 9} /\ Min({7, 9}) <= 7
    <3>1. 7 \in Int /\ 9 \in Int
      OBVIOUS
    <3> QED BY <3>1, LeastOfTwo
  <2> QED BY <2>1, <2>2 DEF Bin
<1>6. Bin(conf) = n \/ Bin(conf) = 9
  BY <1>3, <1>4
<1>7. Bin(conf) <= n /\ Bin(conf) \in 0 .. 9
  BY <1>2, <1>3, <1>4
<1>8. conf >= 750 => Bin(conf) \in 7 .. 9
  <2>1. conf >= 750 => n >= 7
    BY <1>2 DEF Thousandths
  <2> QED BY <1>6, <1>7, <2>1
<1>9. Bin(conf) > 7 => conf >= 750
  BY <1>2, <1>7 DEF Thousandths
<1> QED BY <1>5, <1>7, <1>8, <1>9 DEF AutoThreshold

\* A band is hidden by the bins, or the tranches, that surround it: by no other.
LEMMA NothingElseHidden == ASSUME NEW js, Judged(js) PROVE NothingElseIsHidden(js)
<1>1. PICK D, band, bin, label :
        /\ D = DOMAIN js /\ band = AutoBand(js)
        /\ bin = [i \in DOMAIN js |-> Bin(js[i].conf)]
        /\ label = [i \in DOMAIN js |-> ConfLabel(js[i].conf)]
  OBVIOUS
<1>2. ASSUME NEW i \in D
      PROVE  /\ Thousandths(js[i].conf)
             /\ bin[i] = Bin(js[i].conf) /\ label[i] = ConfLabel(js[i].conf)
             /\ i \in band <=> js[i].conf >= AutoThreshold
  <2>1. Thousandths(js[i].conf)
    BY <1>1, Zenon DEF Judged
  <2> QED BY <1>1, <2>1 DEF AutoBand
<1>3. band \in SUBSET D
  BY <1>1 DEF AutoBand
<1>4. PICK B, bins, from7 :
        /\ bins = 0 .. 9 /\ from7 = 7 .. 9
        /\ B = [b \in 0 .. 9 |-> Gap(js, {i \in DOMAIN js : Bin(js[i].conf) = b})]
  OBVIOUS
<1>5. \A b \in bins : B[b] = Gap(js, Having(DOMAIN js, bin, {b}))
  <2> TAKE b \in bins
  <2>1. {i \in DOMAIN js : Bin(js[i].conf) = b} = Having(DOMAIN js, bin, {b})
    BY <1>1, <1>2 DEF Having
  <2> QED BY <1>4, <2>1
<1>6. PICK ece : ece = SumFunctionOnSet(B, bins)
  OBVIOUS
<1>7. ece = ComputeEce(js)
  BY <1>4, <1>6 DEF ComputeEce, SumFunction
<1>8. IsFiniteSet(bins) /\ from7 \in SUBSET bins /\ IsFiniteSet(from7) /\ IsFiniteSet(bins \ from7)
  <2>1. 0 \in Int /\ 9 \in Int
    OBVIOUS
  <2>2. IsFiniteSet(bins)
    BY <1>4, <2>1, FS_Interval
  <2>3. from7 \in SUBSET bins
    BY <1>4
  <2> QED BY <2>2, <2>3, FS_Subset, FS_Difference
<1>9. Having(DOMAIN js, bin, bins) = D
  <2>1. ASSUME NEW i \in D PROVE bin[i] \in bins
    <3>1. PICK conf : conf = js[i].conf
      OBVIOUS
    <3>2. Thousandths(conf) /\ bin[i] = Bin(conf)
      BY <1>2, <3>1
    <3>3. Bin(conf) \in 0 .. 9
      BY <3>2, BinIs, Zenon
    <3> QED BY <1>4, <3>2, <3>3
  <2> QED BY <1>1, <2>1 DEF Having
<1>10. /\ \A b \in bins : B[b] \in Nat
       /\ Gap(js, D) <= ece /\ ece <= 1000 * Len(js)
  <2>1. /\ \A b \in bins : B[b] \in Nat
        /\ Gap(js, Having(DOMAIN js, bin, bins)) <= SumFunctionOnSet(B, bins)
        /\ SumFunctionOnSet(B, bins) <= 1000 * Cardinality(Having(DOMAIN js, bin, bins))
    <3>1. GapsOf(js, bin, bins, B)
      BY <1>5 DEF GapsOf
    <3> QED BY <1>8, <3>1, GapOfGroups
  <2>2. Cardinality(D) = Len(js)
    BY <1>1, DomainIs
  <2> QED BY <1>6, <1>9, <2>1, <2>2
\* The bins from that of the threshold on.
<1>11. PICK high, cut : high = Having(DOMAIN js, bin, from7)
                        /\ cut = {i \in DOMAIN js : Bin(js[i].conf) = Bin(AutoThreshold)}
  OBVIOUS
<1>12. high \in SUBSET D /\ band \in SUBSET high /\ high \ band = cut \ band
  <2>1. ASSUME NEW i \in D
        PROVE  /\ i \in high <=> Bin(js[i].conf) \in 7 .. 9
               /\ i \in cut <=> Bin(js[i].conf) = 7
               /\ i \in band => Bin(js[i].conf) \in 7 .. 9
               /\ Bin(js[i].conf) > 7 => i \in band
               /\ Bin(js[i].conf) \in Int
    <3>1. PICK n, conf : n = Bin(js[i].conf) /\ conf = js[i].conf
      OBVIOUS
    <3>2. /\ n \in 0 .. 9 /\ Bin(AutoThreshold) = 7
          /\ conf >= AutoThreshold => n \in 7 .. 9
          /\ n > 7 => conf >= AutoThreshold
      <4>1. Thousandths(conf) /\ n = Bin(conf)
        BY <1>2, <3>1
      <4>2. /\ Bin(conf) \in 0 .. 9 /\ Bin(AutoThreshold) = 7
            /\ conf >= AutoThreshold => Bin(conf) \in 7 .. 9
            /\ Bin(conf) > 7 => conf >= AutoThreshold
        BY <4>1, BinIs, Zenon
      <4> QED BY <4>1, <4>2
    <3>3. i \in high <=> n \in 7 .. 9
      <4>1. i \in high <=> bin[i] \in from7
        BY <1>1, <1>11 DEF Having
      <4>2. bin[i] = n
        BY <1>2, <3>1
      <4> QED BY <1>4, <4>1, <4>2
    <3>4. i \in cut <=> n = 7
      BY <1>1, <1>11, <3>1, <3>2
    <3> QED BY <1>2, <3>1, <3>2, <3>3, <3>4
  <2>2. high \in SUBSET D /\ cut \in SUBSET D
    BY <1>1, <1>11 DEF Having
  <2> QED BY <1>3, <2>1, <2>2
<1>13. Gap(js, high) <= ece
  <2>1. Gap(js, high) <= SumFunctionOnSet(B, from7)
    <3>1. GapsOf(js, bin, from7, B)
      BY <1>5, <1>8 DEF GapsOf
    <3> QED BY <1>8, <1>11, <3>1, GapOfGroups
  <2>2. ece = SumFunctionOnSet(B, from7) + SumFunctionOnSet(B, bins \ from7)
    BY <1>6, <1>8, <1>10, SumSubset
  <2>3. SumFunctionOnSet(B, from7) \in Nat /\ SumFunctionOnSet(B, bins \ from7) \in Nat
    BY <1>8, <1>10, SumNat
  <2>4. Gap(js, high) \in Nat
    BY <1>1, <1>12, GapWithin
  <2> QED BY <2>1, <2>2, <2>3, <2>4
<1>14. ece \in Nat
  BY <1>6, <1>8, <1>10, SumNat
<1>15. Gap(js, band) <= ece + Gap(js, cut \ band)
  <2>1. /\ Gap(js, high) \in Nat /\ Gap(js, band) \in Nat /\ Gap(js, cut \ band) \in Nat
        /\ Gap(js, band) <= Gap(js, high) + Gap(js, cut \ band)
    BY <1>1, <1>12, GapWithin
  <2> QED BY <1>13, <1>14, <2>1
\* The tranches of confidence from the threshold on.
<1>16. PICK cells, upper : /\ cells = CalibrationByConfidence(js)
                           /\ upper = {c \in DOMAIN cells : 10 * c >= AutoThreshold}
  OBVIOUS
<1>17. PICK C : C = [c \in DOMAIN cells |-> Gap(js, cells[c])]
  OBVIOUS
<1>18. DOMAIN cells = {label[i] : i \in D}
  BY <1>1, <1>16 DEF CalibrationByConfidence
<1>19. ASSUME NEW c \in DOMAIN cells PROVE C[c] = Gap(js, Having(DOMAIN js, label, {c}))
  <2>1. cells[c] = {i \in DOMAIN js : ConfLabel(js[i].conf) = c}
    BY <1>16 DEF CalibrationByConfidence
  <2>2. {i \in DOMAIN js : ConfLabel(js[i].conf) = c} = Having(DOMAIN js, label, {c})
    BY <1>1, <1>2 DEF Having
  <2> QED BY <1>17, <2>1, <2>2
<1>20. IsFiniteSet(upper) /\ upper \in SUBSET DOMAIN cells
  <2>1. IsFiniteSet(D)
    BY <1>1, DomainIs
  <2>2. IsFiniteSet(DOMAIN cells)
    BY <1>18, <2>1, ImageFinite
  <2> QED BY <1>16, <2>2, FS_Subset
<1>21. PICK wide : wide = {i \in DOMAIN js : 10 * ConfLabel(js[i].conf) >= AutoThreshold}
  OBVIOUS
<1>22. Having(DOMAIN js, label, upper) = wide
  BY <1>1, <1>2, <1>16, <1>18, <1>21 DEF Having
<1>23. wide \in SUBSET D /\ band \in SUBSET wide
  <2>1. ASSUME NEW i \in band PROVE i \in wide
    <3>1. PICK conf, more, n : conf = js[i].conf /\ more = conf + 5 /\ n = more \div 10
      OBVIOUS
    <3>2. more \in Nat /\ more >= 755
      <4>1. i \in D
        BY <1>3
      <4>2. conf \in Nat /\ conf >= 750
        BY <1>2, <3>1, <4>1 DEF AutoThreshold, Thousandths
      <4> QED BY <3>1, <4>2
    <3>3. n \in Nat /\ more < 10 * n + 10
      BY <3>1, <3>2
    <3>5. 10 * n >= 750
      BY <3>2, <3>3
    <3>4. ConfLabel(js[i].conf) = n
      BY <3>1 DEF ConfLabel
    <3> QED BY <1>1, <1>3, <1>21, <3>4, <3>5 DEF AutoThreshold
  <2> QED BY <1>1, <1>21, <2>1
<1>24. Gap(js, band) <= SumFunctionOnSet(C, upper) + Gap(js, wide \ band)
  <2>0. GapsOf(js, label, upper, C)
    BY <1>19, <1>20 DEF GapsOf
  <2>2. /\ \A c \in upper : C[c] \in Nat
        /\ Gap(js, wide) <= SumFunctionOnSet(C, upper)
    BY <1>20, <1>22, <2>0, GapOfGroups
  <2>3. SumFunctionOnSet(C, upper) \in Nat
    BY <1>20, <2>2, SumNat
  <2>4. /\ Gap(js, wide) \in Nat /\ Gap(js, band) \in Nat /\ Gap(js, wide \ band) \in Nat
        /\ Gap(js, band) <= Gap(js, wide) + Gap(js, wide \ band)
    BY <1>1, <1>23, GapWithin
  <2> QED BY <2>2, <2>3, <2>4
<1> QED BY <1>1, <1>7, <1>10, <1>11, <1>15, <1>16, <1>17, <1>21, <1>24 DEF NothingElseIsHidden

LEMMA InCatalogue ==
  ASSUME NEW js, ~ OutOfCatalogue(js), NEW i \in DOMAIN js
  PROVE  {js[i].label, js[i].model} \subseteq {"haiku", "sonnet", "opus"}
  BY DEF OutOfCatalogue

\* Whatever a router answers, the report the gate of promotion reads is refused or coherent: its
\* counts agree with its matrix and its weighted accuracy with the exact one (harness.py:89-108),
\* and its global error hides of the band that switches without a click no more than the rows
\* of the bin that the threshold cuts (harness.py:65-70, 227-254).
THEOREM ReportsAreConsistent == EvaluationSpec => []ReportsAgree
<1>1. EvaluationInit => judged \in Seq(Judgements)
  BY DEF EvaluationInit
<1>2. judged \in Seq(Judgements) /\ [Judge]_judged => (judged \in Seq(Judgements))'
  BY AppendProperties DEF Judge
<1>3. judged \in Seq(Judgements) => ReportsAgree
  <2> SUFFICES ASSUME judged \in Seq(Judgements), judged # <<>>, ~ OutOfCatalogue(judged)
               PROVE  CountsAgree(judged) /\ NothingElseIsHidden(judged)
    BY DEF ReportsAgree
  <2>1. Len(judged) \in Nat \ {0} /\ DOMAIN judged = 1 .. Len(judged)
    OBVIOUS
  <2>2. Judged(judged)
    <3>1. PICK scale : scale = 0 .. 1000
      OBVIOUS
    <3>2. \A c \in scale : Thousandths(c)
      BY <3>1 DEF Thousandths
    <3>3. \A i \in DOMAIN judged : Thousandths(judged[i].conf)
      <4>1. \A i \in DOMAIN judged : judged[i].conf \in scale
        BY <3>1, SMTT(20) DEF OutOfCatalogue
      <4> QED BY <3>2, <4>1, Zenon
    <3>4. \A i \in DOMAIN judged : {judged[i].label, judged[i].model} \subseteq {"haiku", "sonnet", "opus"}
      BY InCatalogue
    <3> QED BY <2>1, <3>3, <3>4, Zenon DEF Judged
  <2> QED BY <2>2, CountsAgreed, NothingElseHidden
<1> QED BY <1>1, <1>2, <1>3, PTL DEF EvaluationSpec

-----------------------------------------------------------------------------
(* Calibration: inductions over an interval. *)

\* A set with 0, and with the next number of any it has, has all up to n.
LEMMA IntervalInduction ==
  ASSUME NEW n \in Nat, NEW I, 0 \in I,
         \A k \in 1 .. n : k - 1 \in I => k \in I
  PROVE  \A k \in 0 .. n : k \in I
<1> DEFINE Upto(k) == 0 .. k
           J == {T \in SUBSET (0 .. n) : \A k \in 0 .. n : T = Upto(k) => k \in I}
<1>1. IsFiniteSet(0 .. n)
  <2>1. 0 \in Int /\ n \in Int
    OBVIOUS
  <2> QED BY <2>1, FS_Interval
<1>2. {} \in J
  <2>1. ASSUME NEW k \in 0 .. n PROVE Upto(k) # {}
    <3>1. 0 \in Upto(k)
      OBVIOUS
    <3> QED BY <3>1, Zenon
  <2> QED BY <2>1
<1>3. ASSUME NEW T \in SUBSET (0 .. n), \A x \in T : T \ {x} \in J PROVE T \in J
  <2> SUFFICES ASSUME NEW k \in 0 .. n, T = Upto(k) PROVE k \in I
    OBVIOUS
  <2>1. CASE k = 0
    BY <2>1
  <2>2. CASE k # 0
    <3>1. k \in T /\ k - 1 \in 0 .. n /\ k \in 1 .. n
      BY <2>2
    <3>2. T \ {k} = Upto(k - 1)
      BY <2>2
    <3> HIDE DEF Upto
    <3>3. k - 1 \in I
      BY <1>3, <3>1, <3>2
    <3> QED BY <3>1, <3>3
  <2> QED BY <2>1, <2>2
<1>4. \A T \in SUBSET (0 .. n) : T \in J
  <2> HIDE DEF J
  <2>1. \A T \in SUBSET (0 .. n) : (T # {} /\ \A x \in T : T \ {x} \in J) => T \in J
    BY <1>3
  <2>2. PICK S : S = 0 .. n
    OBVIOUS
  <2> QED BY <1>1, <1>2, <2>1, <2>2, SubsetInduction
<1> TAKE k \in 0 .. n
<1>5. Upto(k) \in SUBSET (0 .. n)
  OBVIOUS
<1> QED BY <1>4, <1>5

\* A step from the value at k - 1 to the value at k; g starts at base and follows the steps.
IsStep(step, n, D) == step \in [(1 .. n) \X D -> D]
Iterates(g, n, D, base, step) ==
  g \in [0 .. n -> D] /\ g[0] = base /\ \A k \in 1 .. n : g[k] = step[<<k, g[k - 1]>>]

\* A function defined from its value at 0 by a step that stays in a set exists.
LEMMA Recursion ==
  ASSUME NEW n \in Nat, NEW D, NEW base \in D, NEW step, IsStep(step, n, D)
  PROVE  \E g : Iterates(g, n, D, base, step)
<1> USE DEF IsStep
<1> DEFINE Solves(g, m) == /\ g \in [0 .. m -> D] /\ g[0] = base
                           /\ \A k \in 1 .. m : g[k] = step[<<k, g[k - 1]>>]
           I == {m \in 0 .. n : \E g : Solves(g, m)}
<1>1. 0 \in I
  <2>1. Solves([k \in 0 .. 0 |-> base], 0)
    OBVIOUS
  <2>2. 0 \in 0 .. n
    OBVIOUS
  <2> QED BY <2>1, <2>2
<1>2. ASSUME NEW m \in 1 .. n, m - 1 \in I PROVE m \in I
  <2>1. PICK g : Solves(g, m - 1)
    BY <1>2
  <2>2. PICK h : h = [k \in 0 .. m |-> IF k = m THEN step[<<m, g[m - 1]>>] ELSE g[k]]
    OBVIOUS
  <2>3. g[m - 1] \in D /\ step[<<m, g[m - 1]>>] \in D
    BY <2>1
  <2>4. h \in [0 .. m -> D] /\ h[0] = base
    BY <2>1, <2>2, <2>3
  <2>5. \A k \in 1 .. m : h[k] = step[<<k, h[k - 1]>>]
    <3> TAKE k \in 1 .. m
    <3>1. k \in 0 .. m /\ k - 1 \in 0 .. m /\ k - 1 # m
      OBVIOUS
    <3>2. h[k - 1] = g[k - 1]
      BY <2>2, <3>1
    <3>3. CASE k = m
      BY <2>2, <3>1, <3>2, <3>3
    <3>4. CASE k # m
      <4>1. k \in 1 .. m - 1 /\ h[k] = g[k]
        BY <2>2, <3>1, <3>4
      <4> QED BY <2>1, <3>2, <4>1
    <3> QED BY <3>3, <3>4
  <2>6. Solves(h, m)
    BY <2>4, <2>5
  <2> QED BY <2>6
<1>3. n \in I
  <2>1. n \in 0 .. n
    OBVIOUS
  <2> HIDE DEF I
  <2> QED BY <1>1, <1>2, <2>1, IntervalInduction
<1> QED BY <1>3 DEF Iterates

-----------------------------------------------------------------------------
(* Fractions. *)

\* A fraction, and the equality of two: 1/2 and 2/4.
Frac(a) == a.num \in Int /\ a.den \in Int /\ a.den > 0
Equal(a, b) == LessEq(a, b) /\ LessEq(b, a)

\* A product does not decrease with its first factor.
LEMMA TimesMono ==
  ASSUME NEW a \in Int, NEW b \in Int, NEW c \in Int, a <= b, c >= 0
  PROVE  a * c <= b * c
<1>1. (b - a) * c >= 0
  OBVIOUS
<1>2. (b - a) * c = b * c - a * c
  OBVIOUS
<1>3. a * c \in Int /\ b * c \in Int
  OBVIOUS
<1> QED BY <1>1, <1>2, <1>3

\* a/b <= c/d and c/d <= e/f, with the denominators multiplied out.
LEMMA CrossTrans ==
  ASSUME NEW a \in Int, NEW b \in Int, NEW c \in Int, NEW d \in Int, NEW e \in Int, NEW f \in Int,
         b > 0, d > 0, f > 0, a * d <= c * b, c * f <= e * d
  PROVE  a * f <= e * b
<1>1. PICK p, q, r, s : p = a * d /\ q = c * b /\ r = c * f /\ s = e * d
  OBVIOUS
<1>2. p \in Int /\ q \in Int /\ r \in Int /\ s \in Int /\ p <= q /\ r <= s
  BY <1>1
<1>3. p * f <= q * f /\ r * b <= s * b
  BY <1>2, TimesMono
<1>4. p * f = d * (a * f) /\ q * f = r * b /\ s * b = d * (e * b)
  BY <1>1
<1>5. d * (a * f) <= d * (e * b)
  <2>1. q * f \in Int
    BY <1>2
  <2>2. p * f \in Int /\ s * b \in Int
    BY <1>2
  <2> QED BY <1>3, <1>4, <2>1, <2>2
<1>6. a * f \in Int /\ e * b \in Int /\ d \in Nat
  OBVIOUS
<1> QED BY <1>5, <1>6, Cancel

\* The order of fractions is transitive,
LEMMA LessTrans ==
  ASSUME NEW a, NEW b, NEW c, Frac(a), Frac(b), Frac(c), LessEq(a, b), LessEq(b, c)
  PROVE  LessEq(a, c)
<1>1. /\ a.num \in Int /\ a.den \in Int /\ a.den > 0
      /\ b.num \in Int /\ b.den \in Int /\ b.den > 0
      /\ c.num \in Int /\ c.den \in Int /\ c.den > 0
      /\ a.num * b.den <= b.num * a.den /\ b.num * c.den <= c.num * b.den
  BY DEF Frac, LessEq
<1>2. a.num * c.den <= c.num * a.den
  BY <1>1, CrossTrans
<1> QED BY <1>2 DEF LessEq

\* reflexive and total.
LEMMA LessTotal ==
  ASSUME NEW a, NEW b, Frac(a), Frac(b)
  PROVE  LessEq(a, a) /\ (LessEq(a, b) \/ LessEq(b, a))
<1>1. PICK p, q, r : p = a.num * b.den /\ q = b.num * a.den /\ r = a.num * a.den
  OBVIOUS
<1>2. p \in Int /\ q \in Int /\ r \in Int
  BY <1>1 DEF Frac
<1> QED BY <1>1, <1>2 DEF LessEq

\* The mean of two groups: [num, den] added.
Plus(a, b) == [num |-> a.num + b.num, den |-> a.den + b.den]

\* The mean of two groups is a fraction,
LEMMA PlusIs ==
  ASSUME NEW a, NEW b, Frac(a), Frac(b)
  PROVE  /\ Frac(Plus(a, b))
         /\ Plus(a, b).num = a.num + b.num /\ Plus(a, b).den = a.den + b.den
  BY DEF Frac, Plus

\* between those of the groups; when it is below one of them, the other is.
LEMMA AbovePlus ==
  ASSUME NEW v, NEW a, NEW b, Frac(v), Frac(a), Frac(b)
  PROVE  /\ LessEq(v, a) /\ LessEq(v, b) => LessEq(v, Plus(a, b))
         /\ LessEq(a, v) /\ LessEq(b, v) => LessEq(Plus(a, b), v)
         /\ LessEq(v, a) /\ LessEq(Plus(a, b), v) => LessEq(b, v)
<1>1. PICK p, q, r, s : /\ p = v.num * a.den /\ q = a.num * v.den
                        /\ r = v.num * b.den /\ s = b.num * v.den
  OBVIOUS
<1>2. p \in Int /\ q \in Int /\ r \in Int /\ s \in Int
  BY <1>1 DEF Frac
<1>3. v.num * (a.den + b.den) = p + r /\ (a.num + b.num) * v.den = q + s
  BY <1>1 DEF Frac
<1>4. /\ LessEq(v, a) <=> p <= q
      /\ LessEq(a, v) <=> q <= p
      /\ LessEq(v, b) <=> r <= s
      /\ LessEq(b, v) <=> s <= r
  BY <1>1 DEF LessEq
<1>5. /\ LessEq(v, Plus(a, b)) <=> p + r <= q + s
      /\ LessEq(Plus(a, b), v) <=> q + s <= p + r
  BY <1>3, PlusIs DEF LessEq
<1> QED BY <1>2, <1>4, <1>5

\* InOrder lists the numbers of a finite set, in strict order: the i-th has i - 1 before it.
LEMMA InOrderIs ==
  ASSUME NEW S, S \subseteq Int, IsFiniteSet(S), NEW n, n = Cardinality(S), NEW s, s = InOrder(S)
  PROVE  /\ n \in Nat /\ DOMAIN s = 1 .. n
         /\ \A i \in 1 .. n : s[i] \in S
         /\ \A i, j \in 1 .. n : i < j => s[i] < s[j]
         /\ \A x \in S : \E i \in 1 .. n : s[i] = x
<1>1. PICK before : before = [x \in S |-> {y \in S : y < x}]
  OBVIOUS
<1>2. PICK rank : rank = [x \in S |-> Cardinality(before[x])]
  OBVIOUS
<1>3. n \in Nat
  BY FS_CardinalityType
<1>4. ASSUME NEW x \in S
      PROVE  /\ IsFiniteSet(before[x]) /\ before[x] \in SUBSET S /\ x \notin before[x]
             /\ rank[x] = Cardinality(before[x]) /\ rank[x] \in 0 .. n - 1
  <2>1. before[x] \in SUBSET S /\ x \notin before[x] /\ before[x] # S
    BY <1>1
  <2>2. IsFiniteSet(before[x]) /\ Cardinality(before[x]) <= n /\ Cardinality(before[x]) # n
    BY <2>1, FS_Subset
  <2>3. Cardinality(before[x]) \in Nat /\ rank[x] = Cardinality(before[x])
    BY <1>2, <2>2, FS_CardinalityType
  <2> QED BY <1>3, <2>1, <2>2, <2>3
<1>5. ASSUME NEW x \in S, NEW y \in S, x < y PROVE rank[x] < rank[y]
  <2>1. before[x] \in SUBSET before[y] /\ before[x] # before[y]
    <3>1. x \in before[y] /\ x \notin before[x]
      BY <1>1, <1>4, <1>5
    <3>2. ASSUME NEW z \in before[x] PROVE z \in before[y]
      <4>1. z \in S /\ z < x /\ z \in Int /\ x \in Int /\ y \in Int
        BY <1>1
      <4>2. z < y
        BY <1>5, <4>1
      <4> QED BY <1>1, <4>1, <4>2
    <3> QED BY <3>1, <3>2
  <2>2. Cardinality(before[x]) <= Cardinality(before[y]) /\ Cardinality(before[x]) # Cardinality(before[y])
    BY <1>4, <2>1, FS_Subset
  <2>3. PICK a, b : a = Cardinality(before[x]) /\ b = Cardinality(before[y])
    OBVIOUS
  <2>4. a \in Int /\ b \in Int /\ rank[x] = a /\ rank[y] = b
    <3>1. \A z \in 0 .. n - 1 : z \in Int
      BY <1>3
    <3> QED BY <1>4, <2>3, <3>1
  <2> QED BY <2>2, <2>3, <2>4
<1>6. ASSUME NEW m \in 0 .. n PROVE Cardinality({x \in S : Cardinality(before[x]) < m}) = m
  <2>1. before \in [S -> SUBSET S] /\ \A x \in S : x \notin before[x]
    BY <1>1, <1>4
  <2>2. \A x, y \in S : x # y => (x \in before[y] /\ before[x] \subseteq before[y])
                                  \/ (y \in before[x] /\ before[y] \subseteq before[x])
    <3>1. \A x, y \in S : x < y => x \in before[y] /\ before[x] \subseteq before[y]
      <4> TAKE x, y \in S
      <4> HAVE x < y
      <4>1. x \in Int /\ y \in Int /\ \A z \in before[x] : z \in Int /\ z \in S /\ z < x
        BY <1>1
      <4>2. \A z \in before[x] : z < y
        BY <4>1
      <4> QED BY <1>1, <4>1, <4>2
    <3>2. \A x, y \in S : x # y => x < y \/ y < x
      <4>1. \A x, y \in Int : x # y => x < y \/ y < x
        OBVIOUS
      <4> QED BY <4>1, Zenon
    <3> QED BY <3>1, <3>2, Zenon
  <2>3. m \in Nat /\ m <= Cardinality(S)
    BY <1>3
  <2> QED BY <2>1, <2>2, <2>3, EarlyOnes
<1>7. ASSUME NEW i \in 1 .. n PROVE s[i] \in S /\ rank[s[i]] = i - 1
  <2>1. PICK low, upto : /\ low = {x \in S : Cardinality(before[x]) < i - 1}
                         /\ upto = {x \in S : Cardinality(before[x]) < i}
    OBVIOUS
  <2>2. Cardinality(low) = i - 1 /\ Cardinality(upto) = i
    <3>1. i - 1 \in 0 .. n /\ i \in 0 .. n
      BY <1>3
    <3> QED BY <1>6, <2>1, <3>1
  <2>3. low \in SUBSET upto
    <3>1. \A x \in S : Cardinality(before[x]) \in Int
      BY <1>4, FS_CardinalityType
    <3>2. \A x \in S : Cardinality(before[x]) < i - 1 => Cardinality(before[x]) < i
      BY <1>3, <3>1
    <3> QED BY <2>1, <3>2
  <2>4. upto # low
    BY <1>3, <2>2
  <2>5. PICK x \in upto : x \notin low
    BY <2>3, <2>4
  <2>6. x \in S /\ Cardinality(before[x]) = i - 1
    BY <1>3, <1>4, <2>1, <2>5
  <2>7. Cardinality({y \in S : y < x}) = i - 1
    BY <1>1, <2>6
  <2>8. s[i] = CHOOSE z \in S : Cardinality({y \in S : y < z}) = i - 1
    BY DEF InOrder
  <2>9. s[i] \in S /\ Cardinality({y \in S : y < s[i]}) = i - 1
    BY <2>6, <2>7, <2>8
  <2> QED BY <1>1, <1>2, <2>9
<1>8. ASSUME NEW i \in 1 .. n, NEW j \in 1 .. n, i < j PROVE s[i] < s[j]
  <2>1. s[i] \in Int /\ s[j] \in Int /\ s[i] \in S /\ s[j] \in S
    BY <1>7
  <2>2. rank[s[i]] = i - 1 /\ rank[s[j]] = j - 1
    BY <1>7
  <2>3. ~ (s[j] < s[i])
    <3>1. SUFFICES ASSUME s[j] < s[i] PROVE FALSE
      OBVIOUS
    <3>2. rank[s[j]] < rank[s[i]]
      BY <1>5, <2>1, <3>1
    <3> QED BY <1>8, <2>2, <3>2
  <2>4. s[i] # s[j]
    BY <1>8, <2>2
  <2> QED BY <2>1, <2>3, <2>4
<1>9. ASSUME NEW x \in S PROVE \E i \in 1 .. n : s[i] = x
  <2>1. PICK i : i = rank[x] + 1
    OBVIOUS
  <2>2. i \in 1 .. n
    BY <1>3, <1>4, <2>1
  <2>3. s[i] \in S /\ rank[s[i]] = rank[x]
    BY <1>4, <1>7, <2>1, <2>2
  <2>4. ~ (s[i] < x) /\ ~ (x < s[i])
    <3>1. rank[x] \in Int
      BY <1>3, <1>4
    <3>2. s[i] < x => rank[s[i]] < rank[x]
      BY <1>5, <2>3
    <3>3. x < s[i] => rank[x] < rank[s[i]]
      BY <1>5, <2>3
    <3> QED BY <2>3, <3>1, <3>2, <3>3
  <2>5. s[i] \in Int /\ x \in Int
    BY <2>3
  <2> QED BY <2>2, <2>4, <2>5
<1>10. DOMAIN s = 1 .. n
  BY DEF InOrder
<1> QED BY <1>3, <1>7, <1>8, <1>9, <1>10

-----------------------------------------------------------------------------
(* The rows grouped, and the means of their windows. *)

\* Where the values of the calibration are.
Block == [sum : Nat, weight : Nat \ {0}, lo : 0 .. Scale, hi : 0 .. Scale]
Row == [conf : 0 .. Scale, correct : BOOLEAN]

\* The rows of a confidence are a block of their own, and confidences increase.
Groups(agg) ==
  /\ agg \in Seq(Block)
  /\ \A i \in 1 .. Len(agg) : agg[i].lo = agg[i].hi
  /\ \A i, j \in 1 .. Len(agg) : i < j => agg[i].lo < agg[j].lo

\* The rows grouped by confidence are such groups.
LEMMA AggregateIs == ASSUME NEW ps \in Seq(Row) PROVE Groups(Aggregate(ps))
<1>1. PICK S, n, xs : S = Confs(ps) /\ n = Cardinality(S) /\ xs = InOrder(S)
  OBVIOUS
<1>2. DOMAIN ps = 1 .. Len(ps) /\ Len(ps) \in Nat /\ \A i \in DOMAIN ps : ps[i].conf \in 0 .. Scale
  <2>1. \A r \in Row : r.conf \in 0 .. Scale
    BY DEF Row
  <2>2. DOMAIN ps = 1 .. Len(ps) /\ Len(ps) \in Nat /\ \A i \in DOMAIN ps : ps[i] \in Row
    OBVIOUS
  <2> QED BY <2>1, <2>2, Zenon
<1>3. IsFiniteSet(DOMAIN ps)
  <2>1. 1 \in Int /\ Len(ps) \in Int
    BY <1>2
  <2> QED BY <1>2, <2>1, FS_Interval
<1>4. IsFiniteSet(S)
  <2>1. PICK conf : conf = [i \in DOMAIN ps |-> ps[i].conf]
    OBVIOUS
  <2>2. S = {conf[i] : i \in DOMAIN ps}
    BY <1>1, <2>1 DEF Confs
  <2> QED BY <1>3, <2>2, ImageFinite
<1>5. S \in SUBSET (0 .. Scale)
  BY <1>1, <1>2 DEF Confs
<1>6. /\ n \in Nat /\ DOMAIN xs = 1 .. n
      /\ \A i \in 1 .. n : xs[i] \in S
      /\ \A i, j \in 1 .. n : i < j => xs[i] < xs[j]
  <2>1. S \subseteq Int
    BY <1>5, CalibrationAssumption
  <2> QED BY <1>1, <1>4, <2>1, InOrderIs
<1> DEFINE at(x) == {i \in DOMAIN ps : ps[i].conf = x}
           block(x) == [sum |-> Cardinality({i \in at(x) : ps[i].correct}),
                        weight |-> Cardinality(at(x)), lo |-> x, hi |-> x]
<1>7. Aggregate(ps) = [i \in 1 .. n |-> block(xs[i])]
  BY <1>1, <1>6 DEF Aggregate
<1>8. ASSUME NEW x \in S PROVE block(x) \in Block /\ block(x).lo = x /\ block(x).hi = x
  <2>1. IsFiniteSet(at(x)) /\ IsFiniteSet({i \in at(x) : ps[i].correct})
    <3>1. at(x) \in SUBSET DOMAIN ps /\ {i \in at(x) : ps[i].correct} \in SUBSET DOMAIN ps
      OBVIOUS
    <3> QED BY <1>3, <3>1, FS_Subset
  <2>2. at(x) # {}
    BY <1>1 DEF Confs
  <2>3. Cardinality(at(x)) \in Nat \ {0} /\ Cardinality({i \in at(x) : ps[i].correct}) \in Nat
    BY <2>1, <2>2, FS_CardinalityType, FS_EmptySet
  <2>4. x \in 0 .. Scale
    BY <1>5
  <2> QED BY <2>3, <2>4 DEF Block
<1> HIDE DEF block
<1>9. PICK agg : agg = [i \in 1 .. n |-> block(xs[i])]
  OBVIOUS
<1>10. \A i \in 1 .. n : agg[i] \in Block /\ agg[i].lo = xs[i] /\ agg[i].hi = xs[i]
  BY <1>6, <1>8, <1>9
<1>11. agg \in Seq(Block) /\ Len(agg) = n
  BY <1>6, <1>9, <1>10
<1>12. \A i, j \in 1 .. n : i < j => agg[i].lo < agg[j].lo
  BY <1>6, <1>10
<1> QED BY <1>7, <1>9, <1>10, <1>11, <1>12 DEF Groups

\* The mean of the groups from j to k.
SumsOf(agg) == [i \in DOMAIN agg |-> agg[i].sum]
WeightsOf(agg) == [i \in DOMAIN agg |-> agg[i].weight]
Mean(agg, j, k) == [num |-> SumFunctionOnSet(SumsOf(agg), j .. k),
                    den |-> SumFunctionOnSet(WeightsOf(agg), j .. k)]
Value(b) == [num |-> b.sum, den |-> b.weight]

\* A block has a positive weight, so that its mean is a fraction.
LEMMA BlockIs ==
  ASSUME NEW b \in Block
  PROVE  /\ b.sum \in Nat /\ b.weight \in Nat /\ b.weight > 0
         /\ Value(b).num = b.sum /\ Value(b).den = b.weight /\ Frac(Value(b))
  BY DEF Block, Value, Frac

\* So has every group.
LEMMA GroupsAre ==
  ASSUME NEW agg, Groups(agg)
  PROVE  /\ Len(agg) \in Nat /\ DOMAIN agg = 1 .. Len(agg)
         /\ \A i \in 1 .. Len(agg) : /\ agg[i] \in Block
                                     /\ SumsOf(agg)[i] \in Nat /\ SumsOf(agg)[i] = agg[i].sum
                                     /\ WeightsOf(agg)[i] \in Nat /\ WeightsOf(agg)[i] > 0
                                     /\ WeightsOf(agg)[i] = agg[i].weight
<1>1. Len(agg) \in Nat /\ DOMAIN agg = 1 .. Len(agg) /\ \A i \in 1 .. Len(agg) : agg[i] \in Block
  BY DEF Groups
<1>2. \A i \in 1 .. Len(agg) : SumsOf(agg)[i] = agg[i].sum /\ WeightsOf(agg)[i] = agg[i].weight
  BY <1>1 DEF SumsOf, WeightsOf
<1> QED BY <1>1, <1>2, BlockIs

\* The mean of a window is that of its two parts.
LEMMA MeanPlus ==
  ASSUME NEW agg, Groups(agg), NEW j \in 1 .. Len(agg), NEW k \in 1 .. Len(agg), NEW l \in Int, j <= l, l < k
  PROVE  Mean(agg, j, k) = Plus(Mean(agg, j, l), Mean(agg, l + 1, k))
<1>1. /\ j \in Int /\ k \in Int /\ l \in Int /\ l + 1 \in Int
      /\ j .. k = (j .. l) \cup ((l + 1) .. k) /\ (j .. l) \cap ((l + 1) .. k) = {}
      /\ \A x \in j .. k : x \in 1 .. Len(agg)
  BY GroupsAre
<1>2. IsFiniteSet(j .. l) /\ IsFiniteSet((l + 1) .. k)
  BY <1>1, FS_Interval
<1>3. PICK S, T : S = j .. l /\ T = (l + 1) .. k
  OBVIOUS
<1>4. ASSUME NEW f, \A x \in 1 .. Len(agg) : f[x] \in Nat
      PROVE  SumFunctionOnSet(f, j .. k) = SumFunctionOnSet(f, j .. l) + SumFunctionOnSet(f, (l + 1) .. k)
  <2>1. /\ IsFiniteSet(S) /\ IsFiniteSet(T) /\ S \cap T = {} /\ j .. k = S \cup T
        /\ \A x \in S \cup T : f[x] \in Nat
    BY <1>1, <1>2, <1>3, <1>4
  <2>2. SumFunctionOnSet(f, S \cup T) = SumFunctionOnSet(f, S) + SumFunctionOnSet(f, T)
    BY <2>1, SumUnion
  <2> QED BY <1>3, <2>1, <2>2
<1>5. /\ SumFunctionOnSet(SumsOf(agg), j .. k)
           = SumFunctionOnSet(SumsOf(agg), j .. l) + SumFunctionOnSet(SumsOf(agg), (l + 1) .. k)
      /\ SumFunctionOnSet(WeightsOf(agg), j .. k)
           = SumFunctionOnSet(WeightsOf(agg), j .. l) + SumFunctionOnSet(WeightsOf(agg), (l + 1) .. k)
  BY <1>4, GroupsAre
<1> QED BY <1>5 DEF Mean, Plus

\* It is a fraction; of one group, the mean of that group.
LEMMA MeanIs ==
  ASSUME NEW agg, Groups(agg), NEW j \in 1 .. Len(agg), NEW k \in 1 .. Len(agg), j <= k
  PROVE  /\ Mean(agg, j, k).num \in Nat /\ Mean(agg, j, k).den \in Nat /\ Frac(Mean(agg, j, k))
         /\ Mean(agg, j, j) = Value(agg[j])
<1>1. /\ j .. j = {j} /\ j \in j .. k /\ \A x \in j .. k : x \in 1 .. Len(agg)
      /\ j \in Int /\ k \in Int
  BY GroupsAre
<1>2. IsFiniteSet(j .. k)
  BY <1>1, FS_Interval
<1>3. PICK S : S = j .. k
  OBVIOUS
<1>4. /\ \A x \in S : SumsOf(agg)[x] \in Nat /\ WeightsOf(agg)[x] \in Nat /\ WeightsOf(agg)[x] > 0
      /\ IsFiniteSet(S) /\ j \in S
  BY <1>1, <1>2, <1>3, GroupsAre
<1>5. SumFunctionOnSet(SumsOf(agg), S) \in Nat /\ SumFunctionOnSet(WeightsOf(agg), S) \in Nat
  BY <1>4, SumNat
<1>6. SumFunctionOnSet(WeightsOf(agg), S) > 0
  <2>1. /\ SumFunctionOnSet(WeightsOf(agg), S) = WeightsOf(agg)[j] + SumFunctionOnSet(WeightsOf(agg), S \ {j})
        /\ SumFunctionOnSet(WeightsOf(agg), S \ {j}) \in Nat
    BY <1>4, SumRemove
  <2> QED BY <1>4, <2>1
<1>7. /\ SumFunctionOnSet(SumsOf(agg), {j}) = agg[j].sum
      /\ SumFunctionOnSet(WeightsOf(agg), {j}) = agg[j].weight
  <2>1. /\ SumsOf(agg)[j] \in Nat /\ SumsOf(agg)[j] = agg[j].sum
        /\ WeightsOf(agg)[j] \in Nat /\ WeightsOf(agg)[j] = agg[j].weight
    BY GroupsAre
  <2>2. SumFunctionOnSet(SumsOf(agg), {j}) = SumsOf(agg)[j]
    BY <2>1, SumOne
  <2>3. SumFunctionOnSet(WeightsOf(agg), {j}) = WeightsOf(agg)[j]
    BY <2>1, SumOne
  <2> QED BY <2>1, <2>2, <2>3
<1>8. Mean(agg, j, j) = Value(agg[j])
  BY <1>1, <1>7 DEF Mean, Value
<1>9. /\ Mean(agg, j, k).num = SumFunctionOnSet(SumsOf(agg), S)
      /\ Mean(agg, j, k).den = SumFunctionOnSet(WeightsOf(agg), S)
  BY <1>3 DEF Mean
<1> QED BY <1>5, <1>6, <1>8, <1>9 DEF Frac

-----------------------------------------------------------------------------
(* A stack of blocks. Block i is of the groups after e[i - 1], up to e[i]. *)

CutInto(agg, s, e, k) ==
  /\ s \in Seq(Block)
  /\ e \in [0 .. Len(s) -> 0 .. k] /\ e[0] = 0 /\ e[Len(s)] = k
  /\ \A i, j \in 0 .. Len(s) : i < j => e[i] < e[j]
  /\ \A i \in 1 .. Len(s) : /\ Value(s[i]) = Mean(agg, e[i - 1] + 1, e[i])
                            /\ s[i].lo = agg[e[i - 1] + 1].lo /\ s[i].hi = agg[e[i]].hi

\* What begins where the block begins has no lesser mean, up to the k-th group.
Above(agg, b, from, k) == \A t \in 1 .. k : t > from => LessEq(Value(b), Mean(agg, from + 1, t))

\* What ends where the block ends has no greater mean.
Below(agg, b, end) == \A t \in 1 .. end : LessEq(Mean(agg, t, end), Value(b))

\* The first q blocks are in order.
InPlace(agg, s, e, q, k) ==
  /\ \A i, j \in 1 .. q : i < j => LessEq(Value(s[i]), Value(s[j]))
  /\ \A i \in 1 .. q : Above(agg, s[i], e[i - 1], k) /\ Below(agg, s[i], e[i])

\* The first k groups are pooled; or their last block is still to be compared.
Pooled(agg, s, k) == \E e : CutInto(agg, s, e, k) /\ InPlace(agg, s, e, Len(s), k)
Pooling(agg, s, k) ==
  /\ Len(s) > 0
  /\ \E e : /\ CutInto(agg, s, e, k) /\ InPlace(agg, s, e, Len(s) - 1, k - 1)
            /\ Above(agg, s[Len(s)], e[Len(s) - 1], k)

\* The blocks of a cut, and where they begin and end.
LEMMA CutIs ==
  ASSUME NEW agg, Groups(agg), NEW s, NEW e, NEW k \in 0 .. Len(agg), CutInto(agg, s, e, k)
  PROVE  /\ Len(s) \in Nat /\ s \in Seq(Block)
         /\ \A i \in 0 .. Len(s) : e[i] \in 0 .. k
         /\ \A i \in 1 .. Len(s) : /\ s[i] \in Block /\ Frac(Value(s[i]))
                                   /\ e[i - 1] + 1 \in 1 .. k /\ e[i] \in 1 .. k
                                   /\ e[i - 1] < e[i] /\ e[i - 1] + 1 <= e[i]
                                   /\ e[i - 1] + 1 \in 1 .. Len(agg) /\ e[i] \in 1 .. Len(agg)
<1>1. Len(s) \in Nat /\ s \in Seq(Block) /\ \A i \in 1 .. Len(s) : s[i] \in Block
  BY DEF CutInto
<1>2. \A i \in 0 .. Len(s) : e[i] \in 0 .. k
  BY DEF CutInto
<1>3. Len(agg) \in Nat
  BY GroupsAre
<1>4. ASSUME NEW i \in 1 .. Len(s)
      PROVE  /\ e[i - 1] + 1 \in 1 .. k /\ e[i] \in 1 .. k
             /\ e[i - 1] < e[i] /\ e[i - 1] + 1 <= e[i]
             /\ e[i - 1] + 1 \in 1 .. Len(agg) /\ e[i] \in 1 .. Len(agg)
  <2>1. PICK a, b : a = e[i - 1] /\ b = e[i]
    OBVIOUS
  <2>2. i - 1 \in 0 .. Len(s) /\ i \in 0 .. Len(s) /\ i - 1 < i
    BY <1>1
  <2>3. a \in 0 .. k /\ b \in 0 .. k /\ a < b
    BY <1>2, <2>1, <2>2 DEF CutInto
  <2> QED BY <1>3, <2>1, <2>3
<1> QED BY <1>1, <1>2, <1>4, BlockIs

\* A group that joins the stack is the block to compare.
LEMMA JoinStack ==
  ASSUME NEW agg, Groups(agg), NEW s, NEW k \in 0 .. Len(agg), k < Len(agg), Pooled(agg, s, k)
  PROVE  Pooling(agg, Append(s, agg[k + 1]), k + 1)
<1>1. PICK e : CutInto(agg, s, e, k) /\ InPlace(agg, s, e, Len(s), k)
  BY DEF Pooled
<1>2. PICK m, b : m = Len(s) /\ b = agg[k + 1]
  OBVIOUS
<1>3. PICK r, f : r = Append(s, b) /\ f = [i \in 0 .. m + 1 |-> IF i <= m THEN e[i] ELSE k + 1]
  OBVIOUS
<1>4. /\ m \in Nat /\ s \in Seq(Block) /\ Len(agg) \in Nat
      /\ k + 1 \in 1 .. Len(agg) /\ b \in Block /\ k \in Nat
  BY <1>1, <1>2, CutIs, GroupsAre
<1>5. /\ r \in Seq(Block) /\ Len(r) = m + 1 /\ r[m + 1] = b
      /\ \A i \in 1 .. m : r[i] = s[i]
  BY <1>2, <1>3, <1>4, AppendProperties
<1>6. /\ f[m + 1] = k + 1 /\ \A i \in 0 .. m : f[i] = e[i] /\ e[i] \in 0 .. k
      /\ e[m] = k /\ e[0] = 0 /\ \A i \in 1 .. m : f[i - 1] = e[i - 1]
      /\ f[0] = 0 /\ f[m] = k
  <2>1. (\A i \in 0 .. m : e[i] \in 0 .. k) /\ e[m] = k /\ e[0] = 0
    BY <1>1, <1>2 DEF CutInto
  <2>2. f[m + 1] = k + 1 /\ \A i \in 0 .. m : f[i] = e[i]
    BY <1>3, <1>4
  <2>3. 0 \in 0 .. m /\ m \in 0 .. m /\ \A i \in 1 .. m : i - 1 \in 0 .. m
    BY <1>4
  <2> QED BY <2>1, <2>2, <2>3
<1>7. f \in [0 .. m + 1 -> 0 .. k + 1]
  <2>1. \A i \in 0 .. m + 1 : f[i] \in 0 .. k + 1
    <3>1. \A i \in 0 .. m + 1 : i \in 0 .. m \/ i = m + 1
      BY <1>4
    <3>2. k + 1 \in 0 .. k + 1 /\ \A x \in 0 .. k : x \in 0 .. k + 1
      BY <1>4
    <3> QED BY <1>6, <3>1, <3>2
  <2> QED BY <1>3, <2>1
<1>8. \A i, j \in 0 .. m + 1 : i < j => f[i] < f[j]
  <2> TAKE i, j \in 0 .. m + 1
  <2> HAVE i < j
  <2>1. CASE j = m + 1
    <3>1. i \in 0 .. m /\ f[i] \in 0 .. k
      BY <1>4, <1>6, <2>1
    <3> QED BY <1>4, <1>6, <2>1, <3>1
  <2>2. CASE j # m + 1
    <3>1. i \in 0 .. m /\ j \in 0 .. m
      BY <1>4, <2>2
    <3> QED BY <1>1, <1>2, <1>6, <3>1 DEF CutInto
  <2> QED BY <2>1, <2>2
<1>9. /\ Mean(agg, k + 1, k + 1) = Value(b) /\ b.lo = b.hi /\ Frac(Value(b))
  <2>1. PICK j : j = k + 1
    OBVIOUS
  <2>2. j \in 1 .. Len(agg) /\ b = agg[j] /\ j <= j
    BY <1>2, <1>4, <2>1
  <2>3. Mean(agg, j, j) = Value(agg[j]) /\ agg[j].lo = agg[j].hi
    BY <2>2, MeanIs DEF Groups
  <2> QED BY <1>4, <2>1, <2>2, <2>3, BlockIs
<1>10. CutInto(agg, r, f, k + 1)
  <2>1. ASSUME NEW i \in 1 .. m + 1
        PROVE  /\ Value(r[i]) = Mean(agg, f[i - 1] + 1, f[i])
               /\ r[i].lo = agg[f[i - 1] + 1].lo /\ r[i].hi = agg[f[i]].hi
    <3>1. CASE i = m + 1
      <4>1. m + 1 - 1 = m
        BY <1>4
      <4> QED BY <1>2, <1>4, <1>5, <1>6, <1>9, <3>1, <4>1
    <3>2. CASE i # m + 1
      <4>1. i \in 1 .. m /\ i \in 0 .. m
        BY <1>4, <3>2
      <4>2. r[i] = s[i] /\ f[i - 1] = e[i - 1] /\ f[i] = e[i]
        BY <1>5, <1>6, <4>1
      <4>3. /\ Value(s[i]) = Mean(agg, e[i - 1] + 1, e[i])
            /\ s[i].lo = agg[e[i - 1] + 1].lo /\ s[i].hi = agg[e[i]].hi
        BY <1>1, <1>2, <4>1 DEF CutInto
      <4> QED BY <4>2, <4>3
    <3> QED BY <3>1, <3>2
  <2> QED BY <1>5, <1>6, <1>7, <1>8, <2>1 DEF CutInto
<1>11. InPlace(agg, r, f, m, k)
  <2>1. \A i \in 1 .. m : r[i] = s[i] /\ f[i - 1] = e[i - 1] /\ f[i] = e[i]
    <3>1. \A i \in 1 .. m : i \in 0 .. m
      BY <1>4
    <3> QED BY <1>5, <1>6, <3>1
  <2> QED BY <1>1, <1>2, <2>1 DEF InPlace
<1>12. Above(agg, r[m + 1], f[m], k + 1)
  <2>1. \A t \in 1 .. k + 1 : t > k => t = k + 1
    BY <1>4
  <2>2. LessEq(Value(b), Value(b))
    BY <1>9, LessTotal
  <2> QED BY <1>5, <1>6, <1>9, <2>1, <2>2 DEF Above
<1>13. Len(r) - 1 = m /\ k + 1 - 1 = k /\ Len(r) > 0
  BY <1>4, <1>5
<1>14. InPlace(agg, r, f, Len(r) - 1, k + 1 - 1) /\ Above(agg, r[Len(r)], f[Len(r) - 1], k + 1)
  BY <1>5, <1>11, <1>12, <1>13
<1>15. Pooling(agg, r, k + 1)
  BY <1>10, <1>13, <1>14 DEF Pooling
<1> QED BY <1>2, <1>3, <1>15

\* Two blocks pooled are a block.
LEMMA PoolIs == ASSUME NEW p \in Block, NEW q \in Block PROVE Pool(p, q) \in Block
<1>1. \A x \in Block : /\ x.sum \in Nat /\ x.weight \in Nat /\ x.weight > 0
                       /\ x.lo \in 0 .. Scale /\ x.hi \in 0 .. Scale
  BY DEF Block
<1>2. PICK x, y : x = p.sum + q.sum /\ y = p.weight + q.weight
  OBVIOUS
<1>3. x \in Nat /\ y \in Nat \ {0}
  <2>1. PICK a, c, d, g : a = p.sum /\ c = q.sum /\ d = p.weight /\ g = q.weight
    OBVIOUS
  <2>2. a \in Nat /\ c \in Nat /\ d \in Nat /\ g \in Nat /\ d > 0
    BY <1>1, <2>1
  <2> QED BY <1>2, <2>1, <2>2
<1>4. \A u \in Nat, v \in Nat \ {0}, z, w \in 0 .. Scale :
        [sum |-> u, weight |-> v, lo |-> z, hi |-> w] \in Block
  BY DEF Block
<1>5. Pool(p, q) = [sum |-> x, weight |-> y, lo |-> p.lo, hi |-> q.hi]
  BY <1>2 DEF Pool
<1>6. p.lo \in 0 .. Scale /\ q.hi \in 0 .. Scale
  BY <1>1
<1> QED BY <1>3, <1>4, <1>5, <1>6, Zenon

\* A turn keeps the stack, one block shorter or as it is; as it is, it is pooled.
LEMMA MergeKeeps ==
  ASSUME NEW agg, Groups(agg), NEW s, NEW k \in 1 .. Len(agg), Pooling(agg, s, k),
         Len(s) >= 2, NotBelow(s[Len(s) - 1], s[Len(s)])
  PROVE  Pooling(agg, Merge(s), k) /\ Len(Merge(s)) = Len(s) - 1
<1>1. PICK e : /\ CutInto(agg, s, e, k) /\ InPlace(agg, s, e, Len(s) - 1, k - 1)
               /\ Above(agg, s[Len(s)], e[Len(s) - 1], k)
  BY DEF Pooling
<1>2. PICK m, p, q : m = Len(s) /\ p = s[m - 1] /\ q = s[m]
  OBVIOUS
<1>3. PICK b, r, f : b = Pool(p, q) /\ r = Append(SubSeq(s, 1, m - 2), b)
                     /\ f = [i \in 0 .. m - 1 |-> IF i <= m - 2 THEN e[i] ELSE k]
  OBVIOUS
<1>4. /\ m \in Nat /\ m >= 2 /\ k \in Nat /\ Len(agg) \in Nat /\ k \in 0 .. Len(agg) /\ s \in Seq(Block)
      /\ m - 1 \in 1 .. m /\ m \in 1 .. m
  BY <1>1, <1>2, CutIs, GroupsAre
<1>5. \A i \in 1 .. m : s[i] \in Block
  BY <1>2, <1>4
<1>6. p \in Block /\ q \in Block /\ b \in Block
  BY <1>2, <1>3, <1>4, <1>5, PoolIs
<1>7. Frac(Value(p)) /\ Frac(Value(q)) /\ Frac(Value(b)) /\ Value(b) = Plus(Value(p), Value(q))
  <2>1. Value(b) = Plus(Value(p), Value(q))
    BY <1>3 DEF Pool, Value, Plus
  <2> QED BY <1>6, <2>1, BlockIs
<1>8. LessEq(Value(b), Value(p))
  <2>1. LessEq(Value(q), Value(p))
    BY <1>2, BlockIs DEF NotBelow, LessEq, Value
  <2>2. LessEq(Value(p), Value(p))
    BY <1>7, LessTotal
  <2> QED BY <1>7, <2>1, <2>2, AbovePlus
<1>9. /\ r \in Seq(Block) /\ Len(r) = m - 1 /\ r[m - 1] = b
      /\ \A i \in 1 .. m - 2 : r[i] = s[i]
  <2>1. PICK u : u = SubSeq(s, 1, m - 2)
    OBVIOUS
  <2>2. \A i \in 1 .. m - 2 : s[i] \in Block
    BY <1>4, <1>5
  <2>3. /\ u \in Seq(Block) /\ Len(u) = m - 2 /\ \A i \in 1 .. m - 2 : u[i] = s[i]
    <3>1. 1 \in Int /\ m - 2 \in Int
      BY <1>4
    <3>2. /\ u \in Seq(Block)
          /\ Len(u) = IF 1 <= m - 2 THEN m - 2 - 1 + 1 ELSE 0
          /\ \A i \in 1 .. m - 2 - 1 + 1 : u[i] = s[1 + i - 1]
      BY <2>1, <2>2, <3>1, SubSeqProperties
    <3>3. \A i \in 1 .. m - 2 : i \in 1 .. m - 2 - 1 + 1 /\ 1 + i - 1 = i
      BY <1>4
    <3> QED BY <1>4, <3>2, <3>3
  <2> QED BY <1>3, <1>4, <1>6, <2>1, <2>3, AppendProperties
<1>10. Merge(s) = r
  BY <1>2, <1>3, <1>4 DEF Merge
<1>11. /\ f[m - 1] = k /\ \A i \in 0 .. m - 2 : f[i] = e[i] /\ e[i] \in 0 .. k
       /\ \A i \in 1 .. m - 2 : f[i - 1] = e[i - 1] /\ f[i] = e[i]
       /\ f[0] = 0 /\ e[m - 2] \in 0 .. k /\ e[m - 1] \in 0 .. k /\ e[m] = k
       /\ e[m - 2] < e[m - 1] /\ e[m - 1] < k /\ f[m - 2] = e[m - 2]
  <2>1. /\ \A i \in 0 .. m : e[i] \in 0 .. k
        /\ \A i, j \in 0 .. m : i < j => e[i] < e[j]
        /\ e[0] = 0 /\ e[m] = k
    BY <1>1, <1>2, <1>4, CutIs DEF CutInto
  <2>2. m - 2 \in 0 .. m /\ m - 1 \in 0 .. m /\ m \in 0 .. m /\ m - 2 < m - 1 /\ m - 1 < m
    BY <1>4
  <2>3. f[m - 1] = k /\ \A i \in 0 .. m - 2 : f[i] = e[i] /\ i \in 0 .. m
    BY <1>3, <1>4
  <2>4. 0 \in 0 .. m - 2 /\ m - 2 \in 0 .. m - 2
        /\ \A i \in 1 .. m - 2 : i \in 0 .. m - 2 /\ i - 1 \in 0 .. m - 2
    BY <1>4
  <2> QED BY <2>1, <2>2, <2>3, <2>4
<1>12. f \in [0 .. m - 1 -> 0 .. k]
  <2>1. \A i \in 0 .. m - 1 : i \in 0 .. m - 2 \/ i = m - 1
    BY <1>4
  <2>2. k \in 0 .. k
    BY <1>4
  <2>3. \A i \in 0 .. m - 1 : f[i] \in 0 .. k
    BY <1>11, <2>1, <2>2
  <2> QED BY <1>3, <2>3
<1>13. \A i, j \in 0 .. m - 1 : i < j => f[i] < f[j]
  <2> TAKE i, j \in 0 .. m - 1
  <2> HAVE i < j
  <2>1. /\ \A x, y \in 0 .. m : x < y => e[x] < e[y]
        /\ e[m] = k
    BY <1>1, <1>2 DEF CutInto
  <2>2. i \in 0 .. m /\ j \in 0 .. m /\ m \in 0 .. m /\ i < m /\ i \in 0 .. m - 2
    BY <1>4
  <2>3. CASE j = m - 1
    BY <1>11, <2>1, <2>2, <2>3
  <2>4. CASE j # m - 1
    <3>1. j \in 0 .. m - 2
      BY <1>4, <2>4
    <3> QED BY <1>11, <2>1, <2>2, <3>1
  <2> QED BY <2>3, <2>4
<1>14. /\ Value(p) = Mean(agg, e[m - 2] + 1, e[m - 1]) /\ p.lo = agg[e[m - 2] + 1].lo
       /\ Value(q) = Mean(agg, e[m - 1] + 1, k) /\ q.hi = agg[k].hi
  <2>1. \A i \in 1 .. m : /\ Value(s[i]) = Mean(agg, e[i - 1] + 1, e[i])
                          /\ s[i].lo = agg[e[i - 1] + 1].lo /\ s[i].hi = agg[e[i]].hi
    BY <1>1, <1>2 DEF CutInto
  <2>2. m - 1 - 1 = m - 2
    BY <1>4
  <2> QED BY <1>2, <1>4, <1>11, <2>1, <2>2
<1>15. Value(b) = Mean(agg, e[m - 2] + 1, k) /\ b.lo = agg[e[m - 2] + 1].lo /\ b.hi = agg[k].hi
  <2>1. Mean(agg, e[m - 2] + 1, k) = Plus(Mean(agg, e[m - 2] + 1, e[m - 1]), Mean(agg, e[m - 1] + 1, k))
    <3>1. PICK j, l : j = e[m - 2] + 1 /\ l = e[m - 1]
      OBVIOUS
    <3>2. j \in 1 .. Len(agg) /\ l \in Int /\ j <= l /\ l < k
      <4>1. PICK x : x = e[m - 2]
        OBVIOUS
      <4>2. x \in 0 .. k /\ l \in 0 .. k /\ x < l /\ l < k /\ j = x + 1
        BY <1>11, <3>1, <4>1
      <4> QED BY <1>4, <4>2
    <3>3. Mean(agg, j, k) = Plus(Mean(agg, j, l), Mean(agg, l + 1, k))
      BY <3>2, MeanPlus
    <3> QED BY <3>1, <3>3
  <2> QED BY <1>3, <1>7, <1>14, <2>1 DEF Pool
<1>16. CutInto(agg, r, f, k)
  <2>1. ASSUME NEW i \in 1 .. m - 1
        PROVE  /\ Value(r[i]) = Mean(agg, f[i - 1] + 1, f[i])
               /\ r[i].lo = agg[f[i - 1] + 1].lo /\ r[i].hi = agg[f[i]].hi
    <3>1. CASE i = m - 1
      <4>1. m - 1 - 1 = m - 2
        BY <1>4
      <4> QED BY <1>9, <1>11, <1>15, <3>1, <4>1
    <3>2. CASE i # m - 1
      <4>1. i \in 1 .. m - 2 /\ i \in 1 .. m
        BY <1>4, <3>2
      <4>2. /\ Value(s[i]) = Mean(agg, e[i - 1] + 1, e[i])
            /\ s[i].lo = agg[e[i - 1] + 1].lo /\ s[i].hi = agg[e[i]].hi
        BY <1>1, <1>2, <4>1 DEF CutInto
      <4> QED BY <1>9, <1>11, <4>1, <4>2
    <3> QED BY <3>1, <3>2
  <2> QED BY <1>9, <1>11, <1>12, <1>13, <2>1 DEF CutInto
<1>17. InPlace(agg, r, f, m - 2, k - 1)
  <2>1. \A i \in 1 .. m - 2 : /\ r[i] = s[i] /\ f[i - 1] = e[i - 1] /\ f[i] = e[i]
                              /\ i \in 1 .. m - 1
    <3>1. \A i \in 1 .. m - 2 : i \in 1 .. m - 1
      BY <1>4
    <3> QED BY <1>9, <1>11, <3>1, Zenon
  <2> QED BY <1>1, <1>2, <2>1 DEF InPlace
<1>18. Above(agg, b, e[m - 2], k)
  <2> SUFFICES ASSUME NEW t \in 1 .. k, t > e[m - 2]
               PROVE  LessEq(Value(b), Mean(agg, e[m - 2] + 1, t))
    BY DEF Above
  <2>1. CASE t = k
    BY <1>7, <1>15, <2>1, LessTotal
  <2>2. CASE t # k
    <3>1. t \in 1 .. k - 1
      BY <1>4, <2>2
    <3>2. Above(agg, p, e[m - 2], k - 1)
      <4>1. m - 1 \in 1 .. m - 1 /\ m - 1 - 1 = m - 2
        BY <1>4
      <4> QED BY <1>1, <1>2, <4>1 DEF InPlace
    <3>3. LessEq(Value(p), Mean(agg, e[m - 2] + 1, t))
      BY <3>1, <3>2 DEF Above
    <3>4. Frac(Mean(agg, e[m - 2] + 1, t))
      <4>1. PICK j : j = e[m - 2] + 1
        OBVIOUS
      <4>2. j \in 1 .. Len(agg) /\ t \in 1 .. Len(agg) /\ j <= t
        <5>1. PICK x : x = e[m - 2]
          OBVIOUS
        <5>2. x \in 0 .. k /\ t > x
          BY <1>11, <5>1
        <5>3. j = x + 1
          BY <4>1, <5>1
        <5> QED BY <1>4, <5>2, <5>3
      <4> QED BY <4>1, <4>2, MeanIs
    <3> QED BY <1>7, <1>8, <3>3, <3>4, LessTrans
  <2> QED BY <2>1, <2>2
<1>19. Len(r) - 1 = m - 2 /\ Len(r) > 0
  BY <1>4, <1>9
<1> QED BY <1>2, <1>9, <1>10, <1>11, <1>16, <1>17, <1>18, <1>19 DEF Pooling

Still(s) == ~ (Len(s) >= 2 /\ NotBelow(s[Len(s) - 1], s[Len(s)]))

\* When the last block swallows no other, it is in order, and no mean that it begins or ends
\* contradicts its own.
LEMMA StillIsPooled ==
  ASSUME NEW agg, Groups(agg), NEW s, NEW k \in 1 .. Len(agg), Pooling(agg, s, k), Still(s)
  PROVE  Pooled(agg, s, k)
<1>1. PICK e : /\ CutInto(agg, s, e, k) /\ InPlace(agg, s, e, Len(s) - 1, k - 1)
               /\ Above(agg, s[Len(s)], e[Len(s) - 1], k)
  BY DEF Pooling
<1>2. PICK m, q, c : m = Len(s) /\ q = s[m] /\ c = e[m - 1]
  OBVIOUS
<1>3. /\ m \in Nat /\ m > 0 /\ k \in Nat /\ Len(agg) \in Nat /\ k <= Len(agg) /\ k \in 1 .. Len(agg)
      /\ k \in 0 .. Len(agg) /\ m \in 1 .. m
  BY <1>1, <1>2, CutIs, GroupsAre DEF Pooling
<1>4. /\ \A i \in 1 .. m : /\ s[i] \in Block /\ Frac(Value(s[i]))
                           /\ e[i - 1] + 1 \in 1 .. k /\ e[i] \in 1 .. k /\ e[i - 1] < e[i]
                           /\ e[i - 1] + 1 \in 1 .. Len(agg)
      /\ \A i \in 0 .. m : e[i] \in 0 .. k
  BY <1>1, <1>2, <1>3, CutIs
<1>5. /\ q \in Block /\ Frac(Value(q)) /\ c \in 0 .. k /\ c < k /\ c + 1 \in 1 .. Len(agg)
      /\ Value(q) = Mean(agg, c + 1, k) /\ Above(agg, q, c, k)
  <2>1. Value(s[m]) = Mean(agg, e[m - 1] + 1, e[m]) /\ e[m] = k
    BY <1>1, <1>2, <1>3 DEF CutInto
  <2>2. m - 1 \in 0 .. m
    BY <1>3
  <2> QED BY <1>1, <1>2, <1>3, <1>4, <2>1, <2>2
<1>6. ASSUME NEW i \in 1 .. m - 1
      PROVE  /\ i \in 1 .. m /\ Above(agg, s[i], e[i - 1], k - 1) /\ Below(agg, s[i], e[i])
             /\ e[i] \in 1 .. k /\ e[i - 1] \in 0 .. k /\ e[i] <= c /\ e[i - 1] < e[i]
             /\ Frac(Value(s[i]))
  <2>1. i \in 1 .. m /\ i \in 0 .. m /\ m - 1 \in 0 .. m /\ i - 1 \in 0 .. m
    BY <1>3
  <2>2. Above(agg, s[i], e[i - 1], k - 1) /\ Below(agg, s[i], e[i])
    BY <1>1, <1>2 DEF InPlace
  <2>3. i < m - 1 => e[i] < e[m - 1]
    BY <1>1, <1>2, <2>1 DEF CutInto
  <2>4. i = m - 1 \/ i < m - 1
    BY <1>3
  <2>5. e[i] <= c
    <3>1. e[i] \in Int /\ c \in Int
      BY <1>4, <1>5, <2>1
    <3> QED BY <1>2, <2>3, <2>4, <3>1
  <2> QED BY <1>4, <2>1, <2>2, <2>5
<1>7. ASSUME NEW i \in 1 .. m - 1 PROVE LessEq(Value(s[i]), Value(q))
  <2>1. PICK p : p = s[m - 1]
    OBVIOUS
  <2>2. m >= 2 /\ m - 1 \in 1 .. m - 1
    BY <1>3
  <2>3. p \in Block /\ Frac(Value(p))
    BY <1>4, <1>6, <2>1, <2>2
  <2>4. LessEq(Value(p), Value(q))
    <3>1. ~ (p.sum * q.weight >= q.sum * p.weight)
      BY <1>2, <2>1, <2>2 DEF Still, NotBelow
    <3>2. PICK x, y : x = p.sum * q.weight /\ y = q.sum * p.weight
      OBVIOUS
    <3>3. x \in Int /\ y \in Int
      BY <1>5, <2>3, <3>2, BlockIs
    <3>4. x <= y
      BY <3>1, <3>2, <3>3
    <3> QED BY <3>2, <3>4 DEF LessEq, Value
  <2>5. CASE i = m - 1
    BY <2>1, <2>4, <2>5
  <2>6. CASE i # m - 1
    <3>1. i < m - 1
      BY <1>3, <2>6
    <3>2. LessEq(Value(s[i]), Value(p))
      BY <1>1, <1>2, <2>1, <2>2, <3>1 DEF InPlace
    <3> QED BY <1>5, <1>6, <2>3, <2>4, <3>2, LessTrans
  <2> QED BY <2>5, <2>6
<1>8. ASSUME NEW i \in 1 .. m - 1 PROVE Above(agg, s[i], e[i - 1], k)
  <2> SUFFICES ASSUME NEW t \in 1 .. k, t > e[i - 1]
               PROVE  LessEq(Value(s[i]), Mean(agg, e[i - 1] + 1, t))
    BY DEF Above
  <2>1. CASE t # k
    <3>1. t \in 1 .. k - 1
      BY <1>3, <2>1
    <3> QED BY <1>6, <3>1 DEF Above
  <2>2. CASE t = k
    <3>1. PICK j : j = e[i - 1] + 1
      OBVIOUS
    <3>2. PICK a, b : a = e[i - 1] /\ b = e[i]
      OBVIOUS
    <3>3. a \in 0 .. k /\ b \in 1 .. k /\ a < b /\ b <= c /\ j = a + 1
      BY <1>6, <3>1, <3>2
    <3>4. j \in 1 .. Len(agg) /\ c \in 1 .. Len(agg) /\ c \in Int /\ j <= c /\ c + 1 <= k /\ c > a /\ c \in 1 .. k - 1
      BY <1>3, <1>5, <3>3
    <3>5. Mean(agg, j, k) = Plus(Mean(agg, j, c), Value(q))
      BY <1>3, <1>5, <3>4, MeanPlus
    <3>6. LessEq(Value(s[i]), Mean(agg, j, c))
      BY <1>6, <3>1, <3>2, <3>4 DEF Above
    <3>7. Frac(Mean(agg, j, c))
      BY <3>4, MeanIs
    <3>8. LessEq(Value(s[i]), Plus(Mean(agg, j, c), Value(q)))
      BY <1>5, <1>6, <1>7, <3>6, <3>7, AbovePlus
    <3> QED BY <2>2, <3>1, <3>5, <3>8
  <2> QED BY <2>1, <2>2
<1>9. Below(agg, q, k)
  <2> SUFFICES ASSUME NEW t \in 1 .. k PROVE LessEq(Mean(agg, t, k), Value(q))
    BY DEF Below
  <2>1. CASE t <= c
    <3>1. m - 1 \in 1 .. m - 1 /\ c \in 1 .. k
      <4>1. m # 1
        <5>1. m = 1 => c = 0
          BY <1>1, <1>2 DEF CutInto
        <5> QED BY <2>1, <5>1
      <4> QED BY <1>3, <1>5, <2>1, <4>1
    <3>2. PICK p : p = s[m - 1]
      OBVIOUS
    <3>3. LessEq(Mean(agg, t, c), Value(p)) /\ LessEq(Value(p), Value(q)) /\ Frac(Value(p))
      <4>1. Below(agg, p, c)
        BY <1>2, <1>6, <3>1, <3>2
      <4>2. t \in 1 .. c
        BY <1>5, <2>1
      <4> QED BY <1>6, <1>7, <3>1, <3>2, <4>1, <4>2 DEF Below
    <3>4. t \in 1 .. Len(agg) /\ c \in 1 .. Len(agg) /\ c \in Int
      BY <1>3, <3>1
    <3>5. Frac(Mean(agg, t, c))
      BY <2>1, <3>4, MeanIs
    <3>6. LessEq(Mean(agg, t, c), Value(q))
      BY <1>5, <3>3, <3>5, LessTrans
    <3>7. Mean(agg, t, k) = Plus(Mean(agg, t, c), Value(q))
      BY <1>3, <1>5, <2>1, <3>4, MeanPlus
    <3>8. LessEq(Value(q), Value(q))
      BY <1>5, LessTotal
    <3> QED BY <1>5, <3>5, <3>6, <3>7, <3>8, AbovePlus
  <2>2. CASE t = c + 1
    BY <1>5, <2>2, LessTotal
  <2>3. CASE t > c + 1
    <3>1. PICK l : l = t - 1
      OBVIOUS
    <3>2. /\ l \in Int /\ l > c /\ c + 1 <= l /\ l < k /\ l + 1 = t /\ l \in 1 .. k /\ l \in 1 .. Len(agg)
          /\ t \in 1 .. Len(agg)
      BY <1>3, <1>5, <2>3, <3>1
    <3>3. Value(q) = Plus(Mean(agg, c + 1, l), Mean(agg, t, k))
      BY <1>3, <1>5, <3>2, MeanPlus
    <3>4. LessEq(Value(q), Mean(agg, c + 1, l))
      BY <1>5, <3>2 DEF Above
    <3>5. Frac(Mean(agg, c + 1, l)) /\ Frac(Mean(agg, t, k))
      BY <1>3, <1>5, <3>2, MeanIs
    <3>6. LessEq(Plus(Mean(agg, c + 1, l), Mean(agg, t, k)), Value(q))
      BY <1>5, <3>3, LessTotal
    <3> QED BY <1>5, <3>4, <3>5, <3>6, AbovePlus
  <2> QED BY <1>5, <2>1, <2>2, <2>3
<1>10. InPlace(agg, s, e, m, k)
  <2>1. \A i \in 1 .. m : i = m \/ i \in 1 .. m - 1
    BY <1>3
  <2>2. ASSUME NEW i \in 1 .. m PROVE Above(agg, s[i], e[i - 1], k) /\ Below(agg, s[i], e[i])
    <3>1. e[m] = k
      BY <1>1, <1>2 DEF CutInto
    <3> QED BY <1>2, <1>5, <1>6, <1>8, <1>9, <2>1, <3>1
  <2>3. ASSUME NEW i \in 1 .. m, NEW j \in 1 .. m, i < j PROVE LessEq(Value(s[i]), Value(s[j]))
    <3>1. i \in 1 .. m - 1
      BY <1>3, <2>3
    <3>2. CASE j = m
      BY <1>2, <1>7, <3>1, <3>2
    <3>3. CASE j # m
      BY <1>1, <1>2, <2>1, <2>3, <3>1, <3>3 DEF InPlace
    <3> QED BY <3>2, <3>3
  <2> QED BY <2>2, <2>3 DEF InPlace
<1> QED BY <1>1, <1>2, <1>10 DEF Pooled

-----------------------------------------------------------------------------
\* A turn gives a stack, the same when nothing is to be merged.
LEMMA MergeIs ==
  ASSUME NEW s \in Seq(Block)
  PROVE  Merge(s) \in Seq(Block) /\ (Still(s) => Merge(s) = s)
<1>1. PICK n : n = Len(s)
  OBVIOUS
<1>2. n \in Nat /\ \A i \in 1 .. n : s[i] \in Block
  BY <1>1
<1>3. CASE Still(s)
  BY <1>3 DEF Still, Merge
<1>4. CASE ~ Still(s)
  <2>1. n >= 2 /\ Merge(s) = Append(SubSeq(s, 1, n - 2), Pool(s[n - 1], s[n]))
    BY <1>1, <1>4 DEF Still, Merge
  <2>2. s[n - 1] \in Block /\ s[n] \in Block /\ \A i \in 1 .. n - 2 : s[i] \in Block
    BY <1>2, <2>1
  <2>3. SubSeq(s, 1, n - 2) \in Seq(Block)
    <3>1. 1 \in Int /\ n - 2 \in Int
      BY <1>2
    <3> QED BY <2>2, <3>1, SubSeqProperties
  <2>4. Pool(s[n - 1], s[n]) \in Block
    BY <2>2, PoolIs
  <2> QED BY <1>4, <2>1, <2>3, <2>4, AppendProperties
<1> QED BY <1>3, <1>4

\* The turns of a push.
LEMMA Turns ==
  ASSUME NEW s \in Seq(Block), NEW b \in Block
  PROVE  \E turn \in [0 .. Len(s) -> Seq(Block)] :
           /\ turn[0] = Append(s, b) /\ \A n \in 1 .. Len(s) : turn[n] = Merge(turn[n - 1])
           /\ Push(s, b) = turn[Len(s)]
<1>1. PICK size, D : size = Len(s) /\ D = Seq(Block)
  OBVIOUS
<1>2. PICK step : step = [p \in (1 .. size) \X D |-> Merge(p[2])]
  OBVIOUS
<1>3. Append(s, b) \in D /\ size \in Nat
  BY <1>1, AppendProperties
<1>4. step \in [(1 .. size) \X D -> D]
  <2>1. \A p \in (1 .. size) \X D : p[2] \in D
    OBVIOUS
  <2>2. \A t \in D : Merge(t) \in D
    BY <1>1, MergeIs
  <2> QED BY <1>2, <2>1, <2>2
<1>5. PICK g : Iterates(g, size, D, Append(s, b), step)
  BY <1>3, <1>4, Recursion DEF IsStep
<1>6. \A n \in 1 .. size : g[n - 1] \in D /\ g[n] = Merge(g[n - 1])
  <2>1. \A n \in 1 .. size : n - 1 \in 0 .. size
    BY <1>3
  <2>2. \A n \in 1 .. size : <<n, g[n - 1]>> \in (1 .. size) \X D
    BY <1>5, <2>1 DEF Iterates
  <2> QED BY <1>2, <1>5, <2>1, <2>2 DEF Iterates
<1> DEFINE F(f) == [n \in 0 .. size |-> IF n = 0 THEN Append(s, b) ELSE Merge(f[n - 1])]
           turn == CHOOSE f : f = F(f)
<1>7. g = F(g)
  <2>1. \A n \in 0 .. size : n = 0 \/ n \in 1 .. size
    BY <1>3
  <2>2. \A n \in 0 .. size : g[n] = F(g)[n]
    BY <1>5, <1>6, <2>1 DEF Iterates
  <2> QED BY <1>5, <2>2 DEF Iterates
<1>8. turn = F(turn)
  <2> HIDE DEF F
  <2> QED BY <1>7
<1>9. Push(s, b) = turn[size]
  BY <1>1 DEF Push
<1> HIDE DEF turn
<1>10. turn[0] = Append(s, b) /\ \A n \in 1 .. size : turn[n] = Merge(turn[n - 1])
  <2>1. 0 \in 0 .. size /\ \A n \in 1 .. size : n \in 0 .. size /\ n # 0
    BY <1>3
  <2>2. turn[0] = F(turn)[0] /\ \A n \in 1 .. size : turn[n] = F(turn)[n]
    BY <1>8, Zenon
  <2> QED BY <2>1, <2>2
<1>11. \A n \in 0 .. size : turn[n] \in D
  <2>1. PICK I : I = {n \in 0 .. size : turn[n] \in D}
    OBVIOUS
  <2>2. 0 \in I
    <3>1. 0 \in 0 .. size
      BY <1>3
    <3>2. turn[0] \in D
      BY <1>3, <1>10
    <3> QED BY <2>1, <3>1, <3>2
  <2>3. \A n \in 1 .. size : n - 1 \in I => n \in I
    BY <1>1, <1>3, <1>10, <2>1, MergeIs
  <2>4. \A n \in 0 .. size : n \in I
    BY <1>3, <2>2, <2>3, IntervalInduction
  <2> QED BY <2>1, <2>4
<1>12. turn \in [0 .. size -> D]
  <2>1. turn = [n \in 0 .. size |-> F(turn)[n]]
    BY <1>8
  <2>2. turn = [n \in 0 .. size |-> turn[n]]
    BY <1>8
  <2> QED BY <1>11, <2>2
<1> QED BY <1>1, <1>9, <1>10, <1>12

\* A push pools the stack it was given: it has as many turns as it may need.
LEMMA PushKeeps ==
  ASSUME NEW agg, Groups(agg), NEW s \in Seq(Block), NEW b \in Block, NEW k \in 1 .. Len(agg),
         Pooling(agg, Append(s, b), k)
  PROVE  Pooled(agg, Push(s, b), k)
<1>1. PICK size : size = Len(s)
  OBVIOUS
<1>2. PICK turn : /\ turn \in [0 .. size -> Seq(Block)]
                  /\ turn[0] = Append(s, b) /\ \A n \in 1 .. size : turn[n] = Merge(turn[n - 1])
                  /\ Push(s, b) = turn[size]
  BY <1>1, Turns
<1>3. size \in Nat /\ Len(turn[0]) = size + 1
  BY <1>1, <1>2, AppendProperties
<1>4. PICK I : I = {n \in 0 .. size : /\ Pooling(agg, turn[n], k)
                                      /\ Len(turn[n]) = size + 1 - n \/ Still(turn[n])}
  OBVIOUS
<1>5. 0 \in I
  <2>1. 0 \in 0 .. size /\ Len(turn[0]) = size + 1 - 0
    BY <1>3
  <2> QED BY <1>2, <1>4, <2>1
<1>6. ASSUME NEW n \in 1 .. size, n - 1 \in I PROVE n \in I
  <2>1. PICK t : t = turn[n - 1]
    OBVIOUS
  <2>2. n - 1 \in 0 .. size /\ n \in 0 .. size
    BY <1>3
  <2>3. t \in Seq(Block) /\ Pooling(agg, t, k) /\ turn[n] = Merge(t)
        /\ (Len(t) = size + 1 - (n - 1) \/ Still(t))
    BY <1>2, <1>4, <1>6, <2>1, <2>2
  <2>4. CASE Still(t)
    <3>1. turn[n] = t
      BY <2>3, <2>4, MergeIs
    <3> QED BY <1>4, <2>2, <2>3, <2>4, <3>1
  <2>5. CASE ~ Still(t)
    <3>1. Len(t) >= 2 /\ NotBelow(t[Len(t) - 1], t[Len(t)])
      BY <2>5 DEF Still
    <3>2. Pooling(agg, Merge(t), k) /\ Len(Merge(t)) = Len(t) - 1
      BY <2>3, <3>1, MergeKeeps
    <3>3. Len(turn[n]) = size + 1 - n
      BY <1>3, <2>3, <2>5, <3>2
    <3> QED BY <1>4, <2>2, <2>3, <3>2, <3>3
  <2> QED BY <2>4, <2>5
<1>7. size \in I
  <2>1. size \in 0 .. size
    BY <1>3
  <2>2. \A n \in 1 .. size : n - 1 \in I => n \in I
    BY <1>6
  <2> QED BY <1>3, <1>5, <2>1, <2>2, IntervalInduction
<1>8. Still(turn[size])
  <2>1. Len(turn[size]) = size + 1 - size => ~ (Len(turn[size]) >= 2)
    BY <1>3
  <2> QED BY <1>4, <1>7, <2>1 DEF Still
<1> QED BY <1>2, <1>4, <1>7, <1>8, StillIsPooled

\* A push gives a stack.
LEMMA PushIs == ASSUME NEW s \in Seq(Block), NEW b \in Block PROVE Push(s, b) \in Seq(Block)
<1>1. PICK turn : turn \in [0 .. Len(s) -> Seq(Block)] /\ Push(s, b) = turn[Len(s)]
  BY Turns
<1>2. Len(s) \in 0 .. Len(s)
  OBVIOUS
<1> QED BY <1>1, <1>2

\* The blocks of all the rows are pooled.
LEMMA BlocksArePooled ==
  ASSUME NEW ps \in Seq(Row), NEW agg, agg = Aggregate(ps)
  PROVE  Groups(agg) /\ Pooled(agg, Blocks(ps), Len(agg))
<1>1. Groups(agg)
  BY AggregateIs
<1>2. PICK size, D : size = Len(agg) /\ D = Seq(Block)
  OBVIOUS
<1>3. size \in Nat /\ \A n \in 1 .. size : agg[n] \in Block
  BY <1>1, <1>2, GroupsAre
<1>4. PICK step : step = [p \in (1 .. size) \X D |-> Push(p[2], agg[p[1]])]
  OBVIOUS
<1>5. step \in [(1 .. size) \X D -> D]
  <2>1. \A p \in (1 .. size) \X D : p[2] \in D /\ p[1] \in 1 .. size
    OBVIOUS
  <2>2. \A t \in D, n \in 1 .. size : Push(t, agg[n]) \in D
    BY <1>2, <1>3, PushIs
  <2> QED BY <1>4, <2>1, <2>2
<1>6. PICK g : Iterates(g, size, D, <<>>, step)
  <2>1. <<>> \in D
    BY <1>2
  <2> QED BY <1>3, <1>5, <2>1, Recursion DEF IsStep
<1>7. \A n \in 1 .. size : g[n - 1] \in D /\ g[n] = Push(g[n - 1], agg[n])
  <2>1. \A n \in 1 .. size : n - 1 \in 0 .. size
    BY <1>3
  <2>2. \A n \in 1 .. size : <<n, g[n - 1]>> \in (1 .. size) \X D
    BY <1>6, <2>1 DEF Iterates
  <2> QED BY <1>4, <1>6, <2>1, <2>2 DEF Iterates
<1> DEFINE F(f) == [n \in 0 .. size |-> IF n = 0 THEN <<>> ELSE Push(f[n - 1], agg[n])]
           pooled == CHOOSE f : f = F(f)
<1>8. g = F(g)
  <2>1. \A n \in 0 .. size : n = 0 \/ n \in 1 .. size
    BY <1>3
  <2>2. \A n \in 0 .. size : g[n] = F(g)[n]
    BY <1>6, <1>7, <2>1 DEF Iterates
  <2> QED BY <1>6, <2>2 DEF Iterates
<1>9. pooled = F(pooled)
  <2> HIDE DEF F
  <2> QED BY <1>8
<1>10. Blocks(ps) = pooled[size]
  BY <1>2 DEF Blocks
<1> HIDE DEF pooled
<1>11. pooled[0] = <<>> /\ \A n \in 1 .. size : pooled[n] = Push(pooled[n - 1], agg[n])
  <2>1. 0 \in 0 .. size /\ \A n \in 1 .. size : n \in 0 .. size /\ n # 0
    BY <1>3
  <2>2. pooled[0] = F(pooled)[0] /\ \A n \in 1 .. size : pooled[n] = F(pooled)[n]
    BY <1>9, Zenon
  <2> QED BY <2>1, <2>2
<1>12. PICK I : I = {n \in 0 .. size : Pooled(agg, pooled[n], n)}
  OBVIOUS
<1>13. 0 \in I
  <2>1. Pooled(agg, <<>>, 0)
    <3>1. PICK e : e = [i \in 0 .. 0 |-> 0]
      OBVIOUS
    <3>2. CutInto(agg, <<>>, e, 0)
      BY <3>1 DEF CutInto
    <3>3. InPlace(agg, <<>>, e, Len(<<>>), 0)
      BY DEF InPlace
    <3> QED BY <3>2, <3>3 DEF Pooled
  <2>2. 0 \in 0 .. size
    BY <1>3
  <2> QED BY <1>11, <1>12, <2>1, <2>2
<1>14. ASSUME NEW n \in 1 .. size, n - 1 \in I PROVE n \in I
  <2>1. PICK k, s : k = n - 1 /\ s = pooled[n - 1]
    OBVIOUS
  <2>2. k \in 0 .. Len(agg) /\ k < Len(agg) /\ k + 1 = n /\ n \in 1 .. Len(agg) /\ n \in 0 .. size
    BY <1>2, <1>3, <2>1
  <2>3. Pooled(agg, s, k)
    BY <1>12, <1>14, <2>1
  <2>4. s \in Seq(Block)
    BY <2>3 DEF Pooled, CutInto
  <2>5. Pooling(agg, Append(s, agg[n]), n)
    BY <1>1, <2>2, <2>3, JoinStack
  <2>6. Pooled(agg, Push(s, agg[n]), n)
    BY <1>1, <1>3, <2>2, <2>4, <2>5, PushKeeps
  <2> QED BY <1>11, <1>12, <2>1, <2>2, <2>6
<1>15. size \in I
  <2>1. size \in 0 .. size
    BY <1>3
  <2>2. \A n \in 1 .. size : n - 1 \in I => n \in I
    BY <1>14
  <2> QED BY <1>3, <1>13, <2>1, <2>2, IntervalInduction
<1> QED BY <1>1, <1>2, <1>10, <1>12, <1>15

\* The parts of IsotonicAt: least of the means from j, greatest of these.
LeastOf(S) == CHOOSE a \in S : \A b \in S : LessEq(a, b)
GreatestOf(S) == CHOOSE a \in S : \A b \in S : LessEq(b, a)
From(agg, i, j) == {Mean(agg, j, k) : k \in i .. Len(agg)}

\* IsotonicAt in these terms.
LEMMA IsotonicIs ==
  ASSUME NEW agg, Groups(agg), NEW i \in 1 .. Len(agg)
  PROVE  IsotonicAt(agg, i) = GreatestOf({LeastOf(From(agg, i, j)) : j \in 1 .. i})
<1> DEFINE mean(j, k) == [num |-> SumFunction([n \in j .. k |-> agg[n].sum]),
                          den |-> SumFunction([n \in j .. k |-> agg[n].weight])]
<1>1. ASSUME NEW j \in 1 .. i, NEW k \in i .. Len(agg) PROVE mean(j, k) = Mean(agg, j, k)
  <2>1. j \in Int /\ k \in Int /\ \A n \in j .. k : n \in 1 .. Len(agg)
    BY GroupsAre
  <2>2. PICK S, f, g : S = j .. k /\ f = [n \in S |-> agg[n].sum] /\ g = [n \in S |-> agg[n].weight]
    OBVIOUS
  <2>3. IsFiniteSet(S)
    BY <2>1, <2>2, FS_Interval
  <2>4. \A n \in S : /\ f[n] = SumsOf(agg)[n] /\ f[n] \in Nat
                     /\ g[n] = WeightsOf(agg)[n] /\ g[n] \in Nat
    BY <2>1, <2>2, GroupsAre
  <2>5. /\ SumFunctionOnSet(f, S) = SumFunctionOnSet(SumsOf(agg), S)
        /\ SumFunctionOnSet(g, S) = SumFunctionOnSet(WeightsOf(agg), S)
    BY <2>3, <2>4, SumSame
  <2>6. DOMAIN f = S /\ DOMAIN g = S
    BY <2>2
  <2> QED BY <2>2, <2>5, <2>6 DEF SumFunction, Mean
<1>2. \A j \in 1 .. i : {mean(j, k) : k \in i .. Len(agg)} = From(agg, i, j)
  BY <1>1 DEF From
<1>3. IsotonicAt(agg, i)
        = GreatestOf({LeastOf({mean(j, k) : k \in i .. Len(agg)}) : j \in 1 .. i})
  BY DEF IsotonicAt, GreatestOf, LeastOf
<1> HIDE DEF mean
<1>4. {LeastOf({mean(j, k) : k \in i .. Len(agg)}) : j \in 1 .. i} = {LeastOf(From(agg, i, j)) : j \in 1 .. i}
  BY <1>2
<1> QED BY <1>3, <1>4

\* Fractions at the points of an interval have a least one.
LEMMA LeastFrac ==
  ASSUME NEW i \in Int, NEW n \in Int, i <= n, NEW f, \A k \in i .. n : Frac(f[k])
  PROVE  \E a \in i .. n : \A k \in i .. n : LessEq(f[a], f[k])
<1>1. PICK d : d = n - i
  OBVIOUS
<1>2. d \in Nat /\ n = i + d
  BY <1>1
<1>3. PICK I : I = {m \in 0 .. d : \E a \in i .. i + m : \A k \in i .. i + m : LessEq(f[a], f[k])}
  OBVIOUS
<1>4. 0 \in I
  <2>1. \A k \in i .. i + 0 : k = i
    OBVIOUS
  <2>2. LessEq(f[i], f[i])
    BY LessTotal
  <2>3. i \in i .. i + 0 /\ 0 \in 0 .. d
    BY <1>2
  <2> QED BY <1>3, <2>1, <2>2, <2>3
<1>5. ASSUME NEW m \in 1 .. d, m - 1 \in I PROVE m \in I
  <2>1. PICK a \in i .. i + (m - 1) : \A k \in i .. i + (m - 1) : LessEq(f[a], f[k])
    BY <1>3, <1>5
  <2>2. PICK c : c = i + m
    OBVIOUS
  <2>3. /\ a \in i .. n /\ c \in i .. n /\ a \in i .. i + m /\ c \in i .. i + m /\ m \in 0 .. d
        /\ \A k \in i .. i + m : k \in i .. n /\ (k = c \/ k \in i .. i + (m - 1))
    BY <1>2, <2>2
  <2>4. CASE LessEq(f[a], f[c])
    <3>1. \A k \in i .. i + m : LessEq(f[a], f[k])
      BY <2>1, <2>3, <2>4
    <3> QED BY <1>3, <2>3, <3>1
  <2>5. CASE ~ LessEq(f[a], f[c])
    <3>1. LessEq(f[c], f[a]) /\ LessEq(f[c], f[c])
      BY <2>3, <2>5, LessTotal
    <3>2. \A k \in i .. i + m : LessEq(f[c], f[k])
      <4> TAKE k \in i .. i + m
      <4>1. CASE k = c
        BY <3>1, <4>1
      <4>2. CASE k \in i .. i + (m - 1)
        <5>1. LessEq(f[a], f[k]) /\ Frac(f[k]) /\ Frac(f[a]) /\ Frac(f[c])
          BY <2>1, <2>3, <4>2
        <5> QED BY <3>1, <5>1, LessTrans
      <4> QED BY <2>3, <4>1, <4>2
    <3> QED BY <1>3, <2>3, <3>2
  <2> QED BY <2>4, <2>5
<1>6. d \in I
  <2>1. d \in 0 .. d
    BY <1>2
  <2>2. \A m \in 1 .. d : m - 1 \in I => m \in I
    BY <1>5
  <2> QED BY <1>2, <1>4, <2>1, <2>2, IntervalInduction
<1> QED BY <1>2, <1>3, <1>6

\* The least mean exists: it is one of them, below all.
LEMMA LeastIs ==
  ASSUME NEW agg, Groups(agg), NEW i \in 1 .. Len(agg), NEW j \in 1 .. i
  PROVE  /\ LeastOf(From(agg, i, j)) \in From(agg, i, j) /\ Frac(LeastOf(From(agg, i, j)))
         /\ \A k \in i .. Len(agg) : LessEq(LeastOf(From(agg, i, j)), Mean(agg, j, k))
<1>1. PICK n, f : n = Len(agg) /\ f = [k \in i .. n |-> Mean(agg, j, k)]
  OBVIOUS
<1>2. \A k \in i .. n : f[k] = Mean(agg, j, k) /\ Frac(f[k])
  <2>1. \A k \in i .. n : j \in 1 .. n /\ k \in 1 .. n /\ j <= k
    BY <1>1, GroupsAre
  <2>2. \A k \in i .. n : Frac(Mean(agg, j, k))
    BY <1>1, <2>1, MeanIs
  <2> QED BY <1>1, <2>2
<1>3. \E a \in i .. n : \A k \in i .. n : LessEq(f[a], f[k])
  <2>1. i \in Int /\ n \in Int /\ i <= n
    BY <1>1, GroupsAre
  <2> QED BY <1>2, <2>1, LeastFrac
<1>4. PICK S : S = From(agg, i, j)
  OBVIOUS
<1>5. (\A k \in i .. n : f[k] \in S) /\ \A b \in S : \E k \in i .. n : b = f[k]
  BY <1>1, <1>2, <1>4 DEF From
<1>6. \E a \in S : \A b \in S : LessEq(a, b)
  BY <1>3, <1>5
<1>7. LeastOf(S) \in S /\ \A b \in S : LessEq(LeastOf(S), b)
  <2>1. PICK a : a = LeastOf(S)
    OBVIOUS
  <2>2. a = CHOOSE c \in S : \A b \in S : LessEq(c, b)
    BY <2>1 DEF LeastOf
  <2>3. a \in S /\ \A b \in S : LessEq(a, b)
    BY <1>6, <2>2
  <2> QED BY <2>1, <2>3
<1>8. Frac(LeastOf(S))
  BY <1>2, <1>5, <1>7
<1>9. \A k \in i .. n : LessEq(LeastOf(S), Mean(agg, j, k))
  BY <1>2, <1>5, <1>7
<1> QED BY <1>1, <1>4, <1>7, <1>8, <1>9

\* The minimax at a group is the mean of the block it is in.
LEMMA Minimax ==
  ASSUME NEW agg, Groups(agg), NEW s, NEW e, CutInto(agg, s, e, Len(agg)),
         InPlace(agg, s, e, Len(s), Len(agg)),
         NEW q \in 1 .. Len(s), NEW i \in 1 .. Len(agg), e[q - 1] < i, i <= e[q]
  PROVE  Frac(IsotonicAt(agg, i)) /\ Equal(IsotonicAt(agg, i), Value(s[q]))
<1>1. PICK n, v, first, end : n = Len(agg) /\ v = Value(s[q]) /\ first = e[q - 1] + 1 /\ end = e[q]
  OBVIOUS
<1>2. /\ n \in Nat /\ Frac(v) /\ n \in 0 .. Len(agg)
      /\ first \in 1 .. n /\ end \in 1 .. n /\ i \in 1 .. n
  <2>1. n \in Nat /\ n \in 0 .. Len(agg)
    BY <1>1, GroupsAre
  <2>2. /\ Frac(Value(s[q])) /\ e[q - 1] + 1 \in 1 .. Len(agg) /\ e[q] \in 1 .. Len(agg)
    BY <1>1, <2>1, CutIs
  <2> QED BY <1>1, <2>1, <2>2
<1>3. first <= i /\ i <= end /\ first \in 1 .. i /\ end \in i .. n /\ e[q - 1] \in Int
  <2>1. e[q - 1] \in Int /\ i \in Int
    <3>1. q - 1 \in 0 .. Len(s) /\ \A x \in 0 .. n : x \in Int
      BY <1>2 DEF CutInto
    <3>2. e[q - 1] \in 0 .. n
      BY <1>1, <1>2, <3>1, CutIs
    <3> QED BY <1>2, <3>1, <3>2
  <2>2. e[q - 1] + 1 <= i
    BY <2>1
  <2> QED BY <1>1, <1>2, <2>1, <2>2
<1>4. Above(agg, s[q], e[q - 1], n) /\ Below(agg, s[q], end)
  BY <1>1 DEF InPlace
<1>5. PICK low : low = [j \in 1 .. i |-> LeastOf(From(agg, i, j))]
  OBVIOUS
<1>6. \A j \in 1 .. i : /\ low[j] \in From(agg, i, j) /\ Frac(low[j])
                        /\ \A k \in i .. n : LessEq(low[j], Mean(agg, j, k))
  BY <1>1, <1>5, LeastIs
<1>7. LessEq(v, low[first])
  <2>1. PICK k \in i .. n : low[first] = Mean(agg, first, k)
    BY <1>1, <1>3, <1>6 DEF From
  <2>2. k \in 1 .. n /\ k > e[q - 1]
    BY <1>1, <1>2, <1>3
  <2> QED BY <1>1, <1>4, <2>1, <2>2 DEF Above
<1>8. ASSUME NEW j \in 1 .. i PROVE LessEq(low[j], v)
  <2>1. j \in 1 .. n /\ j \in 1 .. end /\ j <= end
    BY <1>2, <1>3
  <2>2. LessEq(Mean(agg, j, end), v) /\ Frac(Mean(agg, j, end))
    <3>1. LessEq(Mean(agg, j, end), v)
      BY <1>1, <1>4, <2>1 DEF Below
    <3> QED BY <1>1, <1>2, <2>1, <3>1, MeanIs
  <2>3. LessEq(low[j], Mean(agg, j, end))
    BY <1>3, <1>6
  <2> QED BY <1>2, <1>6, <2>2, <2>3, LessTrans
<1>9. PICK S : S = {low[j] : j \in 1 .. i}
  OBVIOUS
<1>10. IsotonicAt(agg, i) = GreatestOf(S)
  <2>1. {LeastOf(From(agg, i, j)) : j \in 1 .. i} = S
    BY <1>5, <1>9
  <2> QED BY <2>1, IsotonicIs
<1>11. \A b \in S : Frac(b) /\ LessEq(b, v)
  BY <1>6, <1>8, <1>9
<1>12. low[first] \in S /\ \A b \in S : LessEq(b, low[first])
  <2>1. low[first] \in S /\ Frac(low[first])
    BY <1>3, <1>6, <1>9
  <2>2. ASSUME NEW b \in S PROVE LessEq(b, low[first])
    BY <1>2, <1>7, <1>11, <2>1, LessTrans
  <2> QED BY <2>1, <2>2
<1>13. PICK g : g = GreatestOf(S)
  OBVIOUS
<1>14. g \in S /\ \A b \in S : LessEq(b, g)
  <2>1. g = CHOOSE a \in S : \A b \in S : LessEq(b, a)
    BY <1>13 DEF GreatestOf
  <2> QED BY <1>12, <2>1
<1>15. LessEq(v, g) /\ LessEq(g, v) /\ Frac(g)
  <2>1. LessEq(low[first], g) /\ Frac(g) /\ Frac(low[first])
    BY <1>11, <1>12, <1>14
  <2> QED BY <1>2, <1>7, <1>11, <1>14, <2>1, LessTrans
<1> QED BY <1>1, <1>10, <1>13, <1>15 DEF Equal

\* Sequences put one after the other, from the first to the last.
Flattens(g, seqs, T) ==
  /\ g[0] = <<>> /\ (\A n \in 0 .. Len(seqs) : g[n] \in Seq(T))
  /\ \A n \in 1 .. Len(seqs) : g[n] = g[n - 1] \o seqs[n]
  /\ FlattenSeq(seqs) = g[Len(seqs)]

\* They exist, for any sequence of sequences: FlattenSeq is the last.
LEMMA Flattened ==
  ASSUME NEW T, NEW seqs \in Seq(Seq(T)), Len(seqs) > 0
  PROVE  \E g : Flattens(g, seqs, T)
<1>1. PICK size, D : size = Len(seqs) /\ D = Seq(T)
  OBVIOUS
<1>2. size \in Nat /\ size > 0 /\ \A n \in 1 .. size : seqs[n] \in D
  BY <1>1
<1>3. PICK step : step = [p \in (1 .. size) \X D |-> p[2] \o seqs[p[1]]]
  OBVIOUS
<1>4. step \in [(1 .. size) \X D -> D]
  <2>1. \A p \in (1 .. size) \X D : p[2] \in D /\ p[1] \in 1 .. size
    OBVIOUS
  <2>2. \A t \in D, u \in D : t \o u \in D
    BY <1>1, ConcatProperties
  <2> QED BY <1>2, <1>3, <2>1, <2>2
<1>5. PICK g : Iterates(g, size, D, <<>>, step)
  <2>1. <<>> \in D
    BY <1>1
  <2> QED BY <1>2, <1>4, <2>1, Recursion DEF IsStep
<1>6. \A n \in 1 .. size : g[n - 1] \in D /\ g[n] = g[n - 1] \o seqs[n]
  <2>1. \A n \in 1 .. size : n - 1 \in 0 .. size
    BY <1>2
  <2>2. \A n \in 1 .. size : <<n, g[n - 1]>> \in (1 .. size) \X D
    BY <1>5, <2>1 DEF Iterates
  <2> QED BY <1>3, <1>5, <2>1, <2>2 DEF Iterates
<1>7. g[0] = <<>> /\ g[1] = seqs[1]
  <2>1. 1 \in 1 .. size /\ 1 - 1 = 0
    BY <1>2
  <2>2. g[0] = <<>> /\ g[1] = <<>> \o seqs[1] /\ seqs[1] \in Seq(T)
    BY <1>1, <1>2, <1>5, <1>6, <2>1 DEF Iterates
  <2> QED BY <2>2, ConcatEmptySeq
<1> DEFINE F(f) == [i \in 1 .. size |-> IF i = 1 THEN seqs[i] ELSE f[i - 1] \o seqs[i]]
           flatten == CHOOSE f : f = F(f)
<1>8. PICK h : h = [i \in 1 .. size |-> g[i]]
  OBVIOUS
<1>9. h = F(h)
  <2>1. \A n \in 1 .. size : h[n] = F(h)[n]
    <3> TAKE n \in 1 .. size
    <3>1. CASE n = 1
      BY <1>7, <1>8, <3>1
    <3>2. CASE n # 1
      <4>1. n - 1 \in 1 .. size
        BY <1>2, <3>2
      <4> QED BY <1>6, <1>8, <3>2, <4>1
    <3> QED BY <3>1, <3>2
  <2> QED BY <1>8, <2>1
<1>10. flatten = F(flatten)
  <2> HIDE DEF F
  <2> QED BY <1>9
<1>11. FlattenSeq(seqs) = flatten[size]
  BY <1>1, <1>2 DEF FlattenSeq
<1> HIDE DEF flatten
<1>12. flatten[1] = seqs[1] /\ \A n \in 2 .. size : flatten[n] = flatten[n - 1] \o seqs[n]
  <2>1. 1 \in 1 .. size /\ \A n \in 2 .. size : n \in 1 .. size /\ n # 1
    BY <1>2
  <2>2. \A n \in 1 .. size : flatten[n] = F(flatten)[n]
    BY <1>10, Zenon
  <2> QED BY <2>1, <2>2
<1>13. PICK I : I = {n \in 0 .. size : n > 0 => flatten[n] = g[n]}
  OBVIOUS
<1>14. \A n \in 0 .. size : n \in I
  <2>1. 0 \in I
    BY <1>2, <1>13
  <2>2. ASSUME NEW n \in 1 .. size, n - 1 \in I PROVE n \in I
    <3>1. CASE n = 1
      BY <1>2, <1>7, <1>12, <1>13, <3>1
    <3>2. CASE n # 1
      <4>1. n \in 2 .. size /\ n \in 0 .. size /\ n - 1 > 0
        BY <1>2, <3>2
      <4> QED BY <1>6, <1>12, <1>13, <2>2, <4>1
    <3> QED BY <3>1, <3>2
  <2> QED BY <1>2, <2>1, <2>2, IntervalInduction
<1>15. flatten[size] = g[size] /\ \A n \in 0 .. size : g[n] \in D
  <2>1. size \in 0 .. size
    BY <1>2
  <2> QED BY <1>2, <1>5, <1>13, <1>14, <2>1 DEF Iterates
<1> QED BY <1>1, <1>6, <1>7, <1>11, <1>15 DEF Flattens

-----------------------------------------------------------------------------
(* The control points of blocks in order. *)

\* A point, and the point of a block at one of its ends.
Point == [x : 0 .. Scale, y : [num : Nat, den : Nat \ {0}]]
At(x, b) == [x |-> x, y |-> Value(b)]

\* Points in strict order, their values not decreasing; p may be the next; b has its ends.
Rising(c) == \A t, u \in 1 .. Len(c) : t < u => c[t].x < c[u].x /\ LessEq(c[t].y, c[u].y)
Precedes(c, p) == Len(c) > 0 => c[Len(c)].x < p.x /\ LessEq(c[Len(c)].y, p.y)
Spans(c, b) ==
  \E t \in 1 .. Len(c) :
    /\ c[t] = At(b.lo, b)
    /\ b.hi > b.lo => t + 1 \in 1 .. Len(c) /\ c[t + 1] = At(b.hi, b)

\* The blocks are apart and in order, for their confidences and for their means.
Apart(s) ==
  /\ s \in Seq(Block)
  /\ \A i \in 1 .. Len(s) : s[i].lo <= s[i].hi
  /\ \A i, j \in 1 .. Len(s) : i < j => s[i].hi < s[j].lo /\ LessEq(Value(s[i]), Value(s[j]))

\* The value of a point is a fraction.
LEMMA PointIs ==
  ASSUME NEW p \in Point
  PROVE  p.x \in 0 .. Scale /\ p.x \in Int /\ p.y.num \in Nat /\ p.y.den \in Nat /\ Frac(p.y)
<1>1. p.x \in 0 .. Scale /\ p.y \in [num : Nat, den : Nat \ {0}]
  BY DEF Point
<1>2. p.x \in Int
  BY <1>1
<1>3. p.y.num \in Nat /\ p.y.den \in Nat /\ p.y.den > 0
  BY <1>1
<1> QED BY <1>1, <1>2, <1>3 DEF Frac

\* The points of a block.
LEMMA AtIs ==
  ASSUME NEW b \in Block
  PROVE  /\ At(b.lo, b) \in Point /\ At(b.hi, b) \in Point
         /\ At(b.lo, b).x = b.lo /\ At(b.hi, b).x = b.hi
         /\ At(b.lo, b).y = Value(b) /\ At(b.hi, b).y = Value(b)
         /\ b.lo \in Int /\ b.hi \in Int
<1>1. b.lo \in 0 .. Scale /\ b.hi \in 0 .. Scale /\ b.sum \in Nat /\ b.weight \in Nat \ {0}
  BY DEF Block
<1>2. Value(b) \in [num : Nat, den : Nat \ {0}]
  BY <1>1 DEF Value
<1>3. b.lo \in Int /\ b.hi \in Int
  BY <1>1
<1>4. At(b.lo, b) \in Point /\ At(b.hi, b) \in Point
  BY <1>1, <1>2 DEF At, Point
<1> QED BY <1>3, <1>4 DEF At

\* d is c with p at its end, and rises.
Grown(d, c, p) ==
  /\ d \in Seq(Point) /\ Rising(d) /\ Len(d) = Len(c) + 1 /\ d[Len(d)] = p
  /\ \A t \in 1 .. Len(c) : d[t] = c[t]

\* A point after the last one keeps the order.
LEMMA JoinPoint ==
  ASSUME NEW c \in Seq(Point), Rising(c), NEW p \in Point, Precedes(c, p)
  PROVE  Grown(Append(c, p), c, p)
<1>0. PICK d : d = Append(c, p)
  OBVIOUS
<1>1. PICK n : n = Len(c)
  OBVIOUS
<1>2. /\ n \in Nat /\ d \in Seq(Point) /\ Len(d) = n + 1 /\ d[n + 1] = p
      /\ \A t \in 1 .. n : d[t] = c[t] /\ c[t] \in Point
  BY <1>0, <1>1, AppendProperties
<1>3. ASSUME NEW t \in 1 .. n PROVE c[t].x < p.x /\ LessEq(c[t].y, p.y)
  <2>1. n > 0 /\ n \in 1 .. n
    BY <1>2
  <2>2. c[n].x < p.x /\ LessEq(c[n].y, p.y)
    BY <1>1, <2>1 DEF Precedes
  <2>3. CASE t = n
    BY <2>2, <2>3
  <2>4. CASE t # n
    <3>1. t < n
      BY <1>2, <2>4
    <3>2. c[t].x < c[n].x /\ LessEq(c[t].y, c[n].y)
      BY <1>1, <2>1, <3>1 DEF Rising
    <3>3. c[t] \in Point /\ c[n] \in Point
      BY <1>2, <2>1
    <3>4. c[t].x \in Int /\ c[n].x \in Int /\ p.x \in Int
      BY <3>3, PointIs
    <3>5. c[t].x < p.x
      BY <2>2, <3>2, <3>4
    <3>6. LessEq(c[t].y, p.y)
      BY <2>2, <3>2, <3>3, PointIs, LessTrans
    <3> QED BY <3>5, <3>6
  <2> QED BY <2>3, <2>4
<1>4. Rising(d)
  <2> SUFFICES ASSUME NEW t \in 1 .. n + 1, NEW u \in 1 .. n + 1, t < u
               PROVE  d[t].x < d[u].x /\ LessEq(d[t].y, d[u].y)
    BY <1>2 DEF Rising
  <2>1. t \in 1 .. n /\ (u = n + 1 \/ u \in 1 .. n)
    BY <1>2
  <2>2. CASE u = n + 1
    BY <1>2, <1>3, <2>1, <2>2
  <2>3. CASE u \in 1 .. n
    BY <1>1, <1>2, <2>1, <2>3 DEF Rising
  <2> QED BY <2>1, <2>2, <2>3
<1> QED BY <1>0, <1>1, <1>2, <1>4 DEF Grown

\* So do the ends of a block, which are then among the points.
LEMMA JoinEnds ==
  ASSUME NEW c \in Seq(Point), Rising(c), NEW b \in Block, b.lo <= b.hi, Precedes(c, At(b.lo, b)),
         NEW d, d = c \o Ends(b)
  PROVE  /\ d \in Seq(Point) /\ Rising(d) /\ Len(d) > Len(c) /\ d[Len(d)] = At(b.hi, b)
         /\ Spans(d, b) /\ \A t \in 1 .. Len(c) : d[t] = c[t]
<1>1. PICK p, q : p = At(b.lo, b) /\ q = At(b.hi, b)
  OBVIOUS
<1>2. /\ p \in Point /\ q \in Point /\ p.x = b.lo /\ q.x = b.hi /\ p.y = q.y
      /\ b.lo \in Int /\ b.hi \in Int /\ LessEq(p.y, p.y)
  <2>1. /\ p \in Point /\ q \in Point /\ p.x = b.lo /\ q.x = b.hi /\ p.y = q.y
        /\ b.lo \in Int /\ b.hi \in Int
    BY <1>1, AtIs
  <2> QED BY <2>1, PointIs, LessTotal
<1>3. PICK f : f = Append(c, p)
  OBVIOUS
<1>4. /\ f \in Seq(Point) /\ Rising(f) /\ Len(f) = Len(c) + 1 /\ f[Len(f)] = p /\ Len(c) \in Nat
      /\ \A t \in 1 .. Len(c) : f[t] = c[t]
  <2>1. Precedes(c, p) /\ p \in Point /\ Len(c) \in Nat
    BY <1>1, <1>2
  <2>2. Grown(Append(c, p), c, p)
    BY <2>1, JoinPoint
  <2> QED BY <1>3, <2>1, <2>2 DEF Grown
<1>5. CASE b.hi > b.lo
  <2>1. Ends(b) = <<p, q>>
    BY <1>1, <1>5 DEF Ends, At, Value
  <2>2. c \o <<p, q>> = Append(f, q)
    BY <1>2, <1>3
  <2>3. Precedes(f, q)
    BY <1>2, <1>4, <1>5 DEF Precedes
  <2>4. /\ d \in Seq(Point) /\ Rising(d) /\ Len(d) = Len(f) + 1 /\ d[Len(d)] = q
        /\ \A t \in 1 .. Len(f) : d[t] = f[t]
    <3>1. d = Append(f, q)
      BY <2>1, <2>2
    <3>2. f \in Seq(Point) /\ Rising(f) /\ q \in Point
      BY <1>2, <1>4
    <3>3. Grown(Append(f, q), f, q)
      BY <2>3, <3>2, JoinPoint
    <3> QED BY <3>1, <3>3 DEF Grown
  <2>5. /\ Len(f) \in 1 .. Len(f) /\ Len(f) \in 1 .. Len(d) /\ Len(f) + 1 \in 1 .. Len(d)
        /\ Len(d) > Len(c) /\ \A t \in 1 .. Len(c) : t \in 1 .. Len(f)
    BY <1>4, <2>4
  <2>6. Spans(d, b)
    BY <1>1, <1>4, <2>4, <2>5 DEF Spans
  <2> QED BY <1>1, <1>4, <2>4, <2>5, <2>6
<1>6. CASE ~ (b.hi > b.lo)
  <2>1. b.hi = b.lo /\ p = q
    BY <1>1, <1>2, <1>6
  <2>2. Ends(b) = <<p>>
    BY <1>1, <1>6 DEF Ends, At, Value
  <2>3. d = f
    BY <1>2, <1>3, <2>2
  <2>4. Len(f) \in 1 .. Len(f) /\ Len(f) > Len(c)
    BY <1>4
  <2>5. Spans(d, b)
    BY <1>1, <1>4, <1>6, <2>3, <2>4 DEF Spans
  <2> QED BY <1>1, <1>4, <2>1, <2>3, <2>4, <2>5
<1> QED BY <1>5, <1>6

\* The ends of a block are points.
LEMMA EndsIs == ASSUME NEW b \in Block PROVE Ends(b) \in Seq(Point)
<1>1. At(b.lo, b) \in Point /\ At(b.hi, b) \in Point
  BY AtIs
<1>2. Ends(b) = <<At(b.lo, b), At(b.hi, b)>> \/ Ends(b) = <<At(b.lo, b)>>
  BY DEF Ends, At, Value
<1>3. PICK p, q : p = At(b.lo, b) /\ q = At(b.hi, b)
  OBVIOUS
<1>4. \A x, y \in Point : <<x>> \in Seq(Point) /\ <<x, y>> \in Seq(Point)
  OBVIOUS
<1> QED BY <1>1, <1>2, <1>4, Zenon

\* The control points rise, and every block has its ends among them.
LEMMA Curve ==
  ASSUME NEW s, Apart(s), Len(s) > 0, NEW c, c = FlattenSeq([i \in DOMAIN s |-> Ends(s[i])])
  PROVE  c \in Seq(Point) /\ Rising(c) /\ Len(c) > 0 /\ \A i \in 1 .. Len(s) : Spans(c, s[i])
<1>1. PICK size, seqs : size = Len(s) /\ seqs = [i \in DOMAIN s |-> Ends(s[i])]
  OBVIOUS
<1>2. /\ size \in Nat /\ size > 0 /\ DOMAIN s = 1 .. size
      /\ \A i \in 1 .. size : s[i] \in Block /\ s[i].lo <= s[i].hi
  BY <1>1 DEF Apart
<1>3. seqs \in Seq(Seq(Point)) /\ Len(seqs) = size /\ \A i \in 1 .. size : seqs[i] = Ends(s[i])
  <2>1. \A i \in 1 .. size : seqs[i] = Ends(s[i]) /\ seqs[i] \in Seq(Point)
    BY <1>1, <1>2, EndsIs
  <2>2. seqs \in [1 .. size -> Seq(Point)]
    BY <1>1, <1>2, <2>1
  <2> QED BY <1>2, <2>1, <2>2
<1>4. PICK g : /\ g[0] = <<>> /\ (\A n \in 0 .. size : g[n] \in Seq(Point))
               /\ \A n \in 1 .. size : g[n] = g[n - 1] \o Ends(s[n])
               /\ c = g[size]
  <2>1. PICK g : /\ g[0] = <<>> /\ (\A n \in 0 .. size : g[n] \in Seq(Point))
                 /\ \A n \in 1 .. size : g[n] = g[n - 1] \o seqs[n]
                 /\ FlattenSeq(seqs) = g[size]
    <3>1. Len(seqs) > 0
      BY <1>2, <1>3
    <3>2. PICK g : Flattens(g, seqs, Point)
      BY <1>3, <3>1, Flattened
    <3> QED BY <1>3, <3>2 DEF Flattens
  <2>2. c = g[size]
    BY <1>1, <2>1
  <2>3. \A n \in 1 .. size : g[n] = g[n - 1] \o Ends(s[n])
    BY <1>3, <2>1
  <2> QED BY <2>1, <2>2, <2>3
<1> DEFINE Good(n) == /\ Rising(g[n]) /\ \A i \in 1 .. n : Spans(g[n], s[i])
                      /\ IF n = 0 THEN Len(g[n]) = 0
                         ELSE Len(g[n]) > 0 /\ g[n][Len(g[n])] = At(s[n].hi, s[n])
<1>5. PICK I : I = {n \in 0 .. size : Good(n)}
  OBVIOUS
<1>6. 0 \in I
  <2>1. Good(0)
    BY <1>4 DEF Rising
  <2>2. 0 \in 0 .. size
    BY <1>2
  <2> QED BY <1>5, <2>1, <2>2
<1>7. ASSUME NEW n \in 1 .. size, n - 1 \in I PROVE n \in I
  <2>1. PICK m, f, d, b : m = n - 1 /\ f = g[n - 1] /\ d = g[n] /\ b = s[n]
    OBVIOUS
  <2>2. /\ m \in 0 .. size /\ n \in 0 .. size /\ n # 0 /\ f \in Seq(Point) /\ d = f \o Ends(b)
        /\ b \in Block /\ b.lo <= b.hi /\ m \in Nat /\ m + 1 = n
    <3>1. m \in 0 .. size /\ n \in 0 .. size /\ n # 0 /\ m \in Nat /\ m + 1 = n
      BY <1>2, <2>1
    <3>2. b \in Block /\ b.lo <= b.hi
      BY <1>2, <2>1
    <3>3. f \in Seq(Point)
      BY <1>4, <2>1, <3>1, Zenon
    <3>4. d = f \o Ends(b)
      BY <1>4, <2>1, Zenon
    <3> QED BY <3>1, <3>2, <3>3, <3>4
  <2>3. /\ Rising(f) /\ \A i \in 1 .. m : Spans(f, s[i])
        /\ IF m = 0 THEN Len(f) = 0 ELSE Len(f) > 0 /\ f[Len(f)] = At(s[m].hi, s[m])
    BY <1>5, <1>7, <2>1
  <2>4. Precedes(f, At(b.lo, b))
    <3>1. CASE m = 0
      BY <2>3, <3>1 DEF Precedes
    <3>2. CASE m # 0
      <4>1. m \in 1 .. size /\ n \in 1 .. size /\ m < n
        BY <2>2, <3>2
      <4>2. s[m].hi < b.lo /\ LessEq(Value(s[m]), Value(b)) /\ s[m] \in Block
        BY <1>1, <1>2, <2>1, <4>1 DEF Apart
      <4>3. /\ At(s[m].hi, s[m]).x = s[m].hi /\ At(s[m].hi, s[m]).y = Value(s[m])
            /\ At(b.lo, b).x = b.lo /\ At(b.lo, b).y = Value(b)
        BY DEF At
      <4> QED BY <2>3, <3>2, <4>2, <4>3 DEF Precedes
    <3> QED BY <3>1, <3>2
  <2>5. /\ d \in Seq(Point) /\ Rising(d) /\ Len(d) > Len(f) /\ d[Len(d)] = At(b.hi, b)
        /\ Spans(d, b) /\ \A t \in 1 .. Len(f) : d[t] = f[t]
    <3>1. Rising(f)
      BY <2>3
    <3> QED BY <2>2, <2>4, <3>1, JoinEnds, Zenon
  <2>6. Len(f) \in Nat /\ Len(d) \in Nat /\ Len(d) > 0 /\ \A t \in 1 .. Len(f) : t \in 1 .. Len(d)
    BY <2>2, <2>5
  <2>7. ASSUME NEW i \in 1 .. n PROVE Spans(d, s[i])
    <3>1. CASE i = n
      BY <2>1, <2>5, <3>1
    <3>2. CASE i # n
      <4>1. i \in 1 .. m
        BY <2>2, <3>2
      <4>2. Spans(f, s[i])
        BY <2>3, <4>1
      <4>3. PICK t \in 1 .. Len(f) : /\ f[t] = At(s[i].lo, s[i])
                                     /\ s[i].hi > s[i].lo => t + 1 \in 1 .. Len(f) /\ f[t + 1] = At(s[i].hi, s[i])
        BY <4>2 DEF Spans
      <4> QED BY <2>5, <2>6, <4>3 DEF Spans
    <3> QED BY <3>1, <3>2
  <2> QED BY <1>5, <2>1, <2>2, <2>5, <2>6, <2>7
<1>8. size \in I
  <2>1. size \in 0 .. size
    BY <1>2
  <2>2. \A n \in 1 .. size : n - 1 \in I => n \in I
    BY <1>7
  <2> QED BY <1>2, <1>6, <2>1, <2>2, IntervalInduction
<1> QED BY <1>1, <1>2, <1>4, <1>5, <1>8

\* So are the blocks of the stack once pooled.
LEMMA BlocksAreApart ==
  ASSUME NEW agg, Groups(agg), NEW s, NEW e, CutInto(agg, s, e, Len(agg)),
         InPlace(agg, s, e, Len(s), Len(agg))
  PROVE  Apart(s)
<1>1. PICK n, m : n = Len(agg) /\ m = Len(s)
  OBVIOUS
<1>2. /\ n \in Nat /\ n \in 0 .. Len(agg) /\ m \in Nat /\ s \in Seq(Block)
      /\ \A i \in 1 .. n : agg[i] \in Block /\ agg[i].lo = agg[i].hi /\ agg[i].lo \in Int
  <2>1. n \in Nat /\ n \in 0 .. Len(agg)
    BY <1>1, GroupsAre
  <2>2. m \in Nat /\ s \in Seq(Block)
    BY <1>1, <2>1, CutIs
  <2>3. \A i \in 1 .. n : agg[i] \in Block /\ agg[i].lo = agg[i].hi
    BY <1>1, GroupsAre DEF Groups
  <2>4. \A i \in 1 .. n : agg[i].lo \in Int
    BY <2>3, AtIs
  <2> QED BY <2>1, <2>2, <2>3, <2>4
<1>3. ASSUME NEW i \in 1 .. m
      PROVE  /\ e[i - 1] \in Int /\ e[i - 1] + 1 \in 1 .. n /\ e[i] \in 1 .. n /\ e[i - 1] + 1 <= e[i]
             /\ s[i].lo = agg[e[i - 1] + 1].lo /\ s[i].hi = agg[e[i]].lo
  <2>1. /\ e[i - 1] + 1 \in 1 .. n /\ e[i] \in 1 .. n /\ e[i - 1] + 1 <= e[i]
    BY <1>1, <1>2, CutIs
  <2>2. s[i].lo = agg[e[i - 1] + 1].lo /\ s[i].hi = agg[e[i]].hi
    BY <1>1 DEF CutInto
  <2>3. e[i - 1] \in Int
    <3>1. i - 1 \in 0 .. m /\ \A x \in 0 .. n : x \in Int
      BY <1>2
    <3> QED BY <1>1, <1>2, <3>1, CutIs
  <2> QED BY <1>2, <2>1, <2>2, <2>3
<1>4. ASSUME NEW a \in 1 .. n, NEW b \in 1 .. n, a < b PROVE agg[a].lo < agg[b].lo
  BY <1>1, <1>4 DEF Groups
<1>5. ASSUME NEW i \in 1 .. m PROVE s[i].lo <= s[i].hi
  <2>1. PICK a, b : a = e[i - 1] + 1 /\ b = e[i]
    OBVIOUS
  <2>2. a \in 1 .. n /\ b \in 1 .. n /\ a <= b /\ s[i].lo = agg[a].lo /\ s[i].hi = agg[b].lo
    BY <1>3, <2>1
  <2>3. agg[a].lo \in Int /\ agg[b].lo \in Int
    BY <1>2, <2>2
  <2>4. a = b \/ a < b
    BY <2>2
  <2> QED BY <1>4, <2>2, <2>3, <2>4
<1>6. ASSUME NEW i \in 1 .. m, NEW j \in 1 .. m, i < j
      PROVE  s[i].hi < s[j].lo /\ LessEq(Value(s[i]), Value(s[j]))
  <2>1. PICK a, b : a = e[i] /\ b = e[j - 1] + 1
    OBVIOUS
  <2>2. a \in 1 .. n /\ b \in 1 .. n /\ s[i].hi = agg[a].lo /\ s[j].lo = agg[b].lo
    BY <1>3, <2>1
  <2>3. a < b
    <3>1. i \in 0 .. m /\ j - 1 \in 0 .. m /\ (i = j - 1 \/ i < j - 1)
      BY <1>2, <1>6
    <3>2. i < j - 1 => e[i] < e[j - 1]
      BY <1>1, <3>1 DEF CutInto
    <3>3. e[j - 1] \in Int /\ e[i] \in Int
      BY <1>3
    <3> QED BY <2>1, <3>1, <3>2, <3>3
  <2>4. LessEq(Value(s[i]), Value(s[j]))
    BY <1>1, <1>6 DEF InPlace
  <2> QED BY <1>4, <2>2, <2>3, <2>4
<1> QED BY <1>1, <1>2, <1>5, <1>6 DEF Apart

-----------------------------------------------------------------------------
(* Interpolation. *)

\* A weighted mean is between its terms.
LEMMA Weighted ==
  ASSUME NEW p \in Int, NEW q \in Int, p <= q, NEW u \in Int, NEW w \in Int, u >= 0, w >= 0
  PROVE  /\ p * (u + w) <= p * u + q * w /\ p * u + q * w <= q * (u + w)
         /\ w = 0 => p * u + q * w = p * (u + w)
         /\ p * u \in Int /\ q * w \in Int /\ p * (u + w) \in Int /\ q * (u + w) \in Int
<1>1. p * w <= q * w /\ p * u <= q * u
  BY TimesMono
<1>2. PICK a, b, c, d : a = p * w /\ b = q * w /\ c = p * u /\ d = q * u
  OBVIOUS
<1>3. a \in Int /\ b \in Int /\ c \in Int /\ d \in Int
  BY <1>2
<1>4. p * (u + w) = c + a /\ q * (u + w) = d + b
  BY <1>2
<1>5. w = 0 => a = 0 /\ b = 0
  BY <1>2
<1>6. p * (u + w) \in Int /\ q * (u + w) \in Int
  OBVIOUS
<1> QED BY <1>1, <1>2, <1>3, <1>4, <1>5, <1>6

\* Between two control points the value is between theirs,
LEMMA BetweenIs ==
  ASSUME NEW p \in Point, NEW q \in Point, p.x < q.x, LessEq(p.y, q.y),
         NEW raw \in Int, p.x <= raw, raw <= q.x, NEW v, v = Between(raw, p, q)
  PROVE  /\ Frac(v) /\ v.num >= 0 /\ LessEq(p.y, v) /\ LessEq(v, q.y)
         /\ raw = p.x => LessEq(v, p.y)
<1>1. PICK a, b, c, d, u, w : /\ a = p.y.num /\ b = p.y.den /\ c = q.y.num /\ d = q.y.den
                              /\ u = q.x - raw /\ w = raw - p.x
  OBVIOUS
<1>2. /\ a \in Nat /\ b \in Nat /\ b > 0 /\ c \in Nat /\ d \in Nat /\ d > 0
      /\ u \in Int /\ w \in Int /\ u >= 0 /\ w >= 0 /\ u + w > 0 /\ q.x - p.x = u + w
  <2>1. p.x \in Int /\ q.x \in Int
    BY PointIs
  <2>2. u \in Int /\ w \in Int /\ u >= 0 /\ w >= 0 /\ u + w > 0 /\ q.x - p.x = u + w
    BY <1>1, <2>1
  <2>3. a \in Nat /\ b \in Nat /\ b > 0 /\ c \in Nat /\ d \in Nat /\ d > 0
    BY <1>1, PointIs DEF Frac
  <2> QED BY <2>2, <2>3
<1>3. PICK P, Q, T : P = a * d /\ Q = c * b /\ T = u + w
  OBVIOUS
<1>4. P \in Nat /\ Q \in Nat /\ P <= Q /\ T \in Int /\ T > 0
  <2>1. P \in Nat /\ Q \in Nat
    <3>1. P \in Int /\ Q \in Int /\ P >= 0 /\ Q >= 0
      BY <1>2, <1>3
    <3> QED BY <3>1
  <2>2. P <= Q
    BY <1>1, <1>3 DEF LessEq
  <2> QED BY <1>2, <1>3, <2>1, <2>2
<1>5. PICK M, L, U : M = P * u + Q * w /\ L = P * T /\ U = Q * T
  OBVIOUS
<1>6. M \in Int /\ L \in Int /\ U \in Int /\ L <= M /\ M <= U /\ M >= 0 /\ (w = 0 => M = L)
  <2>1. P \in Int /\ Q \in Int
    BY <1>4
  <2>2. /\ P * (u + w) <= P * u + Q * w /\ P * u + Q * w <= Q * (u + w)
        /\ w = 0 => P * u + Q * w = P * (u + w)
        /\ P * u \in Int /\ Q * w \in Int /\ P * (u + w) \in Int /\ Q * (u + w) \in Int
    BY <1>2, <1>4, <2>1, Weighted
  <2>3. L >= 0
    BY <1>4, <1>5
  <2> QED BY <1>3, <1>5, <2>2, <2>3
<1>7. v.num = M /\ v.den = (b * d) * T
  <2>1. v = [num |-> p.y.num * q.y.den * (q.x - raw) + q.y.num * p.y.den * (raw - p.x),
             den |-> p.y.den * q.y.den * (q.x - p.x)]
    BY DEF Between
  <2> QED BY <1>1, <1>2, <1>3, <1>5, <2>1
<1>8. (b * d) * T \in Int /\ (b * d) * T > 0
  <2>1. b * d \in Int /\ b * d > 0
    BY <1>2
  <2> QED BY <1>4, <2>1
<1>9. a * ((b * d) * T) = L * b /\ c * ((b * d) * T) = U * d
  BY <1>2, <1>3, <1>4, <1>5
<1>10. L * b <= M * b /\ M * d <= U * d
  BY <1>2, <1>6, TimesMono
<1>11. Frac(v) /\ v.num >= 0
  BY <1>6, <1>7, <1>8 DEF Frac
<1>12. LessEq(p.y, v) /\ LessEq(v, q.y)
  BY <1>1, <1>7, <1>9, <1>10 DEF LessEq
<1>13. raw = p.x => LessEq(v, p.y)
  <2>1. raw = p.x => w = 0
    BY <1>1, PointIs
  <2>2. w = 0 => M * b <= L * b
    BY <1>2, <1>6, TimesMono
  <2> QED BY <1>1, <1>7, <1>9, <2>1, <2>2 DEF LessEq
<1> QED BY <1>11, <1>12, <1>13

\* and does not decrease when the confidence grows.
LEMMA BetweenRises ==
  ASSUME NEW p \in Point, NEW q \in Point, p.x < q.x, LessEq(p.y, q.y),
         NEW raw \in Int, NEW next \in Int, p.x <= raw, raw <= next, next <= q.x
  PROVE  LessEq(Between(raw, p, q), Between(next, p, q))
<1>1. PICK P, Q, D, X, Y : /\ P = p.y.num * q.y.den /\ Q = q.y.num * p.y.den
                           /\ X = p.x /\ Y = q.x /\ D = p.y.den * q.y.den * (q.x - p.x)
  OBVIOUS
<1>2. /\ P \in Int /\ Q \in Int /\ P <= Q /\ X \in Int /\ Y \in Int /\ D \in Int /\ D >= 0
  <2>1. /\ p.y.num \in Nat /\ p.y.den \in Nat /\ q.y.num \in Nat /\ q.y.den \in Nat
        /\ p.x \in Int /\ q.x \in Int
    BY PointIs
  <2>2. P \in Int /\ Q \in Int /\ X \in Int /\ Y \in Int
    BY <1>1, <2>1
  <2>3. P <= Q
    BY <1>1 DEF LessEq
  <2>4. D \in Int /\ D >= 0
    <3>1. PICK b, d, t : b = p.y.den /\ d = q.y.den /\ t = q.x - p.x
      OBVIOUS
    <3>2. b \in Nat /\ d \in Nat /\ t \in Nat
      BY <2>1, <3>1
    <3>3. b * d \in Nat
      BY <3>2
    <3>4. (b * d) * t \in Int /\ (b * d) * t >= 0
      BY <3>2, <3>3
    <3> QED BY <1>1, <3>1, <3>4
  <2> QED BY <2>2, <2>3, <2>4
<1>3. PICK R, S : R = P * (Y - raw) + Q * (raw - X) /\ S = P * (Y - next) + Q * (next - X)
  OBVIOUS
<1>4. R \in Int /\ S \in Int /\ R <= S
  <2>1. PICK d : d = next - raw
    OBVIOUS
  <2>2. d \in Int /\ d >= 0 /\ next = raw + d
    BY <2>1
  <2>3. P * d <= Q * d
    BY <1>2, <2>2, TimesMono
  <2>4. P * (Y - raw) = P * (Y - next) + P * d /\ Q * (next - X) = Q * (raw - X) + Q * d
    BY <1>2, <2>2
  <2>5. PICK a, b, f, g : a = P * d /\ b = Q * d /\ f = P * (Y - next) /\ g = Q * (raw - X)
    OBVIOUS
  <2>6. a \in Int /\ b \in Int /\ f \in Int /\ g \in Int
    BY <1>2, <2>2, <2>5
  <2>7. R = f + a + g /\ S = f + (g + b)
    BY <1>3, <2>4, <2>5
  <2> QED BY <2>3, <2>5, <2>6, <2>7
<1>5. R * D <= S * D
  BY <1>2, <1>4, TimesMono
<1>6. /\ Between(raw, p, q).num = R /\ Between(raw, p, q).den = D
      /\ Between(next, p, q).num = S /\ Between(next, p, q).den = D
  BY <1>1, <1>3 DEF Between
<1> QED BY <1>5, <1>6 DEF LessEq

\* Control points as the calibration gives them.
Controls(c) == c \in Seq(Point) /\ Rising(c) /\ Len(c) > 0

\* Their order, for any two of them.
LEMMA ControlsAre ==
  ASSUME NEW c, Controls(c)
  PROVE  /\ Len(c) \in Nat /\ 1 \in 1 .. Len(c) /\ Len(c) \in 1 .. Len(c)
         /\ \A t \in 1 .. Len(c) : c[t] \in Point /\ c[t].x \in Int /\ Frac(c[t].y) /\ c[t].y.num >= 0
         /\ \A t, u \in 1 .. Len(c) : t < u => c[t].x < c[u].x
         /\ \A t, u \in 1 .. Len(c) : t <= u => c[t].x <= c[u].x /\ LessEq(c[t].y, c[u].y)
<1>1. PICK n : n = Len(c)
  OBVIOUS
<1>2. n \in Nat /\ n > 0 /\ \A t \in 1 .. n : c[t] \in Point
  BY <1>1 DEF Controls
<1>3. \A t \in 1 .. n : c[t] \in Point /\ c[t].x \in Int /\ Frac(c[t].y) /\ c[t].y.num >= 0
  BY <1>2, PointIs
<1>4. ASSUME NEW t \in 1 .. n, NEW u \in 1 .. n, t < u
      PROVE  c[t].x < c[u].x /\ LessEq(c[t].y, c[u].y)
  BY <1>1, <1>4 DEF Controls, Rising
<1>5. ASSUME NEW t \in 1 .. n, NEW u \in 1 .. n, t <= u
      PROVE  c[t].x <= c[u].x /\ LessEq(c[t].y, c[u].y)
  <2>1. CASE t = u
    <3>1. c[t].x \in Int /\ Frac(c[t].y)
      BY <1>3
    <3> QED BY <2>1, <3>1, LessTotal
  <2>2. CASE t # u
    <3>1. t < u
      BY <1>5, <2>2
    <3>2. c[t].x \in Int /\ c[u].x \in Int
      BY <1>3
    <3> QED BY <1>4, <3>1, <3>2
  <2> QED BY <2>1, <2>2
<1>6. 1 \in 1 .. n /\ n \in 1 .. n
  BY <1>2
<1> QED BY <1>1, <1>2, <1>3, <1>4, <1>5, <1>6

\* Where a confidence falls: between the control points i - 1 and i.
Falls(c, raw, i) ==
  /\ i \in 1 .. Len(c) /\ i - 1 \in 1 .. Len(c)
  /\ c[i - 1].x <= raw /\ raw < c[i].x /\ c[i - 1].x < c[i].x /\ LessEq(c[i - 1].y, c[i].y)
\* The three cases of an interpolation.
Low(c, raw) == raw <= c[1].x /\ InterpConf(raw, c) = c[1].y
High(c, raw) == raw > c[1].x /\ raw >= c[Len(c)].x /\ InterpConf(raw, c) = c[Len(c)].y
Mid(c, raw, i) ==
  /\ raw > c[1].x /\ raw < c[Len(c)].x /\ Falls(c, raw, i)
  /\ InterpConf(raw, c) = Between(raw, c[i - 1], c[i])

\* One of them holds: the CHOOSE of InterpConf has a value.
LEMMA InterpIs ==
  ASSUME NEW c, Controls(c), NEW raw \in Int
  PROVE  Low(c, raw) \/ High(c, raw) \/ \E i : Mid(c, raw, i)
<1>1. PICK n : n = Len(c)
  OBVIOUS
<1>2. /\ n \in Nat /\ n > 0 /\ DOMAIN c = 1 .. n /\ c[1].x \in Int /\ c[n].x \in Int
      /\ \A t \in 1 .. n : c[t].x \in Int
  <2>1. n \in Nat /\ n > 0 /\ DOMAIN c = 1 .. n
    BY <1>1 DEF Controls
  <2>2. \A t \in 1 .. n : c[t].x \in Int
    BY <1>1, ControlsAre
  <2>3. 1 \in 1 .. n /\ n \in 1 .. n
    BY <2>1
  <2> QED BY <2>1, <2>2, <2>3
<1>3. CASE raw <= c[1].x
  BY <1>3 DEF InterpConf, Low
<1>4. CASE raw > c[1].x /\ raw >= c[n].x
  <2>1. ~ (raw <= c[1].x)
    BY <1>2, <1>4
  <2> QED BY <1>1, <1>4, <2>1 DEF InterpConf, High, Last
<1>5. CASE raw > c[1].x /\ raw < c[n].x
  <2>1. ~ (raw <= c[1].x) /\ ~ (raw >= c[n].x)
    BY <1>2, <1>5
  <2>2. PICK i : i = CHOOSE k \in DOMAIN c : c[k].x > raw /\ c[k - 1].x <= raw
    OBVIOUS
  <2>3. \E k \in DOMAIN c : c[k].x > raw /\ c[k - 1].x <= raw
    <3> SUFFICES ASSUME \A k \in DOMAIN c : ~ (c[k].x > raw /\ c[k - 1].x <= raw) PROVE FALSE
      OBVIOUS
    <3>1. PICK m, I : m = n - 1 /\ I = {k \in 0 .. m : c[k + 1].x <= raw}
      OBVIOUS
    <3>2. m \in Nat /\ 0 \in I
      <4>1. 0 + 1 = 1 /\ m \in Nat /\ 0 \in 0 .. m
        BY <1>2, <3>1
      <4> QED BY <1>2, <1>5, <3>1, <4>1
    <3>3. ASSUME NEW k \in 1 .. m, k - 1 \in I PROVE k \in I
      <4>1. k - 1 + 1 = k /\ k + 1 - 1 = k /\ k \in 0 .. m /\ k + 1 \in 1 .. n
        BY <1>2, <3>1, <3>2
      <4>2. c[k].x <= raw
        BY <3>1, <3>3, <4>1
      <4>3. ~ (c[k + 1].x > raw)
        BY <1>2, <4>1, <4>2
      <4>4. c[k + 1].x <= raw
        BY <1>2, <4>1, <4>3
      <4> QED BY <3>1, <4>1, <4>4
    <3>4. m \in I
      <4>1. m \in 0 .. m
        BY <3>2
      <4>2. \A k \in 1 .. m : k - 1 \in I => k \in I
        BY <3>3
      <4> QED BY <3>2, <4>1, <4>2, IntervalInduction
    <3>5. m + 1 = n
      BY <1>2, <3>1
    <3> QED BY <1>2, <1>5, <3>1, <3>4, <3>5
  <2>4. i \in DOMAIN c /\ c[i].x > raw /\ c[i - 1].x <= raw
    BY <2>2, <2>3
  <2>5. i # 1
    BY <1>2, <1>5, <2>4
  <2>6. i \in 1 .. n /\ i - 1 \in 1 .. n /\ i - 1 < i /\ i - 1 <= i
    BY <1>2, <2>4, <2>5
  <2>7. Falls(c, raw, i)
    <3>1. c[i].x \in Int /\ c[i - 1].x \in Int
      BY <1>2, <2>6
    <3>2. raw < c[i].x /\ c[i - 1].x < c[i].x
      BY <2>4, <3>1
    <3>3. LessEq(c[i - 1].y, c[i].y)
      BY <1>1, <2>6, ControlsAre
    <3> QED BY <1>1, <2>4, <2>6, <3>2, <3>3 DEF Falls
  <2>8. InterpConf(raw, c) = Between(raw, c[i - 1], c[i])
    BY <1>1, <2>1, <2>2 DEF InterpConf, Last
  <2> QED BY <1>1, <1>5, <2>7, <2>8 DEF Mid
<1> QED BY <1>2, <1>3, <1>4, <1>5

\* Between two points, the value is between theirs.
LEMMA MidIs ==
  ASSUME NEW c, Controls(c), NEW raw \in Int, NEW i, Mid(c, raw, i)
  PROVE  /\ c[i - 1] \in Point /\ c[i] \in Point /\ i \in 1 .. Len(c) /\ i - 1 \in 1 .. Len(c)
         /\ c[i - 1].x <= raw /\ raw < c[i].x /\ raw <= c[i].x /\ c[i - 1].x < c[i].x
         /\ LessEq(c[i - 1].y, c[i].y) /\ InterpConf(raw, c) = Between(raw, c[i - 1], c[i])
         /\ Frac(InterpConf(raw, c)) /\ InterpConf(raw, c).num >= 0
         /\ LessEq(c[i - 1].y, InterpConf(raw, c)) /\ LessEq(InterpConf(raw, c), c[i].y)
         /\ raw = c[i - 1].x => LessEq(InterpConf(raw, c), c[i - 1].y)
<1>1. /\ i \in 1 .. Len(c) /\ i - 1 \in 1 .. Len(c)
      /\ c[i - 1].x <= raw /\ raw < c[i].x /\ c[i - 1].x < c[i].x
      /\ LessEq(c[i - 1].y, c[i].y) /\ InterpConf(raw, c) = Between(raw, c[i - 1], c[i])
  BY DEF Mid, Falls
<1>2. c[i - 1] \in Point /\ c[i] \in Point /\ c[i].x \in Int
  BY <1>1, ControlsAre
<1>3. raw <= c[i].x
  BY <1>1, <1>2
<1>4. PICK p, q, v : p = c[i - 1] /\ q = c[i] /\ v = InterpConf(raw, c)
  OBVIOUS
<1>5. /\ Frac(v) /\ v.num >= 0 /\ LessEq(p.y, v) /\ LessEq(v, q.y)
      /\ raw = p.x => LessEq(v, p.y)
  BY <1>1, <1>2, <1>3, <1>4, BetweenIs
<1> QED BY <1>1, <1>2, <1>3, <1>4, <1>5

\* The value at any confidence is a fraction between those of the first and of the last point.
LEMMA InterpWithin ==
  ASSUME NEW c, Controls(c), NEW raw \in Int
  PROVE  /\ Frac(InterpConf(raw, c)) /\ InterpConf(raw, c).num >= 0
         /\ LessEq(c[1].y, InterpConf(raw, c)) /\ LessEq(InterpConf(raw, c), c[Len(c)].y)
<1>1. /\ Frac(c[1].y) /\ Frac(c[Len(c)].y) /\ c[1].y.num >= 0 /\ c[Len(c)].y.num >= 0
      /\ LessEq(c[1].y, c[Len(c)].y) /\ LessEq(c[1].y, c[1].y) /\ LessEq(c[Len(c)].y, c[Len(c)].y)
  <2>1. 1 \in 1 .. Len(c) /\ Len(c) \in 1 .. Len(c) /\ 1 <= Len(c) /\ 1 <= 1 /\ Len(c) <= Len(c)
    BY ControlsAre
  <2> QED BY <2>1, ControlsAre
<1>2. CASE Low(c, raw)
  BY <1>1, <1>2 DEF Low
<1>3. CASE High(c, raw)
  BY <1>1, <1>3 DEF High
<1>4. ASSUME NEW i, Mid(c, raw, i)
      PROVE  /\ Frac(InterpConf(raw, c)) /\ InterpConf(raw, c).num >= 0
             /\ LessEq(c[1].y, InterpConf(raw, c)) /\ LessEq(InterpConf(raw, c), c[Len(c)].y)
  <2>1. PICK v, p, q : v = InterpConf(raw, c) /\ p = c[i - 1].y /\ q = c[i].y
    OBVIOUS
  <2>2. /\ i \in 1 .. Len(c) /\ i - 1 \in 1 .. Len(c) /\ Frac(v) /\ v.num >= 0
        /\ LessEq(p, v) /\ LessEq(v, q)
    BY <1>4, <2>1, MidIs
  <2>3. 1 <= i - 1 /\ i <= Len(c) /\ 1 \in 1 .. Len(c) /\ Len(c) \in 1 .. Len(c)
    BY <2>2, ControlsAre
  <2>4. Frac(p) /\ Frac(q) /\ LessEq(c[1].y, p) /\ LessEq(q, c[Len(c)].y)
    BY <2>1, <2>2, <2>3, ControlsAre
  <2> QED BY <1>1, <2>1, <2>2, <2>4, LessTrans
<1> QED BY <1>2, <1>3, <1>4, InterpIs

\* At the confidences a block spans, the value is the mean of the block.
LEMMA InterpOfBlock ==
  ASSUME NEW c, Controls(c), NEW b \in Block, b.lo <= b.hi, Spans(c, b),
         NEW x \in Int, b.lo <= x, x <= b.hi
  PROVE  Frac(InterpConf(x, c)) /\ Equal(InterpConf(x, c), Value(b))
<1>1. PICK n, v, f : n = Len(c) /\ v = Value(b) /\ f = InterpConf(x, c)
  OBVIOUS
<1>2. PICK t, u : /\ t \in 1 .. n /\ u \in 1 .. n /\ (u = t \/ u = t + 1)
                  /\ c[t] = At(b.lo, b) /\ c[u] = At(b.hi, b)
  <2>1. PICK t \in 1 .. n : /\ c[t] = At(b.lo, b)
                            /\ b.hi > b.lo => t + 1 \in 1 .. n /\ c[t + 1] = At(b.hi, b)
    BY <1>1 DEF Spans
  <2>2. CASE b.hi > b.lo
    BY <2>1, <2>2
  <2>3. CASE ~ (b.hi > b.lo)
    <3>1. b.hi = b.lo
      BY <2>3, AtIs
    <3> QED BY <2>1, <3>1
  <2> QED BY <2>2, <2>3
<1>3. /\ n \in Nat /\ 1 \in 1 .. n /\ n \in 1 .. n /\ \A i \in 1 .. n : c[i].x \in Int
      /\ \A i, j \in 1 .. n : i < j => c[i].x < c[j].x
      /\ \A i, j \in 1 .. n : i <= j => c[i].x <= c[j].x
  BY <1>1, ControlsAre
<1>4. /\ c[t].x = b.lo /\ c[u].x = b.hi /\ c[t].y = v /\ c[u].y = v
      /\ b.lo \in Int /\ b.hi \in Int /\ Frac(v) /\ LessEq(v, v)
  <2>1. /\ c[t].x = b.lo /\ c[u].x = b.hi /\ c[t].y = v /\ c[u].y = v /\ b.lo \in Int /\ b.hi \in Int
    BY <1>1, <1>2, AtIs
  <2> QED BY <1>1, <2>1, BlockIs, LessTotal
<1>5. CASE Low(c, x)
  <2>1. x <= c[1].x /\ f = c[1].y
    BY <1>1, <1>5 DEF Low
  <2>2. ~ (c[1].x < c[t].x)
    BY <1>3, <1>4, <2>1
  <2>3. t = 1
    BY <1>2, <1>3, <2>2
  <2> QED BY <1>1, <1>4, <2>1, <2>3 DEF Equal
<1>6. CASE High(c, x)
  <2>1. x >= c[n].x /\ f = c[n].y
    BY <1>1, <1>6 DEF High
  <2>2. ~ (c[u].x < c[n].x)
    BY <1>3, <1>4, <2>1
  <2>3. u = n
    BY <1>2, <1>3, <2>2
  <2> QED BY <1>1, <1>4, <2>1, <2>3 DEF Equal
<1>7. ASSUME NEW i, Mid(c, x, i) PROVE Frac(f) /\ LessEq(v, f) /\ LessEq(f, v)
  <2>1. PICK j : j = i - 1
    OBVIOUS
  <2>2. /\ i \in 1 .. n /\ j \in 1 .. n /\ i = j + 1 /\ c[j].x <= x /\ x < c[i].x
        /\ Frac(f) /\ LessEq(c[j].y, f) /\ LessEq(f, c[i].y)
        /\ x = c[j].x => LessEq(f, c[j].y)
    <3>1. /\ i \in 1 .. n /\ j \in 1 .. n /\ c[j].x <= x /\ x < c[i].x
          /\ Frac(f) /\ LessEq(c[j].y, f) /\ LessEq(f, c[i].y)
          /\ x = c[j].x => LessEq(f, c[j].y)
      BY <1>1, <1>7, <2>1, MidIs
    <3> QED BY <2>1, <3>1
  <2>3. t <= j
    <3>1. ~ (c[i].x <= c[t].x)
      BY <1>2, <1>3, <1>4, <2>2
    <3>2. ~ (i <= t)
      BY <1>2, <1>3, <2>2, <3>1
    <3> QED BY <1>2, <2>2, <3>2
  <2>4. j <= u
    <3>1. ~ (c[u].x < c[j].x)
      BY <1>2, <1>3, <1>4, <2>2
    <3>2. ~ (u < j)
      BY <1>2, <1>3, <2>2, <3>1
    <3> QED BY <1>2, <2>2, <3>2
  <2>5. CASE j = u
    <3>1. x = c[j].x
      BY <1>3, <1>4, <2>2, <2>5
    <3> QED BY <1>4, <2>2, <2>5, <3>1
  <2>6. CASE j # u
    <3>1. j = t /\ i = u
      BY <1>2, <2>2, <2>3, <2>4, <2>6
    <3> QED BY <1>4, <2>2, <3>1
  <2> QED BY <2>5, <2>6
<1>8. ASSUME NEW i, Mid(c, x, i) PROVE Frac(InterpConf(x, c)) /\ Equal(InterpConf(x, c), Value(b))
  BY <1>1, <1>7, <1>8 DEF Equal
<1> QED BY <1>5, <1>6, <1>8, InterpIs

\* The value does not decrease with the confidence.
LEMMA InterpRises ==
  ASSUME NEW c, Controls(c), NEW raw \in Int, NEW next \in Int, raw < next
  PROVE  LessEq(InterpConf(raw, c), InterpConf(next, c))
<1>1. PICK n, v, w : n = Len(c) /\ v = InterpConf(raw, c) /\ w = InterpConf(next, c)
  OBVIOUS
<1>2. /\ Frac(v) /\ Frac(w) /\ LessEq(c[1].y, w) /\ LessEq(v, c[n].y)
  BY <1>1, InterpWithin
<1>3. /\ n \in Nat /\ 1 \in 1 .. n /\ n \in 1 .. n /\ \A i \in 1 .. n : c[i].x \in Int /\ Frac(c[i].y)
      /\ \A i, j \in 1 .. n : i <= j => c[i].x <= c[j].x /\ LessEq(c[i].y, c[j].y)
  BY <1>1, ControlsAre
<1>4. CASE Low(c, raw)
  BY <1>1, <1>2, <1>4 DEF Low
<1>5. CASE High(c, next)
  BY <1>1, <1>2, <1>5 DEF High
<1>6. CASE ~ Low(c, raw) /\ ~ High(c, next)
  <2>1. c[1].x \in Int /\ c[n].x \in Int
    BY <1>3
  <2>2. raw > c[1].x
    BY <1>1, <1>6, InterpIs DEF Low, High, Mid
  <2>3. ~ Low(c, next)
    <3>1. ~ (next <= c[1].x)
      BY <2>1, <2>2
    <3> QED BY <3>1 DEF Low
  <2>4. PICK k : Mid(c, next, k)
    BY <1>6, <2>3, InterpIs
  <2>5. ~ High(c, raw)
    <3>1. next < c[n].x
      BY <1>1, <2>4 DEF Mid
    <3>2. ~ (raw >= c[n].x)
      BY <2>1, <3>1
    <3> QED BY <1>1, <3>2 DEF High
  <2>6. PICK i : Mid(c, raw, i)
    BY <1>6, <2>5, InterpIs
  <2>7. /\ c[i - 1] \in Point /\ c[i] \in Point /\ i \in 1 .. n /\ i - 1 \in 1 .. n
        /\ c[i - 1].x <= raw /\ raw < c[i].x /\ c[i - 1].x < c[i].x
        /\ LessEq(c[i - 1].y, c[i].y) /\ v = Between(raw, c[i - 1], c[i]) /\ LessEq(v, c[i].y)
    BY <1>1, <2>6, MidIs
  <2>8. /\ k \in 1 .. n /\ k - 1 \in 1 .. n /\ c[k - 1].x <= next /\ next < c[k].x /\ next <= c[k].x
        /\ w = Between(next, c[k - 1], c[k]) /\ LessEq(c[k - 1].y, w)
    BY <1>1, <2>4, MidIs
  <2>9. i <= k
    <3>1. i \in Int /\ k \in Int /\ i - 1 \in Int /\ c[i - 1].x \in Int /\ c[k].x \in Int
      BY <1>3, <2>7, <2>8
    <3>2. ~ (c[k].x <= c[i - 1].x)
      BY <2>7, <2>8, <3>1
    <3>3. ~ (k <= i - 1)
      BY <1>3, <2>7, <2>8, <3>2
    <3> QED BY <3>1, <3>3
  <2>10. CASE i = k
    <3>1. raw <= next
      OBVIOUS
    <3> QED BY <1>1, <2>7, <2>8, <2>10, <3>1, BetweenRises
  <2>11. CASE i # k
    <3>1. i <= k - 1
      BY <2>7, <2>8, <2>9, <2>11
    <3>2. LessEq(c[i].y, c[k - 1].y) /\ Frac(c[i].y) /\ Frac(c[k - 1].y)
      BY <1>3, <2>7, <2>8, <3>1
    <3>3. LessEq(v, c[k - 1].y)
      BY <1>2, <2>7, <3>2, LessTrans
    <3> QED BY <1>1, <1>2, <2>8, <3>2, <3>3, LessTrans
  <2> QED BY <2>10, <2>11
<1> QED BY <1>4, <1>5, <1>6

-----------------------------------------------------------------------------
(* The confidence emitted. *)

\* The least of two fractions is the greatest that is below both.
LEMMA LeastIsMonotone ==
  ASSUME NEW a, NEW b, Frac(a), Frac(b)
  PROVE  /\ Frac(Least(a, b)) /\ LessEq(Least(a, b), a) /\ LessEq(Least(a, b), b)
         /\ a.num >= 0 /\ b.num >= 0 => Least(a, b).num >= 0
         /\ \A v : Frac(v) /\ LessEq(v, a) /\ LessEq(v, b) => LessEq(v, Least(a, b))
<1>1. CASE LessEq(a, b)
  <2>1. Least(a, b) = a
    BY <1>1 DEF Least
  <2> QED BY <1>1, <2>1, LessTotal
<1>2. CASE ~ LessEq(a, b)
  <2>1. Least(a, b) = b /\ LessEq(b, a)
    BY <1>2, LessTotal DEF Least
  <2> QED BY <2>1, LessTotal
<1> QED BY <1>1, <1>2

\* The raw confidence as a fraction, and 1.
Raw(raw) == [num |-> raw, den |-> Scale]
One == [num |-> 1, den |-> 1]

\* They are fractions, and the raw one grows.
LEMMA RawIs ==
  ASSUME NEW raw \in Int, raw >= 0
  PROVE  Frac(Raw(raw)) /\ Raw(raw).num >= 0 /\ Frac(One) /\ One.num >= 0
         /\ \A next \in Int : raw <= next => LessEq(Raw(raw), Raw(next))
<1>1. Scale \in Int /\ Scale > 0
  BY CalibrationAssumption
<1>2. Frac(Raw(raw)) /\ Raw(raw).num >= 0 /\ Frac(One) /\ One.num >= 0
  BY <1>1 DEF Raw, One, Frac
<1>3. ASSUME NEW next \in Int, raw <= next PROVE LessEq(Raw(raw), Raw(next))
  <2>1. raw * Scale <= next * Scale
    BY <1>1, <1>3, TimesMono
  <2> QED BY <2>1 DEF Raw, LessEq
<1> QED BY <1>2, <1>3

\* The clamp at 0 changes nothing.
LEMMA EmittedIs ==
  ASSUME NEW c, Controls(c), NEW raw \in Int, raw >= 0
  PROVE  /\ Emitted(raw, c) = Least(One, Least(Raw(raw), InterpConf(raw, c)))
         /\ Frac(Least(Raw(raw), InterpConf(raw, c))) /\ Frac(Emitted(raw, c))
<1>1. PICK f, v : f = InterpConf(raw, c) /\ v = Least(Raw(raw), f)
  OBVIOUS
<1>2. Frac(f) /\ f.num >= 0 /\ Frac(Raw(raw)) /\ Raw(raw).num >= 0 /\ Frac(One)
  BY <1>1, InterpWithin, RawIs
<1>3. Frac(v) /\ v.num >= 0
  BY <1>1, <1>2, LeastIsMonotone
<1>4. ~ (v.num < 0)
  BY <1>3 DEF Frac
<1>5. Emitted(raw, c) = Least(One, v)
  BY <1>1, <1>4 DEF Emitted, Raw, One
<1> QED BY <1>1, <1>2, <1>3, <1>5, LeastIsMonotone

\* KeepsOrder of any control points.
LEMMA OrderKept == ASSUME NEW c, Controls(c) PROVE KeepsOrder(c)
<1>1. \A raw \in 0 .. Scale : raw \in Int /\ raw >= 0 /\ (raw < Scale => raw + 1 \in 0 .. Scale)
  BY CalibrationAssumption
<1>2. ASSUME NEW raw \in 0 .. Scale PROVE LessEq(Emitted(raw, c), Raw(raw))
  <2>1. PICK f, v, w : f = InterpConf(raw, c) /\ v = Least(Raw(raw), f) /\ w = Emitted(raw, c)
    OBVIOUS
  <2>2. /\ Frac(f) /\ Frac(v) /\ Frac(w) /\ w = Least(One, v) /\ Frac(Raw(raw)) /\ Frac(One)
    BY <1>1, <2>1, EmittedIs, InterpWithin, RawIs
  <2>3. LessEq(w, v) /\ LessEq(v, Raw(raw))
    BY <2>1, <2>2, LeastIsMonotone
  <2> QED BY <2>1, <2>2, <2>3, LessTrans
<1>3. ASSUME NEW raw \in 0 .. Scale, raw < Scale PROVE LessEq(Emitted(raw, c), Emitted(raw + 1, c))
  <2>1. PICK next : next = raw + 1
    OBVIOUS
  <2>2. raw \in Int /\ raw >= 0 /\ next \in Int /\ next >= 0 /\ raw < next /\ raw <= next
    BY <1>1, <2>1
  <2>3. PICK f, v, w, g, x, y : /\ f = InterpConf(raw, c) /\ v = Least(Raw(raw), f) /\ w = Emitted(raw, c)
                                /\ g = InterpConf(next, c) /\ x = Least(Raw(next), g) /\ y = Emitted(next, c)
    OBVIOUS
  <2>4. /\ Frac(f) /\ Frac(v) /\ Frac(w) /\ w = Least(One, v) /\ Frac(Raw(raw)) /\ Frac(One)
        /\ Frac(g) /\ Frac(x) /\ Frac(y) /\ y = Least(One, x) /\ Frac(Raw(next))
    BY <2>2, <2>3, EmittedIs, InterpWithin, RawIs
  <2>5. LessEq(f, g) /\ LessEq(Raw(raw), Raw(next))
    BY <2>2, <2>3, InterpRises, RawIs
  <2>6. LessEq(w, One) /\ LessEq(w, v) /\ LessEq(v, Raw(raw)) /\ LessEq(v, f)
    BY <2>3, <2>4, LeastIsMonotone
  <2>7. LessEq(v, g) /\ LessEq(v, Raw(next))
    BY <2>4, <2>5, <2>6, LessTrans
  <2>8. LessEq(v, x)
    BY <2>3, <2>4, <2>7, LeastIsMonotone
  <2>9. LessEq(w, x)
    BY <2>4, <2>6, <2>8, LessTrans
  <2>10. LessEq(w, y)
    BY <2>4, <2>6, <2>9, LeastIsMonotone
  <2> QED BY <2>1, <2>3, <2>10
<1>4. PICK emitted : emitted = [raw \in 0 .. Scale |-> Emitted(raw, c)]
  OBVIOUS
<1>5. \A raw \in 0 .. Scale : /\ LessEq(emitted[raw], Raw(raw))
                              /\ raw < Scale => LessEq(emitted[raw], emitted[raw + 1])
  BY <1>1, <1>2, <1>3, <1>4
<1> QED BY <1>4, <1>5 DEF KeepsOrder, Raw

-----------------------------------------------------------------------------
(* The whole. *)

\* Every group is in one of the blocks.
LEMMA InSomeBlock ==
  ASSUME NEW agg, Groups(agg), NEW s, NEW e, CutInto(agg, s, e, Len(agg)), NEW i \in 1 .. Len(agg)
  PROVE  \E q \in 1 .. Len(s) : e[q - 1] < i /\ i <= e[q]
<1> SUFFICES ASSUME \A q \in 1 .. Len(s) : ~ (e[q - 1] < i /\ i <= e[q]) PROVE FALSE
  OBVIOUS
<1>1. PICK m, n : m = Len(s) /\ n = Len(agg)
  OBVIOUS
<1>2. m \in Nat /\ n \in Nat /\ e[0] = 0 /\ e[m] = n /\ \A q \in 0 .. m : e[q] \in Int
  <2>1. n \in Nat /\ n \in 0 .. Len(agg)
    BY <1>1, GroupsAre
  <2>2. m \in Nat /\ \A q \in 0 .. m : e[q] \in 0 .. n
    BY <1>1, <2>1, CutIs
  <2>3. e[0] = 0 /\ e[m] = n
    BY <1>1 DEF CutInto
  <2> QED BY <2>1, <2>2, <2>3
<1>3. PICK I : I = {q \in 0 .. m : e[q] < i}
  OBVIOUS
<1>4. 0 \in I
  BY <1>1, <1>2, <1>3
<1>5. ASSUME NEW q \in 1 .. m, q - 1 \in I PROVE q \in I
  <2>1. e[q - 1] < i /\ q \in 0 .. m
    BY <1>2, <1>3, <1>5
  <2>2. ~ (i <= e[q])
    BY <1>1, <2>1
  <2> QED BY <1>1, <1>2, <1>3, <2>1, <2>2
<1>6. m \in I
  <2>1. m \in 0 .. m
    BY <1>2
  <2>2. \A q \in 1 .. m : q - 1 \in I => q \in I
    BY <1>5
  <2> QED BY <1>2, <1>4, <2>1, <2>2, IntervalInduction
<1> QED BY <1>1, <1>2, <1>3, <1>6

\* The control points of the rows, when they are not refused, are those of the blocks.
LEMMA CalibrationIsIsotonic ==
  ASSUME NEW ps \in Seq(Row), ~ Refused(ps), NEW agg, agg = Aggregate(ps), NEW c, c = FitIsotonic(ps)
  PROVE  Regression(agg, c) /\ KeepsOrder(c)
<1>1. PICK s, n : s = Blocks(ps) /\ n = Len(agg)
  OBVIOUS
<1>2. Groups(agg) /\ Pooled(agg, s, n)
  BY <1>1, BlocksArePooled
<1>3. PICK e : CutInto(agg, s, e, n) /\ InPlace(agg, s, e, Len(s), n)
  BY <1>2 DEF Pooled
<1>4. Apart(s) /\ s \in Seq(Block) /\ n \in Nat /\ DOMAIN agg = 1 .. n
  BY <1>1, <1>2, <1>3, BlocksAreApart, GroupsAre DEF Apart
<1>5. c = FlattenSeq([i \in DOMAIN s |-> Ends(s[i])])
  BY <1>1 DEF FitIsotonic
<1>6. Len(s) > 0
  <2>1. SUFFICES ASSUME Len(s) = 0 PROVE FALSE
    BY <1>4
  <2>2. PICK seqs : seqs = [i \in DOMAIN s |-> Ends(s[i])]
    OBVIOUS
  <2>3. DOMAIN s = {} /\ DOMAIN seqs = {}
    BY <1>4, <2>1, <2>2
  <2>4. seqs = <<>>
    BY <1>4, <2>1, <2>2
  <2>5. c = <<>>
    BY <1>5, <2>2, <2>4 DEF FlattenSeq
  <2>6. Len(c) >= 2
    <3>1. ~ (Len(c) < 2)
      BY DEF Refused
    <3> QED BY <2>5, <3>1
  <2> QED BY <2>5, <2>6
<1>7. Controls(c) /\ \A q \in 1 .. Len(s) : Spans(c, s[q])
  BY <1>4, <1>5, <1>6, Curve DEF Controls
<1>8. ASSUME NEW i \in 1 .. n
      PROVE  Equal(InterpConf(agg[i].lo, c), IsotonicAt(agg, i))
  <2>1. PICK q \in 1 .. Len(s) : e[q - 1] < i /\ i <= e[q]
    BY <1>1, <1>2, <1>3, InSomeBlock
  <2>2. PICK b, a, z : b = s[q] /\ a = e[q - 1] + 1 /\ z = e[q]
    OBVIOUS
  <2>3. Frac(IsotonicAt(agg, i)) /\ Equal(IsotonicAt(agg, i), Value(b))
    BY <1>1, <1>2, <1>3, <2>1, <2>2, Minimax
  <2>4. b \in Block /\ Frac(Value(b)) /\ b.lo <= b.hi /\ Spans(c, b)
    BY <1>4, <1>7, <2>2, BlockIs DEF Apart
  <2>5. a \in 1 .. n /\ z \in 1 .. n /\ a <= i /\ i <= z /\ b.lo = agg[a].lo /\ b.hi = agg[z].lo
    <3>1. n \in 0 .. Len(agg) /\ e[q - 1] \in Int
      <4>1. n \in 0 .. Len(agg)
        BY <1>1, <1>4
      <4>2. q - 1 \in 0 .. Len(s)
        BY <1>4
      <4>3. e[q - 1] \in 0 .. n
        BY <1>2, <1>3, <4>1, <4>2, CutIs
      <4> QED BY <1>4, <4>1, <4>3
    <3>2. a \in 1 .. n /\ z \in 1 .. n
      BY <1>1, <1>2, <1>3, <2>2, <3>1, CutIs
    <3>3. b.lo = agg[a].lo /\ b.hi = agg[z].hi
      BY <1>3, <2>2 DEF CutInto
    <3>4. agg[z].lo = agg[z].hi
      BY <1>1, <1>2, <3>2 DEF Groups
    <3> QED BY <2>1, <2>2, <3>1, <3>2, <3>3, <3>4
  <2>6. agg[i].lo \in Int /\ b.lo <= agg[i].lo /\ agg[i].lo <= b.hi
    <3>1. \A j \in 1 .. n : agg[j].lo \in Int
      BY <1>1, <1>2, GroupsAre, AtIs
    <3>2. a < i => agg[a].lo < agg[i].lo
      BY <1>1, <1>2, <2>5 DEF Groups
    <3>3. i < z => agg[i].lo < agg[z].lo
      BY <1>1, <1>2, <2>5 DEF Groups
    <3>4. (a = i \/ a < i) /\ (i = z \/ i < z)
      BY <2>5
    <3> QED BY <2>5, <3>1, <3>2, <3>3, <3>4
  <2>7. Frac(InterpConf(agg[i].lo, c)) /\ Equal(InterpConf(agg[i].lo, c), Value(b))
    BY <1>7, <2>4, <2>6, InterpOfBlock
  <2> QED BY <2>3, <2>4, <2>7, LessTrans DEF Equal
<1>9. Regression(agg, c)
  BY <1>4, <1>8 DEF Regression, Equal
<1> QED BY <1>7, <1>9, OrderKept

\* EmittedIsIsotonic of every calibration: whatever the rows, the scale and the bound.
THEOREM ConfidencesAreIsotonic == CalibrationSpec => []EmittedIsIsotonic
<1> DEFINE RowsOnly == points \in Seq(Row)
<1>1. CalibrationInit => RowsOnly
  BY DEF CalibrationInit
<1>2. RowsOnly /\ [Predict]_points => RowsOnly'
  <2> SUFFICES ASSUME RowsOnly, Predict PROVE RowsOnly'
    OBVIOUS
  <2>1. PICK r : r \in Row /\ points' = Append(points, r)
    BY DEF Predict, Row
  <2> QED BY <2>1
<1>3. RowsOnly => EmittedIsIsotonic
  BY CalibrationIsIsotonic DEF EmittedIsIsotonic
<1> QED BY <1>1, <1>2, <1>3, PTL DEF CalibrationSpec

=============================================================================
