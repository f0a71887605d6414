------------------------------- MODULE Corpus --------------------------------
(***************************************************************************)
(* The data of the router's training: a golden set that judges candidates  *)
(* and must never be learned from, a synthetic corpus drawn around it, and *)
(* the files that tie one to the other. The operator runs one command at a *)
(* time, in any order; any may be interrupted.                             *)
(*                                                                         *)
(*   router/eval/golden/generate_golden.py  golden.jsonl                   *)
(*   router/eval/golden/HUMAN_REVIEW_WELCOME.md  GOLDEN_SHA256, by hand    *)
(*   router/data/generate_corpus.py   draws, rejections, noise, four files *)
(*   router/data/quality_report.py    contradictions of a corpus           *)
(*   Makefile router-corpus           both, then the reference copies      *)
(*   router/train/train_v05.py        reads the corpus the reference pins  *)
(*   router/eval/harness.py, router/train/promote.py  judge and promote    *)
(*                                                                         *)
(* A signature stands for all the signals of a row, a hash for what it is  *)
(* the hash of. Statistics, read by no program, are left out. Training     *)
(* and promotion directories are the subject of module Promotion: here     *)
(* each is one step, and the outcome of a gate or of the stratification    *)
(* check is whether that step is taken.                                    *)
(***************************************************************************)
EXTENDS Allocation, Sequences, SequencesExt

CONSTANTS
  Sigs,         \* signatures
  Labels,       \* VISIBLE_MODELS
  Goldens,      \* sets of signatures the golden templates may give
  Categories,   \* sequence of [weight, templates]; a template is [label, draws, weight]
  N,            \* rows asked for
  Val,          \* signatures whose hash falls in a validation bucket
  MaxAttempts,  \* draws for one row (_MAX_RETIRAGE_ATTEMPTS)
  MaxNoise,     \* bound on the noisy rows of a run
  MaxRuns,      \* bound on the runs of the generator
  None, Torn    \* no file, half a file

ASSUME CorpusAssumption ==
  /\ Goldens \subseteq SUBSET Sigs /\ Val \subseteq Sigs
  /\ None # Torn

\* Every category can produce every label (_valider_templates).
TemplatesValid ==
  \A c \in DOMAIN Categories :
    LET ts == Categories[c].templates
    IN  /\ {ts[t].label : t \in DOMAIN ts} = Labels
        /\ \A t \in DOMAIN ts : ts[t].weight > 0 /\ ts[t].draws \subseteq Sigs

ASSUME TemplatesAssumption == TemplatesValid

VARIABLES
  golden,     \* rows of golden.jsonl
  pin,        \* what GOLDEN_SHA256 is the hash of
  phase,      \* "idle", "draw", or the file about to be written
  gen,        \* the running generator: rows drawn, golden set, pin, draws of this row, make
  corpus,     \* corpus-v1.jsonl.gz; against, pinned: history of the run that wrote it
  metadata,   \* what sha256_gz of corpus-v1.metadata.json is the hash of
  bruit,      \* corpus-v1.bruit.json; of: history, the corpus it was drawn with
  reference,  \* what the sha256_gz of the reference copy is the hash of
  quality,    \* corpus-v1.quality.json: contradictions out of noise; whether annex and
              \* corpus were of one run
  candidate,  \* signatures learned; pinned: history, from the corpus
  promoted,   \* the last candidate promoted, and what its evaluation read
  runs

files == <<corpus, metadata, bruit, reference, quality>>
vars == <<golden, pin, phase, gen, files, candidate, promoted, runs>>

SigsOf(rows) == {rows[i].sig : i \in DOMAIN rows}

-----------------------------------------------------------------------------
(* The golden set.                                                         *)

\* golden.jsonl is rewritten in place: an interruption leaves its first rows.
GenerateGolden ==
  /\ phase = "idle"
  /\ \E g \in Goldens : golden' \in SUBSET g
  /\ UNCHANGED <<pin, phase, gen, files, candidate, promoted, runs>>

\* shasum -a 256 golden.jsonl, by hand, into GOLDEN_SHA256.
Freeze ==
  /\ phase = "idle" /\ golden \in Goldens
  /\ pin' = golden
  /\ UNCHANGED <<golden, phase, gen, files, candidate, promoted, runs>>

-----------------------------------------------------------------------------
(* The generator.                                                          *)

\* One slot for each row asked for: rows are shared among the categories, then among the
\* templates of each.
Slots ==
  LET weightsOf(s) == [i \in DOMAIN s |-> s[i].weight]
      perCategory == Allocate(N, weightsOf(Categories))
      slotsOf(c) ==
        LET ts == Categories[c].templates
            counts == Allocate(perCategory[c], weightsOf(ts))
        IN  FlattenSeq([t \in DOMAIN ts |-> [k \in 1 .. counts[t] |-> ts[t]]])
  IN  FlattenSeq([c \in DOMAIN Categories |-> slotsOf(c)])

NotGenerating == [rows |-> <<>>, slot |-> 1, attempts |-> 0, against |-> {}, pinned |-> {},
                  make |-> FALSE]

\* The recorded hash is compared with itself.
MutGoldenIsFrozen == pin = pin

\* golden.jsonl is, byte for byte, what GOLDEN_SHA256 says.
GoldenIsFrozen == golden = pin

StartCorpus ==
  /\ phase = "idle" /\ runs < MaxRuns
  /\ TemplatesValid /\ GoldenIsFrozen
  /\ \E make \in BOOLEAN :
       gen' = [NotGenerating EXCEPT !.against = golden, !.pinned = pin, !.make = make]
  /\ phase' = "draw" /\ runs' = runs + 1
  /\ UNCHANGED <<golden, pin, files, candidate, promoted>>

Slot == Slots[gen.slot]

\* The rows a template may give, before noise.
BuildRow(template) == [sig : template.draws, truth : {template.label}, label : {template.label}]

\* The annex numbers the rows from zero.
MutNoisy(rows) == {i \in 0 .. Len(rows) - 1 : rows[i + 1].label # rows[i + 1].truth}

\* The rows whose label noise exchanged.
Noisy(rows) == {i \in DOMAIN rows : rows[i].label # rows[i].truth}

\* Contradicts the true label of an accepted row of the same signature.
Contradicts(sig) ==
  \E i \in DOMAIN gen.rows : gen.rows[i].sig = sig /\ gen.rows[i].truth # Slot.label

\* A draw in the golden set or contradicting an accepted row is drawn again; at the last
\* attempt the row is given up.
Reject ==
  /\ phase = "draw" /\ gen.slot <= Len(Slots)
  /\ \E row \in BuildRow(Slot) : row.sig \in gen.against \/ Contradicts(row.sig)
  /\ gen' = IF gen.attempts + 1 < MaxAttempts
            THEN [gen EXCEPT !.attempts = @ + 1]
            ELSE [gen EXCEPT !.attempts = 0, !.slot = @ + 1]
  /\ UNCHANGED <<golden, pin, phase, files, candidate, promoted, runs>>

\* Noise, once the row is accepted, exchanges its label for another one.
Accept ==
  /\ phase = "draw" /\ gen.slot <= Len(Slots)
  /\ \E row \in BuildRow(Slot), label \in Labels :
       /\ row.sig \notin gen.against /\ ~Contradicts(row.sig)
       /\ label # row.truth => Cardinality(Noisy(gen.rows)) < MaxNoise
       /\ gen' = [gen EXCEPT !.rows = Append(@, [row EXCEPT !.label = label]),
                             !.slot = @ + 1, !.attempts = 0]
  /\ UNCHANGED <<golden, pin, phase, files, candidate, promoted, runs>>

\* The rows are shuffled, then numbered.
Shuffle ==
  /\ phase = "draw" /\ gen.slot > Len(Slots)
  /\ \E f \in Bijection(DOMAIN gen.rows, DOMAIN gen.rows) :
       gen' = [gen EXCEPT !.rows = [i \in DOMAIN @ |-> @[f[i]]]]
  /\ phase' = "corpus"
  /\ UNCHANGED <<golden, pin, files, candidate, promoted, runs>>

-----------------------------------------------------------------------------
(* The files, one after another; then, under make, the quality report and  *)
(* the reference copy. A command that stops leaves the file it was writing *)
(* as it was or half written.                                              *)

Written(rows) == [i \in DOMAIN rows |-> [sig |-> rows[i].sig, label |-> rows[i].label]]

WriteCorpus ==
  /\ phase = "corpus"
  /\ corpus' = [rows |-> Written(gen.rows), against |-> gen.against, pinned |-> gen.pinned]
  /\ phase' = "metadata"
  /\ UNCHANGED <<golden, pin, gen, metadata, bruit, reference, quality, candidate, promoted, runs>>

WriteMetadata ==
  /\ phase = "metadata"
  /\ metadata' = Written(gen.rows)
  /\ phase' = "bruit"
  /\ UNCHANGED <<golden, pin, gen, corpus, bruit, reference, quality, candidate, promoted, runs>>

WriteBruit ==
  /\ phase = "bruit"
  /\ bruit' = [ids |-> Noisy(gen.rows), of |-> Written(gen.rows)]
  /\ phase' = IF gen.make THEN "quality" ELSE "idle"
  /\ gen' = NotGenerating
  /\ UNCHANGED <<golden, pin, corpus, metadata, reference, quality, candidate, promoted, runs>>

\* Rows of one signature contradict each other out of noise when two of them that the
\* annex does not name have different labels; no annex names none.
OutOfNoise(rows, noisy) ==
  \E i, j \in DOMAIN rows :
    /\ rows[i].sig = rows[j].sig /\ rows[i].label # rows[j].label
    /\ {i, j} \cap noisy = {}

\* Run by make or by hand; a half-written corpus or annex is not read.
Quality ==
  /\ phase \in {"quality", "idle"}
  /\ corpus \notin {None, Torn} /\ bruit # Torn
  /\ quality' = [hors |-> OutOfNoise(corpus.rows, IF bruit = None THEN {} ELSE bruit.ids),
                 same |-> bruit # None /\ bruit.of = corpus.rows]
  /\ phase' = IF phase = "quality" THEN "copy" ELSE "idle"
  /\ UNCHANGED <<golden, pin, gen, corpus, metadata, bruit, reference, candidate, promoted, runs>>

CopyReference ==
  /\ phase = "copy"
  /\ reference' = metadata /\ phase' = "idle"
  /\ UNCHANGED <<golden, pin, gen, corpus, metadata, bruit, quality, candidate, promoted, runs>>

Cut(step, content) == IF phase = step THEN {content, Torn} ELSE {content}

Interrupt ==
  /\ phase # "idle"
  /\ corpus' \in Cut("corpus", corpus)
  /\ metadata' \in Cut("metadata", metadata)
  /\ bruit' \in Cut("bruit", bruit)
  /\ quality' \in Cut("quality", quality)
  /\ reference' \in Cut("copy", reference)
  /\ phase' = "idle" /\ gen' = NotGenerating
  /\ UNCHANGED <<golden, pin, candidate, promoted, runs>>

-----------------------------------------------------------------------------
(* Training and promotion.                                                 *)

\* The corpus is the one the reference pins.
Pinned == corpus \notin {None, Torn} /\ reference = corpus.rows

\* Rows go to training or validation by signature.
TrainRows == {i \in DOMAIN corpus.rows : corpus.rows[i].sig \notin Val}
ValRows == DOMAIN corpus.rows \ TrainRows

\* verifier_stratification: both parts have rows; the tolerance on the shares is data.
Stratified == TrainRows # {} /\ ValRows # {}

\* compute_class_weights: every label is in the training part.
EveryClass == {corpus.rows[i].label : i \in TrainRows} = Labels

\* The validation rows stop and calibrate the training: they are learned from as well.
Train ==
  /\ phase = "idle"
  /\ Pinned /\ Stratified /\ EveryClass
  /\ candidate' = [learned |-> SigsOf(corpus.rows), pinned |-> corpus.pinned]
  /\ UNCHANGED <<golden, pin, phase, gen, files, promoted, runs>>

\* harness.run: the rows there are, and the hash GOLDEN_SHA256 records.
Evaluation == [judged |-> golden, sha |-> pin]

\* The gate: both reports on the set of GOLDEN_SHA256. The metrics are data.
OnFrozenSet(report, baseline) == report.sha = baseline.sha /\ report.sha = pin

Promote ==
  /\ phase = "idle"
  /\ candidate # None
  /\ OnFrozenSet(Evaluation, Evaluation)
  /\ promoted' = [learned |-> candidate.learned, pinned |-> candidate.pinned,
                  sha |-> Evaluation.sha, judged |-> Evaluation.judged]
  /\ UNCHANGED <<golden, pin, phase, gen, files, candidate, runs>>

-----------------------------------------------------------------------------
Init ==
  /\ golden \in Goldens /\ pin = golden
  /\ phase = "idle" /\ gen = NotGenerating
  /\ corpus = None /\ metadata = None /\ bruit = None /\ reference = None /\ quality = None
  /\ candidate = None /\ promoted = None /\ runs = 0

Generator ==
  \/ StartCorpus \/ Reject \/ Accept \/ Shuffle
  \/ WriteCorpus \/ WriteMetadata \/ WriteBruit

Next ==
  \/ GenerateGolden \/ Freeze
  \/ Generator
  \/ Quality \/ CopyReference \/ Interrupt
  \/ Train \/ Promote

Spec == Init /\ [][Next]_vars

-----------------------------------------------------------------------------
(* Properties                                                              *)

\* A promoted model was judged on nothing it learned, if the golden set was frozen again
\* neither after its corpus was drawn nor with rows other than those the harness read:
\* whatever was edited, restored, regenerated or interrupted in between
\* (generate_corpus.py:1074-1096, 1162-1176).
NoLeak ==
  /\ promoted # None
  /\ promoted.pinned = promoted.sha /\ promoted.judged = promoted.sha
  => promoted.learned \cap promoted.judged = {}

\* When corpus and annex are of one run, every contradiction between rows of the same
\* signals is the work of the noise the annex lists (generate_corpus.py:1121-1130,
\* quality_report.py:16-18), shuffled and renumbered as they are.
ContradictionsAreNoise ==
  quality \notin {None, Torn} /\ quality.same => ~quality.hors

\* What the repository says of the golden set, "ne sert JAMAIS à l'entraînement"
\* (test_router_golden_frozen.py:3-4, HUMAN_REVIEW_WELCOME.md:32-33): no promoted model
\* learned a row it was judged on.
NeverLearnedFrom ==
  promoted # None => promoted.learned \cap promoted.judged = {}

=============================================================================
