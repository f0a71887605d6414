------------------------------- MODULE Embed ---------------------------------
(***************************************************************************)
(* The second stage of the router: an encoder downloaded once its source   *)
(* is approved, a head trained for it, the measure of both, the promotion  *)
(* of the head and the router that loads the pair.                         *)
(*                                                                         *)
(*   router/tools/fetch_embed_model.py   the encoder, checked against the  *)
(*                                       manifest of the code              *)
(*   router/train/train_head_v0.py       head, calibrator, metadata        *)
(*   router/bench_embed.py               the measure of the whole stage    *)
(*   router/train/promote_embed.py       gate, proof of measure, rotation  *)
(*   router/sobrio_router/embed.py       EmbedHead.load, EmbedRouter       *)
(*                                                                         *)
(* The commands are processes of one machine: a training overlaps a        *)
(* measure or a promotion, each may be stopped, and the server loads the   *)
(* router meanwhile. No command takes a lock. A process runs the code it   *)
(* was started with, while the next version is deployed. At most one       *)
(* training, one measure and one promotion run at a time: a bound.         *)
(*                                                                         *)
(* A file of a head is the training that wrote it, its number and spec; an *)
(* encoder is its hash. The tokenizer is fetched and checked as the        *)
(* encoder is; the fp32 variant is refused wherever it is not the hash     *)
(* asked for. Rotation and rollback are detailed in module Promotion: the  *)
(* renames are one step here, the copy is file by file.                    *)
(***************************************************************************)
EXTENDS Naturals, Sequences

CONSTANTS
  EncoderOf,   \* sequence: the int8 hash in the manifest and the spec of each version
  MaxHeads,    \* bound on the trainings
  CopyOrders,  \* orders in which a directory may list the three files of a head
  Nothing, Torn   \* no file (or an unapproved source); half a file, or a report over budget:
                  \* every reader refuses both

VARIABLES
  spec,        \* version of the code deployed: spec and manifest are committed together
  disk,        \* encoder/model.onnx
  heads,       \* trainings begun
  training,    \* the running one: number, spec, next file
  candidate, promoted, previous,  \* directories of a head; proof: history, the report that
               \* allowed its promotion, if the code did not change during it
  promotion,   \* the running one: step, spec, files left to copy; proof: history
  bench,       \* the running measure; history: the spec and the encoder it loaded, as long
               \* as that encoder stays in place
  report,      \* embed-latest.json; measured: history, what the measure had loaded
  loading,     \* EmbedRouter being constructed; calm: history
  router       \* TRUE: one was constructed and serves

embedVars == <<spec, disk, heads, training, candidate, promoted, previous, promotion, bench,
               report, loading, router>>

Versions == DOMAIN EncoderOf
HeadFiles == {"head", "calibrator", "metadata"}

ASSUME EmbedAssumption ==
  \A order \in CopyOrders : order \in Seq(HeadFiles) /\ HeadFiles = {order[i] : i \in DOMAIN order}

NoHead == [exists |-> FALSE, head |-> Nothing, calibrator |-> Nothing, metadata |-> Nothing,
           proof |-> Nothing]

\* What mkdir leaves: a directory that exists, with none of its files.
EmptyHead == [NoHead EXCEPT !.exists = TRUE]

\* history: a file that the running construction, or the running measure, reads has changed.
Disturbed(load) == IF load = Nothing THEN Nothing ELSE [load EXCEPT !.calm = FALSE]
Unmeasured(run) == IF run = Nothing THEN Nothing ELSE [measured |-> Nothing]

-----------------------------------------------------------------------------
(* Code and encoder.                                                       *)

\* A commit: another encoder, or another max_tokens for the same one.
Deploy ==
  /\ spec + 1 \in Versions
  /\ spec' = spec + 1
  /\ UNCHANGED <<disk, heads, training, candidate, promoted, previous, promotion, bench, report,
                 loading, router>>

\* _fichiers_approuves: the manifest of the code names source and hashes.
Approved == EncoderOf[spec] # Nothing

\* A download is renamed in place when its hash is the manifest's; otherwise nothing is left.
Fetch ==
  /\ Approved
  /\ disk = Nothing
  /\ disk' = EncoderOf[spec]
  /\ bench' = Unmeasured(bench) /\ loading' = Disturbed(loading)
  /\ UNCHANGED <<spec, heads, training, candidate, promoted, previous, promotion, report, router>>

\* A file that differs from the manifest is never overwritten: it is deleted by hand.
Delete ==
  /\ disk # Nothing
  /\ disk' = Nothing
  /\ bench' = Unmeasured(bench) /\ loading' = Disturbed(loading)
  /\ UNCHANGED <<spec, heads, training, candidate, promoted, previous, promotion, report, router>>

-----------------------------------------------------------------------------
(* A head.                                                                 *)

Complete(dir) == \A f \in HeadFiles : dir[f] # Nothing

\* The metadata can be read and names the two other files as they are.
Intact(dir) ==
  /\ Complete(dir)
  /\ dir.metadata # Torn
  /\ dir.head = dir.metadata /\ dir.calibrator = dir.metadata

\* The spec of the head is not compared.
MutEmbedHeadLoads(dir, v) == Intact(dir)

\* EmbedHead.load: intact, and trained for the spec of the code that loads it.
EmbedHeadLoads(dir, v) == Intact(dir) /\ dir.metadata.spec = v

\* The training refuses before it writes, or writes in place, the metadata last.
StartTraining ==
  /\ training = Nothing /\ heads < MaxHeads
  /\ heads' = heads + 1
  /\ training' = [id |-> [n |-> heads + 1, spec |-> spec], next |-> "head"]
  /\ UNCHANGED <<spec, disk, candidate, promoted, previous, promotion, bench, report, loading, router>>

WriteHead ==
  /\ training # Nothing /\ training.next = "head"
  /\ candidate' = [candidate EXCEPT !.exists = TRUE, !.head = training.id]
  /\ training' = [training EXCEPT !.next = "calibrator"]
  /\ UNCHANGED <<spec, disk, heads, promoted, previous, promotion, bench, report, loading, router>>

WriteCalibrator ==
  /\ training # Nothing /\ training.next = "calibrator"
  /\ candidate' = [candidate EXCEPT !.calibrator = training.id]
  /\ training' = [training EXCEPT !.next = "metadata"]
  /\ UNCHANGED <<spec, disk, heads, promoted, previous, promotion, bench, report, loading, router>>

WriteMetadata ==
  /\ training # Nothing /\ training.next = "metadata"
  /\ candidate' = [candidate EXCEPT !.metadata = training.id]
  /\ training' = Nothing
  /\ UNCHANGED <<spec, disk, heads, promoted, previous, promotion, bench, report, loading, router>>

\* Stopped, with or without half of the next file.
StopTraining ==
  /\ training # Nothing
  /\ candidate' \in {candidate, [candidate EXCEPT !.exists = TRUE, ![training.next] = Torn]}
  /\ training' = Nothing
  /\ UNCHANGED <<spec, disk, heads, promoted, previous, promotion, bench, report, loading, router>>

-----------------------------------------------------------------------------
(* The measure.                                                            *)

\* The complete candidate, else the complete promoted head, else a neutral one.
Selected ==
  IF Complete(candidate) THEN candidate
  ELSE IF Complete(promoted) THEN promoted
  ELSE LET neutral == [n |-> 0, spec |-> spec]
       IN  [EmptyHead EXCEPT !.head = neutral, !.calibrator = neutral, !.metadata = neutral]

EncoderLoads(v) == disk # Nothing /\ disk = EncoderOf[v]

StartBench ==
  /\ bench = Nothing
  /\ EncoderLoads(spec) /\ EmbedHeadLoads(Selected, spec)
  /\ bench' = [measured |-> [spec |-> spec, encoder |-> disk]]
  /\ UNCHANGED <<spec, disk, heads, training, candidate, promoted, previous, promotion, report,
                 loading, router>>

\* The encoder is hashed after the measures. The report is written over budget as well.
EndBench ==
  /\ bench # Nothing /\ disk # Nothing
  /\ report' \in {Torn, [encoder |-> disk, measured |-> bench.measured]}
  /\ bench' = Nothing
  /\ UNCHANGED <<spec, disk, heads, training, candidate, promoted, previous, promotion, loading,
                 router>>

StopBench ==
  /\ bench # Nothing
  /\ report' \in {report, Torn} /\ bench' = Nothing
  /\ UNCHANGED <<spec, disk, heads, training, candidate, promoted, previous, promotion, loading,
                 router>>

-----------------------------------------------------------------------------
(* Promotion.                                                              *)

\* harness_embed.run: the candidate must load; the gate's verdict is data.
StartPromotion ==
  /\ promotion = Nothing
  /\ EmbedHeadLoads(candidate, spec)
  /\ promotion' = [step |-> "checks", spec |-> spec, proof |-> Nothing, left |-> <<>>]
  /\ UNCHANGED <<spec, disk, heads, training, candidate, promoted, previous, bench, report, loading,
                 router>>

\* Any encoder's report will do.
MutProven == EncoderOf[spec] # Nothing /\ report \notin {Nothing, Torn}

\* _verifier_preuve_bench: a report within budget, on the encoder that the manifest names
\* now: the file is read at the check, and may be of a version later than the promotion's.
Proven ==
  /\ EncoderOf[spec] # Nothing
  /\ report \notin {Nothing, Torn}
  /\ report.encoder = EncoderOf[spec]

\* Both checks, then the rotation: what was promoted, even an empty directory, becomes the
\* previous one; copytree lists the candidate and makes the new one.
Rotate ==
  /\ promotion # Nothing /\ promotion.step = "checks"
  /\ Proven /\ Intact(candidate)
  /\ \E order \in CopyOrders :
       promotion' = [promotion EXCEPT !.step = "copy", !.left = order, !.proof = report]
  /\ previous' = IF promoted.exists THEN promoted ELSE previous
  /\ promoted' = EmptyHead
  /\ loading' = Disturbed(loading)
  /\ UNCHANGED <<spec, disk, heads, training, candidate, bench, report, router>>

\* copytree takes the files in the order listed, each as the running training leaves it.
CopyFile ==
  /\ promotion # Nothing /\ promotion.step = "copy" /\ promotion.left # <<>>
  /\ LET file == Head(promotion.left)
     IN  promoted' = [promoted EXCEPT !.exists = TRUE, ![file] = candidate[file],
                        !.proof = IF spec = promotion.spec THEN promotion.proof ELSE Nothing]
  /\ promotion' = IF Len(promotion.left) = 1 THEN Nothing
                  ELSE [promotion EXCEPT !.left = Tail(@)]
  /\ loading' = Disturbed(loading)
  /\ UNCHANGED <<spec, disk, heads, training, candidate, previous, bench, report, router>>

\* Refused by a check, or stopped, whatever was copied.
StopPromotion ==
  /\ promotion # Nothing
  /\ promotion' = Nothing
  /\ UNCHANGED <<spec, disk, heads, training, candidate, promoted, previous, bench, report, loading,
                 router>>

\* The previous head must be intact; it takes the place of the promoted one, if any. A
\* promotion that is copying goes on in whatever promoted/ is then.
Rollback ==
  /\ Intact(previous)
  /\ promoted' = previous /\ previous' = promoted
  /\ loading' = Disturbed(loading)
  /\ UNCHANGED <<spec, disk, heads, training, candidate, promotion, bench, report, router>>

-----------------------------------------------------------------------------
(* The router, in the server. Each check reads the file again.             *)

StartLoad ==
  /\ loading = Nothing /\ ~router
  /\ EncoderLoads(spec)
  /\ loading' = [step |-> "checks", spec |-> spec, head |-> Nothing, calibrator |-> Nothing,
                 metadata |-> Nothing, calm |-> TRUE]
  /\ UNCHANGED <<spec, disk, heads, training, candidate, promoted, previous, promotion, bench,
                 report, router>>

\* EmbedHead.load: the hashes of the two files and the metadata,
CheckHead ==
  /\ loading # Nothing /\ loading.step = "checks"
  /\ EmbedHeadLoads(promoted, loading.spec)
  /\ loading' = [loading EXCEPT !.step = "files", !.metadata = promoted.metadata]
  /\ UNCHANGED <<spec, disk, heads, training, candidate, promoted, previous, promotion, bench,
                 report, router>>

Readable(file) == file \notin {Nothing, Torn}

\* then the two files.
ReadHead ==
  /\ loading # Nothing /\ loading.step = "files"
  /\ Readable(promoted.head) /\ Readable(promoted.calibrator)
  /\ loading' = [loading EXCEPT !.step = "session", !.head = promoted.head,
                                !.calibrator = promoted.calibrator]
  /\ UNCHANGED <<spec, disk, heads, training, candidate, promoted, previous, promotion, bench,
                 report, router>>

OpenSession ==
  /\ loading # Nothing /\ loading.step = "session"
  /\ disk # Nothing
  /\ router' = TRUE
  /\ loading' = Nothing
  /\ UNCHANGED <<spec, disk, heads, training, candidate, promoted, previous, promotion, bench, report>>

\* EmbedLoadError.
LoadFails ==
  /\ loading # Nothing
  /\ \/ loading.step = "checks" /\ ~EmbedHeadLoads(promoted, loading.spec)
     \/ loading.step = "files" /\ ~(Readable(promoted.head) /\ Readable(promoted.calibrator))
     \/ loading.step = "session" /\ disk = Nothing
  /\ loading' = Nothing
  /\ UNCHANGED <<spec, disk, heads, training, candidate, promoted, previous, promotion, bench,
                 report, router>>

\* The bridge forgets the router; the next request constructs one.
Purge ==
  /\ router
  /\ router' = FALSE
  /\ UNCHANGED <<spec, disk, heads, training, candidate, promoted, previous, promotion, bench,
                 report, loading>>

-----------------------------------------------------------------------------
EmbedInit ==
  /\ spec = 1 /\ disk = Nothing /\ heads = 0 /\ training = Nothing
  /\ candidate = NoHead /\ promoted = NoHead /\ previous = NoHead
  /\ promotion = Nothing /\ bench = Nothing /\ report = Nothing
  /\ loading = Nothing /\ router = FALSE

Encoder == Deploy \/ Fetch \/ Delete
Training == StartTraining \/ WriteHead \/ WriteCalibrator \/ WriteMetadata \/ StopTraining
Bench == StartBench \/ EndBench \/ StopBench
Promoting == StartPromotion \/ Rotate \/ CopyFile \/ StopPromotion \/ Rollback
Loading == StartLoad \/ CheckHead \/ ReadHead \/ OpenSession \/ LoadFails \/ Purge

EmbedNext == Encoder \/ Training \/ Bench \/ Promoting \/ Loading

EmbedSpec == EmbedInit /\ [][EmbedNext]_embedVars

-----------------------------------------------------------------------------
(* Properties                                                              *)

\* A construction that has read its files and opens the encoder now, no file it reads having
\* changed since it began.
Opening == loading # Nothing /\ loading.step = "session" /\ loading.calm

\* A router constructed while no file it reads changed serves the head of one training,
\* with its calibrator, trained for its spec and the encoder it runs: whatever training was cut or
\* overlapped the copy, whatever was rolled back or deployed before (embed.py:84-93,
\* 182-200, 333-348).
ServedPairMatches ==
  Opening =>
    /\ loading.head = loading.metadata /\ loading.calibrator = loading.metadata
    /\ loading.metadata.spec = loading.spec
    /\ disk = EncoderOf[loading.spec]

\* What a router constructed in peace runs was measured within budget: the encoder it opens
\* is one that a measure had loaded (promote_embed.py:10-16), whatever training, measure or
\* rollback overlapped the promotion or came after it; unless the code changed while the
\* head was promoted, or the encoder while it was measured.
MeasuredBeforeServed ==
  Opening /\ promoted.proof # Nothing /\ promoted.proof.measured # Nothing =>
    promoted.proof.measured.encoder = disk

\* The proof the promotion requires is "frais" (promote_embed.py:12-13): the stage was
\* measured with the spec the head is promoted under.
ProofIsFresh ==
  Intact(promoted) /\ promoted.proof # Nothing /\ promoted.proof.measured # Nothing =>
    promoted.proof.measured.spec = promoted.metadata.spec

=============================================================================
