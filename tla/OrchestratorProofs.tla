-------------------------- MODULE OrchestratorProofs --------------------------
(***************************************************************************)
(* The two pieces of shared state of the training orchestrator: the        *)
(* encoder's files its stages and the other scripts read and write, and    *)
(* the queue of Stage 3.                                                   *)
(*                                                                         *)
(* Of the files, for any number of processes and trainings and any course  *)
(* of the validation loss: the invariant says of every set of weights in a *)
(* file or in a process whether they were the best of their run so far     *)
(* (Good), and whether they still are (Lasting), and relates a training    *)
(* under way to the file its best epoch is in.  Its parts are operators on *)
(* the values of the variables they are about: d of disk, L of losses, D   *)
(* of disturbed.                                                           *)
(*                                                                         *)
(* Of the queue, for any number of workers, requests and permits: every    *)
(* request is in one place, the queue's count and the semaphore's are the  *)
(* sizes of sets of workers, and until stop() is called none is lost.      *)
(***************************************************************************)
EXTENDS EncoderArtifacts, TickerFineTuneQueue, SequenceTheorems, FiniteSetTheorems, TLAPS

Checkpoints == {FrozenFile, <<Root, "best">>, <<Root, "frozen_best">>}
Embeddings == {EmbeddingsOut, <<"xlstm", "embeddings">>}

-----------------------------------------------------------------------------
(* Weights *)

Known(L, w) == w \in Nat \X Nat /\ w[1] \in DOMAIN L /\ w[2] \in DOMAIN L[w[1]]

\* Finite and better than whatever their run had before.
Good(L, w) ==
    /\ Known(L, w) /\ L[w[1]][w[2]] # NaN
    /\ \A e \in 1 .. w[2] - 1 : L[w[1]][e] = NaN \/ L[w[1]][w[2]] < L[w[1]][e]

\* Within min_delta of whatever their run had before or after.
Lasting(L, D, w) ==
    w[1] \in D
        \/ \A e \in DOMAIN L[w[1]] :
              L[w[1]][e] = NaN \/ L[w[1]][w[2]] <= L[w[1]][e] + MinDelta

Blind(L, run) == \A e \in DOMAIN L[run] : L[run][e] = NaN

\* The run the weights come from is the one that hands them on.
Own(L, D, run, w) == w[1] = run \/ run \in D \/ Blind(L, run)

Intact(d, file) == file \in DOMAIN d /\ d[file] # Torn

\* Weights of this run are nowhere but in the file it keeps its best in.
OnlyIn(d, file, run) ==
    \A f \in Checkpoints \ {file} : Intact(d, f) => d[f].weights[1] # run

SomeEncoder(d) == <<Root, "best">> \in DOMAIN d \/ FrozenFile \in DOMAIN d

-----------------------------------------------------------------------------
(* Files and scripts *)

FilesInv(d, L, D) ==
    /\ DOMAIN d \subseteq Checkpoints \cup Embeddings
    /\ \A f \in DOMAIN d : d[f] # Torn => Good(L, d[f].weights)
    /\ \A f \in DOMAIN d \cap Checkpoints : d[f] # Torn => Lasting(L, D, d[f].weights)

DiskInv == FilesInv(disk, losses, disturbed)

ReaderInv(s, same, L, wasTrained) ==
    /\ s.kind \in Readers /\ s.run = None /\ s.rows \in Nat
    /\ s.kind = "training_data" =>
          /\ s.at \in {"encode", "served"}
          /\ s.seen => wasTrained
          /\ s.at = "encode" => s.weights = None
          /\ s.at = "served" =>
                (same /\ s.seen /\ s.rows >= SequenceLength => s.weights # None)
    /\ s.kind = "embeddings" =>
          /\ s.at \in {"cache", "saving", "served"}
          /\ s.at = "saving" => s.file \in Embeddings /\ Good(L, s.weights)

\* What the training has seen of its losses.
EpochsInv(s, L) ==
    /\ s.run \in DOMAIN L /\ DOMAIN L[s.run] = 1 .. s.epoch /\ s.epoch \in Nat
    /\ s.best = None => Blind(L, s.run)
    /\ s.best # None =>
          /\ s.best \in Nat
          /\ \A e \in 1 .. s.epoch :
                L[s.run][e] = NaN \/ s.best <= L[s.run][e] + KeepsDelta(s.kind)
    /\ s.kind = "orchestrator" => s.mark = s.best

\* The improvement that is being written.
SavesBest(s) == s.at = "saving" /\ s.file = BestFile(s.kind)

SavingInv(s, d, L, D) ==
    /\ SavesBest(s) =>
          /\ s.weights = <<s.run, s.epoch>> /\ s.epoch # 0
          /\ s.best # None /\ s.best = L[s.run][s.epoch]
          /\ \A e \in 1 .. s.epoch - 1 : L[s.run][e] = NaN \/ s.best < L[s.run][e]
    /\ s.at \in {"stage2", "served"} => SomeEncoder(d)
    /\ s.at = "saving" /\ ~SavesBest(s) =>
          /\ SomeEncoder(d)
          /\ \/ s.file = FrozenFile
             \/ s.file = EmbeddingsOut /\ s.kind = "train_xlstm"
          /\ Good(L, s.weights) /\ Lasting(L, D, s.weights) /\ Own(L, D, s.run, s.weights)
    /\ s.at = "stage2" =>
          /\ s.kind = "orchestrator"
          /\ \/ s.run \in D \/ Blind(L, s.run)
             \/ Intact(d, FrozenFile) /\ d[FrozenFile].weights[1] = s.run
    /\ s.at = "served" => Own(L, D, s.run, s.weights)

\* A training that has the directory to itself.
AloneInv(s, d, L, D) ==
    s.run \notin D =>
        /\ s.at \in {"epoch", "reload"} /\ s.best # None =>
              LET w == d[BestFile(s.kind)].weights IN
              Intact(d, BestFile(s.kind)) /\ w[1] = s.run /\ L[w[1]][w[2]] = s.best
        /\ s.at = "epoch" \/ SavesBest(s) => OnlyIn(d, BestFile(s.kind), s.run)

TrainerInv(s, d, L, D) ==
    /\ s.kind \in Trainers /\ s.run # None
    /\ s.at \in {"epoch", "saving", "reload", "stage2", "served"}
    /\ EpochsInv(s, L) /\ SavingInv(s, d, L, D) /\ AloneInv(s, d, L, D)

IsScript(s) ==
    s = [kind |-> s.kind, rows |-> s.rows, at |-> s.at, seen |-> s.seen, run |-> s.run,
         epoch |-> s.epoch, best |-> s.best, mark |-> s.mark, wait |-> s.wait,
         plateau |-> s.plateau, weights |-> s.weights, file |-> s.file]

ScriptInv(s, same, d, L, D, wasTrained) ==
    /\ IsScript(s)
    /\ ReaderInv(s, same, L, wasTrained) \/ TrainerInv(s, d, L, D)

ScriptsInv ==
    \A j \in Jobs :
        script[j] # None => ScriptInv(script[j], sameRoot, disk, losses, disturbed, trained)

ApartInv ==
    \A j, k \in Jobs :
        j # k /\ Training(j) /\ Training(k) =>
            script[j].run # script[k].run /\ script[j].run \in disturbed

BaseInv ==
    /\ sameRoot \in BOOLEAN /\ trained \in BOOLEAN
    /\ losses \in Seq(Seq(Losses)) /\ script = [j \in Jobs |-> script[j]]
    /\ disturbed \subseteq DOMAIN losses
    /\ trained => SomeEncoder(disk)

EncoderInv == BaseInv /\ DiskInv /\ ScriptsInv /\ ApartInv

-----------------------------------------------------------------------------
(* Losses and files *)

\* Losses and disturbed runs are only added to.
Grows ==
    /\ DOMAIN losses \subseteq DOMAIN losses' /\ disturbed \subseteq disturbed'
    /\ \A r \in DOMAIN losses :
          /\ DOMAIN losses[r] \subseteq DOMAIN losses'[r]
          /\ \A e \in DOMAIN losses[r] : losses'[r][e] = losses[r][e]

(***************************************************************************)
(* Epochs are numbered from 1 without a gap.                               *)
(***************************************************************************)
LEMMA EpochsBefore ==
    ASSUME losses \in Seq(Seq(Losses)), NEW w, Known(losses, w)
    PROVE  w[1] \in Nat /\ w[2] \in Nat /\ 1 .. w[2] \subseteq DOMAIN losses[w[1]]
<1>1. losses[w[1]] \in Seq(Losses)
  BY DEF Known
<1> QED  BY <1>1 DEF Known

(***************************************************************************)
(* What was the best so far remains so.                                    *)
(***************************************************************************)
LEMMA GoodGrows ==
    ASSUME losses \in Seq(Seq(Losses)), Grows, NEW w, Good(losses, w)
    PROVE  Good(losses', w)
<1>1. /\ Known(losses, w) /\ Known(losses', w)
      /\ losses'[w[1]][w[2]] = losses[w[1]][w[2]]
  BY DEF Good, Known, Grows
<1>2. \A e \in 1 .. w[2] - 1 : losses'[w[1]][e] = losses[w[1]][e]
  BY <1>1, EpochsBefore DEF Grows, Known
<1> QED  BY <1>1, <1>2 DEF Good

(***************************************************************************)
(* One file is rewritten, and the others stand.                            *)
(***************************************************************************)
LEMMA OneFile ==
    ASSUME NEW d, NEW f \in Checkpoints \cup Embeddings, NEW content,
           FilesInv(d, losses, disturbed),
           \/ content = Torn
           \/ /\ Good(losses, content.weights)
              /\ f \in Checkpoints => Lasting(losses, disturbed, content.weights)
    PROVE  /\ FilesInv(Rewritten(d, f, content), losses, disturbed)
           /\ DOMAIN Rewritten(d, f, content) = DOMAIN d \cup {f}
           /\ Rewritten(d, f, content)[f] = content
           /\ \A g \in DOMAIN d : g # f => Rewritten(d, f, content)[g] = d[g]
<1>1. /\ DOMAIN Rewritten(d, f, content) = DOMAIN d \cup {f}
      /\ Rewritten(d, f, content)[f] = content
      /\ \A g \in DOMAIN d : g # f => Rewritten(d, f, content)[g] = d[g]
  BY DEF Rewritten
<1> HIDE DEF Rewritten
<1> QED  BY <1>1 DEF FilesInv

(***************************************************************************)
(* The names of the files a training writes.                               *)
(***************************************************************************)
LEMMA FileNames ==
    /\ Checkpoints \cap Embeddings = {} /\ None \notin Checkpoints \cup Embeddings
    /\ EmbeddingsOut \in Embeddings /\ EmbeddingsFile \in Embeddings
    /\ <<"xlstm", "best">> \notin Checkpoints \cup Embeddings
    /\ <<"xlstm", "frozen">> \notin Checkpoints \cup Embeddings
    /\ \A f \in Embeddings : f[2] = "embeddings"
    /\ \A f \in Checkpoints : f[1] = Root /\ f[2] # "embeddings"
    /\ FrozenFile \in Checkpoints
    /\ \A kind \in Trainers :
          BestFile(kind) \in Checkpoints /\ BestFile(kind) # FrozenFile
    /\ BestFile("train_xlstm") = <<Root, "best">>
<1>1. \A f \in Embeddings : f[2] = "embeddings"
  BY DEF Embeddings, EmbeddingsOut
<1>2. /\ \A f \in Checkpoints : f[1] = Root /\ f[2] # "embeddings"
      /\ FrozenFile \in Checkpoints
  BY DEF Checkpoints, FrozenFile, Root
<1>3. None \notin Checkpoints \cup Embeddings
  <2>1. Checkpoints \cup Embeddings \subseteq Files
    BY DEF Checkpoints, Embeddings, EmbeddingsOut, FrozenFile, Root, Files
  <2> QED  BY <2>1, EncoderAssumption
<1>4. EmbeddingsOut \in Embeddings /\ EmbeddingsFile \in Embeddings
  BY DEF EmbeddingsFile, CheckpointDir, Root, Embeddings, EmbeddingsOut
<1>5. \A kind \in Trainers :
          BestFile(kind) \in Checkpoints /\ BestFile(kind) # FrozenFile
  BY DEF Trainers, BestFile, Checkpoints, FrozenFile, Root
<1>6. BestFile("train_xlstm") = <<Root, "best">>
  BY DEF BestFile
<1>7. /\ <<"xlstm", "best">> \notin Checkpoints \cup Embeddings
      /\ <<"xlstm", "frozen">> \notin Checkpoints \cup Embeddings
  BY <1>1, <1>2 DEF Root
<1>8. Checkpoints \cap Embeddings = {}
  BY <1>1, <1>2
<1> QED  BY <1>1, <1>2, <1>3, <1>4, <1>5, <1>6, <1>7, <1>8

-----------------------------------------------------------------------------
(* The other processes *)

(***************************************************************************)
(* A script that goes on to another place, with other weights, to another  *)
(* file.                                                                   *)
(***************************************************************************)
Follows(t, s, at, w, f) ==
    /\ IsScript(t) /\ t.at = at /\ t.weights = w /\ t.file = f
    /\ t.kind = s.kind /\ t.rows = s.rows /\ t.seen = s.seen /\ t.run = s.run
    /\ t.epoch = s.epoch /\ t.best = s.best /\ t.mark = s.mark

LEMMA Moved ==
    ASSUME NEW s, IsScript(s), NEW at, NEW w, NEW f
    PROVE  /\ Follows(Saving(s, w, f), s, "saving", w, f)
           /\ Follows([s EXCEPT !.at = at, !.weights = w], s, at, w, s.file)
           /\ Follows([s EXCEPT !.at = at], s, at, s.weights, s.file)
<1>1. ASSUME NEW t, t = [s EXCEPT !.at = "saving", !.weights = w, !.file = f]
      PROVE  Follows(t, s, "saving", w, f)
  BY <1>1 DEF IsScript, Follows
<1>2. ASSUME NEW t, t = [s EXCEPT !.at = at, !.weights = w]
      PROVE  Follows(t, s, at, w, s.file)
  BY <1>2 DEF IsScript, Follows
<1>3. ASSUME NEW t, t = [s EXCEPT !.at = at]
      PROVE  Follows(t, s, at, s.weights, s.file)
  BY <1>3 DEF IsScript, Follows
<1> QED  BY <1>1, <1>2, <1>3, Zenon DEF Saving

\* The checkpoints are what they were.
CheckpointsStand ==
    \A f \in Checkpoints :
        /\ f \in DOMAIN disk' <=> f \in DOMAIN disk
        /\ f \in DOMAIN disk => disk'[f] = disk[f]

(***************************************************************************)
(* A script's invariant does not depend on what other processes do, as     *)
(* long as a training that is alone finds its files as it left them.       *)
(***************************************************************************)
LEMMA ReaderStands ==
    ASSUME losses \in Seq(Seq(Losses)), Grows, sameRoot' = sameRoot,
           trained => trained', NEW s, ReaderInv(s, sameRoot, losses, trained)
    PROVE  ReaderInv(s, sameRoot', losses', trained')
BY GoodGrows DEF ReaderInv

LEMMA TrainerStands ==
    ASSUME losses \in Seq(Seq(Losses)), Grows, DOMAIN disk \subseteq DOMAIN disk',
           NEW s, TrainerInv(s, disk, losses, disturbed), losses'[s.run] = losses[s.run],
           \A w : Known(losses, w) /\ Lasting(losses, disturbed, w)
                    => Lasting(losses', disturbed', w),
           s.run \notin disturbed' => CheckpointsStand
    PROVE  TrainerInv(s, disk', losses', disturbed')
<1>1. /\ s.kind \in Trainers /\ s.run \in DOMAIN losses /\ s.run \in DOMAIN losses'
      /\ EpochsInv(s, losses) /\ SavingInv(s, disk, losses, disturbed)
      /\ AloneInv(s, disk, losses, disturbed)
  BY DEF TrainerInv, EpochsInv, Grows
<1>2. EpochsInv(s, losses')
  BY <1>1 DEF EpochsInv, Blind
<1>3. SavingInv(s, disk', losses', disturbed')
  <2>1. SomeEncoder(disk) => SomeEncoder(disk')
    BY DEF SomeEncoder
  <2>2. \A w : Good(losses, w) => Good(losses', w) /\ Known(losses, w)
    BY GoodGrows DEF Good
  <2>3. \A w : Own(losses, disturbed, s.run, w) => Own(losses', disturbed', s.run, w)
    BY DEF Own, Blind, Grows
  <2>4. ASSUME \/ s.run \in disturbed \/ Blind(losses, s.run)
               \/ Intact(disk, FrozenFile) /\ disk[FrozenFile].weights[1] = s.run
        PROVE  \/ s.run \in disturbed' \/ Blind(losses', s.run)
               \/ Intact(disk', FrozenFile) /\ disk'[FrozenFile].weights[1] = s.run
    BY <2>4, FileNames DEF Blind, Intact, CheckpointsStand, Grows
  <2> QED
    BY <1>1, <2>1, <2>2, <2>3, <2>4 DEF SavingInv
<1>4. AloneInv(s, disk', losses', disturbed')
  <2> SUFFICES ASSUME s.run \notin disturbed' PROVE AloneInv(s, disk', losses', disturbed')
    BY DEF AloneInv
  <2>1. s.run \notin disturbed /\ CheckpointsStand
    BY DEF Grows
  <2>2. BestFile(s.kind) \in Checkpoints
    BY <1>1, FileNames
  <2>3. \A f \in Checkpoints :
            Intact(disk', f) = Intact(disk, f) /\ (Intact(disk, f) => disk'[f] = disk[f])
    BY <2>1 DEF CheckpointsStand, Intact
  <2>4. OnlyIn(disk, BestFile(s.kind), s.run) => OnlyIn(disk', BestFile(s.kind), s.run)
    BY <2>3 DEF OnlyIn
  <2> QED
    BY <1>1, <2>1, <2>2, <2>3, <2>4 DEF AloneInv
<1> QED  BY <1>1, <1>2, <1>3, <1>4 DEF TrainerInv

(***************************************************************************)
(* One process takes a step that leaves losses alone: what is left to show *)
(* is what it makes of the files and of its own script.  A reader leaves   *)
(* the checkpoints as they are.                                            *)
(***************************************************************************)
LEMMA OneScript ==
    ASSUME EncoderInv, NEW j \in Jobs, NEW t, script' = [script EXCEPT ![j] = t],
           UNCHANGED <<sameRoot, losses, disturbed>>,
           trained' \in BOOLEAN, trained => trained', trained' => SomeEncoder(disk'),
           DiskInv', DOMAIN disk \subseteq DOMAIN disk', Training(j) \/ CheckpointsStand,
           t # None =>
              /\ ScriptInv(t, sameRoot', disk', losses', disturbed', trained')
              /\ t.run # None => Training(j) /\ t.run = script[j].run
    PROVE  EncoderInv'
<1>1. losses \in Seq(Seq(Losses)) /\ Grows /\ losses' = losses
  BY DEF EncoderInv, BaseInv, Grows
<1>2. /\ script' = [k \in Jobs |-> script'[k]] /\ script'[j] = t
      /\ \A k \in Jobs \ {j} : script'[k] = script[k]
  BY DEF EncoderInv, BaseInv
<1>3. ASSUME NEW k \in Jobs \ {j}, script[k] # None
      PROVE  ScriptInv(script[k], sameRoot', disk', losses', disturbed', trained')
  <2>1. ScriptInv(script[k], sameRoot, disk, losses, disturbed, trained)
    BY <1>3 DEF EncoderInv, ScriptsInv
  <2>2. CASE ReaderInv(script[k], sameRoot, losses, trained)
    BY <1>1, <2>1, <2>2, ReaderStands DEF ScriptInv
  <2>3. CASE TrainerInv(script[k], disk, losses, disturbed)
    <3>1. script[k].run \notin disturbed' => CheckpointsStand
      BY <1>3, <2>3 DEF EncoderInv, ApartInv, Training, TrainerInv
    <3>2. \A w : Known(losses, w) /\ Lasting(losses, disturbed, w)
                   => Lasting(losses', disturbed', w)
      OBVIOUS
    <3> QED  BY <1>1, <2>1, <2>3, <3>1, <3>2, TrainerStands DEF ScriptInv
  <2> QED  BY <2>1, <2>2, <2>3 DEF ScriptInv
<1>4. ScriptsInv'
  BY <1>2, <1>3 DEF ScriptsInv
<1>5. ApartInv'
  BY <1>2 DEF EncoderInv, ApartInv, Training
<1> QED  BY <1>1, <1>2, <1>4, <1>5 DEF EncoderInv, BaseInv

\* The script of j and its files, where nothing else is said.
Mine(j) == ScriptInv(script[j], sameRoot, disk, losses, disturbed, trained)

LEMMA MyScript ==
    ASSUME EncoderInv, NEW j \in Jobs, script[j] # None
    PROVE  Mine(j)
BY DEF EncoderInv, ScriptsInv, Mine

LEMMA IsTraining ==
    ASSUME EncoderInv, NEW j \in Jobs, script[j] # None,
           script[j].kind \in Trainers \/ script[j].at \in {"epoch", "reload", "stage2"}
    PROVE  Training(j) /\ TrainerInv(script[j], disk, losses, disturbed)
BY MyScript DEF Mine, ScriptInv, ReaderInv, Training, TrainerInv, Readers, Trainers

LEMMA IsReading ==
    ASSUME EncoderInv, NEW j \in Jobs, script[j] # None,
           script[j].kind \in Readers \/ script[j].at \in {"encode", "cache"}
    PROVE  ReaderInv(script[j], sameRoot, losses, trained)
BY MyScript DEF Mine, ScriptInv, ReaderInv, Training, TrainerInv, Readers, Trainers

LEMMA FilesStand ==
    ASSUME EncoderInv, UNCHANGED <<disk, losses, disturbed>>
    PROVE  DiskInv' /\ CheckpointsStand /\ DOMAIN disk \subseteq DOMAIN disk'
BY DEF EncoderInv, DiskInv, CheckpointsStand

-----------------------------------------------------------------------------
(* Ends and readers *)

(***************************************************************************)
(* A script that raises or is killed.                                      *)
(***************************************************************************)
LEMMA EndStep ==
    ASSUME EncoderInv, NEW j \in Jobs, End(j), UNCHANGED <<sameRoot, losses, disturbed, trained>>,
           DiskInv', DOMAIN disk \subseteq DOMAIN disk', CheckpointsStand
    PROVE  EncoderInv'
<1>1. trained' \in BOOLEAN /\ (trained' => SomeEncoder(disk'))
  BY DEF EncoderInv, BaseInv, SomeEncoder
<1> QED  BY <1>1, OneScript DEF End

LEMMA ReturnStep ==
    ASSUME EncoderInv, NEW j \in Jobs, Return(j)
    PROVE  EncoderInv'
<1>1. Training(j) => SomeEncoder(disk)
  BY MyScript DEF Return, Mine, ScriptInv, ReaderInv, TrainerInv, SavingInv, Training
<1>2. DiskInv' /\ CheckpointsStand /\ DOMAIN disk \subseteq DOMAIN disk'
  BY FilesStand DEF Return
<1>3. /\ trained' \in BOOLEAN /\ (trained => trained')
      /\ trained' => SomeEncoder(disk')
  BY <1>1 DEF Return, EncoderInv, BaseInv, Training
<1> QED  BY <1>2, <1>3, OneScript DEF Return, End

LEMMA StartReadingStep ==
    ASSUME EncoderInv, NEW j \in Jobs, NEW kind, NEW rows \in RowCounts,
           StartReading(j, kind, rows)
    PROVE  EncoderInv'
<1> DEFINE t == Script(kind, rows, IF kind = "embeddings" THEN "cache" ELSE "encode", None)
<1>0. t = [kind |-> kind, rows |-> rows,
           at |-> IF kind = "embeddings" THEN "cache" ELSE "encode", seen |-> trained,
           run |-> None, epoch |-> 0, best |-> None, mark |-> None, wait |-> 0,
           plateau |-> FALSE, weights |-> None, file |-> None]
  BY DEF Script
<1>1. ReaderInv(t, sameRoot', losses', trained')
  BY <1>0, EncoderAssumption DEF StartReading, ReaderInv, Readers
<1>2. ScriptInv(t, sameRoot', disk', losses', disturbed', trained') /\ t.run = None
  <2> HIDE DEF t
  <2> QED  BY <1>0, <1>1 DEF ScriptInv, IsScript
<1>3. DiskInv' /\ CheckpointsStand /\ DOMAIN disk \subseteq DOMAIN disk'
  BY FilesStand DEF StartReading
<1>4. trained' \in BOOLEAN /\ (trained' => SomeEncoder(disk'))
  BY DEF EncoderInv, BaseInv, StartReading
<1>5. script' = [script EXCEPT ![j] = t]
  BY DEF StartReading
<1> HIDE DEF t
<1> QED  BY <1>2, <1>3, <1>4, <1>5, OneScript DEF StartReading

(***************************************************************************)
(* A checkpoint that is found is one of the two, and one is found when the *)
(* settings agree and one was saved.                                       *)
(***************************************************************************)
LEMMA Resolved ==
    ASSUME EncoderInv
    PROVE  /\ ResolveCheckpoint # None =>
                 ResolveCheckpoint \in Checkpoints /\ ResolveCheckpoint \in DOMAIN disk
           /\ sameRoot /\ SomeEncoder(disk) => ResolveCheckpoint # None
<1>1. DOMAIN disk \subseteq Checkpoints \cup Embeddings
  BY DEF EncoderInv, DiskInv, FilesInv
<1>2. CASE sameRoot
  BY <1>1, <1>2, FileNames
  DEF ResolveCheckpoint, CheckpointDir, SomeEncoder, FrozenFile, Checkpoints
<1>3. CASE ~sameRoot
  BY <1>1, <1>3, FileNames DEF ResolveCheckpoint, CheckpointDir
<1> QED  BY <1>2, <1>3

(***************************************************************************)
(* The weights of a file that is whole.                                    *)
(***************************************************************************)
LEMMA WholeFile ==
    ASSUME EncoderInv, NEW f, Whole(f)
    PROVE  /\ Good(losses, disk[f].weights) /\ disk[f].weights # None
           /\ f \in Checkpoints => Lasting(losses, disturbed, disk[f].weights)
BY EncoderAssumption DEF EncoderInv, DiskInv, FilesInv, Whole, Good, Known

LEMMA EncodeStep ==
    ASSUME EncoderInv, NEW j \in Jobs, Encode(j)
    PROVE  EncoderInv'
<1> DEFINE s == script[j]
           file == ResolveCheckpoint
           t == IF file = None THEN [s EXCEPT !.at = "served"]
                ELSE IF ~Whole(file) THEN None
                ELSE IF s.rows < SequenceLength THEN [s EXCEPT !.at = "served"]
                ELSE [s EXCEPT !.at = "served", !.weights = disk[file].weights]
<1>1. script' = [script EXCEPT ![j] = t] /\ s # None /\ s.at = "encode"
      /\ UNCHANGED <<sameRoot, disk, losses, disturbed, trained>>
  BY DEF Encode
<1>2. ReaderInv(s, sameRoot, losses, trained) /\ Mine(j)
  BY <1>1, IsReading, MyScript
<1>3. s.kind = "training_data" /\ s.weights = None /\ s.run = None
  BY <1>1, <1>2 DEF ReaderInv, Readers
<1>4. ASSUME t # None
      PROVE  ReaderInv(t, sameRoot, losses, trained)
             /\ ScriptInv(t, sameRoot, disk, losses, disturbed, trained) /\ t.run = None
  <2>1. s.seen => SomeEncoder(disk)
    BY <1>2, <1>3 DEF ReaderInv, EncoderInv, BaseInv
  <2>2. file # None /\ Whole(file) => disk[file].weights # None
    BY WholeFile
  <2>3. CASE file = None \/ s.rows < SequenceLength
    <3>1. Follows(t, s, "served", s.weights, s.file)
      BY <1>2, <1>4, <2>3, Moved DEF Mine, ScriptInv
    <3> HIDE DEF t
    <3>2. ReaderInv(t, sameRoot, losses, trained)
      BY <3>1, <1>2, <1>3, <2>1, <2>3, Resolved, EncoderAssumption DEF Follows, ReaderInv
    <3> QED  BY <3>1, <3>2, <1>3 DEF Follows, ScriptInv
  <2>4. CASE file # None /\ ~(s.rows < SequenceLength)
    <3>1. Whole(file) /\ Follows(t, s, "served", disk[file].weights, s.file)
      BY <1>2, <1>4, <2>4, Moved DEF Mine, ScriptInv
    <3> HIDE DEF t
    <3>2. ReaderInv(t, sameRoot, losses, trained)
      BY <3>1, <1>2, <1>3, <2>2, <2>4 DEF Follows, ReaderInv
    <3> QED  BY <3>1, <3>2, <1>3 DEF Follows, ScriptInv
  <2> QED  BY <2>3, <2>4
<1>5. DiskInv' /\ CheckpointsStand /\ DOMAIN disk \subseteq DOMAIN disk'
  BY <1>1, FilesStand
<1>6. trained' \in BOOLEAN /\ (trained' => SomeEncoder(disk'))
  BY <1>1 DEF EncoderInv, BaseInv
<1> HIDE DEF t
<1> QED  BY <1>1, <1>4, <1>5, <1>6, OneScript

LEMMA ReadCacheStep ==
    ASSUME EncoderInv, NEW j \in Jobs, NEW force, ReadCache(j, force)
    PROVE  EncoderInv'
<1> DEFINE s == script[j]
           file == ResolveCheckpoint
<1>1. /\ s # None /\ s.at = "cache" /\ UNCHANGED <<sameRoot, losses, disturbed, trained>>
      /\ ReaderInv(s, sameRoot, losses, trained) /\ Mine(j)
  BY IsReading, MyScript DEF ReadCache
<1>2. s.kind = "embeddings" /\ s.run = None
  BY <1>1 DEF ReaderInv, Readers
<1>3. trained' \in BOOLEAN /\ (DOMAIN disk \subseteq DOMAIN disk' /\ trained' => SomeEncoder(disk'))
  BY <1>1 DEF EncoderInv, BaseInv, SomeEncoder
<1>4. CASE End(j) /\ UNCHANGED disk
  BY <1>1, <1>4, FilesStand, EndStep
<1>5. CASE /\ script' = [script EXCEPT ![j] =
                  [s EXCEPT !.at = "served", !.weights = disk[EmbeddingsFile].weights]]
           /\ UNCHANGED disk
  <2> DEFINE t == [s EXCEPT !.at = "served", !.weights = disk[EmbeddingsFile].weights]
  <2>1. Follows(t, s, "served", disk[EmbeddingsFile].weights, s.file)
    BY <1>1, Moved DEF Mine, ScriptInv
  <2>2. script' = [script EXCEPT ![j] = t]
    BY <1>5
  <2> HIDE DEF t
  <2>3. ScriptInv(t, sameRoot, disk, losses, disturbed, trained) /\ t.run = None
    BY <1>1, <1>2, <2>1 DEF Follows, ScriptInv, ReaderInv
  <2> QED  BY <1>1, <1>3, <1>5, <2>2, <2>3, FilesStand, OneScript
<1>6. CASE /\ Whole(file) /\ disk' = Written(EmbeddingsFile, Torn)
           /\ script' = [script EXCEPT ![j] = Saving(s, disk[file].weights, EmbeddingsFile)]
  <2> DEFINE t == Saving(s, disk[file].weights, EmbeddingsFile)
  <2>1. Good(losses, disk[file].weights) /\ EmbeddingsFile \in Embeddings
    BY <1>6, WholeFile, FileNames
  <2>2. Follows(t, s, "saving", disk[file].weights, EmbeddingsFile)
    BY <1>1, Moved DEF Mine, ScriptInv
  <2>3. script' = [script EXCEPT ![j] = t]
    BY <1>6
  <2> HIDE DEF t
  <2>4. ScriptInv(t, sameRoot, disk', losses, disturbed, trained) /\ t.run = None
    BY <1>1, <1>2, <2>1, <2>2 DEF Follows, ScriptInv, ReaderInv
  <2>5. /\ FilesInv(disk', losses, disturbed) /\ DOMAIN disk' = DOMAIN disk \cup {EmbeddingsFile}
        /\ \A g \in DOMAIN disk : g # EmbeddingsFile => disk'[g] = disk[g]
    <3>1. disk' = Rewritten(disk, EmbeddingsFile, Torn) /\ FilesInv(disk, losses, disturbed)
      BY <1>6 DEF Written, EncoderInv, DiskInv
    <3>2. FilesInv(disk', losses, disturbed)
      BY <2>1, <3>1, OneFile
    <3>3. /\ DOMAIN disk' = DOMAIN disk \cup {EmbeddingsFile}
          /\ \A g \in DOMAIN disk : g # EmbeddingsFile => disk'[g] = disk[g]
      BY <3>1 DEF Rewritten
    <3> QED  BY <3>2, <3>3
  <2>6. DiskInv' /\ CheckpointsStand
    BY <1>1, <2>1, <2>5, FileNames DEF CheckpointsStand, DiskInv
  <2> QED  BY <1>1, <1>3, <2>3, <2>4, <2>5, <2>6, OneScript
<1> QED  BY <1>4, <1>5, <1>6 DEF ReadCache

-----------------------------------------------------------------------------
(* The end of a training *)

\* A step of a training that leaves losses alone.
LEMMA TrainingStep ==
    ASSUME EncoderInv, NEW j \in Jobs, Training(j), NEW t,
           script' = [script EXCEPT ![j] = t],
           UNCHANGED <<sameRoot, losses, disturbed, trained>>,
           DiskInv', DOMAIN disk \subseteq DOMAIN disk',
           ScriptInv(t, sameRoot, disk', losses, disturbed, trained), t.run = script[j].run
    PROVE  EncoderInv'
<1>1. trained' \in BOOLEAN /\ (trained' => SomeEncoder(disk'))
  BY DEF EncoderInv, BaseInv, SomeEncoder
<1> QED  BY <1>1, OneScript

LEMMA ReloadStep ==
    ASSUME EncoderInv, NEW j \in Jobs, Reload(j)
    PROVE  EncoderInv'
<1> DEFINE s == script[j]
           w == disk[BestFile(s.kind)].weights
           f == IF Freezes(s) THEN FrozenFile ELSE EmbeddingsOut
           t == Saving(s, w, f)
<1>1. /\ s # None /\ s.at = "reload" /\ Whole(BestFile(s.kind))
      /\ UNCHANGED <<sameRoot, losses, disturbed, trained>>
      /\ script' = [script EXCEPT ![j] = t] /\ disk' = Written(f, Torn)
  BY DEF Reload, Reloaded
<1>2. Training(j) /\ TrainerInv(s, disk, losses, disturbed) /\ Mine(j)
  BY <1>1, IsTraining, MyScript
<1>3. Good(losses, w) /\ Lasting(losses, disturbed, w)
  BY <1>1, <1>2, WholeFile, FileNames DEF TrainerInv
<1>4. Own(losses, disturbed, s.run, w)
  BY <1>1, <1>2 DEF Own, TrainerInv, AloneInv, EpochsInv
<1>5. f \in Checkpoints \cup Embeddings /\ f # BestFile(s.kind)
  BY <1>2, FileNames DEF TrainerInv
<1>6. /\ DiskInv' /\ DOMAIN disk' = DOMAIN disk \cup {f}
  BY <1>1, <1>5, OneFile, ZenonT(30) DEF Written, EncoderInv, DiskInv
<1>7. SomeEncoder(disk')
  <2>1. CASE Freezes(s)
    BY <1>6, <2>1 DEF SomeEncoder
  <2>2. CASE ~Freezes(s)
    BY <1>1, <1>2, <1>6, <2>2, FileNames DEF Freezes, TrainerInv, Trainers, SomeEncoder, Whole
  <2> QED  BY <2>1, <2>2
<1>8. Follows(t, s, "saving", w, f)
  BY <1>2, Moved DEF Mine, ScriptInv
<1> HIDE DEF t
<1>9. TrainerInv(t, disk', losses, disturbed)
  <2>1. EpochsInv(t, losses)
    BY <1>2, <1>8 DEF Follows, TrainerInv, EpochsInv
  <2>2. ~SavesBest(t)
    BY <1>5, <1>8 DEF Follows, SavesBest
  <2>3. Freezes(s) \/ s.kind = "train_xlstm"
    BY <1>2 DEF Freezes, TrainerInv, Trainers
  <2>4. SavingInv(t, disk', losses, disturbed)
    BY <1>3, <1>4, <1>7, <1>8, <2>2, <2>3 DEF Follows, SavingInv
  <2>5. AloneInv(t, disk', losses, disturbed)
    BY <1>8, <2>2 DEF Follows, AloneInv
  <2> QED  BY <1>2, <1>8, <2>1, <2>4, <2>5 DEF Follows, TrainerInv
<1>10. ScriptInv(t, sameRoot, disk', losses, disturbed, trained)
  BY <1>8, <1>9 DEF Follows, ScriptInv
<1>11. t.run = s.run
  BY <1>8 DEF Follows
<1> HIDE DEF f
<1> QED  BY <1>1, <1>2, <1>6, <1>10, <1>11, TrainingStep

LEMMA Stage2Step ==
    ASSUME EncoderInv, NEW j \in Jobs, Stage2(j)
    PROVE  EncoderInv'
<1> DEFINE s == script[j]
           w == disk[FrozenFile].weights
           t == [s EXCEPT !.at = "served", !.weights = w]
<1>1. s # None /\ s.at = "stage2" /\ UNCHANGED <<sameRoot, disk, losses, disturbed, trained>>
  BY DEF Stage2
<1>2. Training(j) /\ TrainerInv(s, disk, losses, disturbed) /\ Mine(j)
  BY <1>1, IsTraining, MyScript
<1>3. DiskInv' /\ CheckpointsStand /\ DOMAIN disk \subseteq DOMAIN disk'
  BY <1>1, FilesStand
<1>4. CASE End(j)
  BY <1>1, <1>3, <1>4, EndStep
<1>5. CASE script' = [script EXCEPT ![j] = t]
  <2>1. Follows(t, s, "served", w, s.file)
    BY <1>2, Moved DEF Mine, ScriptInv
  <2> HIDE DEF t
  <2>2. EpochsInv(t, losses) /\ ~SavesBest(t)
    BY <1>2, <2>1 DEF Follows, TrainerInv, EpochsInv, SavesBest
  <2>3. SavingInv(t, disk, losses, disturbed)
    BY <1>1, <1>2, <2>1, <2>2 DEF Follows, TrainerInv, SavingInv, Own
  <2>4. TrainerInv(t, disk, losses, disturbed)
    BY <1>2, <2>1, <2>2, <2>3 DEF Follows, TrainerInv, AloneInv
  <2>5. ScriptInv(t, sameRoot, disk', losses, disturbed, trained)
    BY <1>1, <2>1, <2>4 DEF Follows, ScriptInv
  <2>6. t.run = s.run /\ script' = [script EXCEPT ![j] = t]
    BY <1>5, <2>1 DEF Follows
  <2> QED  BY <1>1, <1>2, <1>3, <2>5, <2>6, TrainingStep
<1> QED  BY <1>4, <1>5 DEF Stage2, End

(***************************************************************************)
(* What is written at the end of a save is what was found good when it     *)
(* began, and lasting if it is a checkpoint.                               *)
(***************************************************************************)
LEMMA SavedWeights ==
    ASSUME EncoderInv, NEW j \in Jobs, script[j] # None, script[j].at = "saving"
    PROVE  LET s == script[j] IN
           /\ Good(losses, s.weights) /\ s.file \in Checkpoints \cup Embeddings
           /\ s.file \in Checkpoints => Lasting(losses, disturbed, s.weights)
           /\ s.file \in Checkpoints => Training(j)
<1> DEFINE s == script[j]
<1>1. CASE s.kind \in Readers
  <2>1. s.file \in Embeddings /\ Good(losses, s.weights)
    BY <1>1, IsReading DEF ReaderInv, Readers
  <2> QED  BY <2>1, FileNames
<1>2. CASE s.kind \notin Readers
  <2>1. s.kind \in Trainers /\ Training(j) /\ TrainerInv(s, disk, losses, disturbed)
    BY <1>2, MyScript, IsTraining DEF Mine, ScriptInv, ReaderInv, TrainerInv
  <2>2. CASE SavesBest(s)
    <3>1. /\ s.weights = <<s.run, s.epoch>> /\ s.epoch \in Nat /\ s.epoch # 0
          /\ s.run \in DOMAIN losses /\ DOMAIN losses[s.run] = 1 .. s.epoch
          /\ s.best = losses[s.run][s.epoch] /\ s.best \in Nat
          /\ \A e \in 1 .. s.epoch - 1 : losses[s.run][e] = NaN \/ s.best < losses[s.run][e]
          /\ \A e \in 1 .. s.epoch :
                losses[s.run][e] = NaN \/ s.best <= losses[s.run][e] + KeepsDelta(s.kind)
      BY <2>1, <2>2 DEF TrainerInv, SavingInv, EpochsInv
    <3>2. s.run \in Nat
      BY <3>1 DEF EncoderInv, BaseInv
    <3>3. Known(losses, s.weights) /\ s.weights[1] = s.run /\ s.weights[2] = s.epoch
      BY <3>1, <3>2 DEF Known
    <3>4. Good(losses, s.weights)
      BY <3>1, <3>3, EncoderAssumption DEF Good
    <3>5. \A e \in 1 .. s.epoch : losses[s.run][e] = NaN \/ losses[s.run][e] \in Nat
      <4>1. losses[s.run] \in Seq(Losses)
        BY <3>1 DEF EncoderInv, BaseInv
      <4> QED  BY <4>1, <3>1, EncoderAssumption
    <3>6. Lasting(losses, disturbed, s.weights)
      <4>1. \A e \in 1 .. s.epoch :
                losses[s.run][e] = NaN \/ s.best <= losses[s.run][e] + MinDelta
        BY <3>1, <3>5, EncoderAssumption, SMTT(30) DEF KeepsDelta
      <4> QED  BY <3>1, <3>3, <4>1 DEF Lasting
    <3> QED  BY <2>1, <2>2, <3>4, <3>6, FileNames DEF SavesBest
  <2>3. CASE ~SavesBest(s)
    BY <2>1, <2>3, FileNames DEF TrainerInv, SavingInv
  <2> QED  BY <2>2, <2>3
<1> QED  BY <1>1, <1>2

LEMMA SavedDisk ==
    ASSUME EncoderInv, NEW j \in Jobs, script[j] # None, script[j].at = "saving",
           disk' = Written(script[j].file, SavedContent(script[j])),
           UNCHANGED <<losses, disturbed>>
    PROVE  LET s == script[j] IN
           /\ DiskInv' /\ DOMAIN disk' = DOMAIN disk \cup {s.file}
           /\ disk'[s.file].weights = s.weights
           /\ \A g \in DOMAIN disk : g # s.file => disk'[g] = disk[g]
           /\ s.file \notin Checkpoints => CheckpointsStand
<1> DEFINE s == script[j]
           content == SavedContent(s)
<1>1. content.weights = s.weights
  BY DEF SavedContent
<1>2. disk' = Rewritten(disk, s.file, content) /\ FilesInv(disk, losses, disturbed)
  BY DEF Written, EncoderInv, DiskInv
<1>3. /\ s.file \in Checkpoints \cup Embeddings /\ Good(losses, content.weights)
      /\ s.file \in Checkpoints => Lasting(losses, disturbed, content.weights)
  BY <1>1, SavedWeights
<1> HIDE DEF content
<1>4. /\ DOMAIN disk' = DOMAIN disk \cup {s.file} /\ disk'[s.file] = content
      /\ \A g \in DOMAIN disk : g # s.file => disk'[g] = disk[g]
  BY <1>2 DEF Rewritten
<1>5. FilesInv(disk', losses, disturbed)
  BY <1>2, <1>3, <1>4 DEF FilesInv
<1> QED  BY <1>1, <1>4, <1>5 DEF DiskInv, CheckpointsStand

\* The best epoch is in its file: the training goes on, or to the reload.
LEMMA BestSaved ==
    ASSUME EncoderInv, NEW j \in Jobs, EndSave(j), Training(j),
           script[j].file = BestFile(script[j].kind),
           script' = [script EXCEPT ![j] = AfterEpoch(script[j])],
           disk' = Written(script[j].file, SavedContent(script[j]))
    PROVE  EncoderInv'
<1> DEFINE s == script[j]
           t == AfterEpoch(s)
           best == BestFile(s.kind)
<1>1. /\ s # None /\ s.at = "saving" /\ UNCHANGED <<sameRoot, losses, disturbed, trained>>
  BY DEF EndSave
<1>2. TrainerInv(s, disk, losses, disturbed) /\ IsScript(s) /\ SavesBest(s) /\ s.run # None
  BY <1>1, MyScript DEF Training, Mine, ScriptInv, ReaderInv, SavesBest
<1>3. /\ DiskInv' /\ DOMAIN disk' = DOMAIN disk \cup {best}
      /\ disk'[best].weights = s.weights
      /\ \A g \in DOMAIN disk : g # best => disk'[g] = disk[g]
  BY <1>1, SavedDisk
<1>4. /\ IsScript(t) /\ t.at \in {"epoch", "reload"} /\ t.kind = s.kind /\ t.run = s.run
      /\ t.epoch = s.epoch /\ t.best = s.best /\ t.mark = s.mark
  BY <1>2 DEF IsScript, AfterEpoch
<1> HIDE DEF t
<1>5. /\ s.kind \in Trainers /\ s.weights = <<s.run, s.epoch>>
      /\ s.best = losses[s.run][s.epoch] /\ best \in Checkpoints
  BY <1>2, FileNames DEF TrainerInv, SavingInv
<1>6. Intact(disk', best)
  <2>1. disk'[best] = SavedContent(s) /\ best[2] # "embeddings" /\ s.file = best
    BY <1>2, <1>5, FileNames DEF Written, Rewritten, SavesBest
  <2>2. Good(losses, s.weights) /\ s.weights \in Nat \X Nat
    BY <1>1, SavedWeights DEF Good, Known
  <2>3. disk'[best] \in [weights : Nat \X Nat, locked : BOOLEAN]
    <3>1. SavedContent(s) = [weights |-> s.weights, locked |-> s.file = FrozenFile]
      BY <2>1 DEF SavedContent
    <3>2. (s.file = FrozenFile) \in BOOLEAN
      BY Zenon
    <3>3. ASSUME NEW w \in Nat \X Nat, NEW b \in BOOLEAN
          PROVE  [weights |-> w, locked |-> b] \in [weights : Nat \X Nat, locked : BOOLEAN]
      OBVIOUS
    <3> QED  BY <2>1, <2>2, <3>1, <3>2, <3>3, Zenon
  <2> QED  BY <2>3, <1>3, EncoderAssumption DEF Intact
<1>7. s.epoch \in Nat /\ s.run \in DOMAIN losses /\ EpochsInv(t, losses)
  BY <1>2, <1>4 DEF TrainerInv, EpochsInv
<1>8. ~SavesBest(t) /\ SavingInv(t, disk', losses, disturbed)
  BY <1>4 DEF SavingInv, SavesBest
<1>9. AloneInv(t, disk', losses, disturbed)
  <2> SUFFICES ASSUME s.run \notin disturbed PROVE AloneInv(t, disk', losses, disturbed)
    BY <1>4 DEF AloneInv
  <2>1. OnlyIn(disk, best, s.run)
    BY <1>2 DEF TrainerInv, AloneInv
  <2>2. OnlyIn(disk', best, s.run)
    BY <1>3, <2>1 DEF OnlyIn, Intact
  <2>3. disk'[best].weights[1] = s.run /\ disk'[best].weights[2] = s.epoch
    BY <1>3, <1>5
  <2> QED  BY <1>4, <1>5, <1>6, <2>2, <2>3 DEF AloneInv
<1>10. TrainerInv(t, disk', losses, disturbed)
  BY <1>2, <1>4, <1>5, <1>7, <1>8, <1>9 DEF TrainerInv
<1>11. ScriptInv(t, sameRoot, disk', losses, disturbed, trained)
  BY <1>4, <1>10 DEF ScriptInv
<1>12. script' = [script EXCEPT ![j] = t]
  BY DEF t
<1> QED  BY <1>1, <1>3, <1>4, <1>11, <1>12, TrainingStep

\* The frozen copy is in its file; train_xlstm opens the embeddings next.
LEMMA FrozenSaved ==
    ASSUME EncoderInv, NEW j \in Jobs, EndSave(j), script[j].file = FrozenFile,
           script[j].kind \in Trainers
    PROVE  EncoderInv'
<1> DEFINE s == script[j]
           d == Written(s.file, SavedContent(s))
<1>1. /\ s # None /\ s.at = "saving" /\ UNCHANGED <<sameRoot, losses, disturbed, trained>>
  BY DEF EndSave
<1>2. Training(j) /\ TrainerInv(s, disk, losses, disturbed) /\ Mine(j)
  BY <1>1, IsTraining, MyScript
<1>3. BestFile(s.kind) # FrozenFile /\ FrozenFile \in Checkpoints /\ FrozenFile[2] # "embeddings"
  BY FileNames
<1>4. ~SavesBest(s)
  BY <1>3 DEF SavesBest
<1>5. /\ Good(losses, s.weights) /\ Lasting(losses, disturbed, s.weights)
      /\ Own(losses, disturbed, s.run, s.weights)
  BY <1>1, <1>2, <1>4 DEF TrainerInv, SavingInv
<1>6. CASE /\ s.kind = "orchestrator" /\ disk' = d
           /\ script' = [script EXCEPT ![j] = [s EXCEPT !.at = "stage2"]]
  <2> DEFINE t == [s EXCEPT !.at = "stage2"]
  <2>1. /\ DiskInv' /\ DOMAIN disk' = DOMAIN disk \cup {FrozenFile}
        /\ disk'[FrozenFile].weights = s.weights
    BY <1>1, <1>6, SavedDisk
  <2>2. Follows(t, s, "stage2", s.weights, s.file) /\ script' = [script EXCEPT ![j] = t]
    BY <1>2, <1>6, Moved DEF Mine, ScriptInv
  <2> HIDE DEF t
  <2>3. Intact(disk', FrozenFile)
    <3>1. SavedContent(s) = [weights |-> s.weights, locked |-> TRUE]
      BY <1>3 DEF SavedContent
    <3>2. disk'[FrozenFile] = SavedContent(s)
      BY <1>6 DEF Written, Rewritten
    <3>3. s.weights \in Nat \X Nat
      BY <1>5 DEF Good, Known
    <3>4. disk'[FrozenFile] \in [weights : Nat \X Nat, locked : BOOLEAN]
      BY <3>1, <3>2, <3>3
    <3> QED  BY <3>4, <2>1, EncoderAssumption DEF Intact
  <2>4. EpochsInv(t, losses) /\ ~SavesBest(t)
    BY <1>2, <2>2 DEF Follows, TrainerInv, EpochsInv, SavesBest
  <2>5. SomeEncoder(disk')
    BY <2>1 DEF SomeEncoder
  <2>6. SavingInv(t, disk', losses, disturbed)
    BY <1>5, <1>6, <2>1, <2>2, <2>3, <2>4, <2>5 DEF Follows, SavingInv, Own
  <2>7. TrainerInv(t, disk', losses, disturbed)
    BY <1>2, <2>2, <2>4, <2>6 DEF Follows, TrainerInv, AloneInv
  <2>8. ScriptInv(t, sameRoot, disk', losses, disturbed, trained) /\ t.run = s.run
    BY <2>2, <2>7 DEF Follows, ScriptInv
  <2> QED  BY <1>1, <1>2, <2>1, <2>2, <2>8, TrainingStep
<1>7. CASE /\ s.kind = "train_xlstm" /\ disk' = Rewritten(d, EmbeddingsOut, Torn)
           /\ script' = [script EXCEPT ![j] = Saving(s, s.weights, EmbeddingsOut)]
  <2> DEFINE t == Saving(s, s.weights, EmbeddingsOut)
  <2>1. FilesInv(d, losses, disturbed) /\ DOMAIN d = DOMAIN disk \cup {FrozenFile}
    <3>1. FilesInv(disk, losses, disturbed)
      BY DEF EncoderInv, DiskInv
    <3>2. SavedContent(s).weights = s.weights
      BY DEF SavedContent
    <3>3. ASSUME NEW content, content.weights = s.weights
          PROVE  /\ FilesInv(Rewritten(disk, FrozenFile, content), losses, disturbed)
                 /\ DOMAIN Rewritten(disk, FrozenFile, content) = DOMAIN disk \cup {FrozenFile}
      <4> DEFINE e == Rewritten(disk, FrozenFile, content)
      <4>1. /\ DOMAIN e = DOMAIN disk \cup {FrozenFile} /\ e[FrozenFile] = content
            /\ \A g \in DOMAIN disk : g # FrozenFile => e[g] = disk[g]
        BY DEF Rewritten
      <4> HIDE DEF e
      <4>2. FilesInv(e, losses, disturbed)
        BY <1>3, <1>5, <3>1, <3>3, <4>1 DEF FilesInv
      <4> QED  BY <4>1, <4>2 DEF e
    <3> QED  BY <3>2, <3>3 DEF Written
  <2> HIDE DEF d
  <2>2. FilesInv(disk', losses, disturbed) /\ DOMAIN disk' = DOMAIN d \cup {EmbeddingsOut}
    <3>1. /\ DOMAIN disk' = DOMAIN d \cup {EmbeddingsOut} /\ disk'[EmbeddingsOut] = Torn
          /\ \A g \in DOMAIN d : g # EmbeddingsOut => disk'[g] = d[g]
      BY <1>7 DEF Rewritten
    <3> QED  BY <2>1, <3>1, FileNames DEF FilesInv
  <2>3. DiskInv' /\ SomeEncoder(disk') /\ DOMAIN disk \subseteq DOMAIN disk'
    BY <1>1, <2>1, <2>2 DEF DiskInv, SomeEncoder
  <2>4. Follows(t, s, "saving", s.weights, EmbeddingsOut) /\ script' = [script EXCEPT ![j] = t]
    BY <1>2, <1>7, Moved DEF Mine, ScriptInv
  <2> HIDE DEF t
  <2>5. EpochsInv(t, losses) /\ ~SavesBest(t)
    BY <1>2, <2>4, FileNames DEF Follows, TrainerInv, EpochsInv, SavesBest
  <2>6. SavingInv(t, disk', losses, disturbed)
    BY <1>5, <1>7, <2>3, <2>4, <2>5 DEF Follows, SavingInv
  <2>7. TrainerInv(t, disk', losses, disturbed)
    BY <1>2, <2>4, <2>5, <2>6 DEF Follows, TrainerInv, AloneInv
  <2>8. ScriptInv(t, sameRoot, disk', losses, disturbed, trained) /\ t.run = s.run
    BY <2>4, <2>7 DEF Follows, ScriptInv
  <2> QED  BY <1>1, <1>2, <2>3, <2>4, <2>8, TrainingStep
<1> QED
  BY <1>3, <1>6, <1>7 DEF EndSave

\* The embeddings are in their file.
LEMMA EmbeddingsSaved ==
    ASSUME EncoderInv, NEW j \in Jobs, EndSave(j), script[j].file[2] = "embeddings",
           script' = [script EXCEPT ![j] = [script[j] EXCEPT !.at = "served"]],
           disk' = Written(script[j].file, SavedContent(script[j]))
    PROVE  EncoderInv'
<1> DEFINE s == script[j]
           t == [s EXCEPT !.at = "served"]
<1>1. /\ s # None /\ s.at = "saving" /\ UNCHANGED <<sameRoot, losses, disturbed, trained>>
      /\ script' = [script EXCEPT ![j] = t]
  BY DEF EndSave
<1>2. Mine(j) /\ s.file \notin Checkpoints
  BY <1>1, MyScript, FileNames
<1>3. /\ DiskInv' /\ DOMAIN disk' = DOMAIN disk \cup {s.file}
      /\ CheckpointsStand
  BY <1>1, <1>2, SavedDisk
<1>4. Follows(t, s, "served", s.weights, s.file)
  BY <1>2, Moved DEF Mine, ScriptInv
<1> HIDE DEF t
<1>5. trained' \in BOOLEAN /\ (trained' => SomeEncoder(disk'))
  BY <1>1, <1>3 DEF EncoderInv, BaseInv, SomeEncoder
<1>6. CASE ReaderInv(s, sameRoot, losses, trained)
  <2>1. ScriptInv(t, sameRoot, disk', losses, disturbed, trained) /\ t.run = None
    BY <1>1, <1>4, <1>6 DEF Follows, ScriptInv, ReaderInv, Readers
  <2> QED  BY <1>1, <1>3, <1>5, <2>1, OneScript
<1>7. CASE TrainerInv(s, disk, losses, disturbed)
  <2>1. ~SavesBest(s) /\ ~SavesBest(t) /\ s.kind \in Trainers /\ Training(j)
    BY <1>1, <1>2, <1>4, <1>7, FileNames DEF TrainerInv, SavesBest, Follows, Training
  <2>2. SomeEncoder(disk) /\ Own(losses, disturbed, s.run, s.weights)
    BY <1>1, <1>7, <2>1 DEF TrainerInv, SavingInv
  <2>3. SomeEncoder(disk')
    BY <1>3, <2>2 DEF SomeEncoder
  <2>4. EpochsInv(t, losses)
    BY <1>4, <1>7 DEF Follows, TrainerInv, EpochsInv
  <2>5. SavingInv(t, disk', losses, disturbed)
    BY <1>4, <2>1, <2>2, <2>3 DEF Follows, SavingInv
  <2>6. TrainerInv(t, disk', losses, disturbed)
    BY <1>4, <1>7, <2>1, <2>4, <2>5 DEF Follows, TrainerInv, AloneInv
  <2>7. ScriptInv(t, sameRoot, disk', losses, disturbed, trained) /\ t.run = s.run
    BY <1>4, <2>6 DEF Follows, ScriptInv
  <2>8. DOMAIN disk \subseteq DOMAIN disk'
    BY <1>3
  <2> QED  BY <1>1, <1>3, <2>1, <2>7, <2>8, TrainingStep
<1> QED  BY <1>2, <1>6, <1>7 DEF Mine, ScriptInv

LEMMA EndSaveStep ==
    ASSUME EncoderInv, NEW j \in Jobs, EndSave(j)
    PROVE  EncoderInv'
<1>1. CASE script[j].file = FrozenFile /\ script[j].kind \in {"train_xlstm", "orchestrator"}
  BY <1>1, FrozenSaved DEF Trainers
<1> QED  BY <1>1, BestSaved, EmbeddingsSaved DEF EndSave

-----------------------------------------------------------------------------
(* Losses that grow *)

(***************************************************************************)
(* The other processes while losses are added to.                          *)
(***************************************************************************)
LEMMA OthersStand ==
    ASSUME EncoderInv, NEW k \in Jobs, script[k] # None,
           Grows, sameRoot' = sameRoot, trained => trained', DOMAIN disk \subseteq DOMAIN disk',
           Training(k) =>
              /\ losses'[script[k].run] = losses[script[k].run]
              /\ \A w : Known(losses, w) /\ Lasting(losses, disturbed, w)
                          => Lasting(losses', disturbed', w)
              /\ script[k].run \notin disturbed' => CheckpointsStand
    PROVE  ScriptInv(script[k], sameRoot', disk', losses', disturbed', trained')
<1>1. losses \in Seq(Seq(Losses)) /\ Mine(k)
  BY MyScript DEF EncoderInv, BaseInv
<1>2. CASE ReaderInv(script[k], sameRoot, losses, trained)
  BY <1>1, <1>2, ReaderStands DEF Mine, ScriptInv
<1>3. CASE TrainerInv(script[k], disk, losses, disturbed)
  <2>1. Training(k)
    BY <1>3 DEF TrainerInv, Training
  <2> QED  BY <1>1, <1>3, <2>1, TrainerStands DEF Mine, ScriptInv
<1> QED  BY <1>1, <1>2, <1>3 DEF Mine, ScriptInv

LEMMA StartTrainingStep ==
    ASSUME EncoderInv, NEW j \in Jobs, NEW kind, NEW rows, StartTraining(j, kind, rows)
    PROVE  EncoderInv'
<1> DEFINE run == Len(losses) + 1
           t == Script(kind, rows, "epoch", run)
           others == {script[k].run : k \in {k \in Jobs : Training(k)}}
<1>1. /\ losses \in Seq(Seq(Losses)) /\ kind \in Trainers /\ script[j] = None
      /\ losses' = Append(losses, <<>>) /\ script' = [script EXCEPT ![j] = t]
      /\ UNCHANGED <<sameRoot, disk, trained>>
      /\ disturbed' = IF others = {} THEN disturbed ELSE disturbed \cup others \cup {run}
  BY DEF StartTraining, EncoderInv, BaseInv
<1>2. /\ losses' \in Seq(Seq(Losses)) /\ run \in Nat /\ run \notin DOMAIN losses
      /\ DOMAIN losses' = DOMAIN losses \cup {run} /\ losses'[run] = <<>>
      /\ \A r \in DOMAIN losses : losses'[r] = losses[r]
  BY <1>1
<1>3. disturbed \subseteq DOMAIN losses /\ disturbed \subseteq disturbed' /\ Grows
  BY <1>1, <1>2 DEF EncoderInv, BaseInv, Grows
<1>4. \A k \in Jobs : Training(k) => script[k].run \in DOMAIN losses
  BY IsTraining, MyScript DEF Training, Mine, ScriptInv, ReaderInv, TrainerInv, EpochsInv
<1>5. \A w : Known(losses, w) /\ Lasting(losses, disturbed, w) => Lasting(losses', disturbed', w)
  BY <1>2, <1>3 DEF Known, Lasting
<1>6. DiskInv' /\ CheckpointsStand
  <2>1. \A w : Good(losses, w) => Good(losses', w) /\ Known(losses, w)
    BY <1>1, <1>3, GoodGrows DEF Good
  <2>2. FilesInv(disk, losses, disturbed)
    BY DEF EncoderInv, DiskInv
  <2> QED  BY <1>1, <1>5, <2>1, <2>2 DEF DiskInv, FilesInv, CheckpointsStand
<1>7. /\ t = [kind |-> kind, rows |-> rows, at |-> "epoch", seen |-> trained, run |-> run,
              epoch |-> 0, best |-> None, mark |-> None, wait |-> 0, plateau |-> FALSE,
              weights |-> None, file |-> None]
  BY DEF Script
<1> HIDE DEF t, run
<1>8. TrainerInv(t, disk', losses', disturbed')
  <2>1. EpochsInv(t, losses') /\ ~SavesBest(t)
    BY <1>2, <1>7 DEF EpochsInv, Blind, SavesBest
  <2>2. OnlyIn(disk', BestFile(kind), run)
    <3>1. \A f \in Checkpoints : Intact(disk, f) => disk[f].weights[1] \in DOMAIN losses
      BY DEF EncoderInv, DiskInv, FilesInv, Intact, Good, Known
    <3> QED  BY <1>1, <1>2, <3>1 DEF OnlyIn
  <2>3. run # None
    BY <1>2, EncoderAssumption
  <2> QED  BY <1>1, <1>7, <2>1, <2>2, <2>3 DEF TrainerInv, SavingInv, AloneInv
<1>9. /\ script' = [k \in Jobs |-> script'[k]] /\ script'[j] = t
      /\ \A k \in Jobs \ {j} : script'[k] = script[k]
  BY <1>1 DEF EncoderInv, BaseInv
<1>10. ScriptsInv'
  <2>1. ScriptInv(t, sameRoot', disk', losses', disturbed', trained')
    BY <1>7, <1>8 DEF ScriptInv, IsScript
  <2>2. ASSUME NEW k \in Jobs \ {j}, script[k] # None
        PROVE  ScriptInv(script[k], sameRoot', disk', losses', disturbed', trained')
    BY <1>1, <1>2, <1>3, <1>4, <1>5, <1>6, <2>2, OthersStand
  <2> QED  BY <1>9, <2>1, <2>2 DEF ScriptsInv
<1>11. ApartInv'
  <2>1. ASSUME NEW k \in Jobs \ {j}, Training(k)
        PROVE  /\ script[k].run \in disturbed' /\ run \in disturbed'
               /\ script[k].run # run
    <3>1. script[k].run \in others
      BY <2>1
    <3> HIDE DEF others
    <3> QED  BY <1>1, <1>2, <1>4, <2>1, <3>1
  <2>2. t.run = run
    BY <1>7
  <2> QED  BY <1>3, <1>9, <2>1, <2>2 DEF EncoderInv, ApartInv, Training
<1>12. disturbed' \subseteq DOMAIN losses'
  BY <1>1, <1>2, <1>3, <1>4, ZenonT(30)
<1> QED
  BY <1>1, <1>2, <1>6, <1>9, <1>10, <1>11, <1>12 DEF EncoderInv, BaseInv

\* The script after an epoch: it writes its weights, or goes on.
AfterLoss(s, v) ==
    IF Improves(s, v)
    THEN Saving(Validated(s, v), Validated(s, v).weights, BestFile(s.kind))
    ELSE AfterEpoch(Validated(s, v))

LEMMA LossSeen ==
    ASSUME NEW s, IsScript(s), NEW v, NEW u, u = AfterLoss(s, v)
    PROVE  /\ IsScript(u) /\ u.kind = s.kind /\ u.run = s.run /\ u.epoch = s.epoch + 1
           /\ u.best = (IF Improves(s, v) THEN v ELSE s.best)
           /\ u.mark = (IF Below(v, s.mark, MinDelta) THEN v ELSE s.mark)
           /\ Improves(s, v) => /\ u.at = "saving" /\ u.file = BestFile(s.kind)
                                /\ u.weights = <<s.run, s.epoch + 1>>
           /\ ~Improves(s, v) => u.at \in {"epoch", "reload"}
<1> DEFINE t == Validated(s, v)
           best == IF Improves(s, v) THEN v ELSE s.best
           mark == IF Below(v, s.mark, MinDelta) THEN v ELSE s.mark
           wait == IF Below(v, s.mark, MinDelta) THEN 0 ELSE s.wait + 1
<1>1. /\ IsScript(t) /\ t.kind = s.kind /\ t.run = s.run /\ t.epoch = s.epoch + 1
      /\ t.best = best /\ t.mark = mark /\ t.weights = <<s.run, s.epoch + 1>>
  <2>1. t = [s EXCEPT !.epoch = s.epoch + 1, !.weights = <<s.run, s.epoch + 1>>,
                      !.best = best, !.mark = mark, !.wait = wait]
    BY DEF Validated
  <2> HIDE DEF t, best, mark, wait
  <2> QED  BY <2>1 DEF IsScript
<1>2. u = IF Improves(s, v) THEN Saving(t, t.weights, BestFile(s.kind)) ELSE AfterEpoch(t)
  BY DEF AfterLoss
<1> HIDE DEF t
<1>3. CASE Improves(s, v)
  <2>1. Follows(u, t, "saving", t.weights, BestFile(s.kind))
    BY <1>1, <1>2, <1>3, Moved
  <2> QED  BY <1>1, <1>3, <2>1 DEF Follows
<1>4. CASE ~Improves(s, v)
  <2>1. /\ IsScript(u) /\ u.kind = t.kind /\ u.run = t.run /\ u.epoch = t.epoch
        /\ u.best = t.best /\ u.mark = t.mark /\ u.at \in {"epoch", "reload"}
    BY <1>1, <1>2, <1>4 DEF AfterEpoch, IsScript
  <2> QED  BY <1>1, <1>4, <2>1
<1> QED  BY <1>3, <1>4

\* A loss is appended; best was within K of those before it.
OneMore(n, old, new, v, best, K) ==
    /\ n \in Nat /\ K \in Nat
    /\ \A e \in 1 .. n : new[e] = old[e] /\ (old[e] = NaN \/ old[e] \in Nat)
    /\ new[n + 1] = v /\ (v = NaN \/ v \in Nat) /\ (best = None \/ best \in Nat)
    /\ best = None => \A e \in 1 .. n : old[e] = NaN
    /\ best # None => \A e \in 1 .. n : old[e] = NaN \/ best <= old[e] + K

LEMMA LossesOf ==
    ASSUME NEW l \in Seq(Losses)
    PROVE  \A e \in DOMAIN l : l[e] \in Losses
OBVIOUS

(***************************************************************************)
(* One more loss: if it is better than best it is better than all before,  *)
(* and best, or else the new loss, stays within delta of all.              *)
(***************************************************************************)
LEMMA OneMoreLoss ==
    ASSUME NEW n, NEW old, NEW new, NEW v, NEW best, NEW K,
           OneMore(n, old, new, v, best, K)
    PROVE  /\ Below(v, best, K) =>
                 /\ v \in Nat /\ v # NaN /\ v # None
                 /\ \A e \in 1 .. n : new[e] = NaN \/ v < new[e]
                 /\ \A e \in 1 .. n + 1 : new[e] = NaN \/ v <= new[e] + K
           /\ ~Below(v, best, K) =>
                 /\ best = None => \A e \in 1 .. n + 1 : new[e] = NaN
                 /\ best # None =>
                       \A e \in 1 .. n + 1 : new[e] = NaN \/ best <= new[e] + K
<1>0. /\ n \in Nat /\ K \in Nat
      /\ \A e \in 1 .. n : new[e] = old[e] /\ (old[e] = NaN \/ old[e] \in Nat)
      /\ new[n + 1] = v /\ (v = NaN \/ v \in Nat) /\ (best = None \/ best \in Nat)
      /\ best = None => \A e \in 1 .. n : old[e] = NaN
      /\ best # None => \A e \in 1 .. n : old[e] = NaN \/ best <= old[e] + K
  BY DEF OneMore
<1>1. \A e \in 1 .. n + 1 : e \in 1 .. n \/ e = n + 1
  BY <1>0
<1>2. ASSUME Below(v, best, K)
      PROVE  /\ v \in Nat /\ v # NaN /\ v # None
             /\ best # None => v < best - K /\ best \in Nat
  BY <1>0, <1>2, EncoderAssumption DEF Below
<1>3. ASSUME Below(v, best, K), NEW e \in 1 .. n PROVE new[e] = NaN \/ v < new[e]
  <2>1. CASE best = None
    BY <1>0, <2>1
  <2>2. CASE best # None
    BY <1>0, <1>2, <1>3, <2>2
  <2> QED  BY <2>1, <2>2
<1>4. ASSUME Below(v, best, K), NEW e \in 1 .. n + 1
      PROVE  new[e] = NaN \/ v <= new[e] + K
  <2>1. CASE e \in 1 .. n
    <3>1. new[e] = NaN \/ (new[e] \in Nat /\ v < new[e])
      BY <1>0, <1>3, <1>4, <2>1
    <3> QED  BY <1>0, <1>2, <1>4, <3>1
  <2> QED  BY <1>0, <1>1, <1>2, <1>4, <2>1
<1>5. ASSUME ~Below(v, best, K) PROVE v = NaN \/ (best # None /\ best <= v + K)
  BY <1>0, <1>5 DEF Below
<1> QED  BY <1>0, <1>1, <1>2, <1>3, <1>4, <1>5

LEMMA EpochStep ==
    ASSUME EncoderInv, NEW j \in Jobs, NEW v \in Losses, Epoch(j, v)
    PROVE  EncoderInv'
<1> DEFINE s == script[j]
           u == AfterLoss(s, v)
           n == s.epoch + 1
           best == BestFile(s.kind)
<1>1. /\ s # None /\ s.at = "epoch" /\ UNCHANGED <<sameRoot, disturbed, trained>>
      /\ losses' = [losses EXCEPT ![s.run] = Append(@, v)]
      /\ script' = [script EXCEPT ![j] = u]
      /\ disk' = IF Improves(s, v) THEN Written(best, Torn) ELSE disk
  BY DEF Epoch, AfterLoss
<1>2. Training(j) /\ TrainerInv(s, disk, losses, disturbed) /\ Mine(j) /\ best \in Checkpoints
  BY <1>1, IsTraining, MyScript, FileNames DEF TrainerInv
<1>3. /\ losses \in Seq(Seq(Losses)) /\ s.run \in DOMAIN losses /\ s.epoch \in Nat
      /\ DOMAIN losses[s.run] = 1 .. s.epoch /\ losses[s.run] \in Seq(Losses)
  BY <1>2 DEF EncoderInv, BaseInv, TrainerInv, EpochsInv
<1>4. /\ losses' \in Seq(Seq(Losses)) /\ DOMAIN losses' = DOMAIN losses
      /\ DOMAIN losses'[s.run] = 1 .. n /\ losses'[s.run][n] = v
      /\ \A e \in 1 .. s.epoch : losses'[s.run][e] = losses[s.run][e]
      /\ \A r \in DOMAIN losses \ {s.run} : losses'[r] = losses[r]
  BY <1>1, <1>3
<1>5. Grows
  BY <1>1, <1>3, <1>4 DEF Grows
<1>6. /\ IsScript(u) /\ u.kind = s.kind /\ u.run = s.run /\ u.epoch = n
      /\ u.best = (IF Improves(s, v) THEN v ELSE s.best)
      /\ u.mark = (IF Below(v, s.mark, MinDelta) THEN v ELSE s.mark)
      /\ Improves(s, v) => u.at = "saving" /\ u.file = best /\ u.weights = <<s.run, n>>
      /\ ~Improves(s, v) => u.at \in {"epoch", "reload"}
  BY <1>2, LossSeen DEF Mine, ScriptInv
<1>7. /\ Improves(s, v) => /\ DOMAIN disk' = DOMAIN disk \cup {best} /\ disk'[best] = Torn
                           /\ \A g \in DOMAIN disk : g # best => disk'[g] = disk[g]
      /\ ~Improves(s, v) => disk' = disk
  BY <1>1 DEF Written, Rewritten
<1> HIDE DEF u
<1> DEFINE K == KeepsDelta(s.kind)
           old == losses[s.run]
           new == losses'[s.run]
<1>8. /\ K \in Nat /\ K <= MinDelta /\ (s.best = None \/ s.best \in Nat)
      /\ v = NaN \/ v \in Nat
      /\ \A e \in 1 .. s.epoch : new[e] = old[e] /\ (old[e] = NaN \/ old[e] \in Nat)
      /\ new[n] = v
      /\ s.best = None => \A e \in 1 .. s.epoch : old[e] = NaN
      /\ s.best # None => \A e \in 1 .. s.epoch : old[e] = NaN \/ s.best <= old[e] + K
  <2>1. K \in Nat /\ K <= MinDelta /\ (v = NaN \/ v \in Nat)
    BY EncoderAssumption DEF KeepsDelta
  <2>2. \A e \in 1 .. s.epoch : new[e] = old[e] /\ (old[e] = NaN \/ old[e] \in Nat)
    <3>1. old \in Seq(Losses) /\ DOMAIN old = 1 .. s.epoch
      BY <1>3
    <3>2. \A e \in 1 .. s.epoch : new[e] = old[e]
      BY <1>4
    <3> HIDE DEF old, new
    <3>3. \A e \in 1 .. s.epoch : old[e] \in Losses
      BY <3>1, LossesOf
    <3> QED  BY <3>2, <3>3, EncoderAssumption
  <2>3. EpochsInv(s, losses)
    BY <1>2 DEF TrainerInv
  <2> HIDE DEF K
  <2>4. /\ s.best = None \/ s.best \in Nat
        /\ s.best = None => \A e \in 1 .. s.epoch : old[e] = NaN
        /\ s.best # None => \A e \in 1 .. s.epoch : old[e] = NaN \/ s.best <= old[e] + K
    BY <1>3, <2>3 DEF EpochsInv, Blind, K
  <2> QED  BY <1>4, <2>1, <2>2, <2>4
<1>9. /\ Improves(s, v) =>
            /\ v \in Nat /\ v # NaN /\ v # None
            /\ \A e \in 1 .. s.epoch : new[e] = NaN \/ v < new[e]
            /\ \A e \in 1 .. n : new[e] = NaN \/ v <= new[e] + K
      /\ ~Improves(s, v) =>
            /\ s.best = None => \A e \in 1 .. n : new[e] = NaN
            /\ s.best # None => \A e \in 1 .. n : new[e] = NaN \/ s.best <= new[e] + K
  <2>1. Improves(s, v) <=> Below(v, s.best, K)
    BY DEF Improves
  <2> DEFINE m == s.epoch
             b == s.best
  <2>2. m \in Nat /\ n = m + 1
    BY <1>3
  <2> HIDE DEF K, old, new, m, b, n
  <2>3. OneMore(m, old, new, v, b, K)
    BY <1>8, <2>2 DEF m, b, OneMore
  <2>4. /\ Below(v, b, K) =>
              /\ v \in Nat /\ v # NaN /\ v # None
              /\ \A e \in 1 .. m : new[e] = NaN \/ v < new[e]
              /\ \A e \in 1 .. m + 1 : new[e] = NaN \/ v <= new[e] + K
        /\ ~Below(v, b, K) =>
              /\ b = None => \A e \in 1 .. m + 1 : new[e] = NaN
              /\ b # None => \A e \in 1 .. m + 1 : new[e] = NaN \/ b <= new[e] + K
    BY <2>3, OneMoreLoss
  <2> QED  BY <2>1, <2>2, <2>4 DEF m, b
<1>10. EpochsInv(u, losses')
  <2>1. u.kind = "orchestrator" => u.mark = u.best
    BY <1>2, <1>6 DEF TrainerInv, EpochsInv, Improves, KeepsDelta
  <2>2. u.run \in DOMAIN losses' /\ DOMAIN losses'[u.run] = 1 .. u.epoch /\ u.epoch \in Nat
    BY <1>3, <1>4, <1>6
  <2>3. K = KeepsDelta(u.kind) /\ new = losses'[u.run] /\ n = u.epoch
    BY <1>6
  <2> HIDE DEF K, new, n
  <2>4. u.best = None => Blind(losses', u.run)
    BY <1>6, <1>9, <2>2, <2>3 DEF Blind
  <2>5. u.best # None =>
          /\ u.best \in Nat
          /\ \A e \in 1 .. u.epoch : new[e] = NaN \/ u.best <= new[e] + K
    BY <1>6, <1>8, <1>9, <2>3
  <2> QED  BY <2>1, <2>2, <2>3, <2>4, <2>5 DEF EpochsInv
<1>11. SavingInv(u, disk', losses', disturbed')
  <2>1. CASE Improves(s, v)
    <3>1. u.best = v /\ SavesBest(u) /\ new[n] = v /\ new = losses'[u.run] /\ n = u.epoch
      BY <1>4, <1>6, <2>1 DEF SavesBest
    <3>2. n # 0 /\ n - 1 = s.epoch
      BY <1>3
    <3>3. u.weights = <<u.run, u.epoch>> /\ u.at = "saving"
      BY <1>6, <2>1
    <3> HIDE DEF new, n
    <3> QED  BY <1>9, <2>1, <3>1, <3>2, <3>3 DEF SavingInv
  <2>2. CASE ~Improves(s, v)
    BY <1>6, <2>2 DEF SavingInv, SavesBest
  <2> QED  BY <2>1, <2>2
<1>12. FilesInv(disk, losses, disturbed)
  BY DEF EncoderInv, DiskInv
<1>13. FilesInv(disk', losses', disturbed')
  <2>1. /\ DOMAIN disk' \subseteq Checkpoints \cup Embeddings
        /\ \A f \in DOMAIN disk' : disk'[f] # Torn => f \in DOMAIN disk /\ disk'[f] = disk[f]
    BY <1>2, <1>7, <1>12 DEF FilesInv
  <2>2. \A f \in DOMAIN disk' : disk'[f] # Torn => Good(losses', disk'[f].weights)
    BY <1>3, <1>5, <1>12, <2>1, GoodGrows DEF FilesInv
  <2>3. ASSUME NEW f \in DOMAIN disk' \cap Checkpoints, disk'[f] # Torn
        PROVE  Lasting(losses', disturbed', disk'[f].weights)
    <3> DEFINE w == disk[f].weights
    <3>1. /\ disk'[f].weights = w /\ Good(losses, w) /\ Known(losses, w)
          /\ Lasting(losses, disturbed, w) /\ disk[f] # Torn /\ f \in DOMAIN disk
      BY <1>12, <2>1, <2>3 DEF FilesInv, Good
    <3> HIDE DEF w
    <3>2. CASE w[1] # s.run \/ w[1] \in disturbed
      BY <1>1, <1>4, <3>1, <3>2 DEF Known, Lasting
    <3>3. CASE w[1] = s.run /\ w[1] \notin disturbed
      <4>1. f = best /\ ~Improves(s, v)
        BY <1>1, <1>2, <1>7, <2>3, <3>1, <3>3 DEF TrainerInv, AloneInv, OnlyIn, Intact, w
      <4>2. w[2] \in 1 .. s.epoch /\ losses[s.run][w[2]] # NaN
        BY <1>3, <3>1, <3>3 DEF Known, Good
      <4>3. s.best # None
        BY <1>3, <1>8, <4>2
      <4>4. losses[s.run][w[2]] = s.best
        BY <1>1, <1>2, <3>3, <4>1, <4>3 DEF TrainerInv, AloneInv, w
      <4>5. \A e \in 1 .. n :
               losses'[s.run][e] = NaN \/ s.best <= losses'[s.run][e] + MinDelta
        <5>1. \A e \in 1 .. n : e \in 1 .. s.epoch \/ e = n
          <6>1. s.epoch \in Nat
            BY <1>3
          <6> QED  BY <6>1
        <5>2. \A e \in 1 .. n : new[e] = NaN \/ new[e] \in Nat
          BY <1>8, <5>1
        <5> HIDE DEF K, n
        <5>3. \A e \in 1 .. n : new[e] = NaN \/ s.best <= new[e] + MinDelta
          <6> HIDE DEF new
          <6> QED  BY <1>8, <1>9, <4>1, <4>3, <5>2, EncoderAssumption
        <5> QED  BY <5>3
      <4> QED  BY <1>4, <3>1, <3>3, <4>2, <4>4, <4>5 DEF Lasting
    <3> QED  BY <3>2, <3>3
  <2> QED  BY <2>1, <2>2, <2>3 DEF FilesInv
<1>14. AloneInv(u, disk', losses', disturbed')
  <2> SUFFICES ASSUME s.run \notin disturbed PROVE AloneInv(u, disk', losses', disturbed')
    BY <1>1, <1>6 DEF AloneInv
  <2>1. OnlyIn(disk, best, s.run) /\ OnlyIn(disk', best, s.run)
    BY <1>1, <1>2, <1>7 DEF TrainerInv, AloneInv, OnlyIn, Intact
  <2>2. CASE Improves(s, v)
    BY <1>6, <2>1, <2>2 DEF AloneInv
  <2>3. CASE ~Improves(s, v)
    <3> DEFINE w == disk[best].weights
    <3>1. s.best # None => Intact(disk, best) /\ w[1] = s.run /\ losses[s.run][w[2]] = s.best
      BY <1>1, <1>2 DEF TrainerInv, AloneInv
    <3>2. s.best # None => w[2] \in 1 .. s.epoch
      BY <1>3, <1>12, <3>1 DEF FilesInv, Intact, Good, Known
    <3> HIDE DEF w
    <3>3. s.best # None => losses'[s.run][w[2]] = s.best
      BY <1>4, <3>1, <3>2
    <3>4. disk' = disk /\ u.best = s.best
      BY <1>6, <1>7, <2>3
    <3> QED  BY <1>6, <2>1, <2>3, <3>1, <3>3, <3>4 DEF AloneInv, w
  <2> QED  BY <2>2, <2>3
<1>15. ScriptInv(u, sameRoot', disk', losses', disturbed', trained') /\ u.run = s.run
  BY <1>2, <1>6, <1>10, <1>11, <1>14 DEF ScriptInv, TrainerInv
<1>16. /\ script' = [k \in Jobs |-> script'[k]] /\ script'[j] = u
       /\ \A k \in Jobs \ {j} : script'[k] = script[k]
  BY <1>1 DEF EncoderInv, BaseInv
<1>17. ASSUME NEW k \in Jobs \ {j}, script[k] # None
       PROVE  ScriptInv(script[k], sameRoot', disk', losses', disturbed', trained')
  <2>1. ASSUME Training(k)
        PROVE  /\ script[k].run # s.run /\ script[k].run \in disturbed /\ s.run \in disturbed
               /\ script[k].run \in DOMAIN losses
    BY <1>2, <2>1, IsTraining, MyScript DEF EncoderInv, BaseInv, ApartInv
  <2>2. s.run \in disturbed => \A w : Known(losses, w) /\ Lasting(losses, disturbed, w)
                                        => Lasting(losses', disturbed', w)
    BY <1>1, <1>4 DEF Known, Lasting
  <2>3. DOMAIN disk \subseteq DOMAIN disk'
    BY <1>7
  <2> QED  BY <1>1, <1>4, <1>5, <1>17, <2>1, <2>2, <2>3, OthersStand
<1>18. ScriptsInv'
  BY <1>15, <1>16, <1>17 DEF ScriptsInv
<1>19. ApartInv'
  BY <1>1, <1>2, <1>15, <1>16 DEF EncoderInv, ApartInv, Training
<1>20. SomeEncoder(disk) => SomeEncoder(disk')
  BY <1>7 DEF SomeEncoder
<1> QED
  BY <1>1, <1>4, <1>13, <1>16, <1>18, <1>19, <1>20 DEF EncoderInv, BaseInv, DiskInv

-----------------------------------------------------------------------------
(* The specification *)

LEMMA EncoderInit == Init => EncoderInv
<1> SUFFICES ASSUME Init PROVE EncoderInv
  OBVIOUS
<1>1. /\ sameRoot \in BOOLEAN /\ DOMAIN disk = {} /\ losses = <<>> /\ disturbed = {}
      /\ trained = FALSE /\ script = [j \in Jobs |-> None]
  BY DEF Init
<1>2. BaseInv
  <2>1. losses \in Seq(Seq(Losses)) /\ DOMAIN losses = {}
    BY <1>1
  <2> QED  BY <1>1, <2>1 DEF BaseInv
<1>3. DiskInv
  BY <1>1 DEF DiskInv, FilesInv
<1>4. ScriptsInv /\ ApartInv
  BY <1>1 DEF ScriptsInv, ApartInv, Training
<1> QED  BY <1>2, <1>3, <1>4 DEF EncoderInv

LEMMA EncoderNext == EncoderInv /\ [Next]_vars => EncoderInv'
<1> SUFFICES ASSUME EncoderInv, [Next]_vars PROVE EncoderInv'
  OBVIOUS
<1>1. ASSUME NEW j \in Jobs, NEW kind, NEW rows \in RowCounts,
             StartTraining(j, kind, rows) \/ StartReading(j, kind, rows)
      PROVE  EncoderInv'
  BY <1>1, StartTrainingStep, StartReadingStep
<1>2. ASSUME NEW j \in Jobs, NEW v \in Losses, Epoch(j, v)
      PROVE  EncoderInv'
  BY <1>2, EpochStep
<1>3. ASSUME NEW j \in Jobs,
             Reload(j) \/ EndSave(j) \/ Stage2(j) \/ Encode(j) \/ Return(j)
      PROVE  EncoderInv'
  BY <1>3, ReloadStep, EndSaveStep, Stage2Step, EncodeStep, ReturnStep
<1>4. ASSUME NEW j \in Jobs, NEW force, ReadCache(j, force)
      PROVE  EncoderInv'
  BY <1>4, ReadCacheStep
<1>5. ASSUME NEW j \in Jobs, ReloadRaises(j) \/ Die(j)
      PROVE  EncoderInv'
  BY <1>5, FilesStand, EndStep DEF ReloadRaises, Die
<1>6. CASE UNCHANGED vars
  BY <1>6 DEF vars, EncoderInv, BaseInv, DiskInv, ScriptsInv, ApartInv, Training
<1> QED  BY <1>1, <1>2, <1>3, <1>4, <1>5, <1>6 DEF Next

(***************************************************************************)
(* The weights in the files, the scripts under way and the losses they     *)
(* have seen agree in every state (train.py:192-287,                       *)
(* train_orchestrator.py:209-270, inference.py:16-127).                    *)
(***************************************************************************)
THEOREM ArtifactsInvariant == Spec => []EncoderInv
BY EncoderInit, EncoderNext, PTL DEF Spec

(***************************************************************************)
(* Every whole checkpoint holds the best epoch so far of the run it is of, *)
(* the frozen one within min_delta of the whole run's best                 *)
(* (train.py:249-266, train_orchestrator.py:245-265).                      *)
(***************************************************************************)
THEOREM BestInCheckpoints == Spec => []CheckpointsHoldBest
<1>1. EncoderInv => CheckpointsHoldBest
  <2> SUFFICES ASSUME EncoderInv, NEW file \in DOMAIN disk, Whole(file)
               PROVE  LET w == disk[file].weights IN
                      /\ LossOf(w) # NaN
                      /\ \A v \in Before(w) : v = NaN \/ LossOf(w) < v
                      /\ file = FrozenFile /\ w[1] \notin disturbed =>
                            \A v \in Everywhere(w) : v = NaN \/ LossOf(w) <= v + MinDelta
    BY DEF CheckpointsHoldBest
  <2> DEFINE w == disk[file].weights
  <2>1. Good(losses, w) /\ (file = FrozenFile => Lasting(losses, disturbed, w))
    BY FileNames DEF EncoderInv, DiskInv, FilesInv, Whole
  <2> HIDE DEF w
  <2>2. LossOf(w) # NaN
    BY <2>1 DEF Good, LossOf
  <2>3. \A v \in Before(w) : v = NaN \/ LossOf(w) < v
    BY <2>1 DEF Good, LossOf, Before
  <2>4. file = FrozenFile /\ w[1] \notin disturbed =>
            \A v \in Everywhere(w) : v = NaN \/ LossOf(w) <= v + MinDelta
    BY <2>1 DEF Lasting, LossOf, Everywhere
  <2> QED  BY <2>2, <2>3, <2>4 DEF w
<1> QED  BY <1>1, ArtifactsInvariant, PTL

(***************************************************************************)
(* A training hands on its own encoder unless it shared the directory or   *)
(* never saw a finite loss (train_orchestrator.py:255-319,                 *)
(* train.py:260-287).                                                      *)
(***************************************************************************)
THEOREM OwnEncoder == Spec => []TrainedEncoderIsOwn
<1>1. EncoderInv => TrainedEncoderIsOwn
  <2> SUFFICES ASSUME EncoderInv, NEW j \in Jobs, Serves(j), Training(j)
               PROVE  \/ script[j].weights[1] = script[j].run
                      \/ script[j].run \in disturbed
                      \/ \A e \in DOMAIN losses[script[j].run] :
                            losses[script[j].run][e] = NaN
    BY DEF TrainedEncoderIsOwn
  <2>1. TrainerInv(script[j], disk, losses, disturbed)
    BY MyScript DEF Serves, Training, Mine, ScriptInv, ReaderInv
  <2> QED  BY <2>1 DEF Serves, TrainerInv, SavingInv, Own, Blind
<1> QED  BY <1>1, ArtifactsInvariant, PTL

(***************************************************************************)
(* Training data is encoded once a training has ended, if the two settings *)
(* name one directory (inference.py:15-30, training_data.py:126-135).      *)
(***************************************************************************)
THEOREM EncodedWhereDirectoriesAgree == Spec => []EncodedOnceTrained
<1>1. EncoderInv => EncodedOnceTrained
  <2> SUFFICES ASSUME EncoderInv, NEW j \in Jobs, Serves(j),
                      script[j].kind = "training_data", sameRoot, script[j].seen,
                      script[j].rows >= SequenceLength
               PROVE  script[j].weights # None
    BY DEF EncodedOnceTrained
  <2>1. ReaderInv(script[j], sameRoot, losses, trained)
    BY IsReading DEF Serves, Readers
  <2> QED  BY <2>1 DEF Serves, ReaderInv
<1> QED  BY <1>1, ArtifactsInvariant, PTL

-----------------------------------------------------------------------------
(* The queue of Stage 3 *)

\* Request numbers still in the queue, and the workers inside a job's await.
Waiting == {queue[i] : i \in DOMAIN queue}
Runners == {w \in Workers : worker[w] = "running"}

QueueTypes ==
    /\ maxConcurrent \in ConcurrencyLimits /\ stopSet \in BOOLEAN
    /\ client \in {"new", "started", "joining", "joined", "stopping", "stopped"}
    /\ requests \in Seq(Tickers) /\ Len(requests) <= MaxRequests
    /\ queue \in Seq(Nat)
    /\ worker \in [Workers -> {"none", "polling", "holding", "running", "ended"}]
    /\ held \in [Workers -> Requests \cup {0}]
    /\ job \in [Requests -> {"waiting", "pool", "running", "raised", "saved"}]

\* A request is in one place: in the queue, in the hand of one worker, or over.
\* A job of the pool has a worker that waits for it.
PlaceInv ==
    /\ Waiting \subseteq DOMAIN requests
    /\ \A i, j \in DOMAIN queue : queue[i] = queue[j] => i = j
    /\ \A r \in Waiting : job[r] = "waiting"
    /\ \A w \in InHand : held[w] \in DOMAIN requests /\ held[w] \notin Waiting
    /\ \A v, w \in InHand : held[v] = held[w] => v = w
    /\ \A w \in InHand : worker[w] = "holding" <=> job[held[w]] = "waiting"
    /\ \A r \in Requests : job[r] # "waiting" => r \in DOMAIN requests
    /\ \A r \in Requests : job[r] = "pool" => \E w \in InHand : held[w] = r

\* Until stop() is called no request is lost.
NoneLost ==
    ~stopSet => \A r \in DOMAIN requests :
        \/ job[r] \in {"raised", "saved"}
        \/ r \in Waiting
        \/ \E w \in InHand : held[w] = r

\* The queue's count of unfinished tasks and the semaphore's of its permits.
CountInv ==
    /\ unfinished = Len(queue) + Cardinality(InHand)
    /\ permits = Cardinality(Runners)

\* What the client knows where it stands.
ClientInv ==
    /\ client = "joined" => unfinished = 0
    /\ stopSet <=> client \in {"stopping", "stopped"}
    /\ client = "new" => \A w \in Workers : worker[w] = "none"
    /\ client = "stopped" => PoolDrained /\ \A w \in Workers : worker[w] \in {"none", "ended"}

\* No other request names this one's ticker.
Alone(r) == \A s \in DOMAIN requests : requests[s] = requests[r] => s = r

ReadsInv ==
    /\ reads \in [Requests -> Seq(Nat \ {0})] /\ missed \in [Requests -> BOOLEAN]
    /\ cache \in [Tickers -> Nat] /\ builds \in Nat
    /\ \A r \in Requests \ DOMAIN requests : reads[r] = <<>> /\ ~missed[r]
    /\ \A r \in DOMAIN requests : Alone(r) =>
          /\ \A i \in DOMAIN reads[r] : reads[r][i] = cache[requests[r]]
          /\ missed[r] => cache[requests[r]] = 0

QueueInv ==
    QueueTypes /\ PlaceInv /\ NoneLost /\ CountInv /\ ClientInv /\ GpuSerialized /\ ReadsInv

-----------------------------------------------------------------------------
(* Counting *)

\* Workers and requests are finitely many, so the counts are naturals.
LEMMA CountsAreFinite ==
    /\ IsFiniteSet(InHand) /\ Cardinality(InHand) \in Nat
    /\ IsFiniteSet(Runners) /\ Cardinality(Runners) \in Nat
    /\ IsFiniteSet(HandedOver) /\ Cardinality(HandedOver) \in Nat
<1>1. IsFiniteSet(InHand) /\ IsFiniteSet(Runners)
  BY QueueAssumption, FS_Subset DEF InHand, Runners
<1>2. IsFiniteSet(Requests) /\ HandedOver \subseteq Requests
  BY QueueAssumption, FS_Interval DEF Requests, HandedOver
<1>3. IsFiniteSet(HandedOver)
  BY <1>2, FS_Subset
<1> QED  BY <1>1, <1>3, FS_CardinalityType

(***************************************************************************)
(* One worker's step moves it in or out of the sets that are counted.      *)
(***************************************************************************)
LEMMA WorkerMoves ==
    ASSUME QueueTypes, NEW w \in Workers,
           NEW st \in {"none", "polling", "holding", "running", "ended"},
           worker' = [worker EXCEPT ![w] = st]
    PROVE  /\ worker' \in [Workers -> {"none", "polling", "holding", "running", "ended"}]
           /\ InHand' = IF st \in {"holding", "running"} THEN InHand \cup {w} ELSE InHand \ {w}
           /\ Runners' = IF st = "running" THEN Runners \cup {w} ELSE Runners \ {w}
           /\ worker'[w] = st /\ \A v \in Workers : v # w => worker'[v] = worker[v]
BY DEF QueueTypes, InHand, Runners

(***************************************************************************)
(* The limit of the pool holds on while nothing is handed over.            *)
(***************************************************************************)
LEMMA NothingHandedOver ==
    ASSUME QueueTypes, GpuSerialized, maxConcurrent' = maxConcurrent,
           \A r \in Requests : job'[r] \in {"pool", "running"} => job[r] \in {"pool", "running"}
    PROVE  GpuSerialized'
<1>1. HandedOver' \subseteq HandedOver
  BY DEF HandedOver
<1>2. Cardinality(HandedOver') <= Cardinality(HandedOver) /\ IsFiniteSet(HandedOver')
  BY <1>1, CountsAreFinite, FS_Subset
<1>3. Cardinality(HandedOver') \in Nat
  BY <1>2, FS_CardinalityType
<1>4. Cardinality(HandedOver) \in Nat
  BY CountsAreFinite
<1> QED  BY QueueAssumption, <1>2, <1>3, <1>4 DEF GpuSerialized, QueueTypes

(***************************************************************************)
(* Until stop() is called every job in the pool has a worker of its own    *)
(* that waits for it with a permit.                                        *)
(***************************************************************************)
LEMMA PermitForEach ==
    ASSUME QueueInv, ~stopSet
    PROVE  Cardinality(HandedOver) <= permits /\ permits \in Nat
<1> DEFINE taken == {held[w] : w \in Runners}
           f == [w \in Runners |-> held[w]]
<1>1. HandedOver \subseteq taken
  <2> SUFFICES ASSUME NEW r \in HandedOver  PROVE r \in taken
    OBVIOUS
  <2>1. r \in Requests /\ r \in DOMAIN requests /\ job[r] \notin {"raised", "saved", "waiting"}
    BY DEF HandedOver, QueueInv, PlaceInv
  <2>2. PICK w \in InHand : held[w] = r
    BY <2>1 DEF QueueInv, NoneLost, PlaceInv
  <2>3. w \in Runners
    BY <2>1, <2>2 DEF QueueInv, PlaceInv, InHand, Runners
  <2> QED  BY <2>2, <2>3
<1>2. f \in Surjection(Runners, taken)
  BY DEF Surjection
<1>3. IsFiniteSet(taken) /\ Cardinality(taken) <= Cardinality(Runners)
  BY <1>2, CountsAreFinite, FS_Surjection
<1> HIDE DEF taken
<1>4. Cardinality(HandedOver) <= Cardinality(taken) /\ Cardinality(taken) \in Nat
  BY <1>1, <1>3, FS_Subset, FS_CardinalityType
<1> QED  BY <1>3, <1>4, CountsAreFinite DEF QueueInv, CountInv

\* A new queue is empty and has no workers.
LEMMA QueueStarts == QueueInit => QueueInv
<1> SUFFICES ASSUME QueueInit  PROVE QueueInv
  OBVIOUS
<1>1. QueueTypes
  <2>1. <<>> \in Seq(Tickers) /\ <<>> \in Seq(Nat)
    BY EmptySeq
  <2>2. Len(<<>>) <= MaxRequests
    BY EmptySeq, QueueAssumption
  <2> QED  BY <2>1, <2>2, QueueAssumption DEF QueueInit, QueueTypes
<1>2. InHand = {} /\ Runners = {} /\ HandedOver = {} /\ Waiting = {}
  BY DEF QueueInit, InHand, Runners, HandedOver, Waiting
<1>3. Cardinality({}) = 0
  BY FS_EmptySet
<1>4. PlaceInv /\ NoneLost
  BY <1>2 DEF QueueInit, PlaceInv, NoneLost
<1>5. CountInv
  BY <1>2, <1>3, EmptySeq DEF QueueInit, CountInv
<1>6. ClientInv
  BY DEF QueueInit, ClientInv
<1>7. GpuSerialized
  BY QueueAssumption, <1>1, <1>2, <1>3 DEF GpuSerialized, QueueTypes
<1>8. <<>> \in Seq(Nat \ {0})
  BY EmptySeq
<1>9. ReadsInv
  BY <1>8 DEF QueueInit, ReadsInv
<1> QED  BY <1>1, <1>4, <1>5, <1>6, <1>7, <1>9 DEF QueueInv

-----------------------------------------------------------------------------
(* The client *)

(***************************************************************************)
(* A request goes to the end of the queue under the next number (submit).  *)
(***************************************************************************)
LEMMA SubmitStep ==
    ASSUME QueueInv, NEW t \in Tickers, Submit(t)
    PROVE  QueueInv'
<1> DEFINE n == Len(requests) + 1
<1>1. /\ DOMAIN requests = 1 .. Len(requests) /\ Len(requests) \in Nat
      /\ DOMAIN queue = 1 .. Len(queue) /\ Len(queue) \in Nat
      /\ requests \in Seq(Tickers) /\ queue \in Seq(Nat)
  BY LenProperties DEF QueueInv, QueueTypes
<1>2. n \in Nat /\ n \in Requests /\ n \notin DOMAIN requests /\ n <= MaxRequests
  BY <1>1, QueueAssumption DEF Submit, Requests
<1>3. /\ requests' \in Seq(Tickers) /\ Len(requests') = n
      /\ \A r \in 1 .. Len(requests) : requests'[r] = requests[r]
      /\ requests'[n] = t
  BY <1>1, AppendProperties DEF Submit
<1>4. /\ queue' \in Seq(Nat) /\ Len(queue') = Len(queue) + 1
      /\ \A i \in 1 .. Len(queue) : queue'[i] = queue[i]
      /\ queue'[Len(queue) + 1] = n
  BY <1>1, <1>2, AppendProperties DEF Submit
<1>5. DOMAIN requests' = 1 .. n /\ DOMAIN queue' = 1 .. Len(queue) + 1
  BY <1>3, <1>4, LenProperties
<1>6. DOMAIN requests' = DOMAIN requests \cup {n}
  BY <1>1, <1>5
<1>7. Waiting' = Waiting \cup {n}
  <2>1. \A i \in DOMAIN queue : i \in DOMAIN queue' /\ queue'[i] = queue[i]
    BY <1>1, <1>4, <1>5
  <2>2. \A i \in DOMAIN queue' : i \in DOMAIN queue \/ i = Len(queue) + 1
    BY <1>1, <1>5
  <2>3. Len(queue) + 1 \in DOMAIN queue' /\ queue'[Len(queue) + 1] = n
    BY <1>1, <1>4, <1>5
  <2> HIDE DEF n
  <2> QED  BY <2>1, <2>2, <2>3 DEF Waiting
<1>8. UNCHANGED <<maxConcurrent, stopSet, worker, held, permits, job, reads, missed, cache, builds>>
  BY DEF Submit, provider
<1>9. InHand' = InHand /\ Runners' = Runners /\ HandedOver' = HandedOver
  BY <1>8 DEF InHand, Runners, HandedOver
<1> HIDE DEF n
<1>10. QueueTypes'
  BY <1>2, <1>3, <1>4, <1>8 DEF QueueInv, QueueTypes, Submit
<1>11. PlaceInv'
  <2>1. Waiting' \subseteq DOMAIN requests'
    BY <1>6, <1>7 DEF QueueInv, PlaceInv
  <2>2. \A i, j \in DOMAIN queue' : queue'[i] = queue'[j] => i = j
    <3>1. \A i \in 1 .. Len(queue) : queue[i] # n
      BY <1>1, <1>2 DEF QueueInv, PlaceInv, Waiting
    <3> QED  BY <1>1, <1>4, <1>5, <3>1 DEF QueueInv, PlaceInv
  <2>3. job[n] = "waiting"
    BY <1>2 DEF QueueInv, PlaceInv
  <2>4. \A r \in Waiting' : job'[r] = "waiting"
    BY <1>7, <1>8, <2>3 DEF QueueInv, PlaceInv
  <2>5. \A w \in InHand' : held'[w] \in DOMAIN requests' /\ held'[w] \notin Waiting'
    BY <1>2, <1>6, <1>7, <1>8, <1>9 DEF QueueInv, PlaceInv
  <2>6. \A r \in Requests : job'[r] # "waiting" => r \in DOMAIN requests'
    BY <1>6, <1>8 DEF QueueInv, PlaceInv
  <2> QED  BY <1>8, <1>9, <2>1, <2>2, <2>4, <2>5, <2>6 DEF QueueInv, PlaceInv
<1>12. NoneLost'
  BY <1>6, <1>7, <1>8, <1>9 DEF QueueInv, NoneLost
<1>13. CountInv'
  <2>1. unfinished' = unfinished + 1 /\ unfinished = Len(queue) + Cardinality(InHand)
    BY DEF QueueInv, CountInv, Submit
  <2> QED  BY <1>1, <1>4, <1>8, <1>9, <2>1, CountsAreFinite DEF QueueInv, CountInv
<1>14. ClientInv'
  BY <1>8 DEF QueueInv, ClientInv, Submit
<1>15. GpuSerialized'
  BY <1>8, <1>9 DEF QueueInv, GpuSerialized
<1>16. ReadsInv'
  <2>1. \A r \in Requests \ DOMAIN requests' : reads'[r] = <<>> /\ ~missed'[r]
    BY <1>6, <1>8 DEF QueueInv, ReadsInv
  <2>2. ASSUME NEW r \in DOMAIN requests', Alone(r)'
        PROVE  /\ \A i \in DOMAIN reads'[r] : reads'[r][i] = cache'[requests'[r]]
               /\ missed'[r] => cache'[requests'[r]] = 0
    <3>1. CASE r = n
      <4>1. reads[r] = <<>> /\ ~missed[r]
        BY <1>2, <3>1 DEF QueueInv, ReadsInv
      <4>2. DOMAIN reads[r] = {}
        BY <4>1
      <4> QED  BY <1>8, <4>1, <4>2
    <3>2. CASE r # n
      <4>1. r \in DOMAIN requests /\ requests'[r] = requests[r]
        BY <1>1, <1>3, <1>6, <3>2
      <4>2. Alone(r)
        BY <1>1, <1>3, <1>6, <2>2, <4>1 DEF Alone
      <4> QED  BY <1>8, <4>1, <4>2 DEF QueueInv, ReadsInv
    <3> QED  BY <3>1, <3>2
  <2> QED  BY <1>8, <2>1, <2>2 DEF QueueInv, ReadsInv
<1> QED
  BY <1>10, <1>11, <1>12, <1>13, <1>14, <1>15, <1>16 DEF QueueInv

(***************************************************************************)
(* Steps that leave the places, the counts or the reads alone.             *)
(***************************************************************************)
LEMMA PlacesStand ==
    ASSUME PlaceInv, UNCHANGED <<requests, queue, worker, held, job>>
    PROVE  PlaceInv' /\ InHand' = InHand /\ Runners' = Runners /\ Waiting' = Waiting
BY DEF PlaceInv, InHand, Runners, Waiting

\* A step that touches neither the requests nor the provider keeps what jobs have read.
LEMMA ReadsStand ==
    ASSUME ReadsInv, UNCHANGED <<requests, provider>>
    PROVE  ReadsInv'
<1>1. UNCHANGED <<requests, reads, missed, cache, builds>>
  BY DEF provider
<1> QED  BY <1>1 DEF ReadsInv, Alone

(***************************************************************************)
(* start, join and stop: nothing of the queue or the jobs moves.           *)
(***************************************************************************)
LEMMA ClientStep ==
    ASSUME QueueInv, Join \/ JoinReturns \/ Stop \/ StopReturns
    PROVE  QueueInv'
<1>1. /\ UNCHANGED <<maxConcurrent, requests, queue, unfinished, worker, held, permits, job>>
      /\ UNCHANGED provider
  BY DEF Join, JoinReturns, Stop, StopReturns, tasks
<1>2. PlaceInv' /\ InHand' = InHand /\ Runners' = Runners /\ Waiting' = Waiting
  BY <1>1, PlacesStand DEF QueueInv
<1>3. stopSet => stopSet'
  BY DEF Join, JoinReturns, Stop, StopReturns
<1>4. QueueTypes'
  BY <1>1 DEF QueueInv, QueueTypes, Join, JoinReturns, Stop, StopReturns
<1>5. NoneLost'
  BY <1>1, <1>2, <1>3, <1>4 DEF QueueInv, NoneLost, QueueTypes
<1>6. CountInv'
  BY <1>1, <1>2 DEF QueueInv, CountInv
<1>7. ClientInv'
  BY <1>1 DEF QueueInv, ClientInv, QueueTypes, Join, JoinReturns, Stop, StopReturns, PoolDrained
<1>8. GpuSerialized'
  BY <1>1, NothingHandedOver DEF QueueInv
<1>9. ReadsInv'
  BY <1>1, ReadsStand DEF QueueInv
<1> QED  BY <1>2, <1>4, <1>5, <1>6, <1>7, <1>8, <1>9 DEF QueueInv

\* start() creates workers with empty hands.
LEMMA StartStep ==
    ASSUME QueueInv, NEW ws \in SUBSET Workers, Start(ws)
    PROVE  QueueInv'
<1>1. /\ UNCHANGED <<maxConcurrent, stopSet, requests, queue, unfinished, held, permits, job>>
      /\ UNCHANGED provider
      /\ client = "new" /\ client' = "started"
  BY DEF Start
<1>2. \A w \in Workers : worker[w] = "none" /\ worker'[w] \in {"none", "polling"}
  BY DEF QueueInv, ClientInv, Start
<1>3. InHand = {} /\ InHand' = {} /\ Runners = {} /\ Runners' = {} /\ Waiting' = Waiting
  BY <1>1, <1>2 DEF InHand, Runners, Waiting
<1>4. QueueTypes'
  BY <1>1 DEF QueueInv, QueueTypes, Start
<1>5. PlaceInv' /\ NoneLost'
  BY <1>1, <1>3 DEF QueueInv, PlaceInv, NoneLost
<1>6. CountInv' /\ ClientInv'
  BY <1>1, <1>3 DEF QueueInv, CountInv, ClientInv
<1>7. GpuSerialized' /\ ReadsInv'
  BY <1>1, NothingHandedOver, ReadsStand DEF QueueInv
<1> QED  BY <1>4, <1>5, <1>6, <1>7 DEF QueueInv

-----------------------------------------------------------------------------
(* The workers *)

(***************************************************************************)
(* The head of the queue goes into the hand of the worker that polls.      *)
(***************************************************************************)
LEMMA TakeStep ==
    ASSUME QueueInv, NEW w \in Workers, Take(w)
    PROVE  QueueInv'
<1> DEFINE n == Head(queue)
<1>1. /\ DOMAIN queue = 1 .. Len(queue) /\ Len(queue) \in Nat \ {0}
      /\ queue \in Seq(Nat) /\ queue # <<>>
  BY LenProperties, EmptySeq DEF QueueInv, QueueTypes, Take
<1>2. /\ queue' \in Seq(Nat) /\ Len(queue') = Len(queue) - 1
      /\ \A i \in 1 .. Len(queue') : queue'[i] = queue[i + 1]
  BY <1>1, HeadTailProperties DEF Take
<1>3. n = queue[1] /\ n \in Requests
  <2>1. n = queue[1] /\ 1 \in DOMAIN queue
    BY <1>1
  <2>2. n \in DOMAIN requests
    BY <2>1 DEF QueueInv, PlaceInv, Waiting
  <2> QED
    BY <2>1, <2>2, LenProperties, QueueAssumption DEF QueueInv, QueueTypes, Requests
<1>4. DOMAIN queue' = 1 .. Len(queue')
  BY <1>2, LenProperties
<1>5. UNCHANGED <<maxConcurrent, client, stopSet, requests, unfinished, permits, job, provider>>
  BY DEF Take, control
<1>6. worker[w] = "polling" /\ ~stopSet /\ worker' = [worker EXCEPT ![w] = "holding"]
  BY DEF Take
<1>7. /\ worker' \in [Workers -> {"none", "polling", "holding", "running", "ended"}]
      /\ InHand' = InHand \cup {w} /\ Runners' = Runners \ {w}
      /\ worker'[w] = "holding" /\ \A v \in Workers : v # w => worker'[v] = worker[v]
  BY <1>6, WorkerMoves DEF QueueInv
<1>8. w \notin InHand /\ w \notin Runners
  BY <1>6 DEF InHand, Runners
<1>9. /\ held' \in [Workers -> Requests \cup {0}] /\ held'[w] = n
      /\ \A v \in Workers : v # w => held'[v] = held[v]
  BY <1>3 DEF QueueInv, QueueTypes, Take
<1> HIDE DEF n
<1>10. Waiting' = Waiting \ {n} /\ n \in Waiting
  <2>1. \A i, j \in DOMAIN queue : queue[i] = queue[j] => i = j
    BY DEF QueueInv, PlaceInv
  <2>2. \A i \in DOMAIN queue' : i + 1 \in DOMAIN queue /\ queue'[i] = queue[i + 1] /\ i + 1 # 1
    BY <1>1, <1>2, <1>4
  <2>3. \A i \in DOMAIN queue : i # 1 => i - 1 \in DOMAIN queue' /\ queue'[i - 1] = queue[i]
    BY <1>1, <1>2, <1>4
  <2>4. 1 \in DOMAIN queue
    BY <1>1
  <2>5. Waiting' \subseteq Waiting \ {n}
    BY <1>3, <2>1, <2>2, <2>4 DEF Waiting
  <2>6. Waiting \ {n} \subseteq Waiting'
    BY <1>3, <2>3, <2>4 DEF Waiting
  <2> QED  BY <1>3, <2>4, <2>5, <2>6 DEF Waiting
<1>11. QueueTypes'
  BY <1>2, <1>5, <1>7, <1>9 DEF QueueInv, QueueTypes
<1>12. PlaceInv'
  <2>1. \A i, j \in DOMAIN queue' : queue'[i] = queue'[j] => i = j
    <3>1. \A i \in DOMAIN queue' : i \in Int /\ i + 1 \in DOMAIN queue /\ queue'[i] = queue[i + 1]
      BY <1>1, <1>2, <1>4
    <3> QED  BY <3>1 DEF QueueInv, PlaceInv
  <2>2. n \in DOMAIN requests /\ job[n] = "waiting" /\ \A v \in InHand : held[v] # n
    BY <1>10 DEF QueueInv, PlaceInv
  <2>3. Waiting' \subseteq DOMAIN requests' /\ \A r \in Waiting' : job'[r] = "waiting"
    BY <1>5, <1>10 DEF QueueInv, PlaceInv
  <2>4. \A v \in InHand' :
           \/ v = w /\ held'[v] = n /\ worker'[v] = "holding"
           \/ v \in InHand /\ held'[v] = held[v] /\ worker'[v] = worker[v]
    BY <1>7, <1>9 DEF InHand
  <2>5. \A v \in InHand' : held'[v] \in DOMAIN requests' /\ held'[v] \notin Waiting'
    BY <1>5, <1>10, <2>2, <2>4 DEF QueueInv, PlaceInv
  <2>6. \A u, v \in InHand' : held'[u] = held'[v] => u = v
    BY <2>2, <2>4 DEF QueueInv, PlaceInv
  <2>7. \A v \in InHand' : worker'[v] = "holding" <=> job'[held'[v]] = "waiting"
    BY <1>5, <2>2, <2>4 DEF QueueInv, PlaceInv
  <2>8. \A r \in Requests : job'[r] = "pool" => \E v \in InHand' : held'[v] = r
    BY <1>5, <1>7, <1>8, <1>9 DEF QueueInv, PlaceInv, InHand
  <2>9. \A r \in Requests : job'[r] # "waiting" => r \in DOMAIN requests'
    BY <1>5 DEF QueueInv, PlaceInv
  <2> QED  BY <2>1, <2>3, <2>5, <2>6, <2>7, <2>8, <2>9 DEF PlaceInv
<1>13. NoneLost'
  <2> SUFFICES ASSUME NEW r \in DOMAIN requests
               PROVE  \/ job[r] \in {"raised", "saved"}
                      \/ r \in Waiting'
                      \/ \E v \in InHand' : held'[v] = r
    BY <1>5 DEF NoneLost
  <2>1. \/ job[r] \in {"raised", "saved"} \/ r \in Waiting
        \/ \E v \in InHand : held[v] = r
    BY <1>6 DEF QueueInv, NoneLost
  <2>2. \A v \in InHand : v \in InHand' /\ held'[v] = held[v]
    BY <1>7, <1>8, <1>9 DEF InHand
  <2>3. w \in InHand' /\ held'[w] = n
    BY <1>7, <1>9
  <2> QED  BY <1>10, <2>1, <2>2, <2>3
<1>14. CountInv'
  <2>1. Cardinality(InHand') = Cardinality(InHand) + 1
    BY <1>7, <1>8, CountsAreFinite, FS_AddElement
  <2>2. Runners' = Runners
    BY <1>7, <1>8
  <2> QED  BY <1>1, <1>2, <1>5, <2>1, <2>2, CountsAreFinite DEF QueueInv, CountInv
<1>15. ClientInv'
  <2>1. client # "joined"
    <3>1. unfinished = Len(queue) + Cardinality(InHand) /\ Cardinality(InHand) \in Nat
      BY CountsAreFinite DEF QueueInv, CountInv
    <3> QED  BY <1>1, <3>1 DEF QueueInv, ClientInv
  <2> QED  BY <1>5, <1>6, <2>1 DEF QueueInv, ClientInv
<1>16. GpuSerialized' /\ ReadsInv'
  BY <1>5, NothingHandedOver, ReadsStand DEF QueueInv
<1> QED  BY <1>11, <1>12, <1>13, <1>14, <1>15, <1>16 DEF QueueInv

(***************************************************************************)
(* The request a worker holds is handed to the pool with a permit.         *)
(***************************************************************************)
LEMMA DispatchStep ==
    ASSUME QueueInv, NEW w \in Workers, Dispatch(w)
    PROVE  QueueInv'
<1> DEFINE n == held[w]
<1>1. /\ UNCHANGED <<maxConcurrent, client, stopSet, requests, queue, unfinished, held, provider>>
      /\ worker[w] = "holding" /\ ~stopSet
      /\ worker' = [worker EXCEPT ![w] = "running"]
      /\ permits' = permits + 1
      /\ job' = [job EXCEPT ![n] = "pool"]
  BY DEF Dispatch, control
<1>2. /\ worker' \in [Workers -> {"none", "polling", "holding", "running", "ended"}]
      /\ InHand' = InHand \cup {w} /\ Runners' = Runners \cup {w}
      /\ worker'[w] = "running" /\ \A v \in Workers : v # w => worker'[v] = worker[v]
  BY <1>1, WorkerMoves DEF QueueInv
<1>3. w \in InHand /\ w \notin Runners /\ InHand' = InHand
  BY <1>1, <1>2 DEF InHand, Runners
<1>4. n \in DOMAIN requests /\ n \notin Waiting /\ \A v \in InHand : held[v] = n => v = w
  BY <1>3 DEF QueueInv, PlaceInv
<1>5. n \in Requests
  BY <1>4, LenProperties, QueueAssumption DEF QueueInv, QueueTypes, Requests
<1>6. /\ job' \in [Requests -> {"waiting", "pool", "running", "raised", "saved"}]
      /\ job'[n] = "pool" /\ \A r \in Requests : r # n => job'[r] = job[r]
  BY <1>1, <1>5 DEF QueueInv, QueueTypes
<1>7. Waiting' = Waiting
  BY <1>1 DEF Waiting
<1> HIDE DEF n
<1>8. QueueTypes'
  BY <1>1, <1>2, <1>6 DEF QueueInv, QueueTypes
<1>9. PlaceInv'
  <2>1. \A r \in DOMAIN requests : r \in Requests
    BY LenProperties, QueueAssumption DEF QueueInv, QueueTypes, Requests
  <2>2. \A r \in Waiting' : job'[r] = "waiting"
    BY <1>4, <1>6, <1>7, <2>1 DEF QueueInv, PlaceInv
  <2>3. \A v \in InHand' : worker'[v] = "holding" <=> job'[held'[v]] = "waiting"
    <3> SUFFICES ASSUME NEW v \in InHand
                 PROVE  worker'[v] = "holding" <=> job'[held[v]] = "waiting"
      BY <1>1, <1>3
    <3>1. held[v] \in DOMAIN requests /\ held[v] \in Requests
      BY <2>1 DEF QueueInv, PlaceInv
    <3>2. CASE v = w
      BY <1>2, <1>6, <3>2 DEF n
    <3>3. CASE v # w
      <4>1. held[v] # n /\ v \in Workers
        BY <1>4, <3>3 DEF InHand
      <4> QED  BY <1>2, <1>6, <3>1, <3>3, <4>1 DEF QueueInv, PlaceInv
    <3> QED  BY <3>2, <3>3
  <2>4. \A r \in Requests : job'[r] # "waiting" => r \in DOMAIN requests
    BY <1>4, <1>6 DEF QueueInv, PlaceInv
  <2>5. \A r \in Requests : job'[r] = "pool" => \E v \in InHand : held[v] = r
    BY <1>3, <1>6 DEF QueueInv, PlaceInv, n
  <2> QED  BY <1>1, <1>3, <1>7, <2>2, <2>3, <2>4, <2>5 DEF QueueInv, PlaceInv
<1>10. NoneLost'
  <2>1. \A r \in DOMAIN requests : r = n \/ job'[r] = job[r]
    BY <1>6, LenProperties, QueueAssumption DEF QueueInv, QueueTypes, Requests
  <2>2. w \in InHand /\ held[w] = n
    BY <1>3 DEF n
  <2> QED  BY <1>1, <1>3, <1>7, <2>1, <2>2 DEF QueueInv, NoneLost
<1>11. CountInv'
  <2>1. Cardinality(Runners') = Cardinality(Runners) + 1
    BY <1>2, <1>3, CountsAreFinite, FS_AddElement
  <2> QED  BY <1>1, <1>3, <2>1 DEF QueueInv, CountInv
<1>12. ClientInv'
  BY <1>1 DEF QueueInv, ClientInv
<1>13. GpuSerialized'
  <2>1. HandedOver' = HandedOver \cup {n}
    BY <1>5, <1>6 DEF HandedOver
  <2>2. IsFiniteSet(HandedOver') /\ Cardinality(HandedOver') <= Cardinality(HandedOver) + 1
    BY <2>1, CountsAreFinite, FS_AddElement
  <2>3. Cardinality(HandedOver) <= permits /\ permits \in Nat /\ permits < maxConcurrent
    BY <1>1, PermitForEach DEF Dispatch, Slots
  <2>4. Cardinality(HandedOver') \in Nat /\ maxConcurrent \in Nat /\ maxConcurrent' = maxConcurrent
    BY <1>1, <2>2, FS_CardinalityType, QueueAssumption DEF QueueInv, QueueTypes
  <2> QED  BY <2>2, <2>3, <2>4, CountsAreFinite DEF GpuSerialized
<1>14. ReadsInv'
  BY <1>1, ReadsStand DEF QueueInv
<1> QED  BY <1>8, <1>9, <1>10, <1>11, <1>12, <1>13, <1>14 DEF QueueInv

(***************************************************************************)
(* What a worker lets go of when its job is over or it is cancelled: its   *)
(* place among those in hand, and a job the pool had not taken up.         *)
(***************************************************************************)
LetsGo(w, st) ==
    /\ worker' = [worker EXCEPT ![w] = st] /\ held' = [held EXCEPT ![w] = 0]
    /\ UNCHANGED <<requests, queue>>
    /\ job' \in [Requests -> {"waiting", "pool", "running", "raised", "saved"}]
    /\ \A r \in Requests :
          job'[r] = job[r] \/ (job'[r] = "waiting" /\ w \in InHand /\ r = held[w])
    /\ w \in InHand => job'[held[w]] # "pool"

\* A worker that lets go of its request leaves the hands and the permits to the others.
LEMMA LettingGo ==
    ASSUME QueueInv, NEW w \in Workers, NEW st \in {"polling", "ended"}, LetsGo(w, st)
    PROVE  /\ worker' \in [Workers -> {"none", "polling", "holding", "running", "ended"}]
           /\ held' \in [Workers -> Requests \cup {0}]
           /\ InHand' = InHand \ {w} /\ Runners' = Runners \ {w} /\ Waiting' = Waiting
           /\ \A v \in InHand' : v # w /\ held'[v] = held[v] /\ worker'[v] = worker[v]
           /\ PlaceInv'
<1>1. /\ worker' \in [Workers -> {"none", "polling", "holding", "running", "ended"}]
      /\ InHand' = InHand \ {w} /\ Runners' = Runners \ {w}
      /\ \A v \in Workers : v # w => worker'[v] = worker[v]
  BY WorkerMoves DEF QueueInv, LetsGo
<1>2. held' \in [Workers -> Requests \cup {0}] /\ \A v \in Workers : v # w => held'[v] = held[v]
  BY DEF QueueInv, QueueTypes, LetsGo
<1>3. Waiting' = Waiting
  BY DEF LetsGo, Waiting
<1>4. \A v \in InHand' :
         v \in Workers /\ v # w /\ v \in InHand /\ held'[v] = held[v] /\ worker'[v] = worker[v]
  BY <1>1, <1>2 DEF InHand
<1>5. \A r \in DOMAIN requests : r \in Requests
  BY LenProperties, QueueAssumption DEF QueueInv, QueueTypes, Requests
<1>6. PlaceInv'
  <2>1. \A r \in Waiting' : job'[r] = "waiting"
    BY <1>3, <1>5 DEF QueueInv, PlaceInv, LetsGo
  <2>2. ASSUME NEW v \in InHand'
        PROVE  worker'[v] = "holding" <=> job'[held'[v]] = "waiting"
    <3>1. held[v] \in Requests /\ (w \in InHand => held[v] # held[w])
      BY <1>4, <1>5 DEF QueueInv, PlaceInv
    <3>2. job'[held[v]] = job[held[v]]
      BY <3>1 DEF LetsGo
    <3> QED  BY <1>4, <3>2 DEF QueueInv, PlaceInv
  <2>3. \A r \in Requests : job'[r] # "waiting" => r \in DOMAIN requests
    BY DEF QueueInv, PlaceInv, LetsGo
  <2>4. ASSUME NEW r \in Requests, job'[r] = "pool"
        PROVE  \E v \in InHand' : held'[v] = r
    <3>1. PICK v \in InHand : held[v] = r
      BY <2>4 DEF QueueInv, PlaceInv, LetsGo
    <3>2. v # w
      BY <2>4, <3>1 DEF LetsGo
    <3> QED  BY <1>1, <1>4, <3>1, <3>2
  <2>5. \A v \in InHand' : held'[v] \in DOMAIN requests /\ held'[v] \notin Waiting'
    BY <1>3, <1>4 DEF QueueInv, PlaceInv
  <2>6. \A u, v \in InHand' : held'[u] = held'[v] => u = v
    BY <1>4 DEF QueueInv, PlaceInv
  <2>7. UNCHANGED <<requests, queue>>
    BY DEF LetsGo
  <2> QED  BY <1>3, <2>1, <2>2, <2>3, <2>4, <2>5, <2>6, <2>7 DEF QueueInv, PlaceInv
<1> QED  BY <1>1, <1>2, <1>3, <1>4, <1>6

(***************************************************************************)
(* task_done and the permit come back once for each that was taken.        *)
(***************************************************************************)
LEMMA CountsLetGo ==
    ASSUME QueueInv, NEW w \in Workers, queue' = queue,
           InHand' = InHand \ {w}, Runners' = Runners \ {w},
           unfinished' = IF w \in InHand THEN unfinished - 1 ELSE unfinished,
           permits' = IF w \in Runners THEN permits - 1 ELSE permits
    PROVE  CountInv'
<1>1. Cardinality(InHand') = IF w \in InHand THEN Cardinality(InHand) - 1 ELSE Cardinality(InHand)
  BY CountsAreFinite, FS_RemoveElement
<1>2. Cardinality(Runners') =
         IF w \in Runners THEN Cardinality(Runners) - 1 ELSE Cardinality(Runners)
  BY CountsAreFinite, FS_RemoveElement
<1>3. Len(queue) \in Nat
  BY LenProperties DEF QueueInv, QueueTypes
<1> QED  BY <1>1, <1>2, <1>3, CountsAreFinite DEF QueueInv, CountInv

\* A job that ended gives back its permit and its task_done, one of each.
LEMMA CompleteStep ==
    ASSUME QueueInv, NEW w \in Workers, Complete(w)
    PROVE  QueueInv'
<1>1. /\ UNCHANGED <<maxConcurrent, client, stopSet, requests, queue, job, provider>>
      /\ worker[w] = "running" /\ ~stopSet /\ job[held[w]] \in {"raised", "saved"}
      /\ worker' = [worker EXCEPT ![w] = "polling"] /\ held' = [held EXCEPT ![w] = 0]
      /\ permits' = permits - 1 /\ unfinished' = unfinished - 1
  BY DEF Complete, control, JobOver, TaskDone
<1>2. w \in InHand /\ w \in Runners
  BY <1>1 DEF InHand, Runners
<1>3. LetsGo(w, "polling")
  BY <1>1 DEF LetsGo, QueueInv, QueueTypes
<1>4. /\ worker' \in [Workers -> {"none", "polling", "holding", "running", "ended"}]
      /\ held' \in [Workers -> Requests \cup {0}]
      /\ InHand' = InHand \ {w} /\ Runners' = Runners \ {w} /\ Waiting' = Waiting
      /\ \A v \in InHand' : v # w /\ held'[v] = held[v] /\ worker'[v] = worker[v]
      /\ PlaceInv'
  BY <1>3, LettingGo
<1>5. QueueTypes'
  BY <1>1, <1>4 DEF QueueInv, QueueTypes
<1>6. NoneLost'
  <2> SUFFICES ASSUME NEW r \in DOMAIN requests
               PROVE  \/ job[r] \in {"raised", "saved"}
                      \/ r \in Waiting
                      \/ \E v \in InHand' : held'[v] = r
    BY <1>1, <1>4 DEF NoneLost
  <2>1. \/ job[r] \in {"raised", "saved"} \/ r \in Waiting
        \/ \E v \in InHand : held[v] = r
    BY <1>1 DEF QueueInv, NoneLost
  <2> QED  BY <1>1, <1>4, <2>1
<1>7. CountInv'
  BY <1>1, <1>2, <1>4, CountsLetGo
<1>8. ClientInv'
  <2>1. client # "joined"
    <3>1. Cardinality(InHand) # 0 /\ Cardinality(InHand) \in Nat
      BY <1>2, CountsAreFinite, FS_EmptySet
    <3>2. Len(queue) \in Nat
      BY LenProperties DEF QueueInv, QueueTypes
    <3> QED  BY <3>1, <3>2 DEF QueueInv, ClientInv, CountInv
  <2>2. client # "new"
    BY <1>1 DEF QueueInv, ClientInv
  <2> QED  BY <1>1, <2>1, <2>2 DEF QueueInv, ClientInv
<1>9. GpuSerialized' /\ ReadsInv'
  BY <1>1, NothingHandedOver, ReadsStand DEF QueueInv
<1> QED  BY <1>4, <1>5, <1>6, <1>7, <1>8, <1>9 DEF QueueInv

\* A cancelled worker gives back what it holds; the thread of its job goes on.
LEMMA CancelledStep ==
    ASSUME QueueInv, NEW w \in Workers, Cancelled(w)
    PROVE  QueueInv'
<1>1. /\ UNCHANGED <<maxConcurrent, client, stopSet, requests, queue, provider>>
      /\ stopSet /\ worker[w] \in {"polling", "holding", "running"}
      /\ worker' = [worker EXCEPT ![w] = "ended"] /\ held' = [held EXCEPT ![w] = 0]
      /\ permits' = IF worker[w] = "running" THEN permits - 1 ELSE permits
      /\ unfinished' = IF worker[w] = "polling" THEN unfinished ELSE unfinished - 1
  BY DEF Cancelled, control, DoneOnCancel
<1>2. (w \in InHand <=> worker[w] # "polling") /\ (w \in Runners <=> worker[w] = "running")
  BY <1>1 DEF InHand, Runners
<1>3. LetsGo(w, "ended")
  <2>1. CASE worker[w] = "running" /\ job[held[w]] = "pool"
    <3>1. job' = [job EXCEPT ![held[w]] = "waiting"]
      BY <2>1 DEF Cancelled
    <3>2. held[w] \in Requests
      BY <1>2, <2>1, LenProperties, QueueAssumption
      DEF QueueInv, PlaceInv, QueueTypes, Requests
    <3> QED  BY <1>1, <1>2, <2>1, <3>1, <3>2 DEF LetsGo, QueueInv, QueueTypes
  <2>2. CASE ~(worker[w] = "running" /\ job[held[w]] = "pool")
    <3>1. job' = job
      BY <2>2 DEF Cancelled
    <3>2. w \in InHand => job[held[w]] # "pool"
      BY <1>1, <1>2, <2>2 DEF QueueInv, PlaceInv
    <3> QED  BY <1>1, <3>1, <3>2 DEF LetsGo, QueueInv, QueueTypes
  <2> QED  BY <2>1, <2>2
<1>4. /\ worker' \in [Workers -> {"none", "polling", "holding", "running", "ended"}]
      /\ held' \in [Workers -> Requests \cup {0}]
      /\ InHand' = InHand \ {w} /\ Runners' = Runners \ {w} /\ Waiting' = Waiting
      /\ PlaceInv'
  BY <1>3, LettingGo
<1>5. /\ job' \in [Requests -> {"waiting", "pool", "running", "raised", "saved"}]
      /\ \A r \in Requests : job'[r] = job[r] \/ job'[r] = "waiting"
  BY <1>3 DEF LetsGo
<1>6. QueueTypes'
  BY <1>1, <1>4, <1>5 DEF QueueInv, QueueTypes
<1>7. NoneLost'
  BY <1>1 DEF NoneLost
<1>8. CountInv'
  BY <1>1, <1>2, <1>4, CountsLetGo
<1>9. client = "stopping"
  BY <1>1 DEF QueueInv, ClientInv
<1>10. ClientInv'
  BY <1>1, <1>9 DEF ClientInv
<1>11. GpuSerialized'
  BY <1>1, <1>5, NothingHandedOver DEF QueueInv
<1>12. ReadsInv'
  BY <1>1, ReadsStand DEF QueueInv
<1> QED  BY <1>4, <1>6, <1>7, <1>8, <1>10, <1>11, <1>12 DEF QueueInv

-----------------------------------------------------------------------------
(* The jobs *)

(***************************************************************************)
(* A job that is taken up or raises changes nobody's place.                *)
(***************************************************************************)
LEMMA JobMoves ==
    ASSUME QueueInv, NEW r \in Requests, NEW st \in {"running", "raised"},
           job[r] \in {"pool", "running"}, job' = [job EXCEPT ![r] = st],
           UNCHANGED <<control, requests, tasks>>
    PROVE  QueueTypes' /\ PlaceInv' /\ NoneLost' /\ CountInv' /\ ClientInv'
<1>1. UNCHANGED <<maxConcurrent, client, stopSet, requests, queue, unfinished, worker, held,
                  permits>>
  BY DEF control, tasks
<1>2. /\ job' \in [Requests -> {"waiting", "pool", "running", "raised", "saved"}]
      /\ job'[r] = st /\ \A s \in Requests : s # r => job'[s] = job[s]
  BY DEF QueueInv, QueueTypes
<1>3. InHand' = InHand /\ Runners' = Runners /\ Waiting' = Waiting
  BY <1>1 DEF InHand, Runners, Waiting
<1>4. r \in DOMAIN requests /\ r \notin Waiting
  BY DEF QueueInv, PlaceInv
<1>5. \A s \in DOMAIN requests : s \in Requests
  BY LenProperties, QueueAssumption DEF QueueInv, QueueTypes, Requests
<1>6. QueueTypes'
  BY <1>1, <1>2 DEF QueueInv, QueueTypes
<1>7. PlaceInv'
  <2>1. \A s \in Waiting : job'[s] = "waiting"
    BY <1>2, <1>4, <1>5 DEF QueueInv, PlaceInv
  <2>2. \A v \in InHand : worker[v] = "holding" <=> job'[held[v]] = "waiting"
    BY <1>2, <1>5 DEF QueueInv, PlaceInv
  <2>3. \A s \in Requests : job'[s] # "waiting" => s \in DOMAIN requests
    BY <1>2, <1>4 DEF QueueInv, PlaceInv
  <2>4. \A s \in Requests : job'[s] = "pool" => \E v \in InHand : held[v] = s
    BY <1>2 DEF QueueInv, PlaceInv
  <2> QED  BY <1>1, <1>3, <2>1, <2>2, <2>3, <2>4 DEF QueueInv, PlaceInv
<1>8. NoneLost'
  <2>1. ~stopSet => \E w \in InHand : held[w] = r
    BY <1>4 DEF QueueInv, NoneLost
  <2> QED  BY <1>1, <1>2, <1>3, <1>5, <2>1 DEF QueueInv, NoneLost
<1>9. CountInv'
  BY <1>1, <1>3 DEF QueueInv, CountInv
<1>10. ClientInv'
  <2>1. client # "stopped"
    BY DEF QueueInv, ClientInv, PoolDrained
  <2> QED  BY <1>1, <2>1 DEF QueueInv, ClientInv
<1> QED  BY <1>6, <1>7, <1>8, <1>9, <1>10

\* A job that begins was in the pool before.
LEMMA BeginStep ==
    ASSUME QueueInv, NEW r \in Requests, BeginJob(r)
    PROVE  QueueInv'
<1>1. /\ job[r] = "pool" /\ job' = [job EXCEPT ![r] = "running"]
      /\ UNCHANGED <<control, requests, tasks, provider>>
  BY DEF BeginJob
<1>2. QueueTypes' /\ PlaceInv' /\ NoneLost' /\ CountInv' /\ ClientInv'
  BY <1>1, JobMoves
<1>3. GpuSerialized'
  BY <1>1, NothingHandedOver DEF QueueInv, QueueTypes, control
<1>4. ReadsInv'
  BY <1>1, ReadsStand DEF QueueInv
<1> QED  BY <1>2, <1>3, <1>4 DEF QueueInv

(***************************************************************************)
(* Reading moves nothing but the caches.                                   *)
(***************************************************************************)
LEMMA ReadingMoves ==
    ASSUME QueueInv, UNCHANGED <<control, requests, tasks, job>>
    PROVE  QueueTypes' /\ PlaceInv' /\ NoneLost' /\ CountInv' /\ ClientInv' /\ GpuSerialized'
<1>1. UNCHANGED <<maxConcurrent, client, stopSet, requests, queue, unfinished, worker, held,
                  permits, job>>
  BY DEF control, tasks
<1>2. PlaceInv' /\ InHand' = InHand /\ Runners' = Runners /\ Waiting' = Waiting
  BY <1>1, PlacesStand DEF QueueInv
<1>3. QueueTypes'
  BY <1>1 DEF QueueInv, QueueTypes
<1>4. NoneLost' /\ CountInv'
  BY <1>1, <1>2 DEF QueueInv, NoneLost, CountInv
<1>5. ClientInv'
  BY <1>1 DEF QueueInv, ClientInv, PoolDrained
<1> QED  BY <1>1, <1>2, <1>3, <1>4, <1>5, NothingHandedOver DEF QueueInv

(***************************************************************************)
(* A job's list of what it has read grows by one.                          *)
(***************************************************************************)
LEMMA ReadGrows ==
    ASSUME QueueInv, NEW r \in DOMAIN requests, NEW build \in Nat \ {0},
           reads' = [reads EXCEPT ![r] = Append(@, build)]
    PROVE  /\ reads' \in [Requests -> Seq(Nat \ {0})]
           /\ \A s \in Requests : s # r => reads'[s] = reads[s]
           /\ \A i \in DOMAIN reads'[r] :
                 \/ reads'[r][i] = build
                 \/ i \in DOMAIN reads[r] /\ reads'[r][i] = reads[r][i]
<1>1. r \in Requests
  BY LenProperties, QueueAssumption DEF QueueInv, QueueTypes, Requests
<1>2. PICK old : old = reads[r]
  OBVIOUS
<1>3. PICK new : new = Append(old, build)
  OBVIOUS
<1>4. old \in Seq(Nat \ {0})
  BY <1>1, <1>2 DEF QueueInv, ReadsInv
<1>5. /\ new \in Seq(Nat \ {0}) /\ Len(new) = Len(old) + 1
      /\ \A i \in 1 .. Len(old) : new[i] = old[i]
      /\ new[Len(old) + 1] = build
  BY <1>3, <1>4, AppendProperties
<1>6. DOMAIN new = 1 .. Len(new) /\ DOMAIN old = 1 .. Len(old) /\ Len(old) \in Nat
  BY <1>4, <1>5, LenProperties
<1>7. \A i \in DOMAIN new : new[i] = build \/ (i \in DOMAIN old /\ new[i] = old[i])
  BY <1>5, <1>6
<1>8. reads' = [reads EXCEPT ![r] = new]
  BY <1>2, <1>3
<1>9. reads' \in [Requests -> Seq(Nat \ {0})] /\ reads'[r] = new
  BY <1>1, <1>5, <1>8 DEF QueueInv, ReadsInv
<1>10. \A s \in Requests : s # r => reads'[s] = reads[s]
  BY <1>8 DEF QueueInv, ReadsInv
<1> QED  BY <1>2, <1>7, <1>9, <1>10

(***************************************************************************)
(* A job that runs was submitted, and its ticker has a cache entry or not. *)
(***************************************************************************)
LEMMA RunningIsSubmitted ==
    ASSUME QueueInv, NEW r \in Requests, job[r] = "running"
    PROVE  /\ r \in DOMAIN requests /\ requests[r] \in Tickers
           /\ cache[requests[r]] \in Nat /\ DOMAIN requests \subseteq Requests
<1>1. r \in DOMAIN requests
  BY DEF QueueInv, PlaceInv
<1>2. \A s \in DOMAIN requests : requests[s] \in Tickers /\ s \in Requests
  BY LenProperties, ElementOfSeq, QueueAssumption DEF QueueInv, QueueTypes, Requests
<1> QED  BY <1>1, <1>2 DEF QueueInv, ReadsInv

(***************************************************************************)
(* A ticker that is found in the cache: what was read of it before is the  *)
(* build that is there (_get_ticker).                                      *)
(***************************************************************************)
LEMMA ReadCachedStep ==
    ASSUME QueueInv, NEW r \in Requests, ReadCached(r)
    PROVE  QueueInv'
<1>1. /\ job[r] = "running" /\ cache[requests[r]] # 0
      /\ reads' = [reads EXCEPT ![r] = Append(@, cache[requests[r]])]
      /\ UNCHANGED <<control, requests, tasks, job, missed, cache, builds>>
  BY DEF ReadCached, ReadsLeft
<1>2. /\ r \in DOMAIN requests /\ cache[requests[r]] \in Nat \ {0}
      /\ DOMAIN requests \subseteq Requests
  BY <1>1, RunningIsSubmitted
<1>3. PICK build \in Nat \ {0} : build = cache[requests[r]]
  BY <1>2
<1>4. /\ reads' \in [Requests -> Seq(Nat \ {0})]
      /\ \A s \in Requests : s # r => reads'[s] = reads[s]
      /\ \A i \in DOMAIN reads'[r] :
            \/ reads'[r][i] = build
            \/ i \in DOMAIN reads[r] /\ reads'[r][i] = reads[r][i]
  BY <1>1, <1>2, <1>3, ReadGrows, ZenonT(30)
<1>5. ReadsInv'
  <2>1. \A s \in Requests \ DOMAIN requests : reads'[s] = <<>> /\ ~missed[s]
    BY <1>2, <1>4 DEF QueueInv, ReadsInv
  <2>2. ASSUME NEW s \in DOMAIN requests, Alone(s), NEW i \in DOMAIN reads'[s]
        PROVE  reads'[s][i] = cache[requests[s]]
    <3>1. \A k \in DOMAIN reads[s] : reads[s][k] = cache[requests[s]]
      BY <2>2 DEF QueueInv, ReadsInv
    <3>2. CASE s = r
      BY <1>3, <1>4, <2>2, <3>1, <3>2
    <3>3. CASE s # r
      <4>1. reads'[s] = reads[s]
        BY <1>2, <1>4, <3>3
      <4> QED  BY <2>2, <3>1, <4>1
    <3> QED  BY <3>2, <3>3
  <2>3. \A s \in DOMAIN requests : Alone(s)' => Alone(s)
    BY <1>1 DEF Alone
  <2> QED  BY <1>1, <1>4, <2>1, <2>2, <2>3 DEF QueueInv, ReadsInv
<1> QED  BY <1>1, <1>5, ReadingMoves DEF QueueInv

\* A job that finds no arrays starts to build them.
LEMMA MissCacheStep ==
    ASSUME QueueInv, NEW r \in Requests, MissCache(r)
    PROVE  QueueInv'
<1>1. /\ job[r] = "running" /\ cache[requests[r]] = 0
      /\ missed' = [missed EXCEPT ![r] = TRUE]
      /\ UNCHANGED <<control, requests, tasks, job, reads, cache, builds>>
  BY DEF MissCache, ReadsLeft
<1>2. r \in DOMAIN requests /\ DOMAIN requests \subseteq Requests
  BY <1>1, RunningIsSubmitted
<1>3. /\ missed' \in [Requests -> BOOLEAN]
      /\ \A s \in Requests : s # r => missed'[s] = missed[s]
  BY <1>1 DEF QueueInv, ReadsInv
<1>4. ReadsInv'
  BY <1>1, <1>2, <1>3 DEF QueueInv, ReadsInv, Alone
<1> QED  BY <1>1, <1>4, ReadingMoves DEF QueueInv

(***************************************************************************)
(* A ticker of one request only was not there when its job began to build  *)
(* it, so nothing of it was read before.                                   *)
(***************************************************************************)
LEMMA StoreBuiltStep ==
    ASSUME QueueInv, NEW r \in Requests, StoreBuilt(r)
    PROVE  QueueInv'
<1> DEFINE t == requests[r]
           n == builds + 1
<1>1. /\ job[r] = "running" /\ missed[r] /\ builds' = n
      /\ cache' = [cache EXCEPT ![t] = n]
      /\ reads' = [reads EXCEPT ![r] = Append(@, n)]
      /\ missed' = [missed EXCEPT ![r] = FALSE]
      /\ UNCHANGED <<control, requests, tasks, job>>
  BY DEF StoreBuilt, ReadsLeft, Stored
<1>2. r \in DOMAIN requests /\ t \in Tickers /\ DOMAIN requests \subseteq Requests
  BY <1>1, RunningIsSubmitted
<1>3. n \in Nat \ {0} /\ builds' \in Nat
  BY <1>1 DEF QueueInv, ReadsInv
<1>4. /\ cache' \in [Tickers -> Nat] /\ cache'[t] = n
      /\ \A u \in Tickers : u # t => cache'[u] = cache[u]
  BY <1>1, <1>2, <1>3 DEF QueueInv, ReadsInv
<1>5. /\ missed' \in [Requests -> BOOLEAN] /\ ~missed'[r]
      /\ \A s \in Requests : s # r => missed'[s] = missed[s]
  BY <1>1 DEF QueueInv, ReadsInv
<1>6. PICK build \in Nat \ {0} : build = n
  BY <1>3
<1>7. /\ reads' \in [Requests -> Seq(Nat \ {0})]
      /\ \A s \in Requests : s # r => reads'[s] = reads[s]
      /\ \A i \in DOMAIN reads'[r] :
            \/ reads'[r][i] = build
            \/ i \in DOMAIN reads[r] /\ reads'[r][i] = reads[r][i]
  <2>1. reads' = [reads EXCEPT ![r] = Append(@, build)]
    BY <1>1, <1>6
  <2> QED  BY <1>2, <2>1, ReadGrows
<1>8. requests' = requests
  BY <1>1
<1> HIDE DEF n
<1>9. ReadsInv'
  <2>1. \A s \in Requests \ DOMAIN requests : reads'[s] = <<>> /\ ~missed'[s]
    BY <1>2, <1>5, <1>7 DEF QueueInv, ReadsInv
  <2>2. ASSUME NEW s \in DOMAIN requests, Alone(s), NEW i \in DOMAIN reads'[s]
        PROVE  reads'[s][i] = cache'[requests[s]]
    <3>1. CASE s = r
      <4>1. \A k \in DOMAIN reads[r] : reads[r][k] = 0
        BY <1>1, <2>2, <3>1 DEF QueueInv, ReadsInv
      <4>2. \A k \in DOMAIN reads[r] : reads[r][k] # 0
        <5>1. reads[r] \in Seq(Nat \ {0})
          BY DEF QueueInv, ReadsInv
        <5> QED  BY <5>1, LenProperties, ElementOfSeq
      <4> QED  BY <1>4, <1>6, <1>7, <2>2, <3>1, <4>1, <4>2
    <3>2. CASE s # r
      <4>1. requests[s] # t /\ requests[s] \in Tickers
        <5>1. requests[s] # t
          BY <1>2, <2>2, <3>2 DEF Alone
        <5>2. requests[s] \in Tickers
          BY LenProperties, ElementOfSeq DEF QueueInv, QueueTypes
        <5> QED  BY <5>1, <5>2
      <4>2. cache'[requests[s]] = cache[requests[s]] /\ reads'[s] = reads[s]
        BY <1>2, <1>4, <1>7, <3>2, <4>1
      <4> QED  BY <2>2, <4>2 DEF QueueInv, ReadsInv
    <3> QED  BY <3>1, <3>2
  <2>3. ASSUME NEW s \in DOMAIN requests, Alone(s), missed'[s]
        PROVE  cache'[requests[s]] = 0
    <3>1. s # r /\ missed[s]
      BY <1>2, <1>5, <2>3
    <3>2. requests[s] # t /\ requests[s] \in Tickers
      <4>1. requests[s] # t
        BY <1>2, <2>3, <3>1 DEF Alone
      <4>2. requests[s] \in Tickers
        BY LenProperties, ElementOfSeq DEF QueueInv, QueueTypes
      <4> QED  BY <4>1, <4>2
    <3> QED  BY <1>4, <2>3, <3>1, <3>2 DEF QueueInv, ReadsInv
  <2>4. \A s \in DOMAIN requests : Alone(s)' => Alone(s)
    BY <1>8 DEF Alone
  <2> QED  BY <1>3, <1>4, <1>5, <1>7, <1>8, <2>1, <2>2, <2>3, <2>4 DEF ReadsInv
<1> QED  BY <1>1, <1>9, ReadingMoves DEF QueueInv

\* A job that raises has ended.
LEMMA RaisesStep ==
    ASSUME QueueInv, NEW r \in Requests, JobRaises(r)
    PROVE  QueueInv'
<1>1. /\ job[r] = "running" /\ job' = [job EXCEPT ![r] = "raised"]
      /\ missed' = [missed EXCEPT ![r] = FALSE]
      /\ UNCHANGED <<control, requests, tasks, reads, cache, builds>>
  BY DEF JobRaises
<1>2. QueueTypes' /\ PlaceInv' /\ NoneLost' /\ CountInv' /\ ClientInv'
  BY <1>1, JobMoves
<1>3. GpuSerialized'
  BY <1>1, NothingHandedOver DEF QueueInv, QueueTypes, control
<1>4. /\ missed' \in [Requests -> BOOLEAN]
      /\ \A s \in Requests : missed'[s] => missed[s]
  BY <1>1 DEF QueueInv, ReadsInv
<1>5. r \in DOMAIN requests /\ DOMAIN requests \subseteq Requests
  BY <1>1, RunningIsSubmitted
<1>6. ReadsInv'
  BY <1>1, <1>4, <1>5 DEF QueueInv, ReadsInv, Alone
<1> QED  BY <1>2, <1>3, <1>6 DEF QueueInv

-----------------------------------------------------------------------------
\* Every step keeps the queue's invariant.
LEMMA QueueStays ==
    ASSUME QueueInv, [QueueNext]_queueVars
    PROVE  QueueInv'
<1>1. CASE UNCHANGED queueVars
  <2>1. UNCHANGED <<control, requests, tasks, job, provider>>
    BY <1>1 DEF queueVars, control, tasks, provider
  <2> QED  BY <2>1, ReadingMoves, ReadsStand DEF QueueInv
<1>2. CASE \E w \in Workers : WorkerStep(w)
  BY <1>2, TakeStep, DispatchStep, CompleteStep, CancelledStep DEF WorkerStep
<1>3. CASE \E r \in Requests : JobStep(r)
  BY <1>3, BeginStep, ReadCachedStep, MissCacheStep, StoreBuiltStep, RaisesStep DEF JobStep
<1> QED
  BY <1>1, <1>2, <1>3, SubmitStep, StartStep, ClientStep DEF QueueNext

(***************************************************************************)
(* The queue, the workers, the pool and the provider keep their invariant. *)
(***************************************************************************)
THEOREM QueueInvariant == QueueSpec => []QueueInv
BY QueueStarts, QueueStays, PTL DEF QueueSpec

(***************************************************************************)
(* Types, and the queue's count of unfinished tasks: it is the requests    *)
(* waiting and in hand, so task_done never finds it at zero (the finally   *)
(* clause of _worker_loop, also when a worker is cancelled).               *)
(***************************************************************************)
THEOREM QueueTypeCorrect == QueueSpec => []QueueTypeOK
<1>1. ASSUME QueueInv  PROVE queue \in Seq(Requests) /\ requests \in Seq(Tickers)
  <2>1. requests \in Seq(Tickers) /\ queue \in Seq(Nat)
    BY <1>1 DEF QueueInv, QueueTypes
  <2>2. \A i \in 1 .. Len(queue) : queue[i] \in DOMAIN requests
    BY <1>1, <2>1, LenProperties DEF QueueInv, PlaceInv, Waiting
  <2>3. DOMAIN requests \subseteq Requests
    BY <1>1, <2>1, LenProperties, QueueAssumption DEF QueueInv, QueueTypes, Requests
  <2>4. queue \in [1 .. Len(queue) -> Nat] /\ Len(queue) \in Nat
    BY <2>1, LenProperties
  <2>5. queue \in [1 .. Len(queue) -> Requests]
    BY <2>2, <2>3, <2>4
  <2> QED  BY <2>1, <2>4, <2>5, SeqDef
<1>2. QueueInv => QueueTypeOK
  BY <1>1 DEF QueueInv, QueueTypes, CountInv, ReadsInv, QueueTypeOK
<1> QED  BY <1>2, QueueInvariant, PTL

(***************************************************************************)
(* Never more than max_concurrent jobs are in the pool, however many       *)
(* workers there are and also while cancelled ones leave theirs behind:    *)
(* until stop() each has a worker of its own that waits for it with a      *)
(* permit (PermitForEach), and afterwards none is handed over              *)
(* (_worker_loop, lines 677-685; stop, lines 708-715).                     *)
(***************************************************************************)
THEOREM NeverTooManyJobs == QueueSpec => []GpuSerialized
<1>1. QueueInv => GpuSerialized
  BY DEF QueueInv
<1> QED  BY <1>1, QueueInvariant, PTL

(***************************************************************************)
(* When join() has returned, every request submitted before it has run to  *)
(* its end, and no request was ever in the hands of two workers (join,     *)
(* lines 704-706; _worker_loop's finally).                                 *)
(***************************************************************************)
THEOREM JoinWaitsForAll == QueueSpec => []JoinedMeansFinished
<1>1. ASSUME QueueInv, client = "joined"
      PROVE  \A r \in DOMAIN requests : job[r] \in {"raised", "saved"}
  <2>1. ~stopSet /\ Len(queue) + Cardinality(InHand) = 0
    BY <1>1 DEF QueueInv, ClientInv, CountInv
  <2>2. Len(queue) \in Nat /\ DOMAIN queue = 1 .. Len(queue)
    BY <1>1, LenProperties DEF QueueInv, QueueTypes
  <2>3. Len(queue) = 0 /\ Cardinality(InHand) = 0
    BY <2>1, <2>2, CountsAreFinite
  <2>4. InHand = {}
    BY <2>3, CountsAreFinite, FS_EmptySet
  <2>5. Waiting = {}
    BY <2>2, <2>3 DEF Waiting
  <2> QED  BY <1>1, <2>1, <2>4, <2>5 DEF QueueInv, NoneLost
<1>2. QueueInv => JoinedMeansFinished
  BY <1>1 DEF QueueInv, PlaceInv, JoinedMeansFinished
<1> QED  BY <1>2, QueueInvariant, PTL

(***************************************************************************)
(* Once stop() has returned no job runs and every permit is back, whenever *)
(* its cancellations reached the workers (stop, lines 708-715).            *)
(***************************************************************************)
THEOREM StopLeavesNothingRunning == QueueSpec => []StoppedIsQuiet
<1>1. ASSUME QueueInv, client = "stopped"
      PROVE  RunningJobs = {} /\ permits = 0
  <2>1. PoolDrained /\ \A w \in Workers : worker[w] \in {"none", "ended"}
    BY <1>1 DEF QueueInv, ClientInv
  <2>2. RunningJobs = {} /\ Runners = {}
    BY <2>1 DEF PoolDrained, RunningJobs, Runners
  <2> QED  BY <1>1, <2>2, FS_EmptySet DEF QueueInv, CountInv
<1>2. QueueInv => StoppedIsQuiet
  BY <1>1 DEF StoppedIsQuiet
<1> QED  BY <1>2, QueueInvariant, PTL

(***************************************************************************)
(* The arrays a job reads one by one of the unlocked cache come from one   *)
(* build when no other request names its ticker (_get_ticker).             *)
(***************************************************************************)
THEOREM ReadsOneBuild == QueueSpec => []ArraysFromOneBuild
<1>1. QueueInv => ArraysFromOneBuild
  BY DEF QueueInv, ReadsInv, ArraysFromOneBuild, Alone
<1> QED  BY <1>1, QueueInvariant, PTL
===============================================================================
