-------------------------- MODULE EncoderArtifacts ---------------------------
(***************************************************************************)
(* The xLSTM encoder's files and who writes and reads them: train_xlstm    *)
(* (models/xlstm/train.py), Stages 1 and 2 of the orchestrator             *)
(* (pipeline/train_orchestrator.py), build_training_data and the           *)
(* embeddings cache (models/xlstm/inference.py).                           *)
(*                                                                         *)
(* Weights are named by the training run and the epoch they stand after;   *)
(* what an epoch's validation loss is, is chosen from Losses, NaN          *)
(* included.  Files are rewritten in place: torn from the first byte to    *)
(* the last.                                                               *)
(***************************************************************************)
EXTENDS Integers, Sequences

CONSTANTS Jobs,            \* processes: cron, a terminal, the dashboard
          MaxScripts,      \* scripts started in one behaviour
          MaxRuns,         \* trainings in one behaviour
          MaxEpochs,       \* xlstm.max_epochs
          Patience,        \* xlstm.plateau_patience
          MinDelta,        \* xlstm.plateau_min_delta
          Losses,          \* validation losses
          RowCounts,       \* rows the features may have
          SequenceLength,  \* rows of a window
          NaN, Torn, None

Root == "artifacts"
Files == {Root, "xlstm"} \X {"best", "frozen", "frozen_best", "embeddings"}

ASSUME EncoderAssumption ==
    /\ {MaxScripts, MaxRuns, MaxEpochs, Patience} \subseteq Nat \ {0}
    /\ SequenceLength \in Nat \ {0, 1} /\ RowCounts \subseteq Nat
    /\ MinDelta \in Nat /\ Losses \ {NaN} \subseteq Nat
    /\ NaN \notin Nat /\ None \notin Nat /\ None \notin Losses
    /\ None \notin Files /\ None \notin Nat \X Nat
    /\ Torn \notin [weights : Nat \X Nat, locked : BOOLEAN]

VARIABLES sameRoot,   \* artifacts.root_dir and xlstm.checkpoint_dir agree
          disk,       \* <<directory, file>> -> content
          script,     \* Jobs -> the script a process runs, or None
          losses,     \* validation losses of every run so far
          disturbed,  \* runs that shared the directory with another one
          trained,    \* a training has come to its end
          started     \* scripts started so far

vars == <<sameRoot, disk, script, losses, disturbed, trained, started>>

CheckpointDir == IF sameRoot THEN Root ELSE "xlstm"

Trainers == {"train_xlstm", "orchestrator"}
Readers == {"training_data", "embeddings"}

Init ==
    /\ sameRoot \in BOOLEAN /\ disk = <<>>
    /\ script = [j \in Jobs |-> None]
    /\ losses = <<>> /\ disturbed = {} /\ trained = FALSE /\ started = 0

Whole(file) == file \in DOMAIN disk /\ disk[file] # Torn
Rewritten(files, file, content) ==
    [f \in DOMAIN files \cup {file} |-> IF f = file THEN content ELSE files[f]]
Written(file, content) == Rewritten(disk, file, content)
Training(j) == script[j] # None /\ script[j].run # None

\* A script that raises, or whose process is killed, leaves the files as
\* they are.
End(j) == script' = [script EXCEPT ![j] = None]

-----------------------------------------------------------------------------
(* Training: the epochs of train_xlstm and of Stage 1 *)

BestFile(kind) == <<Root, IF kind = "orchestrator" THEN "frozen_best" ELSE "best">>
FrozenFile == <<Root, "frozen">>

Script(kind, rows, at, run) ==
    [kind |-> kind, rows |-> rows, at |-> at, seen |-> trained, run |-> run,
     epoch |-> 0, best |-> None, mark |-> None, wait |-> 0, plateau |-> FALSE,
     weights |-> None, file |-> None]

\* A window and its target, twice: one to train on, one to validate.
Trainable(rows) == rows >= SequenceLength + 2

\* With fewer rows the dataset raises before anything is written.
StartTraining(j, kind, rows) ==
    LET run == Len(losses) + 1
        others == {script[k].run : k \in {k \in Jobs : Training(k)}} IN
    /\ script[j] = None /\ started < MaxScripts /\ run <= MaxRuns
    /\ kind \in Trainers /\ Trainable(rows)
    /\ script' = [script EXCEPT ![j] = Script(kind, rows, "epoch", run)]
    /\ losses' = Append(losses, <<>>)
    /\ disturbed' = IF others = {} THEN disturbed ELSE disturbed \cup others \cup {run}
    /\ started' = started + 1
    /\ UNCHANGED <<sameRoot, disk, trained>>

Below(v, mark, delta) == v # NaN /\ (mark = None \/ v < mark - delta)

\* train_xlstm keeps every strict improvement, Stage 1 only those that also
\* reset the patience.
KeepsDelta(kind) == IF kind = "orchestrator" THEN MinDelta ELSE 0

Improves(s, v) == Below(v, s.best, KeepsDelta(s.kind))

AfterEpoch(s) ==
    IF s.wait >= Patience THEN [s EXCEPT !.at = "reload", !.plateau = TRUE]
    ELSE IF s.epoch = MaxEpochs THEN [s EXCEPT !.at = "reload"]
    ELSE [s EXCEPT !.at = "epoch"]

\* torch.save and np.save open the file, then write it.
Saving(s, weights, file) ==
    [s EXCEPT !.at = "saving", !.weights = weights, !.file = file]

Validated(s, v) ==
    [s EXCEPT !.epoch = @ + 1, !.weights = <<s.run, s.epoch + 1>>,
              !.best = IF Improves(s, v) THEN v ELSE @,
              !.mark = IF Below(v, @, MinDelta) THEN v ELSE @,
              !.wait = IF Below(v, s.mark, MinDelta) THEN 0 ELSE @ + 1]

Epoch(j, v) ==
    LET s == script[j]
        t == Validated(s, v) IN
    /\ s # None /\ s.at = "epoch"
    /\ losses' = [losses EXCEPT ![s.run] = Append(@, v)]
    /\ script' = [script EXCEPT ![j] =
          IF Improves(s, v) THEN Saving(t, t.weights, BestFile(s.kind)) ELSE AfterEpoch(t)]
    /\ disk' = IF Improves(s, v) THEN Written(BestFile(s.kind), Torn) ELSE disk
    /\ UNCHANGED <<sameRoot, disturbed, trained, started>>

\* The weights to freeze and to encode with are those of the best file.
Reloaded_Kept(s) == s.weights
Reloaded_Frozen(s) ==
    IF Whole(FrozenFile) THEN disk[FrozenFile].weights ELSE disk[BestFile(s.kind)].weights
Reloaded(s) == disk[BestFile(s.kind)].weights

Freezes(s) == s.kind = "orchestrator" \/ s.plateau

EmbeddingsOut == <<Root, "embeddings">>

Reload(j) ==
    LET s == script[j] IN
    /\ s # None /\ s.at = "reload" /\ Whole(BestFile(s.kind))
    /\ LET file == IF Freezes(s) THEN FrozenFile ELSE EmbeddingsOut IN
       /\ script' = [script EXCEPT ![j] = Saving(s, Reloaded(s), file)]
       /\ disk' = Written(file, Torn)
    /\ UNCHANGED <<sameRoot, losses, disturbed, trained, started>>

\* No loss of any run was finite, or another run is writing the file.
ReloadRaises(j) ==
    LET s == script[j] IN
    /\ s # None /\ s.at = "reload" /\ ~Whole(BestFile(s.kind))
    /\ End(j)
    /\ UNCHANGED <<sameRoot, disk, losses, disturbed, trained, started>>

SavedContent(s) ==
    IF s.file[2] = "embeddings" THEN [weights |-> s.weights, rows |-> s.rows]
    ELSE [weights |-> s.weights, locked |-> s.file = FrozenFile]

EndSave(j) ==
    LET s == script[j] IN
    /\ s # None /\ s.at = "saving"
    /\ \/ /\ s.file = BestFile(s.kind) /\ Training(j)
          /\ script' = [script EXCEPT ![j] = AfterEpoch(s)]
          /\ disk' = Written(s.file, SavedContent(s))
       \/ /\ s.file = FrozenFile /\ s.kind = "train_xlstm"
          /\ script' = [script EXCEPT ![j] = Saving(s, s.weights, EmbeddingsOut)]
          /\ disk' = Rewritten(Written(s.file, SavedContent(s)), EmbeddingsOut, Torn)
       \/ /\ s.file = FrozenFile /\ s.kind = "orchestrator"
          /\ script' = [script EXCEPT ![j] = [s EXCEPT !.at = "stage2"]]
          /\ disk' = Written(s.file, SavedContent(s))
       \/ /\ s.file[2] = "embeddings"
          /\ script' = [script EXCEPT ![j] = [s EXCEPT !.at = "served"]]
          /\ disk' = Written(s.file, SavedContent(s))
    /\ UNCHANGED <<sameRoot, losses, disturbed, trained, started>>

\* Stage 2 loads the file Stage 1 has just written.
Stage2(j) ==
    LET s == script[j] IN
    /\ s # None /\ s.at = "stage2"
    /\ script' = [script EXCEPT ![j] =
          IF Whole(FrozenFile)
          THEN [s EXCEPT !.at = "served", !.weights = disk[FrozenFile].weights]
          ELSE None]
    /\ UNCHANGED <<sameRoot, disk, losses, disturbed, trained, started>>

-----------------------------------------------------------------------------
(* Readers *)

StartReading(j, kind, rows) ==
    /\ script[j] = None /\ started < MaxScripts
    /\ kind \in Readers
    /\ script' = [script EXCEPT ![j] =
          Script(kind, rows, IF kind = "embeddings" THEN "cache" ELSE "encode", None)]
    /\ started' = started + 1
    /\ UNCHANGED <<sameRoot, disk, losses, disturbed, trained>>

\* resolve_checkpoint_path: frozen before best, None for FileNotFoundError.
ResolveCheckpoint_FrozenOnly ==
    LET frozen == <<CheckpointDir, "frozen">> IN
    IF frozen \in DOMAIN disk THEN frozen ELSE None

ResolveCheckpoint ==
    LET frozen == <<CheckpointDir, "frozen">>
        best == <<CheckpointDir, "best">> IN
    IF frozen \in DOMAIN disk THEN frozen
    ELSE IF best \in DOMAIN disk THEN best ELSE None

\* build_training_data falls back on the bare features when there is no
\* checkpoint or too little history; a torn file it does not survive.
Encode(j) ==
    LET s == script[j]
        file == ResolveCheckpoint IN
    /\ s # None /\ s.at = "encode"
    /\ script' = [script EXCEPT ![j] =
          IF file = None THEN [s EXCEPT !.at = "served"]
          ELSE IF ~Whole(file) THEN None
          ELSE IF s.rows < SequenceLength THEN [s EXCEPT !.at = "served"]
          ELSE [s EXCEPT !.at = "served", !.weights = disk[file].weights]]
    /\ UNCHANGED <<sameRoot, disk, losses, disturbed, trained, started>>

EmbeddingsFile == <<CheckpointDir, "embeddings">>

\* The cached array is served when it has as many rows as the features.
Fits(content, rows) == content.rows = rows

\* load_or_compute_embeddings
ReadCache(j, force) ==
    LET s == script[j]
        file == ResolveCheckpoint
        cached == EmbeddingsFile \in DOMAIN disk /\ ~force IN
    /\ s # None /\ s.at = "cache"
    /\ \/ /\ cached /\ Whole(EmbeddingsFile) /\ Fits(disk[EmbeddingsFile], s.rows)
          /\ script' = [script EXCEPT ![j] =
                [s EXCEPT !.at = "served", !.weights = disk[EmbeddingsFile].weights]]
          /\ UNCHANGED disk
       \/ /\ cached /\ ~Whole(EmbeddingsFile)
          /\ End(j) /\ UNCHANGED disk
       \/ /\ cached => (Whole(EmbeddingsFile) /\ ~Fits(disk[EmbeddingsFile], s.rows))
          /\ IF Whole(file) /\ s.rows >= SequenceLength
             THEN /\ script' = [script EXCEPT ![j] =
                        Saving(s, disk[file].weights, EmbeddingsFile)]
                  /\ disk' = Written(EmbeddingsFile, Torn)
             ELSE End(j) /\ UNCHANGED disk
    /\ UNCHANGED <<sameRoot, losses, disturbed, trained, started>>

-----------------------------------------------------------------------------
Return(j) ==
    /\ script[j] # None /\ script[j].at = "served"
    /\ trained' = (trained \/ Training(j))
    /\ End(j)
    /\ UNCHANGED <<sameRoot, disk, losses, disturbed, started>>

Die(j) ==
    /\ script[j] # None
    /\ End(j)
    /\ UNCHANGED <<sameRoot, disk, losses, disturbed, trained, started>>

Next ==
    \E j \in Jobs :
        \/ \E kind \in Trainers \cup Readers, rows \in RowCounts :
              StartTraining(j, kind, rows) \/ StartReading(j, kind, rows)
        \/ \E v \in Losses : Epoch(j, v)
        \/ Reload(j) \/ ReloadRaises(j) \/ EndSave(j) \/ Stage2(j)
        \/ Encode(j) \/ (\E force \in BOOLEAN : ReadCache(j, force))
        \/ Return(j) \/ Die(j)

Spec == Init /\ [][Next]_vars

-----------------------------------------------------------------------------
(* Properties *)

TypeOK ==
    /\ DOMAIN disk \subseteq Files
    /\ \A j \in Jobs : script[j] # None =>
          /\ script[j].at \in {"epoch", "saving", "reload", "stage2", "encode", "cache", "served"}
          /\ script[j].epoch \in 0 .. MaxEpochs /\ script[j].wait \in 0 .. Patience
          /\ script[j].run # None => script[j].run \in DOMAIN losses
    /\ disturbed \subseteq DOMAIN losses /\ started \in 0 .. MaxScripts

Serves(j) == script[j] # None /\ script[j].at = "served"

LossOf(weights) == losses[weights[1]][weights[2]]
Before(weights) == {losses[weights[1]][e] : e \in 1 .. weights[2] - 1}
Everywhere(weights) == {losses[weights[1]][e] : e \in DOMAIN losses[weights[1]]}

(***************************************************************************)
(* A whole checkpoint, whoever wrote it and however runs overlap, holds    *)
(* weights with a finite loss that no earlier epoch of their run had       *)
(* reached; the frozen one, of a run that had the directory to itself, is  *)
(* within min_delta of the best loss of the whole run (train.py:249-266,   *)
(* train_orchestrator.py:245-265).                                         *)
(***************************************************************************)
CheckpointsHoldBest ==
    \A file \in DOMAIN disk :
        Whole(file) => LET w == disk[file].weights IN
            /\ LossOf(w) # NaN
            /\ \A v \in Before(w) : v = NaN \/ LossOf(w) < v
            /\ file = FrozenFile /\ w[1] \notin disturbed =>
                  \A v \in Everywhere(w) : v = NaN \/ LossOf(w) <= v + MinDelta

(***************************************************************************)
(* What a training hands on, the encoder Stage 2 builds the PPO router on  *)
(* or the one train_xlstm encodes the history with, is its own, unless it  *)
(* shared the directory or never saw a finite loss.                        *)
(***************************************************************************)
TrainedEncoderIsOwn ==
    \A j \in Jobs :
        Serves(j) /\ Training(j) =>
            \/ script[j].weights[1] = script[j].run
            \/ script[j].run \in disturbed
            \/ \A e \in DOMAIN losses[script[j].run] : losses[script[j].run][e] = NaN

(***************************************************************************)
(* Where artifacts.root_dir and xlstm.checkpoint_dir name one directory,   *)
(* whoever builds training data after a training has ended gets encoded    *)
(* rows, in whatever order scripts start, rewrite the two checkpoints and  *)
(* die: the fallback to bare features (training_data.py:126-135) is left   *)
(* for a project without a training or with too short a history.           *)
(***************************************************************************)
EncodedOnceTrained ==
    \A j \in Jobs :
        sameRoot /\ Serves(j) /\ script[j].kind = "training_data" =>
            (script[j].seen /\ script[j].rows >= SequenceLength => script[j].weights # None)
=============================================================================
