--------------------------- MODULE PurgedWalkForward ---------------------------
(***************************************************************************)
(* rl/validation/purge.py: the expanding-window walk-forward splitter with *)
(* purging and embargo.  split() is a generator: each step yields a fold.  *)
(* Index arrays are sets of bar positions.                                 *)
(***************************************************************************)
EXTENDS Integers, Sequences, FiniteSetsExt

CONSTANTS SplitCounts,   \* n_splits of a splitter
          Embargoes,     \* embargo
          MinTrainSizes, \* min_train_size
          TestSizes,     \* test_size, None included
          None,
          MaxSamples     \* bound on n_samples

\* The constructor raises ValueError outside these ranges.
ASSUME SplitterAssumption ==
    /\ SplitCounts \subseteq Nat \ {0}
    /\ Embargoes \subseteq Nat
    /\ MinTrainSizes \subseteq Nat \ {0}
    /\ TestSizes \subseteq Int \cup {None}
    /\ None \notin Int
    /\ MaxSamples \in Nat

VARIABLES splitter,      \* the splitter's attributes
          nSamples,      \* n_samples of the current call of split()
          splitPhase,    \* "idle", "yielding", "done" or "raised"
          foldId,        \* fold_id
          testStart,     \* test_start
          folds          \* the folds yielded so far

splitVars == <<splitter, nSamples, splitPhase, foldId, testStart, folds>>

Splitters == [nSplits : SplitCounts, embargo : Embargoes,
              minTrain : MinTrainSizes, testSize : TestSizes]

Larger(a, b) == IF a >= b THEN a ELSE b
Smaller(a, b) == IF a <= b THEN a ELSE b

\* [test_start - embargo, test_end + embargo], clipped to the samples.
PurgeStart(test, embargo) == Larger(0, Min(test) - embargo)
PurgeEnd(test, n, embargo) == Smaller(n - 1, Max(test) + embargo)

PurgeIndices_NoEmbargoBefore(train, test, n, embargo) ==
    IF test = {} THEN train ELSE train \ (Min(test) .. PurgeEnd(test, n, embargo))

\* purge_indices: the training bars outside the purge zone.
PurgeIndices(train, test, n, embargo) ==
    IF test = {} THEN train
    ELSE train \ (PurgeStart(test, embargo) .. PurgeEnd(test, n, embargo))

SplitInit ==
    /\ splitter \in Splitters
    /\ nSamples = 0 /\ splitPhase = "idle"
    /\ foldId = 0 /\ testStart = 0 /\ folds = <<>>

\* split(n_samples), up to its loop.
Split(n) ==
    /\ splitPhase # "yielding"
    /\ nSamples' = n
    /\ folds' = <<>> /\ foldId' = 0 /\ testStart' = splitter.minTrain
    /\ splitPhase' = IF n < splitter.minTrain + 1 THEN "raised" ELSE "yielding"
    /\ UNCHANGED splitter

\* The length of a test segment; without test_size the rest is cut evenly.
TestSize ==
    IF splitter.testSize = None
    THEN Larger(1, (nSamples - splitter.minTrain) \div splitter.nSplits)
    ELSE splitter.testSize

TestEnd == Smaller(testStart + TestSize - 1, nSamples - 1)

MoreFolds == foldId < splitter.nSplits /\ testStart < nSamples /\ testStart <= TestEnd

\* Where the next test segment starts.
NextTestStart_NoEmbargo == TestEnd + 1
NextTestStart == TestEnd + 1 + splitter.embargo

\* The training candidates of a fold: every earlier bar.
Candidates == 0 .. (testStart - 1)

\* The fold of one round of the loop.
NewFold ==
    LET test == testStart .. TestEnd IN
    [id |-> foldId,
     train |-> PurgeIndices(Candidates, test, nSamples, splitter.embargo),
     test |-> test,
     purgeStart |-> PurgeStart(test, splitter.embargo),
     purgeEnd |-> PurgeEnd(test, nSamples, splitter.embargo)]

YieldFold ==
    /\ splitPhase = "yielding" /\ MoreFolds
    /\ folds' = Append(folds, NewFold)
    /\ foldId' = foldId + 1
    /\ testStart' = NextTestStart
    /\ UNCHANGED <<splitter, nSamples, splitPhase>>

EndSplit ==
    /\ splitPhase = "yielding" /\ ~MoreFolds
    /\ splitPhase' = "done"
    /\ UNCHANGED <<splitter, nSamples, foldId, testStart, folds>>

SplitNext ==
    \/ \E n \in 1 .. MaxSamples : Split(n)
    \/ YieldFold
    \/ EndSplit

SplitSpec == SplitInit /\ [][SplitNext]_splitVars

-----------------------------------------------------------------------------
(* Properties *)

Fold == [id : Nat, train : SUBSET Nat, test : SUBSET Nat, purgeStart : Int, purgeEnd : Int]

SplitTypeOK ==
    /\ splitter \in Splitters
    /\ nSamples \in Nat
    /\ splitPhase \in {"idle", "yielding", "done", "raised"}
    /\ foldId \in Nat /\ testStart \in Nat
    /\ folds \in Seq(Fold)

(***************************************************************************)
(* Within a fold, every training bar precedes every test bar by more than  *)
(* the embargo, so no label or feature window of at most that length       *)
(* reaches across (purge.py:1-7).                                          *)
(***************************************************************************)
TrainBeforeTest ==
    \A i \in DOMAIN folds : \A x \in folds[i].train, y \in folds[i].test :
        x + splitter.embargo < y

(***************************************************************************)
(* What validate_no_train_test_overlap recomputes: no training bar lies in *)
(* the purge zone a fold reports, and the zone covers the whole test       *)
(* segment (purge.py:162-170).                                             *)
(***************************************************************************)
ZoneSeparates ==
    \A i \in DOMAIN folds :
        LET zone == folds[i].purgeStart .. folds[i].purgeEnd IN
        folds[i].train \cap zone = {} /\ folds[i].test \subseteq zone

(***************************************************************************)
(* "each test segment is disjoint and followed by an embargo strip"        *)
(* (purge.py:110-111): test segments come in order, more than the embargo  *)
(* apart, and no bar is evaluated in two folds.                            *)
(***************************************************************************)
TestsApart ==
    \A i, j \in DOMAIN folds : i < j =>
        \A x \in folds[i].test, y \in folds[j].test : x + splitter.embargo < y

(***************************************************************************)
(* "Training window expands" (purge.py:110): a later fold trains on all a  *)
(* earlier fold trained on.                                                *)
(***************************************************************************)
TrainExpands ==
    \A i, j \in DOMAIN folds : i < j => folds[i].train \subseteq folds[j].train

(***************************************************************************)
(* The generator never yields an empty test segment, a bar that does not   *)
(* exist, or more folds than asked for, whatever the remainder of the      *)
(* division is.                                                            *)
(***************************************************************************)
FoldsWithinSample ==
    /\ Len(folds) <= splitter.nSplits
    /\ \A i \in DOMAIN folds :
          /\ folds[i].test # {} /\ folds[i].test \subseteq 0 .. (nSamples - 1)
          /\ folds[i].train \subseteq 0 .. (nSamples - 1)
=============================================================================
