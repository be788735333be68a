----------------------- MODULE WalkForwardTrainingProofs -----------------------
(***************************************************************************)
(* The splitter's guarantees, for every number of samples, embargo and     *)
(* segment size, and that the jobs use it as its specification says, so    *)
(* that they hold of the folds every training and report job works with.   *)
(* The inductive invariant says what a fold is: a span a..b of test bars,  *)
(* the training bars up to the embargo before a, and everything yielded so *)
(* far more than the embargo before test_start.                            *)
(***************************************************************************)
EXTENDS WalkForwardTraining, SequenceTheorems, FiniteSetTheorems, TLAPS

\* What split() yields for the test segment a..b.
IsFoldOver(f, a, b) ==
    /\ a <= b /\ b < nSamples
    /\ f.test = a .. b
    /\ f.train = 0 .. (a - splitter.embargo - 1)
    /\ f.purgeStart = Larger(0, a - splitter.embargo)
    /\ f.purgeEnd = Smaller(nSamples - 1, b + splitter.embargo)

FoldShapes ==
    \A i \in DOMAIN folds : \E a, b \in Nat :
        IsFoldOver(folds[i], a, b) /\ b + splitter.embargo < testStart

\* Fold ids count up from zero.
FoldIds == \A i \in DOMAIN folds : folds[i].id = i - 1

SplitInv ==
    /\ SplitTypeOK
    /\ foldId = Len(folds) /\ foldId <= splitter.nSplits
    /\ FoldIds
    /\ FoldShapes
    /\ TestsApart
    /\ TrainExpands

-----------------------------------------------------------------------------
(* The operators *)

(***************************************************************************)
(* The ends of a span of bars, as np.min and np.max find them.             *)
(***************************************************************************)
LEMMA SpanEnds ==
    ASSUME NEW a \in Int, NEW b \in Int, a <= b
    PROVE  Min(a .. b) = a /\ Max(a .. b) = b
<1>1. Min(a .. b) = a
  <2>1. \E x \in a .. b : \A y \in a .. b : x <= y
    OBVIOUS
  <2>2. Min(a .. b) \in a .. b /\ \A y \in a .. b : Min(a .. b) <= y
    BY <2>1 DEF Min
  <2> QED
    BY <2>2
<1>2. Max(a .. b) = b
  <2>1. \E x \in a .. b : \A y \in a .. b : x >= y
    OBVIOUS
  <2>2. Max(a .. b) \in a .. b /\ \A y \in a .. b : Max(a .. b) >= y
    BY <2>1 DEF Max
  <2> QED
    BY <2>2
<1> QED
  BY <1>1, <1>2

(***************************************************************************)
(* purge_indices removes exactly the embargo's last bars from the earlier  *)
(* ones: whatever the clipping at either end of the sample does, what is   *)
(* left of 0..a-1 is 0..a-e-1 (purge.py:52-59).                            *)
(***************************************************************************)
LEMMA PurgedTrain ==
    ASSUME NEW a \in Nat, NEW b \in Nat, NEW n \in Nat, NEW e \in Nat,
           a <= b, b < n
    PROVE  /\ PurgeStart(a .. b, e) = Larger(0, a - e)
           /\ PurgeEnd(a .. b, n, e) = Smaller(n - 1, b + e)
           /\ PurgeIndices(0 .. (a - 1), a .. b, n, e) = 0 .. (a - e - 1)
<1>1. Min(a .. b) = a /\ Max(a .. b) = b
  BY SpanEnds
<1>2. PurgeStart(a .. b, e) = Larger(0, a - e)
  BY <1>1 DEF PurgeStart
<1>3. PurgeEnd(a .. b, n, e) = Smaller(n - 1, b + e)
  BY <1>1 DEF PurgeEnd
<1>4. PurgeIndices(0 .. (a - 1), a .. b, n, e)
          = (0 .. (a - 1)) \ (Larger(0, a - e) .. Smaller(n - 1, b + e))
  BY <1>2, <1>3 DEF PurgeIndices
<1>5. Smaller(n - 1, b + e) >= a /\ Smaller(n - 1, b + e) \in Int
  BY DEF Smaller
<1>6. (0 .. (a - 1)) \ (Larger(0, a - e) .. Smaller(n - 1, b + e)) = 0 .. (a - e - 1)
  BY <1>5 DEF Larger
<1> QED
  BY <1>2, <1>3, <1>4, <1>6

-----------------------------------------------------------------------------
(* The inductive invariant *)

(***************************************************************************)
(* A splitter's attributes are numbers of the ranges the constructor       *)
(* accepts.                                                                *)
(***************************************************************************)
LEMMA Attributes ==
    ASSUME SplitTypeOK
    PROVE  /\ splitter.nSplits \in Nat \ {0}
           /\ splitter.embargo \in Nat
           /\ splitter.minTrain \in Nat \ {0}
           /\ splitter.testSize \in Int \cup {None}
           /\ TestSize \in Int /\ TestEnd \in Int
<1>1. /\ splitter.nSplits \in Nat \ {0} /\ splitter.embargo \in Nat
      /\ splitter.minTrain \in Nat \ {0} /\ splitter.testSize \in Int \cup {None}
  BY SplitterAssumption DEF SplitTypeOK, Splitters
<1>2. (nSamples - splitter.minTrain) \div splitter.nSplits \in Int
  BY <1>1 DEF SplitTypeOK
<1>3. TestSize \in Int
  BY <1>1, <1>2 DEF TestSize, Larger
<1>4. TestEnd \in Int
  BY <1>3 DEF TestEnd, Smaller, SplitTypeOK
<1> QED
  BY <1>1, <1>3, <1>4

(***************************************************************************)
(* The fold of a round of the loop has the shape the invariant asks for.   *)
(***************************************************************************)
LEMMA NewFoldShape ==
    ASSUME SplitTypeOK, MoreFolds
    PROVE  /\ TestEnd \in Nat
           /\ NewFold \in Fold
           /\ NewFold.id = foldId
           /\ IsFoldOver(NewFold, testStart, TestEnd)
<1>1. splitter.embargo \in Nat /\ TestEnd \in Int /\ testStart \in Nat /\ nSamples \in Nat
  BY Attributes DEF SplitTypeOK
<1>2. testStart <= TestEnd /\ TestEnd < nSamples /\ TestEnd \in Nat
  BY <1>1, Attributes DEF MoreFolds, TestEnd, Smaller
<1>3. /\ PurgeStart(testStart .. TestEnd, splitter.embargo)
            = Larger(0, testStart - splitter.embargo)
      /\ PurgeEnd(testStart .. TestEnd, nSamples, splitter.embargo)
            = Smaller(nSamples - 1, TestEnd + splitter.embargo)
      /\ PurgeIndices(0 .. (testStart - 1), testStart .. TestEnd, nSamples,
                      splitter.embargo)
            = 0 .. (testStart - splitter.embargo - 1)
  <2>1. PICK a \in Nat, b \in Nat, n \in Nat, e \in Nat :
            a = testStart /\ b = TestEnd /\ n = nSamples /\ e = splitter.embargo
    BY <1>1, <1>2
  <2>2. a <= b /\ b < n
    BY <1>2, <2>1
  <2>3. /\ PurgeStart(a .. b, e) = Larger(0, a - e)
        /\ PurgeEnd(a .. b, n, e) = Smaller(n - 1, b + e)
        /\ PurgeIndices(0 .. (a - 1), a .. b, n, e) = 0 .. (a - e - 1)
    BY <2>2, PurgedTrain
  <2> QED
    BY <2>1, <2>3
<1>4. NewFold = [id |-> foldId,
                 train |-> 0 .. (testStart - splitter.embargo - 1),
                 test |-> testStart .. TestEnd,
                 purgeStart |-> Larger(0, testStart - splitter.embargo),
                 purgeEnd |-> Smaller(nSamples - 1, TestEnd + splitter.embargo)]
  BY <1>3 DEF NewFold, Candidates
<1>5. /\ 0 .. (testStart - splitter.embargo - 1) \in SUBSET Nat
      /\ testStart .. TestEnd \in SUBSET Nat
      /\ Larger(0, testStart - splitter.embargo) \in Int
      /\ Smaller(nSamples - 1, TestEnd + splitter.embargo) \in Int
      /\ foldId \in Nat
  BY <1>1, <1>2 DEF Larger, Smaller, SplitTypeOK
<1>6. NewFold \in Fold
  BY <1>4, <1>5 DEF Fold
<1>7. IsFoldOver(NewFold, testStart, TestEnd)
  BY <1>2, <1>4 DEF IsFoldOver
<1> QED
  BY <1>2, <1>4, <1>6, <1>7

LEMMA InitInv == SplitInit => SplitInv
<1> SUFFICES ASSUME SplitInit PROVE SplitInv
  OBVIOUS
<1>1. SplitTypeOK
  BY DEF SplitInit, SplitTypeOK
<1>2. splitter.nSplits \in Nat
  BY <1>1, Attributes
<1>3. DOMAIN folds = {} /\ Len(folds) = 0
  BY DEF SplitInit
<1> QED
  BY <1>1, <1>2, <1>3 DEF SplitInv, SplitInit, FoldIds, FoldShapes, TestsApart, TrainExpands

(***************************************************************************)
(* A new call of split() starts over.                                      *)
(***************************************************************************)
LEMMA SplitPreserves ==
    ASSUME SplitInv, NEW n \in Nat, Split(n)
    PROVE  SplitInv'
<1>1. splitter.minTrain \in Nat /\ splitter.nSplits \in Nat
  BY Attributes DEF SplitInv
<1>2. SplitTypeOK'
  BY <1>1 DEF SplitInv, SplitTypeOK, Split
<1>3. DOMAIN folds' = {} /\ Len(folds') = 0 /\ foldId' = 0
  BY DEF Split
<1>4. splitter'.nSplits \in Nat
  BY <1>1 DEF Split
<1> QED
  BY <1>2, <1>3, <1>4 DEF SplitInv, FoldIds, FoldShapes, TestsApart, TrainExpands

(***************************************************************************)
(* A round of the loop adds a fold that keeps its distance from all the    *)
(* earlier ones.                                                           *)
(***************************************************************************)
LEMMA YieldPreserves ==
    ASSUME SplitInv, YieldFold
    PROVE  SplitInv'
<1> DEFINE e == splitter.embargo
           m == Len(folds)
<1>1. /\ SplitTypeOK /\ MoreFolds /\ e \in Nat
      /\ testStart \in Nat /\ nSamples \in Nat /\ folds \in Seq(Fold) /\ m \in Nat
      /\ splitter.nSplits \in Nat
  BY Attributes DEF SplitInv, SplitTypeOK, YieldFold
<1>2. /\ TestEnd \in Nat /\ NewFold \in Fold /\ IsFoldOver(NewFold, testStart, TestEnd)
      /\ NewFold.id = foldId
  BY <1>1, NewFoldShape
<1>3. /\ folds' = Append(folds, NewFold) /\ foldId' = foldId + 1
      /\ testStart' = TestEnd + 1 + e
      /\ splitter' = splitter /\ nSamples' = nSamples /\ splitPhase' = splitPhase
  BY DEF YieldFold, NextTestStart
<1>4. /\ folds' \in Seq(Fold) /\ Len(folds') = m + 1 /\ DOMAIN folds' = 1 .. (m + 1)
      /\ folds'[m + 1] = NewFold
      /\ DOMAIN folds = 1 .. m /\ \A i \in 1 .. m : folds'[i] = folds[i]
  BY <1>1, <1>2, <1>3
<1>5. SplitTypeOK'
  BY <1>1, <1>2, <1>3, <1>4 DEF SplitInv, SplitTypeOK
<1>6. foldId' = Len(folds') /\ foldId' <= splitter'.nSplits
  BY <1>1, <1>3, <1>4 DEF SplitInv, MoreFolds
<1>13. FoldIds'
  BY <1>1, <1>2, <1>4 DEF SplitInv, FoldIds
<1>7. testStart <= TestEnd /\ testStart' \in Nat /\ TestEnd + e < testStart'
  BY <1>1, <1>2, <1>3 DEF MoreFolds
<1>8. \A i \in 1 .. m : \E a, b \in Nat :
          IsFoldOver(folds[i], a, b) /\ b + e < testStart
  BY <1>4 DEF SplitInv, FoldShapes
<1>9. FoldShapes'
  <2> SUFFICES ASSUME NEW i \in 1 .. (m + 1)
               PROVE  \E a, b \in Nat :
                        IsFoldOver(folds[i], a, b)' /\ b + e < testStart'
    BY <1>3, <1>4 DEF FoldShapes
  <2>1. CASE i = m + 1
    <3>1. PICK a \in Nat, b \in Nat : a = testStart /\ b = TestEnd
      BY <1>1, <1>2
    <3>2. IsFoldOver(folds[i], a, b)'
      BY <1>2, <1>3, <1>4, <2>1, <3>1 DEF IsFoldOver
    <3>3. b + e < testStart'
      BY <1>7, <3>1
    <3> QED
      BY <3>2, <3>3
  <2>2. CASE i \in 1 .. m
    <3>1. PICK a \in Nat, b \in Nat : IsFoldOver(folds[i], a, b) /\ b + e < testStart
      BY <1>8, <2>2
    <3>2. IsFoldOver(folds[i], a, b)'
      BY <1>3, <1>4, <2>2, <3>1 DEF IsFoldOver
    <3>3. b + e < testStart'
      BY <1>1, <1>2, <1>7, <3>1
    <3> QED
      BY <3>2, <3>3
  <2> QED
    BY <1>1, <2>1, <2>2
<1>10. ASSUME NEW i \in 1 .. m
       PROVE  /\ \A x \in folds[i].test, y \in NewFold.test : x + e < y
              /\ folds[i].train \subseteq NewFold.train
  <2>1. PICK a \in Nat, b \in Nat : IsFoldOver(folds[i], a, b) /\ b + e < testStart
    BY <1>8
  <2>2. /\ folds[i].test = a .. b /\ folds[i].train = 0 .. (a - e - 1)
        /\ NewFold.test = testStart .. TestEnd /\ NewFold.train = 0 .. (testStart - e - 1)
        /\ a <= b
    BY <1>2, <2>1 DEF IsFoldOver
  <2>3. \A x \in folds[i].test, y \in NewFold.test : x + e < y
    BY <1>1, <1>2, <2>1, <2>2
  <2>4. a - e - 1 <= testStart - e - 1
    BY <1>1, <2>1, <2>2
  <2>5. folds[i].train \subseteq NewFold.train
    BY <1>1, <2>2, <2>4
  <2> QED
    BY <2>3, <2>5
<1>11. TestsApart'
  <2> SUFFICES ASSUME NEW i \in 1 .. (m + 1), NEW j \in 1 .. (m + 1), i < j,
                      NEW x \in folds'[i].test, NEW y \in folds'[j].test
               PROVE  x + e < y
    BY <1>3, <1>4 DEF TestsApart
  <2>1. CASE j = m + 1
    BY <1>1, <1>4, <1>10, <2>1
  <2>2. CASE j \in 1 .. m
    BY <1>1, <1>4, <2>2 DEF SplitInv, TestsApart
  <2> QED
    BY <1>1, <2>1, <2>2
<1>12. TrainExpands'
  <2> SUFFICES ASSUME NEW i \in 1 .. (m + 1), NEW j \in 1 .. (m + 1), i < j
               PROVE  folds'[i].train \subseteq folds'[j].train
    BY <1>4 DEF TrainExpands
  <2>1. CASE j = m + 1
    BY <1>1, <1>4, <1>10, <2>1
  <2>2. CASE j \in 1 .. m
    BY <1>1, <1>4, <2>2, SMTT(30) DEF SplitInv, TrainExpands
  <2> QED
    BY <1>1, <2>1, <2>2
<1> QED
  BY <1>5, <1>6, <1>9, <1>11, <1>12, <1>13 DEF SplitInv

LEMMA EndPreserves ==
    ASSUME SplitInv, EndSplit
    PROVE  SplitInv'
<1>1. UNCHANGED <<splitter, nSamples, foldId, testStart, folds>> /\ splitPhase' = "done"
  BY DEF EndSplit
<1>2. SplitTypeOK'
  BY <1>1 DEF SplitInv, SplitTypeOK
<1>3. FoldShapes'
  BY <1>1 DEF SplitInv, FoldShapes, IsFoldOver
<1>4. TestsApart' /\ TrainExpands' /\ FoldIds'
  BY <1>1 DEF SplitInv, TestsApart, TrainExpands, FoldIds
<1> QED
  BY <1>1, <1>2, <1>3, <1>4 DEF SplitInv

LEMMA StutterPreserves ==
    ASSUME SplitInv, UNCHANGED splitVars
    PROVE  SplitInv'
BY DEF SplitInv, splitVars, SplitTypeOK, FoldIds, FoldShapes, IsFoldOver, TestsApart,
       TrainExpands

LEMMA SplitterPreserves ==
    ASSUME SplitInv, [SplitNext]_splitVars
    PROVE  SplitInv'
<1>1. CASE \E n \in 1 .. MaxSamples : Split(n)
  BY <1>1, SplitPreserves, SplitterAssumption
<1>2. CASE YieldFold
  BY <1>2, YieldPreserves
<1>3. CASE EndSplit
  BY <1>3, EndPreserves
<1>4. CASE UNCHANGED splitVars
  BY <1>4, StutterPreserves
<1> QED
  BY <1>1, <1>2, <1>3, <1>4 DEF SplitNext

(***************************************************************************)
(* Every reachable state of the splitter satisfies the invariant.          *)
(***************************************************************************)
THEOREM SplitInvariant == SplitSpec => []SplitInv
<1>1. SplitInit => SplitInv
  BY InitInv
<1>2. SplitInv /\ [SplitNext]_splitVars => SplitInv'
  BY SplitterPreserves
<1> QED
  BY <1>1, <1>2, PTL DEF SplitSpec

-----------------------------------------------------------------------------
(* What the invariant gives *)

(***************************************************************************)
(* Purging: in every fold the training bars end more than the embargo      *)
(* before the test bars begin (purge.py:1-7).                              *)
(***************************************************************************)
LEMMA InvTrainBeforeTest == SplitInv => TrainBeforeTest
<1> SUFFICES ASSUME SplitInv, NEW i \in DOMAIN folds,
                    NEW x \in folds[i].train, NEW y \in folds[i].test
             PROVE  x + splitter.embargo < y
  BY DEF TrainBeforeTest
<1>1. PICK a \in Nat, b \in Nat : IsFoldOver(folds[i], a, b)
  BY DEF SplitInv, FoldShapes
<1>2. splitter.embargo \in Nat
  BY Attributes DEF SplitInv
<1> QED
  BY <1>1, <1>2 DEF IsFoldOver

(***************************************************************************)
(* The zone a fold reports covers its test segment and none of its         *)
(* training bars, so validate_no_train_test_overlap accepts every fold     *)
(* (purge.py:162-170).                                                     *)
(***************************************************************************)
LEMMA InvZoneSeparates == SplitInv => ZoneSeparates
<1> SUFFICES ASSUME SplitInv, NEW i \in DOMAIN folds
             PROVE  LET zone == folds[i].purgeStart .. folds[i].purgeEnd IN
                    folds[i].train \cap zone = {} /\ folds[i].test \subseteq zone
  BY DEF ZoneSeparates
<1>1. PICK a \in Nat, b \in Nat : IsFoldOver(folds[i], a, b)
  BY DEF SplitInv, FoldShapes
<1>2. splitter.embargo \in Nat /\ nSamples \in Nat
  BY Attributes DEF SplitInv, SplitTypeOK
<1> QED
  BY <1>1, <1>2 DEF IsFoldOver, Larger, Smaller

(***************************************************************************)
(* No fold has an empty test segment or reaches outside the sample, and    *)
(* there are at most n_splits of them (purge.py:129-132).                  *)
(***************************************************************************)
LEMMA InvFoldsWithinSample == SplitInv => FoldsWithinSample
<1> SUFFICES ASSUME SplitInv PROVE FoldsWithinSample
  OBVIOUS
<1>1. Len(folds) <= splitter.nSplits
  BY DEF SplitInv
<1>2. ASSUME NEW i \in DOMAIN folds
      PROVE  /\ folds[i].test # {} /\ folds[i].test \subseteq 0 .. (nSamples - 1)
             /\ folds[i].train \subseteq 0 .. (nSamples - 1)
  <2>1. PICK a \in Nat, b \in Nat : IsFoldOver(folds[i], a, b)
    BY DEF SplitInv, FoldShapes
  <2>2. splitter.embargo \in Nat /\ nSamples \in Nat
    BY Attributes DEF SplitInv, SplitTypeOK
  <2>3. /\ folds[i].test = a .. b /\ a <= b /\ b < nSamples
        /\ folds[i].train = 0 .. (a - splitter.embargo - 1)
    BY <2>1 DEF IsFoldOver
  <2>4. a \in folds[i].test /\ folds[i].test \subseteq 0 .. (nSamples - 1)
    BY <2>2, <2>3
  <2>5. folds[i].train \subseteq 0 .. (nSamples - 1)
    BY <2>2, <2>3
  <2> QED
    BY <2>4, <2>5
<1> QED
  BY <1>1, <1>2 DEF FoldsWithinSample

(***************************************************************************)
(* For every history, embargo and segment size the splitter's folds are    *)
(* purged, apart, expanding and inside the sample.                         *)
(***************************************************************************)
THEOREM SplitterCorrect ==
    SplitSpec => [](/\ SplitTypeOK /\ TrainBeforeTest /\ ZoneSeparates
                    /\ TestsApart /\ TrainExpands /\ FoldsWithinSample)
<1>1. SplitInv => /\ SplitTypeOK /\ TrainBeforeTest /\ ZoneSeparates
                  /\ TestsApart /\ TrainExpands /\ FoldsWithinSample
  BY InvTrainBeforeTest, InvZoneSeparates, InvFoldsWithinSample DEF SplitInv
<1> QED
  BY <1>1, SplitInvariant, PTL

-----------------------------------------------------------------------------
(* The jobs *)

\* The number of bars a job hands to split().
BarsInv == nBars \in 1 .. MaxSamples

LEMMA BarsInit == Init => BarsInv
BY TrainingAssumption DEF Init, BarsInv

(***************************************************************************)
(* The history only grows, one bar at a time and up to the bound.          *)
(***************************************************************************)
LEMMA BarsNext ==
    ASSUME BarsInv, [Next]_vars
    PROVE  BarsInv'
<1> USE DEF BarsInv
<1>1. CASE AddBar
  BY <1>1, SplitterAssumption DEF AddBar
<1>2. ASSUME NEW kind, NEW f, StartJob(kind, f) PROVE BarsInv'
  BY <1>2 DEF StartJob
<1>3. CASE RunSplit \/ Choose \/ NoFolds
  BY <1>3 DEF RunSplit, Choose, NoFolds, EndJob
<1>4. CASE Train \/ TrainingDies
  BY <1>4 DEF Train, BeginFold, LearnStep, EndFold, SavePolicy, TrainingDies, EndJob
<1>5. CASE Report
  BY <1>5 DEF Report, EvaluateFold, EndReport, EndJob
<1>6. CASE Hand
  BY <1>6 DEF Hand, HandBuild, HandReset, HandStep, EndHand, HandTurn, EndJob
<1>7. CASE UNCHANGED vars
  BY <1>7 DEF vars
<1> QED
  BY <1>1, <1>2, <1>3, <1>4, <1>5, <1>6, <1>7 DEF Next

(***************************************************************************)
(* A job's step is a step of the splitter or leaves it alone.              *)
(***************************************************************************)
LEMMA SplitterStep ==
    ASSUME BarsInv, [Next]_vars
    PROVE  [SplitNext]_splitVars
<1>1. CASE AddBar
  BY <1>1 DEF AddBar
<1>2. ASSUME NEW kind, NEW f, StartJob(kind, f) PROVE SplitNext
  BY <1>2 DEF StartJob, SplitNext, BarsInv
<1>3. CASE RunSplit \/ Choose \/ NoFolds
  BY <1>3 DEF RunSplit, Choose, NoFolds, EndJob, SplitNext
<1>4. CASE Train \/ TrainingDies
  BY <1>4 DEF Train, BeginFold, LearnStep, EndFold, SavePolicy, TrainingDies, EndJob
<1>5. CASE Report
  BY <1>5 DEF Report, EvaluateFold, EndReport, EndJob
<1>6. CASE Hand
  BY <1>6 DEF Hand, HandBuild, HandReset, HandStep, EndHand, HandTurn, EndJob
<1>7. CASE UNCHANGED vars
  BY <1>7 DEF vars, splitVars
<1> QED
  BY <1>1, <1>2, <1>3, <1>4, <1>5, <1>6, <1>7 DEF Next

(***************************************************************************)
(* The jobs implement the splitter's specification.                        *)
(***************************************************************************)
THEOREM JobsUseSplitter == Spec => SplitSpec
<1>1. Init => SplitInit
  BY DEF Init
<1>2. Init => BarsInv
  BY BarsInit
<1>3. BarsInv /\ [Next]_vars => BarsInv'
  BY BarsNext
<1>4. BarsInv /\ [Next]_vars => [SplitNext]_splitVars
  BY SplitterStep
<1> QED
  BY <1>1, <1>2, <1>3, <1>4, PTL DEF Spec, SplitSpec

(***************************************************************************)
(* No bar is trained on within the embargo of the test bars of its fold,   *)
(* and the zone each fold reports says so.                                 *)
(***************************************************************************)
THEOREM JobsFoldsPurged == Spec => []FoldsPurged
<1>1. TrainBeforeTest /\ ZoneSeparates => FoldsPurged
  BY DEF FoldsPurged
<1> QED
  BY <1>1, JobsUseSplitter, SplitterCorrect, PTL

(***************************************************************************)
(* No bar is evaluated in two folds: their test segments come in order,    *)
(* more than the embargo apart.                                            *)
(***************************************************************************)
THEOREM JobsTestsApart == Spec => []TestsApart
BY JobsUseSplitter, SplitterCorrect, PTL

(***************************************************************************)
(* A later fold trains on everything an earlier one trained on.            *)
(***************************************************************************)
THEOREM JobsTrainExpands == Spec => []TrainExpands
BY JobsUseSplitter, SplitterCorrect, PTL

-----------------------------------------------------------------------------
(* Episodes *)

(***************************************************************************)
(* The index array of a span of bars holds its bars, and is empty only for *)
(* an empty span.                                                          *)
(***************************************************************************)
LEMMA AscendingSpan ==
    ASSUME NEW a \in Int, NEW b \in Int
    PROVE  /\ Ascending(a .. b) \in Seq(a .. b)
           /\ a <= b => Len(Ascending(a .. b)) > 0
<1> DEFINE n == Cardinality(a .. b)
<1>1. n \in Nat /\ n = (IF a > b THEN 0 ELSE b - a + 1)
  BY FS_Interval
<1>2. ASSUME NEW k \in 1 .. n
      PROVE  (CHOOSE x \in a .. b : Cardinality({y \in a .. b : y < x}) = k - 1) \in a .. b
  <2>1. a + k - 1 \in a .. b
    BY <1>1
  <2>2. {y \in a .. b : y < a + k - 1} = a .. (a + k - 2)
    BY <1>1, <2>1
  <2>3. Cardinality(a .. (a + k - 2)) = k - 1
    BY <1>1, FS_Interval
  <2>4. \E x \in a .. b : Cardinality({y \in a .. b : y < x}) = k - 1
    BY <2>1, <2>2, <2>3
  <2> QED
    BY <2>4
<1>3. Ascending(a .. b) \in [1 .. n -> a .. b]
  BY <1>2 DEF Ascending
<1>4. Ascending(a .. b) \in Seq(a .. b)
  BY <1>1, <1>3, SeqDef
<1>5. Len(Ascending(a .. b)) = n
  <2>1. DOMAIN Ascending(a .. b) = 1 .. n
    BY <1>3
  <2>2. DOMAIN Ascending(a .. b) = 1 .. Len(Ascending(a .. b)) /\ Len(Ascending(a .. b)) \in Nat
    BY <1>4, LenProperties
  <2> QED
    BY <1>1, <2>1, <2>2
<1> QED
  BY <1>1, <1>4, <1>5

\* The fields of an environment.
IsEnv(e) ==
    e = [fold |-> e.fold, mode |-> e.mode, embargo |-> e.embargo,
         episodeLength |-> e.episodeLength, active |-> e.active, cursor |-> e.cursor,
         stepInEpisode |-> e.stepInEpisode, terminated |-> e.terminated,
         stepped |-> e.stepped]

\* The active bars and the steps lie in a window; only for the whole history may
\* reset() still have to fill in the bars.
Within(active, stepped, window, n) ==
    /\ active \in Seq(window) /\ stepped \subseteq window
    /\ active = <<>> => window = 0 .. (n - 1)

\* What a bound window means for an environment's active bars and steps.
InWindow(fold, mode, n, embargo, active, stepped) ==
    /\ mode \in {"test", "train"}
    /\ Within(active, stepped, EpisodeWindow(fold, mode, n, embargo), n)

\* What holds of an environment over n bars that is bound to a fold of bound, or
\* to none.
EnvOK(e, bound, n) ==
    /\ IsEnv(e)
    /\ e.cursor \in Nat /\ e.active \in Seq(Int) /\ e.embargo \in Nat
    /\ e.fold # None => /\ e.fold \in bound
                        /\ InWindow(e.fold, e.mode, n, e.embargo, e.active, e.stepped)

\* What the splitter guarantees of a fold's test segment to those who bind it.
IsSpan(f, n) == \E a, b \in Nat : a <= b /\ b < n /\ f.test = a .. b

(***************************************************************************)
(* The two windows a fold can be bound by: the test segment is never       *)
(* empty, and the training window the environment computes for itself,     *)
(* from whatever embargo it was given, holds the bars that come more than  *)
(* that before the segment (gym_trading_env.py: set_walk_forward_fold).    *)
(***************************************************************************)
LEMMA BoundWindows ==
    ASSUME NEW f, NEW n \in Nat, NEW e \in Nat, IsSpan(f, n)
    PROVE  /\ Ascending(f.test) \in Seq(f.test) /\ Len(Ascending(f.test)) > 0
           /\ Ascending(TrainWindow(f, n, e)) \in Seq(BeforeTest(f, n, e))
           /\ BeforeTest(f, n, e) # {} => Len(Ascending(TrainWindow(f, n, e))) > 0
           /\ f.test \subseteq Int /\ BeforeTest(f, n, e) \subseteq 0 .. (n - 1)
<1>1. PICK a \in Nat, b \in Nat : a <= b /\ b < n /\ f.test = a .. b
  BY DEF IsSpan
<1>2. Min(f.test) = a
  BY <1>1, SpanEnds
<1>3. TrainWindow(f, n, e) = 0 .. (a - e - 1)
  <2>1. PurgeIndices(0 .. (a - 1), a .. b, n, e) = 0 .. (a - e - 1)
    BY <1>1, PurgedTrain
  <2> QED
    BY <1>1, <1>2, <2>1, Zenon DEF TrainWindow
<1>4. BeforeTest(f, n, e) = 0 .. (a - e - 1)
  <2>1. a \in f.test /\ \A y \in f.test : a <= y
    BY <1>1
  <2>2. ASSUME NEW x \in 0 .. (n - 1)
        PROVE  (\A y \in f.test : x + e < y) <=> x \in 0 .. (a - e - 1)
    <3>1. x + e < a <=> x \in 0 .. (a - e - 1)
      BY <1>1
    <3>2. (\A y \in f.test : x + e < y) => x + e < a
      BY <2>1
    <3>3. x + e < a => \A y \in a .. b : x + e < y
      BY <1>1
    <3> QED
      BY <1>1, <3>1, <3>2, <3>3
  <2>3. 0 .. (a - e - 1) \subseteq 0 .. (n - 1)
    <3>1. a - e - 1 <= n - 1 /\ a - e - 1 \in Int
      BY <1>1
    <3> QED
      BY <3>1
  <2> QED
    BY <2>2, <2>3 DEF BeforeTest
<1>5. Ascending(f.test) \in Seq(f.test) /\ Len(Ascending(f.test)) > 0
  BY <1>1, AscendingSpan
<1>6. PICK last \in Int : last = a - e - 1
  BY <1>1
<1>7. /\ Ascending(0 .. last) \in Seq(0 .. last)
      /\ 0 <= last => Len(Ascending(0 .. last)) > 0
  <2>1. 0 \in Int /\ last \in Int
    OBVIOUS
  <2> QED
    BY <2>1, AscendingSpan
<1>8. TrainWindow(f, n, e) = 0 .. last /\ BeforeTest(f, n, e) = 0 .. last
  BY <1>3, <1>4, <1>6
<1>9. BeforeTest(f, n, e) # {} => 0 <= last
  BY <1>8
<1>10. f.test \subseteq Int /\ BeforeTest(f, n, e) \subseteq 0 .. (n - 1)
  BY <1>1 DEF BeforeTest
<1> QED
  BY <1>5, <1>7, <1>8, <1>9, <1>10

(***************************************************************************)
(* __init__ and set_walk_forward_fold bind a window of the fold.           *)
(***************************************************************************)
LEMMA NewEnvOK ==
    ASSUME NEW f, NEW n \in Nat, NEW e \in Nat, NEW len, NEW bound,
           f # None => f \in bound /\ IsSpan(f, n)
    PROVE  EnvOK(NewEnv(f, e, len), bound, n)
<1> DEFINE env0 == NewEnv(f, e, len)
<1>1. /\ IsEnv(env0) /\ env0.fold = f /\ env0.mode = "test" /\ env0.cursor = 0
      /\ env0.embargo = e /\ env0.stepped = {}
      /\ env0.active = IF f = None THEN <<>> ELSE Ascending(f.test)
  BY DEF NewEnv, IsEnv
<1> HIDE DEF env0
<1>2. EnvOK(env0, bound, n)
  <2>1. CASE f = None
    BY <1>1, <2>1, EmptySeq DEF EnvOK
  <2>2. CASE f # None
    <3>1. /\ Ascending(f.test) \in Seq(f.test) /\ Len(Ascending(f.test)) > 0
          /\ f.test \subseteq Int
      BY <2>2, BoundWindows
    <3>2. Ascending(f.test) \in Seq(Int)
      BY <3>1, SeqMonotonic
    <3>3. env0.active \in Seq(f.test) /\ env0.active # <<>>
      BY <1>1, <2>2, <3>1, EmptySeq
    <3>4. EpisodeWindow(f, "test", n, e) = f.test
      BY DEF EpisodeWindow
    <3>5. InWindow(env0.fold, env0.mode, n, env0.embargo, env0.active, env0.stepped)
      BY <1>1, <3>3, <3>4 DEF InWindow, Within
    <3> QED
      BY <1>1, <2>2, <3>2, <3>5 DEF EnvOK
  <2> QED
    BY <2>1, <2>2
<1> QED
  BY <1>2 DEF env0

\* Binding a fold of a span keeps the environment inside that fold's window.
LEMMA BindFoldOK ==
    ASSUME NEW v, NEW f, NEW n \in Nat, NEW mode \in {"test", "train"}, NEW bound,
           EnvOK(v, bound, n), f \in bound, IsSpan(f, n)
    PROVE  EnvOK(BindFold(v, f, mode, n), bound, n)
<1> DEFINE b == BindFold(v, f, mode, n)
<1>0. PICK e \in Nat : e = v.embargo
  BY DEF EnvOK
<1>1. /\ Ascending(f.test) \in Seq(f.test) /\ Len(Ascending(f.test)) > 0
      /\ Ascending(TrainWindow(f, n, e)) \in Seq(BeforeTest(f, n, e))
      /\ BeforeTest(f, n, e) # {} => Len(Ascending(TrainWindow(f, n, e))) > 0
      /\ f.test \subseteq Int /\ BeforeTest(f, n, e) \subseteq 0 .. (n - 1)
  BY BoundWindows
<1>2. PICK active :
          active = Ascending(IF mode = "test" THEN f.test ELSE TrainWindow(f, n, e))
  OBVIOUS
<1>3. b = [v EXCEPT !.fold = f, !.mode = mode, !.stepped = {}, !.active = active]
  BY <1>0, <1>2 DEF BindFold
<1>4. /\ IsEnv(b) /\ b.fold = f /\ b.mode = mode /\ b.cursor = v.cursor
      /\ b.embargo = e /\ b.stepped = {} /\ b.active = active
  BY <1>0, <1>3 DEF EnvOK, IsEnv
<1>5. PICK window : window = EpisodeWindow(f, mode, n, e)
  OBVIOUS
<1>6. active \in Seq(window) /\ (active = <<>> => window = 0 .. (n - 1))
  <2>1. CASE mode = "test"
    BY <1>1, <1>2, <1>5, <2>1, EmptySeq DEF EpisodeWindow
  <2>2. CASE mode = "train" /\ BeforeTest(f, n, e) # {}
    BY <1>1, <1>2, <1>5, <2>2, EmptySeq DEF EpisodeWindow
  <2>3. CASE mode = "train" /\ BeforeTest(f, n, e) = {}
    <3>1. window = 0 .. (n - 1)
      BY <1>5, <2>3 DEF EpisodeWindow
    <3>2. active \in Seq(BeforeTest(f, n, e))
      BY <1>1, <1>2, <2>3
    <3> QED
      BY <1>1, <3>1, <3>2, SeqMonotonic
  <2> QED
    BY <2>1, <2>2, <2>3
<1>7. window \subseteq Int
  BY <1>1, <1>5 DEF EpisodeWindow
<1>8. active \in Seq(Int)
  BY <1>6, <1>7, SeqMonotonic
<1>9. InWindow(f, mode, n, e, active, {})
  BY <1>5, <1>6 DEF InWindow, Within
<1> HIDE DEF b
<1>10. v.cursor \in Nat
  BY DEF EnvOK
<1>11. EnvOK(b, bound, n)
  BY <1>4, <1>8, <1>9, <1>10 DEF EnvOK
<1> QED
  BY <1>11 DEF b

(***************************************************************************)
(* reset() replaces the active bars only when there are none, which a      *)
(* window with bars never meets; afterwards there is a bar to step on.     *)
(***************************************************************************)
LEMMA ResetEnvOK ==
    ASSUME NEW v, NEW start \in Nat, NEW n \in Nat \ {0}, NEW bound, EnvOK(v, bound, n)
    PROVE  /\ EnvOK(ResetEnv(v, start, n), bound, n)
           /\ ResetEnv(v, start, n).cursor = start
           /\ Len(ResetEnv(v, start, n).active) > 0
           /\ ResetEnv(v, start, n).episodeLength = v.episodeLength
<1> DEFINE r == ResetEnv(v, start, n)
<1>1. PICK active : active = ActiveOrAll(v.active, n)
  OBVIOUS
<1>2. r = [v EXCEPT !.active = active, !.cursor = start, !.stepInEpisode = 0,
                    !.terminated = FALSE]
  BY <1>1 DEF ResetEnv
<1>3. /\ IsEnv(r) /\ r.fold = v.fold /\ r.mode = v.mode /\ r.cursor = start
      /\ r.stepped = v.stepped /\ r.active = active /\ r.episodeLength = v.episodeLength
      /\ r.embargo = v.embargo
  BY <1>2 DEF EnvOK, IsEnv
<1>4. /\ Ascending(0 .. (n - 1)) \in Seq(0 .. (n - 1)) /\ Len(Ascending(0 .. (n - 1))) > 0
  <2>1. PICK last \in Int : last = n - 1 /\ 0 <= last
    OBVIOUS
  <2>2. 0 \in Int
    OBVIOUS
  <2>3. Ascending(0 .. last) \in Seq(0 .. last) /\ Len(Ascending(0 .. last)) > 0
    BY <2>1, <2>2, AscendingSpan
  <2> QED
    BY <2>1, <2>3
<1>5. Ascending(0 .. (n - 1)) \in Seq(Int)
  BY <1>4, SeqMonotonic
<1>6. active \in Seq(Int) /\ Len(active) > 0
  <2>1. v.active \in Seq(Int) /\ (v.active # <<>> => Len(v.active) > 0)
    BY EmptySeq DEF EnvOK
  <2> QED
    BY <1>1, <1>4, <1>5, <2>1 DEF ActiveOrAll
<1>7. ASSUME NEW window, Within(v.active, v.stepped, window, n)
      PROVE  Within(active, v.stepped, window, n)
  <2>1. CASE v.active # <<>>
    BY <1>1, <1>7, <2>1 DEF ActiveOrAll, Within
  <2>2. CASE v.active = <<>>
    BY <1>1, <1>4, <1>7, <2>2 DEF ActiveOrAll, Within
  <2> QED
    BY <2>1, <2>2
<1> HIDE DEF r
<1>8. EnvOK(r, bound, n)
  <2>1. ASSUME v.fold # None
        PROVE  /\ v.fold \in bound
               /\ InWindow(v.fold, v.mode, n, v.embargo, active, v.stepped)
    BY <1>7, <2>1 DEF EnvOK, InWindow
  <2>2. v.embargo \in Nat
    BY DEF EnvOK
  <2> QED
    BY <1>3, <1>6, <2>1, <2>2 DEF EnvOK
<1> QED
  BY <1>3, <1>6, <1>8 DEF r

(***************************************************************************)
(* step() trades an active bar, and reports terminated when it was the     *)
(* last one.                                                               *)
(***************************************************************************)
LEMMA StepEnvOK ==
    ASSUME NEW v, NEW bound, NEW n, EnvOK(v, bound, n), CanStep(v)
    PROVE  /\ EnvOK(StepEnv(v), bound, n)
           /\ ~StepEnv(v).terminated => CanStep(StepEnv(v))
           /\ StepEnv(v).episodeLength = v.episodeLength
<1> DEFINE s == StepEnv(v)
<1>1. /\ IsEnv(v) /\ v.cursor \in Nat /\ v.active \in Seq(Int) /\ v.cursor < Len(v.active)
      /\ v.embargo \in Nat
  BY DEF EnvOK, CanStep
<1>2. PICK bar, stepped, cursor, episode, over :
          /\ bar = v.active[v.cursor + 1] /\ stepped = v.stepped \cup {bar}
          /\ cursor = v.cursor + 1 /\ episode = v.stepInEpisode + 1
          /\ over = EpisodeEnds(v)
  OBVIOUS
<1>3. s = [v EXCEPT !.stepped = stepped, !.cursor = cursor, !.stepInEpisode = episode,
                    !.terminated = over]
  BY <1>2 DEF StepEnv
<1>4. /\ IsEnv(s) /\ s.fold = v.fold /\ s.mode = v.mode /\ s.cursor = cursor
      /\ s.stepped = stepped /\ s.active = v.active /\ s.terminated = over
      /\ s.episodeLength = v.episodeLength /\ s.embargo = v.embargo
  BY <1>1, <1>3 DEF IsEnv
<1> HIDE DEF s
<1>5. ASSUME NEW window, Within(v.active, v.stepped, window, n)
      PROVE  Within(v.active, stepped, window, n)
  <2>1. v.cursor + 1 \in 1 .. Len(v.active)
    BY <1>1, LenProperties
  <2>2. bar \in window
    BY <1>2, <1>5, <2>1, ElementOfSeq DEF Within
  <2> QED
    BY <1>2, <1>5, <2>2 DEF Within
<1>6. EnvOK(s, bound, n)
  <2>1. ASSUME v.fold # None
        PROVE  /\ v.fold \in bound
               /\ InWindow(v.fold, v.mode, n, v.embargo, v.active, stepped)
    BY <1>5, <2>1 DEF EnvOK, InWindow
  <2> QED
    BY <1>1, <1>2, <1>4, <2>1 DEF EnvOK
<1>7. ~s.terminated => CanStep(s)
  <2>1. Len(v.active) \in Nat
    BY <1>1, LenProperties
  <2>2. ~over => v.cursor + 1 < Len(v.active)
    BY <1>1, <1>2, <2>1 DEF EpisodeEnds
  <2> QED
    BY <1>2, <1>4, <2>2 DEF CanStep
<1> QED
  BY <1>4, <1>6, <1>7 DEF s

\* A policy is trained on an environment that always has a bar to step on.
ReadyToLearn(e) == CanStep(e) /\ e.episodeLength = None

(***************************************************************************)
(* The state of a job: it works with folds of the history it loaded, and   *)
(* with an environment bound to one of them.                               *)
(***************************************************************************)
JobInv ==
    /\ SplitInv /\ BarsInv
    /\ job # "none" => nSamples = nBars
    /\ job = "none" => selected = None
    /\ at \in Nat \ {0}
    /\ selected # None => splitPhase = "done" /\ DOMAIN selected = 1 .. Len(selected)
    /\ \A f \in HandFolds : \E i \in DOMAIN folds : f = folds[i]
    /\ env # None => selected # None /\ EnvOK(env, HandFolds, nBars)
    /\ job = "train" /\ env # None => ReadyToLearn(env)

(***************************************************************************)
(* The folds a job works with are spans of its history.                    *)
(***************************************************************************)
LEMMA JobFoldsAreSpans ==
    ASSUME JobInv, NEW f \in HandFolds
    PROVE  /\ IsSpan(f, nBars) /\ splitter.embargo \in Nat
           /\ nBars \in Nat \ {0}
<1>1. PICK i \in DOMAIN folds : f = folds[i]
  BY DEF JobInv
<1>2. PICK a \in Nat, b \in Nat : IsFoldOver(folds[i], a, b)
  BY DEF JobInv, SplitInv, FoldShapes
<1>3. selected # None
  BY DEF HandFolds
<1>4. nSamples = nBars
  BY <1>3 DEF JobInv
<1>5. splitter.embargo \in Nat
  BY Attributes DEF JobInv, SplitInv
<1>6. nBars \in Nat \ {0}
  BY SplitterAssumption DEF JobInv, BarsInv
<1> QED
  BY <1>1, <1>2, <1>4, <1>5, <1>6 DEF IsFoldOver, IsSpan

\* The steps that work through the folds leave the splitter and the choice alone.
AtWork == UNCHANGED <<splitVars, nBars, job, selected>>

\* A step that changes only the environment and the place in the job keeps the
\* invariant if the environment stays good.
LEMMA AtWorkPreserves ==
    ASSUME JobInv, AtWork, at' \in Nat \ {0},
           env' # None => selected # None /\ EnvOK(env', HandFolds, nBars),
           job = "train" /\ env' # None => ReadyToLearn(env')
    PROVE  JobInv'
<1>1. SplitInv'
  BY StutterPreserves DEF JobInv, AtWork
<1>2. /\ BarsInv' /\ nSamples' = nSamples /\ splitPhase' = splitPhase /\ folds' = folds
      /\ nBars' = nBars /\ job' = job /\ selected' = selected /\ HandFolds' = HandFolds
  BY DEF AtWork, splitVars, BarsInv, JobInv, HandFolds
<1>3. EnvOK(env, HandFolds, nBars)' = EnvOK(env', HandFolds, nBars)
  BY <1>2 DEF EnvOK, IsEnv, InWindow, Within
<1>4. ReadyToLearn(env)' = ReadyToLearn(env')
  BY DEF ReadyToLearn, CanStep
<1> QED
  BY <1>1, <1>2, <1>3, <1>4 DEF JobInv

\* A job that ends leaves no environment behind.
LEMMA EndJobPreserves ==
    ASSUME JobInv, EndJob
    PROVE  JobInv'
<1>1. SplitInv'
  BY StutterPreserves DEF JobInv, EndJob
<1>2. BarsInv' /\ job' = "none" /\ selected' = None /\ env' = None /\ at' = 1
  BY DEF EndJob, BarsInv, JobInv
<1>3. HandFolds' = {}
  BY <1>2 DEF HandFolds
<1> QED
  BY <1>1, <1>2, <1>3 DEF JobInv

(***************************************************************************)
(* Choosing folds keeps folds the splitter yielded.                        *)
(***************************************************************************)
LEMMA ChoosePreserves ==
    ASSUME JobInv, Choose
    PROVE  JobInv'
<1>1. SplitInv' /\ BarsInv'
  BY StutterPreserves DEF JobInv, Choose, BarsInv
<1>2. /\ env = None /\ env' = None /\ job # "none" /\ splitPhase' = "done"
      /\ nSamples' = nSamples /\ nBars' = nBars /\ folds' = folds /\ job' = job
      /\ at' = at /\ selected' = Chosen
  BY DEF JobInv, Choose, splitVars
<1>3. folds \in Seq(Fold)
  BY DEF JobInv, SplitInv, SplitTypeOK
<1>4. /\ DOMAIN Chosen = 1 .. Len(Chosen)
      /\ \A k \in DOMAIN Chosen : \E i \in DOMAIN folds : Chosen[k] = folds[i]
  <2>1. CASE onlyFold = None
    BY <1>3, <2>1, LenProperties DEF Chosen
  <2>2. CASE onlyFold # None /\ WithId(onlyFold) = {}
    BY <2>2, EmptySeq DEF Chosen
  <2>3. CASE onlyFold # None /\ WithId(onlyFold) # {}
    <3>1. PICK i : i = CHOOSE j \in WithId(onlyFold) : TRUE
      OBVIOUS
    <3>2. i \in DOMAIN folds
      BY <2>3, <3>1 DEF WithId
    <3>3. Chosen = <<folds[i]>>
      BY <2>3, <3>1 DEF Chosen
    <3> QED
      BY <3>2, <3>3
  <2> QED
    BY <2>1, <2>2, <2>3
<1>5. \A f \in HandFolds' : \E i \in DOMAIN folds' : f = folds'[i]
  BY <1>2, <1>4 DEF HandFolds
<1> QED
  BY <1>1, <1>2, <1>4, <1>5 DEF JobInv

\* The three jobs.
StartsJob ==
    \/ StartJob("report", None) \/ StartJob("hand", None)
    \/ \E f \in {None, 0, 1} : StartJob("train", f)

(***************************************************************************)
(* Starting a job and running its splitter happen before it has folds.     *)
(***************************************************************************)
LEMMA LoadingPreserves ==
    ASSUME JobInv,
           AddBar \/ RunSplit \/ StartsJob
    PROVE  JobInv'
<1>1. PICK kind, f : AddBar \/ RunSplit \/ StartJob(kind, f)
  BY DEF StartsJob
<1>2. SplitInv'
  <2>1. CASE AddBar
    BY <2>1, StutterPreserves DEF AddBar, JobInv
  <2>2. CASE RunSplit
    BY <2>2, YieldPreserves, EndPreserves DEF RunSplit, JobInv
  <2>3. CASE StartJob(kind, f)
    <3>1. nBars \in Nat
      BY SplitterAssumption DEF JobInv, BarsInv
    <3> QED
      BY <2>3, <3>1, SplitPreserves DEF StartJob, JobInv
  <2> QED
    BY <1>1, <2>1, <2>2, <2>3
<1>3. BarsInv'
  BY <1>1, SplitterAssumption DEF AddBar, RunSplit, StartJob, JobInv, BarsInv
<1>4. /\ selected = None /\ selected' = None /\ env' = None /\ at' = at
      /\ job' # "none" => nSamples' = nBars'
  <2>1. CASE AddBar
    BY <2>1 DEF AddBar, JobInv, progress
  <2>2. CASE RunSplit
    BY <2>2 DEF RunSplit, YieldFold, EndSplit, JobInv, progress
  <2>3. CASE StartJob(kind, f)
    BY <2>3 DEF StartJob, Split, JobInv, progress
  <2> QED
    BY <1>1, <2>1, <2>2, <2>3
<1>5. HandFolds' = {}
  BY <1>4 DEF HandFolds
<1> QED
  BY <1>2, <1>3, <1>4, <1>5 DEF JobInv

\* Training binds folds of its own split.
LEMMA TrainPreserves ==
    ASSUME JobInv, Train
    PROVE  JobInv'
<1>1. nBars \in Nat \ {0} /\ at \in Nat \ {0}
  BY SplitterAssumption DEF JobInv, BarsInv
<1>2. CASE BeginFold
  <2>1. PICK f : f = selected[at]
    OBVIOUS
  <2>2. f \in HandFolds
    BY <1>1, <1>2, <2>1 DEF BeginFold, Working, JobInv, HandFolds
  <2>3. IsSpan(f, nBars) /\ splitter.embargo \in Nat
    BY <2>2, JobFoldsAreSpans
  <2>4. EnvOK(NewEnv(f, splitter.embargo, None), HandFolds, nBars) /\ NewEnv(f, splitter.embargo, None).episodeLength = None
    BY <1>1, <2>2, <2>3, NewEnvOK DEF NewEnv
  <2>5. env' = ResetEnv(NewEnv(f, splitter.embargo, None), 0, nBars)
    BY <1>2, <2>1 DEF BeginFold
  <2>6. EnvOK(env', HandFolds, nBars) /\ ReadyToLearn(env')
    BY <1>1, <2>4, <2>5, ResetEnvOK DEF ReadyToLearn, CanStep
  <2>7. AtWork /\ at' = at /\ selected # None
    BY <1>2 DEF AtWork, BeginFold, Working, splitVars
  <2> QED
    BY <1>1, <2>6, <2>7, AtWorkPreserves
<1>3. CASE LearnStep
  <2>1. EnvOK(env, HandFolds, nBars) /\ ReadyToLearn(env) /\ selected # None
    BY <1>3 DEF LearnStep, Working, JobInv
  <2>2. PICK stepped : stepped = StepEnv(env)
    OBVIOUS
  <2>3. /\ EnvOK(stepped, HandFolds, nBars)
        /\ ~stepped.terminated => CanStep(stepped)
        /\ stepped.episodeLength = None
    BY <2>1, <2>2, StepEnvOK DEF ReadyToLearn
  <2>4. PICK again : again = ResetEnv(stepped, 0, nBars)
    OBVIOUS
  <2>5. EnvOK(again, HandFolds, nBars) /\ ReadyToLearn(again)
    BY <1>1, <2>3, <2>4, ResetEnvOK DEF ReadyToLearn, CanStep
  <2>6. env' = IF stepped.terminated THEN again ELSE stepped
    BY <1>3, <2>2, <2>4 DEF LearnStep
  <2>7. EnvOK(env', HandFolds, nBars) /\ ReadyToLearn(env')
    BY <2>3, <2>5, <2>6 DEF ReadyToLearn
  <2>8. AtWork /\ at' = at
    BY <1>3 DEF AtWork, LearnStep, splitVars
  <2> QED
    BY <1>1, <2>1, <2>7, <2>8, AtWorkPreserves
<1>4. CASE EndFold
  <2>1. AtWork /\ at' = at + 1 /\ env' = None
    BY <1>4 DEF AtWork, EndFold, splitVars
  <2> QED
    BY <1>1, <2>1, AtWorkPreserves
<1>5. CASE SavePolicy
  BY <1>5, EndJobPreserves DEF SavePolicy
<1> QED
  BY <1>2, <1>3, <1>4, <1>5 DEF Train

\* The report steps through the test windows of its own split.
LEMMA ReportPreserves ==
    ASSUME JobInv, Report
    PROVE  JobInv'
<1>1. CASE EvaluateFold
  <2>1. AtWork /\ at' = at + 1 /\ env' = env /\ at \in Nat \ {0}
    BY <1>1 DEF AtWork, EvaluateFold, splitVars, JobInv
  <2>2. /\ env' # None => selected # None /\ EnvOK(env', HandFolds, nBars)
        /\ job = "train" /\ env' # None => ReadyToLearn(env')
    BY <2>1 DEF JobInv
  <2> QED
    BY <2>1, <2>2, AtWorkPreserves
<1>2. CASE EndReport
  BY <1>2, EndJobPreserves DEF EndReport
<1> QED
  BY <1>1, <1>2 DEF Report

(***************************************************************************)
(* An environment driven by hand is built with a fold, with none, and      *)
(* bound again by the options of reset().                                  *)
(***************************************************************************)
LEMMA HandPreserves ==
    ASSUME JobInv, Hand
    PROVE  JobInv'
<1>1. nBars \in Nat \ {0} /\ at \in Nat \ {0} /\ splitter.embargo \in Nat
  BY SplitterAssumption, Attributes DEF JobInv, BarsInv, SplitInv
<1>2. ASSUME HandTurn PROVE AtWork /\ at' = at /\ job = "hand" /\ selected # None
  BY <1>2 DEF AtWork, HandTurn, Working, splitVars
<1>3. \A f \in HandFolds : IsSpan(f, nBars)
  BY JobFoldsAreSpans
<1>4. ASSUME NEW f \in HandFolds \cup {None}, NEW e \in EnvEmbargoes, NEW len,
             HandBuild(f, e, len)
      PROVE  JobInv'
  <2>1. HandTurn /\ env' = NewEnv(f, e, len)
    BY <1>4 DEF HandBuild
  <2>2. EnvOK(NewEnv(f, e, len), HandFolds, nBars)
    BY <1>1, <1>3, NewEnvOK, TrainingAssumption
  <2> QED
    BY <1>1, <1>2, <2>1, <2>2, AtWorkPreserves
<1>5. ASSUME NEW f \in HandFolds \cup {None}, NEW mode \in {"test", "train"},
             NEW start \in 0 .. 1, HandReset(f, mode, start)
      PROVE  JobInv'
  <2>1. PICK bound : bound = IF f = None THEN env
                             ELSE BindFold(env, f, mode, nBars)
    OBVIOUS
  <2>2. HandTurn /\ env # None /\ env' = ResetEnv(bound, start, nBars)
    BY <1>5, <2>1 DEF HandReset
  <2>3. EnvOK(env, HandFolds, nBars)
    BY <2>2 DEF JobInv
  <2>4. EnvOK(bound, HandFolds, nBars)
    <3>1. CASE f = None
      BY <2>1, <2>3, <3>1
    <3>2. CASE f # None
      <4>1. f \in HandFolds /\ IsSpan(f, nBars)
        BY <1>3, <3>2
      <4>2. EnvOK(BindFold(env, f, mode, nBars), HandFolds, nBars)
        BY <1>1, <2>3, <4>1, BindFoldOK
      <4> QED
        BY <2>1, <3>2, <4>2
    <3> QED
      BY <3>1, <3>2
  <2>5. EnvOK(env', HandFolds, nBars)
    <3>1. start \in Nat
      OBVIOUS
    <3> QED
      BY <1>1, <2>2, <2>4, <3>1, ResetEnvOK
  <2> QED
    BY <1>1, <1>2, <2>2, <2>5, AtWorkPreserves
<1>6. CASE HandStep
  <2>1. HandTurn /\ env # None /\ CanStep(env) /\ env' = StepEnv(env)
    BY <1>6 DEF HandStep
  <2>2. EnvOK(env', HandFolds, nBars)
    BY <2>1, StepEnvOK DEF JobInv
  <2> QED
    BY <1>1, <1>2, <2>1, <2>2, AtWorkPreserves
<1>7. CASE EndHand
  BY <1>7, EndJobPreserves DEF EndHand
<1> QED
  BY <1>4, <1>5, <1>6, <1>7 DEF Hand

\* Whatever job runs, and wherever a training dies, a job works with folds of the
\* history it loaded and with an environment bound to one of them (train_router.py,
\* walk_forward_report.py).
THEOREM JobInvariant == Spec => []JobInv
<1>1. Init => JobInv
  <2> SUFFICES ASSUME Init PROVE JobInv
    OBVIOUS
  <2>1. SplitInv /\ BarsInv
    BY InitInv, BarsInit DEF Init
  <2>2. HandFolds = {}
    BY DEF Init, HandFolds
  <2> QED
    BY <2>1, <2>2 DEF Init, JobInv
<1>2. JobInv /\ [Next]_vars => JobInv'
  <2> SUFFICES ASSUME JobInv, [Next]_vars PROVE JobInv'
    OBVIOUS
  <2>1. CASE AddBar \/ RunSplit \/ StartsJob
    BY <2>1, LoadingPreserves
  <2>2. CASE Choose
    BY <2>2, ChoosePreserves
  <2>3. CASE NoFolds \/ TrainingDies
    BY <2>3, EndJobPreserves DEF NoFolds, TrainingDies
  <2>4. CASE Train
    BY <2>4, TrainPreserves
  <2>5. CASE Report
    BY <2>5, ReportPreserves
  <2>6. CASE Hand
    BY <2>6, HandPreserves
  <2>7. CASE UNCHANGED vars
    <3>1. AtWork /\ at' = at /\ env' = env
      BY <2>7 DEF vars, AtWork, splitVars
    <3>2. /\ env' # None => selected # None /\ EnvOK(env', HandFolds, nBars)
          /\ job = "train" /\ env' # None => ReadyToLearn(env')
          /\ at \in Nat \ {0}
      BY <3>1 DEF JobInv
    <3> QED
      BY <3>1, <3>2, AtWorkPreserves
  <2> QED
    BY <2>1, <2>2, <2>3, <2>4, <2>5, <2>6, <2>7 DEF Next, StartsJob
<1> QED
  BY <1>1, <1>2, PTL DEF Spec

(***************************************************************************)
(* An episode bound to a fold reads its test bars only, or only bars its   *)
(* own embargo keeps before them, and the whole history where there are    *)
(* none of those: for every splitter, history, embargo, episode length     *)
(* and sequence of resets (gym_trading_env.py:206-232, 309-311).           *)
(***************************************************************************)
THEOREM EpisodesInWindow == Spec => []EpisodesStayInWindow
<1>1. JobInv => EpisodesStayInWindow
  BY DEF JobInv, EpisodesStayInWindow, EnvOK, InWindow, Within
<1> QED
  BY <1>1, JobInvariant, PTL

(***************************************************************************)
(* However many timesteps a learn() call takes and wherever it cuts the    *)
(* episodes, training never steps an exhausted environment (line 338).     *)
(***************************************************************************)
THEOREM TrainingNeverExhausts == Spec => []EpisodeNeverExhausted
<1>1. JobInv => EpisodeNeverExhausted
  BY DEF JobInv, EpisodeNeverExhausted, Working, ReadyToLearn
<1> QED
  BY <1>1, JobInvariant, PTL

(***************************************************************************)
(* The fold a job trains on when it is asked for one by its id is the one  *)
(* with that id, and there is at most one (train_router.py:67-70).         *)
(***************************************************************************)
THEOREM FoldsKnownById ==
    Spec => [](\A i, j \in DOMAIN folds : folds[i].id = folds[j].id => i = j)
<1>1. SplitInv => \A i, j \in DOMAIN folds : folds[i].id = folds[j].id => i = j
  BY DEF SplitInv, FoldIds, SplitTypeOK
<1> QED
  BY <1>1, JobsUseSplitter, SplitInvariant, PTL
=============================================================================
