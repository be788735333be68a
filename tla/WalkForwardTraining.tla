--------------------------- MODULE WalkForwardTraining ---------------------------
(***************************************************************************)
(* The walk-forward jobs over one growing bar history: train_ppo_router    *)
(* (models/ppo/train_router.py), run_walk_forward_report                   *)
(* (pipeline/walk_forward_report.py) and a user driving TradingRoutingEnv  *)
(* by hand, as the smoke test does.  Each job calls the splitter of        *)
(* PurgedWalkForward, then works through the folds with RoutingEnv.  Jobs  *)
(* run one at a time; a training job may die at any point.                 *)
(*                                                                         *)
(* A policy is represented by the set of bars its training stepped         *)
(* through.                                                                *)
(***************************************************************************)
EXTENDS RoutingEnv

CONSTANTS FirstBars,      \* bars in the history at the start
          Timesteps,      \* total_timesteps of one learn() call
          EpisodeLengths, \* episode_length of a hand-driven environment
          EnvEmbargoes,   \* its purge_embargo, which has a default of its own
          MaxHandSteps,   \* bound on a hand-driven environment's operations
          MaxJobs         \* bound on the jobs started

ASSUME TrainingAssumption ==
    /\ FirstBars \in 1 .. MaxSamples
    /\ Timesteps \in Nat \ {0}
    /\ EpisodeLengths \subseteq (Nat \ {0}) \cup {None}
    /\ EnvEmbargoes \subseteq Nat
    /\ MaxHandSteps \in Nat /\ MaxJobs \in Nat

VARIABLES nBars,     \* rows of build_training_data
          job,       \* "none", "train", "report" or "hand"
          jobs,      \* jobs started
          onlyFold,  \* train_ppo_router's fold_id option
          selected,  \* the folds the job works through; None until chosen
          at,        \* the fold the job works at
          env,       \* the environment, None before it is built
          learned,   \* steps of the current learn() call
          model,     \* the policy in memory
          policyFile,\* the saved PPO router, None when there is none
          rows,      \* rows of the last report: bars evaluated and policy used
          handSteps

progress == <<selected, at, env, learned, model>>
vars == <<splitter, nSamples, splitPhase, foldId, testStart, folds, nBars, job, jobs,
          onlyFold, selected, at, env, learned, model, policyFile, rows, handSteps>>

Init ==
    /\ SplitInit
    /\ nBars = FirstBars
    /\ job = "none" /\ jobs = 0 /\ onlyFold = None
    /\ selected = None /\ at = 1 /\ env = None /\ learned = 0 /\ model = {}
    /\ policyFile = None /\ rows = <<>> /\ handSteps = 0

\* The vendor delivers another bar between jobs.
AddBar ==
    /\ job = "none" /\ nBars < MaxSamples
    /\ nBars' = nBars + 1
    /\ UNCHANGED <<splitVars, job, jobs, onlyFold, progress, policyFile, rows, handSteps>>

\* A job loads the data and calls list(splitter.split(n_steps)).
StartJob(kind, fold) ==
    /\ job = "none" /\ jobs < MaxJobs
    /\ Split(nBars)
    /\ job' = kind /\ jobs' = jobs + 1 /\ onlyFold' = fold
    /\ rows' = IF kind = "report" THEN <<>> ELSE rows
    /\ UNCHANGED <<nBars, progress, policyFile, handSteps>>

\* The generator runs to its end inside list().
RunSplit ==
    /\ job # "none"
    /\ YieldFold \/ EndSplit
    /\ UNCHANGED <<nBars, job, jobs, onlyFold, progress, policyFile, rows, handSteps>>

\* The folds the job keeps: all of them, or the one with the id asked for (ids
\* count up from zero, so no two folds share one).
WithId(id) == {i \in DOMAIN folds : folds[i].id = id}

Chosen ==
    IF onlyFold = None THEN folds
    ELSE IF WithId(onlyFold) = {} THEN <<>>
    ELSE <<folds[CHOOSE i \in WithId(onlyFold) : TRUE]>>

Choose ==
    /\ job # "none" /\ splitPhase = "done" /\ selected = None
    /\ Chosen # <<>>
    /\ selected' = Chosen
    /\ UNCHANGED <<splitVars, nBars, job, jobs, onlyFold, at, env, learned, model,
                   policyFile, rows, handSteps>>

\* A job's local variables go with it.
EndJob ==
    /\ job' = "none" /\ onlyFold' = None
    /\ selected' = None /\ at' = 1 /\ env' = None /\ learned' = 0 /\ model' = {}
    /\ handSteps' = 0
    /\ UNCHANGED <<splitVars, nBars, jobs, rows>>

\* ValueError: too few samples, no folds, or no fold with the id asked for.
NoFolds ==
    /\ job # "none" /\ selected = None
    /\ splitPhase = "raised" \/ (splitPhase = "done" /\ Chosen = <<>>)
    /\ EndJob /\ UNCHANGED policyFile

Working(kind) == job = kind /\ selected # None

-----------------------------------------------------------------------------
(* train_ppo_router *)

\* make_env binds the fold and passes the embargo the folds were split with;
\* DummyVecEnv resets it before the first step.
BeginFold ==
    /\ Working("train") /\ at <= Len(selected) /\ env = None
    /\ env' = ResetEnv(NewEnv(selected[at], splitter.embargo, None), 0, nBars)
    /\ learned' = 0
    /\ UNCHANGED <<splitVars, nBars, job, jobs, onlyFold, selected, at, model,
                   policyFile, rows, handSteps>>

\* One step of model.learn(); a terminated episode is reset by the VecEnv.
LearnStep ==
    /\ Working("train") /\ env # None /\ learned < Timesteps /\ CanStep(env)
    /\ LET stepped == StepEnv(env) IN
       /\ env' = IF stepped.terminated THEN ResetEnv(stepped, 0, nBars) ELSE stepped
       /\ model' = model \cup stepped.stepped
    /\ learned' = learned + 1
    /\ UNCHANGED <<splitVars, nBars, job, jobs, onlyFold, selected, at, policyFile, rows,
                   handSteps>>

EndFold ==
    /\ Working("train") /\ env # None /\ learned = Timesteps
    /\ at' = at + 1 /\ env' = None
    /\ UNCHANGED <<splitVars, nBars, job, jobs, onlyFold, selected, learned, model,
                   policyFile, rows, handSteps>>

\* model.save after the last fold.
SavePolicy ==
    /\ Working("train") /\ at > Len(selected)
    /\ policyFile' = model
    /\ EndJob

\* The job dies; the policy in memory is lost.
TrainingDies == job = "train" /\ EndJob /\ UNCHANGED policyFile

-----------------------------------------------------------------------------
(* run_walk_forward_report *)

\* _eval_fold: the policy saved, or equal weights, over the fold's test bars.
EvaluateFold ==
    /\ Working("report") /\ at <= Len(selected)
    /\ rows' = Append(rows, [bars |-> selected[at].test, policy |-> policyFile])
    /\ at' = at + 1
    /\ UNCHANGED <<splitVars, nBars, job, jobs, onlyFold, selected, env, learned, model,
                   policyFile, handSteps>>

EndReport == Working("report") /\ at > Len(selected) /\ EndJob /\ UNCHANGED policyFile

-----------------------------------------------------------------------------
(* An environment driven by hand *)

HandTurn ==
    /\ Working("hand") /\ handSteps < MaxHandSteps
    /\ handSteps' = handSteps + 1
    /\ UNCHANGED <<splitVars, nBars, job, jobs, onlyFold, selected, at, learned, model,
                   policyFile, rows>>

HandBuild(fold, embargo, len) ==
    HandTurn /\ env = None /\ env' = NewEnv(fold, embargo, len)

\* reset(options={"walk_forward_fold": fold, "mode": mode, "start_index": start}).
HandReset(fold, mode, start) ==
    /\ HandTurn /\ env # None
    /\ LET bound == IF fold = None THEN env
                    ELSE BindFold(env, fold, mode, nBars) IN
       /\ CanStartAt(bound, start, nBars)
       /\ env' = ResetEnv(bound, start, nBars)

HandStep == HandTurn /\ env # None /\ CanStep(env) /\ env' = StepEnv(env)

EndHand == Working("hand") /\ EndJob /\ UNCHANGED policyFile

HandFolds == IF selected = None THEN {} ELSE {selected[i] : i \in DOMAIN selected}

-----------------------------------------------------------------------------

Train == BeginFold \/ LearnStep \/ EndFold \/ SavePolicy
Report == EvaluateFold \/ EndReport
Hand ==
    \/ \E f \in HandFolds \cup {None}, e \in EnvEmbargoes, len \in EpisodeLengths :
          HandBuild(f, e, len)
    \/ \E f \in HandFolds \cup {None}, mode \in {"test", "train"}, start \in 0 .. 1 :
          HandReset(f, mode, start)
    \/ HandStep
    \/ EndHand

Next ==
    \/ AddBar
    \/ StartJob("report", None) \/ StartJob("hand", None)
    \/ \E f \in {None, 0, 1} : StartJob("train", f)
    \/ RunSplit \/ Choose \/ NoFolds
    \/ Train \/ TrainingDies
    \/ Report
    \/ Hand

Spec == Init /\ [][Next]_vars

-----------------------------------------------------------------------------
(* Properties *)

\* The splitter's two views of a purged fold.
FoldsPurged == TrainBeforeTest /\ ZoneSeparates

\* The bars that come more than an embargo before every test bar of a fold.
BeforeTest(fold, n, embargo) ==
    {x \in 0 .. (n - 1) : \A y \in fold.test : x + embargo < y}

\* The bars an episode bound to a fold may read.
EpisodeWindow(fold, mode, n, embargo) ==
    IF mode = "test" THEN fold.test
    ELSE IF BeforeTest(fold, n, embargo) # {} THEN BeforeTest(fold, n, embargo)
    ELSE 0 .. (n - 1)

(***************************************************************************)
(* Which bars an episode reads once a fold is bound, however the           *)
(* environment was bound and reset before: in test mode "only on           *)
(* fold.test_indices" (gym_trading_env.py:215), in train mode only bars    *)
(* its own embargo keeps away from the fold's test bars.  When there are   *)
(* none of those, line 216 ("only on purged fold.train_indices") does not  *)
(* hold: reset() falls back to every bar (lines 309-311), the test bars    *)
(* included, and all that is left to say is that they are bars of the      *)
(* history.                                                                *)
(***************************************************************************)
EpisodesStayInWindow ==
    env # None /\ env.fold # None =>
        env.stepped \subseteq EpisodeWindow(env.fold, env.mode, nBars, env.embargo)

(***************************************************************************)
(* DummyVecEnv resets an environment when it reports terminated and never  *)
(* otherwise, so training relies on step() reporting the end of the active *)
(* bars in time: the RuntimeError of an exhausted cursor (line 338) is out *)
(* of its reach, however the learn() calls cut across the episodes.        *)
(***************************************************************************)
EpisodeNeverExhausted == Working("train") /\ env # None => CanStep(env)

(***************************************************************************)
(* "Walk-forward out-of-sample report" (walk_forward_report.py:2): a fold  *)
(* is never scored with a policy that was trained on its test bars.        *)
(***************************************************************************)
OutOfSample ==
    \A i \in DOMAIN rows : rows[i].policy # None => rows[i].bars \cap rows[i].policy = {}
=============================================================================
