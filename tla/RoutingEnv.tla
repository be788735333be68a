------------------------------- MODULE RoutingEnv -------------------------------
(***************************************************************************)
(* rl/gym_trading_env.py: which bars an episode of TradingRoutingEnv steps *)
(* through.  An environment is a record; each method maps it to the next.  *)
(* Rewards and weights are numbers no property here depends on and are     *)
(* left out.  stepped is a history field: the bars stepped since the fold  *)
(* was bound.                                                              *)
(***************************************************************************)
EXTENDS PurgedWalkForward, FiniteSets

\* An index array: the bars of a set in order.
Ascending(S) ==
    [k \in 1 .. Cardinality(S) |-> CHOOSE x \in S : Cardinality({y \in S : y < x}) = k - 1]

\* __init__: without a fold there are no active indices until reset().
NewEnv(fold, embargo, episodeLength) ==
    [fold |-> fold, mode |-> "test", embargo |-> embargo, episodeLength |-> episodeLength,
     active |-> IF fold = None THEN <<>> ELSE Ascending(fold.test),
     cursor |-> 0, stepInEpisode |-> 0, terminated |-> TRUE, stepped |-> {}]

\* The training window set_walk_forward_fold computes for itself, from the
\* environment's own embargo, which need not be the splitter's.
TrainWindow_Unpurged(fold, n, embargo) == 0 .. (Min(fold.test) - 1)
TrainWindow(fold, n, embargo) ==
    PurgeIndices(0 .. (Min(fold.test) - 1), fold.test, n, embargo)

\* set_walk_forward_fold over n embedded bars.
BindFold(e, fold, mode, n) ==
    [e EXCEPT !.fold = fold, !.mode = mode, !.stepped = {},
              !.active = Ascending(IF mode = "test" THEN fold.test
                                   ELSE TrainWindow(fold, n, e.embargo))]

\* reset() falls back to every bar when the active set is empty.
ActiveOrAll(active, n) == IF active = <<>> THEN Ascending(0 .. (n - 1)) ELSE active

\* The start_index reset() accepts.
CanStartAt(e, start, n) == start \in 0 .. (Len(ActiveOrAll(e.active, n)) - 1)

\* reset() over n embedded bars, from an accepted start_index.
ResetEnv(e, start, n) ==
    [e EXCEPT !.active = ActiveOrAll(e.active, n), !.cursor = start,
              !.stepInEpisode = 0, !.terminated = FALSE]

\* step() raises on an exhausted cursor, and on nothing else.
CanStep(e) == e.cursor < Len(e.active)

\* The episode ends with the active bars or with episode_length.
EpisodeEnds_BarLate(e) ==
    \/ e.cursor + 1 > Len(e.active)
    \/ e.episodeLength # None /\ e.stepInEpisode + 1 >= e.episodeLength
EpisodeEnds(e) ==
    \/ e.cursor + 1 >= Len(e.active)
    \/ e.episodeLength # None /\ e.stepInEpisode + 1 >= e.episodeLength

\* step(): the bar under the cursor is traded.
StepEnv(e) ==
    [e EXCEPT !.stepped = @ \cup {e.active[e.cursor + 1]},
              !.cursor = @ + 1,
              !.stepInEpisode = @ + 1,
              !.terminated = EpisodeEnds(e)]
=============================================================================
