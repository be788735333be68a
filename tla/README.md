# Verification of the trading bot

TLA+ models of the bot's core, the TLC runs that check them on small instances,
and theorems about them that TLAPS proves for every value of the constants.
`PROJECT.json` holds the same project in tabular form: components, runs, the
source lines every definition models, hazards, findings and theorems. Paths
below are relative to the repository.

    tlc -workers 2 -config EventBacktester.cfg MCEventBacktester   # a run
    tlapm EventBacktesterProofs.tla                                # a proof module

## 1. Inventory

The bot trains an allocation policy over the returns of several strategy legs
and trades the resulting total exposure. Bars go into a SQLite store; a strategy
bank turns them into one row of leg returns per bar; point-in-time features feed
an xLSTM encoder; its embeddings are the observations of a routing environment
in which a PPO router learns weights, fold by fold of a purged walk-forward
split; a fine-tuning queue patches per-ticker heads into that router; at trading
time one process predicts weights, applies a circuit breaker, a Kelly overlay
and a diversification cap, and sends passive limit orders to a simulated or an
Alpaca broker. A dashboard edits the settings and starts the jobs.

| Component | State it keeps | Operations | What is hard | What makes it correct | Modelled in |
|---|---|---|---|---|---|
| Event-driven backtester (`backtesting/event_driven_backtester.py`) | event heap, history, open orders, cash, position, fills | `run`, `_process_market`, `_process_signal`, `_match_open_orders` | all MARKET events queued before the first is handled; bars share timestamps; several orders compete for one balance | no look-ahead, no double fill, never overdrawn, `run` returns, the account only moves by covered trades | `EventBacktester` (audits below line 365 not) |
| Simulated execution (`adapters/execution/backtest_execution.py`, `execution/limit_orders.py`) | acks, id table, pending list, positions, cash, last closes | submit, passive submit, cancel, `on_bar` | `on_fill` is called inside the loop and may submit and cancel | one fill per order, none after a cancel, none missed | `BacktestExecution` |
| Purged splitter (`rl/validation/purge.py`) | cursor of a generator, folds | `purge_indices`, `split` | remainders, zero sizes, embargoes | folds purged, tests apart, training windows expanding | `PurgedWalkForward` |
| Routing environment (`rl/gym_trading_env.py`) | active and training indices, cursor, mode | construct, bind a fold, `reset`, `step` | empty active set, end of episode | stays in the window of its mode, episodes end in time | `RoutingEnv` (rewards not) |
| Walk-forward jobs (`models/ppo/train_router.py`, `pipeline/walk_forward_report.py`, `pipeline/training_data.py`) | model in memory, saved policy, report rows | train, report, hand-driven smoke test | a job reuses what an earlier one saved, on a history that has grown | the report is out of sample | `WalkForwardTraining` |
| Fine-tune queue and provider (`pipeline/train_orchestrator.py`, `pipeline/orchestrator_provider.py`) | asyncio queue, unfinished count, workers, semaphore, pool threads, unlocked caches | `submit`, `start`, `join`, `stop`, worker loop, job | cancellation, threads that outlive their task, unlocked test-and-fill | count never wrong, jobs bounded, `join`/`stop` return and mean what they say | `TickerFineTuneQueue`; stages 1 and 2 in `EncoderArtifacts` |
| Live inference router (`core/policy_router.py`) | shared head and log_std, loaded ticker, lock | load, reset, predict | payload read outside the lock, copy in pieces, files rewritten meanwhile, payloads that lack parts or do not fit | no prediction on a half-applied head | `LiveInferenceRouter` |
| Alpaca execution (`adapters/execution/alpaca_execution.py`, `adapters/factory.py`) | breaker, feed flag, local acks | submit, cancel, list, feed up/down | lost answers, acks that do not follow the broker | breaker follows the feed, working orders are listed | `AlpacaExecution` |
| Paper trading loop (`pipeline/paper_trading_loop.py`) | the caller's settings dict, the report | `run_paper_loop` | the order of breaker, Kelly and cap; a handler of another class | breaker holds, caps hold, the run ends, a dry run is funded | `PaperTrading` |
| Risk manager (`core/risk_manager.py`) | none | `kelly_multipliers`, `apply_kelly_cap`, `cap_max_weight` | a loop that redistributes until stable | terminates, within the cap | `PaperTrading` (the Kelly window not) |
| Settings store and dashboard (`config/settings_store.py`, `frontend/app.py`) | YAML file, environment, each session's copy | load, save, reload, reset, edit, start a job | every click runs the whole script; a tab may raise; saves truncate the file; sessions share it | no edit is lost, saved is loaded, scripts end | `Dashboard` |
| Bar store and data handlers (`data/harvester/*`, `adapters/data/*`) | SQLite rows keyed by the text of a timestamp | upsert, load, windowed download, the bank's write-back | failed windows, three spellings of one day, prices rescaled by corporate actions | a complete download heals its range, whatever older rows the bank stores again; one bar per day for the bank | `BarStore` |
| Strategy bank and legs (`strategies/*`) | none | nine legs, alignment, dedupe | shifts, rolling windows, joins by position on calendars with holes | no leg reads a bar it could not have had | `DaySeries`, `StrategyBank` |
| Point-in-time features, training data, simulators (`data/features/*`, `pipeline/training_data.py`, `backtesting/portfolio_simulator.py`) | sentiment cache | feature frame, embeddings, `build_training_data`, weighing a bar | features lose rows to warm-up, downloads slide and have holes, the bank lags behind, SPY lacks days | observations and weights never read a later bar, rows stay aligned, a row depends on the bars up to its day | `PointInTime` |
| xLSTM encoder and artifacts (`models/xlstm/*`, `core/paths.py`) | best and frozen checkpoints, embedding cache | train, freeze, embed, resolve, cache | files of one run used by another, NaN losses, runs that die | checkpoints hold the best epoch; a training hands on its own encoder; what is trained is read | `EncoderArtifacts` |
| Metrics, monitors, scripts (`backtesting/metrics.py`, `pipeline/training_monitor.py`, `scripts/*`) | none | stateless formulas, read-only views, command lines | none | arithmetic and I/O | no |

How they interact: the bar store feeds the bank, the bank's rows and the
features become the training data; `PurgedWalkForward` folds are bound to
`RoutingEnv` instances by the jobs; the jobs share the policy file, the encoder's
trainings and readers share its directory; the queue's jobs share the provider's
caches across threads and write the payload files the live router reads; the
paper loop calls the risk manager and builds an execution handler from the
settings the dashboard edits; the fill callback of the simulated handler calls
back into it.

The hazards this gives are listed in `PROJECT.json`, each at its line with the
property that would catch it, or the reason none does. Six have no property: a
load and a predict that another thread comes between (`policy_router.py:198`), an
order that works at the broker after `submit_order` raised
(`alpaca_execution.py:248`), the dry run's change of the mode
(`paper_trading_loop.py:66`), the Kelly window (`risk_manager.py:108`), older
encoders (`xlstm/inference.py:23`) and features of a table with two rows a day
(`yfinance_handler.py:61`). A "note" also says what part of a hazard its properties
leave open.

## 2. Modules

| Module | Contents |
|---|---|
| `CashAccount` | abstract account: covered buys, covered sells, reopening |
| `EventBacktester` / `EventBacktesterProofs` | the replay; refines `CashAccount` / proofs |
| `BacktestExecution` | the simulated limit book and its re-entrant callback (proofs in `PortProofs`) |
| `PurgedWalkForward` | the splitter as a generator |
| `RoutingEnv` | EXTENDS the splitter: the environment as operators on a record |
| `WalkForwardTraining` / `WalkForwardTrainingProofs` | EXTENDS `RoutingEnv`: the jobs; implements the splitter's specification / proofs about the splitter and the jobs |
| `TickerFineTuneQueue` | event loop, workers, pool threads, provider caches (proofs in `OrchestratorProofs`) |
| `LiveInferenceRouter` / `LiveInferenceRouterProofs` | threads, lock, tensors and payload files / proofs |
| `AlpacaExecution` | the Alpaca handler and the broker as the handler can tell |
| `PaperTrading` / `PaperTradingProofs` | EXTENDS `AlpacaExecution`: the one-shot rebalance and the risk overlay / proofs |
| `Dashboard` / `DashboardProofs` | the settings file and the sessions of the control panel / proofs |
| `DaySeries` | what pandas' shift, rolling, diff, joins and reindex do to the bars a value depends on |
| `StrategyBank` | EXTENDS `DaySeries`: the nine legs and the bank |
| `PointInTime` / `PointInTimeProofs` | EXTENDS `StrategyBank`: features, embeddings, training data, weighing / proofs |
| `BarStore` | the table, the downloads, the bank's write-back |
| `PortProofs` | EXTENDS `BarStore` and `BacktestExecution`, the two ports with a state of their own: proofs |
| `EncoderArtifacts` | trainings, readers and their files |
| `OrchestratorProofs` | EXTENDS `EncoderArtifacts` and `TickerFineTuneQueue`: proofs |
| `MC*` | values of the constants for TLC |

How code becomes state and actions:

- **EventBacktester.** One action per iteration of the event loop and per
  iteration of the matching loop, so every intermediate balance is a state.
  `queue` is the heap, a set of events ordered by (timestamp, sequence). Prices
  and quantities are integers; the replay is of the one symbol `run` is given.
- **BacktestExecution.** `on_bar` is split at the callback: `pc = "callback"`
  lets the user submit and cancel any number of times before `ReturnFromCallback`.
  An ack is known by its number; acks enter the lists of the book in the order of
  submission and only ever leave them, so a list is a set of numbers and the loop
  visits the least one beyond its cursor. `walked` and `rebound` keep the list the
  loop iterates over once `_pending` has been rebound, which is what the Python
  list semantics do. `faced` is a history variable: the orders the bar at hand
  has to face, those pending when it began and those appended to that list since.
- **PurgedWalkForward, RoutingEnv, WalkForwardTraining.** Sets of bar numbers
  stand for index arrays. The environment has an embargo of its own
  (`purge_embargo`), which need not be the splitter's. A policy is the set of bars
  its training stepped through, which is all that "out of sample" depends on. Jobs
  run one at a time, as the scripts do; a training job may die at any point; the
  history grows.
- **TickerFineTuneQueue.** An action is what a task does between two awaits. Pool
  threads are processes of their own; a cancelled task releases its permit while
  its thread goes on. Every job raises where it builds its fold
  (`train_orchestrator.py:507`: two required arguments are missing), so no job of
  the model saves.
- **LiveInferenceRouter.** The head is copied tensor by tensor under the lock;
  the payload is read before it, from files another process rewrites in place. A
  payload may hold only some of the parts (`holds`): those it lacks stay as they
  are (`strict=False`, and `log_std` only if there is one). One made for another
  number of strategies raises inside the lock before a tensor has changed, since
  the shape of every part depends on that number.
- **AlpacaExecution, PaperTrading.** A caller's long-lived handler and the broker
  run beside the loop; calls of the handler and of the loop are on one thread.
  The broker is external: it may take an order and lose the answer, fill it or
  let it expire. Weight vectors are integer shares, exact because every vector in
  the pipeline is normalised or zero; a vector's total is the number of its shares.
  In Alpaca mode the loop always raises `AttributeError`, since the handler has
  neither `submit_passive_from_signal` nor `on_bar` (lines 139, 142).
- **Dashboard.** An interaction runs the whole script: the sidebar with its three
  buttons, then the tabs in order. A tab writes its widgets' values into the
  session's copy, may save and may run a job. Saving is `OpenFile` (truncate) and
  `Flush`, so a load or a crash fits in between. `st.rerun()` starts the script
  again, a job that raises ends its tab only, the server may die and the sessions
  with it. Settings are functions on leaf keys; a file is a partial function that
  the defaults complete.
- **DaySeries, StrategyBank, PointInTime.** A number is the set of bars it has
  been computed from, so "no look-ahead" is a statement about a set. Operators
  follow pandas by position in the index; the legs and the feature frame are
  compositions of them in the order of the code. `NextDay` adds a day, whose bar
  one or more calendars may lack; `Backfill` is a later sync that brings it.
  `BuildTrainingData` builds from what it reads (`Reading`): the bank's bars,
  which may be a day behind, and the bars of the features, which come from a
  download of the last `Period` days that may lack some of them, from the table
  when the download is empty, or from the bank when it raises. The score of
  today's filings is written for every day and kept in a file (`cache`).
  `Executed` pairs the n-th bar of the simulation with execution with the row
  whose weights it is traded with.
- **BarStore.** A key is a day and one of the three texts its timestamp may have
  (naive midnight, midnight with an offset, naive UTC). A price is the number of
  corporate actions it was adjusted for when it was downloaded, or `Raw`. A
  download asks window by window (`FetchChunk`, `FailChunk`) and stores at the end
  (`Upsert`), unless it is abandoned. For the bank, `fetch_bars` loads the table
  first (`download[j].loaded`) and answers with what it downloaded, or with those
  rows when nothing came; `WriteBack` is the bank storing that answer, a second
  time or under a third spelling, in a step of its own. `DailyBars` is what the
  bank makes of the table: a group of rows for each normalised timestamp, merged
  in the order their texts sort in.
- **EncoderArtifacts.** Weights are named `<<run, epoch>>`; the losses of a run
  are chosen as it goes, NaN included. A file is `Torn` from the moment it is
  opened until it is written. Trainers are `train_xlstm` and Stages 1–2 of the
  orchestrator, readers `build_training_data` and the embedding cache; each is one
  script of a process that may be killed at any step. `sameRoot` says whether
  `artifacts.root_dir` and `xlstm.checkpoint_dir` name one directory.

`TypeOK` of each module is checked while a model is developed and, where a proof
module has it in its invariant, proved; the runs spend their time on the
properties below.

## 3. Runs

State counts and times are of TLC with two workers. Deadlock is not checked in
any run: all of these systems may stop (a replay ends, callers stop calling, and
the bounds on calls are reached).

| Run | Instance | Shows |
|---|---|---|
| `event_backtester` | 3 bars over 2 timestamps, 2 quotes, latency 0 or 2, cash 4, 1 signal per bar of 4 kinds, 2 replays; 573,501 states, 24 s | `HistoryIsPrefix`, `NothingLate`, `NoEarlyFill`, `FilledOnce`, `ReplayTerminates`, `ImplementsCashAccount` |
| `backtest_execution` | 2 symbols (symmetric), 3 orders, 2 bars of 3 shapes, one client id that may be reused; 3.3 M states, 26 s | `FilledExactlyOnce`, `NoFillAfterCancel`, `NoMissedFill` |
| `walk_forward_training` | up to 8 bars, 1 or 3 splits, embargo 0 or 1, training minimum 1 or 2, test size default, 0, 1 or 2; an embargo of the environment of 0 or 2; learn calls of 3 steps, 2 jobs; 634,999 states, 22 s | `FoldsPurged`, `TestsApart`, `EpisodesStayInWindow`, `EpisodeNeverExhausted` |
| `walk_forward_out_of_sample` | up to 4 bars | **violated:** `OutOfSample` |
| `ticker_fine_tune_queue` | 2 tickers, 2 workers, limit 1 or 2, 3 requests; 479,856 states, 27 s | `GpuSerialized`, `JoinedMeansFinished`, `StoppedIsQuiet`, `ArraysFromOneBuild`, `CallsReturn` |
| `live_inference_router` | 2 threads, 2 tickers, 2 versions of a payload, each whole, without `log_std` or without the weights, fitting or not; 4 calls; 537,092 states, 52 s | `NeverHalfApplied`, `LoadedTickerNamesHead`, `CallsReturn` |
| `paper_trading` | 4 legs, 3 policies, 6 multiplier vectors, 8 settings dicts, 3 bars, 2 orders, 1 run; 39,657 states, 31 s | `BreakerFollowsFeed`, `AcceptedIsListed`, `WithinCap`, `DryRunFunded`, `RunEnds` |
| `paper_trading_breaker` | the default settings | **violated:** `BreakerHolds` |
| `dashboard` | 2 sessions, 3 interactions, 3 keys (before a job, after one and forced off, written by a job only), 2 initial files; 685,536 states, 66 s | `EditsReachSettings`, `SavedIsLoaded`, `RunsEnd` |
| `point_in_time` | 5 days, at most one with a hole, which may be filled later; downloads of 4 days (3 of intraday bars) that may lack day 3; all windows 2, 3 settings (`pit_shift` 0, 1, 2); 19,046 states, 129 s | `LegsCausal`, `ObservationsCausal`, `RowsAreOneDay`, `WeightsCausal`, `HistoryStands` |
| `bar_store` | 2 processes (symmetric), day 4 moving to 5, lookback 3, requests of 2 days, 1 corporate action, a bank that trusts 3 rows; 2,108,949 states, 107 s | `CompleteDownloadHeals`, `BankHasOneRowPerDay` |
| `encoder_artifacts` | 2 processes (symmetric), 3 scripts, 2 trainings of at most 2 epochs, patience 1, min_delta 1, losses 1, 2, 4 or NaN, 4 or 5 rows; 6,373,234 states, 70 s | `CheckpointsHoldBest`, `TrainedEncoderIsOwn`, `EncodedOnceTrained` |

Why the bounds suffice:

- Three bars give an order a bar before its signal, one at it and one after it;
  two timestamps give ties on either side; cash 4 pays for some orders of a bar
  and not for all; two replays show what `run` fails to reset.
- Two orders compete in a loop and a third is submitted by the callback; two bars
  tell an order that waits from one that is lost; two symbols are needed for an
  order booked under another's bar.
- Eight bars let three folds with every embargo and minimum fit, fail to fit, and
  leave a remainder. Two jobs are a training and the report on it.
- Two workers and two pool slots under limits 1 and 2 distinguish the semaphore
  from the pool; the third request is the one that waits.
- Two threads and two versions are the least that can tear a head or leave a
  stale payload; four calls are a load and a predict each, or two loads of
  payloads that lack different parts, a reset and a predict.
- Four legs, two of them intraday, allow the cap loop to need several rounds, to
  cap every leg, and to find no taker for the rest.
- Two sessions and three interactions are one that edits, one that saves and one
  that overwrites or loads; the keys stand on both sides of a tab that can raise.
- With every window two rows, all legs and the embeddings are warm by day four;
  by day five a hole has passed through each window or has been filled, a download
  has slid past the first day, and the bank may be a day behind.
- Two processes, a range of two requests that moves by a day and one corporate
  action allow a hole, its healing, a competing download at the older price and
  a write-back of rows loaded before it, under a third spelling.
- Two trainings and one reader in two processes overlap, follow each other, die
  and leave torn files; the four losses are better by more than min_delta, by
  less, worse, and NaN.

Each property also has a mutant in `PROJECT.json`: a plausible bug in one
definition under which the same run finds that property violated.

### What the violated runs say

1. **In-sample report** (`gym_trading_env.py:204`). The fold given to the
   constructor is bound in test mode, so training steps through the very bars the
   "out-of-sample" report scores.
2. **Breaker undone** (`paper_trading_loop.py:100`). Kelly sizing falls back to
   equal weights and the cap spreads over all uncapped legs, the zeroed intraday
   ones included.

### Where the code does not do what its documents say

No run is set to fail on these. The models have each of them, unless it says
otherwise here, and the property named is stated so as not to claim what the
document does.

- *Latency* (`event_driven_backtester.py:255`): `_bar_index` is the last bar of
  the frame by the time a signal is handled, so with `latency_bars >= 1` nothing
  ever fills and with 0 only the last bar fills (theorem `FillsOnlyAtLastBar`).
  Line 95: "Orders become eligible for matching after this many completed bars".
- *Empty training fold* (`gym_trading_env.py:309-311`): `reset()` in train mode
  widens an episode to the whole history, the fold's test bars included, when the
  environment's embargo leaves nothing to train on. Line 216: "episode steps only
  on purged fold.train_indices". `EpisodesStayInWindow` names the exception.
- *Embargo strip* (`purge.py:110-111`: each test segment is "followed by an
  embargo strip removed from subsequent training sets"): the code removes what is
  within the embargo before a test segment and nothing else. The strip behind fold
  1 is outside fold 2's training bars only as part of fold 2's purge zone, and
  fold 3 trains on it, as training windows only grow (theorem `JobsTrainExpands`).
- *Mapping without policies* (`train_orchestrator.py:737,783`): "Returns a mapping
  ticker -> active policy path", but a ticker is mapped before its job has run and
  every job raises at line 507.
- *Missing parts* (`policy_router.py:158-173`): a payload that lacks a tensor, or
  `log_std`, leaves that of the head before it in place, with a warning at most.
  The docstring (lines 51-53) excludes "a half-applied state dict";
  `NeverHalfApplied` says what is left of that, that a pass sees the head the
  finished loads make one after the other.
- *Two directories* (`config/settings.yaml:80,159`): trainers write to
  `artifacts.root_dir`, readers look in `xlstm.checkpoint_dir`
  (`xlstm/inference.py:18`). As shipped they differ, and `build_training_data`
  falls back on bare features without a word, against `core/paths.py:9-11`
  ("always read and write the same files in the same directory").
  `EncodedOnceTrained` is about settings that name one directory.
- *Sentiment column* (`sentiment_edgar.py:120-125`): the score of today's filings
  is written for every day of the past, a column that knows the present, against
  `interfaces.py:110` ("PiT-shifted columns only (no contemporaneous leakage)").
  `ObservationsCausal` and `WeightsCausal` are about data without scores.
- *Kelly window* (`risk_manager.py:108`): it ends with the bar the weights are for,
  whose return they are then multiplied with, against line 101 ("exclusive end
  slice"). What Kelly sizing reads is not modelled.

### Behaviour in the models that no document contradicts

- *Lost orders* (`backtest_execution.py:74,146`): a cancel inside the callback
  rebinds `_pending`; an order submitted after it is overwritten at the end of
  `on_bar`, stays listed and never matches. When two orders share a client id,
  cancelling it between two bars drops the older one, which is no longer listed.
- *Load, then predict* (`policy_router.py:198`) take the lock one after the other,
  so another thread's head may be the one that predicts.
- *Rewritten history* (`alpaca_data_handler.py:233-239`, `yfinance_handler.py:
  68-74`): features come from a download of the last two years, so the next build
  has no warm-up where the last one had rows, and a hole filled since changes rows
  after it. `HistoryStands` says only that a row depends on the bars up to its day.
- *Two rows a day* (`yfinance_handler.py:61`, `alpaca_data_handler.py:226`): when a
  download is empty the features are built from the table as it is; of a day under
  two spellings, `shift(1)` reads the one row for the other.
- *Whole-sample estimates*: the hedge ratio is estimated once over all bars
  (`bank.py:169`); `LegsCausal` leaves it out (`fitted`). `pit_shift = 0` is
  accepted by the code and tried by the run.
- *Older encoders*: a frozen checkpoint is preferred to a newer best one
  (`xlstm/inference.py:23`), a run whose losses are all NaN freezes an earlier
  run's best (`xlstm/train.py:260`), a torn checkpoint makes
  `build_training_data` raise, and the embedding cache is served to any feature
  matrix with as many rows (`xlstm/inference.py:118-121`).
- *Bars stored again*: where two downloads overlap, the bank may store its older
  rows over another process's newer and complete ones (`strategies/bank.py:61`).
  After a write-back one day has several rows; merging sums their volumes and takes
  the close of the last text. A hole that has slid out of the lookback stays;
  `auto_adjust` rescales the downloaded range only, so prices before it keep the
  older adjustment.
- *Dry run* (`paper_trading_loop.py:66`) writes `execution.mode = backtest` into
  the session's dict; the next Save writes it to the file.
- *Settings file* (`settings_store.py:220`): it is truncated before it is written,
  so a load in between or a server that dies finds half a file, and the later of
  two savers undoes the other's edits.

## 4. Fairness

- `EventBacktester`: weak fairness of the steps inside `run`. It is one
  synchronous call: nothing but an exception stops it, and calling `run` again is
  not assumed.
- `TickerFineTuneQueue`: weak fairness per worker task and per job thread, and of
  the returns of `join` and `stop`. The event loop and the thread pool schedule
  every runnable task and thread; the client's calls are not fair.
- `LiveInferenceRouter`: strong fairness per thread inside a call. A thread that
  wants the lock sees it free again and again, and gets it in the end; weak
  fairness would not do, since the lock is taken in between. New calls are not
  fair.
- `PaperTrading`: weak fairness of the steps of a run that has begun.
- `Dashboard`: weak fairness of each session's script steps. A script that was
  started goes on, and the jobs it waits for return or raise; interactions and
  crashes are not fair.
- The other modules state no liveness: the next step is the user's, the market's
  or the scheduler's, and processes may be killed.

## 5. Proofs

TLAPS proves the theorems below for every value of the constants that meets the
named assumptions of each module (`FrameAssumption`, `ParameterAssumption`,
`SplitterAssumption`, `TrainingAssumption`, `QueueAssumption`,
`BacktestExecutionAssumption`, `RouterAssumption`, `AlpacaAssumption`,
`PaperAssumption`, `DashboardAssumption`, `ClicksAssumption`, `BankAssumption`,
`PointInTimeAssumption`, `BarAssumption`, `EncoderAssumption`). They say what the
code takes for granted: naturals where it has counts and prices, positive windows
and sizes, client ids that are not broker ids, finitely many workers, and that
markers such as `None`, `NaN` and `Torn` are none of the values they stand beside.
Every invariant and every action property that a passing run checks is the
statement of one of these theorems.

**EventBacktesterProofs** — `TypeCorrect`, `NeverOverdrawn`, `HistoryInOrder`,
`NoEventLeftBehind`, `NoLookAheadFill`, `BookedOnce`, `FillsOnlyAtLastBar`,
`AccountImplemented`, all from `Invariant == Spec => []IInv`, where

    IInv == TypeOK /\ HeapInv /\ MarketInv /\ OrderInv /\ FillInv /\ Solvent /\ NothingLate

`HistoryIsPrefix` is not inductive: it needs `MarketInv`, that the market events
still queued are those of the bars to come, in sequence order within a timestamp;
that in turn needs `HeapInv` (sequence numbers are unique and bounded, an event
has its bar's timestamp). `FilledOnce` needs that an order still open that has a
fill is in `filledIds` (`FillInv`), `NoEarlyFill` that every open order's
`activeAfter` is `N - 1 + latency` (`OrderInv`). There is one lemma per action.
The refinement follows from the invariant: every fill is a covered `Buy` or
`Sell` of the account, every `run` a `Reopen`, every other step a stutter.

**WalkForwardTrainingProofs** — of the splitter, `SplitInvariant` and
`SplitterCorrect`: folds are purged, the zone separates training from test, tests
lie more than the embargo apart, training windows expand, all within the sample.
`SplitInv` describes each fold by its ends: sets of bars are then intervals, and
the quantified properties linear arithmetic. Of the jobs, `JobsUseSplitter`:
`Spec => SplitSpec`, every step of the jobs is a step of the splitter or leaves it
alone; so `JobsFoldsPurged`, `JobsTestsApart` and `JobsTrainExpands` come from the
splitter's theorem, and `FoldsKnownById`, that a job asked for one fold by its id
finds one at most.

`EpisodesInWindow` and `TrainingNeverExhausts` come from `JobInvariant`. `JobInv`
carries what a job knows: the folds it works with are folds of the history it
loaded (the sample may grow before the next job, never under this one), its
environment is bound to one of them, and the environment's indices and the bars
stepped through lie in that fold's window of its mode (`EnvOK`; where a fold
leaves nothing to train on, that window is the whole history).
`reset`, `step` and binding a fold are operators on the environment, so each has
its lemma. A cursor never stands past the last bar in training: a step reports the
end at the last one, a report is answered with a reset, and a reset leaves
something to step through.

**LiveInferenceRouterProofs** — `LockIsExclusive`, `ForwardSeesOneHead`,
`LoadedTickerIsTruthful`. `RouterInv` adds to the types that whenever the lock is
free the head is `applied`, the one the finished loads and resets make one after
the other; that at each line of a load the parts it has passed and holds are its
payload's and the others still those of `applied`; and that a load that is going
to raise has changed nothing.

**PaperTradingProofs** — `BreakerTracksFeed`, `AcknowledgedIsListed`,
`DryRunNeverOverspends`, `CapIsMet`. The order table needs `AckInv`: the key of a
broker's order is its own number, and only a handler that reaches the broker has
acked it, so the stub's cancel, the one operation that changes an ack, never meets
one.

`CapIsMet` says `cap_max_weight` ends within its cap, for any number of legs and
any weights, and the loop's `while` gives no hint of it: a leg fixed at the cap in
one round could be over it after the next. `CapInv` says it is not: once a leg is
fixed it holds exactly the cap's share of the total after every redistribution, or
every leg is fixed and the weights are equal. A round keeps that because the fixed
legs are few enough to be paid (`CapsAreMet`: k legs that hold the cap or more are
at most den/num many), so the rest they leave is never negative. Sums are
cardinalities of sets of shares, so `Total` splits over disjoint groups of legs by
the library's theorems on finite sets; scaling a vector down (`Reduce`) keeps all
the ratios.

**DashboardProofs** — `SettingsStayComplete`, `NoEditIsLost`,
`SavingThenLoading`. `DashInv` adds that what has not been read yet belongs to a
tab still to come (`EditsInv`), and that the file of its last writer is what that
session saved (`FileInv`).

**PointInTimeProofs** — `LegsNeverLookAhead`, `ObservationsNeverLookAhead`,
`WeightsNeverLookAhead`, `RowsStayAligned`, for every window length, lag, calendar,
download and history; the middle two for data without scores whose features have
one bar a day. The argument goes bottom up: a series is `Timely` by k if the cells
of each value are at least k older than its time; shift, rolling, diff, reindex
and the joins keep or add to that; each leg and the feature frame are compositions
of them. `StoreInv` says that the table has finitely many days of each symbol,
since positions are counted, and `ReadingIsSound` that so has whatever is read of
it; `DataInv` keeps what follows for the arrays of the last build.

`RowsDependOnPastBarsOnly` compares two builds, so it needs the same climb again,
with two readings side by side: series over two calendars that agree up to a day
(`SameTo`) are `Alike` up to it, every operation keeps that, and so does each leg.
It holds of windows that look back, and not of what depends on how long the
history is. The width of fractional differencing does (a short history narrows
it): `NoWiderWindow` shows that where a longer history widens it, the older days
lose their rows and none of them changes. Legs that one of the builds leaves inert
for want of bars are excepted. `HistoryInv` says that the rows in hand are those
that the bars the last build read and the score file make; a later build reads its
own bars and, once there is one, the same file.

**PortProofs** — of the bar store, `StoreInvariant`, `CompleteDownloadsHeal`,
`BankSeesOneRowPerDay`. `BarInv` says what a download has in hand: no day it has
passed is missing unless a window failed, and no price is older than the download;
that Alpaca's prices never change; and that a yfinance download has everything or
nothing. A promised row stays because rows are only ever added or replaced. For
the prices `FreshInv` looks at every process: neither what a running download may
still store nor the rows it has loaded to fall back on are older than `refreshed`.
It holds because `refreshed` moves only at the end of a download that had the table
to itself, so nobody else has anything in hand then, and its own is as new as its
beginning. One row a day follows from the keys alone: a group is finite since a day
has three texts, so it has a first and a last row.

Of the simulated book, `OrdersFillOnce`, `CancelledNeverFill` (an action property)
from `HandlerInvariant`, and `NoneIsPassedOver` (another) from that and `FacedInv`.
`HandlerInv` ties the fills to the statuses and not to the lists: an order that has
a fill is no longer working, and a filled one has a fill (`FillsAreFinal`; it may
be cancelled later and keeps the fill), and `on_bar` fills working orders only, so
it does not matter which list the loop walks, or that a cancel in the callback has
replaced it. What it has kept so far the bar did not trade through
(`KeptIsUntouched`), which a cancel cannot change since it touches no price.
`FacedInv` says that what the bar has to face is in the list the loop walks, and
that of what the loop has passed every order still working has been kept. When the
loop has come to its end that is all of them; an order that a callback submits
after the list was rebound is not among them.

**OrchestratorProofs** — of the encoder's files, `BestInCheckpoints`, `OwnEncoder`,
`EncodedWhereDirectoriesAgree`, from `ArtifactsInvariant`. None of the three is
inductive. `EncoderInv` follows the weights: those in a file were the best of
their run when they were chosen (`Good`), those in a checkpoint still are within
min_delta unless their run was disturbed (`Lasting`); a training that is alone has
its best epoch in one file and nowhere else (`AloneInv`), and its running best is
tied to the losses it has seen (`EpochsInv`); trainings that overlap are all
marked as disturbed (`ApartInv`). A new epoch can make older weights of the same
run fall behind by more than min_delta, but only if it is an improvement that
overwrites the one file they are in.

Of the queue, `QueueTypeCorrect`, `NeverTooManyJobs`, `JoinWaitsForAll`,
`StopLeavesNothingRunning`, `ReadsOneBuild`, from `QueueInvariant`:

    QueueInv == QueueTypes /\ PlaceInv /\ NoneLost /\ CountInv /\ ClientInv /\ GpuSerialized /\ ReadsInv

`PlaceInv` says that a request is in the queue, in one worker's hands, or past
them, and in which state its job is there; `CountInv` that the queue's unfinished
count is the requests waiting and in hand and that the permits taken are the
running workers. `task_done` and `release` are then calls that remove one member of
a finite set. `join()` waits for a count and promises something about jobs:
`NoneLost`, which holds until `stop()` is called, joins the two. The limit on jobs
counts those handed to the pool, waiting for a thread or running. Until `stop()`
each has a worker of its own that waits for it with a permit (`PermitForEach`);
afterwards a cancelled worker gives its permit back while its thread runs on, but
nothing is handed over any more. `ReadsInv` says that until a ticker's second
request its cache is what its only job has read, or is still empty.

Only model-checked: liveness (`ReplayTerminates`, `CallsReturn` of the queue and of
the router, `RunEnds`, `RunsEnd`), which the prover's backends cannot do.
Induction over data was not needed: sums are cardinalities, an order's place in a
list is its number, and where a least element is wanted (`Smallest`) it comes from
well-foundedness of the naturals. TLC checks the properties themselves and, for
`PaperTrading`, the queue and the book, was also run on the invariants.

## 6. Not modelled

- Float arithmetic (signals, rewards, Kelly fractions, metrics), neural networks
  and their loss, plots, logging, report layout, command lines. Weight validation
  in `RoutingEnv` and the Kelly overlay inside it are arithmetic none of its
  properties see. `NaN` and infinite prices are not in the models.
- The look-ahead audits of the event-driven backtester below line 365: stateless
  checks over recorded series.
- `BarStore`: intraday bars, other symbols (their keys do not meet), the live
  stream stub and the command-line pipeline.
- `StrategyBank`: the order and repetition of intraday rows. They are read in the
  order of their timestamps' texts and not deduplicated (`storage.py:110`,
  `bank.py:186,200`); the model has them in time order, once each, as in a table
  written under one spelling.
- `PointInTime`: features of a table with two rows a day (its table has one); what
  Kelly sizing reads and how weights are computed from an observation; the
  synthetic bars `train.py:108` falls back on when a download fails; failing
  downloads of macro series and filings.
- `EncoderArtifacts`: `export_embeddings` switched off, the fallback of
  `prepare_features`, files of an older layout in the readers' directory.
- `Dashboard`: `saved_snapshot`, which only decides whether a warning is shown;
  sections written as an explicit null; figures.
- `TickerFineTuneQueue`: `Semaphore(0)` and `start(0)`
  (`train_orchestrator.py:653`), legal and never granting a permit, are excluded
  by its constants; the interpreter's own race inside `wait_for`.
- Read-only monitors and scripts.

## 7. What is left

In order of value: Stage 2's PPO folds composed with `WalkForwardTraining`;
intraday bars in `BarStore`; the audits of the replay as operators against a
reference definition; the dry run's mode change followed through `Dashboard` and
`PaperTrading` together; the stateless parts of the routing environment (weight
validation, the Kelly overlay of a step) on integer shares.
