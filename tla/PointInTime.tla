----------------------------- MODULE PointInTime -----------------------------
(***************************************************************************)
(* From bars to routed returns: build_training_data joins the strategy     *)
(* bank with the point-in-time features and their embeddings row by row,   *)
(* and the simulators (simulate_routed_portfolio, the step of the routing  *)
(* environment, simulate_routed_portfolio_with_execution) weigh the legs   *)
(* of each row.  The store grows day by day, holes are filled by later     *)
(* downloads, and the data are rebuilt from time to time.  As in           *)
(* StrategyBank a number is the set of bars it was computed from; how much *)
(* of each leg the weights take, Kelly included, is left out.              *)
(*                                                                         *)
(* A table has one row per day here.  Where it has two, under two          *)
(* spellings of a day, the bank makes them one (BarStore); features built  *)
(* from the table itself do not, and the properties say so.                *)
(***************************************************************************)
EXTENDS StrategyBank

CONSTANTS MaxDay,        \* bound on the days of the history
          Missing,       \* the sets of symbols that may lack a day's bar
          MaxHoles,      \* bound on the days something is missing of
          AllSettings,   \* the settings that are tried
          SeqLen,        \* rows of one window of the encoder
          FracWidth,     \* weights kept by fracdiff_weights
          Period,        \* symbol -> days a download reaches back ("2y", "60d")
          Losses,        \* the sets of days a download may come back without
          BankMin,       \* 60
          MinRows,       \* 64
          None

ASSUME PointInTimeAssumption ==
    /\ MaxDay \in Nat /\ MaxHoles \in Nat /\ Missing \subseteq SUBSET Symbols
    /\ AllSettings \subseteq [pit : Nat, encoder : BOOLEAN, macro : BOOLEAN,
                               sentiment : BOOLEAN]
    /\ Period \in [Symbols -> Nat \ {0}]
    /\ {SeqLen, FracWidth, BankMin, MinRows} \subseteq Nat \ {0}

VARIABLES settings,      \* pit_shift and what is enabled, chosen once
          today,
          have,          \* symbol -> days the store has a bar of
          cache,         \* the sentiment file: day -> filings its score is of
          data           \* the TrainingData of the last build and the bars it
                         \* read, or None

vars == <<settings, today, have, cache, data>>

-----------------------------------------------------------------------------
(* data/features *)

\* Columns of the feature frame; a row is kept if every column has a value.
\* The window of frac_diff shrinks to the history when that is shorter.
FeatureColumns(bars) ==
    LET n == Cardinality(DOMAIN bars)
        width == IF n < FracWidth THEN n ELSE FracWidth IN
    {Diff(bars, 1), Rolling(bars, width, width), Rolling(bars, W["autocorr"], W["autocorr"]),
     With(Rolling(TrueRange(bars), W["atr"], W["atr"]), bars),
     With(Rolling(bars, W["rel_volume"], W["rel_volume"]), bars)}

BuildPitFeatureFrame_Leaky(bars, pit) ==
    LET columns == FeatureColumns(bars)
        complete == {t \in DOMAIN bars : \A c \in columns : c[t] # {}} IN
    [t \in complete |-> UNION {Shift(c, IF c = Diff(bars, 1) THEN 0 ELSE pit)[t]
                                : c \in columns}]

BuildPitFeatureFrame(bars, pit) ==
    LET shifted == {Shift(c, pit) : c \in FeatureColumns(bars)}
        complete == {t \in DOMAIN bars : \A c \in shifted : c[t] # {}} IN
    [t \in complete |-> UNION {c[t] : c \in shifted}]

\* fetch_macro_frame on the rows of the frame
MacroFrame(vix, rows, pit) == Shift(ReindexFfill(vix, rows, W["ffill"]), pit)

\* daily_sentiment_series: the filings that can be had today are scored once,
\* and the one score is written into the file for every day of the frame.
Filings == {[sym |-> "filings", time |-> today]}

ScoredCache_Refreshed(rows) == [d \in rows |-> Filings]
ScoredCache(rows) ==
    IF DOMAIN cache = {} THEN [d \in rows |-> Filings] ELSE cache

SentimentSeries(scored, rows, pit) == Shift(Reindex(scored, rows), pit)

-----------------------------------------------------------------------------
(* models/xlstm/inference: the windows are of rows, and a row with fewer     *)
(* than SeqLen - 1 rows before it gets zeros.  Without an encoder the row    *)
(* itself, padded, is the observation.                                       *)

Encode(features) ==
    IF settings.encoder THEN Rolling(features, SeqLen, SeqLen) ELSE features

-----------------------------------------------------------------------------
(* build_training_data *)

\* A download asks for a period that ends today and may come back without some
\* of its days.
Downloaded(s, lost) == {t \in have[s] \ lost : t + Period[s] > today}

\* _load_bars: what is cached, up to the newest day it has, when that is enough;
\* otherwise a download alone.  FRED is asked each time.
BankBars(stale) ==
    [s \in Symbols |->
        LET cached == {t \in have[s] : t <= stale} IN
        IF s = "vix" THEN have[s]
        ELSE IF Cardinality(cached) >= BankMin THEN cached
        ELSE Downloaded(s, {})]

\* The bars of a build.  The handler of the features asks for its period again;
\* when nothing comes it takes the table, and when it raises the bank's bars are
\* taken, without macro columns and scores.
Sources == {"download", "store", "bank"}

Reading(stale, source, lost) ==
    [source |-> source,
     bank |-> BankBars(stale),
     primary |-> CASE source = "download" -> Downloaded("primary", lost)
                   [] source = "store"    -> have["primary"]
                   [] source = "bank"     -> BankBars(stale)["primary"]]

\* Arrays are joined on the date, and by position ever after: a row is named by
\* its day, and its position is the number of days up to it.
Position(I, t) == Cardinality({u \in I : u <= t})

LegRow_ByPosition(returns, l, days, d) ==
    returns[l][CHOOSE t \in DOMAIN returns[l] :
                  Position(DOMAIN returns[l], t) = Position(days, d)]
LegRow(returns, l, days, d) == returns[l][d]

\* align_to_feature_index
AlignToFeatureIndex(returns, spy, features, master) ==
    LET days == master \cap DOMAIN features
        obs == Encode(features) IN
    [d \in days |->
        [obs |-> obs[d], spy |-> spy[d],
         legs |-> [l \in DOMAIN returns |-> LegRow(returns, l, days, d)]]]

Frame(read) == BuildPitFeatureFrame(Bars("primary", read.primary), settings.pit)

HasScores(read) == read.source # "bank" /\ settings.sentiment

\* fetch_feature_frame
Features(read, scored) ==
    LET frame == Frame(read)
        none == [t \in DOMAIN frame |-> {}]
        macro == IF read.source # "bank" /\ settings.macro
                 THEN MacroFrame(Bars("vix", read.bank["vix"]), DOMAIN frame, settings.pit)
                 ELSE none
        scores == IF HasScores(read)
                  THEN SentimentSeries(scored, DOMAIN frame, settings.pit) ELSE none IN
    With(With(frame, macro), scores)

TrainingRows(read, scored) ==
    LET master == read.bank["primary"] IN
    AlignToFeatureIndex(StrategyReturns(Legs(read.bank, settings.pit), master),
                        SpyReturns(read.bank, master), Features(read, scored), master)

-----------------------------------------------------------------------------

Init ==
    /\ settings \in AllSettings
    /\ today = 0 /\ have = [s \in Symbols |-> {}]
    /\ cache = [d \in {} |-> {}]
    /\ data = None

Holes == {d \in 1 .. today : \E s \in Symbols : d \notin have[s]}

\* A day goes by and its bars are synced, some perhaps missing.
NextDay(missing) ==
    /\ today < MaxDay
    /\ missing = {} \/ Cardinality(Holes) < MaxHoles
    /\ today' = today + 1
    /\ have' = [s \in Symbols |-> IF s \in missing THEN have[s]
                                  ELSE have[s] \cup {today + 1}]
    /\ UNCHANGED <<settings, cache, data>>

\* A later sync asks for its whole period and brings what was missing.
Backfill(missing) ==
    /\ \E s \in missing : 1 .. today # have[s]
    /\ have' = [s \in Symbols |->
                  have[s] \cup {t \in 1 .. today : s \in missing /\ t + Period[s] > today}]
    /\ UNCHANGED <<settings, today, cache, data>>

\* A build that raises (no bars, no pair, too few rows) leaves everything as it
\* was, but for the file of the scores; that case is left out.
BuildTrainingData(stale, source, lost) ==
    \E read \in {Reading(stale, source, lost)} :
        /\ source # "download" => lost = {}
        /\ CanBuild(read.bank)
        /\ \E scored \in {IF HasScores(read) THEN ScoredCache(DOMAIN Frame(read)) ELSE cache} :
              /\ \E rows \in {TrainingRows(read, scored)} :
                    /\ Cardinality(DOMAIN rows) >= MinRows
                    /\ data' = [read |-> read, rows |-> rows]
              /\ cache' = scored
        /\ UNCHANGED <<settings, today, have>>

\* simulate_routed_portfolio_with_execution: the bars are those SPY has on the
\* rows' days, and the n-th bar is traded with the weights of the n-th row.
SpyDays == IF have["spy"] = {} THEN have["primary"] ELSE have["spy"]

ExecutionDays_Unaligned == SpyDays
ExecutionDays == DOMAIN data.rows \cap SpyDays

Executed(day, d) ==
    /\ day \in ExecutionDays /\ d \in DOMAIN data.rows
    /\ Position(ExecutionDays, day) = Position(DOMAIN data.rows, d)

Next ==
    \/ \E missing \in Missing : NextDay(missing) \/ Backfill(missing)
    \/ \E stale \in {today - 1, today} \cap Nat, source \in Sources,
          lost \in Losses : BuildTrainingData(stale, source, lost)

Spec == Init /\ [][Next]_vars

-----------------------------------------------------------------------------
(* Properties *)

CellDay(c) == IF c.sym = "intraday" THEN DayOf(c.time) ELSE c.time

(***************************************************************************)
(* "position must already be computed from PiT-shifted indicators"         *)
(* (base.py:49): what a leg holds on a bar has been decided by bars at     *)
(* least pit_shift + 1 bars old, in every leg, whatever is missing from    *)
(* the calendars it joins; and what it earns ends with that bar.  The      *)
(* estimates over the whole sample are not part of signal.                 *)
(***************************************************************************)
LegsCausal ==
    LET legs == Legs(have, settings.pit) IN
    CanBuild(have) =>
        \A l \in DOMAIN legs : \A t \in DOMAIN legs[l] :
            /\ \A c \in legs[l][t].signal : c.time + 1 + settings.pit <= t
            /\ \A c \in legs[l][t].move : c.time <= t

\* Data whose features are of one bar per day and without the scores of filings,
\* which know the present on every day: what is claimed of an observation below
\* does not hold of the others.
PitShifted == data.read.source # "store" /\ ~HasScores(data.read)

(***************************************************************************)
(* "Implementations must return PiT-shifted columns only" (interfaces.py:  *)
(* 110): the observation of a row, raw or embedded, with macro columns or  *)
(* without, over any holes of a download, holds nothing newer than         *)
(* pit_shift days before its day.  The sentiment column breaks it          *)
(* (sentiment_edgar.py:120-125), and so does a table with two rows of a    *)
(* day.                                                                    *)
(***************************************************************************)
ObservationsCausal ==
    data # None /\ PitShifted =>
        \A d \in DOMAIN data.rows : \A c \in data.rows[d].obs :
            c.time + settings.pit <= d

(***************************************************************************)
(* The arrays handed to the environment and the simulators are joined by   *)
(* position only after align_to_feature_index: what every leg and the      *)
(* benchmark earn in a row ends on the day of that row, although features  *)
(* lose rows to warm-up and come from other bars than the bank's.          *)
(***************************************************************************)
Ends(move, day) ==
    move # {} => /\ \E c \in move : CellDay(c) = day
                 /\ \A c \in move : CellDay(c) <= day

RowsAreOneDay ==
    data # None =>
        \A d \in DOMAIN data.rows :
            LET row == data.rows[d] IN
            /\ Ends(row.spy, d)
            /\ \A l \in DOMAIN row.legs : Ends(row.legs[l].move, d)

(***************************************************************************)
(* The policy's weights of a bar come from an observation at least         *)
(* pit_shift days old, also where execution is simulated on the days SPY   *)
(* has: the n-th bar is traded with the n-th row's weights, rows and bars  *)
(* get out of step, and they do so towards older observations only.        *)
(***************************************************************************)
WeightsCausal ==
    data # None /\ PitShifted =>
        \A day, d \in 1 .. today : Executed(day, d) =>
            \A c \in data.rows[d].obs : c.time + settings.pit <= day

(***************************************************************************)
(* A row is made of its past: two builds in a row that read the same bars  *)
(* up to some day, from whatever sources, agree on that day's row, its     *)
(* score included, whatever bars, holes and fillings come after it.  Only  *)
(* a leg that is inert in one of the builds, for want of bars, may come to *)
(* life in the other.                                                      *)
(***************************************************************************)
SamePast(old, new, d) ==
    /\ {t \in old.primary : t <= d} = {t \in new.primary : t <= d}
    /\ \A s \in Symbols : {t \in old.bank[s] : t <= d} = {t \in new.bank[s] : t <= d}
    /\ old.source = "bank" <=> new.source = "bank"

SameHistory(old, new) ==
    /\ old.obs = new.obs
    /\ \A l \in DOMAIN old.legs \cap DOMAIN new.legs :
          \/ {} \in {old.legs[l].signal, new.legs[l].signal}
          \/ /\ old.legs[l].signal = new.legs[l].signal
             /\ old.legs[l].move = new.legs[l].move

HistoryStands ==
    [][data # None /\ data' # data =>
        \A d \in DOMAIN data.rows \cap DOMAIN data'.rows :
            SamePast(data.read, data'.read, d) =>
                SameHistory(data.rows[d], data'.rows[d])]_vars

=============================================================================
