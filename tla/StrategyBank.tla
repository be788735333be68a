---------------------------- MODULE StrategyBank -----------------------------
(***************************************************************************)
(* strategies/: the legs of the bank as flows of bars.  A leg is what it   *)
(* earns on each bar of its own index: the cells its position on that bar  *)
(* has been computed from (signal), the cells of the price move the        *)
(* position is multiplied by (move), and the cells of estimates made once  *)
(* over the whole sample (fitted).  What the indicators compute with their *)
(* windows, and the thresholds, are left out: they decide the position,    *)
(* not what it depends on.                                                 *)
(*                                                                         *)
(* Daily bars are cells [sym, day]; intraday bars are cells of their own   *)
(* clock, Slots bars to a day.                                             *)
(***************************************************************************)
EXTENDS DaySeries

CONSTANTS W,         \* the windows, minimal lengths and lags of the legs
          Slots      \* intraday bars per day

WindowNames == {"z", "margin", "atr", "lookback", "rsi", "bb", "fast", "slow",
                "roc", "xs_lookback", "frac", "frac_min", "gph_min", "rv",
                "vrp_z", "vrp_min", "ffill", "autocorr", "rel_volume"}

ASSUME BankAssumption == W \in [WindowNames -> Nat \ {0}] /\ Slots \in Nat \ {0}

Symbols == {"primary", "partner", "spy", "vix", "intraday"}

LegNames == {"stat_arb", "vol_breakout", "mean_reversion", "daily_momentum",
             "daily_trend", "vix_fade", "cross_sectional_mom",
             "fractional_stat_arb", "vrp_harvesting"}

Intraday == {"vol_breakout", "mean_reversion"}
Benchmarked == {"cross_sectional_mom", "vrp_harvesting"}

\* The closes (or bars) of a symbol, on the times it has.
Bars(sym, times) == [t \in times |-> {[sym |-> sym, time |-> t]}]

Zeros(I) == [t \in I |-> [signal |-> {}, move |-> {}, fitted |-> {}]]

\* Every cell of a series: what an estimate over the whole sample reads.
WholeSample(s) == Cells(s, DOMAIN s)

-----------------------------------------------------------------------------
(* base *)

PositionReturns_Unshifted(position, moves, fitted) ==
    [t \in DOMAIN moves |-> [signal |-> position[t], move |-> moves[t],
                             fitted |-> fitted]]

\* position is a series on the index of moves; the lag of one bar is fixed.
PositionReturns(position, moves, fitted) ==
    LET held == Shift(position, 1) IN
    [t \in DOMAIN moves |-> [signal |-> held[t], move |-> moves[t],
                             fitted |-> fitted]]

DayOf(t) == (t - 1) \div Slots + 1

\* The bars of an intraday leg that fall on a day are compounded.
CompoundToDaily(leg, master) ==
    [d \in master |->
        LET of == {leg[t] : t \in {t \in DOMAIN leg : DayOf(t) = d}} IN
        [signal |-> UNION {r.signal : r \in of}, move |-> UNION {r.move : r \in of},
         fitted |-> UNION {r.fitted : r \in of}]]

AlignReturns(leg, master) ==
    [d \in master |-> IF d \in DOMAIN leg THEN leg[d] ELSE Zeros({d})[d]]

-----------------------------------------------------------------------------
(* The pair.  The hedge ratio is a regression over every day both legs      *)
(* have, and dynamic selection compares whole samples as well.              *)

HedgeRatio(a, b) == WholeSample(InnerJoin(a, b))

StatArbReturns(a, b, beta, pit) ==
    LET spread == InnerJoin(a, b)
        z == With(spread, Rolling(spread, W["z"], W["z"]))
        position == Shift(z, pit)
        \* the cost of a change of position is charged on the day it is decided
        moves == With(Diff(spread, 1), Diff(position, 1)) IN
    IF Cardinality(DOMAIN spread) < W["z"] + W["margin"]
    THEN Zeros(DOMAIN spread)
    ELSE PositionReturns(position, moves, beta)

\* The estimate of d is made over the window once the window has gph_min rows,
\* and carried forward where it could not be made.
FractionalStatArbReturns(a, b, beta, pit) ==
    LET spread == InnerJoin(a, b)
        z == With(spread, Rolling(spread, W["frac"], W["frac_min"]))
        d == Rolling(spread, W["frac"], W["gph_min"])
        position == With(Shift(z, pit), Shift(d, pit)) IN
    PositionReturns(position, Diff(spread, 1), beta)

-----------------------------------------------------------------------------
(* Intraday legs *)

TrueRange(bars) == With(bars, Shift(bars, 1))

VolBreakoutReturns(bars, pit) ==
    LET atr == Rolling(TrueRange(bars), W["atr"], W["atr"])
        extremes == Rolling(bars, W["lookback"], W["lookback"])
        levels == With(Shift(extremes, pit), Shift(atr, pit))
        position == With(Shift(bars, pit), levels) IN
    PositionReturns(position, Diff(bars, 1), {})

MeanReversionReturns(bars, pit) ==
    LET rsi == Rolling(Diff(bars, 1), W["rsi"], W["rsi"])
        bands == Rolling(bars, W["bb"], W["bb"])
        position == With(Shift(rsi, pit), With(Shift(bars, pit), Shift(bands, pit))) IN
    PositionReturns(position, Diff(bars, 1), {})

-----------------------------------------------------------------------------
(* Daily legs *)

\* Long, short or flat; the bank gives it slow + 5 bars or none.
DailyMomentumReturns(bars, pit) ==
    LET fast == Rolling(bars, W["fast"], W["fast"])
        slow == Rolling(bars, W["slow"], W["slow"]) IN
    PositionReturns(With(Shift(fast, pit), Shift(slow, pit)), Diff(bars, 1), {})

\* The same crossover, long or flat.
DailyTrendReturns(bars, pit) ==
    LET fast == Rolling(bars, W["fast"], W["fast"])
        slow == Rolling(bars, W["slow"], W["slow"]) IN
    PositionReturns(With(Shift(fast, pit), Shift(slow, pit)), Diff(bars, 1), {})

\* fetch_macro_frame, unshifted: zero where FRED has nothing recent.
VixLevel(vix, master) == ReindexFfill(vix, master, W["ffill"])

VixFadeReturns(vix, asset, pit, master) ==
    LET level == VixLevel(vix, master)
        position == With(Shift(level, pit), Shift(Diff(level, W["roc"]), pit)) IN
    PositionReturns(position, Reindex(Diff(asset, 1), master), {})

CrossSectionalMomentumReturns(ticker, benchmark, pit, master) ==
    LET filled(s) == ReindexFfill(s, master, Cardinality(master))
        roc(s) == Diff(filled(s), W["xs_lookback"]) IN
    PositionReturns(With(Shift(roc(ticker), pit), Shift(roc(benchmark), pit)),
                    Diff(filled(ticker), 1), {})

\* spy_r is the benchmark's daily return, already on the master index; the
\* level is looked up twice, by the fetch and by the reindex.
VrpHarvestingReturns(spy_r, vix, pit, master) ==
    LET rv == Rolling(spy_r, W["rv"], W["rv"])
        vrp == With(VixLevel(vix, master), rv)
        z == With(vrp, Rolling(vrp, W["vrp_z"], W["vrp_min"])) IN
    IF \A d \in master : VixLevel(vix, master)[d] = {}
    THEN Zeros(master)
    ELSE PositionReturns(Shift(z, pit), spy_r, {})

-----------------------------------------------------------------------------
(* build_strategy_bank *)

\* What the store has: symbol -> days.  Intraday rows are taken as load_bars
\* returns them, in the order of their timestamps' texts and not deduplicated;
\* here that is in time order, once each, as in a table written under one
\* spelling.  Every intraday row goes by the day its text is of.
IntradayTimes(days) == UNION {(d - 1) * Slots + 1 .. d * Slots : d \in days}

SpyReturns(have, master) ==
    Reindex(IF have["spy"] = {} THEN Diff(Bars("primary", master), 1)
            ELSE Diff(Bars("spy", have["spy"]), 1), master)

\* RuntimeError without bars of the primary, KeyError without a pair
CanBuild(have) == have["primary"] # {} /\ have["partner"] # {}

\* A leg that would not have enough bars is there, and earns nothing.
OrZeros(leg, master, needed) ==
    IF Cardinality(master) >= needed + W["margin"] THEN leg ELSE Zeros(master)

\* The bank has no benchmarked leg without bars of SPY.
Present(have) == IF have["spy"] = {} THEN LegNames \ Benchmarked ELSE LegNames

\* The legs before they are aligned, each on its own index.
Legs(have, pit) ==
    LET master == have["primary"]
        primary == Bars("primary", master)
        partner == Bars("partner", have["partner"])
        spy == Bars("spy", have["spy"])
        vix == Bars("vix", have["vix"])
        intraday == Bars("intraday", IntradayTimes(have["intraday"]))
        beta == HedgeRatio(primary, partner)
        all ==
          [stat_arb |-> StatArbReturns(primary, partner, beta, pit),
           vol_breakout |-> VolBreakoutReturns(intraday, pit),
           mean_reversion |-> MeanReversionReturns(intraday, pit),
           daily_momentum |->
              OrZeros(DailyMomentumReturns(primary, pit), master, W["slow"]),
           daily_trend |-> OrZeros(DailyTrendReturns(primary, pit), master, W["slow"]),
           vix_fade |-> VixFadeReturns(vix, primary, pit, master),
           cross_sectional_mom |->
              OrZeros(CrossSectionalMomentumReturns(primary, spy, pit, master),
                      master, W["xs_lookback"]),
           fractional_stat_arb |-> FractionalStatArbReturns(primary, partner, beta, pit),
           vrp_harvesting |->
              VrpHarvestingReturns(SpyReturns(have, master), vix, pit, master)] IN
    [l \in Present(have) |-> all[l]]

\* On the master timeline, row by row.
StrategyReturns(legs, master) ==
    [l \in DOMAIN legs |-> IF l \in Intraday THEN CompoundToDaily(legs[l], master)
                        ELSE AlignReturns(legs[l], master)]
=============================================================================
