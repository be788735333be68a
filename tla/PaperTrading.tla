----------------------------- MODULE PaperTrading -----------------------------
(***************************************************************************)
(* pipeline/paper_trading_loop.py: the one-shot rebalance, with the weight *)
(* pipeline it runs (the breaker's filter_weights, then the Kelly cap and  *)
(* the live diversification cap of core/risk_manager.py) and the execution *)
(* it sends the total to, beside a long-lived AlpacaExecution handler and  *)
(* its broker.                                                             *)
(*                                                                         *)
(* A weight vector is a function from legs to integer shares: the weight   *)
(* of a leg is its share of the total.  That is exact, since every vector  *)
(* of the pipeline is either normalised or all zero.  Shares are exact     *)
(* where the code compares floats with eps.                                *)
(***************************************************************************)
EXTENDS AlpacaExecution, FiniteSetsExt

CONSTANTS NLegs,        \* columns of the strategy matrix
          Dicts,        \* settings dicts a caller may pass
          PolicyWeights,\* weight vectors the PPO policy may give
          Multipliers,  \* vectors kelly_multipliers may return, up to scale
          Equity,       \* initial_cash of the dry run
          Bars,         \* last bars: [low, close]
          HalfSpread,   \* half of the quoted spread
          MaxRuns       \* bound on the runs of the loop

SettingsDict == [mode : Modes, paper : BOOLEAN, ws : BOOLEAN, risk : BOOLEAN,
                 width : Nat \ {0, 1}, cap : [num : Nat, den : Nat \ {0}]]

ASSUME PaperAssumption ==
    /\ NLegs \in Nat \ {0, 1, 2}
    /\ Dicts \subseteq SettingsDict
    /\ \A v \in PolicyWeights : v \in [DOMAIN v -> Nat \ {0}]
    /\ Multipliers \subseteq [1 .. NLegs -> Nat]
    /\ Equity \in Nat \ {0} /\ HalfSpread \in Nat /\ MaxRuns \in Nat
    /\ \A b \in Bars : b.low \in Nat /\ b.close \in Nat \ {0} /\ b.low <= b.close

VARIABLES settings,     \* the caller's settings dict: execution.mode, .paper and
                        \* .websockets_connected, risk.enabled, rl.n_strategies and
                        \* risk.max_single_weight_live as [num, den]
          phase,        \* where run_paper_loop stands
          gated,        \* the breaker was armed in this run
          w,            \* weights
          capped,       \* cap_max_weight: the legs no longer in `uncapped`
          runs,         \* runs of the loop so far
          report        \* paper_loop_latest.json but for the weights, None before
                        \* the first

loopVars == <<settings, phase, gated, w, capped, runs, report>>
vars == <<handler, orders, submitted, broker, settings, phase, gated, w, capped, runs,
          report>>

Legs == 1 .. NLegs

\* vol_breakout and mean_reversion: second and third in STRATEGY_ORDER as in
\* StrategyReturns.names(), so filter_weights finds them without the names.
Intraday == {2, 3}

\* The shares some legs hold, one by one.
Shares(v, legs) == UNION {{i} \X (1 .. v[i]) : i \in legs}
Total(v) == Cardinality(Shares(v, DOMAIN v))

\* One vector for each set of proportions.
Reduce(v) ==
    LET positive == {i \in DOMAIN v : v[i] > 0}
        k == CHOOSE i \in positive : TRUE
        g == Max({d \in 1 .. v[k] : \A i \in positive : v[i] % d = 0})
    IN  IF positive = {} THEN v ELSE [i \in DOMAIN v |-> v[i] \div g]

Equal(n) == [i \in 1 .. n |-> 1]

Init ==
    /\ AlpacaInit
    /\ settings \in Dicts
    /\ phase = "idle" /\ gated = FALSE /\ w = Equal(NLegs)
    /\ capped = {} /\ runs = 0 /\ report = None

-----------------------------------------------------------------------------
(* A caller with a handler of its own *)

\* create_execution_handler, when the settings ask for Alpaca.
UserCreates(available) ==
    /\ phase = "idle" /\ settings.mode = "alpaca"
    /\ CreateHandler(settings.mode, settings.paper, settings.ws, available)
    /\ UNCHANGED loopVars

\* The caller is inside run_paper_loop while it runs; the broker goes on.
UserCalls == phase = "idle" /\ HandlerCall /\ UNCHANGED loopVars
BrokerActs == BrokerStep /\ UNCHANGED loopVars

-----------------------------------------------------------------------------
(* run_paper_loop *)

\* The mode a dry run leaves in the caller's dict.
ModeOf(dry) == IF dry THEN "backtest" ELSE settings.mode

\* Up to weight_fn(t): the policy's weights, or equal ones of the width set.
StartRun(dry) ==
    /\ phase = "idle" /\ runs < MaxRuns
    /\ runs' = runs + 1
    /\ settings' = [settings EXCEPT !.mode = ModeOf(dry)]
    /\ w' \in {Reduce(v) : v \in PolicyWeights} \cup {Equal(settings.width)}
    /\ phase' = "gate"
    /\ UNCHANGED <<alpacaVars, gated, capped, report>>

\* filter_weights: the intraday slots are zeroed, the others keep their
\* proportions and the vector its gross.
Filtered(v) == Reduce([i \in DOMAIN v |-> IF i \in Intraday THEN 0 ELSE v[i]])

\* The gate handler is made from the settings for this run alone.
Gate ==
    /\ phase = "gate"
    /\ gated' = Armed(settings.mode, settings.paper, settings.ws)
    /\ w' = IF gated' THEN Filtered(w) ELSE w
    /\ phase' = IF settings.risk THEN "kelly" ELSE "size"
    /\ UNCHANGED <<alpacaVars, settings, capped, runs, report>>

\* apply_kelly_cap's w * mult, and equal weights where nothing is left.
KellyWeights(v, mult) ==
    LET product == [i \in Legs |-> v[i] * mult[i]] IN
    IF Total(product) > 0 THEN Reduce(product) ELSE Equal(NLegs)

\* The cap applies to Alpaca paper trading; cap_max_weight returns at once
\* for a cap of 0 (equal weights) and for one of 1 and more.
CapApplies == settings.mode = "alpaca" /\ settings.paper

Kelly ==
    /\ phase = "kelly" /\ DOMAIN w = Legs
    /\ \E mult \in Multipliers :
          LET v == KellyWeights(w, mult) IN
          w' = IF CapApplies /\ settings.cap.num = 0 THEN Equal(NLegs) ELSE v
    /\ capped' = {}
    /\ phase' = IF CapApplies /\ settings.cap.num \in 1 .. (settings.cap.den - 1)
                THEN "cap" ELSE "size"
    /\ UNCHANGED <<alpacaVars, settings, gated, runs, report>>

-----------------------------------------------------------------------------
(* cap_max_weight *)

OverCap(v, c) ==
    LET limit == c.num * Total(v) IN {i \in Legs : v[i] * c.den > limit}

\* Another leg is over the cap.
NeedsRound_Once(v, set, c) == set = {} /\ OverCap(v, c) # {}
NeedsRound(v, set, c) == OverCap(v, c) \ set # {}

\* The rest goes to the uncapped legs in their proportions, or evenly when
\* they have none.
Redistributed(v, set, c) ==
    LET free == Legs \ set
        rest == c.den - Cardinality(set) * c.num
        base == Cardinality(Shares(v, free))
    IN  IF base > 0
        THEN [i \in Legs |-> IF i \in set THEN c.num * base ELSE v[i] * rest]
        ELSE [i \in Legs |-> IF i \in set THEN c.num * Cardinality(free) ELSE rest]

\* The legs fixed at the cap after a round of the loop.
Fixed_Forgotten(set, over) == set
Fixed(set, over) == set \cup over

\* A round of the loop.  When every leg is capped, what is left to be shared
\* out has no taker and the weights are normalised to equal ones.
CapRound ==
    LET c == settings.cap
        over == OverCap(w, c) \ capped
        set == Fixed(capped, over)
    IN  /\ phase = "cap" /\ NeedsRound(w, capped, c)
        /\ capped' = set
        /\ w' = IF set = Legs THEN Equal(NLegs) ELSE Reduce(Redistributed(w, set, c))
        /\ UNCHANGED <<alpacaVars, settings, phase, gated, runs, report>>

EndCap ==
    /\ phase = "cap" /\ ~NeedsRound(w, capped, settings.cap)
    /\ phase' = "size"
    /\ UNCHANGED <<alpacaVars, settings, gated, w, capped, runs, report>>

-----------------------------------------------------------------------------
(* Execution *)

EndRun ==
    /\ phase' = "idle"
    /\ gated' = FALSE /\ w' = Equal(NLegs) /\ capped' = {}
    /\ UNCHANGED <<alpacaVars, settings, runs>>

\* The passive BUY rests at the bid.
BuyLimit(close) == close - HalfSpread

\* Twice the gross exposure: np.clip(sum of |w|, 0, 1.5).
TwiceGross_AtClip(v) == IF Total(v) > 0 THEN 3 ELSE 0
TwiceGross(v) == IF Total(v) > 0 THEN 2 ELSE 0

\* On a fresh BacktestExecutionHandler, flat and funded with initial_cash: an
\* order of one share or more is submitted and offered to the last bar.
\* cash is in units of 1 / (2 * close).
Rebalance ==
    /\ phase = "size" /\ settings.mode = "backtest"
    /\ \E bar \in Bars :
          LET notional == TwiceGross(w) * Equity
              price == Min({BuyLimit(bar.close), bar.close})
              submits == notional >= 2 * bar.close
              fills == submits /\ bar.low <= BuyLimit(bar.close)
          IN  report' = [orders |-> submits, fills |-> fills,
                         cash |-> 2 * Equity * bar.close - (IF fills THEN notional * price ELSE 0)]
    /\ EndRun

\* AttributeError: an AlpacaExecutionHandler has neither
\* submit_passive_from_signal nor on_bar, one of which is always called.
AlpacaRunRaises == phase = "size" /\ settings.mode = "alpaca" /\ EndRun /\ UNCHANGED report

\* The run raises: the weights do not have one entry per leg.
WidthMismatch == phase = "kelly" /\ DOMAIN w # Legs /\ EndRun /\ UNCHANGED report

\* The run raises: no policy and no fallback, no data, or no bars.
RunRaises == phase \in {"gate", "size"} /\ EndRun /\ UNCHANGED report

-----------------------------------------------------------------------------

LoopStep ==
    \/ Gate \/ Kelly \/ CapRound \/ EndCap
    \/ Rebalance \/ AlpacaRunRaises \/ WidthMismatch \/ RunRaises

Next ==
    \/ \E available \in BOOLEAN : UserCreates(available)
    \/ UserCalls
    \/ BrokerActs
    \/ \E dry \in BOOLEAN : StartRun(dry)
    \/ LoopStep

\* A run is one call: once begun it keeps taking steps.
Spec == Init /\ [][Next]_vars /\ WF_vars(LoopStep)

-----------------------------------------------------------------------------
(* Properties *)

(***************************************************************************)
(* "no single strategy may exceed max_weight" (risk_manager.py:150): what  *)
(* the redistribution of one round pushes over the cap a later round cuts  *)
(* back, for every cap the legs can meet together.                         *)
(***************************************************************************)
WithinCap ==
    phase = "size" /\ settings.risk /\ CapApplies /\ settings.cap.den <= settings.cap.num * NLegs
        => OverCap(w, settings.cap) = {}

(***************************************************************************)
(* A dry run is funded: the rebalance to the full equity never spends more *)
(* than the account it opened with, at any price the last bar allows       *)
(* (paper_trading_loop.py:124-150).                                        *)
(***************************************************************************)
DryRunFunded == report # None => report.cash >= 0

(***************************************************************************)
(* run_paper_loop returns or raises: the `while True` of cap_max_weight    *)
(* comes to an end, since every round fixes another leg (lines 169-192).   *)
(***************************************************************************)
RunEnds == phase # "idle" ~> phase = "idle"

(***************************************************************************)
(* "intraday strategies %s will be zeroed; capital restricted to %s"       *)
(* (alpaca_execution.py:129): what is sized in a run whose breaker is      *)
(* armed has nothing on the intraday legs.                                 *)
(***************************************************************************)
BreakerHolds == phase = "size" /\ gated => \A i \in Intraday : w[i] = 0
=============================================================================
