-------------------------- MODULE PointInTimeProofs --------------------------
(***************************************************************************)
(* Theorems about PointInTime: for every window length, lag, calendar and  *)
(* history, no leg and no observation reads a bar it could not have had,   *)
(* and what a build says of a day depends on the bars up to that day       *)
(* alone.  Both arguments go bottom up: what shift, rolling, diff and the  *)
(* joins do to the age of the cells of a series, and to two series that    *)
(* are alike up to a day, then each leg and the feature frame as a         *)
(* composition of those, then the arrays built from them.                  *)
(***************************************************************************)
EXTENDS PointInTime, Integers, TLAPS, FiniteSetTheorems

\* The cells are of symbols in Y and at least k older than t.
Timely(C, t, k, Y) ==
    \A c \in C : c.sym \in Y /\ c.time \in Int /\ c.time + k <= t

\* A series on index I whose value at t is at least k older than t.
Causal(s, I, k, Y) == DOMAIN s = I /\ \A t \in I : Timely(s[t], t, k, Y)

\* A leg on index I whose position is decided p + 1 before it earns.
Honest(leg, I, p, Y) ==
    /\ DOMAIN leg = I
    /\ \A t \in I : /\ Timely(leg[t].signal, t, p + 1, Y)
                    /\ Timely(leg[t].move, t, 0, Y)

Daily == Symbols \ {"intraday"}

-----------------------------------------------------------------------------
(* Positions in an index *)

\* The k-th entry before t is at least k older than t, whatever is missing.
LEMMA BackLag ==
    ASSUME NEW I \in SUBSET Int, NEW t \in Int, NEW k \in Nat, NEW u \in Back(I, t, k)
    PROVE  u \in I /\ u + k <= t
<1>1. u \in I /\ u \in Int /\ u <= t /\ Cardinality(After(I, u, t)) = k
  BY DEF Back
<1>2. After(I, u, t) \subseteq (u + 1) .. t
  <2>1. \A v \in After(I, u, t) : v \in Int /\ u < v /\ v <= t
    BY DEF After
  <2>2. \A v \in Int : u < v => u + 1 <= v
    BY <1>1
  <2> QED
    BY <1>1, <2>1, <2>2
<1>3. /\ IsFiniteSet((u + 1) .. t)
      /\ Cardinality((u + 1) .. t) = IF u + 1 > t THEN 0 ELSE t - (u + 1) + 1
  BY <1>1, FS_Interval
<1>4. Cardinality(After(I, u, t)) <= Cardinality((u + 1) .. t)
  BY <1>2, <1>3, FS_Subset
<1> QED
  BY <1>1, <1>3, <1>4

LEMMA CellsTimely ==
    ASSUME NEW I \in SUBSET Int, NEW Y, NEW s, NEW j \in Nat, NEW k \in Nat,
           Causal(s, I, j, Y), NEW t \in Int, NEW T \in SUBSET I,
           \A u \in T : u + k <= t
    PROVE  Timely(Cells(s, T), t, j + k, Y)
<1> SUFFICES ASSUME NEW u \in T, NEW c \in s[u]
             PROVE  c.sym \in Y /\ c.time \in Int /\ c.time + (j + k) <= t
  BY DEF Timely, Cells
<1>1. u \in Int /\ u + k <= t
  OBVIOUS
<1>2. c.sym \in Y /\ c.time \in Int /\ c.time + j <= u
  BY DEF Causal, Timely
<1> QED
  BY <1>1, <1>2

-----------------------------------------------------------------------------
(* Series *)

LEMMA Weaken ==
    ASSUME NEW I \in SUBSET Int, NEW Y, NEW s, NEW j \in Nat, NEW k \in Nat, k <= j,
           Causal(s, I, j, Y)
    PROVE  Causal(s, I, k, Y)
<1> SUFFICES ASSUME NEW t \in I, NEW c \in s[t]
             PROVE  c.sym \in Y /\ c.time \in Int /\ c.time + k <= t
  BY DEF Causal, Timely
<1>1. t \in Int /\ c.sym \in Y /\ c.time \in Int /\ c.time + j <= t
  BY DEF Causal, Timely
<1> QED
  BY <1>1

LEMMA BarsCausal ==
    ASSUME NEW I \in SUBSET Int, NEW Y, NEW sym \in Y
    PROVE  Causal(Bars(sym, I), I, 0, Y)
BY DEF Bars, Causal, Timely

\* shift(k) adds k to the age of a series.
LEMMA ShiftCausal ==
    ASSUME NEW I \in SUBSET Int, NEW Y, NEW s, NEW j \in Nat, NEW k \in Nat,
           Causal(s, I, j, Y)
    PROVE  Causal(Shift(s, k), I, j + k, Y)
<1>1. DOMAIN s = I
  BY DEF Causal
<1>2. ASSUME NEW t \in I
      PROVE  Timely(Cells(s, Back(I, t, k)), t, j + k, Y)
  <2>1. Back(I, t, k) \in SUBSET I /\ \A u \in Back(I, t, k) : u + k <= t
    BY BackLag DEF Back
  <2> QED
    BY <2>1, CellsTimely
<1> QED
  BY <1>1, <1>2 DEF Causal, Shift

\* A window ends with the bar it is computed for.
LEMMA RollingCausal ==
    ASSUME NEW I \in SUBSET Int, NEW Y, NEW s, NEW j \in Nat, NEW w, NEW m,
           Causal(s, I, j, Y)
    PROVE  Causal(Rolling(s, w, m), I, j, Y)
<1>1. DOMAIN s = I
  BY DEF Causal
<1>2. ASSUME NEW t \in I
      PROVE  Timely(Cells(s, Window(I, t, w)), t, j, Y)
  <2>1. Window(I, t, w) \in SUBSET I /\ \A u \in Window(I, t, w) : u + 0 <= t
    BY DEF Window
  <2>2. Timely(Cells(s, Window(I, t, w)), t, j + 0, Y)
    BY <2>1, CellsTimely, 0 \in Nat
  <2> QED
    BY <2>2
<1>3. \A t \in I : Timely({}, t, j, Y)
  BY DEF Timely
<1> QED
  BY <1>1, <1>2, <1>3 DEF Causal, Rolling

LEMMA WithCausal ==
    ASSUME NEW I \in SUBSET Int, NEW Y, NEW r, NEW s, NEW j \in Nat,
           Causal(r, I, j, Y), Causal(s, I, j, Y)
    PROVE  Causal(With(r, s), I, j, Y)
BY DEF Causal, Timely, With

LEMMA DiffCausal ==
    ASSUME NEW I \in SUBSET Int, NEW Y, NEW s, NEW j \in Nat, NEW k \in Nat,
           Causal(s, I, j, Y)
    PROVE  Causal(Diff(s, k), I, j, Y)
<1>1. DOMAIN s = I
  BY DEF Causal
<1>2. Causal(Shift(s, k), I, j, Y)
  <2>1. j + k \in Nat /\ j <= j + k
    OBVIOUS
  <2> QED
    BY <2>1, ShiftCausal, Weaken
<1>3. \A t \in I : Timely(s[t], t, j, Y) /\ Timely(Cells(s, Back(I, t, k)), t, j, Y)
  BY <1>1, <1>2 DEF Causal, Shift
<1>4. Diff(s, k) = [t \in I |-> IF Back(I, t, k) = {} THEN {} ELSE s[t] \cup Cells(s, Back(I, t, k))]
  BY <1>1 DEF Diff
<1> QED
  BY <1>3, <1>4 DEF Causal, Timely

LEMMA InnerJoinCausal ==
    ASSUME NEW I \in SUBSET Int, NEW J \in SUBSET Int, NEW Y, NEW r, NEW s, NEW j \in Nat,
           Causal(r, I, j, Y), Causal(s, J, j, Y)
    PROVE  Causal(InnerJoin(r, s), I \cap J, j, Y)
BY DEF Causal, Timely, InnerJoin

LEMMA ReindexCausal ==
    ASSUME NEW I \in SUBSET Int, NEW J \in SUBSET Int, NEW Y, NEW s, NEW j \in Nat,
           Causal(s, I, j, Y)
    PROVE  Causal(Reindex(s, J), J, j, Y)
BY DEF Causal, Timely, Reindex

\* Filling forward takes a value from the past only.
LEMMA ReindexFfillCausal ==
    ASSUME NEW I \in SUBSET Int, NEW J \in SUBSET Int, NEW Y, NEW s, NEW j \in Nat,
           NEW n, Causal(s, I, j, Y)
    PROVE  Causal(ReindexFfill(s, J, n), J, j, Y)
<1>1. DOMAIN s = I
  BY DEF Causal
<1>2. ASSUME NEW t \in J
      PROVE  Timely(Cells(s, Latest(Window(J, t, n + 1) \cap I)), t, j, Y)
  <2> DEFINE T == Latest(Window(J, t, n + 1) \cap I)
  <2>1. T \in SUBSET I /\ \A u \in T : u + 0 <= t
    BY DEF Window, Latest
  <2> HIDE DEF T
  <2>2. Timely(Cells(s, T), t, j + 0, Y)
    BY <2>1, CellsTimely, 0 \in Nat
  <2> QED
    BY <2>2 DEF T
<1> QED
  BY <1>1, <1>2 DEF Causal, ReindexFfill

-----------------------------------------------------------------------------
(* Legs *)

LEMMA WindowType == ASSUME NEW w \in WindowNames PROVE W[w] \in Nat
BY BankAssumption

LEMMA ZerosHonest ==
    ASSUME NEW I \in SUBSET Int, NEW Y, NEW p \in Nat
    PROVE  Honest(Zeros(I), I, p, Y)
BY DEF Zeros, Honest, Timely

\* base.position_returns adds the one bar of lag between a position and the
\* move it earns.
LEMMA PositionReturnsHonest ==
    ASSUME NEW I \in SUBSET Int, NEW Y, NEW p \in Nat, NEW position, NEW moves, NEW fitted,
           Causal(position, I, p, Y), Causal(moves, I, 0, Y)
    PROVE  Honest(PositionReturns(position, moves, fitted), I, p, Y)
<1>1. Causal(Shift(position, 1), I, p + 1, Y)
  BY ShiftCausal
<1> QED
  BY <1>1 DEF PositionReturns, Causal, Honest

LEMMA StatArbHonest ==
    ASSUME NEW I \in SUBSET Int, NEW J \in SUBSET Int, NEW Y, NEW a, NEW b, NEW beta,
           NEW p \in Nat, Causal(a, I, 0, Y), Causal(b, J, 0, Y)
    PROVE  Honest(StatArbReturns(a, b, beta, p), I \cap J, p, Y)
<1> DEFINE K == I \cap J
           spread == InnerJoin(a, b)
           z == With(spread, Rolling(spread, W["z"], W["z"]))
           position == Shift(z, p)
           moves == With(Diff(spread, 1), Diff(position, 1))
<1>1. K \in SUBSET Int /\ Causal(spread, K, 0, Y)
  BY InnerJoinCausal
<1> HIDE DEF K, spread
<1>2. Causal(z, K, 0, Y)
  BY <1>1, RollingCausal, WithCausal
<1> HIDE DEF z
<1>3. Causal(position, K, p, Y)
  BY <1>1, <1>2, ShiftCausal, 0 + p = p
<1> HIDE DEF position
<1>4. Causal(Diff(spread, 1), K, 0, Y)
  BY <1>1, DiffCausal
<1>5. Causal(Diff(position, 1), K, 0, Y)
  BY <1>1, <1>3, DiffCausal, Weaken
<1>6. Causal(moves, K, 0, Y)
  BY <1>1, <1>4, <1>5, WithCausal
<1> HIDE DEF moves
<1>7. Honest(PositionReturns(position, moves, beta), K, p, Y)
  BY <1>1, <1>3, <1>6, PositionReturnsHonest
<1>8. DOMAIN spread = K
  BY <1>1 DEF Causal
<1>9. Honest(Zeros(DOMAIN spread), K, p, Y)
  BY <1>1, <1>8, ZerosHonest
<1> QED
  BY <1>7, <1>9 DEF StatArbReturns, K, spread, z, position, moves

LEMMA FractionalStatArbHonest ==
    ASSUME NEW I \in SUBSET Int, NEW J \in SUBSET Int, NEW Y, NEW a, NEW b, NEW beta,
           NEW p \in Nat, Causal(a, I, 0, Y), Causal(b, J, 0, Y)
    PROVE  Honest(FractionalStatArbReturns(a, b, beta, p), I \cap J, p, Y)
<1> DEFINE K == I \cap J
           spread == InnerJoin(a, b)
           z == With(spread, Rolling(spread, W["frac"], W["frac_min"]))
           d == Rolling(spread, W["frac"], W["gph_min"])
           position == With(Shift(z, p), Shift(d, p))
<1>1. K \in SUBSET Int /\ Causal(spread, K, 0, Y)
  BY InnerJoinCausal
<1> HIDE DEF K, spread
<1>2. Causal(z, K, 0, Y) /\ Causal(d, K, 0, Y)
  BY <1>1, RollingCausal, WithCausal
<1> HIDE DEF z, d
<1>3. Causal(Shift(z, p), K, p, Y) /\ Causal(Shift(d, p), K, p, Y)
  BY <1>1, <1>2, ShiftCausal, 0 + p = p
<1>4. Causal(position, K, p, Y)
  BY <1>1, <1>3, WithCausal
<1>5. Causal(Diff(spread, 1), K, 0, Y)
  BY <1>1, DiffCausal
<1> HIDE DEF position
<1>6. Honest(PositionReturns(position, Diff(spread, 1), beta), K, p, Y)
  BY <1>1, <1>4, <1>5, PositionReturnsHonest
<1> QED
  BY <1>6 DEF FractionalStatArbReturns, K, spread, z, d, position

LEMMA TrueRangeCausal ==
    ASSUME NEW I \in SUBSET Int, NEW Y, NEW s, Causal(s, I, 0, Y)
    PROVE  Causal(TrueRange(s), I, 0, Y)
BY ShiftCausal, Weaken, WithCausal DEF TrueRange

LEMMA VolBreakoutHonest ==
    ASSUME NEW I \in SUBSET Int, NEW Y, NEW bars, NEW p \in Nat, Causal(bars, I, 0, Y)
    PROVE  Honest(VolBreakoutReturns(bars, p), I, p, Y)
<1> DEFINE atr == Rolling(TrueRange(bars), W["atr"], W["atr"])
           extremes == Rolling(bars, W["lookback"], W["lookback"])
           levels == With(Shift(extremes, p), Shift(atr, p))
           position == With(Shift(bars, p), levels)
<1>1. Causal(atr, I, 0, Y) /\ Causal(extremes, I, 0, Y)
  BY TrueRangeCausal, RollingCausal
<1> HIDE DEF atr, extremes
<1>2. /\ Causal(Shift(extremes, p), I, p, Y) /\ Causal(Shift(atr, p), I, p, Y)
      /\ Causal(Shift(bars, p), I, p, Y)
  BY <1>1, ShiftCausal, 0 + p = p
<1>3. Causal(levels, I, p, Y)
  BY <1>2, WithCausal
<1> HIDE DEF levels
<1>4. Causal(position, I, p, Y) /\ Causal(Diff(bars, 1), I, 0, Y)
  BY <1>2, <1>3, WithCausal, DiffCausal
<1> HIDE DEF position
<1>5. Honest(PositionReturns(position, Diff(bars, 1), {}), I, p, Y)
  BY <1>4, PositionReturnsHonest
<1> QED
  BY <1>5 DEF VolBreakoutReturns, atr, extremes, levels, position

LEMMA MeanReversionHonest ==
    ASSUME NEW I \in SUBSET Int, NEW Y, NEW bars, NEW p \in Nat, Causal(bars, I, 0, Y)
    PROVE  Honest(MeanReversionReturns(bars, p), I, p, Y)
<1> DEFINE rsi == Rolling(Diff(bars, 1), W["rsi"], W["rsi"])
           bands == Rolling(bars, W["bb"], W["bb"])
           rest == With(Shift(bars, p), Shift(bands, p))
           position == With(Shift(rsi, p), rest)
<1>1. Causal(Diff(bars, 1), I, 0, Y)
  BY DiffCausal
<1>2. Causal(rsi, I, 0, Y) /\ Causal(bands, I, 0, Y)
  BY <1>1, RollingCausal
<1> HIDE DEF rsi, bands
<1>3. /\ Causal(Shift(rsi, p), I, p, Y) /\ Causal(Shift(bands, p), I, p, Y)
      /\ Causal(Shift(bars, p), I, p, Y)
  BY <1>2, ShiftCausal, 0 + p = p
<1>4. Causal(rest, I, p, Y)
  BY <1>3, WithCausal
<1> HIDE DEF rest
<1>5. Causal(position, I, p, Y)
  BY <1>3, <1>4, WithCausal
<1> HIDE DEF position
<1>6. Honest(PositionReturns(position, Diff(bars, 1), {}), I, p, Y)
  BY <1>1, <1>5, PositionReturnsHonest
<1> QED
  BY <1>6 DEF MeanReversionReturns, rsi, bands, rest, position

LEMMA CrossoverHonest ==
    ASSUME NEW I \in SUBSET Int, NEW Y, NEW bars, NEW p \in Nat, Causal(bars, I, 0, Y)
    PROVE  /\ Honest(DailyMomentumReturns(bars, p), I, p, Y)
           /\ Honest(DailyTrendReturns(bars, p), I, p, Y)
<1> DEFINE fast == Rolling(bars, W["fast"], W["fast"])
           slow == Rolling(bars, W["slow"], W["slow"])
           position == With(Shift(fast, p), Shift(slow, p))
<1>1. Causal(fast, I, 0, Y) /\ Causal(slow, I, 0, Y)
  BY RollingCausal
<1> HIDE DEF fast, slow
<1>2. Causal(Shift(fast, p), I, p, Y) /\ Causal(Shift(slow, p), I, p, Y)
  BY <1>1, ShiftCausal, 0 + p = p
<1>3. Causal(position, I, p, Y) /\ Causal(Diff(bars, 1), I, 0, Y)
  BY <1>2, WithCausal, DiffCausal
<1> HIDE DEF position
<1>4. Honest(PositionReturns(position, Diff(bars, 1), {}), I, p, Y)
  BY <1>3, PositionReturnsHonest
<1> QED
  BY <1>4 DEF DailyMomentumReturns, DailyTrendReturns, fast, slow, position

LEMMA VixFadeHonest ==
    ASSUME NEW I \in SUBSET Int, NEW J \in SUBSET Int, NEW Y, NEW vix, NEW asset,
           NEW p \in Nat, Causal(vix, J, 0, Y), Causal(asset, I, 0, Y)
    PROVE  Honest(VixFadeReturns(vix, asset, p, I), I, p, Y)
<1> DEFINE level == VixLevel(vix, I)
           position == With(Shift(level, p), Shift(Diff(level, W["roc"]), p))
           moves == Reindex(Diff(asset, 1), I)
<1>1. Causal(level, I, 0, Y)
  BY ReindexFfillCausal DEF VixLevel
<1> HIDE DEF level
<1>2. Causal(Diff(level, W["roc"]), I, 0, Y)
  BY <1>1, DiffCausal, WindowType DEF WindowNames
<1>3. Causal(Shift(level, p), I, p, Y) /\ Causal(Shift(Diff(level, W["roc"]), p), I, p, Y)
  BY <1>1, <1>2, ShiftCausal, 0 + p = p
<1>4. Causal(position, I, p, Y)
  BY <1>3, WithCausal
<1>5. Causal(moves, I, 0, Y)
  BY DiffCausal, ReindexCausal
<1> HIDE DEF position, moves
<1>6. Honest(PositionReturns(position, moves, {}), I, p, Y)
  BY <1>4, <1>5, PositionReturnsHonest
<1> QED
  BY <1>6 DEF VixFadeReturns, level, position, moves

LEMMA CrossSectionalMomentumHonest ==
    ASSUME NEW I \in SUBSET Int, NEW J \in SUBSET Int, NEW Y, NEW ticker, NEW benchmark,
           NEW p \in Nat, Causal(ticker, I, 0, Y), Causal(benchmark, J, 0, Y)
    PROVE  Honest(CrossSectionalMomentumReturns(ticker, benchmark, p, I), I, p, Y)
<1> DEFINE N == Cardinality(I)
           own == ReindexFfill(ticker, I, N)
           other == ReindexFfill(benchmark, I, N)
           position == With(Shift(Diff(own, W["xs_lookback"]), p),
                            Shift(Diff(other, W["xs_lookback"]), p))
<1> HIDE DEF N
<1>1. Causal(own, I, 0, Y) /\ Causal(other, I, 0, Y)
  BY ReindexFfillCausal
<1> HIDE DEF own, other
<1>2. /\ Causal(Diff(own, W["xs_lookback"]), I, 0, Y)
      /\ Causal(Diff(other, W["xs_lookback"]), I, 0, Y)
  BY <1>1, DiffCausal, WindowType DEF WindowNames
<1>3. /\ Causal(Shift(Diff(own, W["xs_lookback"]), p), I, p, Y)
      /\ Causal(Shift(Diff(other, W["xs_lookback"]), p), I, p, Y)
  BY <1>2, ShiftCausal, 0 + p = p
<1>4. Causal(position, I, p, Y) /\ Causal(Diff(own, 1), I, 0, Y)
  BY <1>1, <1>3, WithCausal, DiffCausal
<1> HIDE DEF position
<1>5. Honest(PositionReturns(position, Diff(own, 1), {}), I, p, Y)
  BY <1>4, PositionReturnsHonest
<1> QED
  BY <1>5 DEF CrossSectionalMomentumReturns, position, own, other, N

LEMMA VrpHarvestingHonest ==
    ASSUME NEW I \in SUBSET Int, NEW J \in SUBSET Int, NEW Y, NEW spy_r, NEW vix,
           NEW p \in Nat, Causal(spy_r, I, 0, Y), Causal(vix, J, 0, Y)
    PROVE  Honest(VrpHarvestingReturns(spy_r, vix, p, I), I, p, Y)
<1> DEFINE rv == Rolling(spy_r, W["rv"], W["rv"])
           vrp == With(VixLevel(vix, I), rv)
           z == With(vrp, Rolling(vrp, W["vrp_z"], W["vrp_min"]))
<1>1. Causal(rv, I, 0, Y) /\ Causal(VixLevel(vix, I), I, 0, Y)
  BY RollingCausal, ReindexFfillCausal DEF VixLevel
<1> HIDE DEF rv
<1>2. Causal(vrp, I, 0, Y)
  BY <1>1, WithCausal
<1> HIDE DEF vrp
<1>3. Causal(z, I, 0, Y)
  BY <1>2, WithCausal, RollingCausal
<1> HIDE DEF z
<1>4. Causal(Shift(z, p), I, p, Y)
  BY <1>3, ShiftCausal, 0 + p = p
<1>5. Honest(PositionReturns(Shift(z, p), spy_r, {}), I, p, Y)
  BY <1>4, PositionReturnsHonest
<1>6. Honest(Zeros(I), I, p, Y)
  BY ZerosHonest
<1> QED
  BY <1>5, <1>6 DEF VrpHarvestingReturns, rv, vrp, z

LEMMA OrZerosHonest ==
    ASSUME NEW I \in SUBSET Int, NEW Y, NEW p \in Nat, NEW leg, NEW n, Honest(leg, I, p, Y)
    PROVE  Honest(OrZeros(leg, I, n), I, p, Y)
BY ZerosHonest DEF OrZeros

Store == [Symbols -> SUBSET Nat]

LEMMA SpyReturnsCausal ==
    ASSUME NEW store \in Store, NEW master \in SUBSET Int
    PROVE  Causal(SpyReturns(store, master), master, 0, Daily)
<1>1. /\ Causal(Bars("primary", master), master, 0, Daily)
      /\ Causal(Bars("spy", store["spy"]), store["spy"], 0, Daily)
      /\ store["spy"] \in SUBSET Int
  <2>1. "spy" \in Daily /\ "primary" \in Daily /\ store["spy"] \in SUBSET Int
    BY DEF Daily, Symbols, Store
  <2> QED
    BY <2>1, BarsCausal
<1>2. /\ Causal(Diff(Bars("primary", master), 1), master, 0, Daily)
      /\ Causal(Diff(Bars("spy", store["spy"]), 1), store["spy"], 0, Daily)
  BY <1>1, DiffCausal
<1> QED
  BY <1>1, <1>2, ReindexCausal DEF SpyReturns

\* Every leg of the bank holds positions decided p + 1 before they earn, and
\* reads bars of its own clock.
LEMMA LegsHonest ==
    ASSUME NEW store \in Store, NEW p \in Nat, NEW l \in Present(store)
    PROVE  IF l \in Intraday
           THEN Honest(Legs(store, p)[l], IntradayTimes(store["intraday"]), p, {"intraday"})
           ELSE \E I \in SUBSET Int : Honest(Legs(store, p)[l], I, p, Daily)
<1> DEFINE master == store["primary"]
           J == store["partner"]
           S == store["spy"]
           V == store["vix"]
           T == IntradayTimes(store["intraday"])
           primary == Bars("primary", master)
           partner == Bars("partner", J)
           spy == Bars("spy", S)
           vix == Bars("vix", V)
           intraday == Bars("intraday", T)
           beta == HedgeRatio(primary, partner)
           spy_r == SpyReturns(store, master)
           all ==
             [stat_arb |-> StatArbReturns(primary, partner, beta, p),
              vol_breakout |-> VolBreakoutReturns(intraday, p),
              mean_reversion |-> MeanReversionReturns(intraday, p),
              daily_momentum |->
                 OrZeros(DailyMomentumReturns(primary, p), master, W["slow"]),
              daily_trend |-> OrZeros(DailyTrendReturns(primary, p), master, W["slow"]),
              vix_fade |-> VixFadeReturns(vix, primary, p, master),
              cross_sectional_mom |->
                 OrZeros(CrossSectionalMomentumReturns(primary, spy, p, master),
                         master, W["xs_lookback"]),
              fractional_stat_arb |-> FractionalStatArbReturns(primary, partner, beta, p),
              vrp_harvesting |-> VrpHarvestingReturns(spy_r, vix, p, master)]
<1>1. /\ master \in SUBSET Int /\ J \in SUBSET Int /\ S \in SUBSET Int
      /\ V \in SUBSET Int
  BY DEF Store, Symbols
<1>2. T \in SUBSET Int
  <2>1. \A d \in store["intraday"] : (d - 1) * Slots + 1 .. d * Slots \subseteq Int
    OBVIOUS
  <2> QED
    BY <2>1 DEF IntradayTimes
<1>3. Legs(store, p)[l] = all[l]
  BY DEF Legs
<1> HIDE DEF T
<1>4. /\ Causal(primary, master, 0, Daily) /\ Causal(partner, J, 0, Daily)
      /\ Causal(spy, S, 0, Daily) /\ Causal(vix, V, 0, Daily)
  BY <1>1, BarsCausal DEF Daily, Symbols
<1>5. Causal(intraday, T, 0, {"intraday"})
  BY <1>2, BarsCausal
<1>6. Causal(spy_r, master, 0, Daily)
  BY <1>1, SpyReturnsCausal
<1> HIDE DEF master, J, S, V, primary, partner, spy, vix, intraday, beta, spy_r
<1>7. /\ Honest(all.stat_arb, master \cap J, p, Daily)
      /\ Honest(all.fractional_stat_arb, master \cap J, p, Daily)
      /\ (master \cap J) \in SUBSET Int
  BY <1>1, <1>4, StatArbHonest, FractionalStatArbHonest
<1>8. Honest(all.vol_breakout, T, p, {"intraday"}) /\ Honest(all.mean_reversion, T, p, {"intraday"})
  BY <1>2, <1>5, VolBreakoutHonest, MeanReversionHonest
<1>9. Honest(all.daily_momentum, master, p, Daily) /\ Honest(all.daily_trend, master, p, Daily)
  BY <1>1, <1>4, CrossoverHonest, OrZerosHonest
<1>10. Honest(all.vix_fade, master, p, Daily)
  BY <1>1, <1>4, VixFadeHonest
<1>11. Honest(all.cross_sectional_mom, master, p, Daily)
  BY <1>1, <1>4, CrossSectionalMomentumHonest, OrZerosHonest
<1>12. Honest(all.vrp_harvesting, master, p, Daily)
  BY <1>1, <1>4, <1>6, VrpHarvestingHonest
<1>13. l \in LegNames
  BY DEF Present, Benchmarked
<1> HIDE DEF all
<1> QED
  BY <1>1, <1>3, <1>7, <1>8, <1>9, <1>10, <1>11, <1>12, <1>13 DEF LegNames, Intraday, T

-----------------------------------------------------------------------------
(* The store and what is read of it *)

Finite(store) == \A s \in Symbols : IsFiniteSet(store[s])

FiniteStore == {H \in Store : Finite(H)}

StoreInv ==
    settings \in AllSettings /\ today \in Nat /\ have \in FiniteStore

LEMMA StoreInit == Init => StoreInv
<1>1. IsFiniteSet({})
  BY FS_EmptySet
<1> QED
  BY <1>1 DEF Init, StoreInv, FiniteStore, Store, Finite

\* New days and filled holes are finitely many days up to the present.
LEMMA StoreNext ==
    ASSUME StoreInv, [Next]_vars
    PROVE  StoreInv'
<1>1. ASSUME NEW more \in [Symbols -> SUBSET (1 .. today + 1)],
             have' = [s \in Symbols |-> have[s] \cup more[s]]
      PROVE  have' \in FiniteStore
  <2>1. today \in Nat /\ IsFiniteSet(1 .. today + 1) /\ 1 .. today + 1 \in SUBSET Nat
    <3>1. today \in Nat /\ 1 \in Int /\ today + 1 \in Int
      BY DEF StoreInv
    <3> QED
      BY <3>1, FS_Interval
  <2>2. ASSUME NEW s \in Symbols
        PROVE  have[s] \cup more[s] \in SUBSET Nat /\ IsFiniteSet(have[s] \cup more[s])
    <3>1. have[s] \in SUBSET Nat /\ IsFiniteSet(have[s])
      BY DEF StoreInv, FiniteStore, Store, Finite
    <3>2. more[s] \in SUBSET Nat /\ IsFiniteSet(more[s])
      BY <2>1, FS_Subset
    <3> QED
      BY <3>1, <3>2, FS_Union
  <2> QED
    BY <1>1, <2>2 DEF FiniteStore, Store, Finite
<1>2. ASSUME NEW missing \in Missing, NextDay(missing)
      PROVE  StoreInv'
  <2> DEFINE more == [s \in Symbols |-> IF s \in missing THEN {} ELSE {today + 1}]
  <2>1. more \in [Symbols -> SUBSET (1 .. today + 1)]
    BY DEF StoreInv
  <2>2. have' = [s \in Symbols |-> have[s] \cup more[s]]
    BY <1>2 DEF NextDay
  <2> HIDE DEF more
  <2> QED
    BY <1>1, <1>2, <2>1, <2>2 DEF NextDay, StoreInv
<1>3. ASSUME NEW missing \in Missing, Backfill(missing)
      PROVE  StoreInv'
  <2> DEFINE more == [s \in Symbols |->
                        {t \in 1 .. today : s \in missing /\ t + Period[s] > today}]
  <2>1. more \in [Symbols -> SUBSET (1 .. today + 1)]
    <3>1. today \in Nat
      BY DEF StoreInv
    <3> QED
      BY <3>1
  <2>2. have' = [s \in Symbols |-> have[s] \cup more[s]]
    BY <1>3 DEF Backfill
  <2> HIDE DEF more
  <2> QED
    BY <1>1, <1>3, <2>1, <2>2 DEF Backfill, StoreInv
<1>4. CASE UNCHANGED <<settings, today, have>>
  BY <1>4 DEF StoreInv
<1> QED
  BY <1>2, <1>3, <1>4 DEF Next, BuildTrainingData, vars

\* The bars of a build are a part of the store.
Sound(read) ==
    /\ read.bank \in FiniteStore
    /\ read.primary \in SUBSET Nat /\ IsFiniteSet(read.primary)

LEMMA ReadingIsSound ==
    ASSUME StoreInv, NEW stale, NEW source, NEW lost, NEW read, source \in Sources,
           read = Reading(stale, source, lost)
    PROVE  Sound(read)
<1>1. ASSUME NEW s \in Symbols
      PROVE  BankBars(stale)[s] \in SUBSET have[s]
  BY DEF BankBars, Downloaded
<1>2. ASSUME NEW s \in Symbols, NEW D \in SUBSET have[s]
      PROVE  D \in SUBSET Nat /\ IsFiniteSet(D)
  <2>1. have[s] \in SUBSET Nat /\ IsFiniteSet(have[s])
    BY DEF StoreInv, FiniteStore, Store, Finite
  <2> QED
    BY <2>1, FS_Subset
<1>3. BankBars(stale) \in FiniteStore
  <2>1. \A s \in Symbols : BankBars(stale)[s] \in SUBSET Nat /\ IsFiniteSet(BankBars(stale)[s])
    BY <1>1, <1>2
  <2>2. BankBars(stale) = [s \in Symbols |-> BankBars(stale)[s]]
    BY DEF BankBars
  <2> HIDE DEF BankBars
  <2> QED
    BY <2>1, <2>2 DEF FiniteStore, Store, Finite
<1>4. "primary" \in Symbols
  BY DEF Symbols
<1>5. read.primary \in SUBSET have["primary"]
  <2>1. Downloaded("primary", lost) \in SUBSET have["primary"]
    BY DEF Downloaded
  <2>2. BankBars(stale)["primary"] \in SUBSET have["primary"]
    BY <1>1, <1>4
  <2> QED
    BY <2>1, <2>2 DEF Reading, Sources
<1>6. read.bank = BankBars(stale)
  BY DEF Reading
<1> QED
  BY <1>2, <1>3, <1>4, <1>5, <1>6 DEF Sound

-----------------------------------------------------------------------------
(* What a leg holds *)

(***************************************************************************)
(* No position of any leg is decided by a bar younger than pit_shift + 1   *)
(* bars before the one it earns on (base.py:47-55 and every leg): for      *)
(* every window length, lag and pit_shift, and whatever bars the store     *)
(* lacks, has got late or has not got yet.                                 *)
(***************************************************************************)
THEOREM LegsNeverLookAhead == Spec => []LegsCausal
<1> DEFINE Inv == StoreInv
<1>1. Init => Inv
  BY StoreInit
<1>2. Inv /\ [Next]_vars => Inv'
  BY StoreNext
<1>3. Inv => LegsCausal
  <2> SUFFICES ASSUME Inv, NEW l \in DOMAIN Legs(have, settings.pit),
                      NEW t \in DOMAIN Legs(have, settings.pit)[l]
               PROVE  /\ \A c \in Legs(have, settings.pit)[l][t].signal :
                             c.time + 1 + settings.pit <= t
                      /\ \A c \in Legs(have, settings.pit)[l][t].move : c.time <= t
    BY DEF LegsCausal
  <2> DEFINE leg == Legs(have, settings.pit)[l]
  <2>1. settings.pit \in Nat /\ have \in Store
    BY PointInTimeAssumption DEF StoreInv, FiniteStore
  <2>2. l \in Present(have)
    BY DEF Legs
  <2>3. IntradayTimes(have["intraday"]) \in SUBSET Int
    <3>1. \A d \in Nat : (d - 1) * Slots + 1 .. d * Slots \subseteq Int
      OBVIOUS
    <3> QED
      BY <3>1, <2>1 DEF IntradayTimes, Store, Symbols
  <2>4. PICK I \in SUBSET Int : \E Y : Honest(leg, I, settings.pit, Y)
    BY <2>1, <2>2, <2>3, LegsHonest
  <2>5. PICK Y : Honest(leg, I, settings.pit, Y)
    BY <2>4
  <2>6. t \in Int /\ Timely(leg[t].signal, t, settings.pit + 1, Y) /\ Timely(leg[t].move, t, 0, Y)
    BY <2>5 DEF Honest
  <2> HIDE DEF leg, Inv
  <2>7. \A c \in leg[t].signal : c.time + 1 + settings.pit <= t
    BY <2>1, <2>6 DEF Timely
  <2>8. \A c \in leg[t].move : c.time <= t
    BY <2>6 DEF Timely
  <2> QED
    BY <2>7, <2>8 DEF leg
<1> QED
  BY <1>1, <1>2, <1>3, PTL DEF Spec

-----------------------------------------------------------------------------
(* Rows of the training data *)

\* What the observations may have been computed from.
RowsHonest(rows, p) ==
    \A d \in DOMAIN rows : Timely(rows[d].obs, d, p, Daily)

LEMMA DayOfMonotone ==
    ASSUME NEW t \in Int, NEW u \in Int, u <= t
    PROVE  DayOf(u) \in Int /\ DayOf(t) \in Int /\ DayOf(u) <= DayOf(t)
<1>1. Slots \in Nat \ {0}
  BY BankAssumption
<1>2. \A a \in Int, b \in Int, n \in Nat \ {0} : a <= b => a \div n <= b \div n
  OBVIOUS
<1> QED
  BY <1>1, <1>2 DEF DayOf

\* On the master timeline a leg earns, and decides, by the end of the day.
LEMMA StrategyReturnsHonest ==
    ASSUME NEW store \in Store, NEW p \in Nat, NEW l \in Present(store),
           NEW master \in SUBSET Nat, NEW d \in master
    PROVE  LET leg == StrategyReturns(Legs(store, p), master)[l][d] IN
           \A c \in leg.signal \cup leg.move : CellDay(c) \in Int /\ CellDay(c) <= d
<1> DEFINE leg == Legs(store, p)[l]
           row == StrategyReturns(Legs(store, p), master)[l][d]
<1>1. DOMAIN Legs(store, p) = Present(store)
  BY DEF Legs
<1>2. CASE l \in Intraday
  <2>1. Honest(leg, DOMAIN leg, p, {"intraday"}) /\ DOMAIN leg \in SUBSET Int
    <3>1. \A e \in Nat : (e - 1) * Slots + 1 .. e * Slots \subseteq Int
      OBVIOUS
    <3>2. IntradayTimes(store["intraday"]) \in SUBSET Int
      BY <3>1 DEF IntradayTimes, Store, Symbols
    <3>3. Honest(leg, IntradayTimes(store["intraday"]), p, {"intraday"})
      BY <1>2, LegsHonest
    <3> QED
      BY <3>2, <3>3 DEF Honest
  <2> DEFINE of == {leg[t] : t \in {t \in DOMAIN leg : DayOf(t) = d}}
  <2>2. row.signal = UNION {r.signal : r \in of} /\ row.move = UNION {r.move : r \in of}
    BY <1>1, <1>2 DEF StrategyReturns, CompoundToDaily
  <2>3. ASSUME NEW t \in DOMAIN leg, DayOf(t) = d, NEW c \in leg[t].signal \cup leg[t].move
        PROVE  CellDay(c) \in Int /\ CellDay(c) <= d
    <3>1. t \in Int /\ c.sym = "intraday" /\ c.time \in Int /\ c.time <= t
      BY <2>1, <2>3 DEF Honest, Timely
    <3> QED
      BY <2>3, <3>1, DayOfMonotone DEF CellDay
  <2> HIDE DEF leg, row
  <2> QED
    BY <2>2, <2>3 DEF row
<1>3. CASE l \notin Intraday
  <2>1. PICK I \in SUBSET Int : Honest(leg, I, p, Daily)
    BY <1>3, LegsHonest
  <2>2. row = IF d \in DOMAIN leg THEN leg[d] ELSE Zeros({d})[d]
    BY <1>1, <1>3 DEF StrategyReturns, AlignReturns
  <2> HIDE DEF leg, row
  <2>3. ASSUME NEW c \in row.signal \cup row.move
        PROVE  c.sym # "intraday" /\ c.time \in Int /\ c.time <= d
    <3>1. d \in I /\ row = leg[d]
      BY <2>1, <2>2, <2>3 DEF Honest, Zeros
    <3>2. d \in Int /\ Timely(leg[d].signal, d, p + 1, Daily) /\ Timely(leg[d].move, d, 0, Daily)
      BY <2>1, <3>1 DEF Honest
    <3>3. c.sym \in Daily /\ c.time \in Int /\ (c.time + (p + 1) <= d \/ c.time + 0 <= d)
      BY <2>3, <3>1, <3>2 DEF Timely
    <3> QED
      BY <3>2, <3>3 DEF Daily
  <2> QED
    BY <2>3 DEF row, CellDay
<1> QED
  BY <1>2, <1>3

LEMMA FeaturesCausal ==
    ASSUME NEW I \in SUBSET Int, NEW Y, NEW bars, NEW p \in Nat, Causal(bars, I, 0, Y)
    PROVE  LET frame == BuildPitFeatureFrame(bars, p) IN
           DOMAIN frame \in SUBSET I /\ Causal(frame, DOMAIN frame, p, Y)
<1> DEFINE frame == BuildPitFeatureFrame(bars, p)
<1>1. ASSUME NEW c \in FeatureColumns(bars)
      PROVE  Causal(c, I, 0, Y)
  <2>1. /\ Causal(Diff(bars, 1), I, 0, Y) /\ Causal(TrueRange(bars), I, 0, Y)
        /\ \A w, m : Causal(Rolling(bars, w, m), I, 0, Y)
    BY DiffCausal, TrueRangeCausal, RollingCausal
  <2>2. \A w, m : Causal(Rolling(TrueRange(bars), w, m), I, 0, Y)
    BY <2>1, RollingCausal
  <2>3. /\ \A w, m : Causal(With(Rolling(TrueRange(bars), w, m), bars), I, 0, Y)
        /\ \A w, m : Causal(With(Rolling(bars, w, m), bars), I, 0, Y)
    BY <2>1, <2>2, WithCausal
  <2> QED
    BY <2>1, <2>3 DEF FeatureColumns
<1>2. \A c \in FeatureColumns(bars) : Causal(Shift(c, p), I, p, Y)
  BY <1>1, ShiftCausal, 0 + p = p
<1>3. DOMAIN frame \in SUBSET I
  BY DEF BuildPitFeatureFrame, Causal
<1>4. \A t \in DOMAIN frame : frame[t] = UNION {Shift(c, p)[t] : c \in FeatureColumns(bars)}
  BY DEF BuildPitFeatureFrame
<1> HIDE DEF frame
<1>5. ASSUME NEW t \in DOMAIN frame, NEW x \in frame[t]
      PROVE  x.sym \in Y /\ x.time \in Int /\ x.time + p <= t
  <2>1. PICK c \in FeatureColumns(bars) : x \in Shift(c, p)[t]
    BY <1>4, <1>5
  <2>2. t \in I /\ Timely(Shift(c, p)[t], t, p, Y)
    BY <1>2, <1>3, <2>1 DEF Causal
  <2> QED
    BY <2>1, <2>2 DEF Timely
<1> QED
  BY <1>3, <1>5 DEF Causal, Timely, frame

LEMMA RowsAreHonest ==
    ASSUME settings \in AllSettings, NEW read, Sound(read), ~HasScores(read), NEW scored
    PROVE  RowsHonest(TrainingRows(read, scored), settings.pit)
<1> DEFINE pit == settings.pit
           master == read.bank["primary"]
           frame == Frame(read)
           none == [t \in DOMAIN frame |-> {}]
           macro == IF read.source # "bank" /\ settings.macro
                    THEN MacroFrame(Bars("vix", read.bank["vix"]), DOMAIN frame, pit)
                    ELSE none
           features == Features(read, scored)
           rows == TrainingRows(read, scored)
<1>1. pit \in Nat
  BY PointInTimeAssumption
<1>2. read.bank["vix"] \in SUBSET Int /\ read.primary \in SUBSET Int /\ read.primary \in SUBSET Nat
  <2>1. read.bank["vix"] \in SUBSET Nat /\ read.primary \in SUBSET Nat
    BY DEF Sound, FiniteStore, Store, Symbols
  <2> QED
    BY <2>1
<1>3. features = With(With(frame, macro), none)
  BY DEF Features
<1>4. DOMAIN rows = master \cap DOMAIN features /\ \A d \in DOMAIN rows : rows[d].obs = Encode(features)[d]
  BY DEF TrainingRows, AlignToFeatureIndex
<1> HIDE DEF pit, master, rows, features
<1>5. DOMAIN frame \in SUBSET read.primary /\ Causal(frame, DOMAIN frame, pit, Daily)
  <2>1. Causal(Bars("primary", read.primary), read.primary, 0, Daily)
    BY <1>2, BarsCausal DEF Daily, Symbols
  <2> QED
    BY <1>1, <1>2, <2>1, FeaturesCausal DEF Frame, pit
<1> HIDE DEF frame
<1>6. Causal(none, DOMAIN frame, pit, Daily)
  BY DEF Causal, Timely
<1>7. Causal(macro, DOMAIN frame, pit, Daily)
  <2>1. Causal(Bars("vix", read.bank["vix"]), read.bank["vix"], 0, Daily)
    BY <1>2, BarsCausal DEF Daily, Symbols
  <2>2. Causal(MacroFrame(Bars("vix", read.bank["vix"]), DOMAIN frame, pit), DOMAIN frame, pit, Daily)
    BY <1>1, <1>2, <1>5, <2>1, ReindexFfillCausal, ShiftCausal, 0 + pit = pit DEF MacroFrame
  <2> QED
    BY <1>6, <2>2
<1> HIDE DEF macro, none
<1>8. DOMAIN frame \in SUBSET Int /\ Causal(features, DOMAIN frame, pit, Daily)
  BY <1>1, <1>2, <1>3, <1>5, <1>6, <1>7, WithCausal
<1>9. Causal(Encode(features), DOMAIN frame, pit, Daily)
  BY <1>1, <1>8, RollingCausal DEF Encode
<1> QED
  BY <1>4, <1>8, <1>9 DEF RowsHonest, Causal, rows, pit

-----------------------------------------------------------------------------
(* What is seen and what is weighed *)

\* The last build read a part of the store; the simulators and the environment
\* read its arrays, not the newest history.
DataInv ==
    /\ StoreInv
    /\ data # None => /\ DOMAIN data.rows \in SUBSET Nat
                      /\ ~HasScores(data.read) => RowsHonest(data.rows, settings.pit)

LEMMA DataInit == Init => DataInv
BY StoreInit DEF Init, DataInv

\* A build, by name.
LEMMA Build ==
    ASSUME StoreInv, NEW stale, NEW source \in Sources, NEW lost,
           BuildTrainingData(stale, source, lost)
    PROVE  \E read, scored :
              /\ Sound(read) /\ read = Reading(stale, source, lost)
              /\ scored = IF HasScores(read) THEN ScoredCache(DOMAIN Frame(read)) ELSE cache
              /\ data' = [read |-> read, rows |-> TrainingRows(read, scored)]
              /\ Cardinality(DOMAIN TrainingRows(read, scored)) >= MinRows
              /\ cache' = scored /\ UNCHANGED <<settings, today, have>>
<1> DEFINE read == Reading(stale, source, lost)
           scored == IF HasScores(read) THEN ScoredCache(DOMAIN Frame(read)) ELSE cache
<1>1. Sound(read)
  BY ReadingIsSound
<1>2. /\ data' = [read |-> read, rows |-> TrainingRows(read, scored)]
      /\ Cardinality(DOMAIN TrainingRows(read, scored)) >= MinRows
      /\ cache' = scored /\ UNCHANGED <<settings, today, have>>
  BY DEF BuildTrainingData
<1> HIDE DEF read
<1> QED
  BY <1>1, <1>2 DEF read

LEMMA DataNext ==
    ASSUME DataInv, [Next]_vars
    PROVE  DataInv'
<1>1. StoreInv /\ StoreInv'
  BY StoreNext DEF DataInv
<1>2. ASSUME NEW stale, NEW source \in Sources, NEW lost, BuildTrainingData(stale, source, lost)
      PROVE  DataInv'
  <2>1. PICK read, scored :
            /\ Sound(read) /\ settings' = settings
            /\ data' = [read |-> read, rows |-> TrainingRows(read, scored)]
    BY <1>1, <1>2, Build
  <2>2. DOMAIN TrainingRows(read, scored) \in SUBSET Nat
    <3>1. DOMAIN TrainingRows(read, scored) \in SUBSET read.bank["primary"]
      BY DEF TrainingRows, AlignToFeatureIndex
    <3> QED
      BY <2>1, <3>1 DEF Sound, FiniteStore, Store, Symbols
  <2>3. ~HasScores(read) => RowsHonest(TrainingRows(read, scored), settings.pit)
    BY <1>1, <2>1, RowsAreHonest DEF StoreInv
  <2> QED
    BY <1>1, <2>1, <2>2, <2>3 DEF DataInv, HasScores
<1>3. CASE UNCHANGED <<settings, data>>
  BY <1>1, <1>3 DEF DataInv, HasScores
<1> QED
  BY <1>2, <1>3 DEF Next, NextDay, Backfill, vars

(***************************************************************************)
(* An observation the policy sees, in training or in a backtest, raw or    *)
(* embedded, with or without macro columns, ends pit_shift days before its *)
(* row (pit_features.py:4, inference.py, training_data.py:71), from        *)
(* whatever bars the features and the bank were built; not so in data with *)
(* scores of filings.                                                      *)
(***************************************************************************)
THEOREM ObservationsNeverLookAhead == Spec => []ObservationsCausal
<1>1. DataInv => ObservationsCausal
  BY DEF DataInv, ObservationsCausal, PitShifted, RowsHonest, Timely
<1> QED
  BY <1>1, DataInit, DataNext, PTL DEF Spec

(***************************************************************************)
(* The n-th of some days is no later than the n-th of a part of them.      *)
(***************************************************************************)
LEMMA PositionPast ==
    ASSUME NEW D \in SUBSET Nat, NEW E \in SUBSET D, NEW day \in E, NEW d \in D,
           Position(E, day) = Position(D, d)
    PROVE  d <= day
<1> SUFFICES ASSUME day < d PROVE FALSE
  OBVIOUS
<1> DEFINE X == {u \in E : u <= day}
           Z == {u \in D : u <= d}
<1>1. X \subseteq Z /\ d \in Z /\ d \notin X
  <2>1. /\ day \in Int /\ d \in Int /\ d \in D /\ ~ (d <= day) /\ d <= d
        /\ \A u \in E : u \in D /\ u \in Int
    OBVIOUS
  <2>2. ASSUME NEW u \in X
        PROVE  u \in Z
    <3>1. u \in D /\ u \in Int /\ u <= day
      BY <2>1
    <3>2. u <= d
      BY <2>1, <3>1
    <3> QED
      BY <3>1, <3>2
  <2> QED
    BY <2>1, <2>2
<1>2. IsFiniteSet(Z)
  <2>1. d \in Int /\ 0 \in Int /\ \A u \in Z : u \in Nat /\ u <= d
    OBVIOUS
  <2> HIDE DEF X, Z
  <2>2. Z \subseteq 0 .. d /\ IsFiniteSet(0 .. d)
    BY <2>1, FS_Interval
  <2> QED
    BY <2>2, FS_Subset
<1>3. Cardinality(Z) # Cardinality(X)
  <2> HIDE DEF X, Z
  <2> QED
    BY <1>1, <1>2, FS_Subset
<1> QED
  BY <1>3 DEF Position

(***************************************************************************)
(* The observation a bar is traded by is older than the bar by pit_shift   *)
(* also in simulate_routed_portfolio_with_execution                        *)
(* (portfolio_simulator.py:132), where the days SPY lacks put rows and     *)
(* bars out of step: the n-th bar is no earlier than the n-th row.         *)
(***************************************************************************)
THEOREM WeightsNeverLookAhead == Spec => []WeightsCausal
<1>1. DataInv => WeightsCausal
  <2> SUFFICES ASSUME DataInv, data # None, PitShifted, NEW day \in 1 .. today, NEW d \in 1 .. today,
                      Executed(day, d), NEW c \in data.rows[d].obs
               PROVE  c.time + settings.pit <= day
    BY DEF WeightsCausal
  <2>1. DOMAIN data.rows \in SUBSET Nat /\ settings.pit \in Nat
    BY PointInTimeAssumption DEF DataInv, StoreInv
  <2>2. /\ ExecutionDays \in SUBSET DOMAIN data.rows
        /\ day \in ExecutionDays /\ d \in DOMAIN data.rows
        /\ Position(ExecutionDays, day) = Position(DOMAIN data.rows, d)
    BY DEF Executed, ExecutionDays
  <2>3. d <= day /\ day \in Nat /\ d \in Nat
    BY <2>1, <2>2, PositionPast
  <2>4. c.time \in Int /\ c.time + settings.pit <= d
    BY <2>2 DEF DataInv, PitShifted, RowsHonest, Timely
  <2> QED
    BY <2>1, <2>3, <2>4
<1> QED
  BY <1>1, DataInit, DataNext, PTL DEF Spec

-----------------------------------------------------------------------------
(* What a leg earns *)

\* Every value has been computed from the bar of its own time, among others.
Full(s, I, Y) ==
    /\ DOMAIN s = I
    /\ \A t \in I : \E c \in s[t] : c.sym \in Y /\ c.time = t

\* The same of every value there is.
Ended(s, I, Y) ==
    /\ DOMAIN s = I
    /\ \A t \in I : s[t] # {} => \E c \in s[t] : c.sym \in Y /\ c.time = t

Current(leg, I, Y) ==
    /\ DOMAIN leg = I
    /\ \A t \in I : leg[t].move # {} => \E c \in leg[t].move : c.sym \in Y /\ c.time = t

LEMMA BarsFull ==
    ASSUME NEW I, NEW Y, NEW sym \in Y
    PROVE  Full(Bars(sym, I), I, Y)
BY DEF Bars, Full

LEMMA InnerJoinFull ==
    ASSUME NEW I, NEW J, NEW Y, NEW r, NEW s, Full(r, I, Y), Full(s, J, Y)
    PROVE  Full(InnerJoin(r, s), I \cap J, Y)
BY DEF Full, InnerJoin

LEMMA DiffEnded ==
    ASSUME NEW I, NEW Y, NEW s, NEW k, Full(s, I, Y)
    PROVE  Ended(Diff(s, k), I, Y)
BY DEF Full, Ended, Diff

LEMMA ReindexEnded ==
    ASSUME NEW I, NEW J, NEW Y, NEW s, Ended(s, I, Y)
    PROVE  Ended(Reindex(s, J), J, Y)
BY DEF Ended, Reindex

LEMMA ZerosCurrent ==
    ASSUME NEW I, NEW Y
    PROVE  Current(Zeros(I), I, Y)
BY DEF Zeros, Current

LEMMA PositionReturnsCurrent ==
    ASSUME NEW I, NEW Y, NEW position, NEW moves, NEW fitted, Ended(moves, I, Y)
    PROVE  Current(PositionReturns(position, moves, fitted), I, Y)
BY DEF PositionReturns, Ended, Current

\* A leg's own closes are never filled forward: each day of the master
\* timeline has one.
LEMMA OwnClosesFull ==
    ASSUME NEW I \in SUBSET Int, IsFiniteSet(I), NEW Y, NEW s, Full(s, I, Y)
    PROVE  Full(ReindexFfill(s, I, Cardinality(I)), I, Y)
<1> DEFINE n == Cardinality(I)
<1>1. DOMAIN s = I
  BY DEF Full
<1>2. ASSUME NEW t \in I
      PROVE  t \in Latest(Window(I, t, n + 1) \cap I)
  <2>1. n \in Nat /\ t \in Int /\ \A u \in I : u \in Int
    BY FS_CardinalityType
  <2>2. After(I, t, t) = {}
    <3>1. \A v \in Int : ~ (t < v /\ v <= t)
      BY <2>1
    <3> QED
      BY <2>1, <3>1 DEF After
  <2>3. Cardinality(After(I, t, t)) = 0
    BY <2>2, FS_EmptySet
  <2> HIDE DEF n
  <2>4. t \in Window(I, t, n + 1)
    BY <2>1, <2>3 DEF Window
  <2>5. \A v \in Window(I, t, n + 1) : v <= t
    BY DEF Window
  <2> QED
    BY <2>4, <2>5 DEF Latest
<1> HIDE DEF n
<1>3. \A t \in I : s[t] \subseteq ReindexFfill(s, I, n)[t]
  BY <1>1, <1>2 DEF ReindexFfill, Cells
<1>4. DOMAIN ReindexFfill(s, I, n) = I
  BY DEF ReindexFfill
<1> QED
  BY <1>3, <1>4 DEF Full, n

\* The cost of a change of position is charged on days there is a spread.
LEMMA StatArbCurrent ==
    ASSUME NEW I, NEW J, NEW Y, NEW a, NEW b, NEW beta, NEW p,
           Full(a, I, Y), Full(b, J, Y)
    PROVE  Current(StatArbReturns(a, b, beta, p), I \cap J, Y)
<1> DEFINE K == I \cap J
           spread == InnerJoin(a, b)
           z == With(spread, Rolling(spread, W["z"], W["z"]))
           position == Shift(z, p)
           moves == With(Diff(spread, 1), Diff(position, 1))
<1>1. Full(spread, K, Y) /\ DOMAIN spread = K
  <2>1. Full(spread, K, Y)
    BY InnerJoinFull
  <2> QED
    BY <2>1 DEF Full
<1>2. DOMAIN position = DOMAIN spread
  BY DEF Shift, With
<1> HIDE DEF K, spread, position
<1>3. \A t \in K : moves[t] # {} => spread[t] \subseteq moves[t]
  BY <1>1, <1>2 DEF With, Diff
<1>4. DOMAIN moves = K
  BY <1>1 DEF With, Diff
<1> HIDE DEF moves
<1>5. Ended(moves, K, Y)
  BY <1>1, <1>3, <1>4 DEF Ended, Full
<1>6. Current(PositionReturns(position, moves, beta), K, Y)
  BY <1>5, PositionReturnsCurrent
<1>7. Current(Zeros(DOMAIN spread), K, Y)
  BY <1>1, ZerosCurrent
<1> QED
  BY <1>6, <1>7 DEF StatArbReturns, K, spread, position, moves

LEMMA SpyReturnsEnded ==
    ASSUME NEW store \in Store, NEW master
    PROVE  Ended(SpyReturns(store, master), master, Daily)
<1>1. "primary" \in Daily /\ "spy" \in Daily
  BY DEF Daily, Symbols
<1> QED
  BY <1>1, BarsFull, DiffEnded, ReindexEnded DEF SpyReturns

\* What a leg earns on a bar ends with that bar, or it earns nothing.
LEMMA LegsCurrent ==
    ASSUME NEW store \in Store, Finite(store), NEW p, NEW l \in Present(store)
    PROVE  IF l \in Intraday
           THEN Current(Legs(store, p)[l], IntradayTimes(store["intraday"]), {"intraday"})
           ELSE \E I \in SUBSET Int : Current(Legs(store, p)[l], I, Daily)
<1> DEFINE master == store["primary"]
           J == store["partner"]
           T == IntradayTimes(store["intraday"])
           primary == Bars("primary", master)
           partner == Bars("partner", J)
           spy == Bars("spy", store["spy"])
           vix == Bars("vix", store["vix"])
           intraday == Bars("intraday", T)
           beta == HedgeRatio(primary, partner)
           spy_r == SpyReturns(store, master)
           all ==
             [stat_arb |-> StatArbReturns(primary, partner, beta, p),
              vol_breakout |-> VolBreakoutReturns(intraday, p),
              mean_reversion |-> MeanReversionReturns(intraday, p),
              daily_momentum |->
                 OrZeros(DailyMomentumReturns(primary, p), master, W["slow"]),
              daily_trend |-> OrZeros(DailyTrendReturns(primary, p), master, W["slow"]),
              vix_fade |-> VixFadeReturns(vix, primary, p, master),
              cross_sectional_mom |->
                 OrZeros(CrossSectionalMomentumReturns(primary, spy, p, master),
                         master, W["xs_lookback"]),
              fractional_stat_arb |-> FractionalStatArbReturns(primary, partner, beta, p),
              vrp_harvesting |-> VrpHarvestingReturns(spy_r, vix, p, master)]
<1>1. master \in SUBSET Int /\ IsFiniteSet(master) /\ (master \cap J) \in SUBSET Int
  BY DEF Store, Symbols, Finite
<1>2. Legs(store, p)[l] = all[l]
  BY DEF Legs
<1>3. Full(primary, master, Daily) /\ Full(partner, J, Daily)
  BY BarsFull DEF Daily, Symbols
<1>4. Full(intraday, T, {"intraday"})
  BY BarsFull
<1>5. Ended(spy_r, master, Daily)
  BY SpyReturnsEnded
<1> HIDE DEF master, J, T, primary, partner, spy, vix, intraday, beta, spy_r
<1>6. Ended(Diff(primary, 1), master, Daily) /\ Ended(Diff(intraday, 1), T, {"intraday"})
  BY <1>3, <1>4, DiffEnded
<1>7. Current(all.stat_arb, master \cap J, Daily)
  BY <1>3, StatArbCurrent
<1>8. Current(all.fractional_stat_arb, master \cap J, Daily)
  <2>1. Full(InnerJoin(primary, partner), master \cap J, Daily)
    BY <1>3, InnerJoinFull
  <2>2. Ended(Diff(InnerJoin(primary, partner), 1), master \cap J, Daily)
    BY <2>1, DiffEnded
  <2> QED
    BY <2>2, PositionReturnsCurrent DEF FractionalStatArbReturns
<1>9. Current(all.vol_breakout, T, {"intraday"}) /\ Current(all.mean_reversion, T, {"intraday"})
  BY <1>6, PositionReturnsCurrent DEF VolBreakoutReturns, MeanReversionReturns
<1>10. /\ Current(all.daily_momentum, master, Daily)
       /\ Current(all.daily_trend, master, Daily)
  BY <1>6, PositionReturnsCurrent, ZerosCurrent
  DEF DailyMomentumReturns, DailyTrendReturns, OrZeros
<1>11. Current(all.vix_fade, master, Daily)
  BY <1>6, ReindexEnded, PositionReturnsCurrent DEF VixFadeReturns
<1>12. Current(all.cross_sectional_mom, master, Daily)
  <2>1. Full(ReindexFfill(primary, master, Cardinality(master)), master, Daily)
    BY <1>1, <1>3, OwnClosesFull
  <2>2. Ended(Diff(ReindexFfill(primary, master, Cardinality(master)), 1), master, Daily)
    BY <2>1, DiffEnded
  <2>3. Current(CrossSectionalMomentumReturns(primary, spy, p, master), master, Daily)
    BY <2>2, PositionReturnsCurrent DEF CrossSectionalMomentumReturns
  <2> QED
    BY <2>3, ZerosCurrent DEF OrZeros
<1>13. Current(all.vrp_harvesting, master, Daily)
  BY <1>5, PositionReturnsCurrent, ZerosCurrent DEF VrpHarvestingReturns
<1>14. l \in LegNames
  BY DEF Present, Benchmarked
<1> HIDE DEF all
<1> QED
  BY <1>1, <1>2, <1>7, <1>8, <1>9, <1>10, <1>11, <1>12, <1>13, <1>14
  DEF LegNames, Intraday, T

LEMMA StrategyReturnsCurrent ==
    ASSUME NEW store \in Store, Finite(store), NEW p \in Nat, NEW l \in Present(store),
           NEW master \in SUBSET Nat, NEW d \in master
    PROVE  Ends(StrategyReturns(Legs(store, p), master)[l][d].move, d)
<1> DEFINE leg == Legs(store, p)[l]
           row == StrategyReturns(Legs(store, p), master)[l][d]
<1>1. DOMAIN Legs(store, p) = Present(store)
  BY DEF Legs
<1>2. \A c \in row.move : CellDay(c) <= d
  BY StrategyReturnsHonest
<1>3. ASSUME row.move # {}
      PROVE  \E c \in row.move : CellDay(c) = d
  <2>1. CASE l \in Intraday
    <3> DEFINE of == {leg[t] : t \in {t \in DOMAIN leg : DayOf(t) = d}}
    <3>1. Current(leg, DOMAIN leg, {"intraday"})
      BY <2>1, LegsCurrent DEF Current
    <3>2. row.move = UNION {r.move : r \in of}
      BY <1>1, <2>1 DEF StrategyReturns, CompoundToDaily
    <3> HIDE DEF leg, row
    <3>3. PICK t \in DOMAIN leg : DayOf(t) = d /\ leg[t].move # {} /\ leg[t].move \subseteq row.move
      BY <1>3, <3>2
    <3>4. PICK c \in leg[t].move : c.sym \in {"intraday"} /\ c.time = t
      BY <3>1, <3>3 DEF Current
    <3> QED
      BY <3>3, <3>4 DEF CellDay
  <2>2. CASE l \notin Intraday
    <3>1. PICK I \in SUBSET Int : Current(leg, I, Daily)
      BY <2>2, LegsCurrent
    <3>2. row = IF d \in DOMAIN leg THEN leg[d] ELSE Zeros({d})[d]
      BY <1>1, <2>2 DEF StrategyReturns, AlignReturns
    <3> HIDE DEF leg, row
    <3>3. d \in I /\ row = leg[d]
      BY <1>3, <3>1, <3>2 DEF Current, Zeros
    <3> QED
      BY <1>3, <3>1, <3>3 DEF Current, Daily, CellDay
  <2> QED
    BY <2>1, <2>2
<1> QED
  BY <1>2, <1>3 DEF Ends

LEMMA RowsAreCurrent ==
    ASSUME settings \in AllSettings, NEW read, Sound(read), NEW scored,
           NEW d \in DOMAIN TrainingRows(read, scored)
    PROVE  LET row == TrainingRows(read, scored)[d] IN
           /\ Ends(row.spy, d)
           /\ \A l \in DOMAIN row.legs : Ends(row.legs[l].move, d)
<1> DEFINE bank == read.bank
           master == bank["primary"]
           returns == StrategyReturns(Legs(bank, settings.pit), master)
           spy == SpyReturns(bank, master)
           row == TrainingRows(read, scored)[d]
<1>1. settings.pit \in Nat
  BY PointInTimeAssumption
<1>2. bank \in Store /\ Finite(bank)
  BY DEF Sound, FiniteStore
<1>3. master \in SUBSET Nat /\ master \in SUBSET Int
  <2>1. master \in SUBSET Nat
    BY <1>2 DEF Store, Symbols
  <2> QED
    BY <2>1
<1>4. /\ d \in master /\ row.spy = spy[d]
      /\ DOMAIN row.legs = DOMAIN returns
      /\ \A l \in DOMAIN returns : row.legs[l] = returns[l][d]
  BY DEF TrainingRows, AlignToFeatureIndex, LegRow
<1>5. DOMAIN returns = Present(bank)
  BY DEF StrategyReturns, Legs
<1>6. Ends(spy[d], d)
  <2>1. Ended(spy, master, Daily) /\ Causal(spy, master, 0, Daily)
    BY <1>2, <1>3, SpyReturnsEnded, SpyReturnsCausal
  <2> HIDE DEF spy, master
  <2>2. \A c \in spy[d] : c.sym \in Daily /\ c.time <= d
    <3>1. d \in Int /\ Timely(spy[d], d, 0, Daily)
      BY <1>3, <1>4, <2>1 DEF Causal
    <3> QED
      BY <3>1 DEF Timely
  <2>3. spy[d] # {} => \E c \in spy[d] : c.sym \in Daily /\ c.time = d
    BY <1>4, <2>1 DEF Ended
  <2> QED
    BY <2>2, <2>3 DEF Ends, CellDay, Daily
<1> HIDE DEF row, bank, master, spy
<1>7. ASSUME NEW l \in Present(bank)
      PROVE  Ends(returns[l][d].move, d)
  BY <1>1, <1>2, <1>3, <1>4, StrategyReturnsCurrent
<1> QED
  BY <1>4, <1>5, <1>6, <1>7 DEF row

(***************************************************************************)
(* Every array of the training data has in a row what was earned on the    *)
(* day of that row (align_to_feature_index, training_data.py:60-92), also  *)
(* for the intraday legs that are compounded to days, and whatever rows    *)
(* the features, their download or the bank's cache lack.                  *)
(***************************************************************************)
THEOREM RowsStayAligned == Spec => []RowsAreOneDay
<1> DEFINE Inv == StoreInv /\ RowsAreOneDay
<1>1. Init => Inv
  BY StoreInit DEF Init, RowsAreOneDay
<1>2. Inv /\ [Next]_vars => Inv'
  <2> SUFFICES ASSUME StoreInv, RowsAreOneDay, [Next]_vars
               PROVE  RowsAreOneDay'
    BY StoreNext
  <2>1. ASSUME NEW stale, NEW source \in Sources, NEW lost, BuildTrainingData(stale, source, lost)
        PROVE  RowsAreOneDay'
    <3>1. PICK read, scored :
              Sound(read) /\ data' = [read |-> read, rows |-> TrainingRows(read, scored)]
      BY <2>1, Build
    <3>2. \A d \in DOMAIN data'.rows :
              /\ Ends(data'.rows[d].spy, d)
              /\ \A l \in DOMAIN data'.rows[d].legs : Ends(data'.rows[d].legs[l].move, d)
      BY <3>1, RowsAreCurrent DEF StoreInv
    <3> QED
      BY <3>2 DEF RowsAreOneDay
  <2>2. CASE UNCHANGED data
    BY <2>2 DEF RowsAreOneDay
  <2> QED
    BY <2>1, <2>2 DEF Next, NextDay, Backfill, vars
<1> QED
  BY <1>1, <1>2, PTL DEF Spec

-----------------------------------------------------------------------------
(* Two histories that are alike up to a day *)

Upto(I, d) == {t \in I : t <= d}

SameTo(I, J, d) ==
    I \in SUBSET Int /\ J \in SUBSET Int /\ d \in Int /\ Upto(I, d) = Upto(J, d)

\* A series on index I and one on index J, with the same values up to d.
Alike(r, s, I, J, d) ==
    DOMAIN r = I /\ DOMAIN s = J /\ \A t \in Upto(I, d) : r[t] = s[t]

(***************************************************************************)
(* Counting back from a day never sees what comes after it.                *)
(***************************************************************************)
LEMMA RowsBack ==
    ASSUME NEW I, NEW J, NEW d, SameTo(I, J, d), NEW t \in Upto(I, d), NEW k
    PROVE  /\ t \in Upto(J, d) /\ t \in Int
           /\ Back(I, t, k) = Back(J, t, k) /\ Back(I, t, k) \subseteq Upto(I, d)
           /\ Window(I, t, k) = Window(J, t, k) /\ Window(I, t, k) \subseteq Upto(I, d)
<1>1. /\ t \in Int /\ d \in Int /\ t <= d /\ I \in SUBSET Int /\ J \in SUBSET Int
      /\ \A v \in Int : v <= d => (v \in I <=> v \in J)
  BY DEF SameTo, Upto
<1>2. \A v \in Int : v <= t => v <= d
  BY <1>1
<1>3. \A u : After(I, u, t) = After(J, u, t)
  <2> TAKE u
  <2> SUFFICES \A v : v \in After(I, u, t) <=> v \in After(J, u, t)
    OBVIOUS
  <2> QED  BY <1>1, <1>2 DEF After
<1>4. \A u \in Int : u <= t => (u \in I <=> u \in J)
  BY <1>1, <1>2
<1>5. Back(I, t, k) = Back(J, t, k) /\ Window(I, t, k) = Window(J, t, k)
  <2>1. \A u : /\ u \in Back(I, t, k) <=> u \in Back(J, t, k)
               /\ u \in Window(I, t, k) <=> u \in Window(J, t, k)
    <3> TAKE u
    <3>1. u \in I /\ u <= t <=> u \in J /\ u <= t
      BY <1>1, <1>4
    <3>2. After(I, u, t) = After(J, u, t)
      BY <1>3
    <3> QED  BY <3>1, <3>2 DEF Back, Window
  <2> QED  BY <2>1
<1>6. Back(I, t, k) \subseteq Upto(I, d) /\ Window(I, t, k) \subseteq Upto(I, d)
  BY <1>1, <1>2 DEF Back, Window, Upto
<1> QED  BY <1>1, <1>5, <1>6 DEF SameTo

\* Indices that agree up to a time agree up to every earlier one.
LEMMA SameEarlier ==
    ASSUME NEW I, NEW J, NEW d, SameTo(I, J, d), NEW t \in Int, t <= d
    PROVE  SameTo(I, J, t)
<1>1. /\ I \in SUBSET Int /\ J \in SUBSET Int /\ d \in Int
      /\ \A v \in Int : v <= d => (v \in I <=> v \in J)
  BY DEF SameTo, Upto
<1>2. \A v \in Int : v <= t => v <= d
  BY <1>1
<1>3. \A v \in Int : v <= t => (v \in I <=> v \in J)
  BY <1>1, <1>2
<1>4. \A v : v \in Upto(I, t) <=> v \in Upto(J, t)
  BY <1>1, <1>3 DEF Upto
<1> QED  BY <1>1, <1>4 DEF SameTo

\* Alike series have the same cells over the same earlier times.
LEMMA CellsAlike ==
    ASSUME NEW I, NEW J, NEW d, NEW r, NEW s, Alike(r, s, I, J, d), NEW T \in SUBSET Upto(I, d)
    PROVE  Cells(r, T) = Cells(s, T)
BY DEF Alike, Cells

LEMMA BarsAlike ==
    ASSUME NEW I, NEW J, NEW d, SameTo(I, J, d), NEW sym
    PROVE  Alike(Bars(sym, I), Bars(sym, J), I, J, d)
BY DEF Alike, Bars, SameTo, Upto

LEMMA ShiftAlike ==
    ASSUME NEW I, NEW J, NEW d, SameTo(I, J, d), NEW r, NEW s, Alike(r, s, I, J, d), NEW k
    PROVE  Alike(Shift(r, k), Shift(s, k), I, J, d)
<1>1. ASSUME NEW t \in Upto(I, d)
      PROVE  Cells(r, Back(I, t, k)) = Cells(s, Back(J, t, k))
  BY RowsBack, CellsAlike
<1>2. DOMAIN r = I /\ DOMAIN s = J /\ \A t \in Upto(I, d) : t \in I /\ t \in J
  BY DEF Alike, SameTo, Upto
<1> QED  BY <1>1, <1>2 DEF Alike, Shift

LEMMA RollingAlike ==
    ASSUME NEW I, NEW J, NEW d, SameTo(I, J, d), NEW r, NEW s, Alike(r, s, I, J, d), NEW n, NEW m
    PROVE  Alike(Rolling(r, n, m), Rolling(s, n, m), I, J, d)
<1>1. ASSUME NEW t \in Upto(I, d)
      PROVE  /\ Window(I, t, n) = Window(J, t, n)
             /\ Cells(r, Window(I, t, n)) = Cells(s, Window(J, t, n))
  BY RowsBack, CellsAlike
<1>2. DOMAIN r = I /\ DOMAIN s = J /\ \A t \in Upto(I, d) : t \in I /\ t \in J
  BY DEF Alike, SameTo, Upto
<1> QED  BY <1>1, <1>2 DEF Alike, Rolling

LEMMA WithAlike ==
    ASSUME NEW I, NEW J, NEW d, SameTo(I, J, d), NEW r, NEW s, NEW q, NEW p,
           Alike(r, s, I, J, d), Alike(q, p, I, J, d)
    PROVE  Alike(With(r, q), With(s, p), I, J, d)
BY DEF Alike, With, SameTo, Upto

LEMMA DiffAlike ==
    ASSUME NEW I, NEW J, NEW d, SameTo(I, J, d), NEW r, NEW s, Alike(r, s, I, J, d), NEW k
    PROVE  Alike(Diff(r, k), Diff(s, k), I, J, d)
<1>1. ASSUME NEW t \in Upto(I, d)
      PROVE  /\ Back(I, t, k) = Back(J, t, k)
             /\ Cells(r, Back(I, t, k)) = Cells(s, Back(J, t, k))
             /\ r[t] = s[t]
  BY RowsBack, CellsAlike DEF Alike
<1>2. DOMAIN r = I /\ DOMAIN s = J /\ \A t \in Upto(I, d) : t \in I /\ t \in J
  BY DEF Alike, SameTo, Upto
<1> QED  BY <1>1, <1>2 DEF Alike, Diff

LEMMA InnerJoinAlike ==
    ASSUME NEW I, NEW J, NEW K, NEW L, NEW d, SameTo(I, J, d), SameTo(K, L, d),
           NEW r, NEW s, NEW q, NEW p, Alike(r, s, I, J, d), Alike(q, p, K, L, d)
    PROVE  /\ SameTo(I \cap K, J \cap L, d)
           /\ Alike(InnerJoin(r, q), InnerJoin(s, p), I \cap K, J \cap L, d)
<1>1. SameTo(I \cap K, J \cap L, d)
  BY DEF SameTo, Upto
<1>2. \A t \in Upto(I \cap K, d) : /\ t \in Upto(I, d) /\ t \in Upto(K, d)
                                   /\ t \in I \cap K /\ t \in J \cap L
  BY DEF SameTo, Upto
<1>3. DOMAIN r = I /\ DOMAIN s = J /\ DOMAIN q = K /\ DOMAIN p = L
  BY DEF Alike
<1>4. \A t \in Upto(I \cap K, d) : r[t] = s[t] /\ q[t] = p[t]
  BY <1>2 DEF Alike
<1>5. /\ DOMAIN InnerJoin(r, q) = I \cap K /\ DOMAIN InnerJoin(s, p) = J \cap L
      /\ \A t \in Upto(I \cap K, d) :
             InnerJoin(r, q)[t] = r[t] \cup q[t] /\ InnerJoin(s, p)[t] = s[t] \cup p[t]
  BY <1>2, <1>3 DEF InnerJoin
<1> QED  BY <1>1, <1>4, <1>5, ZenonT(30) DEF Alike

LEMMA ReindexAlike ==
    ASSUME NEW I, NEW J, NEW K, NEW L, NEW d, SameTo(I, J, d), SameTo(K, L, d),
           NEW r, NEW s, Alike(r, s, I, J, d)
    PROVE  Alike(Reindex(r, K), Reindex(s, L), K, L, d)
<1>1. \A t \in Upto(K, d) : t \in K /\ t \in L /\ (t \in I <=> t \in J) /\ (t \in I => t \in Upto(I, d))
  BY DEF SameTo, Upto
<1> QED  BY <1>1 DEF Alike, Reindex

\* A fill of at most n rows, and one without limit.
LEMMA FilledAlike ==
    ASSUME NEW I, NEW J, NEW K, NEW L, NEW d, SameTo(I, J, d), SameTo(K, L, d),
           NEW r, NEW s, Alike(r, s, I, J, d), NEW n, NEW m,
           \A t \in Upto(K, d) : Window(K, t, n + 1) = Window(L, t, m + 1)
    PROVE  Alike(ReindexFfill(r, K, n), ReindexFfill(s, L, m), K, L, d)
<1>1. ASSUME NEW t \in Upto(K, d)
      PROVE  Cells(r, Latest(Window(K, t, n + 1) \cap I)) = Cells(s, Latest(Window(L, t, m + 1) \cap J))
  <2>1. Window(K, t, n + 1) \subseteq Upto(K, d)
    BY RowsBack
  <2>2. Window(K, t, n + 1) \cap I = Window(L, t, m + 1) \cap J
    BY <2>1 DEF SameTo, Upto
  <2> DEFINE T == Latest(Window(K, t, n + 1) \cap I)
  <2>3. T \in SUBSET Upto(I, d)
    BY <2>1 DEF Latest, Upto
  <2> HIDE DEF T
  <2>4. Cells(r, T) = Cells(s, T)
    BY <2>3, CellsAlike
  <2> QED  BY <2>2, <2>4 DEF T
<1>2. DOMAIN r = I /\ DOMAIN s = J /\ \A t \in Upto(K, d) : t \in K /\ t \in L
  BY DEF Alike, SameTo, Upto
<1> QED  BY <1>1, <1>2 DEF Alike, ReindexFfill

LEMMA ReindexFfillAlike ==
    ASSUME NEW I, NEW J, NEW K, NEW L, NEW d, SameTo(I, J, d), SameTo(K, L, d),
           NEW r, NEW s, Alike(r, s, I, J, d), NEW n
    PROVE  Alike(ReindexFfill(r, K, n), ReindexFfill(s, L, n), K, L, d)
BY RowsBack, FilledAlike

\* A window longer than the index is everything up to its time.
LEMMA WholeWindow ==
    ASSUME NEW K \in SUBSET Int, IsFiniteSet(K), NEW t \in K
    PROVE  Window(K, t, Cardinality(K) + 1) = Upto(K, t)
<1>1. \A u : Cardinality(After(K, u, t)) \in Nat /\ Cardinality(After(K, u, t)) <= Cardinality(K)
  BY FS_Subset, FS_CardinalityType DEF After
<1>2. Cardinality(K) \in Nat
  BY FS_CardinalityType
<1> QED  BY <1>1, <1>2 DEF Window, Upto

LEMMA ReindexFilledAlike ==
    ASSUME NEW I, NEW J, NEW K, NEW L, NEW d, SameTo(I, J, d), SameTo(K, L, d),
           IsFiniteSet(K), IsFiniteSet(L), NEW r, NEW s, Alike(r, s, I, J, d)
    PROVE  Alike(ReindexFfill(r, K, Cardinality(K)), ReindexFfill(s, L, Cardinality(L)), K, L, d)
<1>1. ASSUME NEW t \in Upto(K, d)
      PROVE  Window(K, t, Cardinality(K) + 1) = Window(L, t, Cardinality(L) + 1)
  <2>1. t \in K /\ t \in L /\ K \in SUBSET Int /\ L \in SUBSET Int /\ t <= d /\ d \in Int
    BY DEF SameTo, Upto
  <2>2. Upto(K, t) = Upto(L, t)
    BY <2>1, SameEarlier DEF SameTo
  <2> QED  BY <2>1, <2>2, WholeWindow
<1> QED  BY <1>1, FilledAlike

\* The same leg up to d, and one that may be inert in one of two banks.
LegSame(r, s, I, J, d) ==
    /\ DOMAIN r = I /\ DOMAIN s = J
    /\ \A t \in Upto(I, d) : r[t].signal = s[t].signal /\ r[t].move = s[t].move

SameRow(x, y) == {} \in {x.signal, y.signal} \/ (x.signal = y.signal /\ x.move = y.move)

LegAlike(r, s, I, J, d) ==
    DOMAIN r = I /\ DOMAIN s = J /\ \A t \in Upto(I, d) : SameRow(r[t], s[t])

\* A leg that is the same row by row is alike.
LEMMA SameIsAlike ==
    ASSUME NEW I, NEW J, NEW d, NEW r, NEW s, LegSame(r, s, I, J, d)
    PROVE  LegAlike(r, s, I, J, d)
BY DEF LegSame, LegAlike, SameRow

\* Whether a leg has bars enough, and is not inert, may differ.
LEMMA InertAlike ==
    ASSUME NEW I, NEW J, NEW d, SameTo(I, J, d), NEW r, NEW s, LegAlike(r, s, I, J, d), NEW x, NEW y,
           x = r \/ x = Zeros(I), y = s \/ y = Zeros(J)
    PROVE  LegAlike(x, y, I, J, d)
<1>1. \A t \in Upto(I, d) : t \in I /\ t \in J /\ SameRow(r[t], s[t])
  BY DEF SameTo, Upto, LegAlike
<1>2. /\ DOMAIN Zeros(I) = I /\ \A t \in I : Zeros(I)[t].signal = {}
      /\ DOMAIN Zeros(J) = J /\ \A t \in J : Zeros(J)[t].signal = {}
  BY DEF Zeros
<1>3. DOMAIN x = I /\ DOMAIN y = J
  BY <1>2 DEF LegAlike
<1>4. ASSUME NEW t \in Upto(I, d)  PROVE SameRow(x[t], y[t])
  BY <1>1, <1>2 DEF SameRow
<1> QED  BY <1>3, <1>4 DEF LegAlike

\* Returns of alike positions over alike moves are the same.
LEMMA PositionReturnsSame ==
    ASSUME NEW I, NEW J, NEW d, SameTo(I, J, d), NEW r, NEW s, NEW q, NEW p, NEW f, NEW g,
           Alike(r, s, I, J, d), Alike(q, p, I, J, d)
    PROVE  LegSame(PositionReturns(r, q, f), PositionReturns(s, p, g), I, J, d)
<1>1. Alike(Shift(r, 1), Shift(s, 1), I, J, d)
  BY ShiftAlike
<1>2. \A t \in Upto(I, d) : t \in I /\ t \in J
  BY DEF SameTo, Upto
<1> QED  BY <1>1, <1>2 DEF PositionReturns, Alike, LegSame

\* A pair's leg is alike where both of its bars' histories are.
LEMMA StatArbAlike ==
    ASSUME NEW I, NEW J, NEW K, NEW L, NEW d, SameTo(I, J, d), SameTo(K, L, d),
           NEW a, NEW b, NEW aa, NEW bb, NEW f, NEW g, NEW pit,
           Alike(a, aa, I, J, d), Alike(b, bb, K, L, d)
    PROVE  LegAlike(StatArbReturns(a, b, f, pit), StatArbReturns(aa, bb, g, pit),
                    I \cap K, J \cap L, d)
<1> DEFINE M == I \cap K
           N == J \cap L
           spread(r, s) == InnerJoin(r, s)
           z(u) == With(u, Rolling(u, W["z"], W["z"]))
           position(u) == Shift(z(u), pit)
           moves(u) == With(Diff(u, 1), Diff(position(u), 1))
           leg(u, beta) == PositionReturns(position(u), moves(u), beta)
<1>1. PICK u : u = InnerJoin(a, b)
  OBVIOUS
<1>2. PICK v : v = InnerJoin(aa, bb)
  OBVIOUS
<1>3. SameTo(M, N, d) /\ Alike(u, v, M, N, d)
  BY <1>1, <1>2, InnerJoinAlike
<1> HIDE DEF M, N
<1>4. Alike(z(u), z(v), M, N, d)
  BY <1>3, RollingAlike, WithAlike
<1> HIDE DEF z
<1>5. Alike(position(u), position(v), M, N, d)
  BY <1>3, <1>4, ShiftAlike
<1> HIDE DEF position
<1>6. Alike(Diff(u, 1), Diff(v, 1), M, N, d)
  BY <1>3, DiffAlike
<1>7. Alike(Diff(position(u), 1), Diff(position(v), 1), M, N, d)
  BY <1>3, <1>5, DiffAlike
<1>8. Alike(moves(u), moves(v), M, N, d)
  BY <1>3, <1>6, <1>7, WithAlike
<1> HIDE DEF moves
<1>9. LegAlike(leg(u, f), leg(v, g), M, N, d)
  BY <1>3, <1>5, <1>8, PositionReturnsSame, SameIsAlike
<1>10. DOMAIN u = M /\ DOMAIN v = N
  BY <1>3 DEF Alike
<1> HIDE DEF leg
<1>11. /\ \/ StatArbReturns(a, b, f, pit) = leg(u, f)
          \/ StatArbReturns(a, b, f, pit) = Zeros(M)
       /\ \/ StatArbReturns(aa, bb, g, pit) = leg(v, g)
          \/ StatArbReturns(aa, bb, g, pit) = Zeros(N)
  BY <1>1, <1>2, <1>10 DEF StatArbReturns, leg, moves, position, z
<1>12. LegAlike(StatArbReturns(a, b, f, pit), StatArbReturns(aa, bb, g, pit), M, N, d)
  BY <1>3, <1>9, <1>11, InertAlike
<1> QED  BY <1>12 DEF M, N

LEMMA FractionalStatArbAlike ==
    ASSUME NEW I, NEW J, NEW K, NEW L, NEW d, SameTo(I, J, d), SameTo(K, L, d),
           NEW a, NEW b, NEW aa, NEW bb, NEW f, NEW g, NEW pit,
           Alike(a, aa, I, J, d), Alike(b, bb, K, L, d)
    PROVE  LegAlike(FractionalStatArbReturns(a, b, f, pit), FractionalStatArbReturns(aa, bb, g, pit),
                    I \cap K, J \cap L, d)
<1> DEFINE M == I \cap K
           N == J \cap L
           z(u) == With(u, Rolling(u, W["frac"], W["frac_min"]))
           order(u) == Rolling(u, W["frac"], W["gph_min"])
           position(u) == With(Shift(z(u), pit), Shift(order(u), pit))
<1>1. PICK u : u = InnerJoin(a, b)
  OBVIOUS
<1>2. PICK v : v = InnerJoin(aa, bb)
  OBVIOUS
<1>3. SameTo(M, N, d) /\ Alike(u, v, M, N, d)
  BY <1>1, <1>2, InnerJoinAlike
<1> HIDE DEF M, N
<1>4. Alike(z(u), z(v), M, N, d) /\ Alike(order(u), order(v), M, N, d)
  BY <1>3, RollingAlike, WithAlike
<1> HIDE DEF z, order
<1>5. Alike(position(u), position(v), M, N, d)
  BY <1>3, <1>4, ShiftAlike, WithAlike
<1> HIDE DEF position
<1>6. Alike(Diff(u, 1), Diff(v, 1), M, N, d)
  BY <1>3, DiffAlike
<1>7. LegAlike(PositionReturns(position(u), Diff(u, 1), f), PositionReturns(position(v), Diff(v, 1), g),
               M, N, d)
  BY <1>3, <1>5, <1>6, PositionReturnsSame, SameIsAlike
<1> QED  BY <1>1, <1>2, <1>7 DEF FractionalStatArbReturns, position, z, order, M, N

LEMMA VolBreakoutSame ==
    ASSUME NEW I, NEW J, NEW d, SameTo(I, J, d), NEW a, NEW b, NEW pit, Alike(a, b, I, J, d)
    PROVE  LegSame(VolBreakoutReturns(a, pit), VolBreakoutReturns(b, pit), I, J, d)
<1> DEFINE atr(u) == Rolling(TrueRange(u), W["atr"], W["atr"])
           extremes(u) == Rolling(u, W["lookback"], W["lookback"])
           levels(u) == With(Shift(extremes(u), pit), Shift(atr(u), pit))
           position(u) == With(Shift(u, pit), levels(u))
<1>1. Alike(TrueRange(a), TrueRange(b), I, J, d)
  BY ShiftAlike, WithAlike DEF TrueRange
<1>2. Alike(atr(a), atr(b), I, J, d) /\ Alike(extremes(a), extremes(b), I, J, d)
  BY <1>1, RollingAlike
<1> HIDE DEF atr, extremes
<1>3. Alike(levels(a), levels(b), I, J, d)
  BY <1>2, ShiftAlike, WithAlike
<1> HIDE DEF levels
<1>4. Alike(position(a), position(b), I, J, d)
  BY <1>3, ShiftAlike, WithAlike
<1> HIDE DEF position
<1>5. Alike(Diff(a, 1), Diff(b, 1), I, J, d)
  BY DiffAlike
<1>6. LegSame(PositionReturns(position(a), Diff(a, 1), {}), PositionReturns(position(b), Diff(b, 1), {}),
              I, J, d)
  BY <1>4, <1>5, PositionReturnsSame
<1> QED  BY <1>6 DEF VolBreakoutReturns, position, levels, atr, extremes

LEMMA MeanReversionSame ==
    ASSUME NEW I, NEW J, NEW d, SameTo(I, J, d), NEW a, NEW b, NEW pit, Alike(a, b, I, J, d)
    PROVE  LegSame(MeanReversionReturns(a, pit), MeanReversionReturns(b, pit), I, J, d)
<1> DEFINE rsi(u) == Rolling(Diff(u, 1), W["rsi"], W["rsi"])
           bands(u) == Rolling(u, W["bb"], W["bb"])
           position(u) == With(Shift(rsi(u), pit), With(Shift(u, pit), Shift(bands(u), pit)))
<1>1. Alike(Diff(a, 1), Diff(b, 1), I, J, d)
  BY DiffAlike
<1>2. Alike(rsi(a), rsi(b), I, J, d) /\ Alike(bands(a), bands(b), I, J, d)
  BY <1>1, RollingAlike
<1> HIDE DEF rsi, bands
<1>3. /\ Alike(Shift(rsi(a), pit), Shift(rsi(b), pit), I, J, d)
      /\ Alike(Shift(a, pit), Shift(b, pit), I, J, d)
      /\ Alike(Shift(bands(a), pit), Shift(bands(b), pit), I, J, d)
  BY <1>2, ShiftAlike
<1>4. Alike(position(a), position(b), I, J, d)
  BY <1>3, WithAlike
<1> HIDE DEF position
<1>5. LegSame(PositionReturns(position(a), Diff(a, 1), {}), PositionReturns(position(b), Diff(b, 1), {}),
              I, J, d)
  BY <1>1, <1>4, PositionReturnsSame
<1> QED  BY <1>5 DEF MeanReversionReturns, position, rsi, bands

LEMMA CrossoverSame ==
    ASSUME NEW I, NEW J, NEW d, SameTo(I, J, d), NEW a, NEW b, NEW pit, Alike(a, b, I, J, d)
    PROVE  /\ LegSame(DailyMomentumReturns(a, pit), DailyMomentumReturns(b, pit), I, J, d)
           /\ LegSame(DailyTrendReturns(a, pit), DailyTrendReturns(b, pit), I, J, d)
<1> DEFINE fast(u) == Rolling(u, W["fast"], W["fast"])
           slow(u) == Rolling(u, W["slow"], W["slow"])
           position(u) == With(Shift(fast(u), pit), Shift(slow(u), pit))
<1>1. Alike(fast(a), fast(b), I, J, d) /\ Alike(slow(a), slow(b), I, J, d)
  BY RollingAlike
<1> HIDE DEF fast, slow
<1>2. Alike(position(a), position(b), I, J, d)
  BY <1>1, ShiftAlike, WithAlike
<1> HIDE DEF position
<1>3. LegSame(PositionReturns(position(a), Diff(a, 1), {}), PositionReturns(position(b), Diff(b, 1), {}),
              I, J, d)
  BY <1>2, DiffAlike, PositionReturnsSame
<1> QED  BY <1>3 DEF DailyMomentumReturns, DailyTrendReturns, position, fast, slow

\* I and J: days of the index; K and L: days FRED has, or another symbol.
LEMMA VixFadeSame ==
    ASSUME NEW I, NEW J, NEW K, NEW L, NEW d, SameTo(I, J, d), SameTo(K, L, d), NEW pit,
           NEW vix, NEW xiv, Alike(vix, xiv, K, L, d), NEW a, NEW b, Alike(a, b, I, J, d)
    PROVE  LegSame(VixFadeReturns(vix, a, pit, I), VixFadeReturns(xiv, b, pit, J), I, J, d)
<1> DEFINE level(v, m) == VixLevel(v, m)
           position(v, m) == With(Shift(level(v, m), pit), Shift(Diff(level(v, m), W["roc"]), pit))
<1>1. Alike(level(vix, I), level(xiv, J), I, J, d)
  BY ReindexFfillAlike DEF VixLevel
<1> HIDE DEF level
<1>2. Alike(Diff(level(vix, I), W["roc"]), Diff(level(xiv, J), W["roc"]), I, J, d)
  BY <1>1, DiffAlike
<1>3. Alike(position(vix, I), position(xiv, J), I, J, d)
  BY <1>1, <1>2, ShiftAlike, WithAlike
<1> HIDE DEF position
<1>4. Alike(Reindex(Diff(a, 1), I), Reindex(Diff(b, 1), J), I, J, d)
  BY DiffAlike, ReindexAlike
<1>5. LegSame(PositionReturns(position(vix, I), Reindex(Diff(a, 1), I), {}),
              PositionReturns(position(xiv, J), Reindex(Diff(b, 1), J), {}), I, J, d)
  BY <1>3, <1>4, PositionReturnsSame
<1> QED  BY <1>5 DEF VixFadeReturns, position, level

LEMMA CrossSectionalMomentumSame ==
    ASSUME NEW I, NEW J, NEW K, NEW L, NEW d, SameTo(I, J, d), SameTo(K, L, d), NEW pit,
           IsFiniteSet(I), IsFiniteSet(J),
           NEW a, NEW b, Alike(a, b, I, J, d), NEW spy, NEW yps, Alike(spy, yps, K, L, d)
    PROVE  LegSame(CrossSectionalMomentumReturns(a, spy, pit, I),
                   CrossSectionalMomentumReturns(b, yps, pit, J), I, J, d)
<1> DEFINE filled(s, m) == ReindexFfill(s, m, Cardinality(m))
           roc(s, m) == Diff(filled(s, m), W["xs_lookback"])
           position(s, q, m) == With(Shift(roc(s, m), pit), Shift(roc(q, m), pit))
<1>1. Alike(filled(a, I), filled(b, J), I, J, d) /\ Alike(filled(spy, I), filled(yps, J), I, J, d)
  BY ReindexFilledAlike
<1> HIDE DEF filled
<1>2. Alike(roc(a, I), roc(b, J), I, J, d) /\ Alike(roc(spy, I), roc(yps, J), I, J, d)
  BY <1>1, DiffAlike
<1> HIDE DEF roc
<1>3. Alike(position(a, spy, I), position(b, yps, J), I, J, d)
  BY <1>2, ShiftAlike, WithAlike
<1> HIDE DEF position
<1>4. Alike(Diff(filled(a, I), 1), Diff(filled(b, J), 1), I, J, d)
  BY <1>1, DiffAlike
<1>5. LegSame(PositionReturns(position(a, spy, I), Diff(filled(a, I), 1), {}),
              PositionReturns(position(b, yps, J), Diff(filled(b, J), 1), {}), I, J, d)
  BY <1>3, <1>4, PositionReturnsSame
<1> QED  BY <1>5 DEF CrossSectionalMomentumReturns, position, roc, filled

LEMMA VrpHarvestingAlike ==
    ASSUME NEW I, NEW J, NEW K, NEW L, NEW d, SameTo(I, J, d), SameTo(K, L, d), NEW pit,
           NEW vix, NEW xiv, Alike(vix, xiv, K, L, d), NEW a, NEW b, Alike(a, b, I, J, d)
    PROVE  LegAlike(VrpHarvestingReturns(a, vix, pit, I), VrpHarvestingReturns(b, xiv, pit, J), I, J, d)
<1> DEFINE rv(s) == Rolling(s, W["rv"], W["rv"])
           vrp(v, s, m) == With(VixLevel(v, m), rv(s))
           z(v, s, m) == With(vrp(v, s, m), Rolling(vrp(v, s, m), W["vrp_z"], W["vrp_min"]))
           leg(v, s, m) == PositionReturns(Shift(z(v, s, m), pit), s, {})
<1>1. Alike(VixLevel(vix, I), VixLevel(xiv, J), I, J, d)
  BY ReindexFfillAlike DEF VixLevel
<1>2. Alike(rv(a), rv(b), I, J, d)
  BY RollingAlike
<1>3. Alike(vrp(vix, a, I), vrp(xiv, b, J), I, J, d)
  BY <1>1, <1>2, WithAlike
<1> HIDE DEF vrp
<1>4. Alike(z(vix, a, I), z(xiv, b, J), I, J, d)
  BY <1>3, RollingAlike, WithAlike
<1> HIDE DEF z
<1>5. LegAlike(leg(vix, a, I), leg(xiv, b, J), I, J, d)
  BY <1>4, ShiftAlike, PositionReturnsSame, SameIsAlike
<1> HIDE DEF leg
<1>6. /\ \/ VrpHarvestingReturns(a, vix, pit, I) = leg(vix, a, I)
         \/ VrpHarvestingReturns(a, vix, pit, I) = Zeros(I)
      /\ \/ VrpHarvestingReturns(b, xiv, pit, J) = leg(xiv, b, J)
         \/ VrpHarvestingReturns(b, xiv, pit, J) = Zeros(J)
  BY DEF VrpHarvestingReturns, leg, z, vrp
<1> QED  BY <1>5, <1>6, InertAlike

-----------------------------------------------------------------------------
(* The bank, built twice *)

\* Stores with the same bars up to d.
StoresAlike(G, H, d) == \A s \in Symbols : Upto(G[s], d) = Upto(H[s], d)

\* The intraday bars of the same days are the same.
LEMMA IntradaySame ==
    ASSUME NEW D \in SUBSET Nat, NEW E \in SUBSET Nat, NEW d \in Nat, Upto(D, d) = Upto(E, d)
    PROVE  SameTo(IntradayTimes(D), IntradayTimes(E), d * Slots)
<1>1. Slots \in Nat \ {0} /\ d * Slots \in Int
  BY BankAssumption
<1>2. \A e \in Nat : (e - 1) * Slots + 1 .. e * Slots \subseteq Int
  BY <1>1
<1>3. ASSUME NEW X \in SUBSET Nat, NEW Y \in SUBSET Nat, Upto(X, d) = Upto(Y, d),
             NEW t \in IntradayTimes(X), t <= d * Slots
      PROVE  t \in IntradayTimes(Y)
  <2>1. PICK e \in X : t \in (e - 1) * Slots + 1 .. e * Slots
    BY DEF IntradayTimes
  <2>2. e <= d
    <3>1. SUFFICES ASSUME d <= e - 1  PROVE FALSE
      OBVIOUS
    <3>2. (e - 1 - d) * Slots >= 0
      BY <1>1, <3>1
    <3>3. (e - 1 - d) * Slots = (e - 1) * Slots - d * Slots /\ (e - 1) * Slots \in Int
      BY <1>1
    <3>4. t \in Int /\ (e - 1) * Slots + 1 <= t
      BY <1>1, <2>1
    <3> QED  BY <1>1, <1>3, <3>2, <3>3, <3>4
  <2>3. e \in Y
    BY <1>3, <2>2 DEF Upto
  <2> QED  BY <2>1, <2>3 DEF IntradayTimes
<1>4. IntradayTimes(D) \in SUBSET Int /\ IntradayTimes(E) \in SUBSET Int
  BY <1>2 DEF IntradayTimes
<1>5. \A t : t \in Upto(IntradayTimes(D), d * Slots) <=> t \in Upto(IntradayTimes(E), d * Slots)
  BY <1>3 DEF Upto
<1> QED  BY <1>1, <1>4, <1>5 DEF SameTo

\* The benchmarked legs are there only with bars of SPY.
LEMMA SpyReturnsAlike ==
    ASSUME NEW G \in Store, NEW H \in Store, NEW d \in Nat, StoresAlike(G, H, d),
           G["spy"] # {}, H["spy"] # {}, NEW I, NEW J, SameTo(I, J, d)
    PROVE  Alike(SpyReturns(G, I), SpyReturns(H, J), I, J, d)
<1>1. SameTo(G["spy"], H["spy"], d)
  BY DEF StoresAlike, SameTo, Store, Symbols
<1>2. Alike(Diff(Bars("spy", G["spy"]), 1), Diff(Bars("spy", H["spy"]), 1), G["spy"], H["spy"], d)
  BY <1>1, BarsAlike, DiffAlike
<1> QED  BY <1>1, <1>2, ReindexAlike DEF SpyReturns

(***************************************************************************)
(* Two banks of alike stores have the same legs, or one of them is inert.  *)
(***************************************************************************)
LEMMA LegsAlike ==
    ASSUME NEW G \in FiniteStore, NEW H \in FiniteStore, NEW d \in Nat, StoresAlike(G, H, d),
           NEW pit \in Nat, NEW l \in Present(G) \cap Present(H)
    PROVE  IF l \in Intraday
           THEN LegSame(Legs(G, pit)[l], Legs(H, pit)[l], IntradayTimes(G["intraday"]),
                        IntradayTimes(H["intraday"]), d * Slots)
           ELSE \E I, J : /\ SameTo(I, J, d)
                          /\ LegAlike(Legs(G, pit)[l], Legs(H, pit)[l], I, J, d)
<1> DEFINE primary(S) == Bars("primary", S["primary"])
           partner(S) == Bars("partner", S["partner"])
           spy(S) == Bars("spy", S["spy"])
           vix(S) == Bars("vix", S["vix"])
           intraday(S) == Bars("intraday", IntradayTimes(S["intraday"]))
           beta(S) == HedgeRatio(primary(S), partner(S))
           spy_r(S) == SpyReturns(S, S["primary"])
           all(S) ==
             [stat_arb |-> StatArbReturns(primary(S), partner(S), beta(S), pit),
              vol_breakout |-> VolBreakoutReturns(intraday(S), pit),
              mean_reversion |-> MeanReversionReturns(intraday(S), pit),
              daily_momentum |->
                 OrZeros(DailyMomentumReturns(primary(S), pit), S["primary"], W["slow"]),
              daily_trend |-> OrZeros(DailyTrendReturns(primary(S), pit), S["primary"], W["slow"]),
              vix_fade |-> VixFadeReturns(vix(S), primary(S), pit, S["primary"]),
              cross_sectional_mom |->
                 OrZeros(CrossSectionalMomentumReturns(primary(S), spy(S), pit, S["primary"]),
                         S["primary"], W["xs_lookback"]),
              fractional_stat_arb |-> FractionalStatArbReturns(primary(S), partner(S), beta(S), pit),
              vrp_harvesting |-> VrpHarvestingReturns(spy_r(S), vix(S), pit, S["primary"])]
           I == G["primary"]
           J == H["primary"]
           K == I \cap G["partner"]
           L == J \cap H["partner"]
           T == IntradayTimes(G["intraday"])
           U == IntradayTimes(H["intraday"])
<1>1. G \in Store /\ H \in Store /\ IsFiniteSet(I) /\ IsFiniteSet(J)
  BY DEF FiniteStore, Finite, Symbols
<1>2. \A s \in Symbols : SameTo(G[s], H[s], d)
  BY <1>1 DEF StoresAlike, SameTo, Store
<1>3. /\ SameTo(I, J, d) /\ SameTo(G["partner"], H["partner"], d) /\ SameTo(G["spy"], H["spy"], d)
      /\ SameTo(G["vix"], H["vix"], d)
  BY <1>2 DEF Symbols
<1>4. SameTo(T, U, d * Slots)
  <2>1. /\ G["intraday"] \in SUBSET Nat /\ H["intraday"] \in SUBSET Nat
        /\ Upto(G["intraday"], d) = Upto(H["intraday"], d)
    BY <1>1 DEF Store, Symbols, StoresAlike
  <2> QED  BY <2>1, IntradaySame
<1>5. Legs(G, pit)[l] = all(G)[l] /\ Legs(H, pit)[l] = all(H)[l]
  BY DEF Legs
<1>6. /\ Alike(primary(G), primary(H), I, J, d)
      /\ Alike(partner(G), partner(H), G["partner"], H["partner"], d)
      /\ Alike(spy(G), spy(H), G["spy"], H["spy"], d)
      /\ Alike(vix(G), vix(H), G["vix"], H["vix"], d)
      /\ Alike(intraday(G), intraday(H), T, U, d * Slots)
  BY <1>3, <1>4, BarsAlike
<1>7. l \in Benchmarked => Alike(spy_r(G), spy_r(H), I, J, d)
  <2>1. l \in Benchmarked => G["spy"] # {} /\ H["spy"] # {}
    BY DEF Present
  <2> QED  BY <1>1, <1>3, <2>1, SpyReturnsAlike
<1> HIDE DEF primary, partner, spy, vix, intraday, beta, spy_r, T, U
<1>8. SameTo(K, L, d) /\ LegAlike(all(G).stat_arb, all(H).stat_arb, K, L, d)
  BY <1>3, <1>6, StatArbAlike, InnerJoinAlike
<1>9. LegAlike(all(G).fractional_stat_arb, all(H).fractional_stat_arb, K, L, d)
  BY <1>3, <1>6, FractionalStatArbAlike
<1>10. /\ LegSame(all(G).vol_breakout, all(H).vol_breakout, T, U, d * Slots)
       /\ LegSame(all(G).mean_reversion, all(H).mean_reversion, T, U, d * Slots)
  BY <1>4, <1>6, VolBreakoutSame, MeanReversionSame
<1>11. ASSUME NEW r, NEW s, LegSame(r, s, I, J, d), NEW n
       PROVE  LegAlike(OrZeros(r, I, n), OrZeros(s, J, n), I, J, d)
  <2>1. LegAlike(r, s, I, J, d)
    BY <1>11, SameIsAlike
  <2>2. /\ OrZeros(r, I, n) = r \/ OrZeros(r, I, n) = Zeros(I)
        /\ OrZeros(s, J, n) = s \/ OrZeros(s, J, n) = Zeros(J)
    BY DEF OrZeros
  <2> QED  BY <1>3, <2>1, <2>2, InertAlike
<1>12. /\ LegAlike(all(G).daily_momentum, all(H).daily_momentum, I, J, d)
       /\ LegAlike(all(G).daily_trend, all(H).daily_trend, I, J, d)
  BY <1>3, <1>6, <1>11, CrossoverSame
<1>13. LegAlike(all(G).vix_fade, all(H).vix_fade, I, J, d)
  BY <1>3, <1>6, VixFadeSame, SameIsAlike
<1>14. LegAlike(all(G).cross_sectional_mom, all(H).cross_sectional_mom, I, J, d)
  BY <1>1, <1>3, <1>6, <1>11, CrossSectionalMomentumSame
<1>15. l \in Benchmarked => LegAlike(all(G).vrp_harvesting, all(H).vrp_harvesting, I, J, d)
  BY <1>3, <1>6, <1>7, VrpHarvestingAlike
<1>16. l \in LegNames
  BY DEF Present, Benchmarked
<1> HIDE DEF all, I, J, K, L
<1>17. CASE l \in Intraday
  BY <1>5, <1>10, <1>17 DEF Intraday, T, U
<1>18. CASE l \in {"stat_arb", "fractional_stat_arb"}
  BY <1>5, <1>8, <1>9, <1>18 DEF Intraday
<1>19. CASE l \in {"daily_momentum", "daily_trend", "vix_fade", "cross_sectional_mom"}
  BY <1>3, <1>5, <1>12, <1>13, <1>14, <1>19 DEF Intraday
<1>20. CASE l = "vrp_harvesting"
  BY <1>3, <1>5, <1>15, <1>20 DEF Intraday, Benchmarked
<1> QED  BY <1>16, <1>17, <1>18, <1>19, <1>20 DEF LegNames, Intraday

\* On the master timeline.
LEMMA ReturnsAlike ==
    ASSUME NEW G \in FiniteStore, NEW H \in FiniteStore, NEW d \in Nat, StoresAlike(G, H, d),
           NEW pit \in Nat, NEW l \in Present(G) \cap Present(H), NEW I, NEW J, d \in I, d \in J
    PROVE  SameRow(StrategyReturns(Legs(G, pit), I)[l][d], StrategyReturns(Legs(H, pit), J)[l][d])
<1> DEFINE r == Legs(G, pit)[l]
           s == Legs(H, pit)[l]
           x == StrategyReturns(Legs(G, pit), I)[l][d]
           y == StrategyReturns(Legs(H, pit), J)[l][d]
<1>1. DOMAIN Legs(G, pit) = Present(G) /\ DOMAIN Legs(H, pit) = Present(H)
  BY DEF Legs
<1>2. CASE l \in Intraday
  <2> DEFINE T == IntradayTimes(G["intraday"])
             U == IntradayTimes(H["intraday"])
  <2>1. LegSame(r, s, T, U, d * Slots)
    BY <1>2, LegsAlike
  <2>2. SameTo(T, U, d * Slots)
    <3>1. /\ G["intraday"] \in SUBSET Nat /\ H["intraday"] \in SUBSET Nat
          /\ Upto(G["intraday"], d) = Upto(H["intraday"], d)
      BY DEF FiniteStore, Store, Symbols, StoresAlike
    <3> QED  BY <3>1, IntradaySame
  <2>3. ASSUME NEW t \in Int, DayOf(t) = d  PROVE t <= d * Slots
    <3>1. Slots \in Nat \ {0}
      BY BankAssumption
    <3>2. (t - 1) \div Slots = d - 1
      <4>1. \A a \in Int, n \in Nat \ {0} : a \div n \in Int
        OBVIOUS
      <4> QED  BY <2>3, <3>1, <4>1 DEF DayOf
    <3>3. \A a \in Int, n \in Nat \ {0} : a < ((a \div n) + 1) * n
      OBVIOUS
    <3>4. t - 1 < ((d - 1) + 1) * Slots
      BY <3>1, <3>2, <3>3
    <3>5. ((d - 1) + 1) * Slots = d * Slots /\ d * Slots \in Int
      BY <3>1
    <3> QED  BY <3>4, <3>5
  <2> DEFINE of(leg) == {leg[t] : t \in {t \in DOMAIN leg : DayOf(t) = d}}
  <2>4. /\ x.signal = UNION {row.signal : row \in of(r)} /\ x.move = UNION {row.move : row \in of(r)}
        /\ y.signal = UNION {row.signal : row \in of(s)} /\ y.move = UNION {row.move : row \in of(s)}
    BY <1>1, <1>2 DEF StrategyReturns, CompoundToDaily
  <2> HIDE DEF x, y, r, s, T, U
  <2>5. DOMAIN r = T /\ DOMAIN s = U
    BY <2>1 DEF LegSame
  <2>6. ASSUME NEW t, DayOf(t) = d
        PROVE  /\ t \in T <=> t \in U
               /\ t \in T => r[t].signal = s[t].signal /\ r[t].move = s[t].move
    BY <2>1, <2>2, <2>3, <2>6 DEF SameTo, Upto, LegSame
  <2>7. x.signal = UNION {r[t].signal : t \in {t \in T : DayOf(t) = d}}
    BY <2>4, <2>5
  <2>8. y.signal = UNION {s[t].signal : t \in {t \in U : DayOf(t) = d}}
    BY <2>4, <2>5
  <2>9. x.move = UNION {r[t].move : t \in {t \in T : DayOf(t) = d}}
    BY <2>4, <2>5
  <2>10. y.move = UNION {s[t].move : t \in {t \in U : DayOf(t) = d}}
    BY <2>4, <2>5
  <2>11. x.signal = y.signal
    BY <2>6, <2>7, <2>8
  <2>12. x.move = y.move
    BY <2>6, <2>9, <2>10
  <2> QED  BY <2>11, <2>12 DEF SameRow, x, y
<1>3. CASE l \notin Intraday
  <2>1. PICK M, N : SameTo(M, N, d) /\ LegAlike(r, s, M, N, d)
    BY <1>3, LegsAlike
  <2>2. /\ x = IF d \in DOMAIN r THEN r[d] ELSE Zeros({d})[d]
        /\ y = IF d \in DOMAIN s THEN s[d] ELSE Zeros({d})[d]
    BY <1>1, <1>3 DEF StrategyReturns, AlignReturns
  <2>3. Zeros({d})[d].signal = {}
    BY DEF Zeros
  <2> HIDE DEF x, y, r, s
  <2>4. DOMAIN r = M /\ DOMAIN s = N /\ (d \in M <=> d \in N) /\ (d \in M => d \in Upto(M, d))
    BY <2>1 DEF LegAlike, SameTo, Upto
  <2>5. SameRow(x, y)
    BY <2>1, <2>2, <2>3, <2>4 DEF LegAlike, SameRow
  <2> QED  BY <2>5 DEF x, y
<1> QED  BY <1>2, <1>3

-----------------------------------------------------------------------------
(* The features, built twice *)

FracOf(I) == IF Cardinality(I) < FracWidth THEN Cardinality(I) ELSE FracWidth

\* A day that has a window of frac_diff in a short history ends it, and so has
\* none in a longer one.
LEMMA NoWiderWindow ==
    ASSUME NEW I, NEW J, NEW d, SameTo(I, J, d), IsFiniteSet(I), NEW bars, DOMAIN bars = J,
           NEW pit, FracOf(I) < FracOf(J), IsFiniteSet(J)
    PROVE  d \notin DOMAIN BuildPitFeatureFrame(bars, pit)
<1> DEFINE n == FracOf(J)
           column == Rolling(bars, n, n)
<1>1. Cardinality(I) \in Nat /\ Cardinality(J) \in Nat /\ FracWidth \in Nat
  BY FS_CardinalityType, PointInTimeAssumption
<1>2. Cardinality(I) < n /\ n \in Nat
  BY <1>1 DEF FracOf
<1>3. column \in FeatureColumns(bars)
  BY DEF FeatureColumns, FracOf
<1>4. SUFFICES ASSUME d \in J  PROVE Shift(column, pit)[d] = {}
  BY <1>3 DEF BuildPitFeatureFrame
<1>5. d \in Upto(I, d)
  BY <1>4 DEF SameTo, Upto
<1> HIDE DEF n
<1>6. ASSUME NEW u \in Back(J, d, pit)  PROVE column[u] = {}
  <2>1. u \in Upto(I, d) /\ u \in J
    BY <1>5, RowsBack DEF Back
  <2>2. Window(J, u, n) \in SUBSET I
    BY <2>1, RowsBack DEF Upto
  <2>3. Cardinality(Window(J, u, n)) <= Cardinality(I) /\ Cardinality(Window(J, u, n)) \in Nat
    BY <2>2, FS_Subset, FS_CardinalityType
  <2> QED  BY <1>1, <1>2, <2>1, <2>3 DEF Rolling
<1>7. DOMAIN column = J
  BY DEF Rolling
<1> HIDE DEF column
<1> QED  BY <1>4, <1>6, <1>7 DEF Shift, Cells

\* The feature columns of alike bars are alike, given the same width of fractional
\* differencing.
LEMMA ColumnsAlike ==
    ASSUME NEW I, NEW J, NEW d, SameTo(I, J, d), NEW a, NEW b, Alike(a, b, I, J, d),
           FracOf(I) = FracOf(J)
    PROVE  /\ \A c \in FeatureColumns(a) : \E e \in FeatureColumns(b) : Alike(c, e, I, J, d)
           /\ \A e \in FeatureColumns(b) : \E c \in FeatureColumns(a) : Alike(c, e, I, J, d)
<1> DEFINE n == FracOf(I)
           c1(s) == Diff(s, 1)
           c2(s) == Rolling(s, n, n)
           c3(s) == Rolling(s, W["autocorr"], W["autocorr"])
           c4(s) == With(Rolling(TrueRange(s), W["atr"], W["atr"]), s)
           c5(s) == With(Rolling(s, W["rel_volume"], W["rel_volume"]), s)
<1>1. DOMAIN a = I /\ DOMAIN b = J
  BY DEF Alike
<1>2. /\ FeatureColumns(a) = {c1(a), c2(a), c3(a), c4(a), c5(a)}
      /\ FeatureColumns(b) = {c1(b), c2(b), c3(b), c4(b), c5(b)}
  BY <1>1 DEF FeatureColumns, FracOf
<1>3. Alike(c1(a), c1(b), I, J, d)
  BY DiffAlike
<1>4. Alike(c2(a), c2(b), I, J, d) /\ Alike(c3(a), c3(b), I, J, d)
  BY RollingAlike
<1>5. Alike(TrueRange(a), TrueRange(b), I, J, d)
  BY ShiftAlike, WithAlike DEF TrueRange
<1>6. Alike(c4(a), c4(b), I, J, d)
  BY <1>5, RollingAlike, WithAlike
<1>7. Alike(c5(a), c5(b), I, J, d)
  BY RollingAlike, WithAlike
<1> HIDE DEF c1, c2, c3, c4, c5
<1> QED  BY <1>2, <1>3, <1>4, <1>6, <1>7

(***************************************************************************)
(* Two frames that both have a day have the same rows up to that day.      *)
(***************************************************************************)
LEMMA FramesAlike ==
    ASSUME NEW I, NEW J, NEW d, SameTo(I, J, d), IsFiniteSet(I), IsFiniteSet(J),
           NEW a, NEW b, Alike(a, b, I, J, d), NEW pit,
           NEW x, NEW y, x = BuildPitFeatureFrame(a, pit), y = BuildPitFeatureFrame(b, pit),
           d \in DOMAIN x, d \in DOMAIN y
    PROVE  SameTo(DOMAIN x, DOMAIN y, d) /\ Alike(x, y, DOMAIN x, DOMAIN y, d)
<1>1. DOMAIN a = I /\ DOMAIN b = J
  BY DEF Alike
<1>2. FracOf(I) = FracOf(J)
  <2>1. SameTo(J, I, d)
    BY DEF SameTo
  <2>2. ~(FracOf(I) < FracOf(J)) /\ ~(FracOf(J) < FracOf(I))
    BY <1>1, <2>1, NoWiderWindow
  <2>3. FracOf(I) \in Nat /\ FracOf(J) \in Nat
    BY FS_CardinalityType, PointInTimeAssumption DEF FracOf
  <2> QED  BY <2>2, <2>3
<1> DEFINE C == {Shift(c, pit) : c \in FeatureColumns(a)}
           E == {Shift(e, pit) : e \in FeatureColumns(b)}
<1>3. \A c \in C : \E e \in E : Alike(c, e, I, J, d)
  BY <1>2, ColumnsAlike, ShiftAlike
<1>4. \A e \in E : \E c \in C : Alike(c, e, I, J, d)
  BY <1>2, ColumnsAlike, ShiftAlike
<1>5. /\ x = [t \in {t \in I : \A c \in C : c[t] # {}} |-> UNION {c[t] : c \in C}]
      /\ y = [t \in {t \in J : \A e \in E : e[t] # {}} |-> UNION {e[t] : e \in E}]
  BY <1>1 DEF BuildPitFeatureFrame
<1> HIDE DEF C, E
<1>6. ASSUME NEW t \in Upto(I, d)
      PROVE  /\ t \in J
             /\ (\A c \in C : c[t] # {}) <=> (\A e \in E : e[t] # {})
             /\ UNION {c[t] : c \in C} = UNION {e[t] : e \in E}
  <2>1. t \in J
    BY DEF SameTo, Upto
  <2>2. (\A c \in C : \E e \in E : c[t] = e[t]) /\ (\A e \in E : \E c \in C : c[t] = e[t])
    BY <1>3, <1>4 DEF Alike
  <2>3. {c[t] : c \in C} = {e[t] : e \in E}
    BY <2>2
  <2> QED  BY <2>1, <2>2, <2>3
<1>7. /\ DOMAIN x \in SUBSET I /\ DOMAIN y \in SUBSET J
      /\ \A t \in Upto(I, d) : t \in DOMAIN x <=> t \in DOMAIN y
  BY <1>5, <1>6 DEF Upto
<1>8. /\ I \in SUBSET Int /\ J \in SUBSET Int /\ d \in Int
      /\ \A t : t \in Upto(I, d) <=> t \in Upto(J, d)
  BY DEF SameTo
<1>9. \A t : t \in Upto(DOMAIN x, d) <=> t \in Upto(DOMAIN y, d)
  BY <1>7, <1>8 DEF Upto
<1>10. SameTo(DOMAIN x, DOMAIN y, d)
  BY <1>7, <1>8, <1>9 DEF SameTo
<1>11. ASSUME NEW t \in Upto(DOMAIN x, d)  PROVE x[t] = y[t]
  <2>1. t \in Upto(I, d) /\ t \in DOMAIN x /\ t \in DOMAIN y
    BY <1>7, <1>9 DEF Upto
  <2>2. x[t] = UNION {c[t] : c \in C} /\ y[t] = UNION {e[t] : e \in E}
    BY <1>5, <2>1
  <2> QED  BY <1>6, <2>1, <2>2
<1> QED  BY <1>10, <1>11 DEF Alike

-----------------------------------------------------------------------------
(* The training data, built twice *)

\* Embeddings of alike features are alike.
LEMMA EncodeAlike ==
    ASSUME NEW I, NEW J, NEW d, SameTo(I, J, d), NEW r, NEW s, Alike(r, s, I, J, d)
    PROVE  Alike(Encode(r), Encode(s), I, J, d)
BY RollingAlike DEF Encode

\* Where the rows of a build are.
LEMMA RowsKnown ==
    ASSUME NEW read, NEW scored, NEW d \in DOMAIN TrainingRows(read, scored)
    PROVE  d \in read.bank["primary"] /\ d \in DOMAIN Frame(read)
<1>1. d \in read.bank["primary"] /\ d \in DOMAIN Features(read, scored)
  BY DEF TrainingRows, AlignToFeatureIndex
<1>2. DOMAIN Features(read, scored) = DOMAIN Frame(read)
  BY DEF Features, With
<1> QED  BY <1>1, <1>2

\* Features of the same day from bars that are alike up to it.
LEMMA FeaturesAlike ==
    ASSUME NEW p, NEW q, Sound(p), Sound(q), NEW before, NEW scored,
           HasScores(p) => before = scored, NEW d \in Nat, SamePast(p, q, d),
           d \in DOMAIN Frame(p), d \in DOMAIN Frame(q)
    PROVE  /\ SameTo(DOMAIN Frame(p), DOMAIN Frame(q), d)
           /\ Alike(Features(p, before), Features(q, scored), DOMAIN Frame(p), DOMAIN Frame(q), d)
<1> DEFINE I == p.primary
           J == q.primary
           F == DOMAIN Frame(p)
           E == DOMAIN Frame(q)
           pit == settings.pit
           macros == p.source # "bank" /\ settings.macro
<1>1. /\ SameTo(I, J, d) /\ IsFiniteSet(I) /\ IsFiniteSet(J)
      /\ SameTo(p.bank["vix"], q.bank["vix"], d)
      /\ p.source = "bank" <=> q.source = "bank"
  <2>1. /\ p.bank["vix"] \in SUBSET Nat /\ q.bank["vix"] \in SUBSET Nat
        /\ p.primary \in SUBSET Nat /\ q.primary \in SUBSET Nat
        /\ IsFiniteSet(p.primary) /\ IsFiniteSet(q.primary)
    BY DEF Sound, FiniteStore, Store, Symbols
  <2>2. /\ Upto(I, d) = Upto(J, d) /\ Upto(p.bank["vix"], d) = Upto(q.bank["vix"], d)
        /\ p.source = "bank" <=> q.source = "bank"
    BY DEF SamePast, Upto, Symbols
  <2> QED  BY <2>1, <2>2 DEF SameTo
<1>2. HasScores(p) <=> HasScores(q)
  BY <1>1 DEF HasScores
<1>3. SameTo(F, E, d) /\ Alike(Frame(p), Frame(q), F, E, d)
  <2>1. Alike(Bars("primary", I), Bars("primary", J), I, J, d)
    BY <1>1, BarsAlike
  <2>2. /\ Frame(p) = BuildPitFeatureFrame(Bars("primary", I), pit)
        /\ Frame(q) = BuildPitFeatureFrame(Bars("primary", J), pit)
    BY DEF Frame
  <2> HIDE DEF I, J, pit
  <2> QED  BY <1>1, <2>1, <2>2, FramesAlike
<1> DEFINE none(X) == [t \in X |-> {}]
           macro(r, X) == MacroFrame(Bars("vix", r.bank["vix"]), X, pit)
           scores(sc, X) == SentimentSeries(sc, X, pit)
<1>4. /\ Features(p, before) = With(With(Frame(p), IF macros THEN macro(p, F) ELSE none(F)),
                                    IF HasScores(p) THEN scores(before, F) ELSE none(F))
      /\ Features(q, scored) = With(With(Frame(q), IF macros THEN macro(q, E) ELSE none(E)),
                                    IF HasScores(p) THEN scores(scored, E) ELSE none(E))
  BY <1>1, <1>2 DEF Features
<1> HIDE DEF pit, macros, F, E
<1>5. Alike(none(F), none(E), F, E, d)
  BY <1>3 DEF Alike, SameTo, Upto
<1>6. Alike(macro(p, F), macro(q, E), F, E, d)
  <2>1. Alike(Bars("vix", p.bank["vix"]), Bars("vix", q.bank["vix"]), p.bank["vix"], q.bank["vix"], d)
    BY <1>1, BarsAlike
  <2>2. Alike(ReindexFfill(Bars("vix", p.bank["vix"]), F, W["ffill"]),
              ReindexFfill(Bars("vix", q.bank["vix"]), E, W["ffill"]), F, E, d)
    BY <1>1, <1>3, <2>1, ReindexFfillAlike
  <2> QED  BY <1>3, <2>2, ShiftAlike DEF MacroFrame
<1>7. HasScores(p) => Alike(scores(before, F), scores(scored, E), F, E, d)
  <2>1. Alike(Reindex(scored, F), Reindex(scored, E), F, E, d)
    BY <1>3 DEF Alike, Reindex, SameTo, Upto
  <2>2. Alike(scores(scored, F), scores(scored, E), F, E, d)
    BY <1>3, <2>1, ShiftAlike DEF SentimentSeries
  <2> QED  BY <2>2
<1> HIDE DEF none, macro, scores
<1>8. Alike(With(Frame(p), IF macros THEN macro(p, F) ELSE none(F)),
            With(Frame(q), IF macros THEN macro(q, E) ELSE none(E)), F, E, d)
  <2>1. CASE macros
    BY <1>3, <1>6, <2>1, WithAlike
  <2>2. CASE ~macros
    BY <1>3, <1>5, <2>2, WithAlike
  <2> QED  BY <2>1, <2>2
<1>9. Alike(Features(p, before), Features(q, scored), F, E, d)
  <2>1. CASE HasScores(p)
    BY <1>3, <1>4, <1>7, <1>8, <2>1, WithAlike
  <2>2. CASE ~HasScores(p)
    BY <1>3, <1>4, <1>5, <1>8, <2>2, WithAlike
  <2> QED  BY <2>1, <2>2
<1> QED  BY <1>3, <1>9 DEF F, E

(***************************************************************************)
(* Two builds from bars that are alike up to a day, with the same scores,  *)
(* say the same of that day where both have it.                            *)
(***************************************************************************)
LEMMA RowsAlike ==
    ASSUME settings \in AllSettings, NEW p, NEW q, Sound(p), Sound(q), NEW before, NEW scored,
           HasScores(p) => before = scored,
           NEW x, NEW y, x = TrainingRows(p, before), y = TrainingRows(q, scored),
           NEW d, d \in DOMAIN x, d \in DOMAIN y, SamePast(p, q, d)
    PROVE  SameHistory(x[d], y[d])
<1> DEFINE pit == settings.pit
           I == p.bank["primary"]
           J == q.bank["primary"]
           r == StrategyReturns(Legs(p.bank, pit), I)
           s == StrategyReturns(Legs(q.bank, pit), J)
           f == Features(p, before)
           g == Features(q, scored)
<1>1. /\ d \in I /\ d \in J /\ d \in DOMAIN Frame(p) /\ d \in DOMAIN Frame(q)
  BY RowsKnown
<1>2. /\ pit \in Nat /\ d \in Nat
      /\ p.bank \in FiniteStore /\ q.bank \in FiniteStore /\ StoresAlike(p.bank, q.bank, d)
  <2>1. p.bank \in FiniteStore /\ q.bank \in FiniteStore
    BY DEF Sound
  <2>2. d \in Nat
    BY <1>1, <2>1 DEF FiniteStore, Store, Symbols
  <2>3. StoresAlike(p.bank, q.bank, d)
    BY DEF SamePast, StoresAlike, Upto
  <2> QED  BY <2>1, <2>2, <2>3, PointInTimeAssumption
<1>3. /\ SameTo(DOMAIN Frame(p), DOMAIN Frame(q), d)
      /\ Alike(f, g, DOMAIN Frame(p), DOMAIN Frame(q), d)
  BY <1>1, <1>2, FeaturesAlike
<1>4. /\ x = AlignToFeatureIndex(r, SpyReturns(p.bank, I), f, I)
      /\ y = AlignToFeatureIndex(s, SpyReturns(q.bank, J), g, J)
  BY DEF TrainingRows
<1>5. DOMAIN r = Present(p.bank) /\ DOMAIN s = Present(q.bank)
  BY DEF StrategyReturns, Legs
<1>6. ASSUME NEW l \in DOMAIN r \cap DOMAIN s
      PROVE  SameRow(r[l][d], s[l][d])
  BY <1>1, <1>2, <1>5, <1>6, ReturnsAlike
<1> HIDE DEF r, s, f, g, pit, I, J
<1>7. Encode(f)[d] = Encode(g)[d]
  <2>1. Alike(Encode(f), Encode(g), DOMAIN Frame(p), DOMAIN Frame(q), d)
    BY <1>3, EncodeAlike
  <2>2. d \in Upto(DOMAIN Frame(p), d)
    BY <1>1, <1>2 DEF Upto
  <2> QED  BY <2>1, <2>2 DEF Alike
<1>8. DOMAIN f = DOMAIN Frame(p) /\ DOMAIN g = DOMAIN Frame(q)
  BY <1>3 DEF Alike
<1>9. /\ x[d].obs = Encode(f)[d] /\ x[d].legs = [l \in DOMAIN r |-> r[l][d]]
      /\ y[d].obs = Encode(g)[d] /\ y[d].legs = [l \in DOMAIN s |-> s[l][d]]
  BY <1>1, <1>4, <1>8 DEF AlignToFeatureIndex, LegRow
<1>10. ASSUME NEW l \in DOMAIN x[d].legs \cap DOMAIN y[d].legs
       PROVE  SameRow(x[d].legs[l], y[d].legs[l])
  BY <1>6, <1>9
<1> QED  BY <1>7, <1>9, <1>10 DEF SameHistory, SameRow

Nil == [d \in {} |-> {}]

\* What was built is what its bars and the scores in the file make; without
\* scores the file does not matter.
HistoryInv ==
    /\ StoreInv
    /\ data # None => /\ Sound(data.read)
                      /\ HasScores(data.read) => /\ DOMAIN cache # {}
                                                 /\ data.rows = TrainingRows(data.read, cache)
                      /\ ~HasScores(data.read) => data.rows = TrainingRows(data.read, Nil)

\* The scores are read only where they are fetched.
LEMMA ScoresUnread ==
    ASSUME NEW read, NEW before, NEW scored, ~HasScores(read)
    PROVE  TrainingRows(read, before) = TrainingRows(read, scored)
BY DEF TrainingRows, Features

\* The rows of given bars and scores depend on the settings alone.
LEMMA SettingsOnly ==
    ASSUME UNCHANGED settings, NEW CONSTANT read, NEW CONSTANT scored
    PROVE  TrainingRows(read, scored)' = TrainingRows(read, scored)
BY DEF TrainingRows, Features, Frame, HasScores, AlignToFeatureIndex, Encode

\* A build compared with the one before it: the score file is written once.
LEMMA BuildStands ==
    ASSUME HistoryInv, NEW stale, NEW source \in Sources, NEW lost,
           BuildTrainingData(stale, source, lost)
    PROVE  /\ HistoryInv'
           /\ data # None =>
                \A d \in DOMAIN data.rows \cap DOMAIN data'.rows :
                    SamePast(data.read, data'.read, d) => SameHistory(data.rows[d], data'.rows[d])
<1>1. StoreInv
  BY DEF HistoryInv
<1>2. PICK read, scored :
          /\ Sound(read)
          /\ scored = IF HasScores(read) THEN ScoredCache(DOMAIN Frame(read)) ELSE cache
          /\ data' = [read |-> read, rows |-> TrainingRows(read, scored)]
          /\ Cardinality(DOMAIN TrainingRows(read, scored)) >= MinRows
          /\ cache' = scored /\ UNCHANGED <<settings, today, have>>
  BY <1>1, Build
<1>3. HasScores(read) => DOMAIN scored # {}
  <2>1. DOMAIN TrainingRows(read, scored) # {}
    <3>1. Cardinality({}) = 0 /\ MinRows \in Nat \ {0}
      BY FS_EmptySet, PointInTimeAssumption
    <3> QED  BY <1>2, <3>1
  <2>2. DOMAIN Frame(read) # {}
    BY <2>1, RowsKnown
  <2> QED  BY <1>2, <2>2 DEF ScoredCache
<1>4. HistoryInv'
  <2>1. StoreInv'
    BY <1>1, <1>2 DEF StoreInv
  <2>2. \A sc : TrainingRows(read, sc)' = TrainingRows(read, sc)
    BY <1>2, SettingsOnly
  <2>3. data'.read = read /\ data'.rows = TrainingRows(read, scored)
    BY <1>2
  <2>4. HasScores(read)' <=> HasScores(read)
    BY <1>2 DEF HasScores
  <2>5. CASE HasScores(read)
    BY <1>2, <1>3, <2>1, <2>2, <2>3, <2>4, <2>5 DEF HistoryInv
  <2>6. CASE ~HasScores(read)
    <3>1. data'.rows = TrainingRows(read, Nil)
      BY <2>3, <2>6, ScoresUnread
    <3> QED  BY <1>2, <2>1, <2>2, <2>3, <2>4, <2>6, <3>1 DEF HistoryInv
  <2> QED  BY <2>5, <2>6
<1>5. ASSUME data # None, NEW d \in DOMAIN data.rows \cap DOMAIN data'.rows,
             SamePast(data.read, data'.read, d)
      PROVE  SameHistory(data.rows[d], data'.rows[d])
  <2>1. PICK old : old = data.read /\ Sound(old)
    BY <1>5 DEF HistoryInv
  <2>2. HasScores(old) <=> HasScores(read)
    BY <1>2, <1>5, <2>1 DEF SamePast, HasScores
  <2>3. PICK before : /\ data.rows = TrainingRows(old, before)
                      /\ HasScores(old) => before = cache /\ DOMAIN cache # {}
    BY <1>5, <2>1 DEF HistoryInv
  <2>4. HasScores(old) => before = scored
    BY <1>2, <2>2, <2>3 DEF ScoredCache
  <2>5. data'.read = read /\ data'.rows = TrainingRows(read, scored)
    BY <1>2
  <2> QED
    BY <1>1, <1>2, <1>5, <2>1, <2>3, <2>4, <2>5, RowsAlike DEF StoreInv
<1> QED  BY <1>4, <1>5

LEMMA HistoryNext ==
    ASSUME HistoryInv, [Next]_vars
    PROVE  HistoryInv'
<1>1. CASE UNCHANGED <<settings, cache, data>>
  <2>1. StoreInv'
    BY StoreNext DEF HistoryInv
  <2>2. \A r, sc : TrainingRows(r, sc)' = TrainingRows(r, sc)
    BY <1>1, SettingsOnly
  <2>3. HasScores(data.read)' <=> HasScores(data.read)
    BY <1>1 DEF HasScores
  <2> QED  BY <1>1, <2>1, <2>2, <2>3 DEF HistoryInv, Sound
<1> QED
  BY <1>1, BuildStands DEF Next, NextDay, Backfill, vars

(***************************************************************************)
(* Whatever days the store lacks or gets late, however far back a download *)
(* reaches and however late the bank's cache is: what a build says of a    *)
(* day, in observation, score, position and return of a leg, depends on    *)
(* the bars it read up to that day and on the scores first written, unless *)
(* one of the builds left the leg inert (training_data.py, pit_features.py,*)
(* bank.py, sentiment_edgar.py).                                           *)
(***************************************************************************)
THEOREM RowsDependOnPastBarsOnly == Spec => HistoryStands
<1> DEFINE Stands == data # None /\ data' # data =>
                         \A d \in DOMAIN data.rows \cap DOMAIN data'.rows :
                             SamePast(data.read, data'.read, d) =>
                                 SameHistory(data.rows[d], data'.rows[d])
<1>1. HistoryInv /\ [Next]_vars => [Stands]_vars
  <2> SUFFICES ASSUME HistoryInv, [Next]_vars, data # None, data' # data
               PROVE  Stands
    OBVIOUS
  <2>1. PICK stale \in {today - 1, today} \cap Nat, source \in Sources, lost \in Losses :
            BuildTrainingData(stale, source, lost)
    BY DEF Next, NextDay, Backfill, vars
  <2> QED  BY <2>1, BuildStands
<1>2. Init => HistoryInv
  BY StoreInit DEF Init, HistoryInv
<1>3. Spec => []HistoryInv
  BY <1>2, HistoryNext, PTL DEF Spec
<1> QED
  BY <1>1, <1>3, PTL DEF Spec, HistoryStands
=============================================================================
