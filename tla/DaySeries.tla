------------------------------ MODULE DaySeries ------------------------------
(***************************************************************************)
(* What the pandas operations of strategies/ and data/features/ do to the  *)
(* question "which bars has this value been computed from?".  A series is  *)
(* a function on its index, a finite set of times; its value at a time is  *)
(* the set of cells (one bar of one symbol: [sym, time]) that went into    *)
(* the number.  A number that depends on nothing, the constant 0 or NaN of *)
(* a warm-up, is the empty set.                                            *)
(*                                                                         *)
(* pandas shifts and rolls by position in the index, not by calendar day:  *)
(* the operators below count the entries of the index, so a hole in the    *)
(* index makes a window reach further back.                                *)
(***************************************************************************)
EXTENDS Naturals, FiniteSets

\* The entries of index I after u, up to and including t.
After(I, u, t) == {v \in I : u < v /\ v <= t}

\* The entry k positions before t, if there is one.
Back(I, t, k) == {u \in I : u <= t /\ Cardinality(After(I, u, t)) = k}

\* The last w entries up to and including t.
Window(I, t, w) == {u \in I : u <= t /\ Cardinality(After(I, u, t)) < w}

Cells(s, T) == UNION {s[u] : u \in T}

\* Series.shift(k)
Shift(s, k) == [t \in DOMAIN s |-> Cells(s, Back(DOMAIN s, t, k))]

\* Series.rolling(w, min_periods=m).<aggregate>()
Rolling(s, w, m) ==
    [t \in DOMAIN s |->
        LET rows == Window(DOMAIN s, t, w) IN
        IF Cardinality(rows) >= m THEN Cells(s, rows) ELSE {}]

\* An arithmetic operation or a comparison of two series on one index.
With(r, s) == [t \in DOMAIN r |-> r[t] \cup s[t]]

\* Series.diff(k) and Series.pct_change(k), whose first k values are NaN
Diff(s, k) ==
    [t \in DOMAIN s |-> IF Back(DOMAIN s, t, k) = {} THEN {}
                        ELSE s[t] \cup Cells(s, Back(DOMAIN s, t, k))]

\* pd.concat([r, s], axis=1, join="inner")
InnerJoin(r, s) == [t \in DOMAIN r \cap DOMAIN s |-> r[t] \cup s[t]]

\* Series.reindex(I, fill_value=0.0)
Reindex(s, I) == [t \in I |-> IF t \in DOMAIN s THEN s[t] ELSE {}]

\* Series.reindex(I).ffill(limit=n): the latest of the last n + 1 rows of I
\* for which s has a value.
Latest(T) == {u \in T : \A v \in T : v <= u}

ReindexFfill(s, I, n) ==
    [t \in I |-> Cells(s, Latest(Window(I, t, n + 1) \cap DOMAIN s))]
=============================================================================
