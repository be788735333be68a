---------------------------- MODULE MCPointInTime ----------------------------
EXTENDS PointInTime

\* Every window is two rows, every lag and margin one: all legs, features and
\* embeddings are warm by the fourth day, with a pit_shift of one.
MCW == [w \in WindowNames |->
          IF w \in {"margin", "roc", "xs_lookback", "frac_min", "fast", "ffill"}
          THEN 1 ELSE 2]

\* A day may lack the bar of one symbol, of the market data or of FRED.
MCMissing == {{}, {"primary"}, {"partner"}, {"spy", "intraday"}, {"vix"}}

\* A download reaches back four days, one of intraday bars three.
MCPeriod == [s \in Symbols |-> IF s = "intraday" THEN 3 ELSE 4]

\* A download is complete or lacks a day in the middle.
MCLosses == {{}, {3}}

MCAllSettings ==
    {[pit |-> 1, encoder |-> TRUE, macro |-> TRUE, sentiment |-> TRUE],
     [pit |-> 2, encoder |-> FALSE, macro |-> TRUE, sentiment |-> FALSE],
     [pit |-> 0, encoder |-> FALSE, macro |-> FALSE, sentiment |-> TRUE]}
=============================================================================
