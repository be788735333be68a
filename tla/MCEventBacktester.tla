--------------------------- MODULE MCEventBacktester ---------------------------
\* Values of EventBacktester's constants for model checking.
EXTENDS EventBacktester

\* A wide bar that trades through every limit of its like, and a dear one.
MCQuotes ==
    {[low |-> 1, high |-> 3, close |-> 2, bid |-> 2, ask |-> 3],
     [low |-> 2, high |-> 4, close |-> 3, bid |-> 3, ask |-> 4]}

MCSignals ==
    {[side |-> "BUY", qty |-> 1], [side |-> "BUY", qty |-> 2],
     [side |-> "SELL", qty |-> 1], [side |-> "BUY", qty |-> 0]}
=============================================================================
