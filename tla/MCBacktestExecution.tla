-------------------------- MODULE MCBacktestExecution --------------------------
\* Values of BacktestExecution's constants for model checking.
EXTENDS BacktestExecution, TLC

\* A bar through every limit, one a SELL fills in and one a BUY fills in.
MCBarShapes ==
    {[low |-> 1, high |-> 4, close |-> 3],
     [low |-> 3, high |-> 3, close |-> 3],
     [low |-> 1, high |-> 1, close |-> 1]}

\* Symbols are interchangeable.
SymbolSymmetry == Permutations(Symbols)
=============================================================================
