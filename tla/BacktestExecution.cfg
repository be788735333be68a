SPECIFICATION HandlerSpec
CONSTANTS
    Symbols = {spy, qqq}
    Limits = {2}
    Closes = {3}
    HalfSpread = 1
    Quantities = {1}
    ClientIds = {c1}
    BarShapes <- MCBarShapes
    InitialCash = 2
    MaxOrders = 3
    MaxBars = 2
INVARIANTS
    FilledExactlyOnce
PROPERTIES
    NoFillAfterCancel
    NoMissedFill
SYMMETRY SymbolSymmetry
CHECK_DEADLOCK FALSE
