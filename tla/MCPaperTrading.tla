---------------------------- MODULE MCPaperTrading ----------------------------
\* Values of PaperTrading's constants for model checking.
EXTENDS PaperTrading

\* A concentrated policy, one that leans on the intraday legs, and one of
\* another width than the strategy matrix.
MCPolicyWeights == {<<14, 5, 1, 1>>, <<1, 6, 2, 1>>, <<2, 1, 1>>}

\* Every leg of equal worth, no leg of any, only daily or intraday legs, one
\* leg, and an uneven mix.
MCMultipliers == {<<1, 1, 1, 1>>, <<0, 0, 0, 0>>, <<1, 0, 0, 1>>, <<0, 1, 1, 0>>,
                  <<1, 0, 0, 0>>, <<3, 0, 1, 2>>}

\* Alpaca paper trading without a feed, under the default cap of 60%.
MCPaperDict == [mode |-> "alpaca", paper |-> TRUE, ws |-> FALSE, risk |-> TRUE,
                width |-> 4, cap |-> [num |-> 3, den |-> 5]]
MCDefaultDict == {MCPaperDict}

\* The default, a cap that needs several rounds, one no four legs can meet
\* together and one of 0; the default with a feed, without the risk overlay
\* and live; and a backtest, with weights of another width.
MCDicts ==
    LET paper == MCPaperDict
    IN  {paper,
         [paper EXCEPT !.cap = [num |-> 2, den |-> 5]],
         [paper EXCEPT !.cap = [num |-> 1, den |-> 5]],
         [paper EXCEPT !.cap = [num |-> 0, den |-> 1]],
         [paper EXCEPT !.ws = TRUE],
         [paper EXCEPT !.risk = FALSE],
         [paper EXCEPT !.paper = FALSE],
         [paper EXCEPT !.mode = "backtest", !.width = 3]}

\* A bar that trades through the bid, one that does not, and one too dear for
\* a single share.
MCBars == {[low |-> 3, close |-> 5], [low |-> 5, close |-> 5], [low |-> 5, close |-> 9]}
=============================================================================
