---------------------------- MODULE EventBacktester ----------------------------
(***************************************************************************)
(* backtesting/event_driven_backtester.py: a single-threaded replay of a   *)
(* bar history through a heap of events ordered by (timestamp, sequence).  *)
(*                                                                         *)
(* run() pushes every MARKET event before it pops the first one; handling  *)
(* an event pushes others (a strategy's SIGNALs, the ORDER and FILL        *)
(* notices).  The loop of _match_open_orders is one step per open order,   *)
(* in the order of submission, so that every intermediate balance is a     *)
(* state of the model; nothing else can happen between those steps.        *)
(*                                                                         *)
(* Prices and quantities are integers.  The replay is of one symbol, as in *)
(* run(symbol): submit_limit_order is reached through _process_signal      *)
(* alone, which passes the bar's own symbol.                               *)
(***************************************************************************)
EXTENDS Integers, Sequences

CONSTANTS N,             \* number of bars in the frame
          Quotes,        \* prices a bar may show: [low, high, close, bid, ask]
          MaxTime,       \* timestamps are 1..MaxTime (several bars may share one)
          Latencies,     \* values of latency_bars
          InitialCash,   \* initial_cash
          Signals,       \* signal dicts a strategy may return: [side, qty]
          MaxSignals,    \* bound on the signals returned for one bar
          MaxRuns        \* bound on the calls of run()

QuoteRecord == [low : Nat, high : Nat, close : Nat, bid : Nat, ask : Nat]

ASSUME FrameAssumption ==
    /\ N \in Nat
    /\ MaxTime \in Nat
    /\ Quotes \subseteq QuoteRecord

ASSUME ParameterAssumption ==
    /\ Latencies \subseteq Nat
    /\ InitialCash \in Nat
    /\ Signals \subseteq [side : STRING, qty : Int]
    /\ MaxSignals \in Nat
    /\ MaxRuns \in Nat

VARIABLES bars,          \* the sorted frame: bar_index -> timestamp and quote
          latency,       \* latency_bars, given to the constructor
          pc,            \* "idle": run() not active; "drain": popping events;
                         \* "match": inside _match_open_orders
          runs,          \* calls of run() so far
          queue,         \* _event_queue, as a set of events
          sequence,      \* _sequence
          orderId,       \* _order_id
          barIndex,      \* _bar_index
          history,       \* _history_rows: the bar indices appended so far
          cash,          \* cash
          position,      \* positions[symbol]
          openOrders,    \* open_orders: the set of its orders
          fills,         \* fills, in booking order
          equity,        \* equity_curve
          toMatch,       \* orders the matching loop has still to visit
          filledIds      \* filled_ids of the matching loop

given    == <<bars, latency>>
control  == <<pc, runs>>
account  == <<cash, position, fills>>
matching == <<toMatch, filledIds>>
vars == <<bars, latency, pc, runs, queue, sequence, orderId, barIndex, history, cash,
          position, openOrders, fills, equity, toMatch, filledIds>>

Index == 0 .. (N - 1)
Sides == {"BUY", "SELL"}
NoSignal == [side |-> "NONE", qty |-> 0]

Event == [ts : Nat, seq : Nat, type : {"MARKET", "SIGNAL", "ORDER", "FILL"},
          bar : Index, signal : Signals \cup {NoSignal}]

\* LimitOrder; signalBar is a history field: the bar whose signal placed it.
Order == [id : Nat, side : Sides, qty : Nat, limit : Nat, activeAfter : Int,
          signalBar : Index]

\* FillRecord, with the signalBar of its order.
Fill == [id : Nat, side : Sides, qty : Nat, price : Nat, bar : Index,
         signalBar : Index]

(***************************************************************************)
(* _normalize_bars leaves the frame sorted by its timestamps; rows with    *)
(* equal timestamps stay separate bars.                                    *)
(***************************************************************************)
SortedFrames ==
    {f \in [Index -> [ts : 1 .. MaxTime, quote : Quotes]] :
        \A i, j \in Index : i <= j => f[i].ts <= f[j].ts}

\* The heap's order on Event.priority = (timestamp, sequence).
Precedes_TimeIgnored(e, f) == e.seq < f.seq
Precedes_TieReversed(e, f) == e.ts < f.ts \/ (e.ts = f.ts /\ e.seq > f.seq)
Precedes(e, f) == e.ts < f.ts \/ (e.ts = f.ts /\ e.seq < f.seq)

\* heappop returns the least event of the heap.
IsNext(e) == e \in queue /\ \A f \in queue \ {e} : Precedes(e, f)

\* _enqueue stamps an event with the timestamp of its bar and a new number.
NewEvent(seq, type, bar, signal) ==
    [ts |-> bars[bar].ts, seq |-> seq, type |-> type, bar |-> bar, signal |-> signal]

Init ==
    /\ bars \in SortedFrames /\ latency \in Latencies
    /\ pc = "idle" /\ runs = 0
    /\ queue = {} /\ sequence = 0 /\ orderId = 0 /\ barIndex = -1
    /\ history = <<>> /\ equity = <<>>
    /\ cash = InitialCash /\ position = 0 /\ fills = <<>>
    /\ openOrders = {} /\ toMatch = {} /\ filledIds = {}

(***************************************************************************)
(* run(), up to the drain loop: all but the two counters is reset and      *)
(* every MARKET event is pushed, so _bar_index stands at N - 1 before the  *)
(* first of them is handled.                                               *)
(***************************************************************************)
Run ==
    /\ pc = "idle" /\ runs < MaxRuns
    /\ runs' = runs + 1
    /\ pc' = "drain"
    /\ queue' = {NewEvent(sequence + i + 1, "MARKET", i, NoSignal) : i \in Index}
    /\ sequence' = sequence + N
    /\ barIndex' = N - 1
    /\ history' = <<>> /\ equity' = <<>>
    /\ cash' = InitialCash /\ position' = 0 /\ fills' = <<>>
    /\ openOrders' = {}
    /\ UNCHANGED <<given, orderId, matching>>

(***************************************************************************)
(* _process_market, up to the matching loop: the bar joins the history,    *)
(* the strategy is called and returns any list of signals, these are       *)
(* pushed with the bar's own timestamp, and the loop starts over the       *)
(* orders open now.                                                        *)
(***************************************************************************)
ProcessMarket(e) ==
    /\ pc = "drain" /\ IsNext(e) /\ e.type = "MARKET"
    /\ history' = Append(history, e.bar)
    /\ \E n \in 0 .. MaxSignals : \E signals \in [1 .. n -> Signals] :
          /\ queue' = (queue \ {e}) \cup
                 {NewEvent(sequence + i, "SIGNAL", e.bar, signals[i]) : i \in 1 .. n}
          /\ sequence' = sequence + n
    /\ toMatch' = openOrders
    /\ pc' = "match"
    /\ UNCHANGED <<given, runs, orderId, barIndex, account, openOrders, equity, filledIds>>

\* The signals _process_signal acts on.
Actionable(signal) == signal.side \in Sides /\ signal.qty > 0

\* A passive order rests at the bid (BUY) or at the ask (SELL) of its bar.
LimitPrice(side, bar) ==
    IF side = "BUY" THEN bars[bar].quote.bid ELSE bars[bar].quote.ask

\* submit_limit_order counts the latency from _bar_index, whatever bar the
\* signal came from.
ActiveAfter_None(bar) == 0
ActiveAfter(bar) == barIndex + latency

\* _process_signal and the submit_limit_order it calls.
ProcessSignal(e) ==
    /\ pc = "drain" /\ IsNext(e) /\ e.type = "SIGNAL"
    /\ IF Actionable(e.signal)
       THEN /\ orderId' = orderId + 1
            /\ openOrders' = openOrders \cup
                  {[id |-> orderId + 1, side |-> e.signal.side, qty |-> e.signal.qty,
                    limit |-> LimitPrice(e.signal.side, e.bar),
                    activeAfter |-> ActiveAfter(e.bar), signalBar |-> e.bar]}
            /\ sequence' = sequence + 1
            /\ queue' = (queue \ {e}) \cup
                  {NewEvent(sequence + 1, "ORDER", e.bar, NoSignal)}
       ELSE /\ queue' = queue \ {e}
            /\ UNCHANGED <<orderId, openOrders, sequence>>
    /\ UNCHANGED <<given, control, barIndex, history, account, equity, matching>>

\* _process_order and the FILL branch of run(): the notice is only dropped.
DropNotice_Peek(e) ==
    /\ pc = "drain" /\ IsNext(e) /\ e.type \in {"ORDER", "FILL"}
    /\ UNCHANGED vars
DropNotice(e) ==
    /\ pc = "drain" /\ IsNext(e) /\ e.type \in {"ORDER", "FILL"}
    /\ queue' = queue \ {e}
    /\ UNCHANGED <<given, control, sequence, orderId, barIndex, history, account,
                   openOrders, equity, matching>>

-----------------------------------------------------------------------------
(* _match_open_orders                                                       *)

\* The bar being matched: the one the strategy was last called with.
CurrentBar == history[Len(history)]

\* The order the loop visits next: dictionaries keep insertion order.
IsVisited(o) == o \in toMatch /\ \A p \in toMatch : o.id <= p.id

\* The bar trades through the limit and the order's latency has elapsed.
Crosses(o) ==
    LET quote == bars[CurrentBar].quote IN
    /\ CurrentBar >= o.activeAfter
    /\ \/ o.side = "BUY" /\ quote.low <= o.limit
       \/ o.side = "SELL" /\ quote.high >= o.limit

\* The account can carry the fill: cash for a BUY, holdings for a SELL.
Covered(o) ==
    \/ o.side = "BUY" /\ o.limit * o.qty <= cash
    \/ o.side = "SELL" /\ o.qty <= position

\* The new balances of a fill.
BookCash_Free(o) == IF o.side = "BUY" THEN cash ELSE cash + o.limit * o.qty
BookCash(o) == IF o.side = "BUY" THEN cash - o.limit * o.qty ELSE cash + o.limit * o.qty
BookPosition(o) == IF o.side = "BUY" THEN position + o.qty ELSE position - o.qty

FillOrder(o) ==
    /\ pc = "match" /\ IsVisited(o)
    /\ Crosses(o) /\ Covered(o)
    /\ cash' = BookCash(o)
    /\ position' = BookPosition(o)
    /\ fills' = Append(fills, [id |-> o.id, side |-> o.side, qty |-> o.qty,
                               price |-> o.limit, bar |-> CurrentBar,
                               signalBar |-> o.signalBar])
    /\ sequence' = sequence + 1
    /\ queue' = queue \cup {NewEvent(sequence + 1, "FILL", CurrentBar, NoSignal)}
    /\ filledIds' = filledIds \cup {o.id}
    /\ toMatch' = toMatch \ {o}
    /\ UNCHANGED <<given, control, orderId, barIndex, history, openOrders, equity>>

PassOver(o) ==
    /\ pc = "match" /\ IsVisited(o)
    /\ ~(Crosses(o) /\ Covered(o))
    /\ toMatch' = toMatch \ {o}
    /\ UNCHANGED <<given, control, queue, sequence, orderId, barIndex, history, account,
                   openOrders, equity, filledIds>>

\* The orders that stay open once the filled ones are deleted.
StillOpen_All == openOrders
StillOpen == {o \in openOrders : o.id \notin filledIds}

(***************************************************************************)
(* The end of _match_open_orders deletes the filled orders, and            *)
(* _mark_equity appends the account's value at the bar's close.            *)
(***************************************************************************)
FinishBar ==
    /\ pc = "match" /\ toMatch = {}
    /\ openOrders' = StillOpen
    /\ equity' = Append(equity, cash + position * bars[CurrentBar].quote.close)
    /\ filledIds' = {}
    /\ pc' = "drain"
    /\ UNCHANGED <<given, runs, queue, sequence, orderId, barIndex, history, account,
                   toMatch>>

\* run() returns the equity curve once the heap is empty.
Finish ==
    /\ pc = "drain" /\ queue = {}
    /\ pc' = "idle"
    /\ UNCHANGED <<given, runs, queue, sequence, orderId, barIndex, history, account,
                   openOrders, equity, matching>>

Next ==
    \/ Run
    \/ \E e \in queue : ProcessMarket(e) \/ ProcessSignal(e) \/ DropNotice(e)
    \/ \E o \in toMatch : FillOrder(o) \/ PassOver(o)
    \/ FinishBar
    \/ Finish

\* run() is one uninterrupted call: once entered it keeps taking steps.
Spec == Init /\ [][Next]_vars /\ WF_vars(pc # "idle" /\ Next)

-----------------------------------------------------------------------------
(* Properties *)

TypeOK ==
    /\ bars \in SortedFrames /\ latency \in Latencies
    /\ pc \in {"idle", "drain", "match"}
    /\ runs \in 0 .. MaxRuns
    /\ queue \subseteq Event
    /\ sequence \in Nat /\ orderId \in Nat /\ barIndex \in -1 .. (N - 1)
    /\ history \in Seq(Index)
    /\ cash \in Int /\ position \in Int
    /\ openOrders \subseteq Order /\ toMatch \subseteq openOrders
    /\ fills \in Seq(Fill) /\ equity \in Seq(Int)
    /\ filledIds \subseteq Nat

(***************************************************************************)
(* The account is never overdrawn and never short, not even between two    *)
(* fills of one bar: the guards of the matching loop read the balances the *)
(* previous fill of the same loop left behind (lines 289-300).             *)
(***************************************************************************)
Solvent == cash >= 0 /\ position >= 0

(***************************************************************************)
(* The strategy sees the bars in the order of the frame and without a gap: *)
(* although all MARKET events sit in the heap together with the events     *)
(* they cause, and bars may share a timestamp, the k-th call's history is  *)
(* bars 0..k-1 and nothing later (lines 186-203, audit point 2).           *)
(***************************************************************************)
HistoryIsPrefix == \A i \in 1 .. Len(history) : history[i] = i - 1

(***************************************************************************)
(* No event is left behind: while the loop works at some bar, nothing      *)
(* older than that bar is still in the heap, so a signal has become an     *)
(* order before a bar with a later timestamp is matched.                   *)
(***************************************************************************)
NothingLate ==
    history # <<>> => \A e \in queue : e.ts >= bars[CurrentBar].ts

(***************************************************************************)
(* No look-ahead in the fills: an order never fills on the bar whose       *)
(* signal placed it, nor before its latency has elapsed ("Fills never      *)
(* occur before order latency elapses", line 383).                         *)
(***************************************************************************)
NoEarlyFill ==
    \A i \in DOMAIN fills :
        /\ fills[i].bar > fills[i].signalBar
        /\ fills[i].bar >= fills[i].signalBar + latency

(***************************************************************************)
(* An order is booked at most once: no two fills of one order, and no      *)
(* filled order is offered to a later bar's matching loop.                 *)
(***************************************************************************)
FilledOnce ==
    /\ \A i, j \in DOMAIN fills : fills[i].id = fills[j].id => i = j
    /\ \A i \in DOMAIN fills, o \in openOrders :
          (fills[i].id = o.id) => pc = "match" /\ o \notin toMatch

(***************************************************************************)
(* A replay ends: although handling an event pushes further events, the    *)
(* heap drains and run() returns, with one equity mark per bar.            *)
(***************************************************************************)
ReplayTerminates == pc # "idle" ~> (pc = "idle" /\ Len(equity) = N)

\* Quantities and prices a fill can have: those of actionable signals and quotes.
FillQuantities == {s.qty : s \in {t \in Signals : Actionable(t)}}
FillPrices == {q.bid : q \in Quotes} \cup {q.ask : q \in Quotes}

(***************************************************************************)
(* The engine implements the account: every step books one covered fill,   *)
(* opens the account afresh, or leaves it alone.                           *)
(***************************************************************************)
Account == INSTANCE CashAccount WITH Quantity <- FillQuantities, Price <- FillPrices
ImplementsCashAccount == Account!Spec
=============================================================================
