--------------------------- MODULE BacktestExecution ---------------------------
(***************************************************************************)
(* adapters/execution/backtest_execution.py: the simulated limit book      *)
(* behind AbstractExecutionHandler.  Everything runs on the caller's       *)
(* thread, but on_bar hands every fill to the on_fill callback in the      *)
(* middle of its loop, and the callback may submit and cancel orders while *)
(* the loop is still iterating over the book.                              *)
(*                                                                         *)
(* An order acknowledgement (OrderAck) is known by its number: the n-th    *)
(* submission creates ack n.  Orders enter the book's lists in the order   *)
(* they were submitted and only ever leave them, so a list is the set of   *)
(* its acks' numbers, walked in ascending order.  Symbols are already      *)
(* upper case.                                                             *)
(***************************************************************************)
EXTENDS Integers, Sequences, FiniteSetsExt

CONSTANTS Symbols,      \* symbols traded
          Limits,       \* limit prices of a direct submission
          Closes,       \* closes a passive submission is priced from
          HalfSpread,   \* quote_from_close's half spread
          Quantities,   \* order quantities
          ClientIds,    \* client_order_id values
          BarShapes,    \* bars: [low, high, close]
          InitialCash,
          MaxOrders,    \* bound on submissions
          MaxBars       \* bound on on_bar calls

ASSUME BacktestExecutionAssumption ==
    /\ Limits \subseteq Nat /\ Closes \subseteq Nat /\ HalfSpread \in Nat
    /\ Quantities \subseteq Nat \ {0} /\ ClientIds \cap Nat = {}
    /\ BarShapes \subseteq [low : Nat, high : Nat, close : Nat]
    /\ \A b \in BarShapes : b.low <= b.close /\ b.close <= b.high
    /\ InitialCash \in Nat /\ MaxOrders \in Nat /\ MaxBars \in Nat

VARIABLES acks,         \* the n-th submission's OrderAck and request
          openOrders,   \* _open_orders: order id -> number of its latest ack
          pending,      \* _pending
          positions,    \* _positions (0 when the key is absent)
          cash,         \* _cash
          lastClose,    \* _last_close (0 when the key is absent)
          barCount,     \* _bar_index
          fills,        \* every FillEvent, with the number of its ack and its bar
          pc,           \* "idle", "loop" (in on_bar) or "callback" (in on_fill)
          bar,          \* symbol and shape of the bar in progress
          walked,       \* the list the loop iterates over, once _pending is rebound
          rebound,      \* _pending was rebound since on_bar began
          cursor,       \* the entry the loop visited last
          remaining,    \* remaining
          faced         \* what the bar has to face: _pending when on_bar began and
                        \* what on_fill appended to that list (history)

book == <<acks, openOrders, pending>>
money == <<positions, cash, lastClose>>
loop == <<bar, walked, rebound, cursor, remaining, faced>>
handlerVars == <<acks, openOrders, pending, positions, cash, lastClose, barCount, fills,
                 pc, bar, walked, rebound, cursor, remaining, faced>>

Sides == {"BUY", "SELL"}
Numbers == 1 .. MaxOrders
NoBar == [sym |-> "none", low |-> 0, high |-> 0, close |-> 0]

HandlerInit ==
    /\ acks = <<>> /\ openOrders = <<>> /\ pending = {}
    /\ positions = [s \in Symbols |-> 0] /\ cash = InitialCash
    /\ lastClose = [s \in Symbols |-> 0]
    /\ barCount = 0 /\ fills = <<>>
    /\ pc = "idle" /\ bar = NoBar
    /\ walked = {} /\ rebound = FALSE /\ cursor = 0 /\ remaining = {} /\ faced = {}

\* The user's code runs between bars and inside the callback.
UserTurn == pc \in {"idle", "callback"}

\* client_order_id, or a fresh uuid4: the ack's own number, which nothing else uses.
OrderId(n, id) == IF id \in ClientIds THEN id ELSE n

(***************************************************************************)
(* submit_limit_order: an id already in use is taken over by the new ack,  *)
(* while the older ack stays pending.                                      *)
(***************************************************************************)
Submit(symbol, side, qty, limit, id) ==
    LET n == Len(acks) + 1 IN
    /\ UserTurn /\ n \in Numbers
    /\ acks' = Append(acks, [id |-> OrderId(n, id), symbol |-> symbol, side |-> side,
                             qty |-> qty, limit |-> limit, status |-> "ACCEPTED"])
    /\ openOrders' = [i \in DOMAIN openOrders \cup {OrderId(n, id)} |->
                         IF i = OrderId(n, id) THEN n ELSE openOrders[i]]
    /\ pending' = pending \cup {n}
    /\ faced' = IF pc = "callback" /\ ~rebound THEN faced \cup {n} ELSE faced
    /\ UNCHANGED <<money, barCount, fills, pc, bar, walked, rebound, cursor, remaining>>

\* limit_price_for_side(side, quote_from_close(close)).
PassivePrice(side, close) ==
    IF side = "BUY" THEN close - HalfSpread ELSE close + HalfSpread

\* submit_passive_from_signal.
SubmitPassive(symbol, side, qty, close) ==
    Submit(symbol, side, qty, PassivePrice(side, close), 0)

\* The entries cancel_order keeps.
KeptPending(id) == {n \in pending : acks[n].id # id}

(***************************************************************************)
(* cancel_order of a known id: the status of its latest ack is overwritten *)
(* whatever it was, and _pending is rebound to a new list; a loop under    *)
(* way keeps the old one.  An unknown id changes nothing.                  *)
(***************************************************************************)
Cancel(id) ==
    /\ UserTurn /\ id \in DOMAIN openOrders
    /\ acks' = [acks EXCEPT ![openOrders[id]].status = "CANCELLED"]
    /\ pending' = KeptPending(id)
    /\ walked' = IF pc = "callback" /\ ~rebound THEN pending ELSE walked
    /\ rebound' = (pc = "callback")
    /\ UNCHANGED <<openOrders, money, barCount, fills, pc, bar, cursor, remaining, faced>>

\* on_bar, up to its loop.
BeginBar(symbol, shape) ==
    /\ pc = "idle" /\ barCount < MaxBars
    /\ barCount' = barCount + 1
    /\ lastClose' = [lastClose EXCEPT ![symbol] = shape.close]
    /\ bar' = [sym |-> symbol, low |-> shape.low, high |-> shape.high, close |-> shape.close]
    /\ walked' = {} /\ rebound' = FALSE /\ cursor' = 0 /\ remaining' = {}
    /\ faced' = pending
    /\ pc' = "loop"
    /\ UNCHANGED <<book, positions, cash, fills>>

\* The list object the loop iterates over; appends to it lengthen the loop.
Iterated_Rebound == pending
Iterated == IF rebound THEN walked ELSE pending

ToVisit == {n \in Iterated : n > cursor}
Visits(n) == pc = "loop" /\ n \in ToVisit /\ \A m \in ToVisit : n <= m

Working_Any(n) == TRUE
Working(n) == acks[n].status = "ACCEPTED"

\* The bar trades through the limit; the order's own symbol is not consulted.
TradedThrough(a) ==
    \/ a.side = "BUY" /\ bar.low <= a.limit
    \/ a.side = "SELL" /\ bar.high >= a.limit

\* The execution price: the limit, or the close when that is better.
FillPrice(a) ==
    IF a.side = "BUY" THEN Min({a.limit, bar.close}) ELSE Max({a.limit, bar.close})

Signed(a) == IF a.side = "BUY" THEN a.qty ELSE -a.qty

\* An entry whose order is no longer working is dropped from the book.
DropDead(n) ==
    /\ Visits(n) /\ ~Working(n)
    /\ cursor' = n
    /\ UNCHANGED <<book, money, barCount, fills, pc, bar, walked, rebound, remaining, faced>>

\* The symbol a fill is booked under: the bar's, whatever the order's.
BookedUnder(a) == bar.sym

StatusAfterFill_Kept == "ACCEPTED"
StatusAfterFill == "FILLED"

\* A fill: status, cash and position change and on_fill is called.
FillVisited(n) ==
    LET a == acks[n]  px == FillPrice(a)  sym == BookedUnder(a) IN
    /\ Visits(n) /\ Working(n) /\ TradedThrough(a)
    /\ acks' = [acks EXCEPT ![n].status = StatusAfterFill]
    /\ cash' = cash - Signed(a) * px
    /\ positions' = [positions EXCEPT ![sym] = @ + Signed(a)]
    /\ fills' = Append(fills, [n |-> n, sym |-> sym, qty |-> Signed(a), price |-> px,
                               bar |-> barCount])
    /\ cursor' = n
    /\ pc' = "callback"
    /\ UNCHANGED <<openOrders, pending, lastClose, barCount, bar, walked, rebound,
                   remaining, faced>>

\* on_fill returns to the loop.
ReturnFromCallback ==
    /\ pc = "callback"
    /\ pc' = "loop"
    /\ UNCHANGED <<book, money, barCount, fills, loop>>

KeepVisited(n) ==
    /\ Visits(n) /\ Working(n) /\ ~TradedThrough(acks[n])
    /\ remaining' = remaining \cup {n}
    /\ cursor' = n
    /\ UNCHANGED <<book, money, barCount, fills, pc, bar, walked, rebound, faced>>

\* The end of on_bar: _pending becomes what the loop kept, whatever it is now.
EndBar ==
    /\ pc = "loop" /\ ToVisit = {}
    /\ pending' = remaining
    /\ pc' = "idle" /\ bar' = NoBar
    /\ walked' = {} /\ rebound' = FALSE /\ cursor' = 0 /\ remaining' = {} /\ faced' = {}
    /\ UNCHANGED <<acks, openOrders, money, barCount, fills>>

HandlerNext ==
    \/ \E s \in Symbols, side \in Sides, q \in Quantities :
          \/ \E limit \in Limits, id \in ClientIds \cup {0} : Submit(s, side, q, limit, id)
          \/ \E close \in Closes : SubmitPassive(s, side, q, close)
    \/ \E id \in DOMAIN openOrders : Cancel(id)
    \/ \E s \in Symbols, shape \in BarShapes : BeginBar(s, shape)
    \/ \E n \in Numbers : DropDead(n) \/ FillVisited(n) \/ KeepVisited(n)
    \/ ReturnFromCallback
    \/ EndBar

HandlerSpec == HandlerInit /\ [][HandlerNext]_handlerVars

-----------------------------------------------------------------------------
(* Properties *)

FillsOf(n) == {i \in DOMAIN fills : fills[i].n = n}

(***************************************************************************)
(* An order is filled at most once and its status tells whether it was:    *)
(* a working order has no fill, a FILLED one exactly one, although the     *)
(* callback may rearrange the book while the loop walks it and two orders  *)
(* may share a client id (lines 111-144).                                  *)
(***************************************************************************)
FilledExactlyOnce ==
    \A n \in DOMAIN acks :
        /\ Cardinality(FillsOf(n)) <= 1
        /\ acks[n].status = "ACCEPTED" => FillsOf(n) = {}
        /\ acks[n].status = "FILLED" => FillsOf(n) # {}

(***************************************************************************)
(* A cancelled order never fills, not even one the loop has still to visit *)
(* when the callback cancels it (lines 73, 112).                           *)
(***************************************************************************)
CancelIsFinal ==
    \A n \in DOMAIN acks :
        acks[n].status = "CANCELLED" =>
            /\ acks'[n].status = "CANCELLED"
            /\ Len(fills') > Len(fills) => fills'[Len(fills')].n # n

NoFillAfterCancel == [][CancelIsFinal]_handlerVars

(***************************************************************************)
(* Nothing the bar had to face is passed over: when on_bar returns, every  *)
(* order that was pending when it began, or that on_fill appended to the   *)
(* list being walked, and that is still ACCEPTED, was not traded through   *)
(* and is pending for the next bar (lines 111-146).  A cancel in the       *)
(* callback rebinds _pending under the loop, and with a client id used     *)
(* twice drops more entries than the one it cancels (lines 73-74).  An     *)
(* order submitted after such a cancel goes to the new list, which line    *)
(* 146 throws away: nothing is promised for it.                            *)
(***************************************************************************)
NonePassedOver ==
    pc = "loop" /\ pc' = "idle" =>
        \A n \in faced :
            acks[n].status = "ACCEPTED" =>
                /\ n \in pending'
                /\ IF acks[n].side = "BUY" THEN bar.low > acks[n].limit
                   ELSE bar.high < acks[n].limit

NoMissedFill == [][NonePassedOver]_handlerVars
=============================================================================
