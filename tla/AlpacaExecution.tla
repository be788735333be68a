---------------------------- MODULE AlpacaExecution ----------------------------
(***************************************************************************)
(* adapters/execution/alpaca_execution.py: the handler in front of the     *)
(* Alpaca broker, with its latency circuit breaker and its local table of  *)
(* acknowledgements, and the broker as far as the handler can tell.        *)
(*                                                                         *)
(* With keys an order goes to the broker, which may take it and let the    *)
(* answer get lost; without keys the handler is a stub that only fills its *)
(* own table.  The reads (positions, equity, quotes) change nothing and    *)
(* are left out.                                                           *)
(***************************************************************************)
EXTENDS Integers, Sequences, FiniteSets

CONSTANTS ClientIds,    \* client_order_id values
          MaxOrders,    \* bound on the submissions
          None

ASSUME AlpacaAssumption ==
    /\ ClientIds \cap Int = {} /\ None \notin ClientIds \cup Int
    /\ MaxOrders \in Nat

VARIABLES handler,      \* the handler in use, None before there is one
          orders,       \* its _orders: order id -> status of the ack
          submitted,    \* calls of submit_limit_order so far
          broker        \* the broker's orders: whether each still works, and
                        \* the id this handler acknowledged it under, None if
                        \* it did not (history)

alpacaVars == <<handler, orders, submitted, broker>>

Modes == {"backtest", "alpaca"}

AlpacaInit == handler = None /\ orders = <<>> /\ submitted = 0 /\ broker = <<>>

\* The breaker is armed without a live feed in Alpaca paper mode.
Armed(mode, paper, ws) == mode = "alpaca" /\ paper /\ ~ws

\* __init__; available: keys are present and the trading client came up.
NewHandler(mode, paper, ws, available) ==
    [mode |-> mode, paper |-> paper, ws |-> ws, available |-> available,
     breaker |-> Armed(mode, paper, ws)]

\* A handler is built; the broker keeps the orders of an earlier one.
CreateHandler(mode, paper, ws, available) ==
    /\ handler' = NewHandler(mode, paper, ws, available)
    /\ orders' = <<>>
    /\ broker' = [n \in DOMAIN broker |-> [broker[n] EXCEPT !.key = None]]
    /\ UNCHANGED submitted

\* mark_websockets_connected.
Rearmed_Never(h) == h.breaker
Rearmed(h) == (h.mode = "alpaca" /\ h.paper) \/ h.breaker

MarkWebsockets(connected) ==
    /\ handler # None
    /\ handler' = [handler EXCEPT !.ws = connected,
                                  !.breaker = ~connected /\ Rearmed(handler)]
    /\ UNCHANGED <<orders, submitted, broker>>

-----------------------------------------------------------------------------
(* Orders *)

Record(id) ==
    orders' = [i \in DOMAIN orders \cup {id} |-> IF i = id THEN "ACCEPTED" ELSE orders[i]]

\* client_order_id, or a fresh uuid4.
ClientId(id) == IF id \in ClientIds THEN id ELSE submitted + 1

CanSubmit == handler # None /\ submitted < MaxOrders /\ submitted' = submitted + 1

\* submit_limit_order of the stub.
SubmitStub(id) ==
    /\ CanSubmit /\ ~handler.available
    /\ Record(ClientId(id))
    /\ UNCHANGED <<handler, broker>>

\* The id the ack of the broker's n-th order is kept under: the broker's own.
OrderKey_Client(n, id) == ClientId(id)
OrderKey(n, id) == n

\* The broker takes the order and its answer arrives.  Nothing is assumed of
\* what it does about a client_order_id it has seen.
SubmitAccepted(id) ==
    LET n == Len(broker) + 1 IN
    /\ CanSubmit /\ handler.available
    /\ broker' = Append(broker, [working |-> TRUE, key |-> OrderKey(n, id)])
    /\ Record(OrderKey(n, id))
    /\ UNCHANGED handler

\* submit_order raises: the caller gets a REJECTED ack nothing is kept of,
\* whether or not the broker has taken the order.
SubmitRaises ==
    /\ CanSubmit /\ handler.available
    /\ \/ broker' = Append(broker, [working |-> TRUE, key |-> None])
       \/ UNCHANGED broker
    /\ UNCHANGED <<handler, orders>>

\* cancel_order of the stub.
CancelStub(id) ==
    /\ handler # None /\ ~handler.available /\ id \in DOMAIN orders
    /\ orders' = [orders EXCEPT ![id] = "CANCELLED"]
    /\ UNCHANGED <<handler, submitted, broker>>

\* cancel_order at the broker, whether or not its answer arrives: the local
\* ack keeps its status.
CancelLive(n) ==
    /\ handler # None /\ handler.available
    /\ n \in DOMAIN orders \cap DOMAIN broker /\ broker[n].working
    /\ broker' = [broker EXCEPT ![n].working = FALSE]
    /\ UNCHANGED <<handler, orders, submitted>>

\* The broker fills an order, or lets a DAY order expire.
BrokerCloses(n) ==
    /\ broker[n].working
    /\ broker' = [broker EXCEPT ![n].working = FALSE]
    /\ UNCHANGED <<handler, orders, submitted>>

HandlerCall ==
    \/ \E connected \in BOOLEAN : MarkWebsockets(connected)
    \/ \E id \in ClientIds \cup {None} : SubmitStub(id) \/ SubmitAccepted(id)
    \/ SubmitRaises
    \/ \E id \in DOMAIN orders : CancelStub(id) \/ CancelLive(id)

BrokerStep == \E n \in DOMAIN broker : BrokerCloses(n)

\* get_open_orders.
OpenOrders == {id \in DOMAIN orders : orders[id] = "ACCEPTED"}

-----------------------------------------------------------------------------
(* Properties *)

(***************************************************************************)
(* "Circuit breaker tripped iff: alpaca live mode + paper + no live WS     *)
(* feed" (lines 101-103), however often the feed comes and goes after      *)
(* construction.                                                           *)
(***************************************************************************)
BreakerFollowsFeed ==
    handler # None => (handler.breaker <=> Armed(handler.mode, handler.paper, handler.ws))

(***************************************************************************)
(* An order the handler has acknowledged is listed by get_open_orders for  *)
(* as long as it works at the broker, under an id of its own, also when    *)
(* two requests share a client_order_id.                                   *)
(***************************************************************************)
AcceptedIsListed ==
    \A n \in DOMAIN broker :
        broker[n].working /\ broker[n].key # None =>
            /\ broker[n].key \in OpenOrders
            /\ \A m \in DOMAIN broker : broker[m].key = broker[n].key => m = n
=============================================================================
