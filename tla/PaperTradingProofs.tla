-------------------------- MODULE PaperTradingProofs --------------------------
(***************************************************************************)
(* Theorems about PaperTrading: the breaker, the order table, the money of *)
(* a dry run and the cap, for every settings dict, broker, policy, Kelly   *)
(* multipliers and bar.                                                    *)
(***************************************************************************)
EXTENDS PaperTrading, FiniteSetTheorems, WellFoundedInduction, TLAPS

HandlerRecord == [mode : Modes, paper : BOOLEAN, ws : BOOLEAN, available : BOOLEAN,
                  breaker : BOOLEAN]

\* What the breaker depends on is typed.
HandlerInv ==
    /\ settings \in SettingsDict
    /\ handler # None => handler \in HandlerRecord

BrokerOrder == [working : BOOLEAN, key : Nat \cup {None}]

\* The broker's orders, each acknowledged under its own number or not at all.
\* Only a handler that reaches the broker acknowledges one, and it never
\* changes the status it keeps.
AckInv ==
    /\ broker \in Seq(BrokerOrder)
    /\ \A n \in DOMAIN broker :
          broker[n].key # None =>
              /\ broker[n].key = n
              /\ handler.available
              /\ n \in DOMAIN orders /\ orders[n] = "ACCEPTED"

-----------------------------------------------------------------------------
(* Steps of the loop *)

(***************************************************************************)
(* Every step is a call of the handler, a step of the broker, or leaves    *)
(* both alone: the loop never touches the caller's handler.                *)
(***************************************************************************)
LEMMA StepOfHandler ==
    ASSUME [Next]_vars
    PROVE  \/ \E available \in BOOLEAN :
                  CreateHandler(settings.mode, settings.paper, settings.ws, available)
           \/ HandlerCall
           \/ BrokerStep
           \/ UNCHANGED alpacaVars
<1>1. CASE \E available \in BOOLEAN : UserCreates(available)
  BY <1>1 DEF UserCreates
<1>2. CASE UserCalls
  BY <1>2 DEF UserCalls
<1>3. CASE BrokerActs
  BY <1>3 DEF BrokerActs
<1>4. CASE \E dry \in BOOLEAN : StartRun(dry)
  BY <1>4 DEF StartRun
<1>5. CASE LoopStep
  BY <1>5 DEF LoopStep, Gate, Kelly, CapRound, EndCap, Rebalance, AlpacaRunRaises,
              WidthMismatch, RunRaises, EndRun
<1>6. CASE UNCHANGED vars
  BY <1>6 DEF vars, alpacaVars
<1> QED
  BY <1>1, <1>2, <1>3, <1>4, <1>5, <1>6 DEF Next

-----------------------------------------------------------------------------
(* The circuit breaker *)

LEMMA HandlerInit == Init => HandlerInv
BY PaperAssumption DEF Init, AlpacaInit, HandlerInv

LEMMA SettingsTyped ==
    ASSUME HandlerInv, [Next]_vars
    PROVE  settings' \in SettingsDict
<1>1. ASSUME NEW dry \in BOOLEAN, StartRun(dry)
      PROVE  settings' \in SettingsDict
  <2>1. ModeOf(dry) \in Modes
    BY DEF ModeOf, Modes, HandlerInv, SettingsDict
  <2> QED
    BY <1>1, <2>1 DEF StartRun, HandlerInv, SettingsDict
<1>2. CASE UNCHANGED settings
  BY <1>2 DEF HandlerInv
<1> QED
  BY <1>1, <1>2 DEF Next, UserCreates, UserCalls, BrokerActs, loopVars, LoopStep, Gate, Kelly,
     CapRound, EndCap, Rebalance, AlpacaRunRaises, WidthMismatch, RunRaises, EndRun, vars

(***************************************************************************)
(* A handler is armed by its constructor alone, and rearmed or disarmed by *)
(* the feed alone; both leave it as its mode and feed ask.                 *)
(***************************************************************************)
LEMMA HandlerNext ==
    ASSUME HandlerInv, BreakerFollowsFeed, [Next]_vars
    PROVE  HandlerInv' /\ BreakerFollowsFeed'
<1>1. ASSUME NEW available \in BOOLEAN,
             CreateHandler(settings.mode, settings.paper, settings.ws, available)
      PROVE  /\ handler' \in HandlerRecord
             /\ handler'.breaker <=> Armed(handler'.mode, handler'.paper, handler'.ws)
  <2>1. settings.mode \in Modes /\ settings.paper \in BOOLEAN /\ settings.ws \in BOOLEAN
    BY DEF HandlerInv, SettingsDict
  <2> QED
    BY <1>1, <2>1 DEF CreateHandler, NewHandler, HandlerRecord, Armed
<1>2. ASSUME NEW connected \in BOOLEAN, MarkWebsockets(connected)
      PROVE  /\ handler' \in HandlerRecord
             /\ handler'.breaker <=> Armed(handler'.mode, handler'.paper, handler'.ws)
  <2>1. /\ handler \in HandlerRecord
        /\ handler' = [handler EXCEPT !.ws = connected,
                                      !.breaker = ~connected /\ Rearmed(handler)]
    BY <1>2 DEF MarkWebsockets, HandlerInv
  <2>2. handler.breaker <=> Armed(handler.mode, handler.paper, handler.ws)
    BY <1>2 DEF MarkWebsockets, BreakerFollowsFeed
  <2>3. (~connected /\ Rearmed(handler)) \in BOOLEAN
    OBVIOUS
  <2> QED
    BY <2>1, <2>2, <2>3 DEF HandlerRecord, Rearmed, Armed
<1>3. CASE UNCHANGED handler
  BY <1>3, SettingsTyped DEF HandlerInv, BreakerFollowsFeed
<1>4. CASE HandlerCall
  BY <1>2, <1>3, <1>4, SettingsTyped DEF HandlerCall, SubmitStub, SubmitAccepted,
     SubmitRaises, CancelStub, CancelLive, HandlerInv, BreakerFollowsFeed
<1>5. CASE BrokerStep
  BY <1>3, <1>5 DEF BrokerStep, BrokerCloses
<1>6. CASE \E available \in BOOLEAN :
               CreateHandler(settings.mode, settings.paper, settings.ws, available)
  BY <1>1, <1>6, SettingsTyped DEF HandlerInv, BreakerFollowsFeed
<1> QED
  BY <1>3, <1>4, <1>5, <1>6, StepOfHandler DEF alpacaVars

LEMMA HandlerInvariant == Spec => [](HandlerInv /\ BreakerFollowsFeed)
<1>1. Init => BreakerFollowsFeed
  BY DEF Init, AlpacaInit, BreakerFollowsFeed
<1>2. HandlerInv /\ BreakerFollowsFeed /\ [Next]_vars => HandlerInv' /\ BreakerFollowsFeed'
  BY HandlerNext
<1> QED
  BY <1>1, <1>2, HandlerInit, PTL DEF Spec

(***************************************************************************)
(* The breaker is armed exactly in Alpaca paper mode without a live feed,  *)
(* after any number of reconnects (lines 104-108 and 139-148).             *)
(***************************************************************************)
THEOREM BreakerTracksFeed == Spec => []BreakerFollowsFeed
BY HandlerInvariant, PTL

-----------------------------------------------------------------------------
(* The order table *)

LEMMA AckInit == Init => AckInv
BY DEF Init, AlpacaInit, AckInv

(***************************************************************************)
(* An order of the broker stays one when it is closed or forgotten.        *)
(***************************************************************************)
LEMMA OrderTyped ==
    ASSUME NEW o \in BrokerOrder
    PROVE  /\ [o EXCEPT !.key = None] \in BrokerOrder
           /\ [o EXCEPT !.key = None].key = None
           /\ [o EXCEPT !.working = FALSE] \in BrokerOrder
           /\ [o EXCEPT !.working = FALSE].key = o.key
BY DEF BrokerOrder

(***************************************************************************)
(* A new handler knows none of the orders of an earlier one.               *)
(***************************************************************************)
LEMMA CreatePreserves ==
    ASSUME AckInv, NEW mode, NEW paper, NEW ws, NEW available,
           CreateHandler(mode, paper, ws, available)
    PROVE  AckInv'
<1>1. broker' = [n \in 1 .. Len(broker) |-> [broker[n] EXCEPT !.key = None]]
  BY DEF CreateHandler, AckInv
<1>2. \A n \in 1 .. Len(broker) :
          /\ [broker[n] EXCEPT !.key = None] \in BrokerOrder
          /\ [broker[n] EXCEPT !.key = None].key = None
  <2>1. \A n \in 1 .. Len(broker) : broker[n] \in BrokerOrder
    BY DEF AckInv
  <2> QED
    BY <2>1, OrderTyped
<1>3. broker' \in Seq(BrokerOrder)
  BY <1>1, <1>2 DEF AckInv
<1> QED
  BY <1>1, <1>2, <1>3 DEF AckInv

(***************************************************************************)
(* Closing an order, by cancel or at the broker, keeps its key.            *)
(***************************************************************************)
LEMMA ClosePreserves ==
    ASSUME AckInv, NEW n \in DOMAIN broker,
           broker' = [broker EXCEPT ![n].working = FALSE],
           UNCHANGED <<handler, orders>>
    PROVE  AckInv'
<1> DEFINE closed == [broker[n] EXCEPT !.working = FALSE]
<1>1. closed \in BrokerOrder /\ closed.key = broker[n].key
  <2>1. broker[n] \in BrokerOrder
    BY DEF AckInv
  <2> QED
    BY <2>1, OrderTyped
<1>2. broker' = [broker EXCEPT ![n] = closed]
  OBVIOUS
<1> HIDE DEF closed
<1>3. broker' \in Seq(BrokerOrder)
  <2>1. broker \in [1 .. Len(broker) -> BrokerOrder] /\ Len(broker) \in Nat
    BY DEF AckInv
  <2>2. broker' \in [1 .. Len(broker) -> BrokerOrder]
    BY <1>1, <1>2, <2>1
  <2> QED
    BY <2>1, <2>2
<1>4. /\ DOMAIN broker' = DOMAIN broker
      /\ \A m \in DOMAIN broker : broker'[m].key = broker[m].key
  BY <1>1, <1>2 DEF AckInv
<1> QED
  BY <1>3, <1>4 DEF AckInv

(***************************************************************************)
(* Recording an ack as ACCEPTED never loses one.                           *)
(***************************************************************************)
LEMMA RecordKeeps ==
    ASSUME NEW id, Record(id)
    PROVE  /\ id \in DOMAIN orders' /\ orders'[id] = "ACCEPTED"
           /\ \A i \in DOMAIN orders : orders[i] = "ACCEPTED" =>
                  i \in DOMAIN orders' /\ orders'[i] = "ACCEPTED"
BY DEF Record

(***************************************************************************)
(* An order the broker takes is its next one, whatever becomes of the      *)
(* answer.                                                                 *)
(***************************************************************************)
LEMMA BrokerTakes ==
    ASSUME AckInv, NEW o \in BrokerOrder, broker' = Append(broker, o)
    PROVE  /\ broker' \in Seq(BrokerOrder)
           /\ Len(broker) + 1 \in Nat
           /\ DOMAIN broker' = DOMAIN broker \cup {Len(broker) + 1}
           /\ broker'[Len(broker) + 1] = o
           /\ \A m \in DOMAIN broker : broker'[m] = broker[m]
BY DEF AckInv

LEMMA CallPreserves ==
    ASSUME HandlerInv, AckInv, HandlerCall
    PROVE  AckInv'
<1>1. ASSUME NEW connected \in BOOLEAN, MarkWebsockets(connected)
      PROVE  AckInv'
  <2>1. /\ handler \in HandlerRecord /\ UNCHANGED <<orders, broker>>
        /\ handler' = [handler EXCEPT !.ws = connected,
                                      !.breaker = ~connected /\ Rearmed(handler)]
    BY <1>1 DEF MarkWebsockets, HandlerInv
  <2>2. handler'.available = handler.available
    BY <2>1 DEF HandlerRecord
  <2> QED
    BY <2>1, <2>2 DEF AckInv
<1>2. ASSUME NEW id \in ClientIds \cup {None}, SubmitStub(id)
      PROVE  AckInv'
  BY <1>2, RecordKeeps DEF SubmitStub, AckInv
<1>3. ASSUME NEW id \in ClientIds \cup {None}, SubmitAccepted(id)
      PROVE  AckInv'
  <2> DEFINE n == Len(broker) + 1
             o == [working |-> TRUE, key |-> n]
  <2>1. /\ broker' = Append(broker, o)
        /\ Record(n) /\ handler.available /\ UNCHANGED handler
    BY <1>3 DEF SubmitAccepted, OrderKey
  <2>2. o \in BrokerOrder /\ o.key = n
    BY DEF BrokerOrder, AckInv
  <2> HIDE DEF o
  <2>3. /\ broker' \in Seq(BrokerOrder)
        /\ DOMAIN broker' = DOMAIN broker \cup {n}
        /\ broker'[n] = o
        /\ \A m \in DOMAIN broker : broker'[m] = broker[m]
    BY <2>1, <2>2, BrokerTakes
  <2>4. /\ n \in DOMAIN orders' /\ orders'[n] = "ACCEPTED"
        /\ \A i \in DOMAIN orders : orders[i] = "ACCEPTED" =>
               i \in DOMAIN orders' /\ orders'[i] = "ACCEPTED"
    BY <2>1, RecordKeeps
  <2> HIDE DEF n
  <2> QED
    BY <2>1, <2>2, <2>3, <2>4 DEF AckInv
<1>4. CASE SubmitRaises
  <2> DEFINE o == [working |-> TRUE, key |-> None]
  <2>1. CASE broker' = Append(broker, o)
    <3>1. o \in BrokerOrder /\ o.key = None
      BY DEF BrokerOrder
    <3> HIDE DEF o
    <3> DEFINE n == Len(broker) + 1
    <3>2. /\ broker' \in Seq(BrokerOrder)
          /\ DOMAIN broker' = DOMAIN broker \cup {n}
          /\ broker'[n] = o
          /\ \A m \in DOMAIN broker : broker'[m] = broker[m]
      BY <2>1, <3>1, BrokerTakes
    <3> HIDE DEF n
    <3> QED
      BY <1>4, <3>1, <3>2 DEF AckInv, SubmitRaises
  <2>2. CASE UNCHANGED broker
    BY <1>4, <2>2 DEF AckInv, SubmitRaises
  <2> QED
    BY <1>4, <2>1, <2>2 DEF SubmitRaises
<1>5. ASSUME NEW id \in DOMAIN orders, CancelStub(id)
      PROVE  AckInv'
  BY <1>5 DEF CancelStub, AckInv
<1>6. ASSUME NEW id \in DOMAIN orders, CancelLive(id)
      PROVE  AckInv'
  BY <1>6, ClosePreserves DEF CancelLive
<1> QED
  BY <1>1, <1>2, <1>3, <1>4, <1>5, <1>6 DEF HandlerCall

LEMMA AckNext == HandlerInv /\ AckInv /\ [Next]_vars => AckInv'
<1> SUFFICES ASSUME HandlerInv, AckInv, [Next]_vars
             PROVE  AckInv'
  OBVIOUS
<1>1. CASE BrokerStep
  BY <1>1, ClosePreserves DEF BrokerStep, BrokerCloses
<1>2. CASE UNCHANGED alpacaVars
  BY <1>2 DEF alpacaVars, AckInv
<1> QED
  BY <1>1, <1>2, CreatePreserves, CallPreserves, StepOfHandler

(***************************************************************************)
(* Every acknowledged order that works at the broker is listed as open,    *)
(* under an id no other order has (lines 237-246 and 273-277).             *)
(***************************************************************************)
THEOREM AcknowledgedIsListed == Spec => []AcceptedIsListed
<1>1. AckInv => AcceptedIsListed
  BY DEF AckInv, AcceptedIsListed, OpenOrders
<1>2. Spec => []AckInv
  BY AckInit, AckNext, HandlerInvariant, PTL DEF Spec
<1> QED
  BY <1>1, <1>2, PTL

-----------------------------------------------------------------------------
(* The dry run *)

(***************************************************************************)
(* The passive BUY never pays more than the close it is sized with.        *)
(***************************************************************************)
LEMMA PriceAtMostClose ==
    ASSUME NEW close \in Nat
    PROVE  /\ Min({BuyLimit(close), close}) \in Int
           /\ Min({BuyLimit(close), close}) <= close
<1> DEFINE prices == {BuyLimit(close), close}
<1>1. BuyLimit(close) \in Int /\ BuyLimit(close) <= close
  BY PaperAssumption DEF BuyLimit
<1>2. \E p \in prices : \A q \in prices : p <= q
  BY <1>1
<1>3. Min(prices) \in prices /\ \A q \in prices : Min(prices) <= q
  BY <1>2 DEF Min
<1> QED
  BY <1>1, <1>3

(***************************************************************************)
(* Money: a gross exposure of one at most buys what the equity pays for.   *)
(***************************************************************************)
LEMMA NotionalIsPaid ==
    ASSUME NEW gross \in {0, 2}, NEW close \in Nat, NEW price \in Int, price <= close
    PROVE  (gross * Equity) * price <= 2 * Equity * close
<1>1. Equity \in Nat
  BY PaperAssumption
<1>2. Equity * price <= Equity * close
  <2> DEFINE slack == close - price
  <2>1. slack \in Nat
    OBVIOUS
  <2>2. Equity * slack >= 0
    BY <1>1, <2>1
  <2>3. Equity * slack = Equity * close - Equity * price
    BY <1>1
  <2> QED
    BY <1>1, <2>2, <2>3
<1>3. 0 <= Equity * close
  BY <1>1
<1> QED
  BY <1>1, <1>2, <1>3

LEMMA FundedNext == DryRunFunded /\ [Next]_vars => DryRunFunded'
<1> SUFFICES ASSUME DryRunFunded, [Next]_vars
             PROVE  DryRunFunded'
  OBVIOUS
<1>1. CASE UNCHANGED report
  BY <1>1 DEF DryRunFunded
<1>2. CASE Rebalance
  <2> DEFINE notional == TwiceGross(w) * Equity
             price(bar) == Min({BuyLimit(bar.close), bar.close})
  <2>1. PICK bar \in Bars :
            \/ report'.cash = 2 * Equity * bar.close
            \/ report'.cash = 2 * Equity * bar.close - notional * price(bar)
    <3> DEFINE submits(bar) == notional >= 2 * bar.close
               fills(bar) == submits(bar) /\ bar.low <= BuyLimit(bar.close)
               spent(bar) == IF fills(bar) THEN notional * price(bar) ELSE 0
    <3>1. PICK bar \in Bars :
              report' = [orders |-> submits(bar), fills |-> fills(bar),
                         cash |-> 2 * Equity * bar.close - spent(bar)]
      BY <1>2 DEF Rebalance
    <3>2. report'.cash = 2 * Equity * bar.close - spent(bar)
      BY <3>1
    <3>3. 2 * Equity * bar.close - 0 = 2 * Equity * bar.close
      BY PaperAssumption
    <3> QED
      BY <3>2, <3>3
  <2>2. bar.close \in Nat /\ Equity \in Nat
    BY PaperAssumption
  <2>3. TwiceGross(w) \in {0, 2}
    BY DEF TwiceGross
  <2>4. notional * price(bar) <= 2 * Equity * bar.close
    BY <2>2, <2>3, PriceAtMostClose, NotionalIsPaid
  <2>5. 2 * Equity * bar.close >= 0 /\ notional * price(bar) \in Int
    BY <2>2, <2>3, PriceAtMostClose
  <2> QED
    BY <2>1, <2>2, <2>4, <2>5 DEF DryRunFunded
<1> QED
  BY <1>1, <1>2 DEF Next, UserCreates, UserCalls, BrokerActs, loopVars, StartRun, LoopStep,
     Gate, Kelly, CapRound, EndCap, AlpacaRunRaises, WidthMismatch, RunRaises, vars

(***************************************************************************)
(* A dry run never spends more than initial_cash, at any last bar and      *)
(* spread (paper_trading_loop.py:103-150).                                 *)
(***************************************************************************)
THEOREM DryRunNeverOverspends == Spec => []DryRunFunded
<1>1. Init => DryRunFunded
  BY DEF Init, DryRunFunded
<1> QED
  BY <1>1, FundedNext, PTL DEF Spec

-----------------------------------------------------------------------------
(* Numbers *)

\* A natural is its quotient times the divisor plus a smaller remainder.
LEMMA Euclid ==
    ASSUME NEW g \in Nat \ {0}, NEW n \in Nat
    PROVE  n = (n \div g) * g + (n % g) /\ n % g \in 0 .. g - 1 /\ n \div g \in Nat
OBVIOUS

\* A positive factor cancels from an equation and from an inequality.
LEMMA Cancel ==
    ASSUME NEW g \in Nat \ {0}, NEW a \in Int, NEW b \in Int
    PROVE  /\ g * a = g * b => a = b
           /\ g * a <= g * b => a <= b
<1>1. ASSUME a < b  PROVE g * a < g * b
  <2>1. b - a >= 1 /\ b - a \in Nat
    BY <1>1
  <2>2. g * (b - a) >= g
    BY <2>1
  <2>3. g * (b - a) = g * b - g * a /\ g * a \in Int /\ g * b \in Int
    OBVIOUS
  <2> QED  BY <2>2, <2>3
<1>2. ASSUME b < a  PROVE g * b < g * a
  <2>1. a - b >= 1 /\ a - b \in Nat
    BY <1>2
  <2>2. g * (a - b) >= g
    BY <2>1
  <2>3. g * (a - b) = g * a - g * b /\ g * a \in Int /\ g * b \in Int
    OBVIOUS
  <2> QED  BY <2>2, <2>3
<1>3. g * a \in Int /\ g * b \in Int
  OBVIOUS
<1> QED  BY <1>1, <1>2, <1>3

(***************************************************************************)
(* What is left of a division is the only way to write it.                 *)
(***************************************************************************)
LEMMA OneWayToDivide ==
    ASSUME NEW g \in Nat \ {0}, NEW q \in Nat, NEW r \in 0 .. g - 1,
           NEW p \in Nat, NEW s \in 0 .. g - 1, q * g + r = p * g + s
    PROVE  q = p /\ r = s
<1>1. ASSUME NEW a \in Nat, NEW b \in Nat, a < b  PROVE a * g + g <= b * g
  <2>1. b - a - 1 \in Nat
    BY <1>1
  <2>2. (b - a - 1) * g >= 0
    BY <2>1
  <2>3. (b - a - 1) * g = b * g - a * g - g /\ a * g \in Int /\ b * g \in Int
    OBVIOUS
  <2> QED  BY <2>2, <2>3
<1>2. q * g \in Int /\ p * g \in Int
  OBVIOUS
<1>3. ~(q < p)
  BY <1>1, <1>2
<1>4. ~(p < q)
  BY <1>1, <1>2
<1>5. q = p
  BY <1>3, <1>4
<1> QED  BY <1>2, <1>5

\* A set of naturals that is not empty has a least member.
LEMMA Smallest ==
    ASSUME NEW T \in SUBSET Nat, T # {}
    PROVE  \E x \in T : \A y \in T : x <= y
<1>1. PICK x \in T : \A y \in T : ~(<<y, x>> \in OpToRel(<, Nat))
  BY WFMin, NatLessThanWellFounded
<1>2. \A y \in T : ~(y < x)
  BY <1>1 DEF OpToRel
<1> QED  BY <1>2

\* Max is the greatest member of a bounded set.
LEMMA LargestExists ==
    ASSUME NEW n \in Nat, NEW S \in SUBSET (0 .. n), S # {}
    PROVE  Max(S) \in S /\ \A y \in S : y <= Max(S)
<1> DEFINE T == {n - y : y \in S}
<1>1. T \in SUBSET Nat /\ T # {}
  OBVIOUS
<1>2. PICK x \in T : \A y \in T : x <= y
  BY <1>1, Smallest
<1>3. PICK m \in S : x = n - m
  OBVIOUS
<1>4. \A y \in S : y <= m
  BY <1>2, <1>3
<1> HIDE DEF T
<1>5. \E z \in S : \A y \in S : z >= y
  BY <1>4
<1>6. Max(S) \in S /\ \A y \in S : Max(S) >= y
  BY <1>5 DEF Max
<1> QED  BY <1>6

-----------------------------------------------------------------------------
(* Shares *)

\* The shares of some legs as pairs.
LEMMA SharesAre ==
    ASSUME NEW legs, NEW v, \A i \in legs : v[i] \in Nat
    PROVE  Shares(v, legs) = {p \in legs \X Nat : p[2] \in 1 .. v[p[1]]}
BY DEF Shares

\* Finitely many legs have finitely many shares.
LEMMA SharesFinite ==
    ASSUME NEW legs, IsFiniteSet(legs), NEW v, \A i \in legs : v[i] \in Nat
    PROVE  IsFiniteSet(Shares(v, legs)) /\ Cardinality(Shares(v, legs)) \in Nat
<1> DEFINE f == [i \in legs |-> {i} \X (1 .. v[i])]
           parts == {{i} \X (1 .. v[i]) : i \in legs}
<1>1. f \in Surjection(legs, parts)
  BY DEF Surjection
<1>2. IsFiniteSet(parts)
  BY <1>1, FS_Surjection
<1>3. \A i \in legs : IsFiniteSet({i} \X (1 .. v[i]))
  <2> TAKE i \in legs
  <2>1. IsFiniteSet({i})
    BY FS_Singleton
  <2>2. v[i] \in Nat /\ IsFiniteSet(1 .. v[i])
    BY FS_Interval
  <2> QED  BY <2>1, <2>2, FS_Product
<1>4. \A T \in parts : IsFiniteSet(T)
  BY <1>3
<1>5. IsFiniteSet(UNION parts)
  BY <1>2, <1>4, FS_UNION
<1> QED  BY <1>5, FS_CardinalityType DEF Shares

\* The shares of two groups of legs add up.
LEMMA SharesSplit ==
    ASSUME NEW A, NEW B, IsFiniteSet(A), IsFiniteSet(B), A \cap B = {},
           NEW v, \A i \in A \cup B : v[i] \in Nat
    PROVE  Cardinality(Shares(v, A \cup B)) = Cardinality(Shares(v, A)) + Cardinality(Shares(v, B))
<1>1. Shares(v, A \cup B) = Shares(v, A) \cup Shares(v, B)
  BY DEF Shares
<1>2. Shares(v, A) \cap Shares(v, B) = {}
  BY SharesAre
<1>3. IsFiniteSet(Shares(v, A)) /\ IsFiniteSet(Shares(v, B))
  BY SharesFinite
<1>4. Cardinality(Shares(v, A)) \in Nat /\ Cardinality(Shares(v, B)) \in Nat
  BY SharesFinite
<1> QED  BY <1>1, <1>2, <1>3, <1>4, FS_Union, FS_EmptySet

\* Legs of equal weight: the shares are a product.
LEMMA SharesUniform ==
    ASSUME NEW legs, IsFiniteSet(legs), NEW n \in Nat, NEW v, \A i \in legs : v[i] = n
    PROVE  Cardinality(Shares(v, legs)) = Cardinality(legs) * n
<1>1. Shares(v, legs) = legs \X (1 .. n)
  BY DEF Shares
<1>2. IsFiniteSet(1 .. n) /\ Cardinality(1 .. n) = n
  BY FS_Interval
<1> QED  BY <1>1, <1>2, FS_Product

\* Legs of at least some weight hold at least that product.
LEMMA SharesAtLeast ==
    ASSUME NEW legs, IsFiniteSet(legs), NEW A \in SUBSET legs, NEW n \in Nat,
           NEW v, \A i \in legs : v[i] \in Nat, \A i \in A : n <= v[i]
    PROVE  Cardinality(A) * n <= Cardinality(Shares(v, legs))
<1>1. A \X (1 .. n) \in SUBSET Shares(v, legs)
  BY DEF Shares
<1>2. IsFiniteSet(A) /\ IsFiniteSet(1 .. n) /\ Cardinality(1 .. n) = n
  BY FS_Interval, FS_Subset
<1>3. Cardinality(A \X (1 .. n)) = Cardinality(A) * n
  BY <1>2, FS_Product
<1>4. IsFiniteSet(Shares(v, legs))
  BY SharesFinite
<1> QED  BY <1>1, <1>3, <1>4, FS_Subset

\* Multiplying by a natural keeps an inequality.
LEMMA Times ==
    ASSUME NEW g \in Nat, NEW a \in Int, NEW b \in Int, a <= b
    PROVE  a * g <= b * g /\ a * g \in Int /\ b * g \in Int
<1>1. (b - a) * g >= 0
  OBVIOUS
<1>2. (b - a) * g = b * g - a * g /\ a * g \in Int /\ b * g \in Int
  OBVIOUS
<1> QED  BY <1>1, <1>2

(***************************************************************************)
(* Every share becomes g of them.                                          *)
(***************************************************************************)
LEMMA SharesScaled ==
    ASSUME NEW legs, IsFiniteSet(legs), NEW g \in Nat \ {0}, NEW u, NEW v,
           \A i \in legs : u[i] \in Nat /\ v[i] = g * u[i]
    PROVE  Cardinality(Shares(v, legs)) = g * Cardinality(Shares(u, legs))
<1> DEFINE S == Shares(u, legs) \X (0 .. g - 1)
           T == Shares(v, legs)
           num(k, r) == (k - 1) * g + r + 1
           f == [p \in S |-> <<p[1][1], num(p[1][2], p[2])>>]
<1>1. \A i \in legs : u[i] \in Nat /\ v[i] \in Nat
  OBVIOUS
<1>2. Shares(u, legs) = {p \in legs \X Nat : p[2] \in 1 .. u[p[1]]}
  BY <1>1, SharesAre
<1>3. T = {p \in legs \X Nat : p[2] \in 1 .. v[p[1]]}
  BY <1>1, SharesAre
<1>4. ASSUME NEW i \in legs, NEW k \in 1 .. u[i], NEW r \in 0 .. g - 1
      PROVE  num(k, r) \in 1 .. v[i]
  <2>1. k - 1 \in Nat /\ u[i] - 1 \in Int /\ k - 1 <= u[i] - 1
    BY <1>1
  <2>2. 0 * g <= (k - 1) * g /\ (k - 1) * g <= (u[i] - 1) * g
    BY <2>1, Times
  <2>3. (u[i] - 1) * g = v[i] - g /\ (k - 1) * g \in Int /\ v[i] \in Nat
    BY <2>1, <1>1
  <2> QED  BY <2>2, <2>3
<1>5. ASSUME NEW i \in legs, NEW n \in 1 .. v[i]
      PROVE  \E k \in 1 .. u[i], r \in 0 .. g - 1 : n = num(k, r)
  <2>1. n - 1 \in Nat /\ n - 1 < g * u[i] /\ u[i] \in Nat
    BY <1>1
  <2>2. PICK q \in Nat, r \in 0 .. g - 1 : n - 1 = q * g + r
    <3>1. n - 1 = ((n - 1) \div g) * g + ((n - 1) % g)
      BY <2>1, Euclid
    <3>2. (n - 1) \div g \in Nat /\ (n - 1) % g \in 0 .. g - 1
      BY <2>1, Euclid
    <3> QED  BY <3>1, <3>2
  <2>3. q < u[i]
    <3>1. SUFFICES ASSUME u[i] <= q  PROVE FALSE
      BY <2>1
    <3>2. u[i] * g <= q * g /\ q * g \in Int
      BY <2>1, <3>1, Times
    <3>3. u[i] * g = g * u[i] /\ g * u[i] \in Int
      BY <2>1
    <3> QED  BY <2>1, <2>2, <3>2, <3>3
  <2>4. q + 1 \in 1 .. u[i] /\ (q + 1) - 1 = q
    BY <2>1, <2>3
  <2>5. n = q * g + r + 1 /\ q * g \in Int
    BY <2>2
  <2> QED  BY <2>4, <2>5
<1>6. ASSUME NEW k \in Nat \ {0}, NEW r \in 0 .. g - 1, NEW l \in Nat \ {0},
             NEW s \in 0 .. g - 1, num(k, r) = num(l, s)
      PROVE  k = l /\ r = s
  <2>1. k - 1 \in Nat /\ l - 1 \in Nat /\ (k - 1) * g \in Int /\ (l - 1) * g \in Int
    OBVIOUS
  <2>2. (k - 1) * g + r = (l - 1) * g + s
    BY <1>6, <2>1
  <2> QED  BY <2>1, <2>2, OneWayToDivide
<1> HIDE DEF num
<1>7. f \in [S -> T]
  BY <1>2, <1>3, <1>4
<1>8. \A p, q \in S : f[p] = f[q] => p = q
  <2> TAKE p, q \in S
  <2> HAVE f[p] = f[q]
  <2>1. /\ p[1][2] \in Nat \ {0} /\ q[1][2] \in Nat \ {0}
        /\ p[2] \in 0 .. g - 1 /\ q[2] \in 0 .. g - 1
        /\ p = <<<<p[1][1], p[1][2]>>, p[2]>> /\ q = <<<<q[1][1], q[1][2]>>, q[2]>>
    BY <1>1, <1>2
  <2>2. p[1][1] = q[1][1] /\ num(p[1][2], p[2]) = num(q[1][2], q[2])
    OBVIOUS
  <2>3. p[1][2] = q[1][2] /\ p[2] = q[2]
    BY <1>6, <2>1, <2>2
  <2> QED  BY <2>1, <2>2, <2>3
<1>9. \A t \in T : \E p \in S : f[p] = t
  <2> TAKE t \in T
  <2>1. t[1] \in legs /\ t[2] \in 1 .. v[t[1]] /\ t = <<t[1], t[2]>>
    BY <1>3
  <2>2. PICK k \in 1 .. u[t[1]], r \in 0 .. g - 1 : t[2] = num(k, r)
    BY <1>5, <2>1
  <2>3. <<<<t[1], k>>, r>> \in S
    BY <1>1, <1>2, <2>1
  <2> QED  BY <2>1, <2>2, <2>3
<1>10. f \in Bijection(S, T)
  BY <1>7, <1>8, <1>9 DEF Bijection, Injection, Surjection, IsInjective
<1>11. IsFiniteSet(Shares(u, legs)) /\ Cardinality(Shares(u, legs)) \in Nat
  BY <1>1, SharesFinite
<1>12. IsFiniteSet(0 .. g - 1) /\ Cardinality(0 .. g - 1) = g
  BY FS_Interval
<1>13. IsFiniteSet(S) /\ Cardinality(S) = Cardinality(Shares(u, legs)) * g
  BY <1>11, <1>12, FS_Product
<1> HIDE DEF S, T, f
<1>14. Cardinality(T) = Cardinality(S)
  BY <1>10, <1>13, FS_Bijection DEF ExistsBijection
<1> QED  BY <1>11, <1>13, <1>14 DEF T

\* There are NLegs legs, one at least.
LEMMA LegsFinite == IsFiniteSet(Legs) /\ Cardinality(Legs) = NLegs /\ Legs # {}
<1>1. NLegs \in Nat /\ NLegs > 2
  BY PaperAssumption
<1>2. IsFiniteSet(1 .. NLegs) /\ Cardinality(1 .. NLegs) = NLegs
  BY <1>1, FS_Interval
<1>3. 1 \in 1 .. NLegs
  BY <1>1
<1> QED  BY <1>2, <1>3 DEF Legs

\* A total is a natural, and no leg holds more.
LEMMA TotalIs ==
    ASSUME NEW v \in [Legs -> Nat]
    PROVE  /\ Total(v) = Cardinality(Shares(v, Legs)) /\ Total(v) \in Nat
           /\ \A i \in Legs : v[i] <= Total(v)
<1>1. Total(v) = Cardinality(Shares(v, Legs))
  BY DEF Total
<1>2. \A i \in Legs : v[i] \in Nat
  OBVIOUS
<1>3. Total(v) \in Nat
  BY <1>1, <1>2, LegsFinite, SharesFinite
<1>4. ASSUME NEW i \in Legs  PROVE v[i] <= Total(v)
  <2>1. Cardinality({i}) = 1 /\ {i} \in SUBSET Legs
    BY FS_Singleton
  <2>2. \A j \in {i} : v[i] <= v[j]
    BY <1>2
  <2>3. v[i] \in Nat
    BY <1>2
  <2>4. Cardinality({i}) * v[i] <= Cardinality(Shares(v, Legs))
    BY <1>2, <2>1, <2>2, <2>3, LegsFinite, SharesAtLeast
  <2> QED  BY <1>1, <2>1, <2>3, <2>4
<1> QED  BY <1>1, <1>3, <1>4

\* Equal weights are one share each.
LEMMA EqualIs == /\ Equal(NLegs) \in [Legs -> Nat] /\ Total(Equal(NLegs)) = NLegs
                 /\ \A i \in Legs : Equal(NLegs)[i] = 1
<1>1. Equal(NLegs) \in [Legs -> Nat] /\ \A i \in Legs : Equal(NLegs)[i] = 1
  BY DEF Equal, Legs
<1>2. Cardinality(Shares(Equal(NLegs), Legs)) = Cardinality(Legs) * 1
  BY <1>1, LegsFinite, SharesUniform
<1>3. NLegs \in Nat
  BY PaperAssumption
<1> QED  BY <1>1, <1>2, <1>3, LegsFinite, TotalIs

(***************************************************************************)
(* Reduced, a vector keeps its proportions.                                *)
(***************************************************************************)
LEMMA ReduceKeeps ==
    ASSUME NEW S, NEW v \in [S -> Nat]
    PROVE  /\ Reduce(v) \in [S -> Nat]
           /\ \E g \in Nat \ {0} : \A i \in S : v[i] = g * Reduce(v)[i]
<1> DEFINE positive == {i \in S : v[i] > 0}
           k == CHOOSE i \in positive : TRUE
           D == {d \in 1 .. v[k] : \A i \in positive : v[i] % d = 0}
           g == Max(D)
<1>1. CASE positive = {}
  <2>1. Reduce(v) = v
    BY <1>1 DEF Reduce
  <2> QED  BY <2>1
<1>2. CASE positive # {}
  <2>1. k \in positive
    BY <1>2
  <2>2. v[k] \in Nat /\ v[k] > 0
    BY <2>1
  <2>3. D \in SUBSET (0 .. v[k]) /\ 1 \in D
    BY <2>2
  <2>4. g \in D
    BY <2>2, <2>3, LargestExists
  <2>5. Reduce(v) = [i \in S |-> v[i] \div g]
    BY <1>2 DEF Reduce
  <2>6. g \in Nat \ {0} /\ \A i \in positive : v[i] % g = 0
    <3>1. \A d \in D : d \in Nat \ {0} /\ \A i \in positive : v[i] % d = 0
      BY <2>2
    <3> HIDE DEF D, g
    <3> QED  BY <2>4, <3>1
  <2> HIDE DEF g, D, k
  <2>7. ASSUME NEW i \in S
        PROVE  v[i] \div g \in Nat /\ v[i] = g * (v[i] \div g)
    <3>1. /\ v[i] = (v[i] \div g) * g + (v[i] % g) /\ v[i] % g \in 0 .. g - 1
          /\ v[i] \div g \in Nat
      BY <2>6, Euclid
    <3>2. v[i] % g = 0
      <4>1. CASE v[i] > 0
        BY <4>1, <2>6
      <4>2. CASE v[i] = 0
        <5>1. 0 * g <= (v[i] \div g) * g /\ (v[i] \div g) * g \in Int
          BY <2>6, <3>1, Times
        <5> QED  BY <2>6, <3>1, <4>2, <5>1
      <4> QED  BY <4>1, <4>2
    <3> QED  BY <2>6, <3>1, <3>2
  <2> QED  BY <2>5, <2>6, <2>7
<1> QED  BY <1>1, <1>2

-----------------------------------------------------------------------------
(* The cap *)

Cap == [num : Nat, den : Nat \ {0}]

AtCap(v, set, c) == \A i \in set : v[i] * c.den = c.num * Total(v)

\* The legs that hold the cap share or more are few enough to be paid.
LEMMA CapsAreMet ==
    ASSUME NEW v \in [Legs -> Nat], Total(v) > 0, NEW c \in Cap, NEW set \in SUBSET Legs,
           \A i \in set : c.num * Total(v) <= v[i] * c.den
    PROVE  IsFiniteSet(set) /\ Cardinality(set) \in Nat /\ Cardinality(set) * c.num <= c.den
<1> DEFINE t == Total(v)
           y == [i \in Legs |-> c.den * v[i]]
<1>1. c.num \in Nat /\ c.den \in Nat \ {0} /\ t \in Nat \ {0}
  BY TotalIs DEF Cap
<1>2. IsFiniteSet(set) /\ Cardinality(set) \in Nat
  BY LegsFinite, FS_Subset, FS_CardinalityType
<1>3. \A i \in Legs : v[i] \in Nat /\ y[i] = c.den * v[i]
  OBVIOUS
<1>4. Cardinality(Shares(y, Legs)) = c.den * t
  <2> HIDE DEF y
  <2>1. Cardinality(Shares(y, Legs)) = c.den * Cardinality(Shares(v, Legs))
    BY <1>1, <1>3, LegsFinite, SharesScaled
  <2> QED  BY <2>1, TotalIs
<1>5. c.num * t \in Nat
  BY <1>1
<1>6. \A i \in Legs : y[i] \in Nat
  BY <1>1, <1>3
<1>7. \A i \in set : c.num * t <= y[i]
  <2> TAKE i \in set
  <2>1. y[i] = v[i] * c.den
    BY <1>1, <1>3
  <2> QED  BY <2>1
<1> HIDE DEF y, t
<1>8. Cardinality(set) * (c.num * t) <= c.den * t
  BY <1>4, <1>5, <1>6, <1>7, LegsFinite, SharesAtLeast
<1> DEFINE a == Cardinality(set) * c.num
<1>9. a \in Nat
  BY <1>1, <1>2
<1>10. t * a = Cardinality(set) * (c.num * t) /\ t * c.den = c.den * t
  BY <1>1, <1>2
<1>11. a <= c.den
  <2>1. t * a <= t * c.den
    BY <1>8, <1>10
  <2> HIDE DEF a
  <2> QED  BY <1>1, <1>9, <2>1, Cancel
<1> QED  BY <1>2, <1>11

\* Two groups of legs.
LEMMA TotalInTwo ==
    ASSUME NEW x \in [Legs -> Nat], NEW set \in SUBSET Legs
    PROVE  Total(x) = Cardinality(Shares(x, set)) + Cardinality(Shares(x, Legs \ set))
<1>1. IsFiniteSet(set) /\ IsFiniteSet(Legs \ set) /\ set \cup (Legs \ set) = Legs
  BY LegsFinite, FS_Subset
<1>2. \A i \in set \cup (Legs \ set) : x[i] \in Nat
  OBVIOUS
<1>3. set \cap (Legs \ set) = {}
  OBVIOUS
<1> QED  BY <1>1, <1>2, <1>3, SharesSplit, TotalIs

(***************************************************************************)
(* A round leaves each leg it fixed with the cap share, whoever has the    *)
(* rest.                                                                   *)
(***************************************************************************)
LEMMA RedistributedIs ==
    ASSUME NEW v \in [Legs -> Nat], NEW c \in Cap, NEW set \in SUBSET Legs, set # Legs,
           Cardinality(set) * c.num <= c.den
    PROVE  LET x == Redistributed(v, set, c) IN
           x \in [Legs -> Nat] /\ Total(x) > 0 /\ AtCap(x, set, c)
<1> DEFINE free == Legs \ set
           n == Cardinality(set)
           m == Cardinality(free)
           base == Cardinality(Shares(v, free))
           rest == c.den - n * c.num
           x == Redistributed(v, set, c)
<1>1. /\ c.num \in Nat /\ c.den \in Nat \ {0} /\ n \in Nat /\ m \in Nat /\ base \in Nat
      /\ IsFiniteSet(set) /\ IsFiniteSet(free)
  <2>1. IsFiniteSet(set) /\ IsFiniteSet(free)
    BY LegsFinite, FS_Subset
  <2>2. \A i \in free : v[i] \in Nat
    OBVIOUS
  <2> QED  BY <2>1, <2>2, FS_CardinalityType, SharesFinite DEF Cap
<1>2. m > 0
  <2>1. free # {}
    OBVIOUS
  <2> QED  BY <1>1, <2>1, FS_EmptySet
<1>3. rest \in Nat /\ n * c.num \in Nat
  BY <1>1
<1>4. x = IF base > 0
          THEN [i \in Legs |-> IF i \in set THEN c.num * base ELSE v[i] * rest]
          ELSE [i \in Legs |-> IF i \in set THEN c.num * m ELSE rest]
  BY DEF Redistributed
<1> HIDE DEF free, n, m, base, rest, x
<1> DEFINE b == IF base > 0 THEN base ELSE m
<1>5. b \in Nat \ {0} /\ c.num * b \in Nat
  <2>1. b \in Nat \ {0}
    BY <1>1, <1>2
  <2> HIDE DEF b
  <2> QED  BY <1>1, <2>1
<1>6. /\ x \in [Legs -> Nat] /\ \A i \in set : x[i] = c.num * b
      /\ base > 0 => \A i \in free : x[i] = v[i] * rest
      /\ base = 0 => \A i \in free : x[i] = rest
  <2>1. CASE base > 0
    <3>1. \A i \in Legs : v[i] * rest \in Nat
      BY <1>3
    <3> QED  BY <1>1, <1>4, <1>5, <2>1, <3>1 DEF free
  <2>2. CASE base = 0
    BY <1>1, <1>3, <1>4, <1>5, <2>2 DEF free
  <2> QED  BY <1>1, <2>1, <2>2
<1>7. Cardinality(Shares(x, set)) = n * (c.num * b)
  <2> HIDE DEF b
  <2> QED  BY <1>1, <1>5, <1>6, SharesUniform DEF n
<1>8. Cardinality(Shares(x, free)) = rest * b
  <2>1. CASE base = 0
    <3>1. Cardinality(Shares(x, free)) = m * rest
      BY <1>1, <1>3, <1>6, <2>1, SharesUniform DEF m
    <3>2. m * rest = rest * m
      BY <1>1, <1>3
    <3> QED  BY <2>1, <3>1, <3>2
  <2>2. CASE base > 0 /\ rest = 0
    <3>1. \A i \in free : v[i] \in Nat
      BY DEF free
    <3>2. \A i \in free : x[i] = 0
      BY <1>6, <2>2, <3>1
    <3>3. Cardinality(Shares(x, free)) = m * 0
      BY <1>1, <3>2, SharesUniform DEF m
    <3> QED  BY <1>1, <2>2, <3>3
  <2>3. CASE base > 0 /\ rest > 0
    <3>1. \A i \in free : v[i] \in Nat
      BY DEF free
    <3>2. \A i \in free : v[i] \in Nat /\ x[i] = rest * v[i]
      BY <1>3, <1>6, <2>3, <3>1
    <3>3. Cardinality(Shares(x, free)) = rest * base
      BY <1>1, <1>3, <2>3, <3>2, SharesScaled DEF base
    <3> QED  BY <2>3, <3>3
  <2> QED  BY <1>1, <1>3, <2>1, <2>2, <2>3
<1>9. Total(x) = c.den * b
  <2>1. Total(x) = n * (c.num * b) + rest * b
    BY <1>6, <1>7, <1>8, TotalInTwo DEF free
  <2> HIDE DEF b
  <2>2. rest * b = c.den * b - (n * c.num) * b
    BY <1>1, <1>3, <1>5 DEF rest
  <2>3. n * (c.num * b) = (n * c.num) * b
    BY <1>1, <1>5
  <2>4. (n * c.num) * b \in Int /\ c.den * b \in Int
    BY <1>1, <1>3, <1>5
  <2> QED  BY <2>1, <2>2, <2>3, <2>4
<1> HIDE DEF b
<1>10. c.den * b > 0
  <2>1. 1 * b <= c.den * b /\ c.den * b \in Int
    BY <1>1, <1>5, Times
  <2> QED  BY <1>5, <2>1
<1>11. \A i \in set : x[i] * c.den = c.num * Total(x)
  <2>1. (c.num * b) * c.den = c.num * (c.den * b)
    BY <1>1, <1>5
  <2> QED  BY <1>6, <1>9, <2>1
<1> QED  BY <1>6, <1>9, <1>10, <1>11 DEF AtCap, x

(***************************************************************************)
(* The proportions a leg has, it keeps when the vector is reduced.         *)
(***************************************************************************)
LEMMA ReducedIs ==
    ASSUME NEW x \in [Legs -> Nat], Total(x) > 0
    PROVE  /\ Reduce(x) \in [Legs -> Nat] /\ Total(Reduce(x)) > 0
           /\ \A c \in Cap, set \in SUBSET Legs : AtCap(x, set, c) => AtCap(Reduce(x), set, c)
<1>1. Reduce(x) \in [Legs -> Nat]
  BY ReduceKeeps
<1>2. PICK g \in Nat \ {0} : \A i \in Legs : x[i] = g * Reduce(x)[i]
  BY ReduceKeeps
<1>3. PICK y \in [Legs -> Nat] : y = Reduce(x)
  BY <1>1
<1>4. \A i \in Legs : y[i] \in Nat /\ x[i] = g * y[i]
  BY <1>2, <1>3
<1>5. Total(x) = g * Total(y)
  <2>1. Cardinality(Shares(x, Legs)) = g * Cardinality(Shares(y, Legs))
    BY <1>4, LegsFinite, SharesScaled
  <2> QED  BY <2>1, TotalIs
<1>6. Total(y) \in Nat /\ Total(y) # 0
  <2>1. Total(y) \in Nat
    BY TotalIs
  <2> QED  BY <1>5, <2>1
<1>7. ASSUME NEW c \in Cap, NEW set \in SUBSET Legs, AtCap(x, set, c), NEW i \in set
      PROVE  y[i] * c.den = c.num * Total(y)
  <2> DEFINE a == y[i] * c.den
             b == c.num * Total(y)
  <2>1. c.num \in Nat /\ c.den \in Nat /\ y[i] \in Nat
    BY <1>4 DEF Cap
  <2>2. (g * y[i]) * c.den = c.num * (g * Total(y))
    BY <1>4, <1>5, <1>7 DEF AtCap
  <2>3. a \in Int /\ b \in Int
    BY <1>6, <2>1
  <2>4. (g * y[i]) * c.den = g * a /\ c.num * (g * Total(y)) = g * b
    BY <1>6, <2>1
  <2>5. g * a = g * b
    BY <2>2, <2>4
  <2> HIDE DEF a, b
  <2>6. a = b
    BY <2>3, <2>5, Cancel
  <2> QED  BY <2>6 DEF a, b
<1> QED  BY <1>1, <1>3, <1>6, <1>7 DEF AtCap

\* What the loop of cap_max_weight keeps: the capped legs have exactly the cap
\* share, and when every leg is capped the weights are equal.
Capping(v, set, c) ==
    /\ v \in [Legs -> Nat] /\ Total(v) > 0 /\ set \subseteq Legs
    /\ IF set = Legs THEN v = Equal(NLegs) ELSE AtCap(v, set, c)

CapInv ==
    /\ phase \in {"gate", "kelly"} => w \in [DOMAIN w -> Nat]
    /\ phase = "cap" => Capping(w, capped, settings.cap)

\* Equal weights are where the loop ends once every leg has been capped.
LEMMA EqualCapping == ASSUME NEW c  PROVE Capping(Equal(NLegs), Legs, c)
<1>1. NLegs > 0
  BY PaperAssumption
<1> QED  BY <1>1, EqualIs DEF Capping

\* A round of cap_max_weight keeps the capped legs at the cap and the total positive
\* (risk_manager.py: cap_max_weight).
LEMMA RoundKeeps ==
    ASSUME NEW v, NEW set, NEW c \in Cap, Capping(v, set, c), NeedsRound(v, set, c),
           NEW all, all = Fixed(set, OverCap(v, c) \ set)
    PROVE  Capping(IF all = Legs THEN Equal(NLegs) ELSE Reduce(Redistributed(v, all, c)), all, c)
<1>1. v \in [Legs -> Nat] /\ Total(v) > 0 /\ all \in SUBSET Legs
  BY DEF Capping, Fixed, OverCap
<1>2. CASE all = Legs
  BY <1>2, EqualCapping
<1>3. CASE all # Legs
  <2>1. set # Legs
    BY DEF NeedsRound, OverCap
  <2>2. ASSUME NEW i \in all  PROVE c.num * Total(v) <= v[i] * c.den
    <3>1. CASE i \in set
      <4>1. v[i] * c.den = c.num * Total(v)
        BY <2>1, <3>1 DEF Capping, AtCap
      <4>2. v[i] \in Nat /\ c.den \in Nat
        BY <1>1 DEF Cap
      <4> QED  BY <4>1, <4>2
    <3>2. CASE i \in OverCap(v, c)
      <4>1. v[i] * c.den > c.num * Total(v)
        BY <3>2 DEF OverCap
      <4>2. v[i] \in Nat /\ c.den \in Nat /\ c.num \in Nat /\ Total(v) \in Nat
        BY <1>1, TotalIs DEF Cap
      <4> QED  BY <4>1, <4>2
    <3> QED  BY <3>1, <3>2 DEF Fixed
  <2>3. Cardinality(all) * c.num <= c.den
    BY <1>1, <2>2, CapsAreMet
  <2> DEFINE x == Redistributed(v, all, c)
  <2>4. x \in [Legs -> Nat] /\ Total(x) > 0 /\ AtCap(x, all, c)
    BY <1>1, <1>3, <2>3, RedistributedIs
  <2> HIDE DEF x
  <2>5. /\ Reduce(x) \in [Legs -> Nat] /\ Total(Reduce(x)) > 0
        /\ AtCap(Reduce(x), all, c)
    BY <1>1, <2>4, ReducedIs
  <2> QED  BY <1>1, <1>3, <2>5 DEF Capping, x
<1> QED  BY <1>2, <1>3

\* What is over the cap when the rounds are over.
LEMMA CappedIsWithin ==
    ASSUME NEW v, NEW set, NEW c \in Cap, Capping(v, set, c), ~NeedsRound(v, set, c),
           c.den <= c.num * NLegs
    PROVE  OverCap(v, c) = {}
<1>1. SUFFICES ASSUME NEW i \in OverCap(v, c)  PROVE FALSE
  OBVIOUS
<1>2. /\ i \in set /\ i \in Legs /\ v[i] * c.den > c.num * Total(v)
      /\ v \in [Legs -> Nat]
  BY DEF NeedsRound, OverCap, Capping
<1>3. c.num \in Nat /\ c.den \in Nat /\ Total(v) \in Nat /\ v[i] \in Nat
  BY <1>2, TotalIs DEF Cap
<1>4. CASE set = Legs
  <2>1. v[i] = 1 /\ Total(v) = NLegs
    BY <1>2, <1>4, EqualIs DEF Capping
  <2>2. NLegs \in Nat
    BY PaperAssumption
  <2> QED  BY <1>2, <1>3, <2>1, <2>2
<1>5. CASE set # Legs
  <2>1. v[i] * c.den = c.num * Total(v) /\ v[i] * c.den \in Int
    BY <1>2, <1>3, <1>5 DEF Capping, AtCap
  <2> QED  BY <1>2, <2>1
<1> QED  BY <1>4, <1>5

\* A cap of 1 and more holds anyway.
LEMMA WholeCap ==
    ASSUME NEW v \in [Legs -> Nat], NEW c \in Cap, c.den <= c.num
    PROVE  OverCap(v, c) = {}
<1>1. SUFFICES ASSUME NEW i \in Legs, v[i] * c.den > c.num * Total(v)  PROVE FALSE
  BY DEF OverCap
<1>2. c.num \in Nat /\ c.den \in Nat /\ Total(v) \in Nat /\ v[i] \in Nat /\ v[i] <= Total(v)
  BY TotalIs DEF Cap
<1>3. v[i] * c.den <= Total(v) * c.den
  BY <1>2, Times
<1>4. c.den * Total(v) <= c.num * Total(v) /\ c.num * Total(v) \in Int
  BY <1>2, Times
<1>5. Total(v) * c.den = c.den * Total(v) /\ v[i] * c.den \in Int /\ c.den * Total(v) \in Int
  BY <1>2
<1> QED  BY <1>1, <1>3, <1>4, <1>5

\* Kelly's weights are shares, and not all of them are zero: it falls back on equal ones.
LEMMA KellyWeightsAre ==
    ASSUME NEW v \in [Legs -> Nat], NEW mult \in [Legs -> Nat]
    PROVE  KellyWeights(v, mult) \in [Legs -> Nat] /\ Total(KellyWeights(v, mult)) > 0
<1> DEFINE product == [i \in Legs |-> v[i] * mult[i]]
<1>1. product \in [Legs -> Nat]
  <2>1. \A i \in Legs : v[i] \in Nat /\ mult[i] \in Nat
    OBVIOUS
  <2>2. \A i \in Legs : v[i] * mult[i] \in Nat
    BY <2>1
  <2> QED  BY <2>2
<1>2. KellyWeights(v, mult) = IF Total(product) > 0 THEN Reduce(product) ELSE Equal(NLegs)
  BY DEF KellyWeights
<1> HIDE DEF product
<1>3. Total(Equal(NLegs)) > 0 /\ Equal(NLegs) \in [Legs -> Nat]
  BY PaperAssumption, EqualIs
<1> QED  BY <1>1, <1>2, <1>3, ReducedIs

\* The cap of the settings is a ratio of naturals.
LEMMA CapOfSettings ==
    HandlerInv => settings.cap \in Cap /\ settings.cap.num \in Nat /\ settings.cap.den \in Nat \ {0}
BY DEF HandlerInv, SettingsDict, Cap

\* The weights a run starts with are shares.
LEMMA StartTyped ==
    ASSUME HandlerInv, NEW dry, StartRun(dry)
    PROVE  w' \in [DOMAIN w' -> Nat]
<1>1. ASSUME NEW v \in PolicyWeights  PROVE Reduce(v) \in [DOMAIN v -> Nat]
  <2>1. v \in [DOMAIN v -> Nat]
    BY PaperAssumption
  <2> QED  BY <2>1, ReduceKeeps
<1>2. Equal(settings.width) \in [1 .. settings.width -> Nat]
  BY DEF Equal
<1>3. w' \in {Reduce(v) : v \in PolicyWeights} \cup {Equal(settings.width)}
  BY DEF StartRun
<1> QED  BY <1>1, <1>2, <1>3

\* The weights the breaker lets through are shares.
LEMMA GateTyped ==
    ASSUME w \in [DOMAIN w -> Nat], Gate
    PROVE  w' \in [DOMAIN w' -> Nat]
<1> DEFINE kept == [i \in DOMAIN w |-> IF i \in Intraday THEN 0 ELSE w[i]]
<1>1. kept \in [DOMAIN w -> Nat]
  <2>1. \A i \in DOMAIN w : w[i] \in Nat
    OBVIOUS
  <2> QED  BY <2>1
<1>2. Filtered(w) = Reduce(kept)
  BY DEF Filtered
<1> HIDE DEF kept
<1>3. Filtered(w) \in [DOMAIN w -> Nat]
  BY <1>1, <1>2, ReduceKeeps
<1> QED  BY <1>3 DEF Gate

\* Kelly hands positive weights to the cap, met already where the loop does not run.
LEMMA KellyCaps ==
    ASSUME HandlerInv, CapInv, Kelly
    PROVE  CapInv' /\ WithinCap'
<1> DEFINE c == settings.cap
<1>1. c \in Cap /\ c.num \in Nat /\ c.den \in Nat \ {0}
  BY CapOfSettings
<1>2. w \in [Legs -> Nat]
  BY DEF CapInv, Kelly
<1>3. PICK mult \in Multipliers :
          w' = IF CapApplies /\ c.num = 0 THEN Equal(NLegs) ELSE KellyWeights(w, mult)
  BY DEF Kelly
<1>4. mult \in [Legs -> Nat]
  BY PaperAssumption DEF Legs
<1>5. KellyWeights(w, mult) \in [Legs -> Nat] /\ Total(KellyWeights(w, mult)) > 0
  BY <1>2, <1>4, KellyWeightsAre
<1>6. /\ settings' = settings /\ capped' = {}
      /\ phase' = IF CapApplies /\ c.num \in 1 .. (c.den - 1) THEN "cap" ELSE "size"
  BY DEF Kelly
<1>7. CapApplies' = CapApplies
  BY <1>6 DEF CapApplies
<1>8. CapInv'
  <2>1. phase' # "gate" /\ phase' # "kelly"
    BY <1>6
  <2>2. ASSUME phase' = "cap"  PROVE Capping(w', capped', settings'.cap)
    <3>1. w' = KellyWeights(w, mult)
      BY <1>3, <1>6, <2>2
    <3>2. {} # Legs
      BY LegsFinite
    <3> QED  BY <1>5, <1>6, <3>1, <3>2 DEF Capping, AtCap
  <2> QED  BY <2>1, <2>2 DEF CapInv
<1>9. WithinCap'
  <2>1. SUFFICES ASSUME phase' = "size", CapApplies, c.den <= c.num * NLegs
                 PROVE  OverCap(w', c) = {}
    BY <1>6, <1>7 DEF WithinCap, OverCap, Legs
  <2>2. c.num # 0
    BY <1>1, <2>1, PaperAssumption
  <2>3. c.den <= c.num
    BY <1>1, <1>6, <2>1, <2>2
  <2>4. w' \in [Legs -> Nat]
    BY <1>3, <1>5, <2>2
  <2> QED  BY <1>1, <2>3, <2>4, WholeCap
<1> QED  BY <1>8, <1>9

\* A step of the loop keeps the invariant, and the cap where it ends.
LEMMA CapStep ==
    ASSUME HandlerInv, CapInv, WithinCap, LoopStep
    PROVE  CapInv' /\ WithinCap'
<1>1. CASE Gate
  <2>1. w' \in [DOMAIN w' -> Nat]
    BY <1>1, GateTyped DEF CapInv, Gate
  <2>2. phase' # "cap" /\ settings' = settings /\ (phase' = "size" => ~settings.risk)
    BY <1>1 DEF Gate
  <2> QED  BY <2>1, <2>2 DEF CapInv, WithinCap
<1>2. CASE Kelly
  BY <1>2, KellyCaps
<1>3. CASE CapRound
  <2> DEFINE c == settings.cap
             all == Fixed(capped, OverCap(w, c) \ capped)
             next == IF all = Legs THEN Equal(NLegs) ELSE Reduce(Redistributed(w, all, c))
  <2>1. /\ phase = "cap" /\ phase' = "cap" /\ settings' = settings
        /\ NeedsRound(w, capped, c) /\ capped' = all /\ w' = next
    BY <1>3 DEF CapRound
  <2>2. c \in Cap
    BY CapOfSettings
  <2>3. Capping(w, capped, c)
    BY <2>1 DEF CapInv
  <2>4. Capping(next, all, c)
    BY <2>1, <2>2, <2>3, RoundKeeps
  <2> HIDE DEF all, next
  <2>5. Capping(w', capped', settings'.cap)
    BY <2>1, <2>4
  <2> QED  BY <2>1, <2>5 DEF CapInv, WithinCap
<1>4. CASE EndCap
  <2> DEFINE c == settings.cap
  <2>1. /\ phase = "cap" /\ phase' = "size" /\ UNCHANGED <<settings, w, capped>>
        /\ ~NeedsRound(w, capped, c)
    BY <1>4 DEF EndCap
  <2>2. Capping(w, capped, c) /\ c \in Cap
    BY <2>1, CapOfSettings DEF CapInv
  <2>3. c.den <= c.num * NLegs => OverCap(w, c) = {}
    BY <2>1, <2>2, CappedIsWithin
  <2> QED  BY <2>1, <2>3 DEF CapInv, WithinCap, OverCap, Legs
<1>5. CASE phase' = "idle"
  BY <1>5 DEF CapInv, WithinCap
<1> QED
  BY <1>1, <1>2, <1>3, <1>4, <1>5 DEF LoopStep, Rebalance, AlpacaRunRaises, WidthMismatch,
     RunRaises, EndRun

\* Every step keeps both.
LEMMA CapNext ==
    ASSUME HandlerInv, CapInv, WithinCap, [Next]_vars
    PROVE  CapInv' /\ WithinCap'
<1>1. CASE UNCHANGED loopVars
  <2>1. UNCHANGED <<settings, phase, w, capped>>
    BY <1>1 DEF loopVars
  <2> QED
    BY <2>1 DEF CapInv, Capping, AtCap, WithinCap, CapApplies, OverCap
<1>2. ASSUME NEW dry \in BOOLEAN, StartRun(dry)  PROVE CapInv' /\ WithinCap'
  <2>1. phase' = "gate"
    BY <1>2 DEF StartRun
  <2>2. w' \in [DOMAIN w' -> Nat]
    BY <1>2, StartTyped
  <2> QED  BY <2>1, <2>2 DEF CapInv, WithinCap
<1> QED
  BY <1>1, <1>2, CapStep DEF Next, UserCreates, UserCalls, BrokerActs, vars, loopVars

(***************************************************************************)
(* No leg leaves cap_max_weight above the cap, for any number of legs, any *)
(* cap they can meet together, any policy and any Kelly multipliers        *)
(* (risk_manager.py:149-192): the legs a round has fixed hold exactly the  *)
(* cap share in every later round, and a round that would fix them all     *)
(* makes the weights equal.                                                *)
(***************************************************************************)
THEOREM CapIsMet == Spec => []WithinCap
<1>1. Init => CapInv /\ WithinCap
  BY DEF Init, CapInv, WithinCap
<1>2. HandlerInv /\ CapInv /\ WithinCap /\ [Next]_vars => CapInv' /\ WithinCap'
  BY CapNext
<1> QED
  BY <1>1, <1>2, HandlerInvariant, PTL DEF Spec
=============================================================================
