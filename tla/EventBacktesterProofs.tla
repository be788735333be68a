------------------------- MODULE EventBacktesterProofs -------------------------
(***************************************************************************)
(* The safety of the event-driven backtester for every frame, latency,     *)
(* signal and number of runs, and that its account is a cash account.      *)
(*                                                                         *)
(* The order of the history is not inductive by itself: that the least     *)
(* event of the heap is the market event of the next bar rests on the heap *)
(* still holding one for each bar to come, numbered in the order of the    *)
(* bars, and on the frame being sorted.  Likewise no order is filled on    *)
(* the bar of its own signal because the orders under the matching loop    *)
(* all come from signals of earlier bars.                                  *)
(***************************************************************************)
EXTENDS EventBacktester, SequenceTheorems, TLAPS

\* Heap entries are numbered apart and stamped with the time of their bar.
HeapInv ==
    /\ \A e, f \in queue : e.seq = f.seq => e = f
    /\ \A e \in queue : e.seq <= sequence /\ e.ts = bars[e.bar].ts

\* The market events of the bars to come, and of no other bar, are queued in
\* the order of the bars.
MarketInv ==
    /\ HistoryIsPrefix
    /\ pc = "match" => history # <<>>
    /\ \A e \in queue : e.type = "MARKET" => e.bar >= Len(history)
    /\ pc # "idle" =>
          \A b \in Index : b >= Len(history) =>
              \E e \in queue : e.type = "MARKET" /\ e.bar = b
    /\ \A e, f \in queue : e.type = "MARKET" /\ f.type = "MARKET" =>
          /\ e.bar < f.bar => e.seq < f.seq
          /\ e.bar = f.bar => e = f

\* Open orders come from the bars seen, and count their latency from the last
\* bar of the frame.
OrderInv ==
    /\ \A e \in queue : e.type = "SIGNAL" => e.bar < Len(history)
    /\ \A o \in openOrders :
          /\ o.signalBar < Len(history)
          /\ o \in toMatch => o.signalBar < Len(history) - 1
          /\ o.id <= orderId
          /\ o.activeAfter = N - 1 + latency
          /\ o.qty \in FillQuantities /\ o.limit \in FillPrices
    /\ \A o, p \in openOrders : o.id = p.id => o = p
    /\ pc # "idle" => barIndex = N - 1
    /\ pc # "match" => toMatch = {} /\ filledIds = {}

\* Whatever the latency asked for, an order that fills waited for none and
\* fills on the last bar of the frame.
FillsAtLastBar == \A i \in DOMAIN fills : latency = 0 /\ fills[i].bar = N - 1

\* The fills of the bar being matched are those of filledIds.
FillInv ==
    /\ \A i \in DOMAIN fills : fills[i].id <= orderId
    /\ \A i \in DOMAIN fills, o \in openOrders :
          fills[i].id = o.id => o.id \in filledIds
    /\ FilledOnce
    /\ NoEarlyFill
    /\ FillsAtLastBar

IInv == TypeOK /\ HeapInv /\ MarketInv /\ OrderInv /\ FillInv /\ Solvent /\ NothingLate

-----------------------------------------------------------------------------
(* Lemmas *)

(***************************************************************************)
(* Rows of the sorted frame are typed, and later bars are not earlier.     *)
(***************************************************************************)
LEMMA Frame ==
    ASSUME TypeOK
    PROVE  /\ N \in Nat /\ latency \in Nat
           /\ \A b \in Index : /\ b \in Nat /\ bars[b].ts \in Nat
                               /\ bars[b].quote \in Quotes
           /\ \A b, c \in Index : b <= c => bars[b].ts <= bars[c].ts
<1>1. N \in Nat /\ latency \in Nat
  BY FrameAssumption, ParameterAssumption DEF TypeOK
<1>2. bars \in [Index -> [ts : 1 .. MaxTime, quote : Quotes]]
  BY DEF TypeOK, SortedFrames
<1>3. \A b, c \in Index : b <= c => bars[b].ts <= bars[c].ts
  BY DEF TypeOK, SortedFrames
<1>4. \A b \in Index : bars[b] \in [ts : 1 .. MaxTime, quote : Quotes]
  BY <1>2
<1>5. \A b \in Index : b \in Nat /\ bars[b].ts \in Nat /\ bars[b].quote \in Quotes
  BY <1>1, <1>4, FrameAssumption DEF Index
<1> QED
  BY <1>1, <1>3, <1>5

(***************************************************************************)
(* A quote's prices are natural numbers.                                   *)
(***************************************************************************)
LEMMA QuoteTyped ==
    ASSUME NEW q \in Quotes
    PROVE  /\ q.low \in Nat /\ q.high \in Nat /\ q.close \in Nat
           /\ q.bid \in Nat /\ q.ask \in Nat
BY FrameAssumption DEF QuoteRecord

(***************************************************************************)
(* An event made by _enqueue is well typed.                                *)
(***************************************************************************)
LEMMA NewEventTyped ==
    ASSUME TypeOK, NEW s \in Nat, NEW b \in Index,
           NEW t \in {"MARKET", "SIGNAL", "ORDER", "FILL"},
           NEW sig \in Signals \cup {NoSignal}
    PROVE  /\ NewEvent(s, t, b, sig) \in Event
           /\ NewEvent(s, t, b, sig).seq = s
           /\ NewEvent(s, t, b, sig).ts = bars[b].ts
           /\ NewEvent(s, t, b, sig).type = t
           /\ NewEvent(s, t, b, sig).bar = b
           /\ NewEvent(s, t, b, sig).signal = sig
BY Frame DEF NewEvent, Event

(***************************************************************************)
(* An event made by _enqueue without a signal: a MARKET event or a notice. *)
(***************************************************************************)
LEMMA NoticeTyped ==
    ASSUME TypeOK, NEW s \in Nat, NEW b \in Index,
           NEW t \in {"MARKET", "SIGNAL", "ORDER", "FILL"}
    PROVE  /\ NewEvent(s, t, b, NoSignal) \in Event
           /\ NewEvent(s, t, b, NoSignal).seq = s
           /\ NewEvent(s, t, b, NoSignal).ts = bars[b].ts
           /\ NewEvent(s, t, b, NoSignal).type = t
           /\ NewEvent(s, t, b, NoSignal).bar = b
<1>1. NoSignal \in Signals \cup {NoSignal}
  OBVIOUS
<1> QED
  BY ONLY <1>1, NewEventTyped, TypeOK, s \in Nat, b \in Index,
          t \in {"MARKET", "SIGNAL", "ORDER", "FILL"}

(***************************************************************************)
(* The fields of an event in the heap, an open order and a fill.           *)
(***************************************************************************)
LEMMA EventTyped ==
    ASSUME TypeOK, NEW e \in queue
    PROVE  /\ e \in Event /\ e.ts \in Nat /\ e.seq \in Nat
           /\ e.bar \in Index /\ e.bar \in Nat /\ e.bar < N
           /\ e.signal \in Signals \cup {NoSignal}
<1>1. e \in Event
  BY DEF TypeOK
<1> QED
  BY <1>1, FrameAssumption DEF Event, Index

LEMMA OrderTyped ==
    ASSUME TypeOK, NEW o \in openOrders
    PROVE  /\ o \in Order /\ o.id \in Nat /\ o.side \in Sides /\ o.qty \in Nat
           /\ o.limit \in Nat /\ o.activeAfter \in Int
           /\ o.signalBar \in Index /\ o.signalBar \in Nat /\ o.signalBar < N
<1>1. o \in Order
  BY DEF TypeOK
<1> QED
  BY <1>1, FrameAssumption DEF Order, Index

LEMMA FillTyped ==
    ASSUME TypeOK, NEW i \in DOMAIN fills
    PROVE  /\ fills[i] \in Fill /\ fills[i].id \in Nat /\ fills[i].bar \in Index
           /\ fills[i].signalBar \in Index
<1>1. fills[i] \in Fill
  BY DEF TypeOK
<1> QED
  BY <1>1 DEF Fill

(***************************************************************************)
(* While the history is a prefix, the bar being matched is its last one.   *)
(***************************************************************************)
LEMMA CurrentBarIsLast ==
    ASSUME TypeOK, HistoryIsPrefix, history # <<>>
    PROVE  /\ Len(history) \in Nat \ {0}
           /\ CurrentBar = Len(history) - 1 /\ CurrentBar \in Index
<1>1. history \in Seq(Index)
  BY DEF TypeOK
<1>2. Len(history) \in Nat \ {0} /\ Len(history) \in 1 .. Len(history)
  BY <1>1, EmptySeq
<1>3. CurrentBar = Len(history) - 1
  BY <1>2 DEF HistoryIsPrefix, CurrentBar
<1>4. CurrentBar \in Index
  BY <1>1, <1>2 DEF CurrentBar
<1> QED
  BY <1>2, <1>3, <1>4

(***************************************************************************)
(* The least event of the heap, when it is a market event, is that of the  *)
(* bar after the history: an earlier number belongs to each bar before it. *)
(***************************************************************************)
LEMMA NextMarket ==
    ASSUME IInv, pc # "idle", NEW e \in queue, IsNext(e), e.type = "MARKET"
    PROVE  e.bar = Len(history)
<1>1. /\ e \in Event /\ e.bar \in Index /\ e.bar \in Nat /\ e.seq \in Nat /\ e.ts \in Nat
      /\ history \in Seq(Index) /\ Len(history) \in Nat
      /\ e.bar >= Len(history) /\ N \in Nat
  BY Frame DEF IInv, TypeOK, Event, MarketInv
<1>2. SUFFICES ASSUME Len(history) < e.bar PROVE FALSE
  BY <1>1
<1>3. Len(history) \in Index
  BY <1>1, <1>2 DEF Index
<1>4. PICK f \in queue : f.type = "MARKET" /\ f.bar = Len(history)
  BY <1>1, <1>3 DEF IInv, MarketInv
<1>5. f \in Event /\ f.seq \in Nat /\ f.ts \in Nat
  BY <1>4 DEF IInv, TypeOK, Event
<1>6. f.seq < e.seq /\ f # e
  BY <1>1, <1>2, <1>4 DEF IInv, MarketInv
<1>7. f.ts = bars[f.bar].ts /\ e.ts = bars[e.bar].ts
  BY <1>4 DEF IInv, HeapInv
<1>8. f.ts <= e.ts
  BY <1>1, <1>2, <1>3, <1>4, <1>7, Frame DEF IInv
<1>9. Precedes(e, f)
  BY <1>4, <1>6 DEF IsNext
<1> QED
  BY <1>1, <1>5, <1>6, <1>8, <1>9 DEF Precedes

-----------------------------------------------------------------------------
(* The invariant is inductive: one lemma per action *)

LEMMA InitInv == Init => IInv
<1> SUFFICES ASSUME Init PROVE IInv
  OBVIOUS
<1>1. TypeOK
  BY FrameAssumption, ParameterAssumption DEF Init, TypeOK
<1>2. /\ queue = {} /\ openOrders = {} /\ toMatch = {} /\ filledIds = {} /\ pc = "idle"
      /\ history = <<>> /\ fills = <<>> /\ cash = InitialCash /\ position = 0
  BY DEF Init
<1>3. DOMAIN fills = {} /\ Len(history) = 0
  BY <1>2
<1>4. HeapInv
  BY <1>2 DEF HeapInv
<1>5. MarketInv
  BY <1>2, <1>3 DEF MarketInv, HistoryIsPrefix
<1>6. OrderInv
  BY <1>2 DEF OrderInv
<1>7. FillInv
  BY <1>2, <1>3 DEF FillInv, FilledOnce, NoEarlyFill, FillsAtLastBar
<1>8. Solvent /\ NothingLate
  BY <1>2, ParameterAssumption DEF Solvent, NothingLate
<1> QED
  BY <1>1, <1>4, <1>5, <1>6, <1>7, <1>8 DEF IInv

(***************************************************************************)
(* run() starts over with one market event per bar.                        *)
(***************************************************************************)
LEMMA RunInv ==
    ASSUME IInv, Run
    PROVE  IInv'
<1> DEFINE market(i) == NewEvent(sequence + i + 1, "MARKET", i, NoSignal)
<1>1. /\ pc' = "drain" /\ runs' = runs + 1 /\ runs < MaxRuns
      /\ queue' = {market(i) : i \in Index} /\ sequence' = sequence + N
      /\ barIndex' = N - 1 /\ history' = <<>> /\ equity' = <<>> /\ fills' = <<>>
      /\ cash' = InitialCash /\ position' = 0 /\ openOrders' = {}
      /\ bars' = bars /\ latency' = latency /\ orderId' = orderId
      /\ toMatch' = toMatch /\ filledIds' = filledIds /\ pc = "idle"
  BY DEF Run, given, matching
<1>2. /\ TypeOK /\ sequence \in Nat /\ N \in Nat /\ orderId \in Nat /\ runs \in Nat
      /\ toMatch = {} /\ filledIds = {}
  BY <1>1, Frame, SMTT(30) DEF IInv, TypeOK, OrderInv
<1>3. DOMAIN fills' = {} /\ Len(history') = 0
  BY <1>1
<1>4. ASSUME NEW i \in Index
      PROVE  /\ market(i) \in Event /\ market(i).seq = sequence + i + 1 /\ i \in Nat /\ i < N
             /\ market(i).ts = bars[i].ts /\ market(i).type = "MARKET" /\ market(i).bar = i
  <2>1. TypeOK /\ sequence + i + 1 \in Nat /\ i \in Nat /\ i < N
    BY <1>2 DEF Index
  <2> QED
    BY ONLY <2>1, i \in Index, NoticeTyped
<1> HIDE DEF market
<1>5. TypeOK'
  <2>1. queue' \subseteq Event
    BY <1>1, <1>4
  <2>2. Event' = Event /\ Fill' = Fill /\ Order' = Order
    BY DEF Event, Fill, Order
  <2>3. cash' \in Int /\ position' \in Int /\ runs' \in 0 .. MaxRuns
    BY <1>1, <1>2, ParameterAssumption
  <2> QED
    BY <1>1, <1>2, <2>1, <2>2, <2>3 DEF TypeOK
<1>6. HeapInv'
  BY <1>1, <1>2, <1>4 DEF HeapInv
<1>7. MarketInv'
  BY <1>1, <1>2, <1>3, <1>4 DEF MarketInv, HistoryIsPrefix
<1>8. OrderInv'
  BY <1>1, <1>2, <1>4 DEF OrderInv
<1>9. FillInv'
  BY <1>1, <1>3 DEF FillInv, FilledOnce, NoEarlyFill, FillsAtLastBar
<1>10. Solvent' /\ NothingLate'
  BY <1>1, ParameterAssumption DEF Solvent, NothingLate
<1> QED
  BY <1>5, <1>6, <1>7, <1>8, <1>9, <1>10 DEF IInv

(***************************************************************************)
(* The next bar joins the history and its signals the heap.                *)
(***************************************************************************)
LEMMA ProcessMarketInv ==
    ASSUME IInv, NEW e \in queue, ProcessMarket(e)
    PROVE  IInv'
<1> DEFINE signalled(n, signals) ==
               {NewEvent(sequence + i, "SIGNAL", e.bar, signals[i]) : i \in 1 .. n}
<1>0. PICK n \in 0 .. MaxSignals :
          \E signals \in [1 .. n -> Signals] :
              /\ queue' = (queue \ {e}) \cup signalled(n, signals)
              /\ sequence' = sequence + n
  BY DEF ProcessMarket
<1>1. PICK signals \in [1 .. n -> Signals] :
          /\ queue' = (queue \ {e}) \cup signalled(n, signals)
          /\ sequence' = sequence + n
  BY <1>0
<1> DEFINE signal(i) == NewEvent(sequence + i, "SIGNAL", e.bar, signals[i])
<1>2. /\ pc = "drain" /\ pc' = "match" /\ IsNext(e) /\ e.type = "MARKET"
      /\ history' = Append(history, e.bar) /\ toMatch' = openOrders
      /\ bars' = bars /\ latency' = latency /\ runs' = runs /\ orderId' = orderId
      /\ barIndex' = barIndex /\ cash' = cash /\ position' = position /\ fills' = fills
      /\ openOrders' = openOrders /\ equity' = equity /\ filledIds' = filledIds
  BY DEF ProcessMarket, given, account
<1>3. /\ TypeOK /\ sequence \in Nat /\ n \in Nat /\ N \in Nat
      /\ e \in Event /\ e.bar \in Index /\ e.bar \in Nat
      /\ history \in Seq(Index) /\ Len(history) \in Nat
  <2>1. TypeOK
    BY DEF IInv
  <2>2. sequence \in Nat /\ history \in Seq(Index)
    BY <2>1 DEF TypeOK
  <2>3. N \in Nat /\ n \in Nat
    BY <2>1, Frame, ParameterAssumption
  <2>4. e \in Event /\ e.bar \in Index /\ e.bar \in Nat
    BY <2>1, EventTyped
  <2> QED
    BY <2>1, <2>2, <2>3, <2>4
<1>4. e.bar = Len(history)
  BY <1>2, NextMarket
<1>5. /\ history' \in Seq(Index) /\ Len(history') = Len(history) + 1
      /\ history' # <<>> /\ history'[Len(history')] = e.bar
      /\ \A i \in 1 .. Len(history) : history'[i] = history[i]
  BY <1>2, <1>3
<1>6. ASSUME NEW i \in 1 .. n
      PROVE  /\ signal(i) \in Event /\ signal(i).seq = sequence + i /\ i \in Nat
             /\ signal(i).ts = bars[e.bar].ts /\ signal(i).type = "SIGNAL"
             /\ signal(i).bar = e.bar
  <2>1. i \in Nat /\ sequence + i \in Nat /\ signals[i] \in Signals \cup {NoSignal}
    BY <1>1, <1>3
  <2> DEFINE x == NewEvent(sequence + i, "SIGNAL", e.bar, signals[i])
  <2>2. TypeOK /\ e.bar \in Index
    BY <1>3
  <2>3. /\ x \in Event /\ x.seq = sequence + i /\ x.ts = bars[e.bar].ts
        /\ x.type = "SIGNAL" /\ x.bar = e.bar
    BY ONLY <2>1, <2>2, NewEventTyped
  <2> QED
    BY ONLY <2>1, <2>3
<1>7. queue' = (queue \ {e}) \cup {signal(i) : i \in 1 .. n}
  BY <1>1
<1> HIDE DEF signal, signalled
<1>8. TypeOK'
  <2>1. queue' \subseteq Event
    BY <1>3, <1>6, <1>7 DEF IInv, TypeOK
  <2>2. sequence' \in Nat
    BY <1>1, <1>3
  <2> QED
    BY <1>2, <1>3, <1>5, <2>1, <2>2 DEF TypeOK
<1>9. \A f \in queue : f \in Event /\ f.seq \in Nat /\ f.bar \in Nat /\ f.seq <= sequence
  BY <1>3, Frame DEF IInv, TypeOK, HeapInv, Event
<1>10. HeapInv'
  <2>1. \A f \in queue' : f.seq <= sequence' /\ f.ts = bars'[f.bar].ts
    BY <1>1, <1>2, <1>3, <1>6, <1>7, <1>9 DEF IInv, HeapInv
  <2>2. \A f, g \in queue' : f.seq = g.seq => f = g
    BY <1>3, <1>6, <1>7, <1>9 DEF IInv, HeapInv
  <2> QED
    BY <2>1, <2>2 DEF HeapInv
<1>11. MarketInv'
  <2>1. HistoryIsPrefix'
    BY <1>3, <1>4, <1>5 DEF IInv, MarketInv, HistoryIsPrefix
  <2>2. \A f \in queue' : f.type = "MARKET" => f \in queue /\ f # e
    BY <1>6, <1>7
  <2>3. \A f \in queue' : f.type = "MARKET" => f.bar >= Len(history')
    BY <1>2, <1>3, <1>4, <1>5, <1>9, <2>2 DEF IInv, MarketInv
  <2>4. \A b \in Index : b >= Len(history') =>
            \E f \in queue' : f.type = "MARKET" /\ f.bar = b
    <3> SUFFICES ASSUME NEW b \in Index, b >= Len(history')
                 PROVE  \E f \in queue' : f.type = "MARKET" /\ f.bar = b
      OBVIOUS
    <3>1. b \in Nat /\ b >= Len(history) /\ b # e.bar
      BY <1>3, <1>4, <1>5 DEF Index
    <3>2. PICK f \in queue : f.type = "MARKET" /\ f.bar = b
      BY <1>2, <3>1 DEF IInv, MarketInv
    <3> QED
      BY <1>7, <3>1, <3>2
  <2>5. \A f, g \in queue' : f.type = "MARKET" /\ g.type = "MARKET" =>
            /\ f.bar < g.bar => f.seq < g.seq
            /\ f.bar = g.bar => f = g
    BY <2>2 DEF IInv, MarketInv
  <2> QED
    BY <1>5, <2>1, <2>3, <2>4, <2>5 DEF MarketInv
<1>12. OrderInv'
  <2>1. \A f \in queue' : f.type = "SIGNAL" => f.bar < Len(history')
    BY <1>3, <1>4, <1>5, <1>6, <1>7, <1>9 DEF IInv, OrderInv
  <2>2. \A o \in openOrders : o.signalBar < Len(history) /\ o.signalBar \in Nat
    BY <1>3, Frame DEF IInv, TypeOK, OrderInv, Order
  <2>3. \A o \in openOrders' :
            /\ o.signalBar < Len(history')
            /\ o.signalBar < Len(history') - 1
    BY <1>2, <1>3, <1>5, <2>2
  <2> QED
    BY <1>2, <2>1, <2>3 DEF IInv, OrderInv, FillQuantities, FillPrices
<1>13. FillInv'
  <2>1. \A i \in DOMAIN fills, o \in openOrders : fills[i].id # o.id
    BY <1>2 DEF IInv, FillInv, FilledOnce
  <2> QED
    BY <1>2, <2>1 DEF IInv, FillInv, FilledOnce, NoEarlyFill, FillsAtLastBar
<1>14. Solvent'
  BY <1>2 DEF IInv, Solvent
<1>15. NothingLate'
  <2>1. CurrentBar' = e.bar
    BY <1>5 DEF CurrentBar
  <2>2. \A f \in queue \ {e} : f.ts >= e.ts
    BY <1>2, <1>3, SMTT(30) DEF IsNext, Precedes, IInv, TypeOK, Event
  <2>3. e.ts = bars[e.bar].ts /\ e.ts \in Nat
    BY <1>3 DEF IInv, HeapInv, Event
  <2> QED
    BY <1>2, <1>6, <1>7, <2>1, <2>2, <2>3 DEF NothingLate
<1> QED
  BY <1>8, <1>10, <1>11, <1>12, <1>13, <1>14, <1>15 DEF IInv

(***************************************************************************)
(* A signal becomes an open order and a notice, or nothing.                *)
(***************************************************************************)
LEMMA ProcessSignalInv ==
    ASSUME IInv, NEW e \in queue, ProcessSignal(e)
    PROVE  IInv'
<1> DEFINE notice == NewEvent(sequence + 1, "ORDER", e.bar, NoSignal)
           placed == [id |-> orderId + 1, side |-> e.signal.side, qty |-> e.signal.qty,
                      limit |-> LimitPrice(e.signal.side, e.bar),
                      activeAfter |-> ActiveAfter(e.bar), signalBar |-> e.bar]
<1>1. /\ pc = "drain" /\ pc' = pc /\ IsNext(e) /\ e.type = "SIGNAL"
      /\ bars' = bars /\ latency' = latency /\ runs' = runs /\ barIndex' = barIndex
      /\ history' = history /\ cash' = cash /\ position' = position /\ fills' = fills
      /\ equity' = equity /\ toMatch' = toMatch /\ filledIds' = filledIds
  BY DEF ProcessSignal, given, control, account, matching
<1>2. /\ TypeOK /\ sequence \in Nat /\ orderId \in Nat /\ N \in Nat /\ latency \in Nat
      /\ e \in Event /\ e.bar \in Index /\ e.bar \in Nat /\ e.signal \in Signals \cup {NoSignal}
      /\ history \in Seq(Index) /\ Len(history) \in Nat /\ e.bar < Len(history)
      /\ toMatch = {} /\ filledIds = {} /\ barIndex = N - 1
  <2>1. TypeOK
    BY DEF IInv
  <2>2. e \in Event /\ e.bar \in Index /\ e.bar \in Nat /\ e.signal \in Signals \cup {NoSignal}
    BY <2>1, EventTyped
  <2>3. e.bar < Len(history) /\ toMatch = {} /\ filledIds = {} /\ barIndex = N - 1
    BY <1>1 DEF IInv, OrderInv
  <2> QED
    BY <2>1, <2>2, <2>3, Frame DEF TypeOK
<1>3. \A f \in queue : f \in Event /\ f.seq \in Nat /\ f.bar \in Nat /\ f.seq <= sequence
  BY <1>2, Frame DEF IInv, TypeOK, HeapInv, Event
<1>4. CASE ~Actionable(e.signal)
  <2>1. /\ queue' = queue \ {e} /\ orderId' = orderId /\ openOrders' = openOrders
        /\ sequence' = sequence
    BY <1>4 DEF ProcessSignal
  <2>2. TypeOK'
    BY <1>1, <1>2, <2>1 DEF TypeOK
  <2>3. HeapInv' /\ Solvent' /\ NothingLate'
    BY <1>1, <2>1 DEF IInv, HeapInv, Solvent, NothingLate, CurrentBar
  <2>4. MarketInv'
    BY <1>1, <2>1 DEF IInv, MarketInv, HistoryIsPrefix
  <2>5. OrderInv'
    BY <1>1, <2>1 DEF IInv, OrderInv, FillQuantities, FillPrices
  <2>6. FillInv'
    BY <1>1, <2>1 DEF IInv, FillInv, FilledOnce, NoEarlyFill, FillsAtLastBar
  <2> QED
    BY <2>2, <2>3, <2>4, <2>5, <2>6 DEF IInv
<1>5. CASE Actionable(e.signal)
  <2>1. /\ queue' = (queue \ {e}) \cup {notice} /\ orderId' = orderId + 1
        /\ openOrders' = openOrders \cup {placed} /\ sequence' = sequence + 1
    BY <1>5 DEF ProcessSignal
  <2>2. /\ notice \in Event /\ notice.seq = sequence + 1 /\ notice.ts = bars[e.bar].ts
        /\ notice.type = "ORDER" /\ notice.bar = e.bar
    <3>1. TypeOK /\ sequence + 1 \in Nat /\ e.bar \in Index
      BY <1>2
    <3> QED
      BY ONLY <3>1, NoticeTyped
  <2>3. /\ e.signal \in Signals /\ e.signal.side \in Sides
        /\ e.signal.qty \in Nat /\ e.signal.qty \in FillQuantities
    BY <1>2, <1>5, ParameterAssumption DEF Actionable, NoSignal, Sides, FillQuantities
  <2>4. LimitPrice(e.signal.side, e.bar) \in FillPrices
    BY <1>2, Frame DEF LimitPrice, FillPrices
  <2>5. LimitPrice(e.signal.side, e.bar) \in Nat
    BY <1>2, Frame, QuoteTyped DEF LimitPrice
  <2>6. ActiveAfter(e.bar) = N - 1 + latency /\ ActiveAfter(e.bar) \in Int
    BY <1>2 DEF ActiveAfter
  <2>7. /\ placed \in Order /\ placed.id = orderId + 1 /\ placed.signalBar = e.bar
        /\ placed.activeAfter = N - 1 + latency
        /\ placed.qty \in FillQuantities /\ placed.limit \in FillPrices
    BY <1>2, <2>3, <2>4, <2>5, <2>6 DEF Order
  <2> HIDE DEF notice, placed
  <2>8. TypeOK'
    <3>1. queue' \subseteq Event /\ openOrders' \subseteq Order /\ toMatch' \subseteq openOrders'
      BY <1>1, <1>2, <2>1, <2>2, <2>7 DEF TypeOK
    <3> QED
      BY <1>1, <1>2, <2>1, <3>1 DEF TypeOK
  <2>9. HeapInv'
    BY <1>1, <1>2, <1>3, <2>1, <2>2 DEF IInv, HeapInv
  <2>10. MarketInv'
    <3>1. \A f \in queue' : f.type = "MARKET" => f \in queue
      BY <2>1, <2>2
    <3>2. \A f \in queue : f.type = "MARKET" => f \in queue'
      BY <1>1, <2>1
    <3> QED
      BY <1>1, <3>1, <3>2 DEF IInv, MarketInv, HistoryIsPrefix
  <2>11. OrderInv'
    <3>1. \A f \in queue' : f.type = "SIGNAL" => f.bar < Len(history')
      BY <1>1, <2>1, <2>2 DEF IInv, OrderInv
    <3>2. \A o \in openOrders : o.id <= orderId /\ o.id \in Nat
      BY <1>2 DEF IInv, TypeOK, OrderInv, Order
    <3>3. \A o \in openOrders' :
              /\ o.signalBar < Len(history')
              /\ o.id <= orderId'
              /\ o.activeAfter = N - 1 + latency'
              /\ o.qty \in FillQuantities /\ o.limit \in FillPrices
      BY <1>1, <1>2, <2>1, <2>7, <3>2 DEF IInv, OrderInv
    <3>4. \A o, p \in openOrders' : o.id = p.id => o = p
      BY <1>2, <2>1, <2>7, <3>2 DEF IInv, OrderInv
    <3>5. toMatch' = {} /\ filledIds' = {} /\ barIndex' = N - 1
      BY <1>1, <1>2
    <3> QED
      BY <3>1, <3>3, <3>4, <3>5 DEF OrderInv, FillQuantities, FillPrices
  <2>12. FillInv'
    <3>1. \A i \in DOMAIN fills : fills[i].id <= orderId /\ fills[i].id \in Nat
      BY <1>2, FillTyped DEF IInv, FillInv
    <3>2. \A i \in DOMAIN fills, o \in openOrders' : fills[i].id # o.id
      BY <1>1, <1>2, <2>1, <2>7, <3>1 DEF IInv, FillInv, FilledOnce
    <3>3. \A i \in DOMAIN fills' : fills'[i].id <= orderId'
      BY <1>1, <1>2, <2>1, <3>1
    <3> QED
      BY <1>1, <3>2, <3>3 DEF IInv, FillInv, FilledOnce, NoEarlyFill, FillsAtLastBar
  <2>13. Solvent'
    BY <1>1 DEF IInv, Solvent
  <2>14. NothingLate'
    <3>1. notice.ts = e.ts
      BY <2>2 DEF IInv, HeapInv
    <3> QED
      BY <1>1, <2>1, <3>1 DEF IInv, NothingLate, CurrentBar
  <2> QED
    BY <2>8, <2>9, <2>10, <2>11, <2>12, <2>13, <2>14 DEF IInv
<1> QED
  BY <1>4, <1>5

(***************************************************************************)
(* A notice is dropped.                                                    *)
(***************************************************************************)
LEMMA DropNoticeInv ==
    ASSUME IInv, NEW e \in queue, DropNotice(e)
    PROVE  IInv'
<1>1. /\ queue' = queue \ {e} /\ e.type \in {"ORDER", "FILL"}
      /\ pc' = pc /\ bars' = bars /\ latency' = latency /\ runs' = runs
      /\ sequence' = sequence /\ orderId' = orderId /\ barIndex' = barIndex
      /\ history' = history /\ cash' = cash /\ position' = position /\ fills' = fills
      /\ openOrders' = openOrders /\ equity' = equity /\ toMatch' = toMatch
      /\ filledIds' = filledIds
  BY DEF DropNotice, given, control, account, matching
<1>2. TypeOK'
  BY <1>1 DEF IInv, TypeOK
<1>3. HeapInv' /\ Solvent' /\ NothingLate'
  BY <1>1 DEF IInv, HeapInv, Solvent, NothingLate, CurrentBar
<1>4. MarketInv'
  BY <1>1 DEF IInv, MarketInv, HistoryIsPrefix
<1>5. OrderInv'
  BY <1>1 DEF IInv, OrderInv, FillQuantities, FillPrices
<1>6. FillInv'
  BY <1>1 DEF IInv, FillInv, FilledOnce, NoEarlyFill, FillsAtLastBar
<1> QED
  BY <1>2, <1>3, <1>4, <1>5, <1>6 DEF IInv

-----------------------------------------------------------------------------
(* The matching loop *)

(***************************************************************************)
(* The order the loop visits, and the bar it matches.                      *)
(***************************************************************************)
LEMMA Matching ==
    ASSUME IInv, pc = "match"
    PROVE  /\ TypeOK /\ N \in Nat /\ latency \in Nat
           /\ history \in Seq(Index) /\ Len(history) \in Nat
           /\ CurrentBar = Len(history) - 1 /\ CurrentBar \in Index
           /\ CurrentBar \in Nat /\ CurrentBar <= N - 1
           /\ \A o \in toMatch : o \in openOrders /\ o.signalBar < CurrentBar
<1>1. TypeOK /\ HistoryIsPrefix /\ history # <<>>
  BY DEF IInv, MarketInv
<1>2. Len(history) \in Nat /\ CurrentBar = Len(history) - 1 /\ CurrentBar \in Index
  BY <1>1, CurrentBarIsLast
<1>3. \A o \in toMatch : o \in openOrders /\ o.signalBar < Len(history) - 1
  BY <1>1 DEF IInv, TypeOK, OrderInv
<1>4. CurrentBar \in Nat /\ CurrentBar <= N - 1
  BY <1>1, <1>2, Frame DEF Index
<1> QED
  BY <1>1, <1>2, <1>3, <1>4, Frame DEF TypeOK

(***************************************************************************)
(* An order crossed at all waited for no latency and is matched at the     *)
(* last bar: its latency counts from there.                                *)
(***************************************************************************)
LEMMA CrossesLate ==
    ASSUME IInv, pc = "match", NEW o \in toMatch, Crosses(o)
    PROVE  latency = 0 /\ CurrentBar = N - 1 /\ CurrentBar > o.signalBar
<1>1. o \in openOrders /\ CurrentBar > o.signalBar /\ CurrentBar <= N - 1
      /\ CurrentBar \in Nat /\ latency \in Nat /\ N \in Nat /\ TypeOK
  BY Matching, OrderTyped
<1>2. CurrentBar >= N - 1 + latency
  BY <1>1 DEF Crosses, IInv, OrderInv
<1> QED
  BY <1>1, <1>2

(***************************************************************************)
(* A fill is covered, is the order's first and is younger than its signal. *)
(***************************************************************************)
LEMMA FillOrderInv ==
    ASSUME IInv, NEW o \in toMatch, FillOrder(o)
    PROVE  IInv'
<1> DEFINE notice == NewEvent(sequence + 1, "FILL", CurrentBar, NoSignal)
           fill == [id |-> o.id, side |-> o.side, qty |-> o.qty, price |-> o.limit,
                    bar |-> CurrentBar, signalBar |-> o.signalBar]
           m == Len(fills)
<1>1. /\ pc = "match" /\ pc' = pc /\ Crosses(o) /\ Covered(o)
      /\ cash' = BookCash(o) /\ position' = BookPosition(o)
      /\ fills' = Append(fills, fill) /\ sequence' = sequence + 1
      /\ queue' = queue \cup {notice} /\ filledIds' = filledIds \cup {o.id}
      /\ toMatch' = toMatch \ {o}
      /\ bars' = bars /\ latency' = latency /\ runs' = runs /\ orderId' = orderId
      /\ barIndex' = barIndex /\ history' = history /\ openOrders' = openOrders
      /\ equity' = equity
  BY DEF FillOrder, given, control
<1>2. /\ TypeOK /\ sequence \in Nat /\ cash \in Int /\ position \in Int
      /\ CurrentBar \in Index /\ CurrentBar' = CurrentBar /\ o \in openOrders
      /\ fills \in Seq(Fill) /\ m \in Nat
  <2>1. TypeOK /\ CurrentBar \in Index
    BY <1>1, Matching
  <2>2. /\ sequence \in Nat /\ cash \in Int /\ position \in Int /\ o \in openOrders
        /\ fills \in Seq(Fill)
    BY <2>1 DEF TypeOK
  <2>3. CurrentBar' = CurrentBar
    BY <1>1 DEF CurrentBar
  <2> QED
    BY <2>1, <2>2, <2>3
<1>3. /\ o \in Order /\ o.id \in Nat /\ o.side \in Sides /\ o.qty \in Nat /\ o.limit \in Nat
      /\ o.signalBar \in Index
  BY <1>2, OrderTyped
<1>4. /\ notice \in Event /\ notice.seq = sequence + 1 /\ notice.ts = bars[CurrentBar].ts
      /\ notice.type = "FILL" /\ notice.bar = CurrentBar
  <2>1. TypeOK /\ sequence + 1 \in Nat /\ CurrentBar \in Index
    BY <1>2
  <2> QED
    BY ONLY <2>1, NoticeTyped
<1>5. /\ fill \in Fill /\ fill.id = o.id /\ fill.bar = CurrentBar
      /\ fill.signalBar = o.signalBar
  BY <1>2, <1>3 DEF Fill
<1>6. o.qty * o.limit \in Nat /\ o.limit * o.qty \in Nat
  BY <1>3
<1>7. cash' \in Int /\ position' \in Int
  BY <1>1, <1>2, <1>3, <1>6, SMTT(30) DEF BookCash, BookPosition
<1> HIDE DEF notice, fill
<1>8. /\ fills' \in Seq(Fill) /\ DOMAIN fills' = 1 .. (m + 1) /\ DOMAIN fills = 1 .. m
      /\ fills'[m + 1] = fill /\ \A i \in 1 .. m : fills'[i] = fills[i]
  BY <1>1, <1>2, <1>5
<1>9. TypeOK'
  <2>1. queue' \subseteq Event /\ toMatch' \subseteq openOrders' /\ filledIds' \subseteq Nat
    BY <1>1, <1>2, <1>3, <1>4 DEF TypeOK
  <2> QED
    BY <1>1, <1>2, <1>7, <1>8, <2>1 DEF TypeOK
<1>10. HeapInv'
  <2>1. \A f \in queue : f.seq \in Nat /\ f.seq <= sequence
    BY <1>2, EventTyped DEF IInv, HeapInv
  <2> QED
    BY <1>1, <1>2, <1>4, <2>1 DEF IInv, HeapInv
<1>11. MarketInv'
  <2>1. \A f \in queue' : f.type = "MARKET" => f \in queue
    BY <1>1, <1>4
  <2> QED
    BY <1>1, <2>1 DEF IInv, MarketInv, HistoryIsPrefix
<1>12. OrderInv'
  <2>1. \A f \in queue' : f.type = "SIGNAL" => f \in queue
    BY <1>1, <1>4
  <2> QED
    BY <1>1, <2>1 DEF IInv, OrderInv, FillQuantities, FillPrices
<1>13. FillInv'
  <2>1. \A i \in 1 .. m : fills[i].id # o.id
    BY <1>2, <1>8 DEF IInv, FillInv, FilledOnce
  <2>2. \A i \in DOMAIN fills' : fills'[i].id <= orderId'
    BY <1>1, <1>2, <1>5, <1>8 DEF IInv, FillInv, OrderInv
  <2>3. \A i \in DOMAIN fills', p \in openOrders' :
            fills'[i].id = p.id => p.id \in filledIds'
    BY <1>1, <1>2, <1>5, <1>8 DEF IInv, FillInv
  <2>4. \A i, j \in DOMAIN fills' : fills'[i].id = fills'[j].id => i = j
    BY <1>2, <1>5, <1>8, <2>1 DEF IInv, FillInv, FilledOnce
  <2>5. \A i \in DOMAIN fills', p \in openOrders' :
            fills'[i].id = p.id => pc' = "match" /\ p \notin toMatch'
    BY <1>1, <1>2, <1>5, <1>8 DEF IInv, FillInv, FilledOnce, OrderInv
  <2>6. /\ latency = 0 /\ CurrentBar > o.signalBar
    BY <1>1, CrossesLate
  <2>7. NoEarlyFill'
    <3> SUFFICES ASSUME NEW i \in 1 .. (m + 1)
                 PROVE  /\ fills'[i].bar > fills'[i].signalBar
                        /\ fills'[i].bar >= fills'[i].signalBar + latency
      BY <1>1, <1>8 DEF NoEarlyFill
    <3>1. CASE i \in 1 .. m
      BY <1>8, <3>1 DEF IInv, FillInv, NoEarlyFill
    <3>2. CASE i = m + 1
      <4>1. CurrentBar \in Nat /\ o.signalBar \in Nat
        BY <1>1, <1>2, Matching, OrderTyped
      <4> QED
        BY <1>5, <1>8, <2>6, <3>2, <4>1
    <3> QED
      BY <1>2, <3>1, <3>2
  <2>8. FillsAtLastBar'
    <3>1. latency = 0 /\ CurrentBar = N - 1
      BY <1>1, CrossesLate
    <3> QED
      BY <1>1, <1>5, <1>8, <3>1 DEF IInv, FillInv, FillsAtLastBar
  <2> QED
    BY <2>2, <2>3, <2>4, <2>5, <2>7, <2>8 DEF FillInv, FilledOnce
<1>14. Solvent'
  BY <1>1, <1>2, <1>3, <1>6, SMTT(30) DEF IInv, Solvent, Covered, BookCash, BookPosition, Sides
<1>15. NothingLate'
  <2>1. bars[CurrentBar].ts \in Nat
    BY <1>2, Frame
  <2> QED
    BY <1>1, <1>2, <1>4, <2>1 DEF IInv, NothingLate
<1> QED
  BY <1>9, <1>10, <1>11, <1>12, <1>13, <1>14, <1>15 DEF IInv

(***************************************************************************)
(* An order passed over stays as it is.                                    *)
(***************************************************************************)
LEMMA PassOverInv ==
    ASSUME IInv, NEW o \in toMatch, PassOver(o)
    PROVE  IInv'
<1>1. /\ pc = "match" /\ pc' = pc /\ toMatch' = toMatch \ {o}
      /\ bars' = bars /\ latency' = latency /\ runs' = runs /\ queue' = queue
      /\ sequence' = sequence /\ orderId' = orderId /\ barIndex' = barIndex
      /\ history' = history /\ cash' = cash /\ position' = position /\ fills' = fills
      /\ openOrders' = openOrders /\ equity' = equity /\ filledIds' = filledIds
  BY DEF PassOver, given, control, account
<1>2. TypeOK'
  BY <1>1 DEF IInv, TypeOK
<1>3. HeapInv' /\ Solvent' /\ NothingLate'
  BY <1>1 DEF IInv, HeapInv, Solvent, NothingLate, CurrentBar
<1>4. MarketInv'
  BY <1>1 DEF IInv, MarketInv, HistoryIsPrefix
<1>5. OrderInv'
  BY <1>1 DEF IInv, OrderInv, FillQuantities, FillPrices
<1>6. FillInv'
  BY <1>1 DEF IInv, FillInv, FilledOnce, NoEarlyFill, FillsAtLastBar
<1> QED
  BY <1>2, <1>3, <1>4, <1>5, <1>6 DEF IInv

(***************************************************************************)
(* The filled orders are deleted and the bar is marked.                    *)
(***************************************************************************)
LEMMA FinishBarInv ==
    ASSUME IInv, FinishBar
    PROVE  IInv'
<1>1. /\ pc = "match" /\ toMatch = {} /\ pc' = "drain" /\ filledIds' = {}
      /\ openOrders' = {o \in openOrders : o.id \notin filledIds}
      /\ equity' = Append(equity, cash + position * bars[CurrentBar].quote.close)
      /\ bars' = bars /\ latency' = latency /\ runs' = runs /\ queue' = queue
      /\ sequence' = sequence /\ orderId' = orderId /\ barIndex' = barIndex
      /\ history' = history /\ cash' = cash /\ position' = position /\ fills' = fills
      /\ toMatch' = toMatch
  BY DEF FinishBar, StillOpen, given, account
<1>2. TypeOK'
  <2>1. TypeOK /\ CurrentBar \in Index /\ cash \in Int /\ position \in Int
    BY <1>1, Matching DEF TypeOK
  <2>2. bars[CurrentBar].quote.close \in Nat
    BY <2>1, Frame, QuoteTyped
  <2>3. cash + position * bars[CurrentBar].quote.close \in Int
    BY <2>1, <2>2
  <2>4. equity' \in Seq(Int)
    BY <1>1, <2>1, <2>3 DEF TypeOK
  <2> QED
    BY <1>1, <2>1, <2>4 DEF TypeOK
<1>3. HeapInv' /\ Solvent' /\ NothingLate'
  BY <1>1 DEF IInv, HeapInv, Solvent, NothingLate, CurrentBar
<1>4. MarketInv'
  BY <1>1 DEF IInv, MarketInv, HistoryIsPrefix
<1>5. OrderInv'
  BY <1>1 DEF IInv, OrderInv, FillQuantities, FillPrices
<1>6. FillInv'
  <2>1. \A i \in DOMAIN fills, o \in openOrders' : fills[i].id # o.id
    BY <1>1 DEF IInv, FillInv
  <2> QED
    BY <1>1, <2>1 DEF IInv, FillInv, FilledOnce, NoEarlyFill, FillsAtLastBar
<1> QED
  BY <1>2, <1>3, <1>4, <1>5, <1>6 DEF IInv

(***************************************************************************)
(* run() returns.                                                          *)
(***************************************************************************)
LEMMA FinishInv ==
    ASSUME IInv, Finish
    PROVE  IInv'
<1>1. /\ pc = "drain" /\ pc' = "idle"
      /\ bars' = bars /\ latency' = latency /\ runs' = runs /\ queue' = queue
      /\ sequence' = sequence /\ orderId' = orderId /\ barIndex' = barIndex
      /\ history' = history /\ cash' = cash /\ position' = position /\ fills' = fills
      /\ openOrders' = openOrders /\ equity' = equity /\ toMatch' = toMatch
      /\ filledIds' = filledIds
  BY DEF Finish, given, account, matching
<1>2. TypeOK'
  BY <1>1 DEF IInv, TypeOK
<1>3. HeapInv' /\ Solvent' /\ NothingLate'
  BY <1>1 DEF IInv, HeapInv, Solvent, NothingLate, CurrentBar
<1>4. MarketInv'
  BY <1>1 DEF IInv, MarketInv, HistoryIsPrefix
<1>5. OrderInv'
  BY <1>1 DEF IInv, OrderInv, FillQuantities, FillPrices
<1>6. FillInv'
  BY <1>1 DEF IInv, FillInv, FilledOnce, NoEarlyFill, FillsAtLastBar
<1> QED
  BY <1>2, <1>3, <1>4, <1>5, <1>6 DEF IInv

LEMMA StutterInv ==
    ASSUME IInv, UNCHANGED vars
    PROVE  IInv'
<1>1. /\ pc' = pc /\ bars' = bars /\ latency' = latency /\ runs' = runs /\ queue' = queue
      /\ sequence' = sequence /\ orderId' = orderId /\ barIndex' = barIndex
      /\ history' = history /\ cash' = cash /\ position' = position /\ fills' = fills
      /\ openOrders' = openOrders /\ equity' = equity /\ toMatch' = toMatch
      /\ filledIds' = filledIds
  BY DEF vars
<1>2. TypeOK' /\ HeapInv' /\ Solvent' /\ NothingLate'
  BY <1>1 DEF IInv, TypeOK, HeapInv, Solvent, NothingLate, CurrentBar
<1>3. MarketInv' /\ OrderInv' /\ FillInv'
  BY <1>1 DEF IInv, MarketInv, HistoryIsPrefix, OrderInv, FillInv, FilledOnce,
              NoEarlyFill, FillsAtLastBar, FillQuantities, FillPrices
<1> QED
  BY <1>2, <1>3 DEF IInv

-----------------------------------------------------------------------------
(* Theorems *)

LEMMA NextInv == IInv /\ [Next]_vars => IInv'
<1> SUFFICES ASSUME IInv, [Next]_vars PROVE IInv'
  OBVIOUS
<1>1. CASE Run
  BY <1>1, RunInv
<1>2. ASSUME NEW e \in queue, ProcessMarket(e) \/ ProcessSignal(e) \/ DropNotice(e)
      PROVE  IInv'
  BY <1>2, ProcessMarketInv, ProcessSignalInv, DropNoticeInv
<1>3. ASSUME NEW o \in toMatch, FillOrder(o) \/ PassOver(o)
      PROVE  IInv'
  BY <1>3, FillOrderInv, PassOverInv
<1>4. CASE FinishBar
  BY <1>4, FinishBarInv
<1>5. CASE Finish
  BY <1>5, FinishInv
<1>6. CASE UNCHANGED vars
  BY <1>6, StutterInv
<1> QED
  BY <1>1, <1>2, <1>3, <1>4, <1>5, <1>6 DEF Next

(***************************************************************************)
(* The invariant holds in every state of every replay.                     *)
(***************************************************************************)
THEOREM Invariant == Spec => []IInv
BY InitInv, NextInv, PTL DEF Spec

(***************************************************************************)
(* Every state of a replay is well typed.                                  *)
(***************************************************************************)
THEOREM TypeCorrect == Spec => []TypeOK
<1>1. IInv => TypeOK
  BY DEF IInv
<1> QED
  BY <1>1, Invariant, PTL

(***************************************************************************)
(* The account is never overdrawn and never short (lines 289-300).         *)
(***************************************************************************)
THEOREM NeverOverdrawn == Spec => []Solvent
<1>1. IInv => Solvent
  BY DEF IInv
<1> QED
  BY <1>1, Invariant, PTL

(***************************************************************************)
(* Whatever timestamps the bars share, the strategy's k-th call sees bars  *)
(* 0..k-1 in order and nothing later (lines 186-203).                      *)
(***************************************************************************)
THEOREM HistoryInOrder == Spec => []HistoryIsPrefix
<1>1. IInv => HistoryIsPrefix
  BY DEF IInv, MarketInv
<1> QED
  BY <1>1, Invariant, PTL

(***************************************************************************)
(* No event older than the bar being worked on is left in the heap.        *)
(***************************************************************************)
THEOREM NoEventLeftBehind == Spec => []NothingLate
<1>1. IInv => NothingLate
  BY DEF IInv
<1> QED
  BY <1>1, Invariant, PTL

(***************************************************************************)
(* No order fills on the bar of its own signal or before its latency has   *)
(* elapsed (line 383).                                                     *)
(***************************************************************************)
THEOREM NoLookAheadFill == Spec => []NoEarlyFill
<1>1. IInv => NoEarlyFill
  BY DEF IInv, FillInv
<1> QED
  BY <1>1, Invariant, PTL

(***************************************************************************)
(* No order is booked twice, in one bar or over several.                   *)
(***************************************************************************)
THEOREM BookedOnce == Spec => []FilledOnce
<1>1. IInv => FilledOnce
  BY DEF IInv, FillInv
<1> QED
  BY <1>1, Invariant, PTL

(***************************************************************************)
(* Why the run EventBacktesterLatency finds what it finds: the latency is  *)
(* counted from the last bar, so with a latency of one or more nothing     *)
(* ever fills, and with none everything fills on the last bar.             *)
(***************************************************************************)
THEOREM FillsOnlyAtLastBar == Spec => []FillsAtLastBar
<1>1. IInv => FillsAtLastBar
  BY DEF IInv, FillInv
<1> QED
  BY <1>1, Invariant, PTL

(***************************************************************************)
(* The engine's account implements the cash account: what it books is      *)
(* always one covered purchase or sale at a quoted price.                  *)
(***************************************************************************)
THEOREM AccountImplemented == Spec => ImplementsCashAccount
<1>1. Init => Account!Open
  BY DEF Init, Account!Open
<1>2. IInv /\ [Next]_vars => [Account!Next]_(Account!accountVars)
  <2> SUFFICES ASSUME IInv, [Next]_vars, ~UNCHANGED <<cash, position>>
               PROVE  Account!Next
    BY DEF Account!accountVars
  <2>1. CASE Run
    BY <2>1 DEF Run, Account!Next, Account!Reopen
  <2>2. ASSUME NEW e \in queue, ProcessMarket(e) \/ ProcessSignal(e) \/ DropNotice(e)
        PROVE  FALSE
    BY <2>2 DEF ProcessMarket, ProcessSignal, DropNotice, account
  <2>3. ASSUME NEW o \in toMatch, FillOrder(o)
        PROVE  Account!Next
    <3>1. /\ Covered(o) /\ cash' = BookCash(o) /\ position' = BookPosition(o)
          /\ pc = "match"
      BY <2>3 DEF FillOrder
    <3>2. o \in openOrders /\ o.qty \in FillQuantities /\ o.limit \in FillPrices
      BY DEF IInv, TypeOK, OrderInv
    <3>3. o.qty \in Nat /\ o.limit \in Nat /\ o.side \in Sides /\ cash \in Int
      BY <3>2, OrderTyped DEF IInv, TypeOK
    <3>4. o.limit * o.qty = o.qty * o.limit
      BY <3>3
    <3>5. CASE o.side = "BUY"
      <4>1. Account!Buy(o.qty, o.limit)
        BY <3>1, <3>3, <3>4, <3>5 DEF Covered, BookCash, BookPosition, Account!Buy
      <4> QED
        BY <3>2, <4>1 DEF Account!Next
    <3>6. CASE o.side = "SELL"
      <4>1. Account!Sell(o.qty, o.limit)
        BY <3>1, <3>3, <3>4, <3>6 DEF Covered, BookCash, BookPosition, Account!Sell
      <4> QED
        BY <3>2, <4>1 DEF Account!Next
    <3> QED
      BY <3>3, <3>5, <3>6 DEF Sides
  <2>4. ASSUME NEW o \in toMatch, PassOver(o)
        PROVE  FALSE
    BY <2>4 DEF PassOver, account
  <2>5. CASE FinishBar \/ Finish \/ UNCHANGED vars
    BY <2>5 DEF FinishBar, Finish, account, vars
  <2> QED
    BY <2>1, <2>2, <2>3, <2>4, <2>5 DEF Next
<1> QED
  BY <1>1, <1>2, Invariant, PTL DEF Spec, ImplementsCashAccount, Account!Spec
=============================================================================
