---------------------- MODULE LiveInferenceRouterProofs ----------------------
(***************************************************************************)
(* Theorems about LiveInferenceRouter: mutual exclusion in the lock, and   *)
(* what a forward pass and a caller of loaded_ticker can rely on, for any  *)
(* number of threads, tickers and payloads, whole or not, fitting or not.  *)
(*                                                                         *)
(* The invariant says which parts a load has copied by the point it has    *)
(* reached, and that the others are still those of the calls before it.    *)
(***************************************************************************)
EXTENDS LiveInferenceRouter, TLAPS

LoadPoints == Parts \cup {"loaded"}

\* The parts a load has been through when it gets to a point.
Done(point) ==
    CASE point = "weight" -> {} [] point = "bias" -> {"weight"}
      [] point = "logStd" -> {"weight", "bias"} [] point = "loaded" -> Parts

\* The calls that returned, and loaded_ticker, agree.
Named ==
    IF loadedTicker = None THEN applied = BaseHead
    ELSE /\ latest # None /\ loadedTicker = latest[1]
         /\ \A part \in holds[latest[2]] : applied[part] = latest

\* What a thread has done so far with the head.
ThreadInv(th) ==
    /\ pc[th] \in LoadPoints \cup {"load"} =>
          payload[th] \in Payloads /\ payload[th][1] = ticker[th]
    /\ pc[th] \in LoadPoints =>
          \A part \in Parts :
              head[part] = IF part \in Done(pc[th]) /\ part \in Held(th)
                           THEN payload[th] ELSE applied[part]
    /\ pc[th] \in {"bias", "logStd"} /\ ~fits[payload[th][2]] =>
          Held(th) \cap {"weight", "bias"} = {}
    /\ pc[th] \in {"pristine", "forward"} => head = applied
    /\ pc[th] = "restored" => head["weight"] = Base /\ head["bias"] = Base

RouterInv ==
    /\ TypeOK /\ Named
    /\ lock = None => head = applied
    /\ \A th \in Threads : ThreadInv(th)

LEMMA RouterInit == Init => RouterInv
<1> SUFFICES ASSUME Init PROVE RouterInv
  OBVIOUS
<1>1. TypeOK
  <2>1. holds \in [Versions -> SUBSET Parts] /\ fits \in [Versions -> BOOLEAN]
    BY RouterAssumption DEF Init
  <2>2. BaseHead \in [Parts -> Tensors]
    BY DEF BaseHead, Tensors
  <2>3. file \in [Tickers -> Versions \cup {None}] /\ torn \subseteq Tickers
    BY DEF Init
  <2> QED
    BY <2>1, <2>2, <2>3, RouterAssumption DEF Init, TypeOK, Locked
<1>2. Named /\ head = applied
  BY DEF Init, Named
<1>3. \A th \in Threads : pc[th] = "idle"
  BY DEF Init
<1> QED
  BY <1>1, <1>2, <1>3 DEF RouterInv, ThreadInv, LoadPoints, Parts

\* Only one thread is past the lock.
LEMMA Exclusion ==
    ASSUME TypeOK, NEW th \in Threads, NEW other \in Threads, Locked(th), Locked(other)
    PROVE  th = other
BY DEF TypeOK

\* The payload of a load is one, and it holds some of the parts.
LEMMA PayloadInHand ==
    ASSUME RouterInv, NEW th \in Threads, pc[th] \in LoadPoints \cup {"load"}
    PROVE  /\ payload[th] \in Payloads /\ payload[th] \in Tensors
           /\ payload[th][1] = ticker[th] /\ payload[th][2] \in Versions
           /\ ticker[th] \in Tickers /\ Held(th) \subseteq Parts
<1>1. payload[th] \in Payloads /\ payload[th][1] = ticker[th]
  BY DEF RouterInv, ThreadInv
<1>2. payload[th][1] \in Tickers /\ payload[th][2] \in Versions
  BY <1>1 DEF Payloads
<1> QED
  BY <1>1, <1>2 DEF Tensors, Held, RouterInv, TypeOK

-----------------------------------------------------------------------------
(* Types *)

LEMMA TypeNext ==
    ASSUME RouterInv, [Next]_vars
    PROVE  TypeOK'
<1> USE RouterAssumption DEF RouterInv, TypeOK, Locked, store, history
<1>1. ASSUME NEW t \in Tickers, BeginSave(t) \/ EndSave(t)
      PROVE  TypeOK'
  <2>1. CASE BeginSave(t)
    <3>1. Version(t) \in Nat /\ Version(t) + 1 \in Versions
      BY <2>1 DEF BeginSave, Version, Versions
    <3> QED
      BY <2>1, <3>1 DEF BeginSave
  <2>2. CASE EndSave(t)
    BY <2>2 DEF EndSave
  <2> QED
    BY <1>1, <2>1, <2>2
<1>2. ASSUME NEW th \in Threads, NEW t \in Tickers, ReadPayload(th, t)
      PROVE  TypeOK'
  <2>1. <<t, file[t]>> \in Payloads
    BY <1>2 DEF ReadPayload, Payloads
  <2> QED
    BY <1>2, <2>1 DEF ReadPayload, Call, Goto
<1>3. ASSUME NEW th \in Threads, NEW t \in Tickers, CannotRead(th, t)
      PROVE  TypeOK'
  BY <1>3 DEF CannotRead, Call, Goto
<1>4. ASSUME NEW th \in Threads, CallReset(th) \/ CallPredict(th)
      PROVE  TypeOK'
  BY <1>4 DEF CallReset, CallPredict, Call, Goto
<1>5. ASSUME NEW th \in Threads, EnterLoad(th) \/ EnterReset(th) \/ EnterPredict(th)
      PROVE  TypeOK'
  BY <1>5 DEF EnterLoad, EnterReset, EnterPredict, Enter, LockFree, Goto
<1>6. ASSUME NEW th \in Threads, NEW part \in Parts, Copy(th, part)
      PROVE  TypeOK'
  <2>1. pc[th] \in LoadPoints /\ pc[th] = part
    BY <1>6 DEF Copy, LoadPoints
  <2>2. CopyOf(th, part) \in Tensors
    BY <2>1, PayloadInHand DEF CopyOf
  <2>3. /\ part \in {"weight", "bias", "logStd"} /\ After(part) \in {"bias", "logStd", "loaded"}
    BY DEF Parts, After
  <2> QED
    BY <1>6, <2>1, <2>2, <2>3 DEF Copy, Goto
<1>7. ASSUME NEW th \in Threads, RestoreHead(th)
      PROVE  TypeOK'
  BY <1>7 DEF RestoreHead, Goto, Tensors
<1>8. ASSUME NEW th \in Threads, Misfit(th) \/ Forward(th)
      PROVE  TypeOK'
  BY <1>8 DEF Misfit, Forward, Return, Released, Goto, Parts
<1>9. ASSUME NEW th \in Threads, Loaded(th)
      PROVE  TypeOK'
  <2>1. payload[th] \in Payloads /\ payload[th] \in Tensors /\ ticker[th] \in Tickers
    BY <1>9, PayloadInHand DEF Loaded, LoadPoints
  <2>2. Patched(applied, payload[th]) \in [Parts -> Tensors]
    BY <2>1 DEF Patched
  <2> QED
    BY <1>9, <2>1, <2>2 DEF Loaded, Return, Released, Goto
<1>10. ASSUME NEW th \in Threads, EndReset(th)
       PROVE  TypeOK'
  BY <1>10 DEF EndReset, Return, Released, Goto, Tensors, BaseHead, TickerAfterReset
<1>11. CASE UNCHANGED vars
  BY <1>11 DEF vars
<1> QED
  BY <1>1, <1>2, <1>3, <1>4, <1>5, <1>6, <1>7, <1>8, <1>9, <1>10, <1>11 DEF Next, CallStep

-----------------------------------------------------------------------------
(* One lemma per kind of step *)

\* What a step has to show of the head.
HeadKept == Named' /\ (lock = None => head = applied)' /\ \A o \in Threads : ThreadInv(o)'

\* Steps of the files, and calls that do not enter the lock.
LEMMA OutsideTheLock ==
    ASSUME RouterInv,
           \/ \E t \in Tickers : BeginSave(t) \/ EndSave(t)
           \/ \E th \in Threads : \/ \E t \in Tickers : ReadPayload(th, t) \/ CannotRead(th, t)
                                 \/ CallReset(th) \/ CallPredict(th)
           \/ UNCHANGED vars
    PROVE  HeadKept
<1> USE DEF RouterInv, Named, ThreadInv, HeadKept, store, history, Held, LoadPoints, Parts
<1>1. CASE \E t \in Tickers : BeginSave(t) \/ EndSave(t)
  BY <1>1 DEF BeginSave, EndSave
<1>2. ASSUME NEW th \in Threads, NEW t \in Tickers, ReadPayload(th, t)
      PROVE  HeadKept
  <2>1. /\ pc' = [pc EXCEPT ![th] = "load"] /\ ticker' = [ticker EXCEPT ![th] = t]
        /\ payload' = [payload EXCEPT ![th] = <<t, file[t]>>]
        /\ <<t, file[t]>> \in Payloads
        /\ UNCHANGED <<holds, fits, head, loadedTicker, lock, applied, latest>>
    BY <1>2 DEF ReadPayload, Call, Goto, TypeOK, Payloads
  <2>2. DOMAIN pc = Threads /\ DOMAIN payload = Threads /\ DOMAIN ticker = Threads
    BY DEF TypeOK
  <2>3. /\ pc'[th] = "load" /\ payload'[th] = <<t, file[t]>> /\ ticker'[th] = t
        /\ \A o \in Threads \ {th} :
              pc'[o] = pc[o] /\ payload'[o] = payload[o] /\ ticker'[o] = ticker[o]
    BY <2>1, <2>2
  <2>4. ThreadInv(th)'
    BY <2>1, <2>3
  <2>5. \A o \in Threads \ {th} : ThreadInv(o)'
    BY <2>1, <2>3
  <2> QED
    BY <2>1, <2>4, <2>5
<1>3. ASSUME NEW th \in Threads,
             (\E t \in Tickers : CannotRead(th, t)) \/ CallReset(th) \/ CallPredict(th)
      PROVE  HeadKept
  <2>1. /\ UNCHANGED <<holds, fits, head, loadedTicker, lock, ticker, payload, applied, latest>>
        /\ pc'[th] \in {"idle", "reset", "predict"}
        /\ \A o \in Threads \ {th} : pc'[o] = pc[o]
    BY <1>3 DEF CannotRead, CallReset, CallPredict, Call, Goto, TypeOK
  <2> QED
    BY <2>1
<1>4. CASE UNCHANGED vars
  BY <1>4 DEF vars
<1> QED
  BY <1>1, <1>2, <1>3, <1>4

\* The head is that of the calls before when the lock is taken.
LEMMA TakingTheLock ==
    ASSUME RouterInv, NEW th \in Threads,
           EnterLoad(th) \/ EnterReset(th) \/ EnterPredict(th)
    PROVE  HeadKept
<1>1. /\ head = applied /\ lock' = th /\ th # None
      /\ UNCHANGED <<holds, fits, head, loadedTicker, ticker, payload, applied, latest>>
  BY RouterAssumption DEF RouterInv, EnterLoad, EnterReset, EnterPredict, Enter, LockFree, store,
     history
<1>2. /\ \A o \in Threads \ {th} : pc'[o] = pc[o]
      /\ (pc[th] = "load" /\ pc'[th] = "weight") \/ pc'[th] \in {"pristine", "forward"}
  BY DEF RouterInv, TypeOK, EnterLoad, EnterReset, EnterPredict, Enter, Goto
<1>3. Named'
  BY <1>1 DEF RouterInv, Named
<1>4. \A o \in Threads \ {th} : ThreadInv(o)'
  BY <1>1, <1>2 DEF RouterInv, ThreadInv, Held
<1>5. ThreadInv(th)'
  BY <1>1, <1>2 DEF RouterInv, ThreadInv, Held, LoadPoints, Parts, Done
<1> QED
  BY <1>1, <1>3, <1>4, <1>5 DEF HeadKept

\* A thread inside the lock does not disturb those outside of it.
LEMMA OthersAreOutside ==
    ASSUME RouterInv, NEW th \in Threads, Locked(th), NEW o \in Threads \ {th},
           pc'[o] = pc[o] /\ payload'[o] = payload[o] /\ ticker'[o] = ticker[o]
    PROVE  ThreadInv(o)'
<1>1. ~Locked(o)
  BY Exclusion DEF RouterInv
<1> QED
  BY <1>1 DEF RouterInv, ThreadInv, Locked, LoadPoints, Parts

\* A load goes through one part after the other.
LEMMA CopyStep ==
    ASSUME RouterInv, NEW th \in Threads, NEW part \in Parts, Copy(th, part)
    PROVE  HeadKept
<1>1. /\ pc[th] = part /\ ~Misfits(th) /\ Locked(th) /\ pc[th] \in LoadPoints
      /\ UNCHANGED <<holds, fits, loadedTicker, lock, ticker, payload, applied, latest>>
  BY DEF Copy, Locked, Parts, LoadPoints, store, history
<1>2. /\ head' = [head EXCEPT ![part] = CopyOf(th, part)] /\ head \in [Parts -> Tensors]
      /\ pc'[th] = After(part) /\ \A o \in Threads \ {th} : pc'[o] = pc[o]
  BY DEF Copy, Goto, RouterInv, TypeOK
<1>3. \A o \in Threads \ {th} : ThreadInv(o)'
  BY <1>1, <1>2, OthersAreOutside
<1>4. payload[th] \in Payloads /\ payload[th][1] = ticker[th]
  BY <1>1, PayloadInHand
<1>5. /\ After(part) \in LoadPoints /\ part \notin Done(part)
      /\ Done(After(part)) = Done(part) \cup {part}
      /\ After(part) \notin {"load", "pristine", "restored", "forward", "weight"}
  BY DEF After, Done, Parts, LoadPoints
<1>6. \A p \in Parts : head[p] = IF p \in Done(part) /\ p \in Held(th)
                                 THEN payload[th] ELSE applied[p]
  BY <1>1 DEF RouterInv, ThreadInv
<1>7. \A p \in Parts : head'[p] = IF p \in Done(After(part)) /\ p \in Held(th)
                                  THEN payload[th] ELSE applied[p]
  BY <1>2, <1>5, <1>6 DEF CopyOf
<1>8. ~fits[payload[th][2]] /\ After(part) \in {"bias", "logStd"} =>
         Held(th) \cap {"weight", "bias"} = {}
  BY <1>1 DEF After, Parts, Misfits, RouterInv, ThreadInv
<1>9. Held(th)' = Held(th)
  BY <1>1 DEF Held
<1>10. ThreadInv(th)'
  BY <1>1, <1>2, <1>4, <1>5, <1>7, <1>8, <1>9 DEF ThreadInv
<1>11. Named' /\ lock' # None
  BY <1>1, RouterAssumption DEF RouterInv, TypeOK, Named
<1> QED
  BY <1>3, <1>10, <1>11 DEF HeadKept

\* A reset puts back the two tensors of action_net first.
LEMMA RestoreStep ==
    ASSUME RouterInv, NEW th \in Threads, RestoreHead(th)
    PROVE  HeadKept
<1>1. /\ pc[th] = "pristine" /\ Locked(th) /\ lock' = lock /\ lock = th /\ th # None
      /\ UNCHANGED <<holds, fits, loadedTicker, ticker, payload, applied, latest>>
  BY RouterAssumption DEF RestoreHead, Locked, store, history, RouterInv, TypeOK
<1>2. /\ head'["weight"] = Base /\ head'["bias"] = Base
      /\ pc'[th] = "restored" /\ \A o \in Threads \ {th} : pc'[o] = pc[o]
  BY DEF RestoreHead, Goto, RouterInv, TypeOK, Parts
<1>3. \A o \in Threads \ {th} : ThreadInv(o)'
  BY <1>1, <1>2, OthersAreOutside
<1>4. ThreadInv(th)'
  BY <1>2 DEF ThreadInv, LoadPoints, Parts
<1>5. Named'
  BY <1>1 DEF RouterInv, Named
<1> QED
  BY <1>1, <1>3, <1>4, <1>5 DEF HeadKept

\* Whoever leaves the lock, returning or raising, leaves the head of the calls
\* that returned.
LEMMA LeavingTheLock ==
    ASSUME RouterInv, NEW th \in Threads,
           Misfit(th) \/ Loaded(th) \/ EndReset(th) \/ Forward(th)
    PROVE  HeadKept
<1>1. /\ Locked(th) /\ UNCHANGED <<holds, fits>>
      /\ pc' = [pc EXCEPT ![th] = "idle"] /\ ticker' = [ticker EXCEPT ![th] = None]
      /\ payload' = [payload EXCEPT ![th] = None]
  BY DEF Misfit, Loaded, EndReset, Forward, Locked, Return, Goto, Parts, store
<1>2. /\ pc'[th] = "idle"
      /\ \A o \in Threads \ {th} : pc'[o] = pc[o] /\ payload'[o] = payload[o]
                                   /\ ticker'[o] = ticker[o]
  BY <1>1 DEF RouterInv, TypeOK
<1>3. \A o \in Threads \ {th} : ThreadInv(o)'
  BY <1>1, <1>2, OthersAreOutside
<1>4. ThreadInv(th)'
  BY <1>2 DEF ThreadInv, LoadPoints, Parts
<1>5. head' = applied' /\ Named'
  <2>1. head \in [Parts -> Tensors] /\ applied \in [Parts -> Tensors]
    BY DEF RouterInv, TypeOK
  <2>2. CASE Misfit(th)
    <3>1. /\ pc[th] \in Parts /\ pc[th] \in LoadPoints /\ Misfits(th)
          /\ UNCHANGED <<head, applied, latest, loadedTicker>>
      BY <2>2 DEF Misfit, LoadPoints, history
    <3>2. \A part \in Parts : head[part] = applied[part]
      BY <3>1 DEF RouterInv, ThreadInv, Misfits, Done, Parts
    <3> QED
      BY <1>1, <2>1, <3>1, <3>2 DEF RouterInv, Named
  <2>3. CASE Forward(th)
    BY <1>1, <2>3 DEF Forward, history, RouterInv, ThreadInv, Named
  <2>4. CASE Loaded(th)
    <3>1. /\ pc[th] = "loaded" /\ head' = head /\ loadedTicker' = ticker[th]
          /\ applied' = Patched(applied, payload[th]) /\ latest' = payload[th]
      BY <2>4 DEF Loaded
    <3>2. /\ payload[th] \in Payloads /\ payload[th][1] = ticker[th] /\ ticker[th] \in Tickers
          /\ Held(th) \subseteq Parts
      BY <3>1, PayloadInHand DEF LoadPoints
    <3>3. \A part \in Parts : head[part] = IF part \in Held(th) THEN payload[th] ELSE applied[part]
      BY <3>1 DEF RouterInv, ThreadInv, LoadPoints, Done
    <3>4. head = Patched(applied, payload[th])
      BY <2>1, <3>3 DEF Patched, Held
    <3>5. payload[th] # None /\ ticker[th] # None
      BY <3>2, RouterAssumption DEF Payloads, Versions
    <3> QED
      BY <1>1, <3>1, <3>2, <3>3, <3>4, <3>5 DEF Named, Held
  <2>5. CASE EndReset(th)
    <3>1. /\ head["weight"] = Base /\ head["bias"] = Base
          /\ head' = [head EXCEPT !["logStd"] = Base] /\ applied' = BaseHead
          /\ loadedTicker' = None
      BY <2>5 DEF EndReset, TickerAfterReset, RouterInv, ThreadInv
    <3>2. head' = BaseHead
      BY <2>1, <3>1 DEF BaseHead, Parts
    <3> QED
      BY <3>1, <3>2 DEF Named
  <2> QED
    BY <2>2, <2>3, <2>4, <2>5
<1> QED
  BY <1>3, <1>4, <1>5 DEF HeadKept

LEMMA RouterNext ==
    ASSUME RouterInv, [Next]_vars
    PROVE  RouterInv'
<1>1. HeadKept
  BY OutsideTheLock, TakingTheLock, CopyStep, RestoreStep, LeavingTheLock DEF Next, CallStep
<1> QED
  BY <1>1, TypeNext DEF RouterInv, HeadKept

-----------------------------------------------------------------------------
(* Theorems *)

(***************************************************************************)
(* The lock is held exactly by the thread inside one of the three blocks   *)
(* (policy_router.py:121, 154, 198), also after a load that raised, and    *)
(* every tensor in place is one of the base or of a payload.               *)
(***************************************************************************)
THEOREM LockIsExclusive == Spec => []TypeOK
<1>1. RouterInv => TypeOK
  BY DEF RouterInv
<1> QED
  BY <1>1, RouterInit, RouterNext, PTL DEF Spec

(***************************************************************************)
(* A forward pass sees the loads and resets that returned as if they had   *)
(* run one after the other, and nothing of one that is under way or raised *)
(* (policy_router.py:51-53), for any number of threads and any payloads.   *)
(***************************************************************************)
THEOREM ForwardSeesOneHead == Spec => []NeverHalfApplied
<1>1. RouterInv => NeverHalfApplied
  BY DEF RouterInv, NeverHalfApplied, ThreadInv
<1> QED
  BY <1>1, RouterInit, RouterNext, PTL DEF Spec

(***************************************************************************)
(* loaded_ticker names the payload in place, as far as it goes, whenever   *)
(* the lock is free, and is None only over the whole base head             *)
(* (policy_router.py:115), also after a payload that did not fit.          *)
(***************************************************************************)
THEOREM LoadedTickerIsTruthful == Spec => []LoadedTickerNamesHead
<1>1. RouterInv => LoadedTickerNamesHead
  BY DEF RouterInv, LoadedTickerNamesHead, Named
<1> QED
  BY <1>1, RouterInit, RouterNext, PTL DEF Spec
=============================================================================
