--------------------------- MODULE LiveInferenceRouter ---------------------------
(***************************************************************************)
(* core/policy_router.py: one base PPO model whose action head and log_std *)
(* are overwritten in place with a ticker's fine-tuned ones, shared by     *)
(* threads that load, predict and reset.  The payload file is read before  *)
(* the lock is taken; the copies under the lock go parameter by parameter. *)
(*                                                                         *)
(* A tensor is the <<ticker, version>> of the payload it came from.  A     *)
(* payload need not hold every part of the head: what it lacks stays as it *)
(* is.  One made for a base policy with another number of strategies does  *)
(* not fit, in none of its parts, whose shapes all depend on that number.  *)
(***************************************************************************)
EXTENDS Integers, FiniteSets

CONSTANTS Threads,     \* threads sharing the router
          Tickers,     \* tickers with a fine-tuned policy
          Holdings,    \* the parts a payload may hold
          MaxVersion,  \* bound on the versions of a payload
          MaxCalls,    \* bound on the calls of the threads together
          None

Parts == {"weight", "bias", "logStd"}

ASSUME RouterAssumption ==
    /\ MaxVersion \in Nat /\ MaxCalls \in Nat
    /\ Holdings \subseteq SUBSET Parts
    /\ IsFiniteSet(Threads)
    /\ None \notin Threads /\ None \notin Tickers /\ None \notin Tickers \X (1 .. MaxVersion)

VARIABLES file,        \* ticker -> its payload file: None, or a version
          holds,       \* the parts a version's payload holds
          fits,        \* whether a version's tensors fit the base policy
          torn,        \* tickers whose file is being rewritten
          head,        \* action_net.weight, action_net.bias and log_std
          loadedTicker,\* _loaded_ticker
          lock,        \* the thread holding _lock, or None
          pc,          \* thread -> where it stands
          ticker,      \* thread -> the ticker of its call
          payload,     \* thread -> the payload it has read
          calls,       \* calls made so far
          applied,     \* the head that the loads and resets that returned make,
                       \* one after the other (history)
          latest       \* the payload loaded last, None after a reset (history)

store == <<file, holds, fits, torn>>
history == <<applied, latest>>
vars == <<store, head, loadedTicker, lock, pc, ticker, payload, calls, history>>

Versions == 1 .. MaxVersion
Payloads == Tickers \X Versions
Base == <<None, 0>>
Tensors == Payloads \cup {Base}
BaseHead == [part \in Parts |-> Base]

\* A head after a payload was loaded over it.
Patched(h, load) == [part \in Parts |-> IF part \in holds[load[2]] THEN load ELSE h[part]]

\* __init__ keeps clones of the base head and has no ticker loaded.
Init ==
    /\ file = [t \in Tickers |-> None] /\ torn = {}
    /\ fits \in [Versions -> BOOLEAN] /\ holds \in [Versions -> Holdings]
    /\ head = BaseHead /\ loadedTicker = None /\ lock = None
    /\ pc = [th \in Threads |-> "idle"] /\ ticker = [th \in Threads |-> None]
    /\ payload = [th \in Threads |-> None]
    /\ calls = 0 /\ applied = BaseHead /\ latest = None

-----------------------------------------------------------------------------
(* The payload files: whoever writes one truncates it and writes it anew.    *)

Version(t) == IF file[t] = None THEN 0 ELSE file[t]

BeginSave(t) ==
    /\ t \notin torn /\ Version(t) < MaxVersion
    /\ torn' = torn \cup {t}
    /\ file' = [file EXCEPT ![t] = Version(t) + 1]
    /\ UNCHANGED <<holds, fits, head, loadedTicker, lock, pc, ticker, payload, calls, history>>

EndSave(t) ==
    /\ t \in torn
    /\ torn' = torn \ {t}
    /\ UNCHANGED <<file, holds, fits, head, loadedTicker, lock, pc, ticker, payload, calls,
                   history>>

-----------------------------------------------------------------------------
(* Calls *)

Goto(th, where) == pc' = [pc EXCEPT ![th] = where]

Call(th, where) ==
    /\ pc[th] = "idle" /\ calls < MaxCalls
    /\ calls' = calls + 1
    /\ Goto(th, where)

\* The `with self._lock` block: taken when free, left on return and on raise.
LockFree_Always(th) == TRUE
LockFree(th) == lock = None

Enter(th, from, to) ==
    /\ pc[th] = from /\ LockFree(th)
    /\ lock' = th
    /\ Goto(th, to)

\* The call returns or raises; its local variables go with it.
Released_Held(th) == lock
Released(th) == None

Return(th) ==
    /\ lock' = Released(th)
    /\ Goto(th, "idle")
    /\ ticker' = [ticker EXCEPT ![th] = None] /\ payload' = [payload EXCEPT ![th] = None]

-----------------------------------------------------------------------------
(* load_ticker_policy *)

\* FileNotFoundError, and a torn file torch.load cannot read, raise here.
ReadPayload(th, t) ==
    /\ Call(th, "load")
    /\ file[t] # None /\ t \notin torn
    /\ ticker' = [ticker EXCEPT ![th] = t]
    /\ payload' = [payload EXCEPT ![th] = <<t, file[t]>>]
    /\ UNCHANGED <<store, head, loadedTicker, lock, history>>

CannotRead(th, t) ==
    /\ Call(th, "idle")
    /\ file[t] = None \/ t \in torn
    /\ UNCHANGED <<store, head, loadedTicker, lock, ticker, payload, history>>

EnterLoad(th) ==
    /\ Enter(th, "load", "weight")
    /\ UNCHANGED <<store, head, loadedTicker, ticker, payload, calls, history>>

\* load_state_dict(strict=False), then log_std if there is one: the parts the
\* payload holds are copied one by one.
Held(th) == holds[payload[th][2]]
Misfits(th) ==
    /\ ~fits[payload[th][2]]
    /\ \/ pc[th] = "weight" /\ Held(th) \cap {"weight", "bias"} # {}
       \/ pc[th] = "logStd" /\ "logStd" \in Held(th)

CopyOf(th, part) == IF part \in Held(th) THEN payload[th] ELSE head[part]

After(part) == CASE part = "weight" -> "bias" [] part = "bias" -> "logStd"
                 [] part = "logStd" -> "loaded"

Copy(th, part) ==
    /\ pc[th] = part /\ ~Misfits(th)
    /\ head' = [head EXCEPT ![part] = CopyOf(th, part)]
    /\ Goto(th, After(part))
    /\ UNCHANGED <<store, loadedTicker, lock, ticker, payload, calls, history>>

\* RuntimeError from load_state_dict or copy_: the block is left with nothing
\* copied.
Misfit(th) ==
    /\ pc[th] \in Parts /\ Misfits(th)
    /\ Return(th)
    /\ UNCHANGED <<store, head, loadedTicker, calls, history>>

\* _loaded_ticker is set as the block's last statement.
Loaded(th) ==
    /\ pc[th] = "loaded"
    /\ loadedTicker' = ticker[th]
    /\ applied' = Patched(applied, payload[th]) /\ latest' = payload[th]
    /\ Return(th)
    /\ UNCHANGED <<store, head, calls>>

-----------------------------------------------------------------------------
(* reset_to_base *)

CallReset(th) ==
    /\ Call(th, "reset")
    /\ UNCHANGED <<store, head, loadedTicker, lock, ticker, payload, history>>

EnterReset(th) ==
    /\ Enter(th, "reset", "pristine")
    /\ UNCHANGED <<store, head, loadedTicker, ticker, payload, calls, history>>

RestoreHead(th) ==
    /\ pc[th] = "pristine"
    /\ head' = [head EXCEPT !["weight"] = Base, !["bias"] = Base]
    /\ Goto(th, "restored")
    /\ UNCHANGED <<store, loadedTicker, lock, ticker, payload, calls, history>>

TickerAfterReset_Kept == loadedTicker
TickerAfterReset == None

EndReset(th) ==
    /\ pc[th] = "restored"
    /\ head' = [head EXCEPT !["logStd"] = Base]
    /\ loadedTicker' = TickerAfterReset
    /\ applied' = BaseHead /\ latest' = None
    /\ Return(th)
    /\ UNCHANGED <<store, calls>>

-----------------------------------------------------------------------------
(* predict_weights *)

CallPredict(th) ==
    /\ Call(th, "predict")
    /\ UNCHANGED <<store, head, loadedTicker, lock, ticker, payload, history>>

EnterPredict(th) ==
    /\ Enter(th, "predict", "forward")
    /\ UNCHANGED <<store, head, loadedTicker, ticker, payload, calls, history>>

\* model.predict() reads weight, bias and log_std.
Forward(th) ==
    /\ pc[th] = "forward"
    /\ Return(th)
    /\ UNCHANGED <<store, head, loadedTicker, calls, history>>

-----------------------------------------------------------------------------

CallStep(th) ==
    \/ EnterLoad(th) \/ (\E part \in Parts : Copy(th, part)) \/ Misfit(th) \/ Loaded(th)
    \/ EnterReset(th) \/ RestoreHead(th) \/ EndReset(th)
    \/ EnterPredict(th) \/ Forward(th)

Next ==
    \/ \E t \in Tickers : BeginSave(t) \/ EndSave(t)
    \/ \E th \in Threads :
          \/ \E t \in Tickers : ReadPayload(th, t) \/ CannotRead(th, t)
          \/ CallReset(th) \/ CallPredict(th)
          \/ CallStep(th)

\* A thread inside a call is scheduled, and gets the lock if it is free again
\* and again.
Spec == Init /\ [][Next]_vars /\ \A th \in Threads : SF_vars(CallStep(th))

-----------------------------------------------------------------------------
(* Properties *)

Locked(th) == pc[th] \in {"weight", "bias", "logStd", "loaded", "pristine", "restored",
                          "forward"}

TypeOK ==
    /\ file \in [Tickers -> Versions \cup {None}] /\ torn \subseteq Tickers
    /\ holds \in [Versions -> SUBSET Parts] /\ fits \in [Versions -> BOOLEAN]
    /\ head \in [Parts -> Tensors] /\ applied \in [Parts -> Tensors]
    /\ latest \in Payloads \cup {None}
    /\ loadedTicker \in Tickers \cup {None}
    /\ lock \in Threads \cup {None}
    /\ pc \in [Threads -> {"idle", "load", "weight", "bias", "logStd", "loaded", "reset",
                          "pristine", "restored", "predict", "forward"}]
    /\ \A th \in Threads : Locked(th) <=> lock = th
    /\ ticker \in [Threads -> Tickers \cup {None}]
    /\ payload \in [Threads -> Payloads \cup {None}]
    /\ calls \in 0 .. MaxCalls

(***************************************************************************)
(* "the cached model never sees a half-applied state dict" (lines 51-53):  *)
(* a forward pass uses exactly the head that the loads and resets before   *)
(* it make one after the other, whatever other ones run beside it, were    *)
(* made for another number of strategies or hold only some of the parts.   *)
(***************************************************************************)
NeverHalfApplied == \A th \in Threads : pc[th] = "forward" => head = applied

(***************************************************************************)
(* "Ticker whose head is currently active, or None if base weights are in  *)
(* place" (line 116): whenever no call is inside the lock, loaded_ticker   *)
(* is None and the whole head is the base's, or it names the payload that  *)
(* every part it holds was taken from; also after a load that raised.      *)
(***************************************************************************)
LoadedTickerNamesHead ==
    lock = None =>
        IF loadedTicker = None THEN head = BaseHead
        ELSE /\ latest # None /\ loadedTicker = latest[1]
             /\ \A part \in holds[latest[2]] : head[part] = latest

(***************************************************************************)
(* Every call returns: the lock is given back on the paths that raise.     *)
(***************************************************************************)
CallsReturn == \A th \in Threads : pc[th] # "idle" ~> pc[th] = "idle"
=============================================================================
