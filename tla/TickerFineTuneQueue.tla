--------------------------- MODULE TickerFineTuneQueue ---------------------------
(***************************************************************************)
(* pipeline/train_orchestrator.py, Stage 3: the asyncio queue of           *)
(* fine-tuning jobs (TickerFineTuneQueue), its worker tasks, the thread    *)
(* pool the blocking jobs run in, and the jobs (stage_3_finetune_ticker)   *)
(* reading the shared, unlocked caches of SettingsFeatureProvider          *)
(* (pipeline/orchestrator_provider.py).                                    *)
(*                                                                         *)
(* The event loop runs one task at a time between two awaits; the jobs run *)
(* in threads beside it.  One client task calls start, submit, join and    *)
(* stop one after the other, in any order, as run_full_orchestration does  *)
(* in one of them.                                                         *)
(***************************************************************************)
EXTENDS Integers, Sequences, FiniteSets

CONSTANTS Tickers,       \* tickers a request may name
          Workers,       \* worker tasks start() may create
          ConcurrencyLimits, \* values of max_concurrent
          MaxRequests    \* bound on the requests submitted

ASSUME QueueAssumption ==
    /\ ConcurrencyLimits \subseteq Nat \ {0}
    /\ MaxRequests \in Nat
    /\ IsFiniteSet(Workers)

VARIABLES maxConcurrent, \* the constructor's max_concurrent
          client,        \* what the client task is doing
          stopSet,       \* the _stop event
          requests,      \* the tickers submitted: request number -> ticker
          queue,         \* _queue: the request numbers waiting
          unfinished,    \* the queue's count of unfinished tasks
          worker,        \* worker task -> "none", "polling", "holding",
                         \* "running" or "ended"
          held,          \* worker task -> the request it took (0: none)
          permits,       \* permits of the semaphore taken
          job,           \* request -> "waiting", "pool", "running", "raised" or "saved"
          reads,         \* request -> the provider arrays its job has read
          missed,        \* request -> whether its job is building a ticker's arrays
          cache,         \* ticker -> the build in _ticker_cache (0 when absent)
          builds         \* builds made by the provider so far

control == <<maxConcurrent, client, stopSet>>
tasks == <<queue, unfinished, worker, held, permits>>
provider == <<reads, missed, cache, builds>>
queueVars == <<maxConcurrent, client, stopSet, requests, queue, unfinished, worker, held,
          permits, job, reads, missed, cache, builds>>

Requests == 1 .. MaxRequests

\* Semaphore(max_concurrent) and ThreadPoolExecutor(max(1, max_concurrent)).
Slots == maxConcurrent

QueueInit ==
    /\ maxConcurrent \in ConcurrencyLimits
    /\ client = "new" /\ stopSet = FALSE
    /\ requests = <<>> /\ queue = <<>> /\ unfinished = 0
    /\ worker = [w \in Workers |-> "none"] /\ held = [w \in Workers |-> 0]
    /\ permits = 0
    /\ job = [r \in Requests |-> "waiting"]
    /\ reads = [r \in Requests |-> <<>>] /\ missed = [r \in Requests |-> FALSE]
    /\ cache = [t \in Tickers |-> 0] /\ builds = 0

-----------------------------------------------------------------------------
(* The client task *)

\* submit(): put() on an unbounded queue never waits.
Submit(t) ==
    /\ client \in {"new", "started", "joined"} /\ Len(requests) < MaxRequests
    /\ client' = IF client = "joined" THEN "started" ELSE client
    /\ requests' = Append(requests, t)
    /\ queue' = Append(queue, Len(requests) + 1)
    /\ unfinished' = unfinished + 1
    /\ UNCHANGED <<maxConcurrent, stopSet, worker, held, permits, job, provider>>

\* start(n_workers): the tasks begin with their first queue.get().
Start(ws) ==
    /\ client = "new"
    /\ client' = "started"
    /\ worker' = [w \in Workers |-> IF w \in ws THEN "polling" ELSE "none"]
    /\ UNCHANGED <<maxConcurrent, stopSet, requests, queue, unfinished, held, permits, job, provider>>

Join ==
    /\ client \in {"started", "joined"}
    /\ client' = "joining"
    /\ UNCHANGED <<maxConcurrent, stopSet, requests, tasks, job, provider>>

\* Queue.join() returns once the count of unfinished tasks is zero.
JoinReturns ==
    /\ client = "joining" /\ unfinished = 0
    /\ client' = "joined"
    /\ UNCHANGED <<maxConcurrent, stopSet, requests, tasks, job, provider>>

\* stop() sets the event and cancels the workers before its first await.
Stop ==
    /\ client \in {"started", "joined"}
    /\ client' = "stopping" /\ stopSet' = TRUE
    /\ UNCHANGED <<maxConcurrent, requests, tasks, job, provider>>

\* executor.shutdown(wait=True), after the cancelled tasks were gathered.
PoolDrained_NoWait == TRUE
PoolDrained == \A r \in Requests : job[r] \notin {"pool", "running"}

StopReturns ==
    /\ client = "stopping"
    /\ \A w \in Workers : worker[w] \in {"none", "ended"}
    /\ PoolDrained
    /\ client' = "stopped"
    /\ UNCHANGED <<maxConcurrent, stopSet, requests, tasks, job, provider>>

-----------------------------------------------------------------------------
(* The worker tasks: _worker_loop *)

\* wait_for(queue.get(), 1.0); a timeout only goes round the loop again.
Take(w) ==
    /\ worker[w] = "polling" /\ ~stopSet /\ queue # <<>>
    /\ worker' = [worker EXCEPT ![w] = "holding"]
    /\ held' = [held EXCEPT ![w] = Head(queue)]
    /\ queue' = Tail(queue)
    /\ UNCHANGED <<control, requests, unfinished, permits, job, provider>>

\* The semaphore is acquired and the job handed to the pool.
Dispatch(w) ==
    /\ worker[w] = "holding" /\ ~stopSet /\ permits < Slots
    /\ permits' = permits + 1
    /\ worker' = [worker EXCEPT ![w] = "running"]
    /\ job' = [job EXCEPT ![held[w]] = "pool"]
    /\ UNCHANGED <<control, requests, queue, unfinished, held, provider>>

\* The job run_in_executor was awaited for is over.
JobOver_NotAwaited(w) == TRUE
JobOver(w) == job[held[w]] \in {"raised", "saved"}

\* The finally clause calls task_done however the job ended.
TaskDone_OnSuccess(w) == IF job[held[w]] = "saved" THEN unfinished - 1 ELSE unfinished
TaskDone(w) == unfinished - 1

Complete(w) ==
    /\ worker[w] = "running" /\ ~stopSet /\ JobOver(w)
    /\ permits' = permits - 1
    /\ unfinished' = TaskDone(w)
    /\ worker' = [worker EXCEPT ![w] = "polling"]
    /\ held' = [held EXCEPT ![w] = 0]
    /\ UNCHANGED <<control, requests, queue, job, provider>>

\* Outside the try block there is no task to be done with.
DoneOnCancel(w) == IF worker[w] = "polling" THEN unfinished ELSE unfinished - 1

\* The cancellation reaches a worker at its await: the semaphore is released,
\* task_done called, a job still in the pool's queue is cancelled with it and
\* a job that runs goes on running.
Cancelled(w) ==
    /\ stopSet /\ worker[w] \in {"polling", "holding", "running"}
    /\ worker' = [worker EXCEPT ![w] = "ended"]
    /\ unfinished' = DoneOnCancel(w)
    /\ permits' = IF worker[w] = "running" THEN permits - 1 ELSE permits
    /\ job' = IF worker[w] = "running" /\ job[held[w]] = "pool"
              THEN [job EXCEPT ![held[w]] = "waiting"] ELSE job
    /\ held' = [held EXCEPT ![w] = 0]
    /\ UNCHANGED <<control, requests, queue, provider>>

-----------------------------------------------------------------------------
(* The jobs *)

RunningJobs == {r \in Requests : job[r] = "running"}

\* A free thread of the pool takes up the job.
BeginJob(r) ==
    /\ job[r] = "pool" /\ Cardinality(RunningJobs) < Slots
    /\ job' = [job EXCEPT ![r] = "running"]
    /\ UNCHANGED <<control, requests, tasks, provider>>

\* get_ticker_features, get_ticker_strategy_returns, get_ticker_benchmark_returns.
ReadsLeft(r) == job[r] = "running" /\ Len(reads[r]) < 3

ReadCached(r) ==
    /\ ReadsLeft(r) /\ ~missed[r] /\ cache[requests[r]] # 0
    /\ reads' = [reads EXCEPT ![r] = Append(@, cache[requests[r]])]
    /\ UNCHANGED <<control, requests, tasks, job, missed, cache, builds>>

\* _get_ticker does not find the ticker and starts to build its arrays ...
MissCache(r) ==
    /\ ReadsLeft(r) /\ ~missed[r] /\ cache[requests[r]] = 0
    /\ missed' = [missed EXCEPT ![r] = TRUE]
    /\ UNCHANGED <<control, requests, tasks, job, reads, cache, builds>>

\* ... and, whether from the bank or from synthetic returns, caches them.
Stored_NotKept(t, build) == cache
Stored(t, build) == [cache EXCEPT ![t] = build]

StoreBuilt(r) ==
    /\ ReadsLeft(r) /\ missed[r]
    /\ builds' = builds + 1
    /\ cache' = Stored(requests[r], builds + 1)
    /\ reads' = [reads EXCEPT ![r] = Append(@, builds + 1)]
    /\ missed' = [missed EXCEPT ![r] = FALSE]
    /\ UNCHANGED <<control, requests, tasks, job>>

\* A job raises: on a missing encoder, on a width or timeline that does not
\* match, and at the latest where it builds its WalkForwardFold without
\* purge_start and purge_end, before anything is trained or saved.
JobRaises(r) ==
    /\ job[r] = "running"
    /\ job' = [job EXCEPT ![r] = "raised"]
    /\ missed' = [missed EXCEPT ![r] = FALSE]
    /\ UNCHANGED <<control, requests, tasks, reads, cache, builds>>

-----------------------------------------------------------------------------

WorkerStep(w) == Take(w) \/ Dispatch(w) \/ Complete(w) \/ Cancelled(w)
JobStep(r) == BeginJob(r) \/ ReadCached(r) \/ MissCache(r) \/ StoreBuilt(r) \/ JobRaises(r)

QueueNext ==
    \/ \E t \in Tickers : Submit(t)
    \/ \E ws \in SUBSET Workers \ {{}} : Start(ws)
    \/ Join \/ JoinReturns \/ Stop \/ StopReturns
    \/ \E w \in Workers : WorkerStep(w)
    \/ \E r \in Requests : JobStep(r)

(***************************************************************************)
(* The event loop resumes every task whose await is over, and the threads  *)
(* of the pool are scheduled by the operating system; nothing makes the    *)
(* client call anything.                                                   *)
(***************************************************************************)
QueueSpec ==
    /\ QueueInit /\ [][QueueNext]_queueVars
    /\ WF_queueVars(JoinReturns) /\ WF_queueVars(StopReturns)
    /\ \A w \in Workers : WF_queueVars(WorkerStep(w))
    /\ \A r \in Requests : WF_queueVars(JobStep(r))

-----------------------------------------------------------------------------
(* Properties *)

InHand == {w \in Workers : worker[w] \in {"holding", "running"}}

(***************************************************************************)
(* Types; and the queue's count of unfinished tasks is exactly the         *)
(* requests waiting and in the workers' hands, so task_done never raises   *)
(* ("called too many times") and join() waits for precisely these.         *)
(***************************************************************************)
QueueTypeOK ==
    /\ maxConcurrent \in ConcurrencyLimits /\ stopSet \in BOOLEAN
    /\ client \in {"new", "started", "joining", "joined", "stopping", "stopped"}
    /\ requests \in Seq(Tickers) /\ queue \in Seq(Requests)
    /\ worker \in [Workers -> {"none", "polling", "holding", "running", "ended"}]
    /\ held \in [Workers -> Requests \cup {0}]
    /\ job \in [Requests -> {"waiting", "pool", "running", "raised", "saved"}]
    /\ cache \in [Tickers -> Nat] /\ builds \in Nat
    /\ unfinished = Len(queue) + Cardinality(InHand)

(***************************************************************************)
(* "concurrent GPU access is serialized via an asyncio.Semaphore to avoid  *)
(* VRAM contention" (lines 634-636): whoever has given back a permit, no   *)
(* more than max_concurrent jobs are in the pool, those included that wait *)
(* in it for a thread or that cancelled workers have left behind.  So the  *)
(* semaphore alone holds them back, and a job never queues up behind       *)
(* another that runs on after its permit was released.                     *)
(***************************************************************************)
HandedOver == {r \in Requests : job[r] \in {"pool", "running"}}

GpuSerialized == Cardinality(HandedOver) <= maxConcurrent

(***************************************************************************)
(* "Block until every queued job has finished" (line 705): when join()     *)
(* has returned, every request submitted before it has run to its end,     *)
(* although all of them failed; and no request is ever run by two workers. *)
(***************************************************************************)
JoinedMeansFinished ==
    /\ client = "joined" => \A r \in DOMAIN requests : job[r] \in {"raised", "saved"}
    /\ \A v, w \in InHand : held[v] = held[w] => v = w

(***************************************************************************)
(* stop() cancels tasks whose threads cannot be cancelled; once it has     *)
(* returned no job is left running behind the caller's back.               *)
(***************************************************************************)
StoppedIsQuiet == client = "stopped" => RunningJobs = {} /\ permits = 0

(***************************************************************************)
(* The three arrays a job reads one by one from the unlocked cache belong  *)
(* to one build, for a ticker submitted only once.                         *)
(***************************************************************************)
ArraysFromOneBuild ==
    \A r \in DOMAIN requests :
        (\A s \in DOMAIN requests : requests[s] = requests[r] => s = r) =>
            \A i, j \in DOMAIN reads[r] : reads[r][i] = reads[r][j]

(***************************************************************************)
(* A call of join() or stop() returns: a failing job gives its semaphore   *)
(* permit and its task_done back, and a running one outlives its task.     *)
(***************************************************************************)
CallsReturn ==
    /\ client = "joining" ~> client = "joined"
    /\ client = "stopping" ~> client = "stopped"
=============================================================================
