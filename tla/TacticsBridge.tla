----------------------------- MODULE TacticsBridge -----------------------------
(***************************************************************************)
(* The tactics bridge (03_tactics/tactics_bridge.py): the single-worker    *)
(* pool that runs the intraday scans behind a counting semaphore, the      *)
(* bounded Eagle persistence pool beside it, and the 15:05 flush that      *)
(* replaces both while scans, timer threads and workers are still moving.  *)
(*                                                                         *)
(* A step is a stretch of code between two lock or semaphore operations.   *)
(* What a tactic does is left out: safe_execute_tactic swallows whatever   *)
(* it raises, so its end is a step of the worker.                          *)
(***************************************************************************)
EXTENDS Integers, FiniteSets, Sequences

CONSTANTS
    Tasks,          \* calls of fire_and_forget
    Writes,         \* calls of _submit_eagle_persistence, one per timer thread
    Capacity,       \* _BACKPRESSURE_CAPACITY (5)
    EagleCapacity,  \* _EAGLE_PERSISTENCE_CAPACITY (100)
    MaxFlushes,     \* bound on the flushes in a behaviour
    MaxFaults       \* bound on submissions the pool itself refuses

\* Who may hold the lifecycle lock beside a write.
Nobody == "nobody"
Flusher == "flush"

ASSUME BridgeAssumption ==
    /\ IsFiniteSet(Tasks) /\ IsFiniteSet(Writes)
    /\ Nobody \notin Writes /\ Flusher \notin Writes
    /\ Capacity \in Nat \ {0} /\ EagleCapacity \in Nat \ {0}
    /\ MaxFlushes \in Nat /\ MaxFaults \in Nat

VARIABLES
    task,       \* where each tactic call is
    queue,      \* work queue of _executor
    pool,       \* _executor: "open", or "closed" once shutdown was called
    permits,    \* value of _backpressure
    inflight, active,           \* _backpressure_stats
    write,      \* where each Eagle write is
    eagleQueue, eaglePool, slots, eagleInflight,
    lifecycle,  \* holder of _eagle_persistence_lifecycle_lock
    flush,      \* where daily_flush is
    flushes, faults             \* bounds

tactics == <<task, queue, pool, permits, inflight, active>>
eagle   == <<write, eagleQueue, eaglePool, slots, eagleInflight, lifecycle>>
vars    == <<tactics, eagle, flush, flushes, faults>>

Submitting == {"granted", "counted", "refused"}    \* inside fire_and_forget
Holding    == Submitting \union {"queued", "running", "settled"}
TasksIn(states) == {t \in Tasks : task[t] \in states}
WritesIn(states) == {e \in Writes : write[e] \in states}

AtLeastZero(n) == IF n > 0 THEN n ELSE 0

TaskTo(t, state) == task' = [task EXCEPT ![t] = state]
WriteTo(e, state) == write' = [write EXCEPT ![e] = state]

Init ==
    /\ task = [t \in Tasks |-> "new"] /\ queue = <<>> /\ pool = "open"
    /\ permits = Capacity /\ inflight = 0 /\ active = 0
    /\ write = [e \in Writes |-> "new"] /\ eagleQueue = <<>> /\ eaglePool = "open"
    /\ slots = EagleCapacity /\ eagleInflight = 0 /\ lifecycle = Nobody
    /\ flush = "idle" /\ flushes = 0 /\ faults = 0

-------------------------------------------------------------------------------
(* fire_and_forget, called by the one thread of the intraday job.           *)

\* _backpressure.acquire(blocking=False).
Acquire(t) ==
    /\ task[t] = "new" /\ TasksIn(Submitting) = {}
    /\ IF permits > 0
       THEN permits' = permits - 1 /\ TaskTo(t, "granted")
       ELSE TaskTo(t, "rejected") /\ UNCHANGED permits
    /\ UNCHANGED <<queue, pool, inflight, active, eagle, flush, flushes, faults>>

Count(t) ==
    /\ task[t] = "granted"
    /\ inflight' = inflight + 1
    /\ TaskTo(t, "counted")
    /\ UNCHANGED <<queue, pool, permits, active, eagle, flush, flushes, faults>>

\* _executor.submit: a pool that was shut down raises, any pool may.
Submit(t) ==
    /\ task[t] = "counted"
    /\ \/ /\ pool = "open"
          /\ queue' = Append(queue, t)
          /\ TaskTo(t, "queued")
          /\ UNCHANGED <<inflight, faults>>
       \/ /\ \/ pool = "closed" /\ UNCHANGED faults
             \/ pool = "open" /\ faults < MaxFaults /\ faults' = faults + 1
          /\ inflight' = AtLeastZero(inflight - 1)
          /\ TaskTo(t, "refused")
          /\ UNCHANGED queue
    /\ UNCHANGED <<pool, permits, active, eagle, flush, flushes>>

\* The except branch gives the permit back.
GiveBackNothing(t) ==
    /\ task[t] = "refused"
    /\ TaskTo(t, "failed")
    /\ UNCHANGED <<permits, queue, pool, inflight, active, eagle, flush, flushes, faults>>
GiveBack(t) ==
    /\ task[t] = "refused"
    /\ permits' = permits + 1
    /\ TaskTo(t, "failed")
    /\ UNCHANGED <<queue, pool, inflight, active, eagle, flush, flushes, faults>>

-------------------------------------------------------------------------------
(* The worker thread of _executor, in _wrapped_with_release.                *)

Begin ==
    /\ queue # <<>> /\ TasksIn({"running", "settled"}) = {}
    /\ active' = active + 1
    /\ TaskTo(Head(queue), "running")
    /\ queue' = Tail(queue)
    /\ UNCHANGED <<pool, permits, inflight, eagle, flush, flushes, faults>>

\* The finally block: the counters first, the permit after them.
Settle(t) ==
    /\ task[t] = "running"
    /\ active' = AtLeastZero(active - 1)
    /\ inflight' = AtLeastZero(inflight - 1)
    /\ TaskTo(t, "settled")
    /\ UNCHANGED <<queue, pool, permits, eagle, flush, flushes, faults>>

Release(t) ==
    /\ task[t] = "settled"
    /\ permits' = permits + 1
    /\ TaskTo(t, "done")
    /\ UNCHANGED <<queue, pool, inflight, active, eagle, flush, flushes, faults>>

-------------------------------------------------------------------------------
(* _submit_eagle_persistence, called by the Eagle timer threads, and its    *)
(* worker.                                                                  *)

Lock(e) ==
    /\ write[e] = "new" /\ lifecycle = Nobody
    /\ lifecycle' = e
    /\ WriteTo(e, "locked")
    /\ UNCHANGED <<tactics, eagleQueue, eaglePool, slots, eagleInflight, flush, flushes, faults>>

\* slot.acquire(timeout): a free slot is taken, a full queue rejects the write.
TakeSlotKeepingLock(e) ==
    /\ write[e] = "locked"
    /\ \/ /\ slots > 0
          /\ slots' = slots - 1 /\ eagleInflight' = eagleInflight + 1
          /\ WriteTo(e, "counted")
       \/ /\ slots = 0
          /\ WriteTo(e, "rejected")
          /\ UNCHANGED <<slots, eagleInflight>>
    /\ UNCHANGED <<tactics, eagleQueue, eaglePool, lifecycle, flush, flushes, faults>>
TakeSlot(e) ==
    /\ write[e] = "locked"
    /\ \/ /\ slots > 0
          /\ slots' = slots - 1 /\ eagleInflight' = eagleInflight + 1
          /\ WriteTo(e, "counted")
          /\ UNCHANGED lifecycle
       \/ /\ slots = 0
          /\ WriteTo(e, "rejected") /\ lifecycle' = Nobody
          /\ UNCHANGED <<slots, eagleInflight>>
    /\ UNCHANGED <<tactics, eagleQueue, eaglePool, flush, flushes, faults>>

\* The submission, still under the lifecycle lock; on an exception the slot returns.
SubmitWrite(e) ==
    /\ write[e] = "counted"
    /\ \/ /\ eaglePool = "open"
          /\ eagleQueue' = Append(eagleQueue, e)
          /\ WriteTo(e, "queued")
          /\ UNCHANGED <<slots, eagleInflight, faults>>
       \/ /\ eaglePool = "closed" \/ faults < MaxFaults
          /\ faults' = faults + 1
          /\ slots' = slots + 1
          /\ eagleInflight' = AtLeastZero(eagleInflight - 1)
          /\ WriteTo(e, "failed")
          /\ UNCHANGED eagleQueue
    /\ lifecycle' = Nobody
    /\ UNCHANGED <<tactics, eaglePool, flush, flushes>>

BeginWrite ==
    /\ eagleQueue # <<>> /\ WritesIn({"running", "settled"}) = {}
    /\ WriteTo(Head(eagleQueue), "running")
    /\ eagleQueue' = Tail(eagleQueue)
    /\ UNCHANGED <<tactics, eaglePool, slots, eagleInflight, lifecycle, flush, flushes, faults>>

SettleWrite(e) ==
    /\ write[e] = "running"
    /\ eagleInflight' = AtLeastZero(eagleInflight - 1)
    /\ WriteTo(e, "settled")
    /\ UNCHANGED <<tactics, eagleQueue, eaglePool, slots, lifecycle, flush, flushes, faults>>

ReleaseSlot(e) ==
    /\ write[e] = "settled"
    /\ slots' = slots + 1
    /\ WriteTo(e, "done")
    /\ UNCHANGED <<tactics, eagleQueue, eaglePool, eagleInflight, lifecycle, flush, flushes, faults>>

-------------------------------------------------------------------------------
(* daily_flush, from the shutdown of the tactic pool on.                    *)

\* shutdown(wait=True, cancel_futures=True): what is queued will never run.
Shutdown ==
    /\ flush = "idle" /\ flushes < MaxFlushes
    /\ flushes' = flushes + 1
    /\ flush' = "drain"
    /\ pool' = "closed"
    /\ task' = [t \in Tasks |-> IF task[t] = "queued" THEN "cancelled" ELSE task[t]]
    /\ queue' = <<>>
    /\ UNCHANGED <<permits, inflight, active, eagle, faults>>

\* The running scan is over: a new pool, the same semaphore and counters.
Reopen ==
    /\ flush = "drain" /\ TasksIn({"running", "settled"}) = {}
    /\ pool' = "open"
    /\ flush' = "lock"
    /\ UNCHANGED <<task, queue, permits, inflight, active, eagle, flushes, faults>>

\* _recycle_eagle_persistence_executor: no submission gets in while it drains.
CloseEagleCancelling ==
    /\ flush = "lock" /\ lifecycle = Nobody
    /\ lifecycle' = Flusher /\ eaglePool' = "closed"
    /\ flush' = "eagle"
    /\ write' = [e \in Writes |-> IF write[e] = "queued" THEN "rejected" ELSE write[e]]
    /\ eagleQueue' = <<>>
    /\ UNCHANGED <<tactics, slots, eagleInflight, flushes, faults>>
CloseEagle ==
    /\ flush = "lock" /\ lifecycle = Nobody
    /\ lifecycle' = Flusher /\ eaglePool' = "closed"
    /\ flush' = "eagle"
    /\ UNCHANGED <<tactics, write, eagleQueue, slots, eagleInflight, flushes, faults>>

\* The queue has run dry: a new pool and a new semaphore.
ReopenEagle ==
    /\ flush = "eagle" /\ eagleQueue = <<>> /\ WritesIn({"running", "settled"}) = {}
    /\ eaglePool' = "open" /\ slots' = EagleCapacity
    /\ lifecycle' = Nobody /\ flush' = "idle"
    /\ UNCHANGED <<tactics, write, eagleQueue, eagleInflight, flushes, faults>>

-------------------------------------------------------------------------------
Workers ==
    \/ Begin \/ \E t \in Tasks : Settle(t) \/ Release(t)
    \/ BeginWrite \/ \E e \in Writes : SettleWrite(e) \/ ReleaseSlot(e)

FlushStep == Reopen \/ CloseEagle \/ ReopenEagle

Next ==
    \/ \E t \in Tasks : Acquire(t) \/ Count(t) \/ Submit(t) \/ GiveBack(t)
    \/ \E e \in Writes : Lock(e) \/ TakeSlot(e) \/ SubmitWrite(e)
    \/ Workers \/ Shutdown \/ FlushStep

Spec == Init /\ [][Next]_vars

(***************************************************************************)
(* Scans, writes and timer threads keep running, and a started flush goes  *)
(* on; when the scheduler calls for a scan or a flush is left open.        *)
(***************************************************************************)
LiveSpec ==
    /\ Spec
    /\ WF_vars(Begin) /\ WF_vars(BeginWrite)
    /\ \A t \in Tasks : /\ WF_vars(Count(t)) /\ WF_vars(Submit(t)) /\ WF_vars(GiveBack(t))
                        /\ WF_vars(Settle(t)) /\ WF_vars(Release(t))
    /\ \A e \in Writes : /\ WF_vars(TakeSlot(e)) /\ WF_vars(SubmitWrite(e))
                         /\ WF_vars(SettleWrite(e)) /\ WF_vars(ReleaseSlot(e))
    /\ WF_vars(Reopen) /\ SF_vars(CloseEagle) /\ WF_vars(ReopenEagle)

-------------------------------------------------------------------------------
(* Properties. *)

TaskStates  == Holding \union {"new", "rejected", "failed", "done", "cancelled"}
WriteStates == {"new", "locked", "rejected", "counted", "failed", "queued",
                "running", "settled", "done"}
Waiting     == {"queued", "running", "settled"}

\* Type invariant of both pools.
TypeOK ==
    /\ task \in [Tasks -> TaskStates] /\ queue \in Seq(Tasks)
    /\ write \in [Writes -> WriteStates] /\ eagleQueue \in Seq(Writes)
    /\ {pool, eaglePool} \subseteq {"open", "closed"}
    /\ permits \in 0..Capacity /\ slots \in 0..EagleCapacity
    /\ {inflight, active, eagleInflight} \subseteq Nat
    /\ lifecycle \in Writes \union {Nobody, Flusher}
    /\ flush \in {"idle", "drain", "lock", "eagle"}
    /\ flushes \in 0..MaxFlushes /\ faults \in Nat

\* What the semaphore and the telemetry are short of is exactly the calls under
\* way and the futures a flush cancelled: a cancelled call loses its permit for
\* good, and nothing else does (_wrapped_with_release is the only way back).
PermitsAccounted ==
    LET cancelled == Cardinality(TasksIn({"cancelled"})) IN
    /\ permits + Cardinality(TasksIn(Holding)) + cancelled = Capacity
    /\ inflight = Cardinality(TasksIn({"counted", "queued", "running"})) + cancelled

\* The Eagle slots are all accounted for, across the replacement of the semaphore
\* by a flush: no slot of a previous semaphore is released into the new one; and the
\* lifecycle lock keeps a write from reaching a pool that is being replaced.
EagleSlotsAccounted ==
    /\ TypeOK
    /\ slots + Cardinality(WritesIn(Waiting \union {"counted"})) = EagleCapacity
    /\ eagleInflight = Cardinality(WritesIn({"counted", "queued", "running"}))
    /\ \A e \in Writes : write[e] = "counted" => eaglePool = "open"

\* Both pools' permits and slots are accounted for, scans and Eagle writes side by side.
SlotsAccounted == PermitsAccounted /\ EagleSlotsAccounted

\* An accepted Eagle write is carried out whatever is flushed in between
\* (cancel_futures=False).
AcceptedWritesRun == \A e \in Writes : write[e] = "queued" ~> write[e] = "done"

\* A flush comes to an end: neither the running scan nor the writers that want
\* the lifecycle lock can hold it up for ever.
FlushReturns == flush # "idle" ~> flush = "idle"
===============================================================================
