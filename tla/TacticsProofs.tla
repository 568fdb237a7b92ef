----------------------------- MODULE TacticsProofs -----------------------------
(***************************************************************************)
(* What holds of the tactics bridge for any number of scans, writers and   *)
(* flushes and any capacities: no permit and no slot is lost or given back *)
(* twice, except the permits of the calls a flush cancels.                 *)
(***************************************************************************)
EXTENDS TacticsBridge, FiniteSetTheorems, TLAPS

\* The types, apart from the upper ends of permits and slots, which need the accounts.
Typed ==
    /\ task \in [Tasks -> TaskStates] /\ queue \in Seq(Tasks)
    /\ write \in [Writes -> WriteStates] /\ eagleQueue \in Seq(Writes)
    /\ pool \in {"open", "closed"} /\ eaglePool \in {"open", "closed"}
    /\ permits \in Nat /\ slots \in Nat
    /\ inflight \in Nat /\ active \in Nat /\ eagleInflight \in Nat
    /\ lifecycle \in Writes \union {Nobody, Flusher}
    /\ flush \in {"idle", "drain", "lock", "eagle"}
    /\ flushes \in 0..MaxFlushes /\ faults \in Nat

\* A work queue holds each accepted item once, and nothing that was cancelled.
QueueSound ==
    /\ \A i \in 1..Len(queue) : task[queue[i]] = "queued"
    /\ \A i, j \in 1..Len(queue) : queue[i] = queue[j] => i = j

EagleQueueSound ==
    /\ \A i \in 1..Len(eagleQueue) : write[eagleQueue[i]] = "queued"
    /\ \A i, j \in 1..Len(eagleQueue) : eagleQueue[i] = eagleQueue[j] => i = j
    /\ \A e \in Writes : write[e] = "queued" => \E i \in 1..Len(eagleQueue) : eagleQueue[i] = e

\* The lifecycle lock is held by the write inside _submit_eagle_persistence, or by the
\* flush from closing the pool to its replacement.
LockHeld ==
    /\ \A e \in Writes : write[e] \in {"locked", "counted"} <=> lifecycle = e
    /\ flush = "eagle" <=> lifecycle = Flusher
    /\ eaglePool = "closed" => flush = "eagle"

EagleAccounts ==
    /\ slots + Cardinality(WritesIn(Waiting \union {"counted"})) = EagleCapacity
    /\ eagleInflight = Cardinality(WritesIn({"counted", "queued", "running"}))

BridgeInv ==
    /\ Typed /\ QueueSound /\ EagleQueueSound /\ LockHeld
    /\ PermitsAccounted /\ EagleAccounts

-------------------------------------------------------------------------------
(* Counting.  One item that changes its state changes each count by at most *)
(* one.                                                                     *)

One(b) == IF b THEN 1 ELSE 0

\* Moving one tactic call.
LEMMA TaskMoves ==
    ASSUME task \in [Tasks -> TaskStates], NEW t \in Tasks, NEW CONSTANT to, TaskTo(t, to),
           NEW CONSTANT S
    PROVE  /\ Cardinality(TasksIn(S)) \in Nat
           /\ Cardinality(TasksIn(S)') = Cardinality(TasksIn(S)) - One(task[t] \in S) + One(to \in S)
<1>1. IsFiniteSet(TasksIn(S))
  BY BridgeAssumption, FS_Subset DEF TasksIn
<1>2. Cardinality(TasksIn(S)) \in Nat
  BY <1>1, FS_CardinalityType
<1>3. t \in TasksIn(S) <=> task[t] \in S
  BY DEF TasksIn
<1>4. CASE to \in S
  <2>1. TasksIn(S)' = TasksIn(S) \union {t}
    BY <1>4 DEF TasksIn, TaskTo
  <2>. QED BY <1>1, <1>2, <1>3, <1>4, <2>1, FS_AddElement DEF One
<1>5. CASE to \notin S
  <2>1. TasksIn(S)' = TasksIn(S) \ {t}
    BY <1>5 DEF TasksIn, TaskTo
  <2>2. Cardinality(TasksIn(S) \ {t})
          = IF t \in TasksIn(S) THEN Cardinality(TasksIn(S)) - 1 ELSE Cardinality(TasksIn(S))
    BY <1>1, FS_RemoveElement
  <2>3. Cardinality(TasksIn(S)') = Cardinality(TasksIn(S) \ {t})
    BY <2>1
  <2>. QED BY <1>2, <1>3, <1>5, <2>2, <2>3 DEF One
<1>. QED BY <1>4, <1>5

\* Moving one Eagle write.
LEMMA WriteMoves ==
    ASSUME write \in [Writes -> WriteStates], NEW e \in Writes, NEW CONSTANT to, WriteTo(e, to),
           NEW CONSTANT S
    PROVE  /\ Cardinality(WritesIn(S)) \in Nat
           /\ Cardinality(WritesIn(S)') = Cardinality(WritesIn(S)) - One(write[e] \in S) + One(to \in S)
<1>1. IsFiniteSet(WritesIn(S))
  BY BridgeAssumption, FS_Subset DEF WritesIn
<1>2. Cardinality(WritesIn(S)) \in Nat
  BY <1>1, FS_CardinalityType
<1>3. e \in WritesIn(S) <=> write[e] \in S
  BY DEF WritesIn
<1>4. CASE to \in S
  <2>1. WritesIn(S)' = WritesIn(S) \union {e}
    BY <1>4 DEF WritesIn, WriteTo
  <2>. QED BY <1>1, <1>2, <1>3, <1>4, <2>1, FS_AddElement DEF One
<1>5. CASE to \notin S
  <2>1. WritesIn(S)' = WritesIn(S) \ {e}
    BY <1>5 DEF WritesIn, WriteTo
  <2>2. Cardinality(WritesIn(S) \ {e})
          = IF e \in WritesIn(S) THEN Cardinality(WritesIn(S)) - 1 ELSE Cardinality(WritesIn(S))
    BY <1>1, FS_RemoveElement
  <2>3. Cardinality(WritesIn(S)') = Cardinality(WritesIn(S) \ {e})
    BY <2>1
  <2>. QED BY <1>2, <1>3, <1>5, <2>2, <2>3 DEF One
<1>. QED BY <1>4, <1>5

\* The counts that PermitsAccounted speaks of.
Reserved  == Cardinality(TasksIn(Holding))
Lost      == Cardinality(TasksIn({"cancelled"}))
Submitted == Cardinality(TasksIn({"counted", "queued", "running"}))

\* They are natural numbers; a call that is moved changes them one by one.
LEMMA CallMoves ==
    ASSUME task \in [Tasks -> TaskStates], NEW t \in Tasks, NEW CONSTANT to, TaskTo(t, to)
    PROVE  /\ Reserved \in Nat /\ Lost \in Nat /\ Submitted \in Nat
           /\ Reserved' = Reserved - One(task[t] \in Holding) + One(to \in Holding)
           /\ Lost' = Lost - One(task[t] = "cancelled") + One(to = "cancelled")
           /\ Submitted' = Submitted - One(task[t] \in {"counted", "queued", "running"})
                                     + One(to \in {"counted", "queued", "running"})
<1>1. \A S : /\ Cardinality(TasksIn(S)) \in Nat
              /\ Cardinality(TasksIn(S)') = Cardinality(TasksIn(S)) - One(task[t] \in S) + One(to \in S)
  BY TaskMoves
<1>2. /\ Reserved \in Nat
      /\ Reserved' = Reserved - One(task[t] \in Holding) + One(to \in Holding)
  BY <1>1 DEF Reserved, Holding, Submitting
<1>3. /\ Lost \in Nat
      /\ Lost' = Lost - One(task[t] \in {"cancelled"}) + One(to \in {"cancelled"})
  BY <1>1 DEF Lost
<1>4. /\ Submitted \in Nat
      /\ Submitted' = Submitted - One(task[t] \in {"counted", "queued", "running"})
                                + One(to \in {"counted", "queued", "running"})
  BY <1>1 DEF Submitted
<1>. QED BY <1>2, <1>3, <1>4 DEF One

-------------------------------------------------------------------------------
(* Types, queues and lock.                                                  *)

\* The worker takes a queued item from the head.
LEMMA HeadIsQueued ==
    ASSUME Typed, QueueSound, queue # <<>>
    PROVE  Head(queue) \in Tasks /\ task[Head(queue)] = "queued"
BY DEF Typed, QueueSound

LEMMA HeadIsWaiting ==
    ASSUME Typed, EagleQueueSound, eagleQueue # <<>>
    PROVE  Head(eagleQueue) \in Writes /\ write[Head(eagleQueue)] = "queued"
BY DEF Typed, EagleQueueSound

\* Every step keeps the types.
LEMMA TypedStep ==
    ASSUME Typed, QueueSound, EagleQueueSound, [Next]_vars
    PROVE  Typed'
<1>. USE BridgeAssumption DEF Typed, TaskStates, WriteStates, Holding, Submitting, TaskTo, WriteTo,
         AtLeastZero
<1>1. ASSUME NEW t \in Tasks, Acquire(t) \/ Count(t) \/ GiveBack(t) \/ Settle(t) \/ Release(t)
      PROVE  Typed'
  <2>1. CASE Acquire(t)
    <3>1. permits' \in Nat
      BY <2>1 DEF Acquire
    <3>2. task' \in [Tasks -> TaskStates]
      BY <2>1 DEF Acquire
    <3>. QED BY <2>1, <3>1, <3>2 DEF Acquire, eagle
  <2>2. CASE Count(t) \/ GiveBack(t) \/ Release(t)
    <3>1. permits' \in Nat /\ inflight' \in Nat
      BY <2>2 DEF Count, GiveBack, Release
    <3>2. task' \in [Tasks -> TaskStates]
      BY <2>2 DEF Count, GiveBack, Release
    <3>. QED BY <2>2, <3>1, <3>2 DEF Count, GiveBack, Release, eagle
  <2>3. CASE Settle(t)
    BY <2>3 DEF Settle, eagle
  <2>. QED BY <1>1, <2>1, <2>2, <2>3
<1>2. ASSUME NEW t \in Tasks, Submit(t) PROVE Typed'
  <2>1. Append(queue, t) \in Seq(Tasks)
    OBVIOUS
  <2>2. queue' \in Seq(Tasks)
    BY <1>2, <2>1 DEF Submit
  <2>3. task' \in [Tasks -> TaskStates]
    BY <1>2 DEF Submit
  <2>4. faults' \in Nat /\ inflight' \in Nat
    BY <1>2 DEF Submit
  <2>. QED BY <1>2, <2>2, <2>3, <2>4 DEF Submit, eagle
<1>3. CASE Begin
  BY <1>3, HeadIsQueued DEF Begin, eagle
<1>4. ASSUME NEW e \in Writes, Lock(e) \/ TakeSlot(e) \/ SettleWrite(e) \/ ReleaseSlot(e)
      PROVE  Typed'
  <2>1. CASE Lock(e)
    BY <2>1 DEF Lock, tactics
  <2>2. CASE TakeSlot(e)
    BY <2>2 DEF TakeSlot, tactics
  <2>3. CASE SettleWrite(e)
    BY <2>3 DEF SettleWrite, tactics
  <2>4. CASE ReleaseSlot(e)
    BY <2>4 DEF ReleaseSlot, tactics
  <2>. QED BY <1>4, <2>1, <2>2, <2>3, <2>4
<1>5. ASSUME NEW e \in Writes, SubmitWrite(e) PROVE Typed'
  <2>1. Append(eagleQueue, e) \in Seq(Writes)
    OBVIOUS
  <2>2. eagleQueue' \in Seq(Writes)
    BY <1>5, <2>1 DEF SubmitWrite
  <2>3. write' \in [Writes -> WriteStates]
    BY <1>5 DEF SubmitWrite
  <2>4. faults' \in Nat /\ eagleInflight' \in Nat /\ slots' \in Nat
    BY <1>5 DEF SubmitWrite
  <2>. QED BY <1>5, <2>2, <2>3, <2>4 DEF SubmitWrite, tactics
<1>6. CASE BeginWrite
  BY <1>6, HeadIsWaiting DEF BeginWrite, tactics
<1>7. CASE Shutdown
  BY <1>7 DEF Shutdown, eagle
<1>8. CASE Reopen
  BY <1>8 DEF Reopen, eagle
<1>9. CASE CloseEagle \/ ReopenEagle
  BY <1>9 DEF CloseEagle, ReopenEagle, tactics
<1>10. CASE UNCHANGED vars
  BY <1>10 DEF vars, tactics, eagle
<1>. QED
  BY <1>1, <1>2, <1>3, <1>4, <1>5, <1>6, <1>7, <1>8, <1>9, <1>10 DEF Next, Workers, FlushStep

\* The tactic queue: a call is appended when it becomes queued, and leaves the queue
\* when the worker begins it; a flush empties the queue and cancels what was in it.
LEMMA QueueStep ==
    ASSUME Typed, QueueSound, [Next]_vars
    PROVE  QueueSound'
<1>. USE DEF Typed, QueueSound
<1>1. ASSUME NEW t \in Tasks, Submit(t), pool = "open", queue' = Append(queue, t), TaskTo(t, "queued")
      PROVE  QueueSound'
  <2>1. \A i \in 1..Len(queue) : queue[i] # t
    BY <1>1 DEF Submit
  <2>2. \A i \in 1..Len(queue') : queue'[i] = IF i <= Len(queue) THEN queue[i] ELSE t
    BY <1>1
  <2>3. Len(queue') = Len(queue) + 1
    BY <1>1
  <2>4. \A i \in 1..Len(queue) : queue[i] \in Tasks /\ task'[queue[i]] = "queued"
    BY <1>1, <2>1 DEF TaskTo
  <2>5. task'[t] = "queued"
    BY <1>1 DEF TaskTo
  <2>6. \A i \in 1..Len(queue') : task'[queue'[i]] = "queued"
    BY <2>2, <2>3, <2>4, <2>5
  <2>7. \A i, j \in 1..Len(queue') : queue'[i] = queue'[j] => i = j
    BY <2>1, <2>2, <2>3
  <2>. QED BY <2>6, <2>7
<1>2. ASSUME NEW t \in Tasks, NEW to, task[t] # "queued", TaskTo(t, to), queue' = queue
      PROVE  QueueSound'
  BY <1>2 DEF TaskTo
<1>3. CASE Begin
  <2>1. /\ Len(queue') = Len(queue) - 1 /\ Len(queue) \in Nat \ {0}
        /\ \A i \in 1..Len(queue') : queue'[i] = queue[i + 1] /\ i + 1 \in 1..Len(queue)
    BY <1>3 DEF Begin
  <2>2. Head(queue) = queue[1]
    BY <1>3 DEF Begin
  <2>3. ASSUME NEW i \in 1..Len(queue') PROVE queue'[i] # Head(queue)
    <3>1. 1 \in 1..Len(queue) /\ i + 1 \in 1..Len(queue) /\ i + 1 # 1
      BY <2>1
    <3>. QED BY <2>1, <2>2, <3>1
  <2>4. ASSUME NEW i \in 1..Len(queue') PROVE queue'[i] \in Tasks /\ task[queue'[i]] = "queued"
    <3>1. i + 1 \in 1..Len(queue) /\ queue'[i] = queue[i + 1]
      BY <2>1
    <3>. QED BY <3>1
  <2>. QED BY <1>3, <2>1, <2>3, <2>4 DEF Begin, TaskTo
<1>4. CASE Shutdown
  BY <1>4 DEF Shutdown
<1>5. ASSUME UNCHANGED <<task, queue>> PROVE QueueSound'
  BY <1>5
<1>6. ASSUME NEW t \in Tasks, Submit(t) PROVE QueueSound'
  BY <1>6, <1>1, <1>2 DEF Submit
<1>7. ASSUME NEW t \in Tasks, Acquire(t) PROVE QueueSound'
  BY <1>7, <1>2, <1>5 DEF Acquire
<1>8. ASSUME NEW t \in Tasks, Count(t) \/ GiveBack(t) \/ Settle(t) \/ Release(t) PROVE QueueSound'
  BY <1>8, <1>2 DEF Count, GiveBack, Settle, Release
<1>9. ASSUME NEW e \in Writes,
             Lock(e) \/ TakeSlot(e) \/ SubmitWrite(e) \/ SettleWrite(e) \/ ReleaseSlot(e)
      PROVE  UNCHANGED <<task, queue>>
  BY <1>9 DEF Lock, TakeSlot, SubmitWrite, SettleWrite, ReleaseSlot, tactics
<1>10. CASE BeginWrite \/ Reopen \/ CloseEagle \/ ReopenEagle \/ UNCHANGED vars
  BY <1>10, <1>5 DEF BeginWrite, Reopen, CloseEagle, ReopenEagle, vars, tactics
<1>. QED BY <1>3, <1>4, <1>5, <1>6, <1>7, <1>8, <1>9, <1>10 DEF Next, Workers, FlushStep

\* The lock belongs to the writer between its acquisition and its submission, or to
\* the flush while it replaces the pool; neither starts while the other has it.
LEMMA LockStep ==
    ASSUME Typed, EagleQueueSound, LockHeld, [Next]_vars
    PROVE  LockHeld'
<1>. USE BridgeAssumption DEF Typed, LockHeld, WriteTo
<1>d. Nobody # Flusher
  BY DEF Nobody, Flusher
<1>1. ASSUME NEW e \in Writes, Lock(e) PROVE LockHeld'
  BY <1>1, <1>d DEF Lock
<1>2. ASSUME NEW e \in Writes, TakeSlot(e) PROVE LockHeld'
  BY <1>2, <1>d DEF TakeSlot
<1>3. ASSUME NEW e \in Writes, SubmitWrite(e) PROVE LockHeld'
  BY <1>3, <1>d DEF SubmitWrite
<1>4. ASSUME NEW e \in Writes, SettleWrite(e) \/ ReleaseSlot(e) PROVE LockHeld'
  BY <1>4 DEF SettleWrite, ReleaseSlot
<1>5. CASE BeginWrite
  BY <1>5, HeadIsWaiting DEF BeginWrite
<1>6. CASE CloseEagle
  BY <1>6, <1>d DEF CloseEagle
<1>7. CASE ReopenEagle
  BY <1>7, <1>d DEF ReopenEagle
<1>8. CASE Shutdown \/ Reopen
  BY <1>8 DEF Shutdown, Reopen, eagle
<1>9. ASSUME NEW t \in Tasks,
             Acquire(t) \/ Count(t) \/ Submit(t) \/ GiveBack(t) \/ Settle(t) \/ Release(t)
      PROVE  LockHeld'
  BY <1>9 DEF Acquire, Count, Submit, GiveBack, Settle, Release, eagle
<1>10. CASE Begin \/ UNCHANGED vars
  BY <1>10 DEF Begin, vars, eagle
<1>. QED
  BY <1>1, <1>2, <1>3, <1>4, <1>5, <1>6, <1>7, <1>8, <1>9, <1>10 DEF Next, Workers, FlushStep

\* The Eagle queue: nothing accepted leaves it but to be written.
LEMMA EagleQueueStep ==
    ASSUME Typed, EagleQueueSound, [Next]_vars
    PROVE  EagleQueueSound'
<1>. USE DEF Typed, EagleQueueSound
<1>1. ASSUME NEW e \in Writes, write[e] = "counted", eagleQueue' = Append(eagleQueue, e),
             WriteTo(e, "queued")
      PROVE  EagleQueueSound'
  <2>1. \A i \in 1..Len(eagleQueue) : eagleQueue[i] # e
    BY <1>1
  <2>2. /\ \A i \in 1..Len(eagleQueue') : eagleQueue'[i] = IF i <= Len(eagleQueue) THEN eagleQueue[i] ELSE e
        /\ Len(eagleQueue') = Len(eagleQueue) + 1 /\ Len(eagleQueue) \in Nat
    BY <1>1
  <2>3. \A i \in 1..Len(eagleQueue) : eagleQueue[i] \in Writes /\ write'[eagleQueue[i]] = "queued"
    BY <1>1, <2>1 DEF WriteTo
  <2>4. write'[e] = "queued"
    BY <1>1 DEF WriteTo
  <2>5. \A i \in 1..Len(eagleQueue') : write'[eagleQueue'[i]] = "queued"
    BY <2>2, <2>3, <2>4
  <2>6. \A i, j \in 1..Len(eagleQueue') : eagleQueue'[i] = eagleQueue'[j] => i = j
    BY <2>1, <2>2
  <2>7. ASSUME NEW f \in Writes, write'[f] = "queued"
        PROVE  \E i \in 1..Len(eagleQueue') : eagleQueue'[i] = f
    <3>1. CASE f = e
      <4>1. eagleQueue'[Len(eagleQueue')] = f /\ Len(eagleQueue') \in 1..Len(eagleQueue')
        BY <2>2, <3>1
      <4>. QED BY <4>1
    <3>2. CASE f # e
      <4>1. PICK i \in 1..Len(eagleQueue) : eagleQueue[i] = f
        BY <1>1, <2>7, <3>2 DEF WriteTo
      <4>2. eagleQueue'[i] = f /\ i \in 1..Len(eagleQueue')
        BY <2>2, <4>1
      <4>. QED BY <4>2
    <3>. QED BY <3>1, <3>2
  <2>. QED BY <2>5, <2>6, <2>7
<1>2. ASSUME NEW e \in Writes, NEW to, write[e] # "queued", to # "queued", WriteTo(e, to),
             eagleQueue' = eagleQueue
      PROVE  EagleQueueSound'
  BY <1>2 DEF WriteTo
<1>3. CASE BeginWrite
  <2>1. /\ Len(eagleQueue') = Len(eagleQueue) - 1 /\ Len(eagleQueue) \in Nat \ {0}
        /\ \A i \in 1..Len(eagleQueue') : /\ eagleQueue'[i] = eagleQueue[i + 1]
                                          /\ i + 1 \in 1..Len(eagleQueue)
        /\ Head(eagleQueue) = eagleQueue[1]
    BY <1>3 DEF BeginWrite
  <2>2. ASSUME NEW i \in 1..Len(eagleQueue')
        PROVE  /\ eagleQueue'[i] \in Writes /\ write[eagleQueue'[i]] = "queued"
               /\ eagleQueue'[i] # Head(eagleQueue)
    <3>1. 1 \in 1..Len(eagleQueue) /\ i + 1 \in 1..Len(eagleQueue) /\ i + 1 # 1
      BY <2>1
    <3>2. eagleQueue'[i] = eagleQueue[i + 1]
      BY <2>1
    <3>. QED BY <2>1, <3>1, <3>2
  <2>3. Head(eagleQueue) \in Writes
    BY <1>3, HeadIsWaiting DEF BeginWrite
  <2>4. write' = [write EXCEPT ![Head(eagleQueue)] = "running"]
    BY <1>3 DEF BeginWrite, WriteTo
  <2>5. \A i \in 1..Len(eagleQueue') : write'[eagleQueue'[i]] = "queued"
    BY <2>2, <2>3, <2>4
  <2>6. \A i, j \in 1..Len(eagleQueue') : eagleQueue'[i] = eagleQueue'[j] => i = j
    BY <2>1
  <2>7. ASSUME NEW f \in Writes, write'[f] = "queued"
        PROVE  \E i \in 1..Len(eagleQueue') : eagleQueue'[i] = f
    <3>1. f # Head(eagleQueue) /\ write[f] = "queued"
      BY <2>3, <2>4, <2>7
    <3>2. PICK k \in 1..Len(eagleQueue) : eagleQueue[k] = f
      BY <3>1
    <3>3. k # 1
      BY <2>1, <3>1, <3>2
    <3>4. k - 1 \in 1..Len(eagleQueue') /\ (k - 1) + 1 = k
      BY <2>1, <3>3
    <3>5. eagleQueue'[k - 1] = eagleQueue[(k - 1) + 1]
      BY <2>1, <3>4
    <3>6. eagleQueue'[k - 1] = f
      BY <3>2, <3>4, <3>5
    <3>. QED BY <3>4, <3>6
  <2>. QED BY <2>5, <2>6, <2>7
<1>4. ASSUME UNCHANGED <<write, eagleQueue>> PROVE EagleQueueSound'
  BY <1>4
<1>5. ASSUME NEW e \in Writes, SubmitWrite(e) PROVE EagleQueueSound'
  BY <1>5, <1>1, <1>2 DEF SubmitWrite
<1>6. ASSUME NEW e \in Writes, Lock(e) \/ TakeSlot(e) \/ SettleWrite(e) \/ ReleaseSlot(e)
      PROVE  EagleQueueSound'
  BY <1>6, <1>2 DEF Lock, TakeSlot, SettleWrite, ReleaseSlot
<1>7. ASSUME NEW t \in Tasks,
             Acquire(t) \/ Count(t) \/ Submit(t) \/ GiveBack(t) \/ Settle(t) \/ Release(t)
      PROVE  UNCHANGED <<write, eagleQueue>>
  BY <1>7 DEF Acquire, Count, Submit, GiveBack, Settle, Release, eagle
<1>8. CASE Begin \/ Shutdown \/ Reopen \/ CloseEagle \/ ReopenEagle \/ UNCHANGED vars
  BY <1>8, <1>4 DEF Begin, Shutdown, Reopen, CloseEagle, ReopenEagle, vars, eagle
<1>. QED BY <1>3, <1>4, <1>5, <1>6, <1>7, <1>8 DEF Next, Workers, FlushStep

-------------------------------------------------------------------------------
(* The accounts.                                                            *)

\* A flush moves every queued call from the accounts of the semaphore to its losses.
LEMMA CancelledAreLost ==
    ASSUME Typed, Shutdown
    PROVE  \E q \in Nat : /\ Reserved \in Nat /\ Lost \in Nat /\ Submitted \in Nat
                          /\ Reserved' = Reserved - q /\ Submitted' = Submitted - q
                          /\ Lost' = Lost + q
<1>. DEFINE Q == TasksIn({"queued"})
            A == TasksIn(Holding)
            B == TasksIn({"counted", "queued", "running"})
            C == TasksIn({"cancelled"})
<1>1. IsFiniteSet(Q) /\ IsFiniteSet(A) /\ IsFiniteSet(B) /\ IsFiniteSet(C)
  BY BridgeAssumption, FS_Subset DEF TasksIn
<1>2. A \intersect Q = Q /\ B \intersect Q = Q /\ C \intersect Q = {}
  BY DEF TasksIn, Holding
<1>3. A' = A \ Q /\ B' = B \ Q /\ C' = C \union Q
  BY DEF Shutdown, TasksIn, Holding, Submitting, Typed
<1>4. Cardinality(A \ Q) = Cardinality(A) - Cardinality(Q)
  BY <1>1, <1>2, FS_Difference
<1>5. Cardinality(B \ Q) = Cardinality(B) - Cardinality(Q)
  <2>. HIDE DEF Q, B
  <2>1. Cardinality(B \ Q) = Cardinality(B) - Cardinality(B \intersect Q)
    BY <1>1, FS_Difference
  <2>. QED BY <1>2, <2>1
<1>6. Cardinality(C \union Q) = Cardinality(C) + Cardinality(Q) - Cardinality(C \intersect Q)
  BY <1>1, FS_Union
<1>7. Cardinality(C \intersect Q) = 0
  BY <1>2, FS_EmptySet
<1>8. Cardinality(Q) \in Nat /\ Reserved \in Nat /\ Lost \in Nat /\ Submitted \in Nat
  BY <1>1, FS_CardinalityType DEF Reserved, Lost, Submitted
<1>. HIDE DEF Q, A, B, C
<1>9. /\ Reserved' = Reserved - Cardinality(Q) /\ Submitted' = Submitted - Cardinality(Q)
      /\ Lost' = Lost + Cardinality(Q)
  <2>1. Reserved = Cardinality(A) /\ Submitted = Cardinality(B) /\ Lost = Cardinality(C)
    BY DEF Reserved, Submitted, Lost, A, B, C
  <2>2. Reserved' = Cardinality(A') /\ Submitted' = Cardinality(B') /\ Lost' = Cardinality(C')
    BY DEF Reserved, Submitted, Lost, A, B, C
  <2>. QED BY <1>3, <1>4, <1>5, <1>6, <1>7, <1>8, <2>1, <2>2
<1>. QED BY <1>8, <1>9

\* What is under way holds a permit, and so does, for ever, what was cancelled.
LEMMA PermitsStep ==
    ASSUME Typed, QueueSound, PermitsAccounted, [Next]_vars
    PROVE  PermitsAccounted'
<1>p. PermitsAccounted <=> permits + Reserved + Lost = Capacity /\ inflight = Submitted + Lost
  BY DEF PermitsAccounted, Reserved, Lost, Submitted
<1>q. PermitsAccounted' <=> permits' + Reserved' + Lost' = Capacity /\ inflight' = Submitted' + Lost'
  BY DEF PermitsAccounted, Reserved, Lost, Submitted
<1>t. task \in [Tasks -> TaskStates] /\ permits \in Int /\ inflight \in Nat /\ Capacity \in Nat
  BY BridgeAssumption DEF Typed
<1>s. Submitted' \in Nat
  BY BridgeAssumption, FS_Subset, FS_CardinalityType DEF Submitted, TasksIn
<1>1. ASSUME NEW t \in Tasks, Acquire(t) PROVE PermitsAccounted'
  <2>1. CASE permits > 0
    <3>1. task[t] = "new" /\ TaskTo(t, "granted") /\ permits' = permits - 1 /\ inflight' = inflight
      BY <1>1, <1>t, <2>1 DEF Acquire
    <3>2. /\ Reserved' = Reserved + 1 /\ Lost' = Lost /\ Submitted' = Submitted
          /\ Reserved \in Nat /\ Lost \in Nat /\ Submitted \in Nat
      BY <1>t, <3>1, CallMoves DEF One, Holding, Submitting
    <3>. QED BY <1>p, <1>q, <1>s, <1>t, <3>1, <3>2
  <2>2. CASE ~(permits > 0)
    <3>1. task[t] = "new" /\ TaskTo(t, "rejected") /\ permits' = permits /\ inflight' = inflight
      BY <1>1, <1>t, <2>2 DEF Acquire
    <3>2. /\ Reserved' = Reserved /\ Lost' = Lost /\ Submitted' = Submitted
          /\ Reserved \in Nat /\ Lost \in Nat /\ Submitted \in Nat
      BY <1>t, <3>1, CallMoves DEF One, Holding, Submitting
    <3>. QED BY <1>p, <1>q, <1>s, <1>t, <3>1, <3>2
  <2>. QED BY <2>1, <2>2
<1>2. ASSUME NEW t \in Tasks, Count(t) PROVE PermitsAccounted'
  <2>1. task[t] = "granted" /\ TaskTo(t, "counted") /\ permits' = permits /\ inflight' = inflight + 1
    BY <1>2 DEF Count
  <2>2. /\ Reserved' = Reserved /\ Lost' = Lost /\ Submitted' = Submitted + 1
        /\ Reserved \in Nat /\ Lost \in Nat /\ Submitted \in Nat
    BY <1>t, <2>1, CallMoves DEF One, Holding, Submitting
  <2>. QED BY <1>p, <1>q, <1>s, <1>t, <2>1, <2>2
<1>3. ASSUME NEW t \in Tasks, Submit(t) PROVE PermitsAccounted'
  <2>1. CASE TaskTo(t, "queued") /\ UNCHANGED inflight
    <3>1. task[t] = "counted" /\ TaskTo(t, "queued") /\ permits' = permits /\ inflight' = inflight
      BY <1>3, <1>t, <2>1 DEF Submit
    <3>2. /\ Reserved' = Reserved /\ Lost' = Lost /\ Submitted' = Submitted
          /\ Reserved \in Nat /\ Lost \in Nat /\ Submitted \in Nat
      BY <1>t, <3>1, CallMoves DEF One, Holding, Submitting
    <3>. QED BY <1>p, <1>q, <1>s, <1>t, <3>1, <3>2
  <2>2. CASE TaskTo(t, "refused") /\ inflight' = AtLeastZero(inflight - 1)
    <3>1. task[t] = "counted" /\ TaskTo(t, "refused") /\ permits' = permits /\ inflight' = AtLeastZero(inflight - 1)
      BY <1>3, <1>t, <2>2 DEF Submit
    <3>2. /\ Reserved' = Reserved /\ Lost' = Lost /\ Submitted' = Submitted - 1
          /\ Reserved \in Nat /\ Lost \in Nat /\ Submitted \in Nat
      BY <1>t, <3>1, CallMoves DEF One, Holding, Submitting
    <3>. QED BY <1>p, <1>q, <1>s, <1>t, <3>1, <3>2 DEF AtLeastZero
  <2>. QED BY <1>3, <2>1, <2>2 DEF Submit
<1>4. ASSUME NEW t \in Tasks, GiveBack(t) PROVE PermitsAccounted'
  <2>1. task[t] = "refused" /\ TaskTo(t, "failed") /\ permits' = permits + 1 /\ inflight' = inflight
    BY <1>4 DEF GiveBack
  <2>2. /\ Reserved' = Reserved - 1 /\ Lost' = Lost /\ Submitted' = Submitted
        /\ Reserved \in Nat /\ Lost \in Nat /\ Submitted \in Nat
    BY <1>t, <2>1, CallMoves DEF One, Holding, Submitting
  <2>. QED BY <1>p, <1>q, <1>s, <1>t, <2>1, <2>2
<1>5. CASE Begin
  <2>1. /\ Head(queue) \in Tasks /\ task[Head(queue)] = "queued"
        /\ TaskTo(Head(queue), "running") /\ permits' = permits /\ inflight' = inflight
    BY <1>5, HeadIsQueued DEF Begin
  <2>2. /\ Reserved' = Reserved /\ Lost' = Lost /\ Submitted' = Submitted
        /\ Reserved \in Nat /\ Lost \in Nat /\ Submitted \in Nat
    BY <1>t, <2>1, CallMoves DEF One, Holding, Submitting
  <2>. QED BY <1>p, <1>q, <2>1, <2>2
<1>6. ASSUME NEW t \in Tasks, Settle(t) PROVE PermitsAccounted'
  <2>1. task[t] = "running" /\ TaskTo(t, "settled") /\ permits' = permits /\ inflight' = AtLeastZero(inflight - 1)
    BY <1>6 DEF Settle
  <2>2. /\ Reserved' = Reserved /\ Lost' = Lost /\ Submitted' = Submitted - 1
        /\ Reserved \in Nat /\ Lost \in Nat /\ Submitted \in Nat
    BY <1>t, <2>1, CallMoves DEF One, Holding, Submitting
  <2>. QED BY <1>p, <1>q, <1>s, <1>t, <2>1, <2>2 DEF AtLeastZero
<1>7. ASSUME NEW t \in Tasks, Release(t) PROVE PermitsAccounted'
  <2>1. task[t] = "settled" /\ TaskTo(t, "done") /\ permits' = permits + 1 /\ inflight' = inflight
    BY <1>7 DEF Release
  <2>2. /\ Reserved' = Reserved - 1 /\ Lost' = Lost /\ Submitted' = Submitted
        /\ Reserved \in Nat /\ Lost \in Nat /\ Submitted \in Nat
    BY <1>t, <2>1, CallMoves DEF One, Holding, Submitting
  <2>. QED BY <1>p, <1>q, <1>s, <1>t, <2>1, <2>2
<1>8. CASE Shutdown
  <2>. PICK q \in Nat : /\ Reserved \in Nat /\ Lost \in Nat /\ Submitted \in Nat
                       /\ Reserved' = Reserved - q /\ Submitted' = Submitted - q
                       /\ Lost' = Lost + q
    BY <1>8, CancelledAreLost
  <2>. QED BY <1>8, <1>p, <1>q, <1>t DEF Shutdown
<1>9. ASSUME UNCHANGED <<task, permits, inflight>> PROVE PermitsAccounted'
  BY <1>9 DEF PermitsAccounted, TasksIn
<1>10. ASSUME NEW e \in Writes,
              Lock(e) \/ TakeSlot(e) \/ SubmitWrite(e) \/ SettleWrite(e) \/ ReleaseSlot(e)
       PROVE  UNCHANGED <<task, permits, inflight>>
  BY <1>10 DEF Lock, TakeSlot, SubmitWrite, SettleWrite, ReleaseSlot, tactics
<1>11. CASE BeginWrite \/ Reopen \/ CloseEagle \/ ReopenEagle \/ UNCHANGED vars
  BY <1>9, <1>11 DEF BeginWrite, Reopen, CloseEagle, ReopenEagle, vars, tactics
<1>. QED
  BY <1>1, <1>2, <1>3, <1>4, <1>5, <1>6, <1>7, <1>8, <1>9, <1>10, <1>11 DEF Next, Workers, FlushStep

\* The counts that EagleSlotsAccounted speaks of.
Occupied == Cardinality(WritesIn(Waiting \union {"counted"}))
Busy     == Cardinality(WritesIn({"counted", "queued", "running"}))

LEMMA PersistenceMoves ==
    ASSUME write \in [Writes -> WriteStates], NEW e \in Writes, NEW CONSTANT to, WriteTo(e, to)
    PROVE  /\ Occupied \in Nat /\ Busy \in Nat
           /\ Occupied' = Occupied - One(write[e] \in Waiting \union {"counted"})
                                   + One(to \in Waiting \union {"counted"})
           /\ Busy' = Busy - One(write[e] \in {"counted", "queued", "running"})
                           + One(to \in {"counted", "queued", "running"})
<1>1. \A S : /\ Cardinality(WritesIn(S)) \in Nat
              /\ Cardinality(WritesIn(S)') = Cardinality(WritesIn(S)) - One(write[e] \in S) + One(to \in S)
  BY WriteMoves
<1>2. /\ Occupied \in Nat
      /\ Occupied' = Occupied - One(write[e] \in Waiting \union {"counted"})
                              + One(to \in Waiting \union {"counted"})
  BY <1>1 DEF Occupied, Waiting
<1>3. /\ Busy \in Nat
      /\ Busy' = Busy - One(write[e] \in {"counted", "queued", "running"})
                      + One(to \in {"counted", "queued", "running"})
  BY <1>1 DEF Busy
<1>. QED BY <1>2, <1>3

\* When the flush replaces the semaphore, no write holds a slot of the old one: the
\* queue is dry, the worker idle, and the lock keeps the writers out.
LEMMA NoSlotIsOut ==
    ASSUME Typed, EagleQueueSound, LockHeld, ReopenEagle
    PROVE  Occupied = 0 /\ Busy = 0
<1>1. \A e \in Writes : write[e] \notin {"counted", "queued", "running", "settled"}
  <2>1. lifecycle = Flusher /\ Flusher \notin Writes
    BY BridgeAssumption DEF LockHeld, ReopenEagle
  <2>2. \A e \in Writes : write[e] # "counted"
    BY <2>1 DEF LockHeld
  <2>3. \A e \in Writes : write[e] # "queued"
    BY DEF EagleQueueSound, ReopenEagle
  <2>4. \A e \in Writes : write[e] \notin {"running", "settled"}
    BY DEF ReopenEagle, WritesIn
  <2>. QED BY <2>2, <2>3, <2>4
<1>2. WritesIn(Waiting \union {"counted"}) = {} /\ WritesIn({"counted", "queued", "running"}) = {}
  BY <1>1 DEF WritesIn, Waiting
<1>. QED BY <1>2, FS_EmptySet DEF Occupied, Busy

\* A write holds a slot from the acquisition to the end of its finally block.
LEMMA EagleAccountsStep ==
    ASSUME Typed, EagleQueueSound, LockHeld, EagleAccounts, [Next]_vars
    PROVE  EagleAccounts'
<1>p. slots + Occupied = EagleCapacity /\ eagleInflight = Busy
  BY DEF EagleAccounts, Occupied, Busy
<1>q. EagleAccounts' <=> slots' + Occupied' = EagleCapacity /\ eagleInflight' = Busy'
  BY DEF EagleAccounts, Occupied, Busy
<1>t. write \in [Writes -> WriteStates] /\ slots \in Int /\ eagleInflight \in Nat /\ EagleCapacity \in Nat
  BY BridgeAssumption DEF Typed
<1>s. Busy' \in Nat
  BY BridgeAssumption, FS_Subset, FS_CardinalityType DEF Busy, WritesIn
<1>1. ASSUME NEW e \in Writes, Lock(e) PROVE EagleAccounts'
  <2>1. write[e] = "new" /\ WriteTo(e, "locked") /\ slots' = slots /\ eagleInflight' = eagleInflight
    BY <1>1 DEF Lock
  <2>2. Occupied' = Occupied /\ Busy' = Busy /\ Occupied \in Nat /\ Busy \in Nat
    BY <1>t, <2>1, PersistenceMoves DEF One, Waiting
  <2>. QED BY <1>p, <1>q, <1>s, <1>t, <2>1, <2>2
<1>2. ASSUME NEW e \in Writes, TakeSlot(e) PROVE EagleAccounts'
  <2>1. CASE WriteTo(e, "counted") /\ slots' = slots - 1 /\ eagleInflight' = eagleInflight + 1
    <3>1. write[e] = "locked" /\ WriteTo(e, "counted") /\ slots' = slots - 1 /\ eagleInflight' = eagleInflight + 1
      BY <1>2, <2>1 DEF TakeSlot
    <3>2. Occupied' = Occupied + 1 /\ Busy' = Busy + 1 /\ Occupied \in Nat /\ Busy \in Nat
      BY <1>t, <3>1, PersistenceMoves DEF One, Waiting
    <3>. QED BY <1>p, <1>q, <1>s, <1>t, <3>1, <3>2
  <2>2. CASE WriteTo(e, "rejected") /\ UNCHANGED <<slots, eagleInflight>>
    <3>1. write[e] = "locked" /\ WriteTo(e, "rejected") /\ slots' = slots /\ eagleInflight' = eagleInflight
      BY <1>2, <2>2 DEF TakeSlot
    <3>2. Occupied' = Occupied /\ Busy' = Busy /\ Occupied \in Nat /\ Busy \in Nat
      BY <1>t, <3>1, PersistenceMoves DEF One, Waiting
    <3>. QED BY <1>p, <1>q, <1>s, <1>t, <3>1, <3>2
  <2>. QED BY <1>2, <2>1, <2>2 DEF TakeSlot
<1>3. ASSUME NEW e \in Writes, SubmitWrite(e) PROVE EagleAccounts'
  <2>1. CASE WriteTo(e, "queued") /\ UNCHANGED <<slots, eagleInflight>>
    <3>1. write[e] = "counted" /\ WriteTo(e, "queued") /\ slots' = slots /\ eagleInflight' = eagleInflight
      BY <1>3, <2>1 DEF SubmitWrite
    <3>2. Occupied' = Occupied /\ Busy' = Busy /\ Occupied \in Nat /\ Busy \in Nat
      BY <1>t, <3>1, PersistenceMoves DEF One, Waiting
    <3>. QED BY <1>p, <1>q, <1>s, <1>t, <3>1, <3>2
  <2>2. CASE WriteTo(e, "failed") /\ slots' = slots + 1 /\ eagleInflight' = AtLeastZero(eagleInflight - 1)
    <3>1. write[e] = "counted" /\ WriteTo(e, "failed") /\ slots' = slots + 1 /\ eagleInflight' = AtLeastZero(eagleInflight - 1)
      BY <1>3, <2>2 DEF SubmitWrite
    <3>2. Occupied' = Occupied - 1 /\ Busy' = Busy - 1 /\ Occupied \in Nat /\ Busy \in Nat
      BY <1>t, <3>1, PersistenceMoves DEF One, Waiting
    <3>. QED BY <1>p, <1>q, <1>s, <1>t, <3>1, <3>2 DEF AtLeastZero
  <2>. QED BY <1>3, <2>1, <2>2 DEF SubmitWrite
<1>4. CASE BeginWrite
  <2>1. /\ Head(eagleQueue) \in Writes /\ write[Head(eagleQueue)] = "queued"
        /\ WriteTo(Head(eagleQueue), "running") /\ slots' = slots /\ eagleInflight' = eagleInflight
    BY <1>4, HeadIsWaiting DEF BeginWrite
  <2>2. Occupied' = Occupied /\ Busy' = Busy /\ Occupied \in Nat /\ Busy \in Nat
    BY <1>t, <2>1, PersistenceMoves DEF One, Waiting
  <2>. QED BY <1>p, <1>q, <2>1, <2>2
<1>5. ASSUME NEW e \in Writes, SettleWrite(e) PROVE EagleAccounts'
  <2>1. write[e] = "running" /\ WriteTo(e, "settled") /\ slots' = slots /\ eagleInflight' = AtLeastZero(eagleInflight - 1)
    BY <1>5 DEF SettleWrite
  <2>2. Occupied' = Occupied /\ Busy' = Busy - 1 /\ Occupied \in Nat /\ Busy \in Nat
    BY <1>t, <2>1, PersistenceMoves DEF One, Waiting
  <2>. QED BY <1>p, <1>q, <1>s, <1>t, <2>1, <2>2 DEF AtLeastZero
<1>6. ASSUME NEW e \in Writes, ReleaseSlot(e) PROVE EagleAccounts'
  <2>1. write[e] = "settled" /\ WriteTo(e, "done") /\ slots' = slots + 1 /\ eagleInflight' = eagleInflight
    BY <1>6 DEF ReleaseSlot
  <2>2. Occupied' = Occupied - 1 /\ Busy' = Busy /\ Occupied \in Nat /\ Busy \in Nat
    BY <1>t, <2>1, PersistenceMoves DEF One, Waiting
  <2>. QED BY <1>p, <1>q, <1>s, <1>t, <2>1, <2>2
<1>7. CASE ReopenEagle
  <2>1. Occupied = 0 /\ Busy = 0
    BY <1>7, NoSlotIsOut
  <2>2. Occupied' = Occupied /\ Busy' = Busy
    BY <1>7 DEF ReopenEagle, Occupied, Busy, WritesIn
  <2>3. slots' = EagleCapacity /\ eagleInflight' = eagleInflight
    BY <1>7 DEF ReopenEagle
  <2>. QED BY <1>p, <1>q, <1>t, <2>1, <2>2, <2>3
<1>8. ASSUME UNCHANGED <<write, slots, eagleInflight>> PROVE EagleAccounts'
  BY <1>8 DEF EagleAccounts, WritesIn
<1>9. ASSUME NEW t \in Tasks,
             Acquire(t) \/ Count(t) \/ Submit(t) \/ GiveBack(t) \/ Settle(t) \/ Release(t)
      PROVE  UNCHANGED <<write, slots, eagleInflight>>
  BY <1>9 DEF Acquire, Count, Submit, GiveBack, Settle, Release, eagle
<1>10. CASE Begin \/ Shutdown \/ Reopen \/ CloseEagle \/ UNCHANGED vars
  BY <1>8, <1>10 DEF Begin, Shutdown, Reopen, CloseEagle, vars, eagle
<1>. QED
  BY <1>1, <1>2, <1>3, <1>4, <1>5, <1>6, <1>7, <1>8, <1>9, <1>10 DEF Next, Workers, FlushStep

-------------------------------------------------------------------------------
(* The theorems. *)

\* The bridge starts idle, with every permit and every slot free.
LEMMA BridgeInitially == Init => BridgeInv
<1>. SUFFICES ASSUME Init PROVE BridgeInv
  OBVIOUS
<1>. USE BridgeAssumption DEF Init
<1>1. Typed
  BY DEF Typed, TaskStates, WriteStates
<1>2. QueueSound /\ EagleQueueSound
  BY DEF QueueSound, EagleQueueSound
<1>3. LockHeld
  BY DEF LockHeld, Nobody, Flusher
<1>4. /\ TasksIn(Holding) = {} /\ TasksIn({"cancelled"}) = {}
      /\ TasksIn({"counted", "queued", "running"}) = {}
      /\ WritesIn(Waiting \union {"counted"}) = {} /\ WritesIn({"counted", "queued", "running"}) = {}
  BY DEF TasksIn, WritesIn, Holding, Submitting, Waiting
<1>5. /\ permits = Capacity /\ inflight = 0 /\ slots = EagleCapacity /\ eagleInflight = 0
      /\ Cardinality({}) = 0 /\ Capacity \in Nat /\ EagleCapacity \in Nat
  BY FS_EmptySet
<1>6. PermitsAccounted
  <2>. HIDE DEF Init
  <2>. QED BY <1>4, <1>5 DEF PermitsAccounted
<1>7. EagleAccounts
  <2>. HIDE DEF Init
  <2>. QED BY <1>4, <1>5 DEF EagleAccounts
<1>. QED BY <1>1, <1>2, <1>3, <1>6, <1>7 DEF BridgeInv

LEMMA BridgeStep == BridgeInv /\ [Next]_vars => BridgeInv'
BY TypedStep, QueueStep, EagleQueueStep, LockStep, PermitsStep, EagleAccountsStep DEF BridgeInv

\* No capacity is exceeded because the accounts add up.
LEMMA BridgeImplies == BridgeInv => TypeOK /\ SlotsAccounted
<1>. SUFFICES ASSUME BridgeInv PROVE TypeOK /\ SlotsAccounted
  OBVIOUS
<1>1. permits \in 0..Capacity
  <2>1. Reserved \in Nat /\ Lost \in Nat
    BY BridgeAssumption, FS_Subset, FS_CardinalityType DEF Reserved, Lost, TasksIn
  <2>2. permits + Reserved + Lost = Capacity
    BY DEF BridgeInv, PermitsAccounted, Reserved, Lost
  <2>3. permits \in Nat /\ Capacity \in Nat
    BY BridgeAssumption DEF BridgeInv, Typed
  <2>. QED BY <2>1, <2>2, <2>3
<1>2. slots \in 0..EagleCapacity
  <2>1. Occupied \in Nat
    BY BridgeAssumption, FS_Subset, FS_CardinalityType DEF Occupied, WritesIn
  <2>2. slots + Occupied = EagleCapacity
    BY DEF BridgeInv, EagleAccounts, Occupied
  <2>3. slots \in Nat /\ EagleCapacity \in Nat
    BY BridgeAssumption DEF BridgeInv, Typed
  <2>. QED BY <2>1, <2>2, <2>3
<1>3. TypeOK
  BY <1>1, <1>2 DEF BridgeInv, Typed, TypeOK
<1>4. \A e \in Writes : write[e] = "counted" => eaglePool = "open"
  <2>1. Flusher \notin Writes
    BY BridgeAssumption
  <2>. QED BY <2>1 DEF BridgeInv, LockHeld, Typed
<1>. QED BY <1>3, <1>4 DEF BridgeInv, EagleAccounts, SlotsAccounted, EagleSlotsAccounted

THEOREM BridgeInvariant == Spec => []BridgeInv
BY BridgeInitially, BridgeStep, PTL DEF Spec

\* The type invariant of both pools: the semaphores stay within their capacities.
THEOREM TypeCorrect == Spec => []TypeOK
BY BridgeInvariant, BridgeImplies, PTL

\* No permit and no slot is lost or given back twice, whatever is in flight when a
\* flush comes, except the permits of the calls it cancels: the finally block of
\* _wrapped_with_release is the only way back, and a cancelled future never runs it.
THEOREM SlotsKept == Spec => []SlotsAccounted
BY BridgeInvariant, BridgeImplies, PTL
===============================================================================
