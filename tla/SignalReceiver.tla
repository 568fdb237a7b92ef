----------------------------- MODULE SignalReceiver -----------------------------
(***************************************************************************)
(* The receiver of audited signals (05_shadow/lib/signal_receiver.py): it  *)
(* fetches the PASS rows of one audit run, gives each of them one outcome  *)
(* (hold reinforcement, skip record, T+1 queue) and then marks the audit   *)
(* row as processed.  It runs inside the audit phase of the daemon and,    *)
(* beside it, from the command line with --date and --run-id.              *)
(*                                                                         *)
(* Each database connection is a step.  One audit run has one row per      *)
(* stock (task_id = run_id + symbol) and at most 15 PASS rows, below the   *)
(* fetch limit of 20, so the ranking and the limit of the query are left   *)
(* out.  --poll calls the fetch without a scope, which returns nothing.    *)
(***************************************************************************)
EXTENDS Integers, FiniteSets

CONSTANTS
    Stocks,      \* symbols that may pass the audit
    MaxRuns,     \* bound on the audit runs of one trade date
    Receivers,   \* processes that may run the receiver
    Daemon,      \* the one inside the audit phase
    MaxFaults    \* bound on failed writes and crashes in a behaviour

ASSUME ReceiverAssumption ==
    /\ IsFiniteSet(Stocks) /\ IsFiniteSet(Receivers) /\ Daemon \in Receivers
    /\ MaxRuns \in Nat /\ MaxFaults \in Nat

Runs  == 1..MaxRuns
Tasks == Runs \X Stocks
RunOf(t)   == t[1]
StockOf(t) == t[2]
None == <<0, "none">>    \* no task in hand

VARIABLES
    passed,      \* nexus_audits rows with a PASS verdict
    marked,      \* rows with shadow_processed = 1
    queue,       \* fact_shadow_pending_signals, waiting for news or for the fill
    skipped,     \* fact_shadow_skipped_signals
    reinforced,  \* fact_shadow_reinforcement_events
    holding,     \* stocks with an open paper position
    count,       \* reinforcement_count of the position
    rpc,         \* where each receiver is
    todo,        \* the list it fetched and has not handled
    cur,         \* the task in hand
    seen,        \* _seen_task_ids of its process
    torn,        \* counts raised without an event (history)
    faults       \* failed writes and crashes so far (bound)

tables    == <<marked, queue, skipped, reinforced, holding, count, torn>>
receivers == <<rpc, todo, cur, seen>>
recvVars  == <<passed, tables, receivers, faults>>

Faulty == faults < MaxFaults /\ faults' = faults + 1

\* A task that has left a trace in one of the three tables.
Traced == queue \union skipped \union reinforced

ReceiverInit ==
    /\ passed = {} /\ marked = {} /\ queue = {}
    /\ skipped = {} /\ reinforced = {}
    /\ holding \in SUBSET Stocks /\ count = [s \in Stocks |-> 0]
    /\ rpc = [d \in Receivers |-> "idle"] /\ todo = [d \in Receivers |-> {}]
    /\ cur = [d \in Receivers |-> None] /\ seen = [d \in Receivers |-> {}]
    /\ torn = 0 /\ faults = 0

GoOn(d, label) == rpc' = [rpc EXCEPT ![d] = label]

\* On to the next task, this one handled or not.
NextTask(d) ==
    /\ cur' = [cur EXCEPT ![d] = None]
    /\ GoOn(d, "next")

-------------------------------------------------------------------------------
(* fetch_pending_signals and the loop over what it returns.                 *)

Unmarked(d) == passed \ (marked \union seen[d])
PendingOfAnyRun(d, r) == Unmarked(d)
PendingNotHeld(d, r) == {t \in Unmarked(d) : RunOf(t) = r /\ StockOf(t) \notin holding}
Pending(d, r) == {t \in Unmarked(d) : RunOf(t) = r}

Fetch(d, r) ==
    /\ rpc[d] = "idle"
    /\ todo' = [todo EXCEPT ![d] = Pending(d, r)]
    /\ GoOn(d, "next")
    /\ UNCHANGED <<passed, tables, cur, seen, faults>>

Take(d) ==
    /\ rpc[d] = "next"
    /\ \E t \in todo[d] :
        /\ cur' = [cur EXCEPT ![d] = t]
        /\ todo' = [todo EXCEPT ![d] = @ \ {t}]
    /\ GoOn(d, "hold")
    /\ UNCHANGED <<passed, tables, seen, faults>>

Return(d) ==
    /\ rpc[d] = "next" /\ todo[d] = {}
    /\ GoOn(d, "idle")
    /\ UNCHANGED <<passed, tables, todo, cur, seen, faults>>

-------------------------------------------------------------------------------
(* process_signal.                                                          *)

RecordedAgain(t) == FALSE
Recorded(t) == t \in reinforced

\* A repeated PASS of a stock already held is a reinforcement of its position.
Reinforce(d) ==
    /\ rpc[d] = "hold"
    /\ LET t == cur[d]
           s == StockOf(t)
       IN \/ /\ Recorded(t)
             /\ GoOn(d, "mark")
             /\ UNCHANGED <<count, reinforced>>
          \/ /\ ~Recorded(t) /\ s \in holding
             /\ count' = [count EXCEPT ![s] = @ + 1]
             /\ reinforced' = reinforced \union {t}
             /\ GoOn(d, "mark")
          \/ /\ ~Recorded(t) /\ s \notin holding
             /\ GoOn(d, "gates")
             /\ UNCHANGED <<count, reinforced>>
    /\ UNCHANGED <<passed, marked, queue, skipped, holding, todo, cur, seen, torn, faults>>

\* The UPDATE of the count and the INSERT of the event are two statements without
\* a transaction: the first may stand alone, or neither is made.  Nothing is marked.
ReinforceFails(d) ==
    /\ rpc[d] = "hold" /\ Faulty
    /\ \/ UNCHANGED <<count, torn>>
       \/ /\ ~Recorded(cur[d]) /\ StockOf(cur[d]) \in holding
          /\ count' = [count EXCEPT ![StockOf(cur[d])] = @ + 1]
          /\ torn' = torn + 1
    /\ NextTask(d)
    /\ UNCHANGED <<passed, marked, queue, skipped, reinforced, holding, todo, seen>>

\* Account, contract, news and tide gates send the signal to the skip record or to
\* the queue, to wait for news or for the fill, which nothing here tells apart; the
\* upsert leaves the status of a known one alone.
Store(d) ==
    /\ rpc[d] = "gates"
    /\ \/ /\ skipped' = skipped \union {cur[d]}
          /\ UNCHANGED queue
       \/ /\ queue' = queue \union {cur[d]}
          /\ UNCHANGED skipped
    /\ GoOn(d, "mark")
    /\ UNCHANGED <<passed, marked, reinforced, holding, count, todo, cur, seen, torn, faults>>

\* The write fails: "pending retry", and the row stays unmarked.
StoreFailsYetMarks(d) ==
    /\ rpc[d] = "gates" /\ Faulty
    /\ GoOn(d, "mark")
    /\ UNCHANGED <<passed, tables, todo, cur, seen>>
StoreFails(d) ==
    /\ rpc[d] = "gates" /\ Faulty
    /\ NextTask(d)
    /\ UNCHANGED <<passed, tables, todo, seen>>

\* _mark_shadow_processed, whose failure nobody looks at, and _remember_task_id.
Mark(d) ==
    /\ rpc[d] = "mark"
    /\ \/ marked' = marked \union {cur[d]} /\ UNCHANGED faults
       \/ UNCHANGED marked /\ Faulty
    /\ seen' = [seen EXCEPT ![d] = @ \union {cur[d]}]
    /\ NextTask(d)
    /\ UNCHANGED <<passed, queue, skipped, reinforced, holding, count, todo, torn>>

ReceiverStep(d) ==
    \/ Take(d) \/ Return(d) \/ Reinforce(d) \/ Store(d) \/ Mark(d)
    \/ ReinforceFails(d) \/ StoreFails(d)

\* The process is gone, with its list and its memory.
Forget(d) ==
    /\ GoOn(d, "idle")
    /\ todo' = [todo EXCEPT ![d] = {}] /\ cur' = [cur EXCEPT ![d] = None]
    /\ seen' = [seen EXCEPT ![d] = {}]

\* The T+1 fill buys a queued signal.
Fill(t) ==
    /\ t \in queue /\ StockOf(t) \notin holding
    /\ holding' = holding \union {StockOf(t)}
    /\ UNCHANGED <<passed, marked, queue, skipped, reinforced, count, receivers, torn, faults>>

-------------------------------------------------------------------------------
(* Properties. *)

RpcValues == {"idle", "next", "hold", "gates", "mark"}

\* Type invariant of the tables and of the receivers.
ReceiverTypeOK ==
    /\ passed \subseteq Tasks /\ marked \subseteq Tasks
    /\ queue \union skipped \union reinforced \subseteq Tasks
    /\ holding \subseteq Stocks /\ count \in [Stocks -> Nat]
    /\ rpc \in [Receivers -> RpcValues] /\ todo \in [Receivers -> SUBSET Tasks]
    /\ cur \in [Receivers -> Tasks \union {None}]
    /\ \A d \in Receivers : cur[d] \in IF rpc[d] \in {"hold", "gates", "mark"}
                                        THEN Tasks ELSE {None}
    /\ seen \in [Receivers -> SUBSET Tasks]
    /\ torn \in Nat /\ faults \in Nat

\* A row is marked as processed only when its outcome is on record: a failed write,
\* or a crash between the outcome and the mark, never loses a PASS behind the mark.
MarkedIsTraced == marked \subseteq Traced

\* The count of a position is the number of its reinforcement events, up to the
\* failures that fell between the two statements, whoever repeats a task and when.
ReinforcementsCounted ==
    \A s \in Stocks :
        count[s] - Cardinality({t \in reinforced : StockOf(t) = s}) \in 0..torn
===============================================================================
