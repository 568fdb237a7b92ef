-------------------------------- MODULE T1Fill --------------------------------
(***************************************************************************)
(* The T+1 paper fill engine (05_shadow/lib/t1_fill_engine.py): the queue  *)
(* of audited signals, the evening fill cycle that settles each of them,   *)
(* the atomic BUY transaction and the cached portfolio metrics.            *)
(*                                                                         *)
(* A cycle opens the database anew for each read and each write, with      *)
(* throttled network calls in between, so every connection is a step of    *)
(* its own and other processes move in the gaps.  _mark_terminal writes    *)
(* twice on one connection without a transaction: two steps, so that a     *)
(* crash can fall in between.  Time is counted in trading days since a     *)
(* signal's own day; counts saturate at AgeCap, past which the code no     *)
(* longer tells two ages apart.                                            *)
(***************************************************************************)
EXTENDS Integers, FiniteSets

CONSTANTS
    Signals,         \* audit signals (signal_id = task_id)
    Symbols,         \* stocks
    SymbolOf,        \* the stock of each signal
    Score,           \* final_score of each signal
    Workers,         \* processes that may run a fill cycle
    MaxPositions,    \* position.max_positions (4)
    FetchLimit,      \* signals taken by one cycle (20)
    SweepLimit,      \* signals looked at by one expiry sweep (T1_EXPIRY_SWEEP_LIMIT, 200)
    MaxPendingDays,  \* T1_PENDING_MAX_TRADING_DAYS (2)
    CalendarKnown,   \* may the calendar cover the dates asked for?
    MaxFaults        \* bound on exceptions and crashes in a behaviour

None == "none"       \* no signal in hand

ASSUME T1Assumption ==
    /\ IsFiniteSet(Signals) /\ None \notin Signals
    /\ SymbolOf \in [Signals -> Symbols]
    /\ Score \in [Signals -> Nat]
    /\ MaxPositions \in Nat /\ FetchLimit \in Nat \ {0} /\ SweepLimit \in Nat \ {0}
    /\ MaxPendingDays \in Nat /\ MaxFaults \in Nat
    /\ CalendarKnown \in SUBSET BOOLEAN /\ CalendarKnown # {}

VARIABLES
    pending,    \* fact_shadow_pending_signals.status, "NONE" before the row exists
    age,        \* trading days since signal_trade_date
    dedup,      \* shadow_dedup_guard keys
    ledger,     \* number of BUY rows in fact_shadow_ledger per trace_id
    position,   \* fact_paper_positions row of the signal: "NONE", "HOLD", "SOLD"
    today,      \* signals whose position has today as trade_date
    events,     \* terminal statuses recorded in fact_shadow_fill_events
    fillAge,    \* fill_date of the FILLED event, as an age
    metrics,    \* active_positions of the newest shadow_metrics row
    pc,         \* where each worker is
    mode,       \* "main" or "final"
    phase,      \* expiring the queue ("sweep") or filling it ("work")
    todo,       \* the list the worker fetched and has not handled
    cur,        \* the signal in hand
    decided,    \* the status to be written for it
    deferred,   \* metrics rebuilds lost so far (history)
    hits,       \* exceptions and crashes that came upon each signal in hand (history)
    faults      \* exceptions and crashes so far (bound)

table  == <<pending, age, dedup, ledger, position, today, events, fillAge>>
worker == <<pc, mode, phase, todo, cur, decided>>

history == <<deferred, hits>>
vars    == <<table, metrics, worker, history, faults>>

Waiting  == {"PENDING", "WAIT_DATA", "WAIT_NEWS_CHECK"}
Terminal == {"FILLED", "UNFILLED", "SKIPPED", "EXPIRED"}
Modes    == {"main", "final"}
AgeCap   == MaxPendingDays + 2

Held == {s \in Signals : position[s] = "HOLD"}
HeldSymbol(x) == \E s \in Held : SymbolOf[s] = x

-------------------------------------------------------------------------------
(* What a cycle reads. *)

\* Signals a cycle on the current date selects, before the limit.
DueAnyStatus == {s \in Signals : pending[s] # "NONE" /\ age[s] >= 1}
DueWithoutNews == {s \in Signals : pending[s] \in {"PENDING", "WAIT_DATA"} /\ age[s] >= 1}
Due == {s \in Signals : pending[s] \in Waiting /\ age[s] >= 1}

\* ORDER BY key DESC LIMIT n: the best scored, or the oldest for the sweep.
Foremost(key, due, n) ==
    {q \in SUBSET due :
        /\ Cardinality(q) = IF Cardinality(due) <= n THEN Cardinality(due) ELSE n
        /\ \A s \in q, t \in due \ q : key[s] >= key[t]}

\* _trading_day_age from the earliest fill date; 0 when the calendar has a gap.
PendingAge(s, known) == IF known THEN age[s] - 1 ELSE 0

ExpiredLate(s, known) == PendingAge(s, known) > MaxPendingDays + 1
Expired(s, known) == PendingAge(s, known) > MaxPendingDays

\* What the providers return for a symbol on the fill date.
Facts == [daily : {"missing", "incomplete", "bar"}, sealed : BOOLEAN, minutes : BOOLEAN]

PriceDecision(f, m) ==
    CASE f.daily # "bar"             -> "WAIT_DATA"
      [] f.daily = "bar" /\ f.sealed -> "UNFILLED"
      [] f.daily = "bar" /\ ~f.sealed /\ ~f.minutes /\ m # "final" -> "WAIT_DATA"
      [] OTHER -> "FILLED"

\* A signal still without data is closed by the final cycle of the day.
SettleStatus(status, m) ==
    IF status = "WAIT_DATA" /\ m = "final" THEN "UNFILLED" ELSE status

\* The cap is checked against the cached count, not against the positions.
PositionFullLate == metrics > MaxPositions
PositionFull == metrics >= MaxPositions

\* What the BUY transaction checks again before it writes.
BuyableUnlessHeld(s) == ~HeldSymbol(SymbolOf[s])
BuyableAnySymbol(s) == s \notin dedup /\ position[s] = "NONE"
Buyable(s) ==
    /\ s \notin dedup
    /\ position[s] = "NONE"
    /\ ~HeldSymbol(SymbolOf[s])
    /\ \A t \in today : SymbolOf[t] # SymbolOf[s]

-------------------------------------------------------------------------------
Init ==
    /\ pending = [s \in Signals |-> "NONE"] /\ age = [s \in Signals |-> 0]
    /\ dedup = {} /\ ledger = [s \in Signals |-> 0]
    /\ position = [s \in Signals |-> "NONE"] /\ today = {}
    /\ events = [s \in Signals |-> {}] /\ fillAge = [s \in Signals |-> 0]
    /\ metrics = 0
    /\ pc = [w \in Workers |-> "idle"] /\ mode = [w \in Workers |-> "main"]
    /\ phase = [w \in Workers |-> "sweep"] /\ todo = [w \in Workers |-> {}]
    /\ cur = [w \in Workers |-> None] /\ decided = [w \in Workers |-> None]
    /\ deferred = 0 /\ hits = [s \in Signals |-> 0] /\ faults = 0

Goto(w, label) == pc' = [pc EXCEPT ![w] = label]

\* Hand the signal to _mark_terminal with the given status.
DecideWithoutEvent(w, s, status) ==
    /\ cur' = [cur EXCEPT ![w] = s]
    /\ decided' = [decided EXCEPT ![w] = status]
    /\ Goto(w, "status")
Decide(w, s, status) ==
    /\ cur' = [cur EXCEPT ![w] = s]
    /\ decided' = [decided EXCEPT ![w] = status]
    /\ Goto(w, "event")

\* Back to the head of the loop, or out of the run: the locals are gone.
NextSignal(w) ==
    /\ cur' = [cur EXCEPT ![w] = None]
    /\ decided' = [decided EXCEPT ![w] = None]
    /\ Goto(w, "loop")

Leave(w) ==
    /\ mode' = [mode EXCEPT ![w] = "main"] /\ phase' = [phase EXCEPT ![w] = "sweep"]
    /\ todo' = [todo EXCEPT ![w] = {}]
    /\ cur' = [cur EXCEPT ![w] = None] /\ decided' = [decided EXCEPT ![w] = None]
    /\ Goto(w, "idle")

Faulty == faults < MaxFaults /\ faults' = faults + 1

\* History: an exception or a crash comes upon the signal in hand, if there is one.
Hit(w) == hits' = [s \in Signals |-> IF s = cur[w] THEN hits[s] + 1 ELSE hits[s]]

\* History: what is lost with a worker that has still to rebuild the metrics.
LoseRebuild(w) == deferred' = IF pc[w] = "rebuild" THEN deferred + 1 ELSE deferred

-------------------------------------------------------------------------------
(* The signal receiver and the clock. *)

\* enqueue_pending_signal: a new row, or an upsert that leaves the status alone.
Enqueue(s) ==
    /\ \/ /\ pending[s] = "NONE"
          /\ \E st \in {"PENDING", "WAIT_NEWS_CHECK"} :
                pending' = [pending EXCEPT ![s] = st]
       \/ pending[s] # "NONE" /\ UNCHANGED pending
    /\ UNCHANGED <<age, dedup, ledger, position, today, events, fillAge,
                   metrics, worker, history, faults>>

Older(s) == IF pending[s] = "NONE" THEN 0
            ELSE IF age[s] < AgeCap THEN age[s] + 1 ELSE AgeCap

\* Midnight of a trading day; the evening cycles are over by then.
NextDay ==
    /\ \A w \in Workers : pc[w] = "idle"
    /\ age' = [s \in Signals |-> Older(s)]
    /\ today' = {}
    /\ UNCHANGED <<pending, dedup, ledger, position, events, fillAge,
                   metrics, worker, history, faults>>

\* An exit by the intraday manager or the liquidator, which then tries to
\* rebuild the metrics and only logs a failure.
CloseOut(s) ==
    /\ position[s] = "HOLD"
    /\ position' = [position EXCEPT ![s] = "SOLD"]
    /\ metrics' \in {metrics, Cardinality(Held')}
    /\ UNCHANGED <<pending, age, dedup, ledger, today, events, fillAge,
                   worker, history, faults>>

-------------------------------------------------------------------------------
(* One run of run_t1_fill_cycle. *)

\* The job starts: the expiry sweep reads the queue first, the oldest signals of it.
Start(w, m) ==
    /\ pc[w] = "idle"
    /\ mode' = [mode EXCEPT ![w] = m]
    /\ phase' = [phase EXCEPT ![w] = "sweep"]
    /\ \E q \in Foremost(age, Due, SweepLimit) : todo' = [todo EXCEPT ![w] = q]
    /\ Goto(w, "loop")
    /\ UNCHANGED <<table, metrics, cur, decided, history, faults>>

\* The sweep meets a signal it finds expired.
SweepOne(w) ==
    /\ pc[w] = "loop" /\ phase[w] = "sweep"
    /\ \E s \in todo[w] :
        /\ \E known \in CalendarKnown : Expired(s, known)
        /\ todo' = [todo EXCEPT ![w] = @ \ {s}]
        /\ Decide(w, s, "EXPIRED")
    /\ UNCHANGED <<table, metrics, mode, phase, history, faults>>

\* It has kept every other one: read the due list, once, best scores first.
Fetch(w) ==
    /\ pc[w] = "loop" /\ phase[w] = "sweep"
    /\ \A s \in todo[w] : \E known \in CalendarKnown : ~Expired(s, known)
    /\ phase' = [phase EXCEPT ![w] = "work"]
    /\ \E q \in Foremost(Score, Due, FetchLimit) : todo' = [todo EXCEPT ![w] = q]
    /\ UNCHANGED <<table, metrics, pc, mode, cur, decided, history, faults>>

\* Account, contract, news and board gates, then has_open_paper_position, whose
\* own failure reads as "no position".
Gate(w) ==
    /\ pc[w] = "loop" /\ phase[w] = "work"
    /\ \E s \in todo[w] :
        /\ \A t \in todo[w] : Score[s] >= Score[t]
        /\ todo' = [todo EXCEPT ![w] = @ \ {s}]
        /\ \/ Decide(w, s, "SKIPPED") /\ UNCHANGED faults
           \/ /\ IF HeldSymbol(SymbolOf[s]) THEN Faulty ELSE UNCHANGED faults
              /\ cur' = [cur EXCEPT ![w] = s]
              /\ Goto(w, "price")
              /\ UNCHANGED decided
    /\ UNCHANGED <<table, metrics, mode, phase, history>>

\* Bars, limits and minutes from the providers, then the metrics and the cash.
Price(w) ==
    /\ pc[w] = "price"
    /\ \E f \in Facts :
        LET status == SettleStatus(PriceDecision(f, mode[w]), mode[w]) IN
        \/ status # "FILLED" /\ Decide(w, cur[w], status)
        \/ status = "FILLED" /\ PositionFull /\ Decide(w, cur[w], "SKIPPED")
        \/ status = "FILLED" /\ ~PositionFull /\ Decide(w, cur[w], "UNFILLED")
        \/ /\ status = "FILLED" /\ ~PositionFull
           /\ Goto(w, "commit")
           /\ UNCHANGED <<cur, decided>>
    /\ UNCHANGED <<table, metrics, mode, phase, todo, history, faults>>

\* persist_fill, the position, the FILLED event and the status in one transaction.
CommitBuy(w) ==
    /\ pc[w] = "commit" /\ Buyable(cur[w])
    /\ dedup' = dedup \union {cur[w]}
    /\ ledger' = [ledger EXCEPT ![cur[w]] = @ + 1]
    /\ position' = [position EXCEPT ![cur[w]] = "HOLD"]
    /\ today' = today \union {cur[w]}
    /\ events' = [events EXCEPT ![cur[w]] = @ \union {"FILLED"}]
    /\ fillAge' = [fillAge EXCEPT ![cur[w]] = age[cur[w]]]
    /\ pending' = [pending EXCEPT ![cur[w]] = "FILLED"]
    /\ Goto(w, "rebuild")
    /\ UNCHANGED <<age, metrics, mode, phase, todo, cur, decided, history, faults>>

\* A duplicate, a rejected position or a database error rolls everything back;
\* the signal is then closed as skipped.
RejectBuy(w) ==
    /\ pc[w] = "commit"
    /\ \/ ~Buyable(cur[w]) /\ UNCHANGED faults
       \/ Buyable(cur[w]) /\ Faulty
    /\ Decide(w, cur[w], "SKIPPED")
    /\ UNCHANGED <<table, metrics, mode, phase, todo, history>>

\* _update_metrics after a committed BUY; a failure is only logged.
Rebuild(w) ==
    /\ pc[w] = "rebuild"
    /\ \/ metrics' = Cardinality(Held) /\ UNCHANGED <<deferred, faults>>
       \/ Faulty /\ deferred' = deferred + 1 /\ UNCHANGED metrics
    /\ Goto(w, "done")
    /\ UNCHANGED <<table, mode, phase, todo, cur, decided, hits>>

\* _mark_terminal, first statement: the fill event.
RecordEvent(w) ==
    /\ pc[w] = "event"
    /\ events' = [events EXCEPT ![cur[w]] = @ \union ({decided[w]} \intersect Terminal)]
    /\ Goto(w, "status")
    /\ UNCHANGED <<pending, age, dedup, ledger, position, today, fillAge, metrics,
                   mode, phase, todo, cur, decided, history, faults>>

\* _mark_terminal, second statement: the status, whatever it was.
UpdateStatus(w) ==
    /\ pc[w] = "status"
    /\ pending' = [pending EXCEPT ![cur[w]] = decided[w]]
    /\ Goto(w, "done")
    /\ UNCHANGED <<age, dedup, ledger, position, today, events, fillAge, metrics,
                   mode, phase, todo, cur, decided, history, faults>>

\* The connection is closed, a BUY is pushed, and the signal is done with.
Settled(w) ==
    /\ pc[w] = "done"
    /\ NextSignal(w)
    /\ UNCHANGED <<table, metrics, mode, phase, todo, history, faults>>

\* An exception, also after the COMMIT or after the last write, when the connection
\* does not close or the push of a BUY fails: in the sweep it ends the run, in the
\* work loop it is caught, and the handler puts the signal back to WAIT_DATA
\* whatever became of it, in the final cycle too.
Fault(w) ==
    /\ pc[w] \in {"price", "commit", "rebuild", "event", "status", "done"} /\ Faulty
    /\ \/ phase[w] = "sweep" /\ Leave(w)
       \/ phase[w] = "work" /\ Goto(w, "error") /\ UNCHANGED <<mode, phase, todo, cur, decided>>
    /\ Hit(w) /\ LoseRebuild(w)
    /\ UNCHANGED <<table, metrics>>

MarkError(w) ==
    /\ pc[w] = "error"
    /\ \/ pending' = [pending EXCEPT ![cur[w]] = "WAIT_DATA"] /\ UNCHANGED faults
       \/ UNCHANGED pending /\ Faulty
    /\ NextSignal(w)
    /\ UNCHANGED <<age, dedup, ledger, position, today, events, fillAge, metrics,
                   mode, phase, todo, history>>

Finish(w) ==
    /\ pc[w] = "loop" /\ phase[w] = "work" /\ todo[w] = {}
    /\ \/ mode[w] = "main" /\ Leave(w)
       \/ mode[w] = "final" /\ Goto(w, "watch") /\ UNCHANGED <<mode, phase, todo, cur, decided>>
    /\ UNCHANGED <<table, metrics, history, faults>>

\* The watchdog, after the final cycle: it pushes the rows that still wait, all but
\* WAIT_NEWS_CHECK, and changes nothing.
Watchdog(w) ==
    /\ pc[w] = "watch"
    /\ Leave(w)
    /\ UNCHANGED <<table, metrics, history, faults>>

\* The process dies; only the tables survive.
Crash(w) ==
    /\ pc[w] # "idle" /\ Faulty
    /\ Leave(w) /\ Hit(w) /\ LoseRebuild(w)
    /\ UNCHANGED <<table, metrics>>

-------------------------------------------------------------------------------
WorkerStep(w) ==
    \/ SweepOne(w) \/ Fetch(w) \/ Gate(w) \/ Price(w)
    \/ CommitBuy(w) \/ RejectBuy(w) \/ Rebuild(w)
    \/ RecordEvent(w) \/ UpdateStatus(w) \/ Settled(w) \/ MarkError(w)
    \/ Finish(w) \/ Watchdog(w)

Next ==
    \/ \E s \in Signals : Enqueue(s) \/ CloseOut(s)
    \/ \E w \in Workers :
        WorkerStep(w) \/ Fault(w) \/ Crash(w) \/ \E m \in Modes : Start(w, m)
    \/ NextDay

Spec == Init /\ [][Next]_vars

(***************************************************************************)
(* Some cycle runs every trading evening and goes on to its end; faults    *)
(* are bounded by MaxFaults.  It need not be the final one: the daemon     *)
(* skips that whenever the audit of the evening is still in progress.      *)
(***************************************************************************)
LiveSpec ==
    /\ Spec
    /\ SF_vars(NextDay)
    /\ \A w \in Workers : SF_vars(\E m \in Modes : Start(w, m)) /\ WF_vars(WorkerStep(w))

-------------------------------------------------------------------------------
(* Properties. *)

PcValues == {"idle", "loop", "price", "commit", "rebuild", "event", "status",
             "done", "error", "watch"}

\* Type invariant of the tables and of the workers.
TypeOK ==
    /\ pending \in [Signals -> {"NONE"} \union Waiting \union Terminal]
    /\ age \in [Signals -> 0..AgeCap]
    /\ dedup \in SUBSET Signals
    /\ ledger \in [Signals -> Nat]
    /\ position \in [Signals -> {"NONE", "HOLD", "SOLD"}]
    /\ today \in SUBSET Signals
    /\ events \in [Signals -> SUBSET Terminal]
    /\ fillAge \in [Signals -> 0..AgeCap]
    /\ metrics \in Nat
    /\ pc \in [Workers -> PcValues]
    /\ mode \in [Workers -> Modes]
    /\ phase \in [Workers -> {"sweep", "work"}]
    /\ todo \in [Workers -> SUBSET Signals]
    /\ cur \in [Workers -> Signals \union {None}]
    /\ decided \in [Workers -> Waiting \union Terminal \union {None}]
    /\ \A w \in Workers : pc[w] \in PcValues \ {"idle", "loop", "watch"} => cur[w] \in Signals
    /\ \A w \in Workers : pc[w] \in {"event", "status"} => decided[w] # None
    /\ deferred \in Nat /\ hits \in [Signals -> Nat] /\ faults \in Nat

\* The BUY chain is atomic and happens once: the dedup key, the ledger row, the
\* position and the FILLED event of a signal exist together or not at all, under
\* crashes, retries on later days and overlapping cycles (_commit_filled_buy).
BuyChainAtomic ==
    \A s \in Signals :
        /\ ledger[s] = (IF s \in dedup THEN 1 ELSE 0)
        /\ s \in dedup <=> position[s] # "NONE"
        /\ s \in dedup <=> "FILLED" \in events[s]

\* Two signals never hold the same stock, although each cycle looked for an open
\* position long before it committed (has_open_paper_position fails open).
OneHoldPerSymbol ==
    \A s, t \in Held : s # t => SymbolOf[s] # SymbolOf[t]

\* Every status a signal carries has its fill event: a crash between the two
\* statements of _mark_terminal loses the status, never the evidence.
StatusHasEvidence ==
    \A s \in Signals : pending[s] \in Terminal => pending[s] \in events[s]

\* A fill happens at least one trading day after the signal and, when the calendar
\* covers the dates and the queue fits in one sweep, before the pending window has
\* passed (_expire_due_signals runs before the cycle fills).
FillWindow ==
    \A s \in Signals :
        "FILLED" \in events[s] => fillAge[s] >= 1 /\ fillAge[s] <= MaxPendingDays + 1

\* max_positions is enforced through the metrics cache: each rebuild lost after a
\* committed BUY can cost one slot, and nothing else can.
CapUpToDeferred == Cardinality(Held) <= MaxPositions + deferred

\* With one cycle at a time a signal gets one outcome, and one more for each exception
\* or crash that came upon it: only the handler that puts a decided signal back to
\* WAIT_DATA, or a crash inside _mark_terminal, can make a later cycle decide it anew.
RedecidedOnlyWhenHit == \A s \in Signals : Cardinality(events[s]) <= 1 + hits[s]

\* Every queued signal is decided in the end, by a fill, a skip or the expiry sweep:
\* no status, score, fetch limit or shortage of data keeps it in the queue for ever,
\* even if the final cycle never gets its turn.
EventuallyDecided ==
    \A s \in Signals : pending[s] \in Waiting ~> pending[s] \in Terminal

\* The queue, the fills and the exits are an implementation of PaperOrder.
Order == INSTANCE PaperOrder WITH
            offered <- {s \in Signals : pending[s] # "NONE"},
            held    <- {s \in Signals : position[s] = "HOLD"},
            closed  <- {s \in Signals : position[s] = "SOLD"}

ImplementsPaperOrder == Order!OrderSpec
===============================================================================
