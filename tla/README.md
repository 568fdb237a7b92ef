# Zhulong: specifications of the paper-trading chain

Zhulong is an A-share research system. An evening pipeline collects market
data, audits candidates in four layers (L1-L4) and hands those that pass to a
paper account ("shadow"), which buys them on a later evening from daily bars
and sells them during the trading day; at night the day's audits become the
memory the next audits are told from. No order reaches a broker, but everything
the system says about its own performance is computed from the tables of this
account, so what the jobs do to these tables when they overlap, fail, restart or
run out of time is what these specifications are about.

Contents: 1 the system, 2 modules, 3 runs, 4 fairness, 5 proofs, 6 findings,
7 what is not modelled, 8 plan. Paths are relative to the repository
(`src/...`). `PROJECT.json` maps every definition to the lines it stands for.

## 1. The system: inventory

One process, the daemon (`zhulong_daemon.py`, one at a time by an `fcntl`
lock), schedules all jobs in memory with APScheduler (one instance per job,
`coalesce`, a grace time of 300-1800 s). A restart forgets jobs whose time has
passed. Jobs of different names overlap freely. Besides it there are command
lines (one-shot pipeline, audit engine, receiver, fill engine, intraday manager,
quarantine tool), children the daemon starts (audit engine, memory refresh) and,
inside the intraday job, a bridge with its own threads. State lives in DuckDB
files, a Chroma index and one JSON file; every DuckDB connection goes through a
gateway with a process lock and the lock of the file, so *one connection block
is one atomic step* across all processes, but two blocks of one function are
not, and statements autocommit unless the code opens a transaction. `DbGateway`
models that assumption and proves it.

| Component | State | Operations | Hard behaviour | What makes it correct |
| --- | --- | --- | --- | --- |
| **L1-L4 audit engine** `02_brain/decision_engine.py` | rows of `nexus_audits`, state file, run ids, deadline | run, resume, L1, L2, L3, hearing, save | exceptions per candidate, crashes, a deadline at every stage, a resumed process working from a snapshot, a child killed by its time limit | DONE means every row is judged; an empty DONE means nobody was found; a completed run is closed; the daemon's run ends |
| **L4 cloud court** (same file) | requests of five parties, incidents, ruling, verdict | convene, ask, pause, recover, join, rule, record, attribute | two advocates in two threads, providers that go away for hours, garbled replies, weights after the ruling | nobody is outrun; incidents match pauses; the verdict stays in the envelope of Judge and L3 |
| **T+1 fill engine** `05_shadow/lib/t1_fill_engine.py`, `portfolio_metrics.py` | queue `fact_shadow_pending_signals`, fill events, dedup keys, ledger, `fact_paper_positions`, cached metrics | enqueue, expiry sweep, fill cycle in modes probe/main/final, watchdog | command line beside the daemon; commit and bookkeeping in different transactions; gates that fail open; a cap read from a cache; waiting signals behind a fetch limit | one BUY per signal, whole or absent; one open position per stock; every decision has its event; every signal is decided |
| **Paper positions** `intraday_manager.py`, `engine.py` | positions, ledger, liquidation events, guard table | tick over all open rows, sell plan, sale transaction, force liquidation | a row judged by a copy taken several network calls earlier; the poller liquidates meanwhile; a sale cut to the market's capacity | lots add up; closed is closed; stops never fall; a first profit is taken once; invalidated theses are sold out |
| **Strategic memory** `01_engine/lib/rag_refresher.py`, `02_brain/lib/rag_pipeline.py`, `tools/quarantine_rag_weak_rps.py` | rows of `fact_strategic_memory`, chunks in Chroma, marks between them | refresh, nightly and weekly backfill, embedding, reconciliation, quarantine, search and its gate | two stores without a common transaction; cleanups that fail; a reader between them | a memory that is told is the present, uncondemned one; every memory is settled in the end |
| **Tactics bridge** `03_tactics/tactics_bridge.py` | semaphore, counters, executor; Eagle pool, slots, lifecycle lock | fire_and_forget, Eagle persistence, 15:05 flush | counters and semaphore under different locks; a flush replacing pools under running timers; cancelled futures | permits and slots accounted for; accepted writes run; the flush returns |
| **Eagle Eye** `03_tactics/eagle_eye.py` | pulses, candidates and timers by symbol | scan, T+3 and T+5 callbacks, cleanup | timers and scans racing with a cleanup that iterates over their dictionary; results written by a third thread | a pulse is judged in two phases, recorded once, and decided or released |
| **Signal receiver** `05_shadow/lib/signal_receiver.py` | `nexus_audits.shadow_processed`, skip records, reinforcement events, in-memory task ids | fetch, reinforce, gates, skip, queue, mark, poll | outcome and mark on two connections; two receivers; failure of each write | marked implies on record; reinforced once; only the validated run |
| **Daemon and pipeline rows** `zhulong_daemon.py` | `ops_pipeline_state`, the day's facts | harvest, audit, dispatch, one-shot, restart | sticky final statuses; missed jobs; budget overruns into other jobs; restart between two rows | the audit works on complete facts; a PASS is answered |
| **Database gateway** `01_engine/lib/db_gateway.py` | process lock, connections, tries | open, retry, refuse, write, close | nested blocks in two modes, lock conflicts between processes, failed opens, crashes | a block is alone; the lock is never kept; whoever asks is answered |
| Trade calendar `trade_calendar.py` | calendar rows, overrides | refresh, decide, inspect | gaps, staleness, scopes | unknown never opens an entry |
| Data bridges `01_engine` | fetched tables | sync | provider failures | incomplete data is not DONE (the facts of `EveningPipeline`) |
| Eagle active path, Echo, Owl, signal bus `03_tactics` | observation records, incubation rows | ingest, finalize, incubate, awaken, decay | duplicate scans, TTL | no trade is written here |
| Poller `poller_main.py` | consumed marks | radar, fusion, meltdown | force liquidation beside the manager | *its liquidation is an action of PaperPositions* |
| Governance core `04_governance/lib/core` | breaker counts, balance cache, SQLite state | cloud calls, mode changes, saves | cool-down, stale balance | three of its modules are imported by nothing that runs |
| Watchtower `06_watchtower` | none of its own | HTTP views | reads a snapshot | read only |
| Macro, ETF, US radar `07_`, `08_`, `10_` | own report tables | batch pipelines | providers | no shared state with the account |
| Offline tools `tools/`, `layers/l5_evolution` | reports | audits by hand | none | read only by default, but for the quarantine tool above |

**How they interact.** 20:30 harvest writes the facts and its row; 21:00 audit
reads the row and the facts, starts the engine as a child, validates its run,
sets its own row to DONE and then calls the receiver for exactly this run. The
engine asks the memory and the cloud about each candidate and writes a row
after every stage. The receiver reinforces a held stock, records a skip, or
enqueues the signal; on a later day the 20:15 (main) or 22:20 (final) cycle
buys what is due; from 9:30 on the intraday job sells, scans for pulses, and the
poller may liquidate everything at once; 15:05 flushes the bridge; at 01:00 the
day's audits are stored and embedded. The final cycle is skipped while harvest
or audit is in progress. Tables are the only channel between these jobs, which
is why one module hands its table to the next: the validated run of `AuditRun`
is the PASS set of `EveningPipeline`, `queue` of `SignalReceiver` is `pending`
of `T1Fill`, and `position` there is `row` of `PaperPositions`.

## 2. Modules

| Module | Models | Uses |
| --- | --- | --- |
| `Hearing` | what the court promises the engine: a hearing opens, may stand still, and ends with one verdict inside the envelope of the L3 result | |
| `CloudCourt` | the court in detail; implements `Hearing` (`H == INSTANCE Hearing WITH ...`) | `Hearing` |
| `AuditRun` | the engine of one date, its rows and state file, and the daemon's verdict on its run; the court is a `Hearing` | `Hearing` |
| `AuditProofs` | theorems about `AuditRun`, then about `CloudCourt`, the refinement among them | `AuditRun`, `CloudCourt`, TLAPS |
| `PaperOrder` | what the account promises about one order, without jobs, retries or tables: offered, bought at most once, one holding per stock, closed for good | |
| `T1Fill` | the fill engine; implements `PaperOrder` (`Order == INSTANCE PaperOrder WITH ...`) | `PaperOrder` |
| `T1FillProofs` | theorems about `T1Fill` | `T1Fill`, TLAPS |
| `PaperPositions` | intraday manager and force liquidation | |
| `PositionsProofs` | theorems about `PaperPositions` | `PaperPositions`, TLAPS |
| `RagMemory` | the two stores of the memory, their writers, the reader and the tool | |
| `RagMemoryProofs` | theorems about `RagMemory` | `RagMemory`, TLAPS |
| `TacticsBridge` | both pools and the flush | |
| `TacticsProofs` | theorems about `TacticsBridge` | `TacticsBridge`, TLAPS |
| `EaglePulse` | pulses, timers and the cleanup of the flush | |
| `EagleProofs` | theorems about `EaglePulse` | `EaglePulse`, TLAPS |
| `SignalReceiver` | the receiver, in any number of processes | |
| `EveningPipeline` | harvest, gate, audit, dispatch and the two processes that may run them | `SignalReceiver` |
| `EveningProofs` | theorems about the evening and the receivers | `EveningPipeline`, TLAPS |
| `DbGateway` | connection blocks of threads and processes | |
| `DbGatewayProofs` | theorems about `DbGateway` | `DbGateway`, TLAPS |
| `MC_T1Fill`, `MC_PaperPositions`, `MC_DbGateway`, `MC_RagMemory` | values of the constants that are functions | |

**Hearing and CloudCourt.** A brief is the L3 result a hearing opens on: an L3
PASS or HOLD, or an L3 VETO downgraded by the dual gate, with the capital-flow
signal. `CloudCourt` has one request per party (`call`, `reply`): `Respond`,
`Pause` when the provider is away after its five tries, `Recover` when the poll
gets HTTP 200 again and opens the request anew. `JoinBoth` waits for both
advocates, `Join` asks the Judge or rules insufficient evidence, `Rule` reads
his reply or, when it is garbled, computes the local ruling from both pleas;
`Record` applies weight, bonus, Notary and news gate in the order of the code,
`Attribute` asks why a HOLD is one, `TakeVerdict` hands the verdict to the
engine. `HearingState` is the refinement mapping.

**AuditRun.** `rows`, `file` and `outcome` are what survives a process; `st`,
`todo`, `acc`, `live` are locals of `Nexus.run`. `L1`, `Next1`, `L2Audit`,
`L2Reject`, `L2End`, `L3Audit`, `L3End`, `Gate`, `L4Call`, `L4Done`, `L4End` are
its stages with the exception branch of each; `Cut` and `Exit` are the deadline
guard. `DaemonStarts` opens a new run id, `CliStarts` resumes the file when it
may; `Dies` loses the locals and may tear the file (`Torn`); `Kills` is the time
limit of the daemon's child; `Concludes` is `_validate_audit_run_completion`
with its receipt and its zero-candidate clause. `flow`, `entered` and
`completed` are there for the properties.

**T1Fill.** `pending`, `age`, `dedup`, `ledger`, `position`, `today`, `events`,
`metrics` are the tables (`age` counts trading days since the signal and stands for
the dates; `today` is what the BUY guard on same-day rows reads). Each worker is one
call of `run_t1_fill_cycle`: `todo`, `cur`, `decided`, `mode` are its locals and
`pc` says between which two database blocks it is.
`Start`-`SweepOne`-`Fetch`-`Gate`-`Price`-`CommitBuy`/`RejectBuy`-`Rebuild` and
`RecordEvent`-`UpdateStatus`-`Settled` follow the code block by block;
`Fault`/`MarkError` are the `except` branch that puts a signal back to WAIT_DATA,
`Crash` loses the locals. A fault may also come after the COMMIT or after the last
write, when a connection does not close or a push fails: the signal is then FILLED,
or decided otherwise, and put back all the same. `hits` counts, for the properties,
the faults that came upon each signal. The sweep and the fetch take the `SweepLimit`
oldest and the `FetchLimit` best signals (`Foremost`). Prices, lots and cash are
replaced by the set of facts the price decision branches on; every combination is
allowed.

**PaperPositions.** `row` is the table, `sold` the ledger, `seen` the copies the
tick in progress took at its start. The sell plan is an ordered list of rules
(`Order`, `Applies`), each giving lots, stage and line. Prices are percent of
the entry price, sizes are lots. `Sell` is one sale transaction: it checks the
*current* row and writes columns computed from the *copy*, as the code does.
`Liquidate` is the poller's transaction, at most once a day by the guard table.

**RagMemory.** `row` is `fact_strategic_memory` (text, enrichment status,
attempts, embedding status), `index` the text under each chunk id; `leftover`
keeps, for the properties, the rows whose last deletion from it failed. One process
writes at a time and `job`, `pc`, `todo`, `cur`, `text` are its locals: `Sift`
and `Clean` condemn poor narratives and delete their chunks, `Extract`, `Store`
put the day's records under a template, or raw when they have none that passes
(`Bare`: echoes, and the `Rejected` records of other sources whose narrative the
quality check refuses), `Backfill`, `EmbedPending` reconcile and
embed what is pending, `Attempt` is one candidate of a backfill. An embedding is
`Delete`, `Upsert`, `Mark`, `Degrade`, one call each. `Condemn`, `Purge` are the
tool. `Query` and `Gate` are the reader, which may come between any two of these
calls. `Crash` and `Lose` (of the index) are the world.

**TacticsBridge.** A step is the code between two lock or semaphore operations.
A scan passes through `granted`, `counted`, `queued`, `running`, `settled`,
`done`; an Eagle write likewise under the lifecycle lock. `Shutdown` cancels
what is queued, `Reopen` keeps the semaphore, `CloseEagle`/`ReopenEagle` drain
and replace the Eagle pool.

**EaglePulse.** An EagleEye object has candidates and timers by symbol; a flush
drops the object. A step of a callback reaches to its next network call or
thread start, so `Catch`, `StartT3`, `RegisterT3`, `Fires`, `T3Confirms`,
`RegisterT5`, `T5Judges` and `Record` can be interleaved with `CancelNext`, the
loop of the cleanup, which ends early (`CleanupEnds`) when the dictionary has
changed its size. `late` marks pulses caught by an object that is already being
released; nothing is promised for them.

**SignalReceiver and EveningPipeline.** A task is a pair (audit run, stock), as
`task_id` is. Every connection is a step: `Take`, `Reinforce`, `Store` (skip or
queue, decided by gates), `Mark`, and for each the failure that the code turns into
"return False". `queue` is the set of queued tasks: in which of its waiting states a
signal is queued makes no difference here. `torn` counts reinforcements whose count
was raised without the event. `EveningPipeline` adds the two rows with their sticky
final statuses (`Row`), the facts they speak of, the daemon and the one-shot process
under the singleton lock, the gate, and `Miss` for jobs whose time passes while
nothing runs. A one-shot may come at any time, ahead of the jobs of the evening too
(`early`), as `run_oneshot_430.sh` runs it before it starts the daemon again;
`crossed` remembers the audit runs under which a harvest wrote new rows.

**DbGateway.** `owner` and `depth` are the reentrant lock of each process,
`conn[t][l]` the connection of thread `t` at nesting `l`, `wrote` who wrote while
it was open. `Ask`, `Acquire`, `Open`, `Retry`, `Refuse` are the way into a block,
`Close` the way out; `Agree` and `Compatible` are DuckDB's part: one
configuration per process, one writer or many readers per file.

## 3. Runs

All runs finish in under five minutes with two TLC workers. Deadlock is not
checked where the system may really stop: no position left open, all calls
handled, the runs of the date or the evening over. `CloudCourt`, `DbGateway`,
`T1Fill` and `RagMemory` may always go on; the first three check deadlock.

| Run | Question | Bounds and why they suffice |
| --- | --- | --- |
| `cloud_court` | incidents, envelope, who is heard, the refinement of `Hearing`, and that the court rules | every reply each parser tells apart, so all rulings are reached; sentiment 0, 5, 10 and weights 60, 100, 140 % lie on both sides of each threshold; two outages let two parties pause at once, on one provider or on two |
| `audit_run` | completion, receipts, closure of completed runs, end of the daemon's run | two candidates make "some but not all" possible; two run ids, so that a run may find another's file; two entries let one run take both candidates or two runs one each; two exceptions or crashes, anywhere, are what it takes to resume a run in the daemon's back (section 6); flows are left to the next run |
| `audit_exit_lost` | *finding*: a capital-flow EXIT and resumption | one candidate, one run id, one crash |
| `t1_fill` | one cycle at a time, main or final: evidence, cap, window, who is decided twice, and that every signal is decided | two signals on two stocks with a fetch limit of 1 (the lower score waits behind the higher one) and a cap of 1 (the second buy must be refused); a window of 1 trading day makes expiry, retry and fill all reachable; one fault is enough to tear any two statements apart, to put a filled signal back or to lose one metrics rebuild |
| `t1_fill_overlap` | two cycles overlap on two signals of one stock | two workers and two signals are what a double buy of a signal and a double holding of a stock need; a sweep limit of 1 leaves one of them out of the sweep; one fault puts a bought signal back, so that its BUY is tried again; window 0 keeps days few. The `VIEW` leaves out what no step and none of the three properties reads: history, fill days and the events other than FILLED |
| `positions_safety` | the whole ladder of exits with capped sales, crashes and a liquidation between read and write | ten lots is the smallest size with a 10% runner of a whole lot and a third that is not half; quotes lie below the extreme stop, at the entry, between the targets, above the second, and high enough for a pullback of 5%; capacities are unknown, 2 and 3 lots, both below the small-order bound of 4 that releases protective sales |
| `positions_live` | an invalidated thesis is sold out although the market takes 2-3 lots at a time | the same row without the quotes that only the profit stages need |
| `rag_memory` | what a reader is told, what the index holds, and that every memory is settled | one memory from the audit and one whose template is rejected, which take different ways (a rejected one goes the way of an echo, and the tool may also condemn it); a text of two chunks and one of a single chunk, so that a shorter text must clear what a longer one left; a poor text; one attempt by night and a second by the week; one crash, failed call or loss of the index |
| `tactics_bridge` | every order of scans, timer threads, worker steps and two flushes | three calls against two permits force a rejection, two writes against one slot force a full queue, two flushes let slots and permits cross a replacement twice, one refused submission |
| `eagle_pulse` | scans, timers and a flush in every order | two symbols and two pulses let a second pulse of the same or another symbol be caught while the first is judged; two scans, one of which may overtake the flush; one flush, after which a new object starts |
| `evening` | scope, gate and outcomes with restarts, a second run and a second receiver | two runs of the date (the second is what makes scope matter), the daemon's and one command-line receiver, one fault; a one-shot at any time, so that its run may be the first and the daemon's the second; one stock, since the tables are keyed by task and stocks meet only in `holding` |
| `db_gateway` | isolation, the lock, and an answer for every open | two threads of one process and one of another: conflicts inside and between processes; depth 2 gives all nestings of the two modes; two tries, the last of which refuses; one crash or error |

Properties by hazard (`PROJECT.json` lists them with their lines):

* **Atomicity and double effects.** `BuyChainAtomic`, `OneHoldPerSymbol`,
  `ImplementsPaperOrder` under overlapping cycles: it is the transaction of
  `_commit_filled_buy` alone that keeps them; the earlier look-up fails open.
  `ReinforcementsCounted`: count and events of a position differ by exactly the
  torn writes, even with two receivers. `BlockAlone`: what makes a connection
  block one step in every other module.
* **Crash between two statements or two stores.** `StatusHasEvidence`:
  `_mark_terminal` may lose a status, never the event of a status.
  `MarkedIsTraced`: an audit row is marked only when the outcome is on record.
  `IndexAgrees`: a row says embedded only when its chunks are all there and
  nothing else is, or all gone; chunks of an older text stay beside them only when
  their deletion failed. `CompletedIsFinal`, `ZeroMeansZero`: a torn or outdated state file
  reopens no completed run and passes for no empty one.
* **Stale reads.** `QuantitiesAddUp` and `SoldIsFinal` hold although the manager
  writes columns computed from an old copy: the guard in the sale transaction
  and the fact that the poller only ever empties a row are both needed.
  `CapUpToDeferred`: the position cap is enforced through a cache, and the
  property states exactly how much that can cost. `CondemnedForGood`: a hit
  found before a memory was rewritten or condemned is not told after it.
  `InTurn`: a result is recorded as it was decided although another thread reads
  the pulse later. `IncompleteOnlyIfCrossed`: the gate reads a row that is
  final for good, so there is one way past it, and the property says which.
  `DispatchScope`: what the dispatcher holds.
* **Order of several actors.** `NobodyOutrun`, `PausedHasIncident`,
  `PassWithinEnvelope`, `ImplementsHearing` with two advocates, pauses on one or
  two providers, and five weights after the ruling.
* **Partial results.** `DoneIsJudged`: a candidate that was skipped by an
  exception keeps a run from DONE, and no resumption takes a verdict from a run
  that is. `LineMatchesStage`, `FirstShareOnly`: a capped
  sale is written with the stage of the whole one, and must still leave a
  protected position.
* **Boundaries and windows.** `FillWindow`, `SlotsAccounted`,
  `LockMatchesBlocks`.
* **Sequences and retries.** `RedecidedOnlyWhenHit`: the error handler puts a
  signal back whatever became of it, so a decided signal may be decided anew; it
  happens by an exception or a crash on this very signal and by nothing else.
  `LineNeverFalls`.
* **Progress.** `CourtRules`, `DaemonRunEnds`, `EventuallyDecided`,
  `CriticalExit`, `SettledForGood`, `PulseDecided`, `FlushOver`,
  `AcceptedWritesRun`, `FlushReturns`, `AnsweredUnlessFault`, `AskedIsAnswered`.

The type invariants of all modules are proved (section 5); those of `AuditRun`,
`PaperPositions`, `EveningPipeline`, `TacticsBridge` and `EaglePulse` are also a
conjunct of a property that a run checks.

Each property of a passing run has a mutant in `PROJECT.json`: a definition
changed as a plausible bug would change it, under which TLC finds the property
violated. Definitions such as `DueWithoutNews` or `GiveBackNothing` stand beside
the ones they mutate and are used nowhere else.

## 4. Fairness

* `CloudCourt!CourtLiveSpec`: the threads of the court go on, a paused request
  keeps polling (`_pause_until_l4_provider_recovers` has no way out but HTTP
  200), and an outage ends.
* `AuditRun!LiveSpec`: time passes, and the daemon's thread, which waits for its
  child with a time limit, goes on. Nothing is assumed about the engine or the
  providers: `DaemonRunEnds` holds because of the time limit alone.
* `T1Fill!LiveSpec`: trading days go by, *some* cycle (main or final) starts
  again and again on each worker and runs to its end. It is strong fairness on
  starting, since midnight and a running cycle disable it in between. The final
  cycle is not assumed: the daemon skips it while the audit is in progress, and
  the audit's budget often carries it past 22:20. Faults are bounded by
  `MaxFaults`. A cycle that hits the same exception for ever is outside this
  assumption.
* `PaperPositions!LiveSpec`: the intraday job keeps ticking and a tick goes on;
  a sale that is possible again and again is made (strong fairness): a stock is
  not sealed at its limit, without a quote or out of luck with the database for
  ever.
* `RagMemory!LiveSpec`: a process goes on, dates pass, the refresh and the
  weekly job start again and again (strong fairness, since another process
  disables them), and the nightly backfill follows a refresh that ended well,
  as `phase_synthesis` calls it. The tool and the reader are not assumed.
* `TacticsBridge!LiveSpec`: threads that can run do run; strong fairness only
  for the flusher acquiring the lifecycle lock, which Python's lock does not
  promise but which finitely many timer threads per day give.
* `EaglePulse!LiveSpec`: scan, timer threads, persistence worker and flush go
  on. The daemon's flush is not assumed to begin.
* `EveningPipeline!LiveSpec`: a phase that has begun goes on, and so does the
  receiver it calls, until the process ends. Nothing is assumed about starting
  the daemon, a one-shot or a command line.
* `DbGateway!LiveSpec`: an open that has the lock is tried, tried again or
  refused; a thread that is inside blocks leaves each of them in the end (the
  blocks of this code are short and wait for nothing but nested blocks), and a
  thread that finds the lock free again and again takes it, which finitely many
  callers make plausible and Python's lock does not promise.

## 5. Proofs

Every safety invariant, action property and refinement that a passing run checks
is also a theorem. It holds for all values of the constants under the assumption
its module names (`T1Assumption`, `CourtAssumption`, `AuditAssumption`,
`GatewayAssumption`, `RagAssumption`, `ReceiverAssumption`, `PositionAssumption`,
`BridgeAssumption`, `EagleAssumption`): finite or arbitrary sets, natural bounds,
functions of the right types. The bounds on runs, faults, pulses or flushes stay in
the guards, but may be any number. A hypothesis beyond these is in the table.

| Module | Theorem | States |
| --- | --- | --- |
| `T1FillProofs` | `TypeCorrect` | `Spec => []TypeOK` |
| | `BuyChain` | `Spec => []BuyChainAtomic` |
| | `OneHold` | `Spec => []OneHoldPerSymbol` |
| | `Implements` | `Spec => ImplementsPaperOrder` |
| | `StatusEvidence` | `Spec => []StatusHasEvidence` |
| | `FilledInWindow` | `Spec => []FillWindow`, if `CalendarKnown = {TRUE}` and `Cardinality(Signals) <= SweepLimit` |
| | `DecidedOnceUnlessHit` | `Spec => []RedecidedOnlyWhenHit`, if `OneCycle` |
| | `CapHolds` | `Spec => []CapUpToDeferred`, if `OneCycle` |
| `AuditProofs` | `AuditTypeCorrect` | `Spec => []TypeOK` |
| | `CompletedClosed` | `Spec => CompletedIsFinal` |
| | `DoneKeepsVerdicts` | `Spec => []DoneIsJudged` |
| | `ZeroIsZero` | `Spec => []ZeroMeansZero` |
| | `DoneStaysFinal` | `Spec /\ CliWaits => []DoneIsFinal` |
| | `IncidentsFollowPauses` | `CourtSpec => []PausedHasIncident` |
| | `PassStaysInEnvelope` | `CourtSpec => []PassWithinEnvelope` |
| | `CourtHearsAll` | `CourtSpec => []NobodyOutrun` |
| | `CourtTypeCorrect` | `CourtSpec => []CourtTypeOK` |
| | `CourtIsAHearing` | `CourtSpec => ImplementsHearing` |
| `DbGatewayProofs` | `TypeCorrect` | `Spec => []TypeOK` |
| | `LockFollowsBlocks` | `Spec => []LockMatchesBlocks` |
| | `BlocksAreAlone` | `Spec => []BlockAlone` |
| `RagMemoryProofs` | `TypeCorrect` | `Spec => []TypeOK` |
| | `CondemnedStays` | `Spec => CondemnedForGood` |
| | `IndexFollowsRows` | `Spec => []IndexAgrees` |
| `EveningProofs` | `TypeCorrect` | `Spec => []TypeOK` |
| | `MarkedKeepsTrace` | `Spec => []MarkedIsTraced` |
| | `CountMatchesEvents` | `Spec => []ReinforcementsCounted` |
| | `DispatchStaysInScope` | `Spec => []DispatchScope` |
| | `GateHolds` | `Spec => []IncompleteOnlyIfCrossed` |
| `PositionsProofs` | `BooksAddUp` | `Spec => []QuantitiesAddUp` |
| | `ClosedForGood` | `Spec => SoldIsFinal` |
| | `LineHolds` | `Spec => LineNeverFalls` |
| | `LineFollowsStage` | `Spec => []LineMatchesStage` |
| | `FirstShareOnce` | `Spec => []FirstShareOnly` |
| `TacticsProofs` | `TypeCorrect` | `Spec => []TypeOK` |
| | `SlotsKept` | `Spec => []SlotsAccounted` |
| `EagleProofs` | `EagleTypeCorrect` | `Spec => []TypeOK` |
| | `JudgedInTurn` | `Spec => []InTurn` |

**T1FillProofs.** `TypeOK` is inductive by itself, by one case per action; it
says also that a worker in the middle of a signal has one in hand, which `Decide`
and `CommitBuy` rely on. The inductive invariant of the next two is `ChainInv`,
the conjunction of `TypeOK`, `NotDecidedFilled`, `BuyChainAtomic` and
`OneHoldPerSymbol`. `NotDecidedFilled` is the strengthening: no decision a
worker carries to `_mark_terminal` is FILLED. Without it `RecordEvent` could
write the event without the rest of the chain. Only `CommitBuy` then touches the
chain as a whole, and its guard (`Buyable`) refuses a signal already in `dedup`
and a stock already held; `OtherStepsFrame` collects the steps that leave it
alone. `Implements` maps `Enqueue` to `Offer`, `CommitBuy` to `Buy`, `CloseOut`
to `Close`, and every other step to a stutter. It needs `RefineInv`, which adds
`InHandQueued`: whatever a cycle has in its list or in hand has a row in the
queue, and rows never go (`QueuedGrows`), so what is bought was offered.
`StatusEvidence` needs `Evidenced`: what a worker carries to the second statement of
`_mark_terminal` has been recorded by the first. It holds for overlapping cycles, as
does `FilledInWindow`, whose strengthening follows a signal through the cycle: ages
do not change while a signal is in hand (`Aged`), and what is past the window is
still on the list of a sweep or being expired by it (`Swept`), so the work loop
never gets it, whatever another cycle puts back meanwhile. With gaps in the
calendar the sweep cannot count days, with more due signals than the sweep looks
at (200) it does not reach all, and the theorem is false, as it should be.
`DecidedOnceUnlessHit` and `CapHolds` check in one step and act in a later one; they hold
for one cycle at a time (`OneCycle`), which is what the daemon runs. With two
overlapping cycles TLC refutes both in a few steps. `InHandWaits` says that the
cycle's list and the signal in hand still wait until its status is written;
`WaitsUndecided` that a signal that waits has no more final events than hits,
except between the two statements of `_mark_terminal`; `HandlerWasHit` that the
handler of exceptions was reached by one. `SlotKept` says that the cached count
lags behind by no more than the lost rebuilds and the one to come, and that a BUY
past the check still has its slot.

**AuditProofs, the engine.** `AuditInv` says what a process and the tables know of
each other. `Placed`: a process works on the run and at the stage of the state
file, the file says COMPLETED of the completed runs only, and the daemon has no run
but the one its child works on. `Registered`: what L2 passed has a row, and a final
row has a verdict. `PastL2`: once the daemon's child has ended well, its run can be
resumed only after L2, because L2 and L3 write the file even when the deadline cuts
them. That is what `DoneIsJudged` rests on: L3 and L4 may rewrite a row of a DONE
run, but a packet without a verdict leaves the verdict (`MergedParts`). TLC refuted
the stronger first form of `DoneIsJudged`, that rows of a DONE run are final:
section 6 has the schedule. `DoneStaysFinal` proves that form under `CliWaits`, no
start from the command line before the daemon has looked at the rows of its run. Its
invariant adds what the lists of the file hold (`Lists`), that the daemon's child is
alone with its run (`Alone`), and that whatever the file would let a later process
do is already final (`Settled`).

**AuditProofs, the court.** `CInv` adds to the properties the phase of every request
(`Phase`: no Judge before both pleas, no Notary before a ruling), that an answer
is one its parser knows (`Answers`), and that a verdict lies in the envelope
(`Within`). The envelope survives the weights because the cap is applied to the
band, not to the score (`LoweredWithin`, `HoldWithin`): no bound on the weights
is needed. `CourtTypeCorrect` needs the arithmetic: scores stay within 0..100
whatever is weighed (`Weighing`, `OnScale`, `LocalScore`). `CourtIsAHearing`
maps `Convene` to `Open`, the first pause to `Stall`, the last recovery to
`Resume`, `Record` or `Attribute` to `Decide`, and the rest to stutters.

**DbGatewayProofs.** `IInv` adds `Stacked` (connections of a thread are those of
its nested blocks), `OwnLock`, and `AllAgree`, DuckDB's rule over all pairs of
open connections. `BlockAlone` then follows from `WriterAlone`: whoever writes
holds a block in mode RW, which agrees with no block of another thread.

**RagMemoryProofs.** `CondemnedStays` follows from typing and one lemma for the
writers (`MarkKept`) and one for the reader (`ToldIsPresent`). `IndexFollowsRows`
needs more: a row whose chunks are being changed is not marked as embedded and
its text is the one in hand (`InHand`), nothing is beside the chunks being
written unless the deletion before it failed (`Written`), what is still in the
loop over pending rows is still pending (`PendingTodo`), and rows of the latest
date that have a template were never polished, so that the refresh replaces them
(`FreshRows`, `StoreTodo`). The last one is why the optional polish of the
refresh is not harmless; see section 6.

**EveningProofs.** `OutcomeSteps` says once which steps touch an outcome: four
steps of a receiver, whoever runs it. `MarkedKeepsTrace` needs `ReadyIsTraced`
(what a receiver is about to mark has its trace, and traces only grow);
`CountMatchesEvents` needs the events of a stock to be a finite set, and adds one
element at a time. `DispatchStaysInScope` rests on `RunInHand` (a dispatch has a
validated run) and on the fact that only the daemon's own steps touch its list.
`GateHolds` needs `GateInv`: without an early one-shot the daemon's harvest comes
once, before its audit, and the row the gate reads is its own; with one, an audit
of the daemon still begins behind a final row and on complete facts, so facts that
are incomplete later were made so by a harvest under this run.

**PositionsProofs.** The inductive invariant is `Copied` (a copy of a row that is
still open is the row: the only other writer closes it) with `Balanced`, the books
of one position. A sale is committed on an open row only, so on an exact copy;
`PlanSound` and `FillSound` bound what it takes. The stage theorems need the
order of the rules: `FirstOfOrder` shows that the first applicable rule exists,
`RuleApplies` what its place in the list excludes (the first profit is never taken
past the second target, a trim never has a single lot), and `Staged` that a
row after the first sale has not reached the second target. The books and the
lines hold because all the rows have one manager; see section 7 for two.

**TacticsProofs.** One lemma for calls (`TaskMoves`) and one for writes say that an
item that changes its state changes every count by at most one; each action is then
arithmetic. `QueueSound` and `EagleQueueSound` (a queue has each accepted item once
and none that was cancelled) are what `Shutdown` needs to count what it cancels.
`LockHeld` ties the lifecycle lock to the write that is between slot and
submission, or to the flush. `EagleAccounts` has no term for cancelled writes: the
Eagle pool drains. The upper ends of permits and slots in `TypeOK` follow from the
accounts and from nothing less.

**EagleProofs.** The difficulty is that every table is keyed by symbol, not by
pulse, so a callback looks its pulse up again after each network call. `OneEach`
and `Lookups` show that a pulse caught outside a flush is held by its own timers
only: a second pulse of the same symbol on the same object is a late one, caught
after the flush has released the first. `Candidates` and `Scanning` say that the
singleton has all its pulses and that a scan works on the singleton, unless a flush
that waits for it has dropped it; `Singles` bounds the objects by the flushes.
`Phases` then reads from its two timers how far a pulse is, and `Written` follows
its one result through the persistence queue.

**Only model-checked**: liveness, since neither temporal reasoning with fairness nor
ENABLED is within the prover's reach: `CourtRules`, `DaemonRunEnds`, `PulseDecided`,
`FlushOver`, `AskedIsAnswered`, `EventuallyDecided`, `CriticalExit`,
`AcceptedWritesRun`, `FlushReturns`, `SettledForGood`, `AnsweredUnlessFault`. And
`ExitNeverPasses`, which is false (section 6).

## 6. Findings

`audit_exit_lost`: the L3 result written to the state file leaves out
`zeta_result` (`decision_engine.py:1342`), and the hard veto of a capital-flow
EXIT reads it (`:6517`). A run resumed at L4 may pass such a candidate.

Seen while modelling, without a run of their own:

* `engine.py:1635`: the force liquidation overwrites the realized columns of a
  position that had realized a part; the ledger has both sales, and
  `performance.py:4` merges all partial exits into one trade.
* `intraday_manager.py:342`: a second take-profit cut by the market leaves more
  than the 10% runner in the locked stage, and the rule does not fire again,
  while the pushed text (`:2040`) speaks of the runner.
* `t1_fill_engine.py:1773`: the watchdog selects PENDING and WAIT_DATA only; a
  due signal in WAIT_NEWS_CHECK is non-terminal and not reported.
* `tactics_bridge.py:1028`: futures cancelled by the flush never return their
  permits, so later calls are rejected as full while fewer are under way.
  `SlotsAccounted` states the loss exactly: one permit per cancelled call.
* `t1_fill_engine.py:1744`: an exception after the COMMIT of a BUY (the connection
  does not close, `db_gateway.py:489`; the push fails, `:1668`) ends in the handler,
  which writes WAIT_DATA over FILLED, although `_commit_filled_buy` is documented to
  "Commit one T+1 BUY as a single evidence-chain transaction" (`:1306`). The watchdog
  then reports a filled signal as waiting. The next cycle's BUY is refused by the
  dedup key, and the signal ends as SKIPPED or EXPIRED while its FILLED event and its
  position stay. `BuyChainAtomic` holds all along: nothing is bought twice, and what
  is lost is the status. `RedecidedOnlyWhenHit` bounds it by the exceptions.
* `t1_fill_engine.py:1224`: a sweep looks at the 200 oldest due signals. Beyond that
  number an expired one may reach the work loop and be bought.
* `rag_refresher.py:2576`: when the deletion of a longer text fails, its last chunks
  stay beside a shorter one until the row is embedded again. The reconciliation sees a
  group and is content; the reader's hash check rejects them.
* `signal_receiver.py:738`: "pending retry" has no retry behind it; the audit
  row is DONE (`zhulong_daemon.py:2716`) before the dispatch (`:2796`).
* `zhulong_daemon.py:727`: after an earlier one-shot of the date, the sticky
  DONE hides a harvest in progress from the audit gate. The audit may then begin on
  the facts of the one-shot and have the daemon's harvest write new daily rows under
  it, against the "Hard gate for Phase 3" (`:760`). `run_oneshot_430.sh` is the
  sequence: a one-shot of a date, then the daemon, which is still to run the jobs of
  this date if it is today's. `IncompleteOnlyIfCrossed` says exactly when.
* `zhulong_daemon.py:2860`: an audit still running at 22:20 makes the final fill
  skip its day. The fill phase also only asks at its start.
* `decision_engine.py:7426`: a deadline that cuts L2 or L3 short ends with exit
  code 0; when all rows written so far happen to be terminal, the daemon calls the
  run DONE although candidates were never looked at. `DoneIsJudged` speaks of
  rows, as the daemon's message does.
* `zhulong_daemon.py:2708`: between the end of the child and the daemon's look at its
  rows, a process from the command line may resume the run (a cut child leaves the
  file at L3). When an audit of this process raises, the row is TERMINAL; when the
  process then dies and a third resumes at L3, the daemon may meanwhile have called
  the run DONE, and the third writes L3_DONE over TERMINAL. The verdict stays,
  so the dispatch, which reads verdicts, is the same; but a row of a DONE run is
  under audit again. `DoneIsJudged` allows it; `DoneStaysFinal` excludes it.
* `decision_engine.py:5887`: when the Judge's reply is garbled, a local score of
  both pleas rules, and it may be a PASS; it stays inside the L3 envelope.
* `decision_engine.py:1716`: the state file is written in place. A torn file is
  read as a new state, so a crash costs the resumption, not the result.
* `tactics_bridge.py:988`: a pulse caught while the flush is releasing its
  object, and a callback already in flight, survive the flush.
* `rag_refresher.py:2783`: with `RAG_LLM_POLISH_ENABLED=1` a second refresh of a
  date keeps the polished row but embeds the template text and marks the row as
  embedded. The reader then rejects it by its hash for ever, and the
  reconciliation sees a group and is content. The same would follow if the template
  of a record were rejected at one extraction, polished by the backfill and accepted
  at the next, as after a change of `RAG_NARRATIVE_MIN_CHARS` or of the wording; with
  the defaults the wording of each source decides, so the model fixes it by memory.
* `rag_refresher.py:1418`: a row that was deferred and is extracted again
  becomes RAW_SYNC with the attempts it had; with five or more no job takes it.
* `rag_refresher.py:2427`: a backfill without candidates returns before it
  embeds what is pending; only the refresh does then.
* `decision_engine.py:1574` looks for a class `RagRefresher`; the class is
  `RAGRefresher`. The audit therefore never refreshes the memory, which is what
  keeps the memory to one writer at a time.
* `07_macro/lib/macro_v2_enricher.py:280` reads narratives without the gate of the
  pipeline, while `rag_refresher.py:648` says that bad ones fail closed.

## 7. Not modelled, and why

* *Audit engine*: what decides L1, L2 and L3 for a stock (arithmetic on prices and
  tables without state; the model takes every outcome), prompts, the retired local
  models and the simplified L4 path beyond `L4_CLOUD_TOP_K_MAX`; the cut of tags and
  conditions to the first eight (`decision_engine.py:1350`; `Snapshot` keeps them
  all, and no property depends on it); two engines on one date at once (nothing but
  the operator prevents it; the daemon starts one); the deadline of a paused court
  (it is not asked there; `Kills` ends it).
* *T1Fill*: the probe mode (it changes no table); amounts, lots, fees and cash
  (they decide only which branch of `Price` is taken); calendar gaps in the
  runs (`CalendarKnown` allows them, and `FillWindow` is stated for a covered
  calendar); what the watchdog pushes, since it changes no table.
* *PaperPositions*: money and fees; `close_confirm` mode and the trailing-stop
  settlement, off by default; stages nothing writes any more; an invalid price
  or a duplicate key in the force liquidation (it skips such a row); two
  overlapping managers (the daemon runs one; see the hazard at
  `intraday_manager.py:103`); reviews, which write their own tables.
* *RagMemory*: the polish during the refresh (off by default), building of the
  context and the requests to the models, the tool's checks of its manifest (it
  refuses to start while the daemon runs), run statistics, the factual search, a
  template that is rejected at one extraction and accepted at another,
  the limits on batches (200 embeddings, 120 rows a
  night, 12 a week), so `SettledForGood` says nothing of a backlog that grows
  faster than they allow.
* *TacticsBridge*: what a tactic does; the retry loop inside one Eagle write.
* *EaglePulse*: the clock (a started timer fires some time), the thresholds of
  the snapshots and the prompt of the cloud.
* *SignalReceiver*: what decides a gate; pushes and schema repair; ranking and
  limit of the fetch (a run passes at most 15, the limit is 20); sales of a held
  stock during the evening (the market is closed).
* *EveningPipeline*: backups, reports, heartbeat and the observer jobs, which
  read; several trade dates at once.
* *DbGateway*: the check that a file exists, waits between tries, repeated
  statements, `insert_dataframe`; the connection an instance keeps when a SET fails
  after the connect and the open is refused (`db_gateway.py:274`; `Refuse` leaves
  none); one instance entered again by an inner block, whose exit would return early
  (`:470`; every block of the code makes its own instance).
* *Other components*. Most lines of the repository are report pipelines (macro,
  ETF, US radar), one-shot audits under `tools/`, the HTTP views and the
  fetching of market data: they compute and render, share no state with the
  chain above but read its tables, and hold little that a model checker would
  find and a test would not. Governance: `state_manager`, `safe_writer` and
  `billing_manager` are imported by nothing that runs.

## 8. Plan

1. Done: the modules of section 2, and a theorem for every safety property the
   passing runs check.
2. `EchoRecords`: incubation, awakening and decay of `echo_manager.py`, which
   feeds the echo rows of `RagMemory`; the circuit breaker of
   `cloud_bridge.py:79`.
3. The polish of the refresh in `RagMemory`, with the run that shows what
   section 6 says of it; two managers in `PaperPositions`; two engines in
   `AuditRun`.
4. The fill phase against the pipeline rows; `AuditRun` in the place of the
   audit of `EveningPipeline`.
5. Trade calendar as pure operators against a reference definition.
6. Theorems: `RedecidedOnlyWhenHit` and `CapUpToDeferred` for overlapping cycles, in the
   weaker form that holds; each new safety property of 2-5 with its invariant;
   `DoneIsFinal` from the order in which the daemon reads file and rows instead
   of `CliWaits`.
