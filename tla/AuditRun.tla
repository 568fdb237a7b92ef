-------------------------------- MODULE AuditRun --------------------------------
(***************************************************************************)
(* The audit engine of one trade date (Nexus.run of decision_engine.py):   *)
(* L1 picks candidates, L2 and L3 audit them one by one, the cloud court   *)
(* gives the verdicts, every stage behind a deadline guard.  Rows of       *)
(* nexus_audits are saved as it goes; a JSON file keeps the stage, so that *)
(* a later process may resume.  The daemon runs the engine with            *)
(* --no-resume, kills it when its time is over and validates the run       *)
(* (zhulong_daemon.py); the command line resumes by default.               *)
(*                                                                         *)
(* One engine runs at a time.  The candidates are those within the L2 cap; *)
(* L2 and L3 take them in the order of L1.  The row of a candidate is      *)
(* saved in a connection of its own: one step.  The five _TERMINAL         *)
(* statuses are one, and so are the L3 verdicts PASS and HOLD.  The court  *)
(* is the Hearing that CloudCourt implements.                              *)
(***************************************************************************)
EXTENDS Hearing, Integers, FiniteSetsExt

CONSTANTS
    N,          \* L1 finds up to N candidates
    Flows,      \* capital-flow signals that they may have
    Kinds,      \* what L3 may make of one
    MaxRuns,    \* bound on the run ids of the date
    MaxEntries, \* bound on the candidates that all runs of the date take up
    MaxFaults   \* bound on exceptions and crashes in a behaviour

ASSUME AuditAssumption ==
    N \in Nat /\ Flows \subseteq {"none", "exit", "offline"} 
    /\ Kinds \subseteq {"open", "downgraded", "reject"}
    /\ MaxRuns \in Nat /\ MaxEntries \in Nat /\ MaxFaults \in Nat

Runs  == 1..MaxRuns
Cands == 1..N   \* by their place in the list of L1

VARIABLES
    rows,       \* nexus_audits
    file,       \* the state file
    st,         \* StateManager.state of the engine
    epc, who,   \* where the engine is and who started it
    todo, cur,  \* candidates its loop has left, and the one in hand
    acc,        \* l2_passed of its L2 loop
    live,       \* l3_results of its L3 loop
    timeUp,     \* the deadline guard would hit
    runs,       \* run ids given out
    drun, code, \* the daemon's run and the exit code of its child
    outcome,    \* the daemon's row of each of its runs
    flow,       \* capital flow of each candidate on this date
    entered,    \* candidates each run took up (history)
    completed,  \* runs that reached COMPLETED (history)
    faults      \* exceptions and crashes so far (bound)

engine  == <<st, epc, who, todo, cur, acc, live, timeUp>>
daemon  == <<drun, code, outcome>>
history == <<entered, completed>>
vars    == <<hearing, rows, file, engine, daemon, runs, flow, history, faults>>

Statuses == {"NONE", "L2_DONE", "L3_DONE", "TERMINAL", "L4_DONE"}
Row      == [status : Statuses, verdict : Verdicts \union {"NONE"}]
NoRow    == [status |-> "NONE", verdict |-> "NONE"]

Nobody  == 0
Results == [kind : Kinds \union {"none"}, zeta : {"none", "exit", "offline"}]
NoResult  == [kind |-> "none", zeta |-> "none"]
NoResults == [c \in Cands |-> NoResult]
Audited(results) == {c \in Cands : results[c] # NoResult}

\* The state file before there is one, and one that a crash left half written.
Blank == [run |-> 0, phase |-> "L1", cands |-> {}, clean |-> TRUE,
          l2 |-> {}, l3 |-> NoResults]
Torn  == [Blank EXCEPT !.phase = "TORN"]

Faulty == faults < MaxFaults /\ faults' = faults + 1

Init ==
    /\ Closed
    /\ rows = [r \in Runs |-> [c \in Cands |-> NoRow]]
    /\ file = Blank /\ st = Blank
    /\ epc = "off" /\ who = "none" /\ todo = {} /\ cur = Nobody
    /\ acc = {} /\ live = NoResults /\ timeUp = FALSE
    /\ runs = 0 /\ drun = 0 /\ code = "none" /\ outcome = [r \in Runs |-> "NONE"]
    /\ flow \in [Cands -> Flows]
    /\ entered = [r \in Runs |-> {}] /\ completed = {} /\ faults = 0

-------------------------------------------------------------------------------
(* Rows and state file.                                                     *)

\* _save_audit_inner: L4 columns are overwritten only by a packet that has them,
\* and the status L4_DONE stays.
Merged(old, status, v) ==
    [status  |-> IF old.status = "L4_DONE" THEN "L4_DONE" ELSE status,
     verdict |-> IF v = "NONE" THEN old.verdict ELSE v]
Save(c, status, v) ==
    rows' = [rows EXCEPT ![st.run][c] = Merged(@, status, v)]

\* _load falls back to a blank state; can_resume looks at the date and the phase.
Loaded == IF file.phase = "TORN" THEN Blank ELSE file
CanResume == Loaded.run # 0 /\ Loaded.phase # "COMPLETED"

SaveState(s) == st' = s /\ file' = s

\* _snapshot_l3_result keeps the verdict and the tags, not the Zeta result.  Of tags and
\* conditions it keeps the first eight; that "offline" may be cut off is left out.
Snapshot(results) ==
    [c \in Cands |-> IF results[c].zeta = "exit" THEN [results[c] EXCEPT !.zeta = "none"]
                     ELSE results[c]]

\* The process ends and its memory with it; the daemon waits for the exit code.
Exit(status) ==
    /\ epc' = "off" /\ who' = "none" /\ st' = Blank
    /\ todo' = {} /\ cur' = Nobody /\ acc' = {} /\ live' = NoResults /\ timeUp' = FALSE
    /\ code' = IF who = "daemon" THEN status ELSE code

-------------------------------------------------------------------------------
(* Start, by the daemon or from the command line.                           *)

Begin(w, s) ==
    /\ epc' = IF s.phase = "L4" THEN "gate" ELSE s.phase
    /\ who' = w
    /\ todo' = CASE s.phase = "L2" -> s.cands [] s.phase = "L3" -> s.l2 [] OTHER -> {}

\* AUDIT_RUN_ID of the daemon, or a hash of the date and the time.
RunOfTheDate == 1
NewRun == runs + 1

Fresh(w) ==
    /\ runs < MaxRuns
    /\ runs' = runs + 1
    /\ LET s == [Blank EXCEPT !.run = NewRun]
       IN SaveState(s) /\ Begin(w, s)

\* phase_audit skips a date that is DONE.
DaemonStarts ==
    /\ epc = "off" /\ drun = 0
    /\ \A r \in Runs : outcome[r] # "DONE"
    /\ Fresh("daemon")
    /\ drun' = NewRun
    /\ outcome' = [outcome EXCEPT ![NewRun] = "IN_PROGRESS"]
    /\ UNCHANGED <<hearing, rows, cur, acc, live, timeUp, code, flow, history, faults>>

\* Resumes when it can, unless it was told --no-resume.
CliStarts ==
    /\ epc = "off" /\ (drun = 0 \/ code # "none")
    /\ \/ /\ CanResume
          /\ st' = Loaded /\ Begin("cli", Loaded)
          /\ UNCHANGED <<file, runs>>
       \/ Fresh("cli")
    /\ UNCHANGED <<hearing, rows, cur, acc, live, timeUp, daemon, flow, history, faults>>

\* Budget and reserve of the cycle are used up.
TimeUp ==
    /\ epc # "off" /\ ~timeUp
    /\ timeUp' = TRUE
    /\ UNCHANGED <<hearing, rows, file, st, epc, who, todo, cur, acc, live, daemon, runs, flow,
                   history, faults>>

-------------------------------------------------------------------------------
(* L1 and L2.                                                               *)

\* Candidates that the runs of the date have taken up so far (for the bound).
Entries == MapThenSumSet(LAMBDA r : Cardinality(entered[r]), Runs)

\* clean: the shape gate saw stocks and met no error.
L1 ==
    /\ epc = "L1"
    /\ \E n \in 0..N, clean \in BOOLEAN : LET cands == 1..n IN
        /\ cands # {} => clean
        /\ n + Entries <= MaxEntries
        /\ SaveState([st EXCEPT !.cands = cands, !.clean = clean, !.phase = "L2"])
        /\ todo' = cands
        /\ entered' = [entered EXCEPT ![st.run] = cands]
    /\ epc' = "L2"
    /\ UNCHANGED <<hearing, rows, who, cur, acc, live, timeUp, daemon, runs, flow,
                   completed, faults>>

\* The guard is asked before every candidate, here and in L4.
Next1(stage, c) ==
    /\ epc = stage /\ ~timeUp
    /\ c \in todo /\ \A d \in todo : c <= d

L2Audit(c) ==
    /\ Next1("L2", c)
    /\ Save(c, "L2_DONE", "NONE")
    /\ todo' = todo \ {c}
    /\ \/ acc' = acc \union {c} /\ UNCHANGED <<epc, cur>>
       \/ epc' = "rejecting" /\ cur' = c /\ UNCHANGED acc
    /\ UNCHANGED <<hearing, file, st, who, live, timeUp, daemon, runs, flow, history, faults>>

\* The second save of a candidate that L2 rejects.
L2Reject ==
    /\ epc = "rejecting"
    /\ Save(cur, "TERMINAL", "VETO")
    /\ epc' = "L2" /\ cur' = Nobody
    /\ UNCHANGED <<hearing, file, st, who, todo, acc, live, timeUp, daemon, runs, flow,
                   history, faults>>

\* An exception in the audit or in one of its saves is terminalized.
L2Fails(c) ==
    /\ Next1("L2", c) \/ (epc = "rejecting" /\ cur = c)
    /\ Faulty
    /\ Save(c, "TERMINAL", "VETO")
    /\ todo' = todo \ {c}
    /\ epc' = "L2" /\ cur' = Nobody
    /\ UNCHANGED <<hearing, file, st, who, acc, live, timeUp, daemon, runs, flow, history>>

\* The guard breaks the loop; what passed so far is saved either way.
Cut == timeUp /\ todo # {}
L2End ==
    /\ epc = "L2" /\ (todo = {} \/ timeUp)
    /\ LET s == [st EXCEPT !.l2 = acc, !.phase = "L3"]
       IN /\ file' = s
          /\ \/ Cut /\ Exit("ok")
             \/ /\ ~Cut
                /\ st' = s /\ epc' = "L3" /\ todo' = acc /\ acc' = {}
                /\ UNCHANGED <<who, cur, live, timeUp, code>>
    /\ UNCHANGED <<hearing, rows, drun, outcome, runs, flow, history, faults>>

-------------------------------------------------------------------------------
(* L3.                                                                      *)

ResultsOf(c) == [kind : Kinds, zeta : {flow[c]}]

L3Audit(c) ==
    /\ Next1("L3", c)
    /\ \E res \in ResultsOf(c) : live' = [live EXCEPT ![c] = res]
    /\ Save(c, "L3_DONE", "NONE")
    /\ todo' = todo \ {c}
    /\ UNCHANGED <<hearing, file, st, epc, who, cur, acc, timeUp, daemon, runs, flow, history,
                   faults>>

\* The audit raises, or its save does after the result was appended to the list.
L3Fails(c) ==
    /\ Next1("L3", c) /\ Faulty
    /\ \/ UNCHANGED live
       \/ \E res \in ResultsOf(c) : live' = [live EXCEPT ![c] = res]
    /\ Save(c, "TERMINAL", "VETO")
    /\ todo' = todo \ {c}
    /\ UNCHANGED <<hearing, file, st, epc, who, cur, acc, timeUp, daemon, runs, flow, history>>

L3End ==
    /\ epc = "L3" /\ (todo = {} \/ timeUp)
    /\ LET s == [st EXCEPT !.l3 = Snapshot(live), !.phase = "L4"]
       IN /\ file' = s
          /\ \/ Cut /\ Exit("ok")
             \/ /\ ~Cut
                /\ st' = s /\ epc' = "gate"
                /\ UNCHANGED <<who, todo, cur, acc, live, timeUp, code>>
    /\ UNCHANGED <<hearing, rows, drun, outcome, runs, flow, history, faults>>

-------------------------------------------------------------------------------
(* L4.                                                                      *)

\* The results of this process when it has some, else those of the file; rejects
\* are saved, a save that fails is only logged, the rest is queued.
Gate ==
    /\ epc = "gate"
    /\ LET results == IF Audited(live) # {} THEN live ELSE st.l3
           rejects == {c \in Cands : results[c].kind = "reject"}
       IN /\ \E lost \in SUBSET rejects :
              /\ IF lost = {} THEN UNCHANGED faults ELSE Faulty
              /\ rows' = [rows EXCEPT ![st.run] = [c \in Cands |->
                             IF c \in rejects \ lost THEN Merged(@[c], "TERMINAL", "VETO")
                             ELSE @[c]]]
          /\ todo' = Audited(results) \ rejects
          /\ live' = results
    /\ epc' = "L4"
    /\ UNCHANGED <<hearing, file, st, who, cur, acc, timeUp, daemon, runs, flow, history>>

L4Call(c) ==
    /\ epc = "L4" /\ ~timeUp /\ c \in todo
    /\ Open(live[c])
    /\ epc' = "court" /\ cur' = c /\ todo' = todo \ {c}
    /\ UNCHANGED <<rows, file, st, who, acc, live, timeUp, daemon, runs, flow, history, faults>>

L4Done ==
    /\ epc = "court" /\ hpc = "ruled"
    /\ Save(cur, "L4_DONE", hverdict)
    /\ Close
    /\ epc' = "L4" /\ cur' = Nobody
    /\ UNCHANGED <<file, st, who, todo, acc, live, timeUp, daemon, runs,
                   flow, history, faults>>

\* An exception before the court, of one of its threads or of the save: skipped.
L4Skips ==
    /\ epc = "court" /\ Faulty
    /\ hpc # "paused"
    /\ Close
    /\ epc' = "L4" /\ cur' = Nobody
    /\ UNCHANGED <<rows, file, st, who, todo, acc, live, timeUp, daemon,
                   runs, flow, history>>

L4End ==
    /\ epc = "L4" /\ (todo = {} \/ timeUp)
    /\ \/ /\ Cut
          /\ UNCHANGED <<file, completed>>
       \/ /\ ~Cut
          /\ file' = [st EXCEPT !.phase = "COMPLETED"]
          /\ completed' = completed \union {st.run}
    /\ Exit("ok")
    /\ UNCHANGED <<hearing, rows, drun, outcome, runs, flow, entered, faults>>

EngineStep ==
    \/ L1 \/ L2Reject \/ L2End \/ L3End \/ Gate \/ L4Done \/ L4Skips \/ L4End
    \/ \E c \in Cands : L2Audit(c) \/ L2Fails(c) \/ L3Audit(c) \/ L3Fails(c) \/ L4Call(c)

-------------------------------------------------------------------------------
(* The end of a process, and what the daemon makes of it.                   *)

\* A terminal row that cannot be saved, an L1 that raises, a crash: the file may be
\* left torn where it was about to be written.
Dies ==
    /\ epc # "off" /\ Faulty
    /\ file' \in {file} \union (IF todo = {} /\ epc # "court" THEN {Torn} ELSE {})
    /\ Exit("bad")
    /\ Close
    /\ UNCHANGED <<rows, drun, outcome, runs, flow, history>>

\* safe_run: the child is killed at the end of its window, paused or not.
KillsUnlessPaused ==
    /\ who = "daemon" /\ timeUp /\ hpc # "paused"
    /\ Exit("bad")
    /\ Close
    /\ UNCHANGED <<rows, file, drun, outcome, runs, flow, history, faults>>
Kills ==
    /\ who = "daemon" /\ timeUp
    /\ Exit("bad")
    /\ Close
    /\ UNCHANGED <<rows, file, drun, outcome, runs, flow, history, faults>>

RowsOf(r) == {c \in Cands : rows[r][c] # NoRow}
SomeRowFinal(r) == \E c \in RowsOf(r) : rows[r][c].status \in {"TERMINAL", "L4_DONE"}
RowsReady(r) ==
    /\ RowsOf(r) # {}
    /\ \A c \in RowsOf(r) : rows[r][c].status \in {"TERMINAL", "L4_DONE"}

\* The receipt is the state file, read only for a run without rows.
ReceiptOfAnyRun(r) == file.phase = "COMPLETED"
ReceiptOf(r) == file.run = r /\ file.phase = "COMPLETED"
ZeroReady(r) ==
    /\ RowsOf(r) = {} /\ ReceiptOf(r)
    /\ file.cands = {} /\ file.l2 = {} /\ Audited(file.l3) = {} /\ file.clean

Concludes ==
    /\ drun # 0 /\ code # "none"
    /\ outcome' = [outcome EXCEPT ![drun] =
                     IF code = "ok" /\ (RowsReady(drun) \/ ZeroReady(drun))
                     THEN "DONE" ELSE "FAILED"]
    /\ drun' = 0 /\ code' = "none"
    /\ UNCHANGED <<hearing, rows, file, engine, runs, flow, history, faults>>

Next ==
    \/ DaemonStarts \/ CliStarts \/ TimeUp \/ EngineStep \/ Dies \/ Kills \/ Concludes
    \/ /\ Stall \/ Resume \/ Decide
       /\ UNCHANGED <<rows, file, engine, daemon, runs, flow, history, faults>>

Spec == Init /\ [][Next]_vars

(***************************************************************************)
(* The daemon's clock and its wait for the child; nothing is assumed of    *)
(* the providers, of the command line or of the engine itself.             *)
(***************************************************************************)
LiveSpec == Spec /\ WF_vars(TimeUp) /\ WF_vars(Kills \/ Concludes)

-------------------------------------------------------------------------------
(* Properties. *)

States == [run : 0..MaxRuns, phase : {"L1", "L2", "L3", "L4", "COMPLETED", "TORN"},
           cands : {1..n : n \in 0..N}, clean : BOOLEAN, l2 : SUBSET Cands, l3 : [Cands -> Results]]

\* Type invariant of the engine, its tables and the daemon's view of it.
TypeOK ==
    /\ hpc \in {"idle", "sitting", "paused", "ruled"} /\ hbrief \in Briefs
    /\ hverdict \in Verdicts \union {"NONE"}
    /\ rows \in [Runs -> [Cands -> Row]]
    /\ file \in States /\ st \in States
    /\ epc \in {"off", "L1", "L2", "rejecting", "L3", "gate", "L4", "court"}
    /\ who \in {"none", "daemon", "cli"} /\ (who = "none" <=> epc = "off")
    /\ todo \subseteq Cands /\ cur \in Cands \union {Nobody}
    /\ acc \subseteq Cands /\ live \in [Cands -> Results] /\ timeUp \in BOOLEAN
    /\ runs \in 0..MaxRuns /\ drun \in 0..runs /\ code \in {"none", "ok", "bad"}
    /\ outcome \in [Runs -> {"NONE", "IN_PROGRESS", "DONE", "FAILED"}]
    /\ flow \in [Cands -> Flows]
    /\ entered \in [Runs -> SUBSET Cands] /\ completed \subseteq 1..runs
    /\ faults \in 0..MaxFaults
    /\ hpc # "idle" <=> epc = "court"

\* "can_resume" (decision_engine.py:1737): a run that was completed is closed; no later
\* process, resuming or not, touches one of its rows again.
CompletedIsFinal ==
    [][\A r \in completed : rows'[r] = rows[r]]_vars

\* "a validated exact run" (zhulong_daemon.py:2780): every row of a run that is DONE has
\* a verdict and is past L2, at the moment of the dispatch and whatever is resumed, cut
\* short, killed or torn afterwards.
DoneIsJudged ==
    /\ TypeOK
    /\ \A r \in Runs : outcome[r] = "DONE" =>
          \A c \in RowsOf(r) : rows[r][c].verdict # "NONE" /\ rows[r][c].status # "L2_DONE"

\* "a valid zero-candidate run" (zhulong_daemon.py:2094): DONE without a row means that L1
\* itself found nobody, not that candidates were lost on the way.
ZeroMeansZero ==
    \A r \in Runs : outcome[r] = "DONE" /\ RowsOf(r) = {} => entered[r] = {}

\* However long a provider is away, a run of the daemon comes to DONE or FAILED.
DaemonRunEnds ==
    (\E r \in Runs : outcome[r] = "IN_PROGRESS") ~> (\A r \in Runs : outcome[r] # "IN_PROGRESS")

\* "Keep hard veto only for EXIT" (decision_engine.py:6516): a candidate with an EXIT of
\* capital is never passed.
ExitNeverPasses ==
    \A r \in Runs, c \in Cands : rows[r][c].verdict = "PASS" => flow[c] # "exit"
===============================================================================
