----------------------------- MODULE EveningPipeline -----------------------------
(***************************************************************************)
(* The evening of one trade date (zhulong_daemon.py): the harvest job at   *)
(* 20:30, the audit job at 21:00 behind the gate on the harvest, and the   *)
(* dispatch of the PASS signals inside the audit job, with the rows of     *)
(* ops_pipeline_state that pass from one to the other.  The same phases    *)
(* are run by hand, with TRADE_DATE set, in a process of its own that the  *)
(* singleton lock keeps apart from the daemon.                             *)
(***************************************************************************)
EXTENDS SignalReceiver

VARIABLES
    harvest, audit,  \* status of the two rows, "NONE" before they exist
    facts,           \* fact_daily, zeta signals and RPS of the date
    up,              \* the process that holds the singleton lock
    ahead,           \* phases it is still to start on this date
    scheduled,       \* jobs of the daemon's evening that are still to come
    hpc, apc,        \* where the harvest and the audit are
    run,             \* number of the latest audit run
    validated,       \* runs whose row was set to DONE (history)
    crossed,         \* runs a harvest wrote new rows under (history)
    early            \* a one-shot began ahead of the harvest job (history)

rows     == <<harvest, audit>>
history  == <<validated, crossed, early>>
pipeline == <<rows, facts, up, ahead, scheduled, hpc, apc, run, history>>
vars     == <<recvVars, pipeline>>

Phases   == {"harvest", "audit"}
Final    == {"DONE", "FAILED"}

\* _set_pipeline_state: a final status always wins, and is not undone by another.
Row(old, new) == IF new \notin Final /\ old \in Final THEN old ELSE new

\* _can_enter_audit reads the row and counts the facts on one connection.
GateByRow     == harvest = "DONE"
CanEnterAudit == harvest = "DONE" /\ facts = "complete"

Init ==
    /\ ReceiverInit
    /\ harvest = "NONE" /\ audit = "NONE" /\ facts = "none"
    /\ up = "down" /\ ahead = {} /\ scheduled = Phases
    /\ hpc = "off" /\ apc = "off" /\ run = 0 /\ validated = {} /\ crossed = {} /\ early = FALSE

-------------------------------------------------------------------------------
(* The two processes.                                                       *)

\* The scheduler keeps its jobs in memory: one whose time passes while the daemon
\* is down, or is over its grace time, does not run on this date.
Miss ==
    /\ up = "down"
    /\ \/ scheduled' = scheduled \ {"harvest"}
       \/ scheduled' = {}
    /\ scheduled' # scheduled
    /\ UNCHANGED <<recvVars, rows, facts, up, ahead, hpc, apc, run, history>>

StartDaemon ==
    /\ up = "down"
    /\ up' = "daemon" /\ ahead' = scheduled
    /\ UNCHANGED <<recvVars, rows, facts, scheduled, hpc, apc, run, history>>

StartOneShot ==
    /\ up = "down" /\ run < MaxRuns
    /\ up' = "oneshot" /\ ahead' = Phases
    /\ early' = (early \/ "harvest" \in scheduled)
    /\ UNCHANGED <<recvVars, rows, facts, scheduled, hpc, apc, run, validated, crossed>>

\* The one-shot ends after its phases, the daemon when it is stopped between two jobs.
Stop ==
    /\ up # "down" /\ hpc = "off" /\ apc = "off"
    /\ up = "oneshot" => ahead = {}
    /\ up' = "down" /\ ahead' = {}
    /\ Forget(Daemon)
    /\ UNCHANGED <<passed, tables, faults, rows, facts, scheduled, hpc, apc, run, history>>

Crash ==
    /\ up # "down" /\ Faulty
    /\ up' = "down" /\ ahead' = {} /\ hpc' = "off" /\ apc' = "off"
    /\ Forget(Daemon)
    /\ UNCHANGED <<passed, tables, rows, facts, scheduled, run, history>>

\* The phase is called, the harvest before the audit; the one-shot also waits for
\* it to end.
Begins(j) ==
    /\ up # "down" /\ j \in ahead
    /\ j = "audit" => "harvest" \notin ahead /\ (up = "oneshot" => hpc = "off")
    /\ ahead' = ahead \ {j}
    /\ scheduled' = IF up = "daemon" THEN scheduled \ {j} ELSE scheduled

-------------------------------------------------------------------------------
(* phase_harvest.                                                           *)

StartHarvest ==
    /\ hpc = "off" /\ Begins("harvest")
    /\ harvest' = Row(harvest, "IN_PROGRESS")
    /\ hpc' = "sync"
    /\ UNCHANGED <<recvVars, audit, facts, up, apc, run, history>>

\* New daily rows that the derived tables do not cover yet.
Sync ==
    /\ hpc = "sync"
    /\ facts' = "partial"
    /\ crossed' = IF apc = "child" THEN crossed \union {run} ELSE crossed
    /\ hpc' = "derive"
    /\ UNCHANGED <<recvVars, rows, up, ahead, scheduled, apc, run, validated, early>>

\* The children and the integrity check succeed, or one of them fails.
EndHarvest ==
    /\ \/ /\ hpc = "derive"
          /\ facts' = "complete" /\ harvest' = Row(harvest, "DONE")
       \/ /\ hpc \in {"sync", "derive"}
          /\ harvest' = Row(harvest, "FAILED")
          /\ UNCHANGED facts
    /\ hpc' = "off"
    /\ UNCHANGED <<recvVars, audit, up, ahead, scheduled, apc, run, history>>

-------------------------------------------------------------------------------
(* phase_audit.                                                             *)

\* A date already DONE is skipped unless FORCE_RERUN_DATE names it; the gate holds
\* for the daemon and is bypassed by the one-shot.
StartAudit ==
    /\ apc = "off" /\ run < MaxRuns /\ Begins("audit")
    /\ \E force \in IF up = "oneshot" THEN BOOLEAN ELSE {FALSE} : audit # "DONE" \/ force
    /\ up = "oneshot" \/ CanEnterAudit
    /\ audit' = Row(audit, "IN_PROGRESS")
    /\ run' = run + 1
    /\ apc' = "child"
    /\ UNCHANGED <<recvVars, harvest, facts, up, hpc, history>>

SkipAudit ==
    /\ apc = "off" /\ Begins("audit")
    /\ audit = "DONE" \/ (up = "daemon" /\ ~CanEnterAudit)
    /\ UNCHANGED <<recvVars, rows, facts, up, hpc, apc, run, history>>

\* The decision engine writes verdicts, to its end or until its time is up.
Child ==
    /\ apc = "child"
    /\ \E pass \in SUBSET Stocks : passed' = passed \union ({run} \X pass)
    /\ apc' \in {"whole", "broken"}
    /\ UNCHANGED <<tables, receivers, faults, rows, facts, up, ahead, scheduled, hpc, run, history>>

\* _validate_audit_run_completion, then the final status of the row.
Conclude ==
    /\ \/ /\ apc = "whole"
          /\ audit' = Row(audit, "DONE") /\ validated' = validated \union {run}
          /\ apc' = "dispatch"
       \/ /\ apc = "broken"
          /\ audit' = Row(audit, "FAILED")
          /\ apc' = "off"
          /\ UNCHANGED validated
    /\ UNCHANGED <<recvVars, harvest, facts, up, ahead, scheduled, hpc, run, crossed, early>>

\* Only a validated exact run may enqueue signals.
Dispatch ==
    /\ apc = "dispatch"
    /\ Fetch(Daemon, run)
    /\ apc' = "receiving"
    /\ UNCHANGED <<rows, facts, up, ahead, scheduled, hpc, run, history>>

EndAudit ==
    /\ apc = "receiving" /\ rpc[Daemon] = "idle"
    /\ apc' = "off"
    /\ UNCHANGED <<recvVars, rows, facts, up, ahead, scheduled, hpc, run, history>>

\* An exception that ends a phase: a row that cannot be written, a child that
\* cannot be asked, an observer that fails before the dispatch.
Abort ==
    /\ Faulty
    /\ \/ hpc # "off" /\ hpc' = "off" /\ UNCHANGED apc
       \/ apc \in {"child", "whole", "broken", "dispatch"} /\ apc' = "off" /\ UNCHANGED hpc
    /\ UNCHANGED <<passed, tables, receivers, rows, facts, up, ahead, scheduled, run, history>>

-------------------------------------------------------------------------------
PhaseStep == Sync \/ EndHarvest \/ Child \/ Conclude \/ Dispatch \/ EndAudit

\* The receiver on the command line, given any run id.
ByHand(d) ==
    \/ \E r \in 1..run : Fetch(d, r)
    \/ rpc[d] # "idle" /\ Faulty /\ Forget(d) /\ UNCHANGED <<passed, tables>>

Next ==
    \/ StartDaemon \/ StartOneShot \/ Stop \/ Miss \/ Crash \/ Abort
    \/ StartHarvest \/ StartAudit \/ SkipAudit \/ PhaseStep
    \/ /\ \/ \E d \in Receivers : ReceiverStep(d)
          \/ \E d \in Receivers \ {Daemon} : ByHand(d)
          \/ \E t \in Tasks : Fill(t)
       /\ UNCHANGED pipeline

Spec == Init /\ [][Next]_vars

\* A phase that has begun goes on, and so does its receiver, unless the process ends;
\* nobody has to start anything.
LiveSpec ==
    /\ Spec
    /\ WF_vars(PhaseStep) /\ WF_vars(ReceiverStep(Daemon) /\ UNCHANGED pipeline)

-------------------------------------------------------------------------------
(* Properties. *)

\* Type invariant of the evening.
TypeOK ==
    /\ ReceiverTypeOK
    /\ {harvest, audit} \subseteq {"NONE", "IN_PROGRESS"} \union Final
    /\ facts \in {"none", "partial", "complete"}
    /\ up \in {"down", "daemon", "oneshot"}
    /\ ahead \subseteq Phases /\ scheduled \subseteq Phases
    /\ hpc \in {"off", "sync", "derive"}
    /\ apc \in {"off", "child", "whole", "broken", "dispatch", "receiving"}
    /\ run \in 0..MaxRuns /\ validated \union crossed \subseteq 1..run /\ early \in BOOLEAN
    /\ up = "down" => hpc = "off" /\ apc = "off" /\ rpc[Daemon] = "idle"

\* "Only a validated exact run with rows may enqueue signals" (zhulong_daemon.py:2780):
\* what the dispatcher has in hand was passed by a run that was found complete, not
\* by an earlier one of the same date that failed.
DispatchScope ==
    /\ TypeOK
    /\ \A t \in todo[Daemon] \union ({cur[Daemon]} \ {None}) : RunOf(t) \in validated

\* "Hard gate for Phase 3" (zhulong_daemon.py:760): the scheduled audit works on
\* complete facts from its first row to its last.  The exception is a date that was
\* harvested by hand ahead of the job: its row stays final, so the gate does not see the
\* harvest that is repeated, and that one may write new rows under the audit.
IncompleteOnlyIfCrossed ==
    up = "daemon" /\ apc = "child" /\ facts # "complete" =>
        early /\ harvest \in Final /\ run \in crossed

\* Every PASS of a validated run is reinforced, skipped or queued in the same
\* evening, unless something failed: time and again none is left unanswered.
AnsweredUnlessFault ==
    []<>(\/ faults > 0
         \/ \A t \in passed : RunOf(t) \in validated => t \in Traced)
===============================================================================
