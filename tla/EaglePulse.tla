------------------------------- MODULE EaglePulse -------------------------------
(***************************************************************************)
(* The Eagle Eye pulses (03_tactics/eagle_eye.py) and the 15:05 flush that *)
(* releases them (daily_flush of tactics_bridge.py).  A scan catches       *)
(* pulses and starts a T+3 timer for each; its callback vetoes the pulse   *)
(* or starts the T+5 timer, whose callback asks the cloud for a verdict.   *)
(* Callbacks look the pulse up by symbol, in the EagleEye object that made *)
(* them; nothing locks these dictionaries.                                 *)
(*                                                                         *)
(* Time is left out: a timer that was started fires some day, unless it is *)
(* cancelled first.  Each step of a callback is the stretch up to a fetch, *)
(* a cloud call or the start of a thread.  The pools themselves are        *)
(* modelled in TacticsBridge.                                              *)
(***************************************************************************)
EXTENDS Integers, FiniteSets, Sequences

CONSTANTS
    Symbols,     \* by their place in the watchlist
    Verdicts,    \* what the cloud may say, HOLD among it
    MaxPulses,   \* bound on the pulses caught
    MaxScans,    \* bound on the scans
    MaxFlushes   \* bound on the flushes

ASSUME EagleAssumption ==
    /\ Symbols \subseteq Nat \ {0} /\ IsFiniteSet(Symbols) /\ "HOLD" \in Verdicts
    /\ Verdicts \subseteq {"APPROVE", "HOLD", "VETO"}
    /\ MaxPulses \in Nat /\ MaxScans \in Nat /\ MaxFlushes \in Nat

Pulses == 1..MaxPulses          \* PulseCandidate objects, in the order of their birth
Eagles == 1..(MaxFlushes + 1)   \* EagleEye objects; a flush drops one
Timers == {"t3", "t5"} \X Pulses   \* by the pulse whose verification started them
None   == 0

VARIABLES
    eagle,      \* the singleton _eagle, None when there is none
    made,       \* EagleEye objects made so far
    born,       \* pulses caught so far
    pulse,      \* the PulseCandidate objects
    cands,      \* _candidates of each EagleEye
    active,     \* _active_timers of each EagleEye
    timer,      \* where each Timer thread is
    held,       \* the pulse its callback has looked up
    scan,       \* the scan on the tactic worker
    scans,      \* scans so far (bound)
    flush,      \* daily_flush
    flushes,    \* flushes so far (bound)
    writes,     \* the persistence queue: pulses to be recorded
    recorded    \* results recorded of each pulse, with the verdict submitted

eyes   == <<eagle, made, born, pulse, cands>>
clocks == <<active, timer, held>>
sinks  == <<writes, recorded>>
vars   == <<eyes, clocks, scan, scans, flush, flushes, sinks>>

Unborn  == [by |-> None, sym |-> None, t3 |-> "PENDING", t5 |-> "PENDING", late |-> FALSE]
NoScan  == [by |-> None, pc |-> "off", todo |-> {}]
NoFlush == [pc |-> "off", left |-> {}, size |-> 0]

ByOf(t)  == pulse[t[2]].by
SymOf(t) == pulse[t[2]].sym

\* A name of _active_timers holds one timer.
Registered(names, t) == {u \in names : u[1] # t[1] \/ SymOf(u) # SymOf(t)} \union {t}

Init ==
    /\ eagle = None /\ made = 0 /\ born = 0
    /\ pulse = [o \in Pulses |-> Unborn]
    /\ cands = [e \in Eagles |-> {}] /\ active = [e \in Eagles |-> {}]
    /\ timer = [t \in Timers |-> "new"] /\ held = [t \in Timers |-> None]
    /\ scan = NoScan /\ scans = 0 /\ flush = NoFlush /\ flushes = 0
    /\ writes = <<>> /\ recorded = [o \in Pulses |-> <<>>]

-------------------------------------------------------------------------------
(* eagle_scan, on the one tactic worker.                                    *)

\* A pool that is shut down starts nothing more.
ScanBegins ==
    /\ scan.pc = "off" /\ scans < MaxScans /\ flush.pc # "drain"
    /\ scan' = [NoScan EXCEPT !.pc = "entering"]
    /\ scans' = scans + 1
    /\ UNCHANGED <<eyes, clocks, flush, flushes, sinks>>

\* The flush holds the singleton lock while it cleans up.
LockedThroughout == flush.pc # "off"
Locked == flush.pc = "cancel"

\* _get_eagle.
GetEagle ==
    /\ scan.pc = "entering" /\ ~Locked
    /\ IF eagle = None THEN made' = made + 1 /\ eagle' = made + 1 ELSE UNCHANGED <<made, eagle>>
    /\ scan' = [scan EXCEPT !.by = eagle', !.pc = "watching"]
    /\ UNCHANGED <<born, pulse, cands, clocks, scans, flush, flushes, sinks>>

SymbolsOf(e) == {pulse[o].sym : o \in cands[e]}

\* scan_breakout: a symbol over the thresholds that is no candidate yet.
AnyBreakout(e) == Symbols
NewBreakout(e) == Symbols \ SymbolsOf(e)
Catch(s) ==
    /\ scan.pc = "watching" /\ born < MaxPulses
    /\ s \in NewBreakout(scan.by) /\ \A o \in scan.todo : pulse[o].sym < s
    /\ LET o == born + 1 IN
       /\ pulse' = [pulse EXCEPT ![o] =
            [Unborn EXCEPT !.by = scan.by, !.sym = s, !.late = flush.pc # "off"]]
       /\ cands' = [cands EXCEPT ![scan.by] = {p \in @ : pulse[p].sym # s} \union {o}]
       /\ scan' = [scan EXCEPT !.todo = @ \union {o}]
       /\ born' = o
    /\ UNCHANGED <<eagle, made, clocks, scans, flush, flushes, sinks>>

\* The watchlist is through; schedule_verification goes over what was triggered.
Watched ==
    /\ scan.pc = "watching"
    /\ scan' = [scan EXCEPT !.pc = "scheduling"]
    /\ UNCHANGED <<eyes, clocks, scans, flush, flushes, sinks>>

\* The thread first, its entry in _active_timers after it.
StartT3(o) ==
    /\ scan.pc = "scheduling" /\ o \in scan.todo /\ \A p \in scan.todo : o <= p
    /\ timer' = [timer EXCEPT ![<<"t3", o>>] = "waiting"]
    /\ scan' = [scan EXCEPT !.pc = "registering"]
    /\ UNCHANGED <<eyes, active, held, scans, flush, flushes, sinks>>

RegisterT3(o) ==
    /\ scan.pc = "registering" /\ o \in scan.todo /\ \A p \in scan.todo : o <= p
    /\ active' = [active EXCEPT ![scan.by] = Registered(@, <<"t3", o>>)]
    /\ scan' = [scan EXCEPT !.pc = "scheduling", !.todo = @ \ {o}]
    /\ UNCHANGED <<eyes, timer, held, scans, flush, flushes, sinks>>

ScanEnds ==
    /\ scan.pc = "scheduling" /\ scan.todo = {}
    /\ scan' = NoScan
    /\ UNCHANGED <<eyes, clocks, scans, flush, flushes, sinks>>

-------------------------------------------------------------------------------
(* The callbacks.                                                           *)

Candidate(t) == {o \in cands[ByOf(t)] : pulse[o].sym = SymOf(t)}

\* _candidates.get(symbol); a T+5 callback also wants it to be pending.
Fires(t) ==
    /\ timer[t] = "waiting"
    /\ LET found == {o \in Candidate(t) : t[1] = "t3" \/ pulse[o].t5 = "PENDING"} IN
       \/ /\ found = {}
          /\ timer' = [timer EXCEPT ![t] = "over"]
          /\ UNCHANGED held
       \/ \E o \in found :
          /\ timer' = [timer EXCEPT ![t] = "busy"]
          /\ held' = [held EXCEPT ![t] = o]
    /\ UNCHANGED <<eyes, active, scan, scans, flush, flushes, sinks>>

\* _queue_eagle_signal: a queue that stays full loses the result.
Submit(o, verdict) ==
    writes' \in {writes, Append(writes, [of |-> o, for |-> verdict])}

\* The snapshot failed, or an exception.
T3Suspects(t) ==
    /\ timer[t] = "busy" /\ t[1] = "t3"
    /\ pulse' = [pulse EXCEPT ![held[t]].t3 = "SUSPECT"]
    /\ timer' = [timer EXCEPT ![t] = "over"]
    /\ UNCHANGED <<eagle, made, born, cands, active, held, scan, scans, flush, flushes, sinks>>

\* More than half of the rise is gone.
T3Vetoes(t) ==
    /\ timer[t] = "busy" /\ t[1] = "t3"
    /\ pulse' = [pulse EXCEPT ![held[t]].t3 = "SUSPECT", ![held[t]].t5 = "VETO"]
    /\ Submit(held[t], "VETO")
    /\ timer' = [timer EXCEPT ![t] = "over"]
    /\ UNCHANGED <<eagle, made, born, cands, active, held, scan, scans, flush, flushes, recorded>>

T3ConfirmsOnly(t) ==
    /\ timer[t] = "busy" /\ t[1] = "t3"
    /\ pulse' = [pulse EXCEPT ![held[t]].t3 = "CONFIRM"]
    /\ timer' = [timer EXCEPT ![t] = "over"]
    /\ UNCHANGED <<eagle, made, born, cands, active, held, scan, scans, flush, flushes, sinks>>
T3Confirms(t) ==
    /\ timer[t] = "busy" /\ t[1] = "t3"
    /\ pulse' = [pulse EXCEPT ![held[t]].t3 = "CONFIRM"]
    /\ timer' = [timer EXCEPT ![t] = "registering", ![<<"t5", t[2]>>] = "waiting"]
    /\ UNCHANGED <<eagle, made, born, cands, active, held, scan, scans, flush, flushes, sinks>>

RegisterT5(t) ==
    /\ timer[t] = "registering"
    /\ active' = [active EXCEPT ![ByOf(t)] = Registered(@, <<"t5", t[2]>>)]
    /\ timer' = [timer EXCEPT ![t] = "over"]
    /\ UNCHANGED <<eyes, held, scan, scans, flush, flushes, sinks>>

\* The answer of the cloud; HOLD when it has none, or when something raised and
\* nothing is written.
T5Judges(t) ==
    /\ timer[t] = "busy" /\ t[1] = "t5"
    /\ \E verdict \in Verdicts :
        /\ pulse' = [pulse EXCEPT ![held[t]].t5 = verdict]
        /\ Submit(held[t], verdict)
    /\ timer' = [timer EXCEPT ![t] = "over"]
    /\ UNCHANGED <<eagle, made, born, cands, active, held, scan, scans, flush, flushes, recorded>>

\* The persistence worker reads the pulse when it gets to it.
Record ==
    /\ writes # <<>>
    /\ LET w == Head(writes) IN
       recorded' = [recorded EXCEPT ![w.of] =
                       Append(@, [for |-> w.for, as |-> pulse[w.of].t5])]
    /\ writes' = Tail(writes)
    /\ UNCHANGED <<eyes, clocks, scan, scans, flush, flushes>>

-------------------------------------------------------------------------------
(* daily_flush.                                                             *)

FlushBegins ==
    /\ flush.pc = "off" /\ flushes < MaxFlushes
    /\ flushes' = flushes + 1
    /\ flush' = IF eagle = None THEN [NoFlush EXCEPT !.pc = "kill"]
                ELSE [pc |-> "cancel", left |-> active[eagle], size |-> Cardinality(active[eagle])]
    /\ UNCHANGED <<eyes, clocks, scan, scans, sinks>>

\* A callback that has begun is not stopped.
Cancelled(ts) == [t \in Timers |-> IF t \in ts /\ timer[t] = "waiting" THEN "over" ELSE timer[t]]

Resized == Cardinality(active[eagle]) # flush.size

CancelNext ==
    /\ flush.pc = "cancel" /\ ~Resized
    /\ \E t \in flush.left :
        /\ timer' = Cancelled({t})
        /\ flush' = [flush EXCEPT !.left = @ \ {t}]
    /\ UNCHANGED <<eyes, active, held, scan, scans, flushes, sinks>>

\* The loop ends, or raises because the dictionary changed its size; then nothing is
\* cleared.  The object is dropped either way.
CleanupEnds ==
    /\ flush.pc = "cancel" /\ (Resized \/ flush.left = {})
    /\ IF Resized THEN UNCHANGED <<cands, active>>
       ELSE /\ cands' = [cands EXCEPT ![eagle] = {}]
            /\ active' = [active EXCEPT ![eagle] = {}]
    /\ eagle' = None
    /\ flush' = [NoFlush EXCEPT !.pc = "kill"]
    /\ UNCHANGED <<made, born, pulse, timer, held, scan, scans, flushes, sinks>>

\* Every living thread named Eagle_.
Kill ==
    /\ flush.pc = "kill"
    /\ timer' = Cancelled(Timers)
    /\ flush' = [NoFlush EXCEPT !.pc = "drain"]
    /\ UNCHANGED <<eyes, active, held, scan, scans, flushes, sinks>>

\* Both pools have run out.
FlushEnds ==
    /\ flush.pc = "drain" /\ scan.pc = "off" /\ writes = <<>>
    /\ flush' = NoFlush
    /\ UNCHANGED <<eyes, clocks, scan, scans, flushes, sinks>>

ScanStep == GetEagle \/ Watched \/ ScanEnds \/ \E o \in Pulses : StartT3(o) \/ RegisterT3(o)
Outcome(t) == T3Suspects(t) \/ T3Vetoes(t) \/ T3Confirms(t) \/ RegisterT5(t) \/ T5Judges(t)
TimerStep == \E t \in Timers : Fires(t) \/ Outcome(t)
FlushStep == CancelNext \/ CleanupEnds \/ Kill \/ FlushEnds

Next ==
    \/ ScanBegins \/ ScanStep \/ \E s \in Symbols : Catch(s)
    \/ TimerStep \/ Record \/ FlushBegins \/ FlushStep

Spec == Init /\ [][Next]_vars

(***************************************************************************)
(* Some thread that can go on does, a timer being a thread: no step can be *)
(* repeated for ever, so no more is needed.  Scans and flushes come from   *)
(* the scheduler and nothing is assumed of them, nor of what a scan finds. *)
(***************************************************************************)
LiveSpec == Spec /\ WF_vars(ScanStep \/ TimerStep \/ Record \/ FlushStep)

-------------------------------------------------------------------------------
(* Properties. *)

PulseRecords ==
    [by : Eagles \union {None}, sym : Symbols \union {None}, t3 : {"PENDING", "SUSPECT", "CONFIRM"},
     t5 : {"PENDING", "APPROVE", "HOLD", "VETO"}, late : BOOLEAN]

\* Type invariant; a name of _active_timers stands for one timer.
TypeOK ==
    /\ eagle \in 0..made /\ made \in 0..Cardinality(Eagles) /\ born \in 0..MaxPulses
    /\ pulse \in [Pulses -> PulseRecords]
    /\ cands \in [Eagles -> SUBSET (1..born)] /\ active \in [Eagles -> SUBSET Timers]
    /\ \A e \in Eagles, t, u \in Timers :
        {t, u} \subseteq active[e] /\ t[1] = u[1] /\ SymOf(t) = SymOf(u) => t = u
    /\ timer \in [Timers -> {"new", "waiting", "busy", "registering", "over"}]
    /\ held \in [Timers -> 0..born]
    /\ scan.by \in 0..made /\ scan.todo \subseteq 1..born
    /\ scan.pc \in {"off", "entering", "watching", "scheduling", "registering"} /\ scans \in 0..MaxScans
    /\ flush.pc \in {"off", "cancel", "kill", "drain"} /\ flush.left \subseteq Timers
    /\ flushes \in 0..MaxFlushes
    /\ DOMAIN recorded = Pulses

\* Two-phase review (eagle_eye.py:71): a pulse that was not caught in the middle of a
\* flush is judged by the cloud only after T+3 confirmed it, or vetoed by T+3; its result
\* is recorded at most once, and as it was decided.
InTurn ==
    /\ TypeOK
    /\ \A o \in 1..born : ~pulse[o].late =>
        /\ pulse[o].t5 # "PENDING" =>
              pulse[o].t3 = "CONFIRM" \/ (pulse[o].t3 = "SUSPECT" /\ pulse[o].t5 = "VETO")
        /\ Len(recorded[o]) <= 1
        /\ \A i \in 1..Len(recorded[o]) : recorded[o][i].as = recorded[o][i].for

\* A pulse that was caught is decided, is left suspect, or is released by a flush.
PulseDecided ==
    \A o \in Pulses :
        o <= born /\ ~pulse[o].late ~>
            \/ pulse[o].t5 # "PENDING" \/ pulse[o].t3 = "SUSPECT"
            \/ pulse[o].by # eagle

\* A flush that has begun ends, whatever scan or callback is running.
FlushOver == flush.pc # "off" ~> flush.pc = "off"
===============================================================================
