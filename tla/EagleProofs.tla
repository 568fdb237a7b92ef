------------------------------ MODULE EagleProofs -------------------------------
(***************************************************************************)
(* What holds of the Eagle Eye pulses for any watchlist and any number of  *)
(* pulses, scans and flushes: a pulse that was not caught in the middle of *)
(* a flush is judged in two phases and recorded once, as it was decided.   *)
(***************************************************************************)
EXTENDS EaglePulse, FiniteSetTheorems, TLAPS

Words   == {"APPROVE", "HOLD", "VETO"}
Submits == [of : Pulses, for : Words]
Results == [for : Words, as : Words \union {"PENDING"}]
Born    == 1..born
OnTime  == {o \in Born : ~pulse[o].late}

\* Type invariant by the parts that change together, with the queue and the results too.
EyesTyped ==
    /\ made \in 0..(MaxFlushes + 1) /\ eagle \in 0..made /\ born \in 0..MaxPulses
    /\ cands \in [Eagles -> SUBSET Born]
PulsesTyped == pulse \in [Pulses -> PulseRecords]
ClocksTyped ==
    /\ active \in [Eagles -> SUBSET Timers]
    /\ timer \in [Timers -> {"new", "waiting", "busy", "registering", "over"}]
    /\ held \in [Timers -> 0..born]
ScanTyped ==
    /\ scan \in [by : 0..made, todo : SUBSET Born,
                 pc : {"off", "entering", "watching", "scheduling", "registering"}]
    /\ scans \in 0..MaxScans
FlushTyped ==
    /\ flush.pc \in {"off", "cancel", "kill", "drain"} /\ flush.left \subseteq Timers
    /\ flush = [pc |-> flush.pc, left |-> flush.left, size |-> flush.size]
    /\ flushes \in 0..MaxFlushes
SinksTyped == writes \in Seq(Submits) /\ recorded \in [Pulses -> Seq(Results)]
Typed == EyesTyped /\ PulsesTyped /\ ClocksTyped /\ ScanTyped /\ FlushTyped /\ SinksTyped

\* A pulse that is not born has no trace: no timer, no write, no result.
Fresh ==
    /\ \A t \in Timers : timer[t] # "new" => t[2] \in Born
    /\ \A e \in Eagles : \A t \in active[e] : t[2] \in Born
    /\ \A i \in 1..Len(writes) : writes[i].of \in Born
    /\ \A o \in Pulses \ Born : recorded[o] = <<>>

\* A name of _active_timers stands for one timer.
Names ==
    \A e \in Eagles : \A t, u \in active[e] : t[1] = u[1] /\ SymOf(t) = SymOf(u) => t = u

\* A flush drops at most one EagleEye, and each is made only when there is none.
Singles ==
    /\ made <= flushes + 1
    /\ eagle = None \/ flush.pc = "cancel" => made <= flushes

\* The scan works on the singleton, unless a flush that waits for it has dropped it.
Scanning ==
    scan.pc \notin {"off", "entering"} =>
       /\ scan.by # None
       /\ scan.by = eagle \/ flush.pc \in {"kill", "drain"}

\* What the scan has yet to schedule has no timer; one is registered after its start.
Scheduled ==
    \A o \in scan.todo :
        timer[<<"t3", o>>] = "new" \/ (scan.pc = "registering" /\ \A p \in scan.todo : o <= p)

\* The candidates of an EagleEye are pulses it caught; the singleton has them all.
Candidates ==
    /\ \A o \in Born : pulse[o].by \in 1..made
    /\ \A e \in Eagles : \A o \in cands[e] : pulse[o].by = e
    /\ \A o \in Born : pulse[o].by = eagle => o \in cands[eagle]

\* A second pulse of a symbol is caught only after a flush has released the first.
OneEach ==
    \A o \in OnTime, p \in Born :
        pulse[p].by = pulse[o].by /\ pulse[p].sym = pulse[o].sym /\ p # o =>
            pulse[p].late /\ o \notin cands[pulse[o].by]

\* A callback that has begun has a pulse; a pulse on time is only held by its own timers.
Lookups ==
    /\ \A t \in Timers : timer[t] = "busy" =>
          held[t] \in Born /\ pulse[held[t]].by = ByOf(t) /\ pulse[held[t]].sym = SymOf(t)
    /\ \A t \in Timers : held[t] \in OnTime => t[2] = held[t]

\* How far a pulse is follows from its two timers.
Unwritten(o) == recorded[o] = <<>> /\ \A i \in 1..Len(writes) : writes[i].of # o
T3Ahead(o)   == timer[<<"t3", o>>] \in {"new", "waiting", "busy"}
T5Ahead(o)   == timer[<<"t5", o>>] \in {"waiting", "busy"}

PhaseOf(o) ==
    /\ T3Ahead(o) => pulse[o].t3 = "PENDING" /\ timer[<<"t5", o>>] = "new"
    /\ T3Ahead(o) \/ T5Ahead(o) => pulse[o].t5 = "PENDING"
    /\ timer[<<"t5", o>>] = "waiting" /\ o \in cands[pulse[o].by] => pulse[o].t3 = "CONFIRM"
    /\ timer[<<"t5", o>>] = "busy" /\ held[<<"t5", o>>] = o => pulse[o].t3 = "CONFIRM"
    /\ pulse[o].t5 # "PENDING" =>
          pulse[o].t3 = "CONFIRM" \/ (pulse[o].t3 = "SUSPECT" /\ pulse[o].t5 = "VETO")
Phases == \A o \in OnTime : PhaseOf(o)

\* One write at most, of the verdict that was decided.
WrittenOf(o) ==
    /\ pulse[o].t5 = "PENDING" => Unwritten(o)
    /\ \A i \in 1..Len(writes) : writes[i].of = o =>
          writes[i].for = pulse[o].t5 /\ recorded[o] = <<>>
    /\ \A i, j \in 1..Len(writes) : writes[i].of = o /\ writes[j].of = o => i = j
    /\ Len(recorded[o]) <= 1
    /\ \A i \in 1..Len(recorded[o]) : recorded[o][i].as = recorded[o][i].for
Written == \A o \in OnTime : WrittenOf(o)

EagleInv ==
    /\ Typed /\ Fresh /\ Names /\ Singles /\ Scanning /\ Scheduled
    /\ Candidates /\ OneEach /\ Lookups /\ Phases /\ Written

-------------------------------------------------------------------------------
LEMMA TimerFacts ==
    /\ \A t \in Timers : t[1] \in {"t3", "t5"} /\ t[2] \in Pulses /\ t = <<t[1], t[2]>>
    /\ \A o \in Pulses : <<"t3", o>> \in Timers /\ <<"t5", o>> \in Timers
BY DEF Timers

\* No step but a catch makes a pulse, and none changes whose it is or when it was caught.
SamePulses ==
    /\ born' = born
    /\ \A o \in Pulses : /\ pulse'[o].by = pulse[o].by /\ pulse'[o].sym = pulse[o].sym
                         /\ pulse'[o].late = pulse[o].late

LEMMA PulseFrame ==
    ASSUME PulsesTyped, [Next]_vars
    PROVE  SamePulses \/ \E s \in Symbols : Catch(s)
<1>1. ASSUME UNCHANGED <<born, pulse>> PROVE SamePulses
  BY <1>1 DEF SamePulses
<1>2. ASSUME ScanBegins \/ ScanStep \/ Record \/ FlushBegins \/ FlushStep
      PROVE  UNCHANGED <<born, pulse>>
  BY <1>2 DEF eyes, ScanStep, ScanBegins, GetEagle, Watched, StartT3, RegisterT3, ScanEnds,
     Record, FlushBegins, FlushStep, CancelNext, CleanupEnds, Kill, FlushEnds
<1>3. ASSUME NEW t \in Timers, Fires(t) \/ Outcome(t) PROVE SamePulses
  <2> USE DEF SamePulses, PulsesTyped, PulseRecords
  <2>1. CASE T3Suspects(t)
    BY <2>1, SMT DEF T3Suspects
  <2>2. CASE T3Vetoes(t)
    BY <2>2, SMT DEF T3Vetoes
  <2>3. CASE T3Confirms(t)
    BY <2>3, SMT DEF T3Confirms
  <2>4. CASE T5Judges(t)
    BY <2>4, SMT DEF T5Judges
  <2>5. CASE Fires(t) \/ RegisterT5(t)
    BY <2>5 DEF Fires, RegisterT5, eyes
  <2>6. QED
    BY <1>3, <2>1, <2>2, <2>3, <2>4, <2>5 DEF Outcome
<1>4. CASE UNCHANGED vars
  BY <1>1, <1>4 DEF vars, eyes
<1>5. QED
  BY <1>1, <1>2, <1>3, <1>4 DEF Next, TimerStep

\* The timers of EXCEPT and of a cancellation.
LEMMA CancelledTimers ==
    ASSUME NEW ts
    PROVE  /\ DOMAIN Cancelled(ts) = Timers
           /\ \A t \in Timers : Cancelled(ts)[t] = IF t \in ts /\ timer[t] = "waiting"
                                                   THEN "over" ELSE timer[t]
BY DEF Cancelled

LEMMA RegisteredTimers ==
    ASSUME NEW t \in Timers, NEW names \in SUBSET Timers
    PROVE  /\ Registered(names, t) \subseteq names \union {t}
           /\ Registered(names, t) \subseteq Timers
           /\ \A u \in Registered(names, t) :
                 u = t \/ (u \in names /\ (u[1] # t[1] \/ SymOf(u) # SymOf(t)))
BY DEF Registered

LEMMA CardinalityEagles == Cardinality(Eagles) = MaxFlushes + 1
BY FS_Interval, EagleAssumption DEF Eagles

LEMMA TypedInit == Init => Typed
<1> SUFFICES ASSUME Init PROVE Typed
  OBVIOUS
<1> USE EagleAssumption DEF Init, Born
<1>1. pulse \in [Pulses -> PulseRecords]
  BY SMT DEF Unborn, PulseRecords
<1>2. cands \in [Eagles -> SUBSET Born] /\ active \in [Eagles -> SUBSET Timers]
  BY SMT
<1>3. timer \in [Timers -> {"new", "waiting", "busy", "registering", "over"}]
      /\ held \in [Timers -> 0..born]
  BY SMT DEF None
<1>4. /\ scan \in [by : 0..made, todo : SUBSET Born,
                  pc : {"off", "entering", "watching", "scheduling", "registering"}]
      /\ flush = [pc |-> flush.pc, left |-> flush.left, size |-> flush.size]
      /\ flush.pc \in {"off", "cancel", "kill", "drain"} /\ flush.left \subseteq Timers
  BY SMT DEF NoScan, NoFlush, None
<1>5. writes \in Seq(Submits) /\ recorded \in [Pulses -> Seq(Results)]
  BY SMT
<1>6. QED
  BY <1>1, <1>2, <1>3, <1>4, <1>5, SMT
     DEF Typed, EyesTyped, PulsesTyped, ClocksTyped, ScanTyped, FlushTyped, SinksTyped, None

\* Which steps change what.
LEMMA Frames ==
    ASSUME [Next]_vars
    PROVE  /\ UNCHANGED <<made, eagle, born, cands>> \/ GetEagle \/ CleanupEnds
              \/ \E s \in Symbols : Catch(s)
           /\ UNCHANGED active \/ CleanupEnds \/ (\E o \in Pulses : RegisterT3(o))
              \/ \E t \in Timers : RegisterT5(t)
           /\ UNCHANGED timer \/ CancelNext \/ Kill \/ (\E o \in Pulses : StartT3(o))
              \/ \E t \in Timers : Fires(t) \/ Outcome(t)
           /\ UNCHANGED held \/ \E t \in Timers : Fires(t)
           /\ UNCHANGED <<scan, scans>> \/ ScanBegins \/ ScanStep \/ \E s \in Symbols : Catch(s)
           /\ UNCHANGED <<flush, flushes>> \/ FlushBegins \/ FlushStep
           /\ UNCHANGED <<writes, recorded>> \/ Record
              \/ \E t \in Timers : T3Vetoes(t) \/ T5Judges(t)
<1> USE DEF eyes, clocks, sinks
<1>1. CASE ScanBegins
  BY <1>1 DEF ScanBegins
<1>2. CASE ScanStep
  BY <1>2 DEF ScanStep, GetEagle, Watched, StartT3, RegisterT3, ScanEnds
<1>3. CASE \E s \in Symbols : Catch(s)
  BY <1>3 DEF Catch
<1>4. ASSUME NEW t \in Timers, Fires(t) \/ Outcome(t)
      PROVE  /\ UNCHANGED <<made, eagle, born, cands>>
             /\ UNCHANGED active \/ RegisterT5(t)
             /\ UNCHANGED held \/ Fires(t)
             /\ UNCHANGED <<scan, scans>> /\ UNCHANGED <<flush, flushes>>
             /\ UNCHANGED <<writes, recorded>> \/ T3Vetoes(t) \/ T5Judges(t)
  BY <1>4 DEF Fires, Outcome, T3Suspects, T3Vetoes, T3Confirms, RegisterT5, T5Judges
<1>5. CASE Record
  BY <1>5 DEF Record
<1>6. CASE FlushBegins
  BY <1>6 DEF FlushBegins
<1>7. CASE FlushStep
  BY <1>7 DEF FlushStep, CancelNext, CleanupEnds, Kill, FlushEnds
<1>8. CASE UNCHANGED vars
  BY <1>8 DEF vars
<1>9. CASE TimerStep
  <2>1. PICK t \in Timers : Fires(t) \/ Outcome(t)
    BY <1>9 DEF TimerStep
  <2>2. QED
    BY <1>4, <2>1
<1>10. QED
  BY <1>1, <1>2, <1>3, <1>5, <1>6, <1>7, <1>8, <1>9 DEF Next

LEMMA EyesStep ==
    ASSUME EyesTyped, FlushTyped, Singles, [Next]_vars PROVE EyesTyped'
<1> USE EagleAssumption DEF EyesTyped, Born
<1>1. CASE UNCHANGED <<made, eagle, born, cands>>
  BY <1>1
<1>2. CASE GetEagle
  <2>1. made' \in 0..(MaxFlushes + 1) /\ made <= made'
    BY <1>2, SMT DEF GetEagle, Locked, Singles, FlushTyped, None
  <2>2. eagle' \in 0..made' /\ UNCHANGED <<born, cands>>
    BY <1>2, SMT DEF GetEagle, None
  <2>3. QED
    BY <2>1, <2>2
<1>3. ASSUME NEW s \in Symbols, Catch(s) PROVE EyesTyped'
  <2>1. born' = born + 1 /\ born' \in 1..MaxPulses
    BY <1>3, SMT DEF Catch
  <2>2. cands' = [cands EXCEPT ![scan.by] = {p \in @ : pulse[p].sym # s} \union {born'}]
    BY <1>3 DEF Catch
  <2>3. \A e \in Eagles : cands'[e] \subseteq cands[e] \union {born'}
    BY <2>2, SMT
  <2>4. \A e \in Eagles : cands'[e] \subseteq 1..born'
    <3> SUFFICES ASSUME NEW e \in Eagles, NEW p \in cands'[e] PROVE p \in 1..born'
      OBVIOUS
    <3>1. p = born' \/ p \in 1..born
      BY <2>3, SMT
    <3>2. QED
      BY <2>1, <3>1, SMT
  <2>5. cands' \in [Eagles -> SUBSET (1..born')]
    <3>1. cands' = [e \in Eagles |-> cands'[e]]
      BY <2>2
    <3>2. QED
      BY <2>4, <3>1
  <2>6. UNCHANGED <<made, eagle>>
    BY <1>3 DEF Catch
  <2>7. QED
    BY <2>1, <2>5, <2>6, SMT
<1>4. CASE CleanupEnds
  BY <1>4, SMT DEF CleanupEnds, None
<1>5. QED
  BY <1>1, <1>2, <1>3, <1>4, Frames

\* The record of a pulse that is caught.
LEMMA CaughtRecord ==
    ASSUME NEW e \in Eagles \union {None}, NEW s \in Symbols, NEW late \in BOOLEAN
    PROVE  [Unborn EXCEPT !.by = e, !.sym = s, !.late = late] \in PulseRecords
<1> DEFINE Blank == [by : {None}, sym : {None}, t3 : {"PENDING"}, t5 : {"PENDING"},
                    late : BOOLEAN]
<1>1. Unborn \in Blank
  BY DEF Unborn
<1>2. ASSUME NEW r \in Blank PROVE [r EXCEPT !.by = e, !.sym = s, !.late = late] \in PulseRecords
  BY DEF PulseRecords
<1>3. QED
  BY <1>1, <1>2

LEMMA PulsesStep ==
    ASSUME PulsesTyped, EyesTyped, ScanTyped, Scanning, [Next]_vars PROVE PulsesTyped'
<1> USE DEF PulsesTyped, PulseRecords
<1>1. CASE UNCHANGED pulse
  BY <1>1
<1>2. ASSUME NEW s \in Symbols, Catch(s) PROVE PulsesTyped'
  <2>1. [Unborn EXCEPT !.by = scan.by, !.sym = s, !.late = flush.pc # "off"] \in PulseRecords
    <3>1. scan.by \in Eagles \union {None} /\ (flush.pc # "off") \in BOOLEAN
      BY EagleAssumption, SMT DEF EyesTyped, ScanTyped, None, Eagles
    <3>2. QED
      BY <3>1, CaughtRecord
  <2>2. pulse' = [pulse EXCEPT ![born + 1] =
                    [Unborn EXCEPT !.by = scan.by, !.sym = s, !.late = flush.pc # "off"]]
    BY <1>2 DEF Catch
  <2>3. QED
    BY <2>1, <2>2
<1>3. ASSUME NEW t \in Timers, T3Suspects(t) \/ T3Vetoes(t) \/ T3Confirms(t) PROVE PulsesTyped'
  BY <1>3, SMT DEF T3Suspects, T3Vetoes, T3Confirms
<1>4. ASSUME NEW t \in Timers, T5Judges(t) PROVE PulsesTyped'
  <2>1. PICK verdict \in Verdicts : pulse' = [pulse EXCEPT ![held[t]].t5 = verdict]
    BY <1>4 DEF T5Judges
  <2>2. verdict \in {"APPROVE", "HOLD", "VETO"}
    BY EagleAssumption
  <2>3. \A p \in PulseRecords : [p EXCEPT !.t5 = verdict] \in PulseRecords
    BY <2>2
  <2>4. pulse' = [pulse EXCEPT ![held[t]] = [pulse[held[t]] EXCEPT !.t5 = verdict]]
    BY <2>1
  <2>5. QED
    BY <2>3, <2>4
<1>5. CASE ScanBegins \/ ScanStep \/ Record \/ FlushBegins \/ FlushStep
  BY <1>1, <1>5 DEF eyes, ScanStep, ScanBegins, GetEagle, Watched, StartT3, RegisterT3, ScanEnds,
     Record, FlushBegins, FlushStep, CancelNext, CleanupEnds, Kill, FlushEnds
<1>6. ASSUME NEW t \in Timers, Fires(t) \/ RegisterT5(t) PROVE PulsesTyped'
  BY <1>1, <1>6 DEF eyes, Fires, RegisterT5
<1>7. CASE UNCHANGED vars
  BY <1>1, <1>7 DEF vars, eyes
<1>8. QED
  BY <1>2, <1>3, <1>4, <1>5, <1>6, <1>7 DEF Next, TimerStep, Outcome

LEMMA ActiveTyped ==
    ASSUME ClocksTyped, [Next]_vars PROVE active' \in [Eagles -> SUBSET Timers]
<1> USE TimerFacts, EagleAssumption DEF ClocksTyped
<1>1. ASSUME NEW e, NEW t \in Timers,
             active' = [active EXCEPT ![e] = Registered(@, t)]
      PROVE  active' \in [Eagles -> SUBSET Timers]
  <2>1. CASE e \in Eagles
    <3>1. Registered(active[e], t) \in SUBSET Timers
      BY <2>1, RegisteredTimers
    <3>2. QED
      BY <1>1, <3>1
  <2>2. CASE e \notin Eagles
    BY <1>1, <2>2
  <2>3. QED
    BY <2>1, <2>2
<1>2. ASSUME NEW o \in Pulses, RegisterT3(o) PROVE active' \in [Eagles -> SUBSET Timers]
  BY <1>1, <1>2 DEF RegisterT3
<1>3. ASSUME NEW t \in Timers, RegisterT5(t) PROVE active' \in [Eagles -> SUBSET Timers]
  BY <1>1, <1>3 DEF RegisterT5
<1>4. ASSUME CleanupEnds PROVE active' \in [Eagles -> SUBSET Timers]
  BY <1>4, SMT DEF CleanupEnds
<1>5. CASE UNCHANGED active
  BY <1>5
<1>6. QED
  BY <1>2, <1>3, <1>4, <1>5, Frames

TimerPhases == {"new", "waiting", "busy", "registering", "over"}

LEMMA TimerTyped ==
    ASSUME ClocksTyped, [Next]_vars PROVE timer' \in [Timers -> TimerPhases]
<1> USE DEF ClocksTyped, TimerPhases
<1>1. ASSUME NEW o \in Pulses, StartT3(o) PROVE timer' \in [Timers -> TimerPhases]
  BY <1>1 DEF StartT3
<1>2. ASSUME NEW t \in Timers, Fires(t) \/ Outcome(t)
      PROVE  timer' \in [Timers -> TimerPhases]
  <2>1. ASSUME NEW p \in TimerPhases, NEW q \in TimerPhases,
               timer' \in {[timer EXCEPT ![t] = p],
                           [timer EXCEPT ![t] = p, ![<<"t5", t[2]>>] = q]}
        PROVE  timer' \in [Timers -> TimerPhases]
    BY <2>1 DEF TimerPhases
  <2>2. CASE Fires(t)
    BY <1>2, <2>1, <2>2 DEF Fires
  <2>3. CASE Outcome(t)
    BY <2>1, <2>3 DEF Outcome, T3Suspects, T3Vetoes, T3Confirms, RegisterT5, T5Judges
  <2>4. QED
    BY <1>2, <2>2, <2>3
<1>3. ASSUME NEW ts, timer' = Cancelled(ts) PROVE timer' \in [Timers -> TimerPhases]
  <2>1. \A t \in Timers : timer'[t] \in TimerPhases
    BY <1>3, CancelledTimers
  <2>2. timer' = [t \in Timers |-> timer'[t]]
    BY <1>3 DEF Cancelled
  <2>3. QED
    BY <2>1, <2>2
<1>4. CASE CancelNext \/ Kill
  BY <1>3, <1>4 DEF CancelNext, Kill
<1>5. CASE UNCHANGED timer
  BY <1>5
<1>6. QED
  BY <1>1, <1>2, <1>4, <1>5, Frames

\* A timer that was started has the EagleEye of a pulse.
LEMMA Caught ==
    ASSUME EyesTyped, Fresh, Candidates, NEW t \in Timers, timer[t] # "new"
    PROVE  t[2] \in Born /\ ByOf(t) \in Eagles /\ Candidate(t) \subseteq Born
<1>1. t[2] \in Born
  BY DEF Fresh
<1>2. ByOf(t) \in 1..made
  BY <1>1 DEF Candidates, ByOf
<1>3. ByOf(t) \in Eagles
  BY <1>2, EagleAssumption, SMT DEF EyesTyped, Eagles
<1>4. QED
  BY <1>1, <1>3 DEF Candidate, EyesTyped

LEMMA ClocksStep ==
    ASSUME ClocksTyped, EyesTyped, Fresh, Candidates, [Next]_vars PROVE ClocksTyped'
<1>1. held' \in [Timers -> 0..born']
  <2>1. CASE UNCHANGED <<held, born>>
    BY <2>1 DEF ClocksTyped
  <2>2. ASSUME NEW t \in Timers, Fires(t) PROVE held' \in [Timers -> 0..born']
    <3>1. CASE UNCHANGED held /\ UNCHANGED born
      BY <3>1 DEF ClocksTyped
    <3>2. CASE UNCHANGED born /\ \E o \in Candidate(t) : held' = [held EXCEPT ![t] = o]
      <4>1. Candidate(t) \subseteq 0..born
        BY <2>2, Caught DEF Fires, Born
      <4>2. QED
        BY <3>2, <4>1 DEF ClocksTyped
    <3>3. QED
      BY <2>2, <3>1, <3>2 DEF Fires, eyes
  <2>3. ASSUME UNCHANGED held, born' \in Nat, born <= born' PROVE held' \in [Timers -> 0..born']
    BY <2>3, SMT DEF ClocksTyped, EyesTyped
  <2>4. ASSUME NEW s \in Symbols, Catch(s) PROVE born' \in Nat /\ born <= born'
    BY <2>4, SMT DEF Catch, EyesTyped
  <2>5. UNCHANGED born \/ \E s \in Symbols : Catch(s)
    BY Frames DEF GetEagle, CleanupEnds
  <2>6. born' \in Nat /\ born <= born'
    BY <2>4, <2>5, EagleAssumption, SMT DEF EyesTyped
  <2>7. QED
    BY <2>1, <2>2, <2>3, <2>6, Frames
<1>2. QED
  BY <1>1, ActiveTyped, TimerTyped DEF ClocksTyped, TimerPhases

LEMMA ScanStepTyped ==
    ASSUME EyesTyped, EyesTyped', ScanTyped, [Next]_vars PROVE ScanTyped'
<1>1. born \in Nat /\ born' \in Nat /\ born <= born' /\ made \in Nat /\ made' \in Nat /\ made <= made'
  <2>1. CASE UNCHANGED <<made, born>>
    BY <2>1, EagleAssumption, SMT DEF EyesTyped
  <2>2. CASE GetEagle
    BY <2>2, EagleAssumption, SMT DEF GetEagle, EyesTyped
  <2>3. ASSUME NEW s \in Symbols, Catch(s) PROVE born <= born' /\ UNCHANGED made
    BY <2>3, EagleAssumption, SMT DEF Catch, EyesTyped
  <2>4. QED
    BY <2>1, <2>2, <2>3, Frames, EagleAssumption, SMT DEF CleanupEnds, EyesTyped
<1>2. 1..born \subseteq 1..born' /\ 0..made \subseteq 0..made'
  BY <1>1, SMT
<1>3. scan.by \in 0..made' /\ scan.todo \subseteq 1..born' /\ 0 \in 0..made' /\ eagle' \in 0..made'
  BY <1>1, <1>2, SMT DEF ScanTyped, EyesTyped, Born
<1> DEFINE Pcs == {"off", "entering", "watching", "scheduling", "registering"}
           Scans == [by : 0..made', todo : SUBSET (1..born'), pc : Pcs]
<1>4. ASSUME NEW b \in 0..made', NEW d \in SUBSET (1..born'), NEW p \in Pcs,
             scan' \in {[scan EXCEPT !.pc = p], [scan EXCEPT !.by = b, !.pc = p],
                        [scan EXCEPT !.pc = p, !.todo = d]}
      PROVE  scan' \in Scans
  <2>1. scan \in Scans
    BY <1>3, SMT DEF ScanTyped
  <2>2. QED
    BY <1>4, <2>1
<1>5. NoScan \in Scans /\ [NoScan EXCEPT !.pc = "entering"] \in Scans
  BY <1>3, SMT DEF NoScan, None
<1>6. CASE UNCHANGED <<scan, scans>>
  BY <1>3, <1>6, SMT DEF ScanTyped, Born
<1>7. CASE ScanBegins
  <2>1. scans' \in 0..MaxScans
    BY <1>7, EagleAssumption, SMT DEF ScanBegins, ScanTyped
  <2>2. QED
    BY <1>5, <1>7, <2>1 DEF ScanBegins, ScanTyped, Born
<1>8. CASE ScanStep
  <2>1. scan' \in Scans
    <3>1. CASE GetEagle
      BY <1>3, <1>4, <3>1 DEF GetEagle
    <3>2. CASE Watched \/ ScanEnds
      BY <1>3, <1>4, <1>5, <3>2 DEF Watched, ScanEnds
    <3>3. ASSUME NEW o \in Pulses, StartT3(o) PROVE scan' \in Scans
      BY <1>3, <1>4, <3>3 DEF StartT3
    <3>4. ASSUME NEW o \in Pulses, RegisterT3(o) PROVE scan' \in Scans
      BY <1>3, <1>4, <3>4 DEF RegisterT3
    <3>5. QED
      BY <1>8, <3>1, <3>2, <3>3, <3>4 DEF ScanStep
  <2>2. UNCHANGED scans
    BY <1>8 DEF ScanStep, GetEagle, Watched, StartT3, RegisterT3, ScanEnds
  <2>3. QED
    BY <2>1, <2>2 DEF ScanTyped, Born
<1>9. ASSUME NEW s \in Symbols, Catch(s) PROVE ScanTyped'
  <2>1. scan' = [scan EXCEPT !.todo = @ \union {born'}] /\ UNCHANGED scans /\ born' = born + 1
    BY <1>9 DEF Catch
  <2>2. scan.todo \union {born'} \in SUBSET (1..born')
    BY <1>1, <1>3, <2>1, SMT
  <2>3. scan' \in Scans
    <3>1. scan \in Scans
      BY <1>3, SMT DEF ScanTyped
    <3>2. QED
      BY <2>1, <2>2, <3>1
  <2>4. QED
    BY <2>1, <2>3 DEF ScanTyped, Born
<1>10. QED
  BY <1>6, <1>7, <1>8, <1>9, Frames

LEMMA FlushStepTyped ==
    ASSUME EyesTyped, ClocksTyped, FlushTyped, [Next]_vars PROVE FlushTyped'
<1> USE EagleAssumption DEF FlushTyped
<1>1. CASE UNCHANGED <<flush, flushes>>
  BY <1>1
<1>2. CASE FlushBegins
  <2>1. flushes' \in 0..MaxFlushes
    BY <1>2, SMT DEF FlushBegins
  <2>2. eagle # None => active[eagle] \subseteq Timers
    BY SMT DEF EyesTyped, ClocksTyped, Eagles, None
  <2>3. QED
    BY <1>2, <2>1, <2>2, SMT DEF FlushBegins, NoFlush
<1>3. CASE CancelNext
  BY <1>3, SMT DEF CancelNext
<1>4. CASE CleanupEnds \/ Kill \/ FlushEnds
  BY <1>4, SMT DEF CleanupEnds, Kill, FlushEnds, NoFlush
<1>5. QED
  BY <1>1, <1>2, <1>3, <1>4, Frames DEF FlushStep

LEMMA SinksStep ==
    ASSUME PulsesTyped, SinksTyped, EyesTyped, Lookups, [Next]_vars PROVE SinksTyped'
<1>1. CASE UNCHANGED <<writes, recorded>>
  BY <1>1 DEF SinksTyped
<1>2. ASSUME NEW t \in Timers, timer[t] = "busy", NEW v \in Words, Submit(held[t], v), UNCHANGED recorded
      PROVE  SinksTyped'
  <2>1. held[t] \in Pulses
    BY <1>2, EagleAssumption, SMT DEF Lookups, Born, EyesTyped, Pulses
  <2>2. [of |-> held[t], for |-> v] \in Submits
    BY <2>1 DEF Submits
  <2>3. QED
    BY <1>2, <2>2 DEF SinksTyped, Submit
<1>3. ASSUME NEW t \in Timers, T3Vetoes(t) PROVE SinksTyped'
  BY <1>2, <1>3 DEF T3Vetoes, Words
<1>4. ASSUME NEW t \in Timers, T5Judges(t) PROVE SinksTyped'
  BY <1>2, <1>4, EagleAssumption DEF T5Judges, Words
<1>5. CASE Record
  <2> DEFINE w == Head(writes)
             r == [for |-> w.for, as |-> pulse[w.of].t5]
  <2>1. w \in Submits /\ writes' \in Seq(Submits)
    BY <1>5, SMT DEF Record, SinksTyped
  <2>2. w.of \in Pulses /\ w.for \in Words
    BY <2>1 DEF Submits
  <2>3. r \in Results
    BY <2>2, SMT DEF PulsesTyped, PulseRecords, Results, Words
  <2>4. recorded' = [recorded EXCEPT ![w.of] = Append(@, r)]
    BY <1>5 DEF Record
  <2>5. Append(recorded[w.of], r) \in Seq(Results)
    BY <2>2, <2>3 DEF SinksTyped
  <2> HIDE DEF r, w
  <2>6. recorded' \in [Pulses -> Seq(Results)]
    BY <2>4, <2>5 DEF SinksTyped
  <2>7. QED
    BY <2>1, <2>6 DEF SinksTyped
<1>6. QED
  BY <1>1, <1>3, <1>4, <1>5, Frames

LEMMA TypedStep == EagleInv /\ [Next]_vars => Typed'
BY EyesStep, PulsesStep, ClocksStep, ScanStepTyped, FlushStepTyped, SinksStep DEF EagleInv, Typed

-------------------------------------------------------------------------------
LEMMA BornGrows ==
    ASSUME EyesTyped, [Next]_vars
    PROVE  Born \subseteq Born' /\ Born \subseteq Pulses /\ Born' \subseteq Pulses
<1>1. CASE UNCHANGED born
  BY <1>1, EagleAssumption, SMT DEF Born, EyesTyped, Pulses
<1>2. ASSUME NEW s \in Symbols, Catch(s)
      PROVE  Born \subseteq Born' /\ Born \subseteq Pulses /\ Born' \subseteq Pulses
  BY <1>2, EagleAssumption, SMT DEF Catch, Born, EyesTyped, Pulses
<1>3. QED
  BY <1>1, <1>2, Frames DEF GetEagle, CleanupEnds

\* The element that Submit may append, and what taking the head leaves.
LEMMA SubmitWrites ==
    ASSUME SinksTyped, NEW o \in Pulses, NEW v \in Words, Submit(o, v)
    PROVE  /\ Len(writes') \in {Len(writes), Len(writes) + 1}
           /\ \A i \in 1..Len(writes) : writes'[i] = writes[i]
           /\ \A i \in 1..Len(writes') : i \in 1..Len(writes)
                 \/ (i = Len(writes) + 1 /\ writes'[i].of = o /\ writes'[i].for = v)
<1>1. [of |-> o, for |-> v] \in Submits
  BY DEF Submits
<1>2. ASSUME NEW w \in Submits, writes' = Append(writes, w)
      PROVE  /\ Len(writes') = Len(writes) + 1
             /\ \A i \in 1..Len(writes) : writes'[i] = writes[i]
             /\ writes'[Len(writes) + 1] = w
  BY <1>2, SMT DEF SinksTyped
<1>3. CASE writes' = writes
  BY <1>3, SMT DEF SinksTyped
<1>4. CASE writes' = Append(writes, [of |-> o, for |-> v])
  <2>1. /\ Len(writes') = Len(writes) + 1
        /\ \A i \in 1..Len(writes) : writes'[i] = writes[i]
        /\ writes'[Len(writes) + 1] = [of |-> o, for |-> v]
    BY <1>1, <1>2, <1>4
  <2>2. Len(writes) \in Nat
    BY SMT DEF SinksTyped
  <2>3. \A i \in 1..Len(writes') : i \in 1..Len(writes) \/ i = Len(writes) + 1
    BY <2>1, <2>2, SMT
  <2>4. QED
    BY <2>1, <2>3
<1>5. QED
  BY <1>3, <1>4 DEF Submit

LEMMA TailWrites ==
    ASSUME SinksTyped, writes # <<>>, writes' = Tail(writes)
    PROVE  /\ 1 \in 1..Len(writes) /\ Head(writes) = writes[1]
           /\ \A i \in 1..Len(writes') : i + 1 \in 1..Len(writes) /\ writes'[i] = writes[i + 1]
BY SMT DEF SinksTyped

\* What changes the queue: one callback, or the worker.
LEMMA SinkChanges ==
    ASSUME [Next]_vars
    PROVE  \/ UNCHANGED <<writes, recorded>>
           \/ Record
           \/ \E t \in Timers, v \in Words :
                 timer[t] = "busy" /\ Submit(held[t], v) /\ UNCHANGED recorded
<1>1. ASSUME NEW t \in Timers, T3Vetoes(t)
      PROVE  timer[t] = "busy" /\ "VETO" \in Words /\ Submit(held[t], "VETO") /\ UNCHANGED recorded
  BY <1>1 DEF T3Vetoes, Words
<1>2. ASSUME NEW t \in Timers, T5Judges(t)
      PROVE  \E v \in Words : timer[t] = "busy" /\ Submit(held[t], v) /\ UNCHANGED recorded
  BY <1>2, EagleAssumption DEF T5Judges, Words
<1>3. QED
  BY <1>1, <1>2, Frames

LEMMA FreshStep == EagleInv /\ [Next]_vars => Fresh'
<1> SUFFICES ASSUME EagleInv, [Next]_vars PROVE Fresh'
  OBVIOUS
<1> USE DEF EagleInv, Typed
<1>1. Born \subseteq Born' /\ Born \subseteq Pulses /\ Born' \subseteq Pulses
  BY BornGrows
<1>2. \A t \in Timers : timer'[t] # "new" => t[2] \in Born'
  <2> SUFFICES ASSUME NEW t \in Timers, timer'[t] # "new", timer[t] = "new" PROVE t[2] \in Born
    BY <1>1 DEF Fresh
  <2>1. ASSUME NEW o \in Pulses, StartT3(o) PROVE t[2] \in Born
    <3>1. o \in Born
      BY <2>1, SMT DEF StartT3, ScanTyped
    <3>2. timer' = [timer EXCEPT ![<<"t3", o>>] = "waiting"]
      BY <2>1 DEF StartT3
    <3>3. t = <<"t3", o>>
      BY <3>2 DEF ClocksTyped
    <3>4. QED
      BY <3>1, <3>3
  <2>2. ASSUME NEW u \in Timers, Fires(u) \/ Outcome(u) PROVE t[2] \in Born
    <3>1. timer[u] # "new"
      BY <2>2 DEF Fires, Outcome, T3Suspects, T3Vetoes, T3Confirms, RegisterT5, T5Judges
    <3>2. u[2] \in Born /\ u # t
      BY <3>1 DEF Fresh
    <3>3. t = <<"t5", u[2]>>
      <4>1. ASSUME NEW p, timer' = [timer EXCEPT ![u] = p] PROVE FALSE
        BY <3>2, <4>1 DEF ClocksTyped
      <4>2. ASSUME NEW p, NEW q, timer' = [timer EXCEPT ![u] = p, ![<<"t5", u[2]>>] = q]
            PROVE t = <<"t5", u[2]>>
        BY <3>2, <4>2 DEF ClocksTyped
      <4>3. QED
        BY <2>2, <4>1, <4>2
           DEF Fires, Outcome, T3Suspects, T3Vetoes, T3Confirms, RegisterT5, T5Judges
    <3>4. QED
      BY <3>2, <3>3
  <2>3. CASE CancelNext \/ Kill
    <3>1. PICK ts : timer' = Cancelled(ts)
      BY <2>3 DEF CancelNext, Kill
    <3>2. timer'[t] = timer[t] \/ timer[t] = "waiting"
      BY <3>1, CancelledTimers
    <3>3. QED
      BY <3>2
  <2>4. QED
    BY <2>1, <2>2, <2>3, Frames
<1>3. \A e \in Eagles : \A t \in active'[e] : t[2] \in Born'
  <2> SUFFICES ASSUME NEW e \in Eagles, NEW t \in active'[e], t \notin active[e] PROVE t[2] \in Born
    BY <1>1 DEF Fresh
  <2>1. ASSUME NEW o \in Pulses, RegisterT3(o) PROVE t[2] \in Born
    <3>1. active' = [active EXCEPT ![scan.by] = Registered(active[scan.by], <<"t3", o>>)]
          /\ o \in scan.todo
      BY <2>1 DEF RegisterT3
    <3>2. t \in Registered(active[scan.by], <<"t3", o>>) /\ e = scan.by
      BY <3>1 DEF ClocksTyped
    <3>3. t = <<"t3", o>>
      BY <3>2 DEF Registered
    <3>4. QED
      BY <3>1, <3>3, SMT DEF ScanTyped
  <2>2. ASSUME NEW u \in Timers, RegisterT5(u) PROVE t[2] \in Born
    <3>1. active' = [active EXCEPT ![ByOf(u)] = Registered(active[ByOf(u)], <<"t5", u[2]>>)]
          /\ timer[u] # "new"
      BY <2>2 DEF RegisterT5
    <3>2. t \in Registered(active[ByOf(u)], <<"t5", u[2]>>) /\ e = ByOf(u)
      BY <3>1 DEF ClocksTyped
    <3>3. t = <<"t5", u[2]>>
      BY <3>2 DEF Registered
    <3>4. QED
      BY <3>1, <3>3 DEF Fresh
  <2>3. CASE CleanupEnds
    <3>1. active'[e] \in {active[e], {}}
      BY <2>3, SMT DEF CleanupEnds, ClocksTyped
    <3>2. QED
      BY <3>1
  <2>4. CASE UNCHANGED active
    BY <2>4
  <2>5. QED
    BY <2>1, <2>2, <2>3, <2>4, Frames
<1>4. \A i \in 1..Len(writes') : writes'[i].of \in Born'
  <2>1. CASE UNCHANGED writes
    BY <1>1, <2>1 DEF Fresh
  <2>2. CASE Record
    BY <1>1, <2>2, TailWrites DEF Fresh, Record
  <2>3. ASSUME NEW t \in Timers, NEW v \in Words, timer[t] = "busy", Submit(held[t], v)
        PROVE  \A i \in 1..Len(writes') : writes'[i].of \in Born'
    BY <1>1, <2>3, SubmitWrites DEF Fresh, Lookups
  <2>4. QED
    BY <2>1, <2>2, <2>3, SinkChanges
<1>5. \A o \in Pulses \ Born' : recorded'[o] = <<>>
  <2>1. CASE UNCHANGED recorded
    BY <1>1, <2>1 DEF Fresh
  <2>2. CASE Record
    <3>1. Head(writes).of \in Born
      BY <2>2, TailWrites DEF Record, Fresh
    <3>2. \A o \in Pulses \ Born : recorded'[o] = recorded[o]
      BY <2>2, <3>1, SMT DEF Record, SinksTyped
    <3>3. QED
      BY <1>1, <3>2 DEF Fresh
  <2>3. QED
    BY <2>1, <2>2, SinkChanges
<1>6. QED
  BY <1>2, <1>3, <1>4, <1>5 DEF Fresh

\* A pulse keeps its EagleEye, its symbol and whether it was caught late.
LEMMA KeptPulses ==
    ASSUME PulsesTyped, EyesTyped, [Next]_vars
    PROVE  \A o \in Born : /\ pulse'[o].by = pulse[o].by /\ pulse'[o].sym = pulse[o].sym
                           /\ pulse'[o].late = pulse[o].late
<1>1. ASSUME NEW s \in Symbols, Catch(s) PROVE \A o \in Born : pulse'[o] = pulse[o]
  <2>1. \A o \in Born : o # born + 1 /\ o \in Pulses
    BY EagleAssumption, SMT DEF EyesTyped, Born, Pulses
  <2>2. PICK r : pulse' = [pulse EXCEPT ![born + 1] = r]
    BY <1>1 DEF Catch
  <2>3. QED
    BY <2>1, <2>2 DEF PulsesTyped
<1>2. \A o \in Born : o \in Pulses
  BY BornGrows
<1>3. QED
  BY <1>1, <1>2, PulseFrame DEF SamePulses

LEMMA NamesStep == EagleInv /\ [Next]_vars => Names'
<1> SUFFICES ASSUME EagleInv, [Next]_vars PROVE Names'
  OBVIOUS
<1> USE DEF EagleInv, Typed
<1>1. \A t \in Timers : t[2] \in Born => SymOf(t)' = SymOf(t)
  BY KeptPulses DEF SymOf
<1>2. \A e \in Eagles : active'[e] \subseteq Timers
  BY TypedStep DEF ClocksTyped
<1>3. \A e \in Eagles, t, u \in Timers :
         t \in active[e] /\ u \in active[e] /\ t[1] = u[1] /\ SymOf(t)' = SymOf(u)' => t = u
  <2> SUFFICES ASSUME NEW e \in Eagles, NEW t \in active[e], NEW u \in active[e], t \in Timers,
                      u \in Timers, t[1] = u[1], SymOf(t)' = SymOf(u)'
               PROVE  t = u
    OBVIOUS
  <2>1. SymOf(t) = SymOf(u)
    BY <1>1 DEF Fresh
  <2>2. QED
    BY <2>1 DEF Names
<1>4. ASSUME NEW v \in Timers, v[2] \in Born, NEW d,
             active' = [active EXCEPT ![d] = Registered(active[d], v)]
      PROVE  \A e \in Eagles, t, u \in Timers :
                t \in active'[e] /\ u \in active'[e] /\ t[1] = u[1] /\ SymOf(t)' = SymOf(u)' => t = u
  <2> SUFFICES ASSUME NEW e \in Eagles, NEW t \in Timers, NEW u \in Timers, t \in active'[e],
                      u \in active'[e], t[1] = u[1], SymOf(t)' = SymOf(u)'
               PROVE  t = u
    OBVIOUS
  <2>1. CASE e # d
    BY <1>3, <1>4, <2>1 DEF ClocksTyped
  <2>2. CASE e = d
    <3>1. active'[e] = Registered(active[e], v) /\ active[e] \in SUBSET Timers
      BY <1>4, <2>2 DEF ClocksTyped
    <3>2. \A w \in active'[e] : w = v \/ (w \in active[e] /\ (w[1] # v[1] \/ SymOf(w) # SymOf(v)))
      BY <3>1, RegisteredTimers
    <3>3. \A w \in active[e] : SymOf(w)' = SymOf(w)
      BY <1>1, <3>1 DEF Fresh
    <3>4. SymOf(v)' = SymOf(v)
      BY <1>1, <1>4
    <3>5. QED
      BY <1>3, <3>2, <3>3, <3>4
  <2>3. QED
    BY <2>1, <2>2
<1>5. \A e \in Eagles, t, u \in Timers :
         t \in active'[e] /\ u \in active'[e] /\ t[1] = u[1] /\ SymOf(t)' = SymOf(u)' => t = u
  <2>1. CASE UNCHANGED active
    BY <1>3, <2>1
  <2>2. ASSUME NEW o \in Pulses, RegisterT3(o)
        PROVE  o \in Born /\ active' = [active EXCEPT ![scan.by] = Registered(active[scan.by], <<"t3", o>>)]
    BY <2>2, SMT DEF RegisterT3, ScanTyped
  <2>3. ASSUME NEW o \in Pulses, RegisterT3(o) PROVE <<"t3", o>> \in Timers /\ <<"t3", o>>[2] = o
    BY TimerFacts
  <2>4. ASSUME NEW t \in Timers, RegisterT5(t)
        PROVE  /\ active' = [active EXCEPT ![ByOf(t)] = Registered(active[ByOf(t)], <<"t5", t[2]>>)]
               /\ <<"t5", t[2]>> \in Timers /\ <<"t5", t[2]>>[2] \in Born
    BY <2>4, TimerFacts DEF RegisterT5, Fresh
  <2>5. CASE CleanupEnds
    <3>1. \A e \in Eagles : active'[e] \in {active[e], {}}
      BY <2>5, SMT DEF CleanupEnds, ClocksTyped
    <3>2. QED
      BY <1>3, <3>1
  <2>6. ASSUME NEW o \in Pulses, RegisterT3(o)
        PROVE \A e \in Eagles, t, u \in Timers :
         t \in active'[e] /\ u \in active'[e] /\ t[1] = u[1] /\ SymOf(t)' = SymOf(u)' => t = u
    BY <1>4, <2>2, <2>3, <2>6
  <2>7. ASSUME NEW v \in Timers, RegisterT5(v)
        PROVE \A e \in Eagles, t, u \in Timers :
         t \in active'[e] /\ u \in active'[e] /\ t[1] = u[1] /\ SymOf(t)' = SymOf(u)' => t = u
    BY <1>4, <2>4, <2>7
  <2>8. QED
    BY <2>1, <2>5, <2>6, <2>7, Frames
<1>6. QED
  BY <1>2, <1>5 DEF Names

LEMMA SinglesStep == EagleInv /\ [Next]_vars => Singles'
<1> SUFFICES ASSUME EagleInv, [Next]_vars PROVE Singles'
  OBVIOUS
<1> USE EagleAssumption DEF EagleInv, Typed, Singles, EyesTyped, FlushTyped, None
<1>1. CASE UNCHANGED <<flush, flushes, made, eagle>>
  BY <1>1
<1>2. CASE GetEagle
  BY <1>2, SMT DEF GetEagle, Locked
<1>3. CASE CleanupEnds
  BY <1>3, SMT DEF CleanupEnds, NoFlush
<1>4. CASE FlushBegins
  BY <1>4, SMT DEF FlushBegins, NoFlush, eyes
<1>5. CASE CancelNext \/ Kill \/ FlushEnds
  BY <1>5, SMT DEF CancelNext, Kill, FlushEnds, NoFlush, eyes
<1>6. ASSUME NEW s \in Symbols, Catch(s) PROVE Singles'
  BY <1>1, <1>6 DEF Catch
<1>7. QED
  BY <1>1, <1>2, <1>3, <1>4, <1>5, <1>6, Frames DEF FlushStep

\* What the steps of a scan leave of its record.
LEMMA ScanFields ==
    ASSUME ScanTyped, NEW b, NEW d, NEW p
    PROVE  /\ [scan EXCEPT !.pc = p].by = scan.by /\ [scan EXCEPT !.pc = p].todo = scan.todo
           /\ [scan EXCEPT !.pc = p].pc = p
           /\ [scan EXCEPT !.by = b, !.pc = p].todo = scan.todo
           /\ [scan EXCEPT !.pc = p, !.todo = d].by = scan.by
BY DEF ScanTyped

LEMMA ScanningStep == EagleInv /\ [Next]_vars => Scanning'
<1> SUFFICES ASSUME EagleInv, [Next]_vars PROVE Scanning'
  OBVIOUS
<1> USE EagleAssumption DEF EagleInv, Typed, Scanning, EyesTyped, FlushTyped, ScanTyped, None
<1>1. CASE UNCHANGED <<scan, flush, eagle>>
  BY <1>1
<1>2. CASE GetEagle
  BY <1>2, SMT DEF GetEagle, Locked
<1>3. CASE CleanupEnds
  BY <1>3, SMT DEF CleanupEnds, NoFlush
<1>4. CASE FlushBegins
  BY <1>4, SMT DEF FlushBegins, NoFlush, eyes
<1>5. CASE CancelNext \/ Kill \/ FlushEnds
  BY <1>5, SMT DEF CancelNext, Kill, FlushEnds, NoFlush, eyes
<1>6. ASSUME NEW s \in Symbols, Catch(s) PROVE Scanning'
  BY <1>6, SMT DEF Catch
<1>7. CASE ScanBegins \/ Watched \/ ScanEnds
  BY <1>7, SMT DEF ScanBegins, Watched, ScanEnds, NoScan, eyes
<1>8. ASSUME NEW o \in Pulses, StartT3(o) \/ RegisterT3(o) PROVE Scanning'
  <2>1. UNCHANGED <<flush, eagle>> /\ scan.pc \notin {"off", "entering"}
    BY <1>8 DEF StartT3, RegisterT3, eyes
  <2>2. scan'.by = scan.by
    BY <1>8, ScanFields DEF StartT3, RegisterT3
  <2>3. QED
    BY <2>1, <2>2
<1>9. QED
  BY <1>1, <1>2, <1>3, <1>4, <1>5, <1>6, <1>7, <1>8, Frames DEF FlushStep, ScanStep

LEMMA ScheduledStep == EagleInv /\ [Next]_vars => Scheduled'
<1> SUFFICES ASSUME EagleInv, [Next]_vars PROVE Scheduled'
  OBVIOUS
<1> USE DEF EagleInv, Typed
<1>1. scan.todo \subseteq Born /\ Born \subseteq Pulses
  BY BornGrows, SMT DEF ScanTyped
<1> DEFINE Started(o) == scan.pc = "registering" /\ \A p \in scan.todo : o <= p
<1>2. ASSUME UNCHANGED <<scan, scans>>,
             \A o \in scan.todo : timer[<<"t3", o>>] = "new" => timer'[<<"t3", o>>] = "new"
      PROVE  Scheduled'
  BY <1>2 DEF Scheduled
<1>3. CASE UNCHANGED <<scan, timer>>
  BY <1>3 DEF Scheduled
<1>4. CASE ScanBegins \/ ScanEnds
  <2>1. scan'.todo = {}
    BY <1>4, SMT DEF ScanBegins, ScanEnds, NoScan
  <2>2. QED
    BY <2>1 DEF Scheduled
<1>5. CASE GetEagle \/ Watched
  <2>1. scan'.todo = scan.todo /\ UNCHANGED timer /\ scan.pc # "registering"
    <3>1. CASE Watched
      BY <3>1, ScanFields DEF Watched, clocks
    <3>2. CASE GetEagle
      <4>1. scan' = [scan EXCEPT !.by = eagle', !.pc = "watching"]
            /\ scan.pc = "entering" /\ UNCHANGED timer
        BY <3>2 DEF GetEagle, clocks
      <4>2. QED
        BY <4>1, ScanFields
    <3>3. QED
      BY <1>5, <3>1, <3>2
  <2>2. QED
    BY <2>1 DEF Scheduled
<1>6. ASSUME NEW s \in Symbols, Catch(s) PROVE Scheduled'
  <2>1. scan'.todo = scan.todo \union {born + 1} /\ UNCHANGED timer /\ scan.pc = "watching"
    BY <1>6, SMT DEF Catch, clocks, ScanTyped
  <2>2. timer[<<"t3", born + 1>>] = "new"
    <3>1. born + 1 \in Pulses /\ born + 1 \notin Born
      BY <1>6, EagleAssumption, SMT DEF Catch, EyesTyped, Pulses, Born
    <3>2. <<"t3", born + 1>> \in Timers /\ <<"t3", born + 1>>[2] = born + 1
      BY <3>1, TimerFacts
    <3>3. QED
      BY <3>1, <3>2 DEF Fresh
  <2>3. QED
    BY <2>1, <2>2 DEF Scheduled
<1>7. ASSUME NEW o \in Pulses, StartT3(o) PROVE Scheduled'
  <2>1. scan.pc = "scheduling" /\ o \in scan.todo /\ \A p \in scan.todo : o <= p
    BY <1>7 DEF StartT3
  <2>2. scan'.pc = "registering" /\ scan'.todo = scan.todo
    BY <1>7, SMT DEF StartT3, ScanTyped
  <2>3. \A p \in scan.todo : p # o => timer'[<<"t3", p>>] = timer[<<"t3", p>>]
    <3> SUFFICES ASSUME NEW p \in scan.todo, p # o PROVE timer'[<<"t3", p>>] = timer[<<"t3", p>>]
      OBVIOUS
    <3>1. <<"t3", p>> \in Timers /\ <<"t3", p>> # <<"t3", o>>
      BY <1>1, TimerFacts
    <3>2. timer' = [timer EXCEPT ![<<"t3", o>>] = "waiting"]
      BY <1>7 DEF StartT3
    <3>3. QED
      BY <3>1, <3>2 DEF ClocksTyped
  <2>4. QED
    BY <2>1, <2>2, <2>3 DEF Scheduled
<1>8. ASSUME NEW o \in Pulses, RegisterT3(o) PROVE Scheduled'
  <2>1. scan.pc = "registering" /\ o \in scan.todo /\ (\A p \in scan.todo : o <= p) /\ UNCHANGED timer
    BY <1>8 DEF RegisterT3
  <2>2. scan'.todo = scan.todo \ {o}
    BY <1>8, SMT DEF RegisterT3, ScanTyped
  <2>3. \A p \in scan.todo \ {o} : timer[<<"t3", p>>] = "new"
    <3> SUFFICES ASSUME NEW p \in scan.todo, p # o, p <= o PROVE FALSE
      BY <2>1 DEF Scheduled
    <3>1. o \in Int /\ p \in Int /\ o <= p
      BY <1>1, <2>1 DEF Born
    <3>2. QED
      BY <3>1, SMT
  <2>4. QED
    BY <2>1, <2>2, <2>3 DEF Scheduled
<1>9. ASSUME NEW t \in Timers, Fires(t) \/ Outcome(t) PROVE Scheduled'
  <2>1. timer[t] # "new"
    BY <1>9 DEF Fires, Outcome, T3Suspects, T3Vetoes, T3Confirms, RegisterT5, T5Judges
  <2>2. \A o \in Pulses : timer[<<"t3", o>>] = "new" => timer'[<<"t3", o>>] = "new"
    <3> SUFFICES ASSUME NEW o \in Pulses, timer[<<"t3", o>>] = "new" PROVE timer'[<<"t3", o>>] = "new"
      OBVIOUS
    <3>1. <<"t3", o>> \in Timers /\ <<"t3", o>> # t /\ <<"t3", o>> # <<"t5", t[2]>>
      BY <2>1, TimerFacts
    <3>2. ASSUME NEW p, NEW q, timer' \in {[timer EXCEPT ![t] = p],
                                           [timer EXCEPT ![t] = p, ![<<"t5", t[2]>>] = q]}
          PROVE  timer'[<<"t3", o>>] = timer[<<"t3", o>>]
      BY <3>1, <3>2 DEF ClocksTyped
    <3>3. QED
      BY <1>9, <3>2 DEF Fires, Outcome, T3Suspects, T3Vetoes, T3Confirms, RegisterT5, T5Judges
  <2>3. UNCHANGED <<scan, scans>>
    BY <1>9 DEF Fires, Outcome, T3Suspects, T3Vetoes, T3Confirms, RegisterT5, T5Judges
  <2>4. QED
    BY <1>1, <1>2, <2>2, <2>3
<1>10. CASE CancelNext \/ Kill
  <2>1. PICK ts : timer' = Cancelled(ts)
    BY <1>10 DEF CancelNext, Kill
  <2>2. \A o \in Pulses : timer[<<"t3", o>>] = "new" => timer'[<<"t3", o>>] = "new"
    BY <2>1, CancelledTimers, TimerFacts
  <2>3. QED
    BY <1>1, <1>2, <1>10, <2>2 DEF CancelNext, Kill
<1>11. QED
  BY <1>3, <1>4, <1>5, <1>6, <1>7, <1>8, <1>9, <1>10, Frames DEF ScanStep

\* What a catch does: one more pulse, which no candidate of the EagleEye shares its symbol with.
LEMMA CatchFacts ==
    ASSUME EagleInv, NEW s \in Symbols, Catch(s)
    PROVE  /\ born + 1 \in Pulses \ Born /\ Born' = Born \union {born + 1}
           /\ scan.by \in 1..made /\ scan.by \in Eagles
           /\ scan.by = eagle \/ flush.pc # "off"
           /\ pulse'[born + 1].by = scan.by /\ pulse'[born + 1].sym = s
           /\ pulse'[born + 1].late <=> flush.pc # "off"
           /\ pulse'[born + 1].t3 = "PENDING" /\ pulse'[born + 1].t5 = "PENDING"
           /\ \A o \in Born : pulse'[o] = pulse[o]
           /\ \A o \in cands[scan.by] : pulse[o].sym # s
           /\ cands'[scan.by] = cands[scan.by] \union {born + 1}
           /\ \A e \in Eagles : e # scan.by => cands'[e] = cands[e]
           /\ UNCHANGED <<eagle, made, active, timer, held, flush, writes, recorded>>
<1> USE EagleAssumption DEF EagleInv, Typed
<1>1. born + 1 \in Pulses \ Born /\ Born' = Born \union {born + 1}
  BY SMT DEF Catch, EyesTyped, Pulses, Born
<1>2. scan.by \in 1..made /\ scan.by \in Eagles
  BY SMT DEF Catch, Scanning, ScanTyped, EyesTyped, None, Eagles
<1>3. scan.by = eagle \/ flush.pc # "off"
  BY DEF Catch, Scanning
<1>4. pulse' = [pulse EXCEPT ![born + 1] =
                   [Unborn EXCEPT !.by = scan.by, !.sym = s, !.late = flush.pc # "off"]]
  BY DEF Catch
<1>5. /\ pulse'[born + 1] = [Unborn EXCEPT !.by = scan.by, !.sym = s, !.late = flush.pc # "off"]
      /\ \A o \in Born : pulse'[o] = pulse[o]
  BY <1>1, <1>4, BornGrows DEF PulsesTyped
<1>6. /\ pulse'[born + 1].by = scan.by /\ pulse'[born + 1].sym = s
      /\ pulse'[born + 1].late = (flush.pc # "off")
      /\ pulse'[born + 1].t3 = "PENDING" /\ pulse'[born + 1].t5 = "PENDING"
  BY <1>5, SMT DEF Unborn
<1>7. s \notin SymbolsOf(scan.by)
  BY DEF Catch, NewBreakout
<1>8. \A o \in cands[scan.by] : pulse[o].sym # s
  BY <1>7 DEF SymbolsOf
<1>9. cands' = [cands EXCEPT ![scan.by] = {p \in cands[scan.by] : pulse[p].sym # s} \union {born + 1}]
  BY DEF Catch
<1>10. /\ cands'[scan.by] = cands[scan.by] \union {born + 1}
       /\ \A e \in Eagles : e # scan.by => cands'[e] = cands[e]
  BY <1>2, <1>8, <1>9 DEF EyesTyped
<1>11. UNCHANGED <<eagle, made, active, timer, held, flush, writes, recorded>>
  BY DEF Catch, clocks, sinks
<1>12. QED
  BY <1>1, <1>2, <1>3, <1>5, <1>6, <1>8, <1>10, <1>11

LEMMA CandidatesStep == EagleInv /\ [Next]_vars => Candidates'
<1> SUFFICES ASSUME EagleInv, [Next]_vars PROVE Candidates'
  OBVIOUS
<1> USE DEF EagleInv, Typed
<1>1. Born \subseteq Born' /\ Born \subseteq Pulses /\ Born' \subseteq Pulses
  BY BornGrows
<1>2. \A o \in Born : pulse'[o].by = pulse[o].by
  BY KeptPulses
<1>3. \A e \in Eagles : cands[e] \subseteq Born
  BY DEF EyesTyped
<1>4. ASSUME NEW s \in Symbols, Catch(s) PROVE Candidates'
  <2>1. \A o \in Born' : pulse'[o].by \in 1..made'
    BY <1>2, <1>4, CatchFacts DEF Candidates
  <2>2. \A e \in Eagles : \A o \in cands'[e] : pulse'[o].by = e
    BY <1>2, <1>3, <1>4, CatchFacts DEF Candidates
  <2>3. \A o \in Born : pulse[o].by = eagle => o \in cands'[eagle]
    <3> SUFFICES ASSUME NEW o \in Born, pulse[o].by = eagle PROVE o \in cands'[eagle]
      OBVIOUS
    <3>1. o \in cands[eagle]
      BY DEF Candidates
    <3>2. eagle \in Eagles
      BY EagleAssumption, SMT DEF EyesTyped, Eagles, Candidates
    <3>3. QED
      BY <1>4, <3>1, <3>2, CatchFacts
  <2>4. \A o \in Born' : pulse'[o].by = eagle' => o \in cands'[eagle']
    BY <1>2, <1>4, <2>3, CatchFacts
  <2>5. QED
    BY <2>1, <2>2, <2>4 DEF Candidates
<1>5. ASSUME UNCHANGED born, made' \in Nat, made <= made' PROVE \A o \in Born' : pulse'[o].by \in 1..made'
  <2>1. \A o \in Born : pulse[o].by \in 1..made
    BY DEF Candidates
  <2>2. 1..made \subseteq 1..made'
    BY <1>5, EagleAssumption, SMT DEF EyesTyped
  <2>3. QED
    BY <1>2, <1>5, <2>1, <2>2 DEF Born
<1>6. CASE GetEagle
  <2>1. UNCHANGED <<born, cands>> /\ made' \in Nat /\ made <= made'
    BY <1>6, EagleAssumption, SMT DEF GetEagle, EyesTyped
  <2>2. \A o \in Born : pulse[o].by = eagle' => o \in cands[eagle']
    <3>1. CASE eagle = None
      <4>1. eagle' = made + 1 /\ made \in Nat
        BY <1>6, <3>1, EagleAssumption, SMT DEF GetEagle, EyesTyped
      <4>2. QED
        BY <4>1, SMT DEF Candidates
    <3>2. CASE eagle # None
      BY <1>6, <3>2 DEF GetEagle, Candidates
    <3>3. QED
      BY <3>1, <3>2
  <2>3. QED
    BY <1>2, <1>3, <1>5, <2>1, <2>2 DEF Candidates, Born
<1>7. CASE CleanupEnds
  <2>1. UNCHANGED <<born, made>> /\ eagle' = None
    BY <1>7 DEF CleanupEnds
  <2>2. \A e \in Eagles : cands'[e] \in {cands[e], {}}
    BY <1>7, SMT DEF CleanupEnds, EyesTyped
  <2>3. \A o \in Born : pulse[o].by # None
    BY SMT DEF Candidates, None
  <2>4. made \in Nat /\ made <= made
    BY EagleAssumption, SMT DEF EyesTyped
  <2>5. QED
    BY <1>2, <1>3, <1>5, <2>1, <2>2, <2>3, <2>4 DEF Candidates, Born
<1>8. CASE UNCHANGED <<made, eagle, born, cands>>
  <2>1. made \in Nat /\ made <= made
    BY EagleAssumption, SMT DEF EyesTyped
  <2>2. QED
    BY <1>2, <1>3, <1>5, <1>8, <2>1 DEF Candidates, Born
<1>9. QED
  BY <1>4, <1>6, <1>7, <1>8, Frames

LEMMA OneEachStep == EagleInv /\ [Next]_vars => OneEach'
<1> SUFFICES ASSUME EagleInv, [Next]_vars PROVE OneEach'
  OBVIOUS
<1> USE DEF EagleInv, Typed
<1>1. \A o \in Born : /\ pulse'[o].by = pulse[o].by /\ pulse'[o].sym = pulse[o].sym
                      /\ pulse'[o].late = pulse[o].late
  BY KeptPulses
<1>2. \A o \in Born : pulse[o].by \in Eagles
  BY EagleAssumption, SMT DEF Candidates, EyesTyped, Eagles
<1>3. ASSUME UNCHANGED born, \A e \in Eagles : cands'[e] \subseteq cands[e] PROVE OneEach'
  BY <1>1, <1>2, <1>3 DEF OneEach, OnTime, Born
<1>4. CASE UNCHANGED <<born, cands>>
  BY <1>3, <1>4
<1>5. CASE GetEagle
  BY <1>4, <1>5 DEF GetEagle
<1>6. CASE CleanupEnds
  <2>1. \A e \in Eagles : cands'[e] \in {cands[e], {}}
    BY <1>6, SMT DEF CleanupEnds, EyesTyped
  <2>2. QED
    BY <1>3, <1>6, <2>1 DEF CleanupEnds
<1>7. ASSUME NEW s \in Symbols, Catch(s) PROVE OneEach'
  <2> DEFINE n == born + 1
  <2>1. ASSUME NEW o \in Born, ~pulse[o].late, pulse[o].by = scan.by, pulse[o].sym = s
        PROVE  pulse'[n].late /\ o \notin cands[scan.by]
    <3>1. o \notin cands[scan.by]
      BY <1>7, <2>1, CatchFacts
    <3>2. scan.by # eagle
      BY <2>1, <3>1 DEF Candidates
    <3>3. QED
      BY <1>7, <3>1, <3>2, CatchFacts
  <2>2. ASSUME NEW p \in Born, ~pulse'[n].late, pulse[p].by = scan.by, pulse[p].sym = s
        PROVE  FALSE
    <3>1. scan.by = eagle
      BY <1>7, <2>2, CatchFacts
    <3>2. p \in cands[scan.by]
      BY <2>2, <3>1 DEF Candidates
    <3>3. QED
      BY <1>7, <2>2, <3>2, CatchFacts
  <2>3. SUFFICES ASSUME NEW o \in Born', NEW p \in Born', ~pulse'[o].late, p # o,
                        pulse'[p].by = pulse'[o].by, pulse'[p].sym = pulse'[o].sym
                 PROVE  pulse'[p].late /\ o \notin cands'[pulse'[o].by]
    BY DEF OneEach, OnTime
  <2>4. n \notin Born /\ Born' = Born \union {n} /\ pulse'[n].by = scan.by /\ pulse'[n].sym = s
    BY <1>7, CatchFacts
  <2>5. \A e \in Eagles : cands'[e] \subseteq cands[e] \union {n}
    BY <1>7, CatchFacts
  <2> HIDE DEF n
  <2>6. CASE o \in Born /\ p \in Born
    BY <1>1, <1>2, <2>3, <2>4, <2>5, <2>6 DEF OneEach, OnTime
  <2>7. CASE o \in Born /\ p = n
    BY <1>1, <1>2, <2>1, <2>3, <2>4, <2>5, <2>7
  <2>8. CASE o = n /\ p \in Born
    BY <1>1, <2>2, <2>3, <2>4, <2>8
  <2>9. QED
    BY <2>3, <2>4, <2>6, <2>7, <2>8
<1>8. QED
  BY <1>4, <1>5, <1>6, <1>7, Frames

\* A timer that goes off looks a candidate of its symbol up, or finds none.
LEMMA FiresFacts ==
    ASSUME ClocksTyped, NEW t \in Timers, Fires(t)
    PROVE  /\ timer[t] = "waiting"
           /\ \A u \in Timers : u # t => timer'[u] = timer[u] /\ held'[u] = held[u]
           /\ \/ timer'[t] = "over" /\ held'[t] = held[t]
              \/ \E o \in Candidate(t) :
                    /\ timer'[t] = "busy" /\ held'[t] = o
                    /\ t[1] = "t3" \/ pulse[o].t5 = "PENDING"
           /\ UNCHANGED <<eagle, made, born, pulse, cands, writes, recorded>>
<1>1. UNCHANGED <<eagle, made, born, pulse, cands, writes, recorded>> /\ timer[t] = "waiting"
  BY DEF Fires, eyes, sinks
<1>2. CASE timer' = [timer EXCEPT ![t] = "over"] /\ UNCHANGED held
  BY <1>1, <1>2 DEF ClocksTyped
<1>3. ASSUME NEW o \in Candidate(t), t[1] = "t3" \/ pulse[o].t5 = "PENDING",
             timer' = [timer EXCEPT ![t] = "busy"], held' = [held EXCEPT ![t] = o]
      PROVE  /\ timer'[t] = "busy" /\ held'[t] = o
             /\ \A u \in Timers : u # t => timer'[u] = timer[u] /\ held'[u] = held[u]
  BY <1>3 DEF ClocksTyped
<1>4. QED
  BY <1>1, <1>2, <1>3 DEF Fires

\* A callback goes on: its timer is over, or the T+5 timer of its pulse has been started.
LEMMA OutcomeFacts ==
    ASSUME ClocksTyped, NEW t \in Timers, Outcome(t)
    PROVE  /\ timer[t] \in {"busy", "registering"}
           /\ timer'[t] \in {"over", "registering"}
           /\ \A u \in Timers : u # t =>
                 \/ timer'[u] = timer[u]
                 \/ T3Confirms(t) /\ u = <<"t5", t[2]>> /\ timer'[u] = "waiting"
           /\ UNCHANGED <<eagle, made, born, cands, held>>
<1>1. UNCHANGED <<eagle, made, born, cands, held>> /\ timer[t] \in {"busy", "registering"}
  BY DEF Outcome, T3Suspects, T3Vetoes, T3Confirms, RegisterT5, T5Judges, eyes
<1>2. CASE timer' = [timer EXCEPT ![t] = "over"]
  BY <1>1, <1>2 DEF ClocksTyped
<1>3. CASE T3Confirms(t)
  <2>1. timer' = [timer EXCEPT ![t] = "registering", ![<<"t5", t[2]>>] = "waiting"] /\ t[1] = "t3"
    BY <1>3 DEF T3Confirms
  <2>2. <<"t5", t[2]>> \in Timers /\ <<"t5", t[2]>> # t
    BY <2>1, TimerFacts
  <2>3. timer'[t] = "registering" /\ timer'[<<"t5", t[2]>>] = "waiting"
        /\ \A u \in Timers : u # t /\ u # <<"t5", t[2]>> => timer'[u] = timer[u]
    BY <2>1, <2>2 DEF ClocksTyped
  <2>4. QED
    BY <1>1, <1>3, <2>3
<1>4. QED
  BY <1>2, <1>3 DEF Outcome, T3Suspects, T3Vetoes, RegisterT5, T5Judges

LEMMA LookupsStep == EagleInv /\ [Next]_vars => Lookups'
<1> SUFFICES ASSUME EagleInv, [Next]_vars PROVE Lookups'
  OBVIOUS
<1> USE DEF EagleInv, Typed
<1>1. Born \subseteq Born'
  BY BornGrows
<1>2. \A o \in Born : /\ pulse'[o].by = pulse[o].by /\ pulse'[o].sym = pulse[o].sym
                      /\ pulse'[o].late = pulse[o].late
  BY KeptPulses
<1>3. \A t \in Timers : t[2] \in Born => ByOf(t)' = ByOf(t) /\ SymOf(t)' = SymOf(t)
  BY <1>2 DEF ByOf, SymOf
<1>4. ASSUME NEW t \in Timers, Fires(t), NEW o \in Candidate(t)
      PROVE  /\ t[2] \in Born /\ o \in Born /\ pulse[o].by = ByOf(t) /\ pulse[o].sym = SymOf(t)
             /\ ~pulse[o].late => t[2] = o
  <2>1. t[2] \in Born /\ ByOf(t) \in Eagles /\ Candidate(t) \subseteq Born
    BY <1>4, FiresFacts, Caught
  <2>2. o \in cands[ByOf(t)] /\ pulse[o].sym = SymOf(t)
    BY <1>4 DEF Candidate
  <2>3. pulse[o].by = ByOf(t)
    BY <2>1, <2>2 DEF Candidates
  <2>4. ~pulse[o].late => t[2] = o
    BY <1>4, <2>1, <2>2, <2>3 DEF OneEach, OnTime, ByOf, SymOf
  <2>5. QED
    BY <1>4, <2>1, <2>2, <2>3, <2>4
<1>5. \A t \in Timers : held'[t] = held[t] \/ (Fires(t) /\ held'[t] \in Candidate(t))
  BY FiresFacts, Frames
<1>6. \A t \in Timers : held'[t] \in OnTime' => t[2] = held'[t]
  <2> SUFFICES ASSUME NEW t \in Timers, held'[t] \in OnTime' PROVE t[2] = held'[t]
    OBVIOUS
  <2>1. CASE Fires(t) /\ held'[t] \in Candidate(t)
    BY <1>2, <1>4, <2>1 DEF OnTime
  <2>2. CASE held'[t] = held[t]
    <3>1. held[t] \in 0..born /\ held[t] \in Born'
      BY <2>2 DEF ClocksTyped, OnTime
    <3>2. held[t] \in Born
      BY <3>1, EagleAssumption, SMT DEF Born, EyesTyped
    <3>3. QED
      BY <1>2, <2>2, <3>2 DEF OnTime, Lookups
  <2>3. QED
    BY <1>5, <2>1, <2>2
<1>7. ASSUME NEW t \in Timers, timer'[t] = "busy"
      PROVE  held'[t] \in Born' /\ pulse'[held'[t]].by = ByOf(t)' /\ pulse'[held'[t]].sym = SymOf(t)'
  <2>1. \/ timer[t] = "busy" /\ held'[t] = held[t]
        \/ Fires(t) /\ held'[t] \in Candidate(t)
    <3>1. ASSUME UNCHANGED timer PROVE timer[t] = "busy"
      BY <1>7, <3>1
    <3>2. ASSUME NEW o \in Pulses, StartT3(o) PROVE timer[t] = "busy"
      BY <1>7, <3>2 DEF StartT3, ClocksTyped
    <3>3. ASSUME NEW u \in Timers, Fires(u)
          PROVE  timer[t] = "busy" \/ (Fires(t) /\ held'[t] \in Candidate(t))
      BY <1>7, <3>3, FiresFacts
    <3>4. ASSUME NEW u \in Timers, Outcome(u) PROVE timer[t] = "busy"
      BY <1>7, <3>4, OutcomeFacts
    <3>5. ASSUME CancelNext \/ Kill PROVE timer[t] = "busy"
      <4>1. PICK ts : timer' = Cancelled(ts)
        BY <3>5 DEF CancelNext, Kill
      <4>2. QED
        BY <1>7, <4>1, CancelledTimers
    <3>6. timer[t] = "busy" => ~Fires(t)
      BY DEF Fires
    <3>7. timer[t] = "busy" \/ (Fires(t) /\ held'[t] \in Candidate(t))
      BY <3>1, <3>2, <3>3, <3>4, <3>5, Frames
    <3>8. QED
      BY <1>5, <3>6, <3>7
  <2>2. t[2] \in Born
    BY <2>1 DEF Fresh, Fires
  <2>3. CASE timer[t] = "busy" /\ held'[t] = held[t]
    BY <1>1, <1>2, <1>3, <2>2, <2>3 DEF Lookups
  <2>4. CASE Fires(t) /\ held'[t] \in Candidate(t)
    BY <1>1, <1>2, <1>3, <1>4, <2>2, <2>4
  <2>5. QED
    BY <2>1, <2>3, <2>4
<1>8. QED
  BY <1>6, <1>7 DEF Lookups

\* A callback changes the pulse it holds and no other.
LEMMA OutcomePulses ==
    ASSUME PulsesTyped, NEW t \in Timers, Outcome(t)
    PROVE  /\ \A o \in Pulses : o # held[t] \/ timer[t] # "busy" => pulse'[o] = pulse[o]
           /\ RegisterT5(t) => UNCHANGED pulse
           /\ held[t] \in Pulses =>
                 /\ T3Suspects(t) => /\ pulse'[held[t]].t3 = "SUSPECT"
                                     /\ pulse'[held[t]].t5 = pulse[held[t]].t5
                 /\ T3Vetoes(t) => pulse'[held[t]].t3 = "SUSPECT" /\ pulse'[held[t]].t5 = "VETO"
                 /\ T3Confirms(t) => /\ pulse'[held[t]].t3 = "CONFIRM"
                                     /\ pulse'[held[t]].t5 = pulse[held[t]].t5
                 /\ T5Judges(t) => /\ pulse'[held[t]].t3 = pulse[held[t]].t3
                                   /\ pulse'[held[t]].t5 \in Words
<1> USE DEF PulsesTyped, PulseRecords
<1>1. CASE T3Suspects(t)
  BY <1>1, SMT DEF T3Suspects, T3Vetoes, T3Confirms, T5Judges, RegisterT5
<1>2. CASE T3Vetoes(t)
  BY <1>2, SMT DEF T3Suspects, T3Vetoes, T3Confirms, T5Judges, RegisterT5
<1>3. CASE T3Confirms(t)
  BY <1>3, SMT DEF T3Suspects, T3Vetoes, T3Confirms, T5Judges, RegisterT5
<1>4. CASE T5Judges(t)
  <2>1. t[1] = "t5" /\ timer[t] = "busy"
    BY <1>4 DEF T5Judges
  <2>2. PICK verdict \in Verdicts : pulse' = [pulse EXCEPT ![held[t]].t5 = verdict]
    BY <1>4 DEF T5Judges
  <2>3. verdict \in Words
    BY EagleAssumption DEF Words
  <2>4. /\ \A o \in Pulses : o # held[t] => pulse'[o] = pulse[o]
        /\ held[t] \in Pulses => pulse'[held[t]].t3 = pulse[held[t]].t3 /\ pulse'[held[t]].t5 = verdict
    BY <2>2, SMT
  <2>5. QED
    BY <2>1, <2>3, <2>4 DEF T3Suspects, T3Vetoes, T3Confirms, RegisterT5
<1>5. CASE RegisterT5(t)
  BY <1>5 DEF T3Suspects, T3Vetoes, T3Confirms, T5Judges, RegisterT5, eyes
<1>6. QED
  BY <1>1, <1>2, <1>3, <1>4, <1>5 DEF Outcome

LEMMA TimersOf ==
    ASSUME EagleInv, NEW o \in OnTime
    PROVE  /\ o \in Born /\ o \in Pulses /\ <<"t3", o>> \in Timers /\ <<"t5", o>> \in Timers
           /\ <<"t5", o>>[1] = "t5" /\ <<"t5", o>>[2] = o /\ <<"t3", o>> # <<"t5", o>>
<1>1. o \in Born
  BY DEF OnTime
<1>2. o \in Pulses
  BY <1>1, EagleAssumption, SMT DEF EagleInv, Typed, EyesTyped, Born, Pulses
<1>3. QED
  BY <1>1, <1>2, TimerFacts

\* A pulse on time is held by its own two timers only.
LEMMA OwnTimers ==
    ASSUME EagleInv, NEW o \in OnTime, NEW t \in Timers, held[t] = o
    PROVE  t \in {<<"t3", o>>, <<"t5", o>>}
<1>1. t[2] = o
  BY DEF EagleInv, Lookups
<1>2. QED
  BY <1>1, TimerFacts

\* A cancellation, and a step that touches neither the pulse nor its timers.
LEMMA PhaseKept ==
    ASSUME EagleInv, NEW o \in OnTime,
           pulse'[o] = pulse[o],
           \A t \in {<<"t3", o>>, <<"t5", o>>} :
              /\ held'[t] = held[t]
              /\ timer'[t] = timer[t] \/ (timer[t] = "waiting" /\ timer'[t] = "over"),
           o \in cands'[pulse[o].by] => o \in cands[pulse[o].by]
    PROVE  PhaseOf(o)'
<1>1. PhaseOf(o)
  BY DEF EagleInv, Phases
<1>2. T3Ahead(o)' => T3Ahead(o) /\ timer'[<<"t3", o>>] = timer[<<"t3", o>>]
  BY DEF T3Ahead
<1>3. T5Ahead(o)' => T5Ahead(o)
  BY DEF T5Ahead
<1>4. timer[<<"t5", o>>] = "new" => timer'[<<"t5", o>>] = "new"
  OBVIOUS
<1>5. QED
  BY <1>1, <1>2, <1>3, <1>4 DEF PhaseOf

LEMMA PhasesFires ==
    ASSUME EagleInv, NEW t \in Timers, Fires(t), NEW o \in OnTime
    PROVE  PhaseOf(o)'
<1> DEFINE a == <<"t3", o>>
           b == <<"t5", o>>
<1>1. a \in Timers /\ b \in Timers /\ a # b /\ b[1] = "t5" /\ b[2] = o
  BY TimersOf
<1>2. UNCHANGED <<pulse, cands>>
  BY FiresFacts DEF EagleInv, Typed
<1>3. PhaseOf(o)
  BY DEF EagleInv, Phases
<1>4. T3Ahead(o)' => T3Ahead(o)
  BY <1>1, FiresFacts DEF T3Ahead, EagleInv, Typed
<1>5. T5Ahead(o)' => T5Ahead(o)
  BY <1>1, FiresFacts DEF T5Ahead, EagleInv, Typed
<1>6. timer'[b] = "waiting" => timer[b] = "waiting"
  BY <1>1, FiresFacts DEF EagleInv, Typed
<1>7. timer[b] = "new" => timer'[b] = "new"
  BY <1>1, FiresFacts DEF EagleInv, Typed
<1>8. timer'[b] = "busy" /\ held'[b] = o => pulse[o].t3 = "CONFIRM"
  <2>1. CASE t = b
    <3>1. timer[b] = "waiting" /\ (timer'[b] = "busy" => held'[b] \in Candidate(b))
      BY <2>1, FiresFacts DEF EagleInv, Typed
    <3>2. o \in Candidate(b) => o \in cands[pulse[o].by]
      BY <1>1 DEF Candidate, ByOf
    <3>3. QED
      BY <1>3, <3>1, <3>2 DEF PhaseOf
  <2>2. CASE t # b
    BY <1>1, <1>3, <2>2, FiresFacts DEF PhaseOf, EagleInv, Typed
  <2>3. QED
    BY <2>1, <2>2
<1>9. QED
  BY <1>2, <1>3, <1>4, <1>5, <1>6, <1>7, <1>8 DEF PhaseOf

LEMMA PhasesOutcome ==
    ASSUME EagleInv, NEW t \in Timers, Outcome(t), NEW o \in OnTime
    PROVE  PhaseOf(o)'
<1> DEFINE a == <<"t3", o>>
           b == <<"t5", o>>
           h == held[t]
<1>1. /\ a \in Timers /\ b \in Timers /\ a # b /\ o \in Pulses /\ o \in Born
      /\ b[1] = "t5" /\ a[1] = "t3" /\ a[2] = o /\ b[2] = o
  BY TimersOf, TimerFacts
<1>2. UNCHANGED <<cands, held>> /\ timer[t] \in {"busy", "registering"}
      /\ timer'[t] \in {"over", "registering"}
  BY OutcomeFacts DEF EagleInv, Typed
<1>3. PhaseOf(o)
  BY DEF EagleInv, Phases
<1>4. h # o \/ timer[t] # "busy" => pulse'[o] = pulse[o]
  BY <1>1, OutcomePulses DEF EagleInv, Typed
<1>5. pulse'[o].by = pulse[o].by
  BY <1>1, PulseFrame, KeptPulses DEF EagleInv, Typed, Next, TimerStep
<1>6. CASE t # a /\ t # b
  <2>1. h # o
    BY <1>6, OwnTimers
  <2>2. <<"t5", t[2]>> # a /\ (<<"t5", t[2]>> = b => t = a \/ t[1] # "t3")
    BY <1>6, TimerFacts
  <2>3. T3Confirms(t) => t[1] = "t3"
    BY DEF T3Confirms
  <2>4. timer'[a] = timer[a] /\ timer'[b] = timer[b]
    BY <1>1, <1>6, <2>2, <2>3, OutcomeFacts DEF EagleInv, Typed
  <2>5. QED
    BY <1>2, <1>3, <1>4, <2>1, <2>4 DEF PhaseOf, T3Ahead, T5Ahead
<1>7. CASE t = a
  <2>1. ~T3Ahead(o)'
    BY <1>2, <1>7 DEF T3Ahead
  <2>2. timer[a] = "busy" => T3Ahead(o) /\ timer[b] = "new" /\ pulse[o].t5 = "PENDING"
    BY <1>3 DEF T3Ahead, PhaseOf
  <2>3. timer' = [timer EXCEPT ![t] = "over"] => timer'[b] = timer[b]
    BY <1>1, <1>7 DEF EagleInv, Typed, ClocksTyped
  <2>4. CASE T3Suspects(t) \/ T3Vetoes(t)
    <3>1. timer[a] = "busy" /\ timer'[b] = "new"
      BY <1>7, <2>2, <2>3, <2>4 DEF T3Suspects, T3Vetoes
    <3>2. h = o => \/ pulse'[o].t3 = "SUSPECT" /\ pulse'[o].t5 = "VETO"
                   \/ pulse'[o].t3 = "SUSPECT" /\ pulse'[o].t5 = "PENDING"
      BY <1>1, <2>2, <2>4, <3>1, OutcomePulses DEF EagleInv, Typed
    <3>3. QED
      BY <1>3, <1>4, <2>1, <3>1, <3>2 DEF PhaseOf, T5Ahead
  <2>5. CASE T3Confirms(t)
    <3>1. timer' = [timer EXCEPT ![a] = "registering", ![b] = "waiting"] /\ timer[a] = "busy"
      BY <1>1, <1>7, <2>5 DEF T3Confirms
    <3>2. timer'[b] = "waiting"
      BY <1>1, <3>1 DEF EagleInv, Typed, ClocksTyped
    <3>3. CASE h = o
      <4>1. pulse'[o].t3 = "CONFIRM" /\ pulse'[o].t5 = "PENDING"
        BY <1>1, <2>2, <2>5, <3>1, <3>3, OutcomePulses DEF EagleInv, Typed
      <4>2. QED
        BY <2>1, <3>2, <4>1 DEF PhaseOf
    <3>4. CASE h # o
      <4>1. h \in Born /\ pulse[h].by = pulse[o].by /\ pulse[h].sym = pulse[o].sym
        BY <1>1, <1>7, <3>1 DEF EagleInv, Lookups, ByOf, SymOf
      <4>2. o \notin cands[pulse[o].by]
        BY <3>4, <4>1 DEF EagleInv, OneEach
      <4>3. QED
        BY <1>2, <1>4, <2>1, <2>2, <3>1, <3>2, <3>4, <4>2 DEF PhaseOf
    <3>5. QED
      BY <3>3, <3>4
  <2>6. CASE RegisterT5(t)
    <3>1. timer'[b] = timer[b] /\ UNCHANGED <<pulse, held, cands>>
      BY <2>3, <2>6 DEF RegisterT5, eyes
    <3>2. QED
      BY <1>3, <2>1, <3>1 DEF PhaseOf, T5Ahead
  <2>7. QED
    BY <1>1, <1>7, <2>4, <2>5, <2>6 DEF Outcome, T5Judges
<1>8. CASE t = b
  <2>1. ~T5Ahead(o)' /\ timer'[b] # "new"
    BY <1>2, <1>8 DEF T5Ahead
  <2>2. ~T3Ahead(o)
    BY <1>2, <1>3, <1>8 DEF PhaseOf
  <2>3. timer'[a] = timer[a]
    BY <1>1, <1>8, OutcomeFacts DEF EagleInv, Typed
  <2>4. ~T3Ahead(o)'
    BY <2>2, <2>3 DEF T3Ahead
  <2>5. pulse'[o].t5 # "PENDING" =>
           pulse'[o].t3 = "CONFIRM" \/ (pulse'[o].t3 = "SUSPECT" /\ pulse'[o].t5 = "VETO")
    <3>1. CASE h = o /\ T5Judges(t)
      <4>1. pulse[o].t3 = "CONFIRM"
        BY <1>3, <1>8, <3>1 DEF PhaseOf, T5Judges
      <4>2. pulse'[o].t3 = "CONFIRM"
        BY <1>1, <3>1, <4>1, OutcomePulses DEF EagleInv, Typed
      <4>3. QED
        BY <4>2
    <3>2. CASE h # o \/ RegisterT5(t)
      <4>1. pulse'[o] = pulse[o]
        BY <1>4, <3>2, OutcomePulses DEF EagleInv, Typed
      <4>2. QED
        BY <1>3, <4>1 DEF PhaseOf
    <3>3. QED
      BY <1>1, <1>8, <3>1, <3>2 DEF Outcome, T3Suspects, T3Vetoes, T3Confirms
  <2>6. QED
    BY <2>1, <2>4, <2>5 DEF PhaseOf, T5Ahead
<1>9. QED
  BY <1>6, <1>7, <1>8

\* The pulses of the next state that are on time: those of this one, and a new one perhaps.
LEMMA OnTimeNext ==
    ASSUME EagleInv, [Next]_vars, NEW o \in OnTime'
    PROVE  o \in OnTime \/ (o \in Pulses \ Born /\ \E s \in Symbols : Catch(s) /\ o = born + 1)
<1> USE DEF EagleInv, Typed
<1>1. CASE o \in Born
  BY <1>1, KeptPulses DEF OnTime
<1>2. CASE o \notin Born
  <2>1. o \in Born'
    BY DEF OnTime
  <2>2. ~UNCHANGED born
    BY <1>2, <2>1 DEF Born
  <2>3. PICK s \in Symbols : Catch(s)
    BY <2>2, Frames DEF GetEagle, CleanupEnds
  <2>4. QED
    BY <1>2, <2>1, <2>3, CatchFacts
<1>3. QED
  BY <1>1, <1>2

LEMMA PhasesStep == EagleInv /\ [Next]_vars => Phases'
<1> SUFFICES ASSUME EagleInv, [Next]_vars, NEW o \in OnTime' PROVE PhaseOf(o)'
  BY DEF Phases
<1> DEFINE a == <<"t3", o>>
           b == <<"t5", o>>
<1>1. CASE o \in Pulses \ Born /\ \E s \in Symbols : Catch(s) /\ o = born + 1
  <2>1. a \in Timers /\ b \in Timers /\ a[2] = o /\ b[2] = o
    BY <1>1, TimerFacts
  <2>2. timer[a] = "new" /\ timer[b] = "new"
    BY <1>1, <2>1 DEF EagleInv, Fresh
  <2>3. UNCHANGED timer /\ pulse'[o].t3 = "PENDING" /\ pulse'[o].t5 = "PENDING"
    BY <1>1, CatchFacts
  <2>4. QED
    BY <2>2, <2>3 DEF PhaseOf
<1>2. CASE o \in OnTime
  <2> USE DEF EagleInv, Typed
  <2>1. /\ a \in Timers /\ b \in Timers /\ a # b /\ o \in Pulses /\ o \in Born
    BY <1>2, TimersOf
  <2>2. PhaseOf(o)
    BY <1>2 DEF Phases
  <2>3. pulse[o].by \in Eagles
    BY <2>1, EagleAssumption, SMT DEF Candidates, EyesTyped, Eagles
  <2>4. CASE UNCHANGED <<pulse, cands, timer, held>>
    BY <1>2, <2>4, PhaseKept
  <2>5. CASE UNCHANGED vars \/ ScanBegins \/ Watched \/ ScanEnds \/ GetEagle \/ Record
             \/ FlushBegins \/ FlushEnds \/ \E q \in Pulses : RegisterT3(q)
    BY <2>4, <2>5 DEF vars, eyes, clocks, ScanBegins, Watched, ScanEnds, GetEagle, Record,
       FlushBegins, FlushEnds, RegisterT3
  <2>6. ASSUME NEW s \in Symbols, Catch(s) PROVE PhaseOf(o)'
    <3>1. pulse'[o] = pulse[o] /\ UNCHANGED <<timer, held>> /\ born + 1 \notin Born
      BY <2>1, <2>6, CatchFacts
    <3>2. o \in cands'[pulse[o].by] => o \in cands[pulse[o].by]
      BY <2>1, <2>3, <2>6, <3>1, CatchFacts
    <3>3. QED
      BY <1>2, <3>1, <3>2, PhaseKept
  <2>7. ASSUME NEW q \in Pulses, StartT3(q) PROVE PhaseOf(o)'
    <3>1. UNCHANGED <<pulse, cands, held>> /\ timer' = [timer EXCEPT ![<<"t3", q>>] = "waiting"]
          /\ q \in scan.todo /\ scan.pc = "scheduling"
      BY <2>7 DEF StartT3, eyes
    <3>2. timer[<<"t3", q>>] = "new"
      BY <3>1 DEF Scheduled
    <3>3. timer'[b] = timer[b] /\ (o # q => timer'[a] = timer[a]) /\ (o = q => timer'[a] = "waiting")
      BY <2>1, <3>1, TimerFacts DEF ClocksTyped
    <3>4. T3Ahead(o)' => T3Ahead(o)
      BY <3>2, <3>3 DEF T3Ahead
    <3>5. QED
      BY <2>2, <3>1, <3>3, <3>4 DEF PhaseOf, T5Ahead
  <2>8. ASSUME NEW t \in Timers, Fires(t) \/ Outcome(t) PROVE PhaseOf(o)'
    BY <1>2, <2>8, PhasesFires, PhasesOutcome
  <2>9. CASE CancelNext \/ Kill
    <3>1. PICK ts : timer' = Cancelled(ts)
      BY <2>9 DEF CancelNext, Kill
    <3>2. \A t \in {a, b} : timer'[t] = timer[t] \/ (timer[t] = "waiting" /\ timer'[t] = "over")
      BY <2>1, <3>1, CancelledTimers
    <3>3. UNCHANGED <<pulse, cands, held>>
      BY <2>9 DEF CancelNext, Kill, eyes
    <3>4. QED
      BY <1>2, <3>2, <3>3, PhaseKept
  <2>10. CASE CleanupEnds
    <3>1. UNCHANGED <<pulse, timer, held>>
      BY <2>10 DEF CleanupEnds
    <3>2. \A e \in Eagles : cands'[e] \in {cands[e], {}}
      BY <2>10, SMT DEF CleanupEnds, EyesTyped
    <3>3. QED
      BY <1>2, <2>3, <3>1, <3>2, PhaseKept
  <2>11. QED
    BY <2>5, <2>6, <2>7, <2>8, <2>9, <2>10 DEF Next, ScanStep, TimerStep, FlushStep
<1>3. QED
  BY <1>1, <1>2, OnTimeNext

-------------------------------------------------------------------------------
LEMMA WrittenKept ==
    ASSUME EagleInv, NEW o \in OnTime, pulse'[o].t5 = pulse[o].t5, UNCHANGED <<writes, recorded>>
    PROVE  WrittenOf(o)'
<1>1. WrittenOf(o)
  BY DEF EagleInv, Written
<1>2. QED
  BY <1>1 DEF WrittenOf, Unwritten

\* The worker takes the one write of a pulse; there is no other, and no result yet.
LEMMA WrittenRecord ==
    ASSUME EagleInv, Record, NEW o \in OnTime
    PROVE  WrittenOf(o)'
<1> USE DEF EagleInv, Typed
<1> DEFINE w == Head(writes)
           r == [for |-> w.for, as |-> pulse[w.of].t5]
<1>1. WrittenOf(o) /\ o \in Pulses
  BY TimersOf DEF Written
<1>2. writes # <<>> /\ writes' = Tail(writes) /\ UNCHANGED pulse
      /\ recorded' = [recorded EXCEPT ![w.of] = Append(recorded[w.of], r)]
  BY DEF Record, eyes
<1>3. /\ 1 \in 1..Len(writes) /\ w = writes[1]
      /\ \A i \in 1..Len(writes') : i + 1 \in 1..Len(writes) /\ writes'[i] = writes[i + 1]
  BY <1>2, TailWrites
<1>4. \A i \in 1..Len(writes') : i \in Int /\ i >= 1
  OBVIOUS
<1> HIDE DEF w
<1>5. CASE w.of = o
  <2>1. w.for = pulse[o].t5 /\ recorded[o] = <<>> /\ pulse[o].t5 # "PENDING"
    BY <1>1, <1>3, <1>5 DEF WrittenOf, Unwritten
  <2>2. \A i \in 1..Len(writes') : writes'[i].of # o
    <3> SUFFICES ASSUME NEW i \in 1..Len(writes'), writes'[i].of = o PROVE FALSE
      OBVIOUS
    <3>1. i + 1 = 1
      BY <1>1, <1>3, <1>5 DEF WrittenOf
    <3>2. QED
      BY <1>4, <3>1, SMT
  <2>3. recorded'[o] = Append(<<>>, r) /\ r.for = r.as
    BY <1>1, <1>2, <1>5, <2>1 DEF SinksTyped
  <2> HIDE DEF r
  <2>4. recorded'[o] = <<r>>
    BY <2>3
  <2>5. Len(recorded'[o]) = 1 /\ recorded'[o][1] = r
    BY <2>4
  <2>6. \A i \in 1..Len(recorded'[o]) : recorded'[o][i].as = recorded'[o][i].for
    BY <2>3, <2>5
  <2>7. QED
    BY <1>2, <2>1, <2>2, <2>5, <2>6 DEF WrittenOf
<1>6. CASE w.of # o
  <2>1. recorded'[o] = recorded[o]
    BY <1>1, <1>2, <1>6 DEF SinksTyped
  <2>2. Unwritten(o) => Unwritten(o)'
    BY <1>3, <2>1 DEF Unwritten
  <2>3. \A i, j \in 1..Len(writes') : writes'[i].of = o /\ writes'[j].of = o => i = j
    <3> SUFFICES ASSUME NEW i \in 1..Len(writes'), NEW j \in 1..Len(writes'),
                        writes'[i].of = o, writes'[j].of = o
                 PROVE  i = j
      OBVIOUS
    <3>1. i + 1 = j + 1
      BY <1>1, <1>3 DEF WrittenOf
    <3>2. QED
      BY <1>4, <3>1, SMT
  <2>4. \A i \in 1..Len(writes') : writes'[i].of = o =>
           writes'[i].for = pulse[o].t5 /\ recorded[o] = <<>>
    BY <1>1, <1>3 DEF WrittenOf
  <2>5. QED
    BY <1>1, <1>2, <2>1, <2>2, <2>3, <2>4 DEF WrittenOf
<1>7. QED
  BY <1>5, <1>6

\* A verdict is submitted by the callback that decided it, and the pulse was undecided.
LEMMA WrittenOutcome ==
    ASSUME EagleInv, NEW t \in Timers, Outcome(t), NEW o \in OnTime
    PROVE  WrittenOf(o)'
<1> USE DEF EagleInv, Typed
<1>1. WrittenOf(o) /\ o \in Pulses /\ o \in Born
  BY TimersOf DEF Written
<1>2. ASSUME NEW v \in Words, T3Vetoes(t) \/ T5Judges(t), timer[t] = "busy", Submit(held[t], v),
             held[t] = o => pulse'[o].t5 = v, UNCHANGED recorded
      PROVE  WrittenOf(o)'
  <2>1. /\ held[t] \in Pulses
        /\ Len(writes') \in {Len(writes), Len(writes) + 1}
        /\ \A i \in 1..Len(writes) : writes'[i] = writes[i]
        /\ \A i \in 1..Len(writes') : i \in 1..Len(writes)
              \/ (i = Len(writes) + 1 /\ writes'[i].of = held[t] /\ writes'[i].for = v)
    <3>1. held[t] \in Pulses
      BY <1>2, EagleAssumption, SMT DEF Lookups, Born, EyesTyped, Pulses
    <3>2. QED
      BY <1>2, <3>1, SubmitWrites
  <2>2. CASE held[t] = o
    <3>1. pulse[o].t5 = "PENDING"
      <4>1. t \in {<<"t3", o>>, <<"t5", o>>}
        BY <2>2, OwnTimers
      <4>2. QED
        BY <1>2, <4>1 DEF Phases, PhaseOf, T3Ahead, T5Ahead
    <3>2. Unwritten(o)
      BY <1>1, <3>1 DEF WrittenOf
    <3>3. \A i \in 1..Len(writes') : writes'[i].of = o => i = Len(writes) + 1 /\ writes'[i].for = v
      BY <2>1, <3>2 DEF Unwritten
    <3>4. recorded'[o] = <<>> /\ Len(recorded'[o]) = 0
      BY <1>2, <3>2 DEF Unwritten
    <3>5. v # "PENDING"
      BY DEF Words
    <3>6. Len(recorded'[o]) <= 1 /\ \A i \in 1..Len(recorded'[o]) : FALSE
      BY <3>4, SMT
    <3>7. QED
      BY <1>2, <2>2, <3>3, <3>4, <3>5, <3>6 DEF WrittenOf
  <2>3. CASE held[t] # o
    <3>1. pulse'[o] = pulse[o]
      BY <1>1, <2>3, OutcomePulses
    <3>2. \A i \in 1..Len(writes') : writes'[i].of = o => i \in 1..Len(writes) /\ writes'[i] = writes[i]
      BY <2>1, <2>3
    <3>3. Unwritten(o) => Unwritten(o)'
      BY <1>2, <3>2 DEF Unwritten
    <3>4. QED
      BY <1>1, <1>2, <3>1, <3>2, <3>3 DEF WrittenOf
  <2>4. QED
    BY <2>2, <2>3
<1>3. CASE T3Vetoes(t)
  BY <1>1, <1>2, <1>3, OutcomePulses DEF T3Vetoes, Words
<1>4. CASE T5Judges(t)
  <2>1. PICK v \in Verdicts : /\ pulse' = [pulse EXCEPT ![held[t]].t5 = v]
                              /\ Submit(held[t], v) /\ UNCHANGED recorded /\ timer[t] = "busy"
    BY <1>4 DEF T5Judges
  <2>2. held[t] = o => pulse'[o].t5 = v
    BY <1>1, <2>1, SMT DEF PulsesTyped, PulseRecords
  <2>3. v \in Words
    BY EagleAssumption DEF Words
  <2>4. QED
    BY <1>2, <1>4, <2>1, <2>2, <2>3
<1>5. CASE T3Suspects(t) \/ T3Confirms(t) \/ RegisterT5(t)
  <2>1. UNCHANGED <<writes, recorded>>
    BY <1>5 DEF T3Suspects, T3Confirms, RegisterT5, sinks
  <2>2. pulse'[o].t5 = pulse[o].t5
    BY <1>1, <1>5, OutcomePulses
  <2>3. QED
    BY <2>1, <2>2, WrittenKept
<1>6. QED
  BY <1>3, <1>4, <1>5 DEF Outcome

LEMMA WrittenStep == EagleInv /\ [Next]_vars => Written'
<1> SUFFICES ASSUME EagleInv, [Next]_vars, NEW o \in OnTime' PROVE WrittenOf(o)'
  BY DEF Written
<1>1. ASSUME o \in Pulses \ Born, NEW s \in Symbols, Catch(s), o = born + 1 PROVE WrittenOf(o)'
  <2>1. UNCHANGED <<writes, recorded>> /\ pulse'[o].t5 = "PENDING"
    BY <1>1, CatchFacts
  <2>2. recorded[o] = <<>> /\ \A i \in 1..Len(writes) : writes[i].of # o
    BY <1>1 DEF EagleInv, Fresh
  <2>3. Len(recorded[o]) <= 1 /\ \A i \in 1..Len(recorded[o]) : FALSE
    BY <2>2, SMT
  <2>4. QED
    BY <2>1, <2>2, <2>3 DEF WrittenOf, Unwritten
<1>2. CASE o \in OnTime
  <2>1. ASSUME NEW s \in Symbols, Catch(s) PROVE WrittenOf(o)'
    BY <1>2, <2>1, CatchFacts, TimersOf, WrittenKept
  <2>2. ASSUME NEW t \in Timers, Fires(t) \/ Outcome(t) PROVE WrittenOf(o)'
    BY <1>2, <2>2, FiresFacts, WrittenKept, WrittenOutcome DEF EagleInv, Typed
  <2>3. CASE Record
    BY <1>2, <2>3, WrittenRecord
  <2>4. CASE UNCHANGED vars \/ ScanBegins \/ ScanStep \/ FlushBegins \/ FlushStep
    <3>1. UNCHANGED <<pulse, writes, recorded>>
      BY <2>4 DEF vars, eyes, sinks, ScanBegins, ScanStep, GetEagle, Watched, StartT3, RegisterT3,
         ScanEnds, FlushBegins, FlushStep, CancelNext, CleanupEnds, Kill, FlushEnds
    <3>2. QED
      BY <1>2, <3>1, WrittenKept
  <2>5. QED
    BY <2>1, <2>2, <2>3, <2>4 DEF Next, TimerStep
<1>3. QED
  BY <1>1, <1>2, OnTimeNext

-------------------------------------------------------------------------------
LEMMA EagleInit == Init => EagleInv
<1> SUFFICES ASSUME Init PROVE EagleInv
  OBVIOUS
<1>1. Typed
  BY TypedInit
<1>2. Born = {}
  BY SMT DEF Init, Born
<1>3. OnTime = {}
  BY <1>2 DEF OnTime
<1>4. Fresh
  <2>1. \A t \in Timers : timer[t] = "new"
    BY DEF Init
  <2>2. \A e \in Eagles : active[e] = {}
    BY DEF Init
  <2>3. \A i \in 1..Len(writes) : FALSE
    BY SMT DEF Init
  <2>4. \A o \in Pulses : recorded[o] = <<>>
    BY DEF Init
  <2>5. QED
    BY <2>1, <2>2, <2>3, <2>4 DEF Fresh
<1>5. Names
  BY DEF Init, Names
<1>6. Singles
  BY SMT DEF Init, Singles, NoFlush
<1>7. Scanning /\ Scheduled
  BY SMT DEF Init, Scanning, Scheduled, NoScan
<1>8. Candidates
  BY <1>2 DEF Init, Candidates
<1>9. Lookups
  BY <1>3 DEF Init, Lookups
<1>10. OneEach /\ Phases /\ Written
  BY <1>3 DEF OneEach, Phases, Written
<1>11. QED
  BY <1>1, <1>4, <1>5, <1>6, <1>7, <1>8, <1>9, <1>10 DEF EagleInv

LEMMA EagleStep == EagleInv /\ [Next]_vars => EagleInv'
BY TypedStep, FreshStep, NamesStep, SinglesStep, ScanningStep, ScheduledStep, CandidatesStep,
   OneEachStep, LookupsStep, PhasesStep, WrittenStep DEF EagleInv

\* The inductive invariant: pulses are found by symbol in a dictionary that a flush clears
\* and another thread fills, so what a callback finds has to be traced to its own pulse.
THEOREM EagleInvariant == Spec => []EagleInv
BY EagleInit, EagleStep, PTL DEF Spec

LEMMA EagleTypes == EagleInv => TypeOK
<1> SUFFICES ASSUME EagleInv PROVE TypeOK
  OBVIOUS
<1> USE DEF EagleInv, Typed
<1>1. eagle \in 0..made /\ made \in 0..Cardinality(Eagles) /\ born \in 0..MaxPulses
  BY CardinalityEagles DEF EyesTyped
<1>2. cands \in [Eagles -> SUBSET (1..born)] /\ active \in [Eagles -> SUBSET Timers]
  BY DEF EyesTyped, ClocksTyped, Born
<1>3. \A e \in Eagles, t, u \in Timers :
         {t, u} \subseteq active[e] /\ t[1] = u[1] /\ SymOf(t) = SymOf(u) => t = u
  BY DEF Names
<1>4. scan.by \in 0..made /\ scan.todo \subseteq 1..born /\ scans \in 0..MaxScans
      /\ scan.pc \in {"off", "entering", "watching", "scheduling", "registering"}
  BY SMT DEF ScanTyped, Born
<1>5. DOMAIN recorded = Pulses
  BY DEF SinksTyped
<1>6. QED
  BY <1>1, <1>2, <1>3, <1>4, <1>5 DEF TypeOK, PulsesTyped, ClocksTyped, FlushTyped

\* The state of the scan, the timers and the flush has its types, and a name of
\* _active_timers stands for one timer however scans and callbacks register theirs.
THEOREM EagleTypeCorrect == Spec => []TypeOK
BY EagleInvariant, EagleTypes, PTL

\* Two-phase review (eagle_eye.py:71), for any watchlist and any number of pulses, scans and
\* flushes: a pulse caught outside a flush is judged by the cloud only after T+3 confirmed it,
\* or vetoed by T+3, and its result is recorded at most once, as it was decided.
THEOREM JudgedInTurn == Spec => []InTurn
<1>1. EagleInv => InTurn
  <2> SUFFICES ASSUME EagleInv, NEW o \in 1..born, ~pulse[o].late
               PROVE  /\ pulse[o].t5 # "PENDING" =>
                            \/ pulse[o].t3 = "CONFIRM"
                            \/ pulse[o].t3 = "SUSPECT" /\ pulse[o].t5 = "VETO"
                      /\ Len(recorded[o]) <= 1
                      /\ \A i \in 1..Len(recorded[o]) : recorded[o][i].as = recorded[o][i].for
    BY EagleTypes DEF InTurn
  <2>1. o \in OnTime
    BY DEF OnTime, Born
  <2>2. QED
    BY <2>1 DEF EagleInv, Phases, PhaseOf, Written, WrittenOf
<1>2. QED
  BY <1>1, EagleInvariant, PTL
=================================================================================
