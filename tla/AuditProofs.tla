------------------------------ MODULE AuditProofs -------------------------------
(***************************************************************************)
(* What holds of the audit engine for any number of candidates, of runs of *)
(* a date, and of exceptions, deaths and torn state files: a completed run *)
(* is closed, a run that is DONE keeps its verdicts, and DONE without a    *)
(* row means that L1 found nobody.  What holds of the cloud court, for     *)
(* every set of replies, weights and sentiments, is the second part.       *)
(***************************************************************************)
EXTENDS AuditRun, CloudCourt, TLAPS

\* The results of L3 come from L3, and the court is asked about nothing else.
WellFormed(results) == \A c \in Cands : results[c] = NoResult \/ results[c].kind \in Kinds
Hearable == {c \in Cands : live[c].kind \in {"open", "downgraded"}}

Held ==
    /\ hpc = "ruled" => hverdict # "NONE"
    /\ WellFormed(live) /\ WellFormed(file.l3)
    /\ epc \in {"L4", "court"} => todo \subseteq Hearable
    /\ epc \in {"rejecting", "court"} => cur \in Cands
    /\ epc = "off" => live = NoResults
    /\ epc \in {"off", "L1"} => acc = {}

\* The engine works on the run of the state file, at the stage of the state file; the
\* daemon has no run but the one its child works on or has ended; the file says
\* COMPLETED of the runs that are, and carries what L1 of its run found.
Stage(s) == CASE s = "rejecting" -> "L2" [] s \in {"gate", "court"} -> "L4" [] OTHER -> s

Placed ==
    /\ who = "daemon" => drun = st.run /\ code = "none"
    /\ drun = 0 => code = "none"
    /\ file.run \in 0..runs
    /\ file.run = 0 => file \in {Blank, Torn}
    /\ file.phase = "TORN" => file.run = 0
    /\ epc # "off" => st = file /\ st.run # 0 /\ st.phase = Stage(epc)
    /\ file.run \in completed <=> file.phase = "COMPLETED"
    /\ file.run # 0 /\ file.phase # "L1" => file.cands = entered[file.run]

\* What L2 passed has its row, and a row that is final has its verdict.
Registered ==
    /\ epc \in {"L2", "rejecting"} => acc \subseteq RowsOf(st.run)
    /\ epc = "L3" => todo \subseteq RowsOf(st.run)
    /\ file.phase = "L3" => file.l2 \subseteq RowsOf(file.run)
    /\ \A r \in Runs, c \in Cands :
          rows[r][c].status \in {"TERMINAL", "L4_DONE"} => rows[r][c].verdict # "NONE"

\* A run that the daemon's child ended well, or that the daemon has judged DONE, is
\* resumed after L2 if at all.
Passed(r) == outcome[r] = "DONE" \/ (r = drun /\ code = "ok")
PastL2 ==
    /\ \A r \in Runs : Passed(r) /\ file.run = r => file.phase \in {"L3", "L4", "COMPLETED"}
    /\ \A r \in Runs : outcome[r] = "DONE" => r <= runs

Verdicted ==
    \A r \in Runs : outcome[r] = "DONE" =>
       \A c \in RowsOf(r) : rows[r][c].verdict # "NONE" /\ rows[r][c].status # "L2_DONE"

\* DONE without a row is the word of a completed run.
Empty ==
    \A r \in Runs : outcome[r] = "DONE" /\ RowsOf(r) = {} => r \in completed /\ entered[r] = {}

AuditInv ==
    /\ TypeOK /\ Held /\ Placed /\ Registered
    /\ PastL2 /\ Verdicted /\ Empty

-------------------------------------------------------------------------------
(* Rows, results and state files keep their form. *)

LEMMA RowForms ==
    /\ NoRow \in Row
    /\ \A old \in Row, status \in {"L2_DONE", "L3_DONE", "TERMINAL", "L4_DONE"},
          v \in Verdicts \union {"NONE"} :
          /\ Merged(old, status, v) \in Row
          /\ Merged(old, status, v) # NoRow
BY DEF Row, NoRow, Statuses, Verdicts, Merged

LEMMA MergedParts ==
    \A old, status, v :
       /\ Merged(old, status, v).status = IF old.status = "L4_DONE" THEN "L4_DONE" ELSE status
       /\ Merged(old, status, v).verdict = IF v = "NONE" THEN old.verdict ELSE v
BY DEF Merged

LEMMA NoResultsForm == NoResults \in [Cands -> Results] /\ WellFormed(NoResults)
BY DEF NoResults, NoResult, Results, WellFormed

LEMMA ResultForms ==
    ASSUME NEW results \in [Cands -> Results], WellFormed(results)
    PROVE  Snapshot(results) \in [Cands -> Results] /\ WellFormed(Snapshot(results))
<1>1. ASSUME NEW c \in Cands
      PROVE  /\ Snapshot(results)[c] \in Results
             /\ Snapshot(results)[c] = NoResult \/ Snapshot(results)[c].kind \in Kinds
  <2>1. results[c] \in Results /\ (results[c] = NoResult \/ results[c].kind \in Kinds)
    BY DEF WellFormed
  <2>. QED BY <2>1 DEF Snapshot, Results, NoResult
<1>. QED BY <1>1 DEF Snapshot, WellFormed

LEMMA AuditForms ==
    ASSUME NEW results \in [Cands -> Results], WellFormed(results), NEW c \in Cands,
           flow \in [Cands -> Flows], NEW res \in ResultsOf(c)
    PROVE  /\ [results EXCEPT ![c] = res] \in [Cands -> Results]
           /\ WellFormed([results EXCEPT ![c] = res])
<1>1. res \in Results /\ res.kind \in Kinds
  BY AuditAssumption DEF ResultsOf, Results
<1>. QED BY <1>1 DEF WellFormed

LEMMA BlankForm == Blank \in States /\ Torn \in States /\ WellFormed(Blank.l3) /\ WellFormed(Torn.l3)
<1>1. {} = 1..0 /\ 0 \in 0..N /\ 0 \in 0..MaxRuns
  BY AuditAssumption
<1>. QED BY <1>1, NoResultsForm DEF Blank, Torn, States

LEMMA StateForms ==
    ASSUME NEW s \in States
    PROVE  /\ \A r \in 0..MaxRuns : [Blank EXCEPT !.run = r] \in States
           /\ \A n \in 0..N, clean \in BOOLEAN :
                 [s EXCEPT !.cands = 1..n, !.clean = clean, !.phase = "L2"] \in States
           /\ \A l2 \in SUBSET Cands : [s EXCEPT !.l2 = l2, !.phase = "L3"] \in States
           /\ \A l3 \in [Cands -> Results] : [s EXCEPT !.l3 = l3, !.phase = "L4"] \in States
           /\ [s EXCEPT !.phase = "COMPLETED"] \in States
<1>1. Blank \in States
  BY BlankForm
<1>. QED BY <1>1 DEF States

-------------------------------------------------------------------------------
(* Types. *)

LEMMA TypesInitially == Init => TypeOK /\ Held
<1>. SUFFICES ASSUME Init PROVE TypeOK /\ Held
  OBVIOUS
<1>1. hbrief \in Briefs /\ hpc = "idle" /\ hverdict = "NONE"
  BY DEF Init, Closed, NoBrief, Briefs
<1>2. file \in States /\ st \in States /\ WellFormed(file.l3)
  BY BlankForm DEF Init
<1>3. live \in [Cands -> Results] /\ WellFormed(live)
  BY NoResultsForm DEF Init
<1>4. rows \in [Runs -> [Cands -> Row]]
  BY RowForms DEF Init
<1>5. runs \in 0..MaxRuns /\ drun \in 0..runs /\ faults \in 0..MaxFaults /\ completed \subseteq 1..runs
  BY AuditAssumption DEF Init
<1>6. /\ flow \in [Cands -> Flows] /\ entered \in [Runs -> SUBSET Cands]
      /\ outcome \in [Runs -> {"NONE", "IN_PROGRESS", "DONE", "FAILED"}]
  BY DEF Init
<1>7. /\ epc = "off" /\ who = "none" /\ todo = {} /\ cur = Nobody /\ acc = {} /\ timeUp = FALSE
      /\ code = "none" /\ live = NoResults
  BY DEF Init
<1>. QED BY <1>1, <1>2, <1>3, <1>4, <1>5, <1>6, <1>7 DEF TypeOK, Held

\* A step leaves the parts of the state it does not name.
LEMMA TypesStart ==
    ASSUME TypeOK, Held, Placed, DaemonStarts \/ CliStarts
    PROVE  TypeOK' /\ Held'
<1>1. ASSUME NEW w \in {"daemon", "cli"}, NEW s \in States, WellFormed(s.l3), Begin(w, s),
             s.phase \in {"L1", "L2", "L3", "L4"}
      PROVE  /\ epc' \in {"L1", "L2", "L3", "gate"} /\ who' = w
             /\ todo' \subseteq Cands
  <2>1. s.cands \subseteq Cands /\ s.l2 \subseteq Cands
    BY <1>1, AuditAssumption DEF States, Cands
  <2>. QED BY <1>1, <2>1 DEF Begin
<1>2. ASSUME NEW w \in {"daemon", "cli"}, Fresh(w)
      PROVE  /\ epc' \in {"L1", "L2", "L3", "gate"} /\ who' = w
             /\ todo' \subseteq Cands /\ runs' = runs + 1 /\ runs' \in 0..MaxRuns
             /\ file' \in States /\ st' \in States /\ WellFormed(file'.l3)
  <2>. DEFINE s == [Blank EXCEPT !.run = NewRun]
  <2>1. NewRun \in 0..MaxRuns /\ runs' = runs + 1 /\ NewRun = runs + 1
    BY <1>2, AuditAssumption DEF Fresh, NewRun, TypeOK
  <2>2. s \in States /\ WellFormed(s.l3) /\ s.phase = "L1"
    BY <2>1, BlankForm, StateForms DEF Blank
  <2>3. st' = s /\ file' = s /\ Begin(w, s)
    BY <1>2 DEF Fresh, SaveState
  <2>. HIDE DEF s
  <2>. QED BY <1>1, <2>1, <2>2, <2>3
<1>3. epc = "off" /\ hpc = "idle"
  BY DEF DaemonStarts, CliStarts, TypeOK
<1>4. UNCHANGED <<hearing, rows, cur, acc, live, timeUp, code, flow, history, faults>>
  BY DEF DaemonStarts, CliStarts, daemon
<1>5. CASE DaemonStarts
  <2>1. drun' = NewRun /\ outcome' = [outcome EXCEPT ![NewRun] = "IN_PROGRESS"] /\ Fresh("daemon")
    BY <1>5 DEF DaemonStarts
  <2>2. NewRun = runs + 1
    BY DEF NewRun
  <2>3. drun' \in 0..runs' /\ outcome' \in [Runs -> {"NONE", "IN_PROGRESS", "DONE", "FAILED"}]
    <3>1. runs' = runs + 1 /\ drun' = runs' /\ runs' \in Nat
      BY <1>2, <2>1, <2>2, AuditAssumption
    <3>2. drun' \in 0..runs'
      BY <3>1
    <3>3. outcome \in [Runs -> {"NONE", "IN_PROGRESS", "DONE", "FAILED"}]
      BY DEF TypeOK
    <3>. QED BY <2>1, <3>2, <3>3
  <2>4. completed' \subseteq 1..runs'
    BY <1>2, <1>4, <2>1 DEF TypeOK, history
  <2>. QED BY <1>2, <1>3, <1>4, <2>1, <2>3, <2>4 DEF TypeOK, Held, hearing, history, WellFormed
<1>6. CASE CliStarts /\ Fresh("cli")
  <2>1. UNCHANGED daemon
    BY <1>6 DEF CliStarts
  <2>. QED BY <1>2, <1>3, <1>4, <1>6, <2>1 DEF TypeOK, Held, hearing, history, daemon, WellFormed
<1>7. CASE CliStarts /\ ~Fresh("cli")
  <2>1. CanResume /\ st' = Loaded /\ Begin("cli", Loaded) /\ UNCHANGED <<file, runs, daemon>>
    BY <1>7 DEF CliStarts
  <2>2. Loaded = file /\ file \in States /\ WellFormed(file.l3) /\ file.phase # "COMPLETED"
        /\ file.phase # "TORN"
    BY <2>1 DEF CanResume, Loaded, Blank, TypeOK, Held
  <2>3. file.phase \in {"L1", "L2", "L3", "L4"}
    BY <2>2 DEF States
  <2>. QED BY <1>1, <1>3, <1>4, <2>1, <2>2, <2>3 DEF TypeOK, Held, hearing, history, daemon, WellFormed
<1>. QED BY <1>5, <1>6, <1>7

\* The process ends.
LEMMA TypesExit ==
    ASSUME TypeOK, Held, NEW CONSTANT status, status \in {"ok", "bad"}, Exit(status),
           hpc' = "idle", hbrief' \in Briefs, hverdict' \in Verdicts \union {"NONE"},
           file' \in States, WellFormed(file'.l3), rows' = rows, faults' \in 0..MaxFaults,
           completed' \subseteq 1..runs, UNCHANGED <<drun, outcome, runs, flow, entered>>
    PROVE  TypeOK' /\ Held'
<1>1. /\ epc' = "off" /\ who' = "none" /\ st' = Blank /\ todo' = {} /\ cur' = Nobody /\ acc' = {}
      /\ live' = NoResults /\ timeUp' = FALSE /\ code' \in {code, status}
  BY DEF Exit
<1>2. st' \in States /\ live' \in [Cands -> Results] /\ WellFormed(live')
  BY <1>1, BlankForm, NoResultsForm
<1>. QED BY <1>1, <1>2 DEF TypeOK, Held, WellFormed

LEMMA TypesL2 ==
    ASSUME TypeOK, Held, Placed,
           L1 \/ L2Reject \/ L2End \/ \E c \in Cands : L2Audit(c) \/ L2Fails(c)
    PROVE  TypeOK' /\ Held'
<1>1. ASSUME NEW c \in Cands, NEW status \in {"L2_DONE", "L3_DONE", "TERMINAL", "L4_DONE"},
             NEW v \in Verdicts \union {"NONE"}, Save(c, status, v)
      PROVE  rows' \in [Runs -> [Cands -> Row]]
  BY <1>1, RowForms DEF Save, TypeOK
<1>2. Faulty => faults' \in 0..MaxFaults
  BY AuditAssumption DEF Faulty, TypeOK
<1>3. CASE L1
  <2>1. PICK n \in 0..N, clean \in BOOLEAN :
            /\ SaveState([st EXCEPT !.cands = 1..n, !.clean = clean, !.phase = "L2"])
            /\ todo' = 1..n
            /\ entered' = [entered EXCEPT ![st.run] = 1..n]
    BY <1>3 DEF L1
  <2>2. st' \in States /\ file' = st' /\ st'.l3 = file.l3
    <3>1. st \in States /\ st = file
      BY <1>3 DEF TypeOK, Placed, L1
    <3>2. st' = [st EXCEPT !.cands = 1..n, !.clean = clean, !.phase = "L2"] /\ file' = st'
      BY <2>1 DEF SaveState
    <3>3. st'.l3 = st.l3
      BY <3>1, <3>2 DEF States
    <3>. QED BY <3>1, <3>2, <3>3, StateForms
  <2>3. 1..n \subseteq Cands
    BY AuditAssumption DEF Cands
  <2>4. entered' \in [Runs -> SUBSET Cands]
    BY <2>1, <2>3 DEF TypeOK
  <2>. QED BY <1>3, <2>1, <2>2, <2>3, <2>4 DEF L1, TypeOK, Held, hearing, daemon, WellFormed
<1>4. CASE L2Reject
  <2>1. rows' \in [Runs -> [Cands -> Row]]
    BY <1>1, <1>4 DEF L2Reject, Held, Verdicts
  <2>. QED BY <1>4, <2>1 DEF L2Reject, TypeOK, Held, hearing, daemon, history, WellFormed
<1>5. ASSUME NEW c \in Cands, L2Audit(c) PROVE TypeOK' /\ Held'
  <2>1. rows' \in [Runs -> [Cands -> Row]]
    BY <1>1, <1>5 DEF L2Audit
  <2>. QED BY <1>5, <2>1 DEF L2Audit, Next1, TypeOK, Held, hearing, daemon, history, WellFormed
<1>6. ASSUME NEW c \in Cands, L2Fails(c) PROVE TypeOK' /\ Held'
  <2>1. rows' \in [Runs -> [Cands -> Row]]
    BY <1>1, <1>6 DEF L2Fails, Verdicts
  <2>. QED BY <1>2, <1>6, <2>1 DEF L2Fails, Next1, TypeOK, Held, hearing, daemon, history, WellFormed
<1>7. CASE L2End
  <2>. DEFINE s == [st EXCEPT !.l2 = acc, !.phase = "L3"]
  <2>1. s \in States /\ WellFormed(s.l3)
    <3>1. st \in States /\ acc \in SUBSET Cands /\ st = file
      BY <1>7 DEF TypeOK, L2End, Placed
    <3>. QED BY <3>1, StateForms DEF Held, States
  <2>2. file' = s
    BY <1>7 DEF L2End
  <2>. HIDE DEF s
  <2>3. CASE Cut /\ Exit("ok")
    <3>1. /\ hpc' = "idle" /\ hbrief' \in Briefs /\ hverdict' \in Verdicts \union {"NONE"}
          /\ faults' \in 0..MaxFaults /\ completed' \subseteq 1..runs
          /\ rows' = rows /\ UNCHANGED <<drun, outcome, runs, flow, entered>>
      BY <1>7 DEF L2End, TypeOK, hearing, history
    <3>. QED BY <2>1, <2>2, <2>3, <3>1, TypesExit
  <2>4. CASE ~Cut
    <3>1. st' = s /\ epc' = "L3" /\ todo' = acc /\ acc' = {} /\ UNCHANGED <<who, cur, live, timeUp, code>>
      BY <1>7, <2>4 DEF L2End, s
    <3>. QED BY <1>7, <2>1, <2>2, <3>1 DEF L2End, TypeOK, Held, hearing, history, WellFormed
  <2>. QED BY <1>7, <2>3, <2>4 DEF L2End
<1>. QED BY <1>3, <1>4, <1>5, <1>6, <1>7

LEMMA TypesL3 ==
    ASSUME TypeOK, Held, Placed, L3End \/ Gate \/ \E c \in Cands : L3Audit(c) \/ L3Fails(c)
    PROVE  TypeOK' /\ Held'
<1>1. ASSUME NEW c \in Cands, NEW status \in {"L3_DONE", "TERMINAL"},
             NEW v \in Verdicts \union {"NONE"}, Save(c, status, v)
      PROVE  rows' \in [Runs -> [Cands -> Row]]
  BY <1>1, RowForms DEF Save, TypeOK
<1>2. Faulty => faults' \in 0..MaxFaults
  BY AuditAssumption DEF Faulty, TypeOK
<1>3. \A c \in Cands : \A res \in ResultsOf(c) :
          /\ [live EXCEPT ![c] = res] \in [Cands -> Results]
          /\ WellFormed([live EXCEPT ![c] = res])
  BY AuditForms DEF TypeOK, Held
<1>4. ASSUME NEW c \in Cands, L3Audit(c) PROVE TypeOK' /\ Held'
  <2>1. rows' \in [Runs -> [Cands -> Row]]
    BY <1>1, <1>4 DEF L3Audit
  <2>2. live' \in [Cands -> Results] /\ WellFormed(live')
    BY <1>3, <1>4 DEF L3Audit
  <2>. QED BY <1>4, <2>1, <2>2 DEF L3Audit, Next1, TypeOK, Held, hearing, daemon, history, WellFormed
<1>5. ASSUME NEW c \in Cands, L3Fails(c) PROVE TypeOK' /\ Held'
  <2>1. rows' \in [Runs -> [Cands -> Row]]
    BY <1>1, <1>5 DEF L3Fails, Verdicts
  <2>2. live' \in [Cands -> Results] /\ WellFormed(live')
    BY <1>3, <1>5 DEF L3Fails, TypeOK, Held, WellFormed
  <2>. QED
    BY <1>2, <1>5, <2>1, <2>2 DEF L3Fails, Next1, TypeOK, Held, hearing, daemon, history, WellFormed
<1>6. CASE L3End
  <2>. DEFINE s == [st EXCEPT !.l3 = Snapshot(live), !.phase = "L4"]
  <2>1. s \in States /\ WellFormed(s.l3)
    <3>1. st \in States /\ Snapshot(live) \in [Cands -> Results] /\ WellFormed(Snapshot(live))
      BY ResultForms DEF TypeOK, Held
    <3>2. s.l3 = Snapshot(live)
      BY <3>1 DEF States
    <3>. QED BY <3>1, <3>2, StateForms
  <2>2. file' = s
    BY <1>6 DEF L3End
  <2>. HIDE DEF s
  <2>3. CASE Cut /\ Exit("ok")
    <3>1. /\ hpc' = "idle" /\ hbrief' \in Briefs /\ hverdict' \in Verdicts \union {"NONE"}
          /\ faults' \in 0..MaxFaults /\ completed' \subseteq 1..runs
          /\ rows' = rows /\ UNCHANGED <<drun, outcome, runs, flow, entered>>
      BY <1>6 DEF L3End, TypeOK, hearing, history
    <3>. QED BY <2>1, <2>2, <2>3, <3>1, TypesExit
  <2>4. CASE ~Cut
    <3>1. st' = s /\ epc' = "gate" /\ UNCHANGED <<who, todo, cur, acc, live, timeUp, code>>
      BY <1>6, <2>4 DEF L3End, s
    <3>. QED BY <1>6, <2>1, <2>2, <3>1 DEF L3End, TypeOK, Held, hearing, history, WellFormed
  <2>. QED BY <1>6, <2>3, <2>4 DEF L3End
<1>7. CASE Gate
  <2>1. PICK results \in {live, st.l3} : \E lost \in SUBSET Cands :
            /\ IF lost = {} THEN UNCHANGED faults ELSE Faulty
            /\ rows' = [rows EXCEPT ![st.run] = [c \in Cands |->
                           IF c \in {d \in Cands : results[d].kind = "reject"} \ lost
                           THEN Merged(@[c], "TERMINAL", "VETO") ELSE @[c]]]
            /\ todo' = Audited(results) \ {d \in Cands : results[d].kind = "reject"}
            /\ live' = results
    BY <1>7 DEF Gate
  <2>2. results \in [Cands -> Results] /\ WellFormed(results)
    BY <1>7 DEF Gate, Placed, TypeOK, Held, States
  <2>3. rows' \in [Runs -> [Cands -> Row]]
    <3>1. st.run \in Runs
      BY <1>7, AuditAssumption DEF Gate, Placed, TypeOK, Runs
    <3>2. \A c \in Cands : /\ rows[st.run][c] \in Row
                            /\ Merged(rows[st.run][c], "TERMINAL", "VETO") \in Row
      BY <3>1, RowForms DEF TypeOK, Verdicts
    <3>3. rows \in [Runs -> [Cands -> Row]]
      BY DEF TypeOK
    <3>4. PICK lost : rows' = [rows EXCEPT ![st.run] = [c \in Cands |->
                           IF c \in {d \in Cands : results[d].kind = "reject"} \ lost
                           THEN Merged(rows[st.run][c], "TERMINAL", "VETO") ELSE rows[st.run][c]]]
      BY <2>1, <3>1, <3>3
    <3>. DEFINE f == [c \in Cands |-> IF c \in {d \in Cands : results[d].kind = "reject"} \ lost
                           THEN Merged(rows[st.run][c], "TERMINAL", "VETO") ELSE rows[st.run][c]]
    <3>5. f \in [Cands -> Row]
      BY <3>2
    <3>6. rows' = [rows EXCEPT ![st.run] = f]
      BY <3>4
    <3>. HIDE DEF f
    <3>. QED BY <3>3, <3>5, <3>6
  <2>4. faults' \in 0..MaxFaults
    BY <1>2, <2>1 DEF TypeOK
  <2>5. todo' \subseteq {c \in Cands : results[c].kind \in {"open", "downgraded"}}
    BY <2>1, <2>2, AuditAssumption DEF Audited, WellFormed
  <2>. QED
    BY <1>7, <2>1, <2>2, <2>3, <2>4, <2>5
       DEF Gate, TypeOK, Held, hearing, daemon, history, WellFormed, Hearable
<1>. QED BY <1>4, <1>5, <1>6, <1>7

LEMMA TypesL4 ==
    ASSUME TypeOK, Held, Placed, L4Done \/ L4Skips \/ L4End \/ \E c \in Cands : L4Call(c)
    PROVE  TypeOK' /\ Held'
<1>1. Faulty => faults' \in 0..MaxFaults
  BY AuditAssumption DEF Faulty, TypeOK
<1>2. Close => hpc' = "idle" /\ hbrief' \in Briefs /\ hverdict' = "NONE"
  BY DEF Close, NoBrief, Briefs
<1>3. ASSUME NEW c \in Cands, L4Call(c) PROVE TypeOK' /\ Held'
  <2>1. live[c] \in Briefs
    <3>1. live[c] \in Results /\ live[c].kind \in {"open", "downgraded"}
      BY <1>3 DEF L4Call, TypeOK, Held, Hearable
    <3>. QED BY <3>1 DEF Results, Briefs
  <2>2. /\ hbrief' \in Briefs /\ hpc' \in {"sitting", "ruled"}
        /\ hverdict' \in Verdicts \union {"NONE"} /\ (hpc' = "ruled" => hverdict' # "NONE")
    BY <1>3, <2>1 DEF L4Call, Open, Verdicts
  <2>. QED BY <1>3, <2>2 DEF L4Call, TypeOK, Held, daemon, history, WellFormed, Hearable
<1>4. CASE L4Done
  <2>1. rows' \in [Runs -> [Cands -> Row]]
    BY <1>4, RowForms DEF L4Done, Save, TypeOK, Held
  <2>. QED BY <1>2, <1>4, <2>1 DEF L4Done, TypeOK, Held, daemon, history, WellFormed, Hearable
<1>5. CASE L4Skips
  BY <1>1, <1>2, <1>5 DEF L4Skips, TypeOK, Held, daemon, history, WellFormed, Hearable
<1>6. CASE L4End
  <2>1. file' \in States /\ WellFormed(file'.l3)
    <3>1. st \in States /\ st = file
      BY <1>6 DEF L4End, TypeOK, Placed
    <3>2. [st EXCEPT !.phase = "COMPLETED"].l3 = st.l3
      BY <3>1 DEF States
    <3>. QED BY <1>6, <3>1, <3>2, StateForms DEF L4End, TypeOK, Held
  <2>2. completed' \subseteq 1..runs
    <3>1. st.run \in 1..runs
      BY <1>6 DEF L4End, Placed, TypeOK
    <3>. QED BY <1>6, <3>1 DEF L4End, TypeOK
  <2>3. /\ hpc' = "idle" /\ hbrief' \in Briefs /\ hverdict' \in Verdicts \union {"NONE"}
        /\ faults' \in 0..MaxFaults /\ rows' = rows
        /\ UNCHANGED <<drun, outcome, runs, flow, entered>> /\ Exit("ok")
    BY <1>6 DEF L4End, TypeOK, hearing
  <2>. QED BY <2>1, <2>2, <2>3, TypesExit
<1>. QED BY <1>3, <1>4, <1>5, <1>6

LEMMA TypesEnd ==
    ASSUME TypeOK, Held, Placed, Dies \/ Kills
    PROVE  TypeOK' /\ Held'
<1>1. hpc' = "idle" /\ hbrief' \in Briefs /\ hverdict' \in Verdicts \union {"NONE"}
  BY DEF Dies, Kills, Close, NoBrief, Briefs
<1>2. faults' \in 0..MaxFaults
  BY AuditAssumption DEF Dies, Kills, Faulty, TypeOK
<1>3. file' \in States /\ WellFormed(file'.l3)
  BY BlankForm DEF Dies, Kills, TypeOK, Held
<1>4. completed' \subseteq 1..runs /\ rows' = rows /\ UNCHANGED <<drun, outcome, runs, flow, entered>>
  BY DEF Dies, Kills, history, TypeOK
<1>5. Exit("bad")
  BY DEF Dies, Kills
<1>. QED BY <1>1, <1>2, <1>3, <1>4, <1>5, TypesExit

LEMMA TypesStep ==
    ASSUME TypeOK, Held, Placed, [Next]_vars
    PROVE  TypeOK' /\ Held'
<1>1. CASE TimeUp
  BY <1>1 DEF TimeUp, TypeOK, Held, hearing, daemon, history, WellFormed, Hearable
<1>2. CASE Concludes
  <2>1. /\ outcome' \in [Runs -> {"NONE", "IN_PROGRESS", "DONE", "FAILED"}]
        /\ drun' = 0 /\ code' = "none" /\ drun' \in 0..runs
    <3>1. runs \in Nat
      BY AuditAssumption DEF TypeOK
    <3>2. outcome \in [Runs -> {"NONE", "IN_PROGRESS", "DONE", "FAILED"}]
      BY DEF TypeOK
    <3>3. drun' = 0 /\ code' = "none"
      BY <1>2 DEF Concludes
    <3>4. outcome' \in [Runs -> {"NONE", "IN_PROGRESS", "DONE", "FAILED"}]
      BY <1>2, <3>2 DEF Concludes
    <3>. QED BY <3>1, <3>3, <3>4
  <2>. QED BY <1>2, <2>1 DEF Concludes, TypeOK, Held, hearing, engine, history, WellFormed, Hearable
<1>3. CASE (Stall \/ Resume \/ Decide) /\ UNCHANGED <<rows, file, engine, daemon, runs, flow, history, faults>>
  <2>1. /\ hpc' # "idle" /\ hpc # "idle" /\ hpc' \in {"sitting", "paused", "ruled"}
        /\ hbrief' = hbrief /\ hverdict' \in Verdicts \union {"NONE"}
        /\ (hpc' = "ruled" => hverdict' # "NONE")
    BY <1>3 DEF Stall, Resume, Decide, Envelope, Verdicts, TypeOK
  <2>. QED BY <1>3, <2>1 DEF TypeOK, Held, engine, daemon, history, WellFormed, Hearable
<1>4. CASE UNCHANGED vars
  BY <1>4 DEF vars, TypeOK, Held, hearing, engine, daemon, history, WellFormed, Hearable
<1>. QED
  BY <1>1, <1>2, <1>3, <1>4, TypesStart, TypesL2, TypesL3, TypesL4, TypesEnd DEF Next, EngineStep

-------------------------------------------------------------------------------
(* Where the engine is. *)

LEMMA RecordParts ==
    ASSUME NEW s \in States
    PROVE  /\ \A r \in 0..MaxRuns : LET b == [Blank EXCEPT !.run = r] IN
                 b.run = r /\ b.phase = "L1" /\ b.l2 = {} /\ b.l3 = NoResults
           /\ \A n \in 0..N, clean \in BOOLEAN :
                 LET b == [s EXCEPT !.cands = 1..n, !.clean = clean, !.phase = "L2"] IN
                 b.run = s.run /\ b.phase = "L2" /\ b.cands = 1..n
           /\ \A l2 : LET b == [s EXCEPT !.l2 = l2, !.phase = "L3"] IN
                 b.run = s.run /\ b.phase = "L3" /\ b.cands = s.cands /\ b.l2 = l2
           /\ \A l3 : LET b == [s EXCEPT !.l3 = l3, !.phase = "L4"] IN
                 b.run = s.run /\ b.phase = "L4" /\ b.cands = s.cands
           /\ LET b == [s EXCEPT !.phase = "COMPLETED"] IN
                 b.run = s.run /\ b.phase = "COMPLETED" /\ b.cands = s.cands
           /\ Blank.run = 0 /\ Torn.run = 0 /\ Blank.phase = "L1" /\ Torn.phase = "TORN"
BY DEF States, Blank, Torn

LEMMA PlacedInitially == Init => Placed
BY DEF Init, Placed, Blank

\* A process starts on a run of its own or on the run of the file.
LEMMA PlacedStart ==
    ASSUME TypeOK, Placed, DaemonStarts \/ CliStarts
    PROVE  Placed'
<1>1. epc = "off" /\ UNCHANGED <<code, history>>
  BY DEF DaemonStarts, CliStarts, daemon
<1>2. runs \in Nat /\ completed \subseteq 1..runs
  BY AuditAssumption DEF TypeOK
<1>3. ASSUME NEW w, Fresh(w)
      PROVE  /\ epc' = "L1" /\ who' = w /\ runs' = runs + 1 /\ st' = file'
             /\ file'.run = runs + 1 /\ file'.phase = "L1"
  <2>1. runs + 1 \in 0..MaxRuns /\ NewRun = runs + 1
    BY <1>2, <1>3, AuditAssumption DEF Fresh, NewRun
  <2>2. /\ st' = [Blank EXCEPT !.run = runs + 1] /\ file' = st' /\ runs' = runs + 1
        /\ Begin(w, [Blank EXCEPT !.run = runs + 1])
    BY <1>3, <2>1 DEF Fresh, SaveState
  <2>. QED BY <2>1, <2>2, RecordParts, BlankForm DEF Begin
<1>4. CASE DaemonStarts
  <2>1. Fresh("daemon") /\ drun' = runs + 1 /\ drun = 0
    BY <1>4 DEF DaemonStarts, NewRun
  <2>. QED BY <1>1, <1>2, <1>3, <2>1 DEF Placed, Stage, history
<1>5. CASE CliStarts /\ Fresh("cli")
  <2>1. drun' = drun
    BY <1>5 DEF CliStarts, daemon
  <2>. QED BY <1>1, <1>2, <1>3, <1>5, <2>1 DEF Placed, Stage, history
<1>6. CASE CliStarts /\ ~Fresh("cli")
  <2>1. CanResume /\ st' = Loaded /\ Begin("cli", Loaded) /\ UNCHANGED <<file, runs, drun>>
    BY <1>6 DEF CliStarts, daemon
  <2>2. Loaded = file /\ file.run # 0 /\ file.phase \in {"L1", "L2", "L3", "L4"}
    BY <2>1 DEF CanResume, Loaded, Blank, TypeOK, States
  <2>3. who' = "cli" /\ epc' = IF file.phase = "L4" THEN "gate" ELSE file.phase
    BY <2>1, <2>2 DEF Begin
  <2>. QED BY <1>1, <2>1, <2>2, <2>3 DEF Placed, Stage, history
<1>. QED BY <1>4, <1>5, <1>6

\* A process that ends leaves its exit code to the daemon, if it was the daemon's.
LEMMA PlacedExit ==
    ASSUME TypeOK, Placed, NEW CONSTANT status, Exit(status), epc # "off",
           UNCHANGED <<drun, runs, entered>>, file'.run \in 0..runs,
           file'.run = 0 => file' \in {Blank, Torn}, file'.phase = "TORN" => file'.run = 0,
           file'.run \in completed' <=> file'.phase = "COMPLETED",
           file'.run # 0 /\ file'.phase # "L1" => file'.cands = entered[file'.run]
    PROVE  Placed'
<1>1. who' = "none" /\ epc' = "off" /\ code' = IF who = "daemon" THEN status ELSE code
  BY DEF Exit
<1>2. who = "daemon" => drun # 0
  BY DEF Placed
<1>. QED BY <1>1, <1>2 DEF Placed

LEMMA PlacedEngine ==
    ASSUME TypeOK, Placed, EngineStep
    PROVE  Placed'
<1>1. /\ file \in States /\ st \in States /\ runs \in Nat /\ completed \subseteq 1..runs
      /\ entered \in [Runs -> SUBSET Cands]
  BY AuditAssumption DEF TypeOK
<1>2. /\ epc # "off" /\ st = file /\ st.run # 0 /\ st.phase = Stage(epc)
      /\ st.run \in 1..runs /\ st.run \in Runs
      /\ UNCHANGED <<runs, drun>>
  <2>1. epc # "off" /\ UNCHANGED <<runs, drun>>
    BY DEF EngineStep, L1, L2Reject, L2End, L3End, Gate, L4Done, L4Skips, L4End, L2Audit, L2Fails,
           L3Audit, L3Fails, L4Call, Next1, daemon
  <2>. QED BY <2>1, <1>1, AuditAssumption DEF Placed, TypeOK, Runs
<1>3. CASE L1
  <2>1. PICK n \in 0..N, clean \in BOOLEAN :
            /\ SaveState([st EXCEPT !.cands = 1..n, !.clean = clean, !.phase = "L2"])
            /\ entered' = [entered EXCEPT ![st.run] = 1..n]
    BY <1>3 DEF L1
  <2>2. /\ st' = file' /\ file'.run = st.run /\ file'.phase = "L2" /\ file'.cands = 1..n
        /\ entered'[st.run] = 1..n
    BY <1>1, <1>2, <2>1, RecordParts DEF SaveState
  <2>3. epc' = "L2" /\ UNCHANGED <<who, code, completed>> /\ epc = "L1"
    BY <1>3 DEF L1, daemon
  <2>. QED BY <1>1, <1>2, <2>2, <2>3 DEF Placed, Stage
<1>4. CASE L2Reject \/ Gate \/ L4Done \/ L4Skips
            \/ \E c \in Cands : L2Audit(c) \/ L2Fails(c) \/ L3Audit(c) \/ L3Fails(c) \/ L4Call(c)
  <2>1. UNCHANGED <<st, file, who, code, history>> /\ epc' # "off" /\ Stage(epc') = Stage(epc)
    BY <1>4 DEF L2Reject, Gate, L4Done, L4Skips, L2Audit, L2Fails, L3Audit, L3Fails, L4Call, Next1,
                daemon, Stage
  <2>. QED BY <1>2, <2>1 DEF Placed, history
<1>5. CASE L2End
  <2>1. file' = [st EXCEPT !.l2 = acc, !.phase = "L3"] /\ UNCHANGED history
    BY <1>5 DEF L2End
  <2>2. file'.run = st.run /\ file'.phase = "L3" /\ file'.cands = st.cands
    BY <1>1, <2>1, RecordParts
  <2>3. st.phase = "L2"
    BY <1>2, <1>5 DEF L2End, Stage
  <2>4. CASE Exit("ok")
    BY <1>1, <1>2, <2>1, <2>2, <2>3, <2>4, PlacedExit DEF Placed, history
  <2>5. CASE ~Exit("ok")
    <3>1. st' = file' /\ epc' = "L3" /\ UNCHANGED <<who, code>>
      BY <1>5, <2>1, <2>5 DEF L2End
    <3>. QED BY <1>2, <2>1, <2>2, <2>3, <3>1 DEF Placed, Stage, history
  <2>. QED BY <2>4, <2>5
<1>6. CASE L3End
  <2>1. file' = [st EXCEPT !.l3 = Snapshot(live), !.phase = "L4"] /\ UNCHANGED history
    BY <1>6 DEF L3End
  <2>2. file'.run = st.run /\ file'.phase = "L4" /\ file'.cands = st.cands
    BY <1>1, <2>1, RecordParts
  <2>3. st.phase = "L3"
    BY <1>2, <1>6 DEF L3End, Stage
  <2>4. CASE Exit("ok")
    BY <1>1, <1>2, <2>1, <2>2, <2>3, <2>4, PlacedExit DEF Placed, history
  <2>5. CASE ~Exit("ok")
    <3>1. st' = file' /\ epc' = "gate" /\ UNCHANGED <<who, code>>
      BY <1>6, <2>1, <2>5 DEF L3End
    <3>. QED BY <1>2, <2>1, <2>2, <2>3, <3>1 DEF Placed, Stage, history
  <2>. QED BY <2>4, <2>5
<1>7. CASE L4End
  <2>1. Exit("ok") /\ entered' = entered /\ st.phase = "L4"
    BY <1>2, <1>7 DEF L4End, Stage
  <2>2. CASE UNCHANGED <<file, completed>>
    BY <1>1, <1>2, <2>1, <2>2, PlacedExit DEF Placed
  <2>3. CASE /\ file' = [st EXCEPT !.phase = "COMPLETED"]
             /\ completed' = completed \union {st.run}
    <3>1. file'.run = st.run /\ file'.phase = "COMPLETED" /\ file'.cands = st.cands
      BY <1>1, <2>3, RecordParts
    <3>. QED BY <1>1, <1>2, <2>1, <2>3, <3>1, PlacedExit DEF Placed
  <2>. QED BY <1>7, <2>2, <2>3 DEF L4End
<1>. QED BY <1>3, <1>4, <1>5, <1>6, <1>7 DEF EngineStep

LEMMA PlacedStep ==
    ASSUME TypeOK, Placed, [Next]_vars
    PROVE  Placed'
<1>1. CASE Dies
  <2>1. /\ epc # "off" /\ Exit("bad") /\ UNCHANGED <<drun, runs, entered, completed>>
        /\ file' \in {file, Torn}
    BY <1>1 DEF Dies, history
  <2>2. CASE file' = file
    BY <2>1, <2>2, PlacedExit DEF Placed
  <2>3. CASE file' = Torn
    <3>1. file'.run = 0 /\ file'.phase = "TORN" /\ 0 \notin completed /\ runs \in Nat
      BY <2>3, AuditAssumption DEF Torn, Blank, TypeOK
    <3>2. file'.run \in 0..runs /\ file' \in {Blank, Torn} /\ completed' = completed
      BY <2>1, <2>3, <3>1
    <3>. QED BY <2>1, <3>1, <3>2, PlacedExit
  <2>. QED BY <2>1, <2>2, <2>3
<1>2. CASE Kills
  <2>1. epc # "off" /\ Exit("bad") /\ UNCHANGED <<file, drun, runs, entered, completed>>
    BY <1>2 DEF Kills, history, TypeOK
  <2>. QED BY <2>1, PlacedExit DEF Placed
<1>3. CASE Concludes
  <2>1. code # "none" /\ drun' = 0 /\ code' = "none" /\ UNCHANGED <<file, engine, runs, history>>
    BY <1>3 DEF Concludes
  <2>. QED BY <2>1 DEF Placed, engine, history
<1>4. CASE UNCHANGED <<file, st, epc, who, daemon, runs, history>>
  BY <1>4 DEF Placed, daemon, history
<1>5. CASE TimeUp \/ UNCHANGED vars
  BY <1>4, <1>5 DEF TimeUp, vars, engine
<1>6. CASE UNCHANGED <<rows, file, engine, daemon, runs, flow, history, faults>>
  BY <1>4, <1>6 DEF engine
<1>. QED BY <1>1, <1>2, <1>3, <1>5, <1>6, PlacedStart, PlacedEngine DEF Next

-------------------------------------------------------------------------------
(* How rows and file move. *)

\* A row is saved by the engine, for the run it works on: by L2, by L3 for a candidate
\* in its list, by whatever terminalizes it, or by L4 with the verdict of the court.
Rewritten(r, c) ==
    /\ epc # "off" /\ r = st.run
    /\ \/ epc = "L2" /\ rows'[r][c] = Merged(rows[r][c], "L2_DONE", "NONE")
       \/ epc = "L3" /\ c \in todo /\ rows'[r][c] = Merged(rows[r][c], "L3_DONE", "NONE")
       \/ rows'[r][c] = Merged(rows[r][c], "TERMINAL", "VETO")
       \/ /\ epc = "court"
          /\ \E v \in Verdicts : rows'[r][c] = Merged(rows[r][c], "L4_DONE", v)

LEMMA RowMoves ==
    ASSUME TypeOK, Held, Placed, [Next]_vars, NEW r \in Runs, NEW c \in Cands
    PROVE  rows'[r][c] = rows[r][c] \/ Rewritten(r, c)
<1>1. rows \in [Runs -> [Cands -> Row]]
  BY DEF TypeOK
<1>2. epc # "off" => st.run \in Runs
  BY AuditAssumption DEF Placed, TypeOK, Runs
<1>3. ASSUME NEW d \in Cands, NEW status, NEW v, Save(d, status, v), epc # "off"
      PROVE  /\ rows'[r][c] = rows[r][c]
                \/ (r = st.run /\ c = d /\ rows'[r][c] = Merged(rows[r][c], status, v))
  BY <1>1, <1>2, <1>3 DEF Save
<1>4. ASSUME NEW d \in Cands, L2Audit(d) \/ L2Fails(d)
      PROVE  rows'[r][c] = rows[r][c] \/ Rewritten(r, c)
  BY <1>3, <1>4 DEF L2Audit, L2Fails, Next1, Rewritten
<1>5. ASSUME NEW d \in Cands, L3Audit(d) \/ L3Fails(d)
      PROVE  rows'[r][c] = rows[r][c] \/ Rewritten(r, c)
  BY <1>3, <1>5 DEF L3Audit, L3Fails, Next1, Rewritten
<1>6. CASE L2Reject
  BY <1>3, <1>6 DEF L2Reject, Rewritten, Held
<1>7. CASE L4Done
  <2>1. hverdict \in Verdicts /\ cur \in Cands
    BY <1>7 DEF L4Done, TypeOK, Held
  <2>. QED BY <1>3, <1>7, <2>1 DEF L4Done, Rewritten
<1>8. CASE Gate
  <2>1. PICK marked \in SUBSET Cands :
            rows' = [rows EXCEPT ![st.run] = [d \in Cands |->
                        IF d \in marked THEN Merged(@[d], "TERMINAL", "VETO") ELSE @[d]]]
    BY <1>8 DEF Gate
  <2>2. epc # "off" /\ st.run \in Runs
    BY <1>2, <1>8 DEF Gate
  <2>3. CASE r = st.run
    BY <1>1, <2>1, <2>2, <2>3 DEF Rewritten
  <2>4. CASE r # st.run
    BY <1>1, <2>1, <2>2, <2>4
  <2>. QED BY <2>3, <2>4
<1>9. CASE DaemonStarts \/ CliStarts \/ TimeUp \/ Dies \/ Kills \/ Concludes
  BY <1>9 DEF DaemonStarts, CliStarts, TimeUp, Dies, Kills, Concludes
<1>10. CASE L1 \/ L2End \/ L3End \/ L4Skips \/ L4End \/ \E d \in Cands : L4Call(d)
  BY <1>10 DEF L1, L2End, L3End, L4Skips, L4End, L4Call
<1>11. CASE UNCHANGED rows
  BY <1>11
<1>. QED
  BY <1>4, <1>5, <1>6, <1>7, <1>8, <1>9, <1>10, <1>11 DEF Next, EngineStep, vars

\* Rows are never deleted.
LEMMA RowsStay ==
    ASSUME TypeOK, Held, Placed, [Next]_vars, NEW r \in Runs
    PROVE  RowsOf(r) \subseteq RowsOf(r)'
<1>1. ASSUME NEW c \in Cands, Rewritten(r, c) PROVE rows'[r][c] # NoRow
  BY <1>1, RowForms DEF Rewritten, TypeOK, Verdicts
<1>. QED BY <1>1, RowMoves DEF RowsOf

\* The file moves on with the run it is of, or to a new run, or is torn.
LEMMA FileMoves ==
    ASSUME TypeOK, Placed, [Next]_vars
    PROVE  \/ UNCHANGED file
           \/ file'.run = runs + 1 /\ file'.phase = "L1"
           \/ file' = Torn
           \/ /\ epc # "off" /\ file'.run = file.run
              /\ \/ epc = "L1" /\ file'.phase = "L2"
                 \/ epc = "L2" /\ file'.phase = "L3" /\ file'.l2 = acc
                 \/ epc = "L3" /\ file'.phase = "L4"
                 \/ epc = "L4" /\ file'.phase = "COMPLETED"
<1>1. st \in States /\ (epc # "off" => st = file)
  BY DEF TypeOK, Placed
<1>2. ASSUME NEW w, Fresh(w) PROVE file'.run = runs + 1 /\ file'.phase = "L1"
  <2>1. runs + 1 \in 0..MaxRuns /\ NewRun = runs + 1
    BY <1>2, AuditAssumption DEF Fresh, NewRun, TypeOK
  <2>. QED BY <1>2, <2>1, RecordParts, BlankForm DEF Fresh, SaveState
<1>3. CASE DaemonStarts \/ CliStarts
  BY <1>2, <1>3 DEF DaemonStarts, CliStarts
<1>4. CASE L1
  <2>1. PICK n \in 0..N, clean \in BOOLEAN :
            file' = [st EXCEPT !.cands = 1..n, !.clean = clean, !.phase = "L2"]
    BY <1>4 DEF L1, SaveState
  <2>. QED BY <1>1, <1>4, <2>1, RecordParts DEF L1
<1>5. CASE L2End
  <2>1. file' = [st EXCEPT !.l2 = acc, !.phase = "L3"]
    BY <1>5 DEF L2End
  <2>. QED BY <1>1, <1>5, <2>1, RecordParts DEF L2End
<1>6. CASE L3End
  <2>1. file' = [st EXCEPT !.l3 = Snapshot(live), !.phase = "L4"]
    BY <1>6 DEF L3End
  <2>. QED BY <1>1, <1>6, <2>1, RecordParts DEF L3End
<1>7. CASE L4End
  <2>1. CASE UNCHANGED file
    BY <2>1
  <2>2. CASE file' = [st EXCEPT !.phase = "COMPLETED"]
    BY <1>1, <1>7, <2>2, RecordParts DEF L4End
  <2>. QED BY <1>7, <2>1, <2>2 DEF L4End
<1>8. CASE Dies
  BY <1>8 DEF Dies
<1>9. CASE L2Reject \/ Gate \/ L4Done \/ L4Skips
            \/ \E c \in Cands : L2Audit(c) \/ L2Fails(c) \/ L3Audit(c) \/ L3Fails(c) \/ L4Call(c)
  BY <1>9 DEF L2Reject, Gate, L4Done, L4Skips, L2Audit, L2Fails, L3Audit, L3Fails, L4Call
<1>10. CASE TimeUp \/ Kills \/ Concludes
  BY <1>10 DEF TimeUp, Kills, Concludes
<1>11. CASE UNCHANGED file
  BY <1>11
<1>. QED BY <1>3, <1>4, <1>5, <1>6, <1>7, <1>8, <1>9, <1>10, <1>11 DEF Next, EngineStep, vars

\* A completed run is not the one that the engine works on, so no row of it moves.
LEMMA CompletedStays ==
    ASSUME TypeOK, Held, Placed, [Next]_vars, NEW r \in completed
    PROVE  rows'[r] = rows[r] /\ (epc # "off" => st.run # r)
<1>1. r \in Runs
  BY AuditAssumption DEF TypeOK, Runs
<1>2. epc # "off" => st.run # r
  BY DEF Placed, TypeOK, Stage
<1>3. \A c \in Cands : rows'[r][c] = rows[r][c]
  BY <1>1, <1>2, RowMoves DEF Rewritten
<1>4. rows[r] \in [Cands -> Row] /\ rows'[r] \in [Cands -> Row]
  BY <1>1, TypesStep DEF TypeOK
<1>. QED BY <1>2, <1>3, <1>4

-------------------------------------------------------------------------------
(* Rows, verdicts and completion. *)

LEMMA RestInitially == Init => Registered /\ PastL2 /\ Verdicted /\ Empty
BY AuditAssumption
   DEF Init, Registered, PastL2, Passed, Verdicted, Empty, RowsOf, Blank, NoRow, Runs

LEMMA RegisteredStep ==
    ASSUME TypeOK, Held, Placed, Registered, [Next]_vars
    PROVE  Registered'
<1>1. \A r \in Runs : RowsOf(r) \subseteq RowsOf(r)'
  BY RowsStay
<1>2. /\ epc # "off" => st.run \in Runs /\ st = file /\ st.phase = Stage(epc)
      /\ file.phase = "L3" => file.run \in Runs
      /\ file \in States
  BY AuditAssumption DEF Placed, TypeOK, Runs, Blank, Torn
<1>3. ASSUME NEW r \in Runs, NEW c \in Cands, rows'[r][c].status \in {"TERMINAL", "L4_DONE"}
      PROVE  rows'[r][c].verdict # "NONE"
  <2>1. rows[r][c] \in Row
    BY DEF TypeOK
  <2>2. CASE rows'[r][c] = rows[r][c]
    BY <1>3, <2>2 DEF Registered
  <2>3. CASE Rewritten(r, c)
    <3>1. (\A v \in Verdicts : v # "NONE") /\ "VETO" \in Verdicts
      BY DEF Verdicts
    <3>2. rows[r][c].status \in {"TERMINAL", "L4_DONE"} => rows[r][c].verdict # "NONE"
      BY DEF Registered
    <3>. QED BY <1>3, <2>3, <3>1, <3>2, MergedParts DEF Rewritten
  <2>. QED BY <2>2, <2>3, RowMoves
<1>4. ASSUME file'.phase = "L3" PROVE (file.l2 \subseteq RowsOf(file.run))'
  <2>1. CASE UNCHANGED file
    BY <1>1, <1>2, <1>4, <2>1 DEF Registered
  <2>2. CASE epc = "L2" /\ file'.run = file.run /\ file'.l2 = acc
    BY <1>1, <1>2, <2>2 DEF Registered
  <2>3. file' = Torn => file'.phase = "TORN"
    BY DEF Torn, Blank
  <2>. QED BY <1>4, <2>1, <2>2, <2>3, FileMoves
<1>5. ASSUME NEW c \in Cands, epc # "off", Save(c, "L2_DONE", "NONE"), st' = st
      PROVE  c \in RowsOf(st.run)'
  <2>1. rows \in [Runs -> [Cands -> Row]] /\ rows'[st.run][c] # NoRow
    BY <1>2, <1>5, RowForms DEF TypeOK, Save
  <2>. QED BY <1>5, <2>1 DEF RowsOf
<1>6. ASSUME epc' \in {"L2", "rejecting"} PROVE (acc \subseteq RowsOf(st.run))'
  <2>1. CASE acc' = {}
    BY <2>1
  <2>2. CASE acc' = acc /\ epc \in {"L2", "rejecting"} /\ st' = st
    BY <1>1, <1>2, <2>2 DEF Registered
  <2>3. ASSUME NEW c \in Cands, L2Audit(c) PROVE (acc \subseteq RowsOf(st.run))'
    <3>1. /\ epc = "L2" /\ st' = st /\ acc' \subseteq acc \union {c}
          /\ Save(c, "L2_DONE", "NONE")
      BY <2>3 DEF L2Audit, Next1
    <3>. QED BY <1>1, <1>2, <1>5, <3>1 DEF Registered
  <2>4. CASE DaemonStarts \/ CliStarts
    BY <2>1, <2>4 DEF DaemonStarts, CliStarts, Held
  <2>5. CASE L1
    BY <2>1, <2>5 DEF L1, Held
  <2>6. CASE L2Reject \/ TimeUp \/ \E c \in Cands : L2Fails(c)
    BY <1>6, <2>2, <2>6 DEF L2Reject, L2Fails, TimeUp, Next1
  <2>7. CASE L2End \/ L3End \/ L4End \/ Dies \/ Kills
    BY <1>6, <2>7 DEF L2End, L3End, L4End, Dies, Kills, Exit
  <2>8. CASE Gate \/ L4Done \/ L4Skips \/ \E c \in Cands : L3Audit(c) \/ L3Fails(c) \/ L4Call(c)
    BY <1>6, <2>8 DEF Gate, L4Done, L4Skips, L3Audit, L3Fails, L4Call, Next1
  <2>9. CASE UNCHANGED engine
    BY <1>6, <2>2, <2>9 DEF engine
  <2>10. Concludes \/ UNCHANGED vars => UNCHANGED engine
    BY DEF Concludes, vars
  <2>11. CASE UNCHANGED <<rows, file, engine, daemon, runs, flow, history, faults>>
    BY <2>9, <2>11
  <2>. QED
    BY <2>3, <2>4, <2>5, <2>6, <2>7, <2>8, <2>9, <2>10, <2>11 DEF Next, EngineStep
<1>7. ASSUME epc' = "L3" PROVE (todo \subseteq RowsOf(st.run))'
  <2>1. CASE todo' \subseteq todo /\ epc = "L3" /\ st' = st
    BY <1>1, <1>2, <2>1 DEF Registered
  <2>2. CASE CliStarts \/ DaemonStarts
    <3>1. ASSUME NEW w, Fresh(w) PROVE epc' # "L3"
      <4>1. NewRun \in 0..MaxRuns
        BY <3>1, AuditAssumption DEF Fresh, NewRun, TypeOK
      <4>2. [Blank EXCEPT !.run = NewRun].phase = "L1"
        BY <4>1, RecordParts, BlankForm
      <4>. QED BY <3>1, <4>2 DEF Fresh, Begin
    <3>2. CliStarts /\ CanResume /\ st' = Loaded /\ Begin("cli", Loaded)
      BY <1>7, <2>2, <3>1 DEF CliStarts, DaemonStarts
    <3>3. Loaded = file /\ file.run \in Runs
      BY <3>2, AuditAssumption DEF CanResume, Loaded, Blank, TypeOK, States, Placed, Runs
    <3>4. file.phase = "L3" /\ todo' = file.l2
      BY <1>7, <3>2, <3>3 DEF Begin
    <3>. QED BY <1>1, <3>2, <3>3, <3>4 DEF Registered
  <2>3. CASE L2End
    <3>1. epc = "L2" /\ todo' = acc /\ st'.run = st.run
      <4>1. epc = "L2" /\ todo' = acc /\ st' = [st EXCEPT !.l2 = acc, !.phase = "L3"]
        BY <1>7, <2>3 DEF L2End, Exit
      <4>2. st \in States
        BY DEF TypeOK
      <4>. QED BY <4>1, <4>2, RecordParts
    <3>. QED BY <1>1, <1>2, <3>1 DEF Registered
  <2>4. CASE TimeUp \/ \E c \in Cands : L3Audit(c) \/ L3Fails(c)
    BY <1>7, <2>1, <2>4 DEF L3Audit, L3Fails, TimeUp, Next1
  <2>5. CASE L1 \/ L2Reject \/ \E c \in Cands : L2Audit(c) \/ L2Fails(c)
    BY <1>7, <2>5 DEF L1, L2Reject, L2Audit, L2Fails, Next1
  <2>6. CASE L3End \/ L4End \/ Dies \/ Kills
    BY <1>7, <2>6 DEF L3End, L4End, Dies, Kills, Exit
  <2>7. CASE Gate \/ L4Done \/ L4Skips \/ \E c \in Cands : L4Call(c)
    BY <1>7, <2>7 DEF Gate, L4Done, L4Skips, L4Call
  <2>8. CASE UNCHANGED engine
    BY <1>7, <2>1, <2>8 DEF engine
  <2>9. Concludes \/ UNCHANGED vars => UNCHANGED engine
    BY DEF Concludes, vars
  <2>10. CASE UNCHANGED <<rows, file, engine, daemon, runs, flow, history, faults>>
    BY <2>8, <2>10
  <2>. QED
    BY <2>2, <2>3, <2>4, <2>5, <2>6, <2>7, <2>8, <2>9, <2>10 DEF Next, EngineStep
<1>. QED BY <1>3, <1>4, <1>6, <1>7 DEF Registered

\* The daemon's child that ends well leaves the file of its run past L2.
LEMMA EndsWell ==
    ASSUME TypeOK, Placed, EngineStep, code' # code
    PROVE  /\ who = "daemon" /\ drun = st.run /\ file'.run = drun
           /\ file'.phase \in {"L3", "L4", "COMPLETED"}
<1>1. st \in States /\ st = file /\ st.phase = Stage(epc)
  BY DEF TypeOK, Placed, EngineStep, L1, L2Reject, L2End, L3End, Gate, L4Done, L4Skips, L4End,
         L2Audit, L2Fails, L3Audit, L3Fails, L4Call, Next1
<1>2. (L2End \/ L3End \/ L4End) /\ Exit("ok")
  BY DEF EngineStep, L1, L2Reject, L2End, L3End, Gate, L4Done, L4Skips, L4End, L2Audit, L2Fails,
         L3Audit, L3Fails, L4Call, daemon
<1>3. who = "daemon" /\ drun = st.run
  BY <1>2 DEF Exit, Placed
<1>4. CASE L2End
  <2>1. file' = [st EXCEPT !.l2 = acc, !.phase = "L3"]
    BY <1>4 DEF L2End
  <2>. QED BY <1>1, <1>3, <2>1, RecordParts
<1>5. CASE L3End
  <2>1. file' = [st EXCEPT !.l3 = Snapshot(live), !.phase = "L4"]
    BY <1>5 DEF L3End
  <2>. QED BY <1>1, <1>3, <2>1, RecordParts
<1>6. CASE L4End
  <2>1. st.phase = "L4"
    BY <1>1, <1>6 DEF L4End, Stage
  <2>2. CASE UNCHANGED file
    BY <1>1, <1>3, <2>1, <2>2
  <2>3. CASE file' = [st EXCEPT !.phase = "COMPLETED"]
    BY <1>1, <1>3, <2>3, RecordParts
  <2>. QED BY <1>6, <2>2, <2>3 DEF L4End
<1>. QED BY <1>2, <1>4, <1>5, <1>6

\* A run comes to be Passed only by its child's ending well.
LEMMA PassedMoves ==
    ASSUME TypeOK, Placed, [Next]_vars, NEW r \in Runs, Passed(r)'
    PROVE  Passed(r) \/ (r = drun /\ file'.run = r /\ file'.phase \in {"L3", "L4", "COMPLETED"})
<1>1. CASE EngineStep
  <2>1. UNCHANGED <<outcome, drun>>
    BY <1>1 DEF EngineStep, L1, L2Reject, L2End, L3End, Gate, L4Done, L4Skips, L4End, L2Audit, L2Fails,
                L3Audit, L3Fails, L4Call, daemon
  <2>. QED BY <1>1, <2>1, EndsWell DEF Passed
<1>2. CASE DaemonStarts
  <2>1. code' = "none" /\ outcome' = [outcome EXCEPT ![NewRun] = "IN_PROGRESS"]
    BY <1>2 DEF DaemonStarts, Placed
  <2>. QED BY <2>1 DEF Passed, TypeOK
<1>3. CASE CliStarts \/ TimeUp
  BY <1>3 DEF CliStarts, TimeUp, Passed, daemon
<1>4. CASE Dies \/ Kills
  BY <1>4 DEF Dies, Kills, Exit, Passed
<1>5. CASE Concludes
  <2>1. /\ code' = "none"
        /\ outcome' = [outcome EXCEPT ![drun] =
                          IF code = "ok" /\ (RowsReady(drun) \/ ZeroReady(drun))
                          THEN "DONE" ELSE "FAILED"]
    BY <1>5 DEF Concludes
  <2>2. outcome'[r] = "DONE"
    BY <2>1 DEF Passed
  <2>. QED BY <2>1, <2>2 DEF Passed, TypeOK
<1>6. CASE UNCHANGED daemon
  BY <1>6 DEF Passed, daemon
<1>7. UNCHANGED vars => UNCHANGED daemon
  BY DEF vars
<1>8. UNCHANGED <<rows, file, engine, daemon, runs, flow, history, faults>> => UNCHANGED daemon
  OBVIOUS
<1>. QED BY <1>1, <1>2, <1>3, <1>4, <1>5, <1>6, <1>7, <1>8 DEF Next

LEMMA PastL2Step ==
    ASSUME TypeOK, Held, Placed, PastL2, [Next]_vars
    PROVE  PastL2'
<1>1. runs \in Nat /\ drun \in 0..runs /\ runs' \in Nat /\ runs <= runs'
  <2>1. runs' \in {runs, runs + 1}
    BY DEF Next, EngineStep, L1, L2Reject, L2End, L3End, Gate, L4Done, L4Skips, L4End, L2Audit,
           L2Fails, L3Audit, L3Fails, L4Call, DaemonStarts, CliStarts, Fresh, TimeUp, Dies, Kills,
           Concludes, vars
  <2>. QED BY <2>1, AuditAssumption DEF TypeOK
<1>2. ASSUME NEW r \in Runs, Passed(r)', file'.run = r
      PROVE  file'.phase \in {"L3", "L4", "COMPLETED"}
  <2>1. CASE Passed(r)
    <3>1. r <= runs
      BY <1>1, <2>1 DEF PastL2, Passed
    <3>2. CASE UNCHANGED file
      BY <1>2, <2>1, <3>2 DEF PastL2
    <3>3. file'.run # runs + 1 /\ file' # Torn
      BY <1>1, <1>2, <3>1 DEF Torn, Blank, Runs
    <3>4. ASSUME epc # "off", file'.run = file.run PROVE epc \notin {"L1", "L2"}
      <4>1. st.phase = Stage(epc) /\ st = file /\ file.phase \in {"L3", "L4", "COMPLETED"}
        BY <1>2, <2>1, <3>4 DEF Placed, PastL2
      <4>. QED BY <4>1 DEF Stage
    <3>. QED BY <3>2, <3>3, <3>4, FileMoves
  <2>. QED BY <1>2, <2>1, PassedMoves
<1>3. ASSUME NEW r \in Runs, outcome'[r] = "DONE" PROVE r <= runs'
  <2>1. Passed(r) \/ r = drun
    BY <1>3, PassedMoves DEF Passed
  <2>. QED BY <1>1, <2>1 DEF PastL2, Passed, Runs
<1>. QED BY <1>2, <1>3 DEF PastL2

\* The daemon's DONE is given to rows that are all final, or to the receipt of a
\* completed run in which L1 found nobody.
LEMMA DoneMoves ==
    ASSUME TypeOK, Placed, [Next]_vars, NEW r \in Runs, outcome'[r] = "DONE", outcome[r] # "DONE"
    PROVE  /\ UNCHANGED <<rows, history>>
           /\ r = drun /\ code = "ok" /\ (RowsReady(r) \/ ZeroReady(r))
<1>1. CASE Concludes
  <2>1. /\ UNCHANGED <<rows, history>>
        /\ outcome' = [outcome EXCEPT ![drun] =
                          IF code = "ok" /\ (RowsReady(drun) \/ ZeroReady(drun))
                          THEN "DONE" ELSE "FAILED"]
    BY <1>1 DEF Concludes
  <2>. QED BY <2>1 DEF TypeOK
<1>2. CASE DaemonStarts
  BY <1>2 DEF DaemonStarts, TypeOK
<1>3. ~Concludes /\ ~DaemonStarts => outcome' = outcome
  BY DEF Next, EngineStep, L1, L2Reject, L2End, L3End, Gate, L4Done, L4Skips, L4End, L2Audit, L2Fails,
         L3Audit, L3Fails, L4Call, CliStarts, TimeUp, Dies, Kills, vars, daemon
<1>. QED BY <1>1, <1>2, <1>3

LEMMA VerdictedStep ==
    ASSUME TypeOK, Held, Placed, Registered, PastL2, Verdicted, [Next]_vars
    PROVE  Verdicted'
<1>. SUFFICES ASSUME NEW r \in Runs, outcome'[r] = "DONE", NEW c \in Cands, rows'[r][c] # NoRow
              PROVE  rows'[r][c].verdict # "NONE" /\ rows'[r][c].status # "L2_DONE"
  BY DEF Verdicted, RowsOf
<1>1. CASE outcome[r] # "DONE"
  <2>1. rows'[r][c] = rows[r][c] /\ (RowsReady(r) \/ ZeroReady(r))
    BY <1>1, DoneMoves
  <2>2. rows[r][c].status \in {"TERMINAL", "L4_DONE"}
    BY <2>1 DEF RowsReady, ZeroReady, RowsOf
  <2>. QED BY <2>1, <2>2 DEF Registered
<1>2. CASE outcome[r] = "DONE" /\ rows'[r][c] = rows[r][c]
  BY <1>2 DEF Verdicted, RowsOf
<1>3. CASE outcome[r] = "DONE" /\ Rewritten(r, c)
  <2>1. epc # "off" /\ r = st.run /\ epc # "L2"
    <3>1. st = file /\ st.phase = Stage(epc) /\ r = st.run
      BY <1>3 DEF Rewritten, Placed
    <3>. QED BY <1>3, <3>1 DEF PastL2, Passed, Stage, Rewritten
  <2>2. (\A v \in Verdicts : v # "NONE") /\ "VETO" \in Verdicts
    BY DEF Verdicts
  <2>3. CASE epc = "L3" /\ c \in todo /\ rows'[r][c] = Merged(rows[r][c], "L3_DONE", "NONE")
    <3>1. rows[r][c].verdict # "NONE"
      BY <1>3, <2>1, <2>3 DEF Registered, Verdicted, RowsOf
    <3>. QED BY <2>3, <3>1, MergedParts
  <2>. QED BY <1>3, <2>1, <2>2, <2>3, MergedParts DEF Rewritten
<1>. QED BY <1>1, <1>2, <1>3, RowMoves

LEMMA EmptyStep ==
    ASSUME TypeOK, Held, Placed, Empty, [Next]_vars
    PROVE  Empty'
<1>. SUFFICES ASSUME NEW r \in Runs, outcome'[r] = "DONE", RowsOf(r)' = {}
              PROVE  r \in completed' /\ entered'[r] = {}
  BY DEF Empty
<1>1. RowsOf(r) = {}
  BY RowsStay
<1>2. CASE outcome[r] # "DONE"
  <2>1. UNCHANGED history /\ r = drun /\ (RowsReady(r) \/ ZeroReady(r))
    BY <1>2, DoneMoves
  <2>2. file.run = r /\ file.phase = "COMPLETED" /\ file.cands = {}
    BY <1>1, <2>1 DEF RowsReady, ZeroReady, ReceiptOf
  <2>3. r # 0
    BY DEF Runs
  <2>. QED BY <2>1, <2>2, <2>3 DEF Placed, history
<1>3. CASE outcome[r] = "DONE"
  <2>1. r \in completed /\ entered[r] = {}
    BY <1>1, <1>3 DEF Empty
  <2>2. epc # "off" => st.run # r
    BY <2>1, CompletedStays
  <2>3. completed \subseteq completed'
    BY DEF Next, EngineStep, L1, L2Reject, L2End, L3End, Gate, L4Done, L4Skips, L4End, L2Audit,
           L2Fails, L3Audit, L3Fails, L4Call, DaemonStarts, CliStarts, Fresh, TimeUp, Dies, Kills,
           Concludes, vars, history
  <2>4. entered'[r] = entered[r]
    <3>1. CASE L1
      <4>1. \E n : entered' = [entered EXCEPT ![st.run] = n]
        BY <3>1 DEF L1
      <4>. QED BY <2>2, <3>1, <4>1 DEF L1, TypeOK
    <3>2. ~L1 => entered' = entered
      BY DEF Next, EngineStep, L2Reject, L2End, L3End, Gate, L4Done, L4Skips, L4End, L2Audit,
             L2Fails, L3Audit, L3Fails, L4Call, DaemonStarts, CliStarts, Fresh, TimeUp, Dies, Kills,
             Concludes, vars, history
    <3>. QED BY <3>1, <3>2
  <2>. QED BY <2>1, <2>3, <2>4
<1>. QED BY <1>2, <1>3

-------------------------------------------------------------------------------
(* The theorems. *)

LEMMA AuditStep == AuditInv /\ [Next]_vars => AuditInv'
BY TypesStep, PlacedStep, RegisteredStep, PastL2Step, VerdictedStep, EmptyStep DEF AuditInv

THEOREM AuditInvariant == Spec => []AuditInv
<1>1. Init => AuditInv
  BY TypesInitially, PlacedInitially, RestInitially DEF AuditInv
<1>. QED BY <1>1, AuditStep, PTL DEF Spec

\* The type invariant of the engine, its tables and the daemon's view of them.
THEOREM AuditTypeCorrect == Spec => []TypeOK
<1>1. AuditInv => TypeOK
  BY DEF AuditInv
<1>. QED BY <1>1, AuditInvariant, PTL

\* A run that was completed is closed: no later process, resuming or not, killed, dying
\* or leaving a torn file, touches one of its rows again.
THEOREM CompletedClosed == Spec => CompletedIsFinal
<1>1. AuditInv /\ [Next]_vars => [\A r \in completed : rows'[r] = rows[r]]_vars
  BY CompletedStays DEF AuditInv
<1>. QED BY <1>1, AuditInvariant, PTL DEF Spec, CompletedIsFinal

\* Every row of a run that the daemon judged DONE has its verdict and is past L2, and
\* keeps it, for any number of resumed, cut, killed and torn runs after it.
THEOREM DoneKeepsVerdicts == Spec => []DoneIsJudged
<1>1. AuditInv => DoneIsJudged
  BY DEF AuditInv, Verdicted, DoneIsJudged
<1>. QED BY <1>1, AuditInvariant, PTL

\* DONE without a row means that L1 itself found nobody.
THEOREM ZeroIsZero == Spec => []ZeroMeansZero
<1>1. AuditInv => ZeroMeansZero
  BY DEF AuditInv, Empty, ZeroMeansZero
<1>. QED BY <1>1, AuditInvariant, PTL

-------------------------------------------------------------------------------
(* Nobody at the command line between the end of the daemon's child and the *)
(* daemon's look at its rows.  Without this, DONE may be given to a row     *)
(* that a resumed process has just terminalized and that the next one       *)
(* audits again: its status goes back to L3_DONE, with the verdict it had.  *)

CliWaits == [][CliStarts => drun = 0]_vars

\* The rows of a run that is DONE are final.
DoneIsFinal ==
    \A r \in Runs : outcome[r] = "DONE" =>
       \A c \in RowsOf(r) : rows[r][c].status \in {"TERMINAL", "L4_DONE"}

\* The lists of the engine: L3 works on what L2 passed, nothing is in two lists.
Lists ==
    /\ epc \notin {"rejecting", "court"} => cur = Nobody
    /\ epc = "L3" => todo \subseteq st.l2
    /\ epc \in {"L2", "rejecting"} => acc \intersect todo = {} /\ cur \notin acc \union todo

\* What the daemon's child passed in L2 waits for L3, and the file that it leaves when
\* its time is up says so, until the daemon has looked.
Alone ==
    /\ who = "cli" => drun = 0
    /\ \A r \in Runs : r > runs => RowsOf(r) = {}
    /\ who = "daemon" /\ epc \in {"L1", "L2", "rejecting"} =>
          \A c \in Cands : rows[st.run][c].status # "L4_DONE"
    /\ who = "daemon" /\ epc \in {"L2", "rejecting"} =>
          \A c \in acc : rows[st.run][c].status = "L2_DONE"
    /\ drun # 0 /\ code = "ok" =>
          /\ file.run = drun
          /\ file.phase = "L3" => \A c \in file.l2 : rows[drun][c].status = "L2_DONE"

Settled ==
    \A r \in Runs : outcome[r] = "DONE" /\ file.run = r /\ file.phase = "L3" => file.l2 = {}

FinalInv == AuditInv /\ Lists /\ Alone /\ Settled /\ DoneIsFinal

LEMMA ListsStep ==
    ASSUME TypeOK, Held, Placed, Lists, [Next]_vars
    PROVE  Lists'
<1>1. CASE DaemonStarts \/ CliStarts
  <2>1. cur' = cur /\ cur = Nobody /\ acc' = {} /\ Nobody \notin Cands
    BY <1>1 DEF DaemonStarts, CliStarts, Held, Lists, Nobody, Cands
  <2>2. \E w, s : Begin(w, s) /\ st' = s
    BY <1>1 DEF DaemonStarts, CliStarts, Fresh, SaveState
  <2>3. todo' \subseteq Cands /\ st' \in States
    BY <1>1, TypesStart DEF TypeOK
  <2>4. (epc' = "L3" => todo' \subseteq st'.l2) /\ epc' \notin {"rejecting", "court"}
    BY <2>2, <2>3 DEF Begin, States
  <2>. QED BY <2>1, <2>3, <2>4 DEF Lists
<1>2. CASE L1
  <2>1. acc = {} /\ cur = Nobody /\ Nobody \notin Cands
    BY <1>2 DEF L1, Held, Lists, Nobody, Cands
  <2>2. todo' \subseteq Cands
    BY <1>2, TypesL2 DEF TypeOK
  <2>. QED BY <1>2, <2>1, <2>2 DEF L1, Lists
<1>3. ASSUME NEW c \in Cands, L2Audit(c) \/ L2Fails(c) PROVE Lists'
  <2>1. Nobody \notin Cands /\ acc \subseteq Cands /\ todo \subseteq Cands
    BY DEF Nobody, Cands, TypeOK
  <2>2. CASE L2Audit(c)
    BY <2>1, <2>2 DEF L2Audit, Next1, Lists
  <2>3. CASE L2Fails(c)
    BY <2>1, <2>3 DEF L2Fails, Next1, Lists
  <2>. QED BY <1>3, <2>2, <2>3
<1>4. CASE L2Reject
  BY <1>4 DEF L2Reject, Lists, Nobody, Cands, TypeOK
<1>5. CASE L2End
  <2>1. CASE Exit("ok")
    BY <2>1 DEF Exit, Lists
  <2>2. CASE ~Exit("ok")
    <3>1. /\ st' = [st EXCEPT !.l2 = acc, !.phase = "L3"] /\ epc' = "L3" /\ todo' = acc
          /\ cur' = cur /\ cur = Nobody
      BY <1>5, <2>2 DEF L2End, Lists
    <3>2. st'.l2 = acc
      BY <3>1, RecordParts DEF TypeOK
    <3>. QED BY <3>1, <3>2 DEF Lists
  <2>. QED BY <2>1, <2>2
<1>6. ASSUME NEW c \in Cands, L3Audit(c) \/ L3Fails(c) PROVE Lists'
  BY <1>6 DEF L3Audit, L3Fails, Next1, Lists
<1>7. CASE L3End \/ L4End \/ Dies \/ Kills
  BY <1>7 DEF L3End, L4End, Dies, Kills, Exit, Lists
<1>8. CASE Gate \/ L4Done \/ L4Skips \/ \E c \in Cands : L4Call(c)
  BY <1>8 DEF Gate, L4Done, L4Skips, L4Call, Lists
<1>9. CASE UNCHANGED <<st, epc, todo, cur, acc>>
  BY <1>9 DEF Lists
<1>10. TimeUp \/ Concludes \/ UNCHANGED vars => UNCHANGED <<st, epc, todo, cur, acc>>
  BY DEF TimeUp, Concludes, vars, engine
<1>11. CASE UNCHANGED <<rows, file, engine, daemon, runs, flow, history, faults>>
  BY <1>9, <1>11 DEF engine
<1>. QED
  BY <1>1, <1>2, <1>3, <1>4, <1>5, <1>6, <1>7, <1>8, <1>9, <1>10, <1>11 DEF Next, EngineStep

\* One candidate at a time.
LEMMA OneRow ==
    ASSUME TypeOK, Placed, epc # "off", NEW c \in Cands, NEW status, NEW v, Save(c, status, v)
    PROVE  /\ \A d \in Cands : d # c => rows'[st.run][d] = rows[st.run][d]
           /\ rows'[st.run][c] = Merged(rows[st.run][c], status, v)
<1>1. st.run \in Runs
  BY AuditAssumption DEF Placed, TypeOK, Runs
<1>. QED BY <1>1 DEF Save, TypeOK

LEMMA AloneStep ==
    ASSUME AuditInv, Lists, Alone, [Next]_vars, CliStarts => drun = 0
    PROVE  Alone'
<1>. USE DEF AuditInv
<1>a. /\ runs \in Nat /\ (epc # "off" => st.run \in Runs /\ st.run <= runs)
      /\ drun \in 0..runs /\ (who = "none" <=> epc = "off")
  BY AuditAssumption DEF TypeOK, Placed, Runs
<1>b. runs' \in Nat /\ runs <= runs' /\ (~DaemonStarts /\ ~CliStarts => runs' = runs)
  <2>1. runs' \in {runs, runs + 1} /\ (~DaemonStarts /\ ~CliStarts => runs' = runs)
    BY DEF Next, EngineStep, L1, L2Reject, L2End, L3End, Gate, L4Done, L4Skips, L4End, L2Audit,
           L2Fails, L3Audit, L3Fails, L4Call, DaemonStarts, CliStarts, Fresh, TimeUp, Dies, Kills,
           Concludes, vars
  <2>. QED BY <1>a, <2>1
<1>s. ASSUME epc' \in {"L1", "L2", "rejecting"}, ~DaemonStarts, ~CliStarts
      PROVE  epc \in {"L1", "L2", "rejecting"} /\ who' = who /\ st'.run = st.run
  <2>1. CASE L1
    <3>1. \E n \in 0..N, clean \in BOOLEAN :
             st' = [st EXCEPT !.cands = 1..n, !.clean = clean, !.phase = "L2"]
      BY <2>1 DEF L1, SaveState
    <3>. QED BY <2>1, <3>1, RecordParts DEF L1, TypeOK
  <2>2. CASE L2Reject \/ \E c \in Cands : L2Audit(c) \/ L2Fails(c)
    BY <2>2 DEF L2Reject, L2Audit, L2Fails, Next1
  <2>3. CASE L2End \/ L3End \/ L4End \/ Dies \/ Kills
    BY <1>s, <2>3 DEF L2End, L3End, L4End, Dies, Kills, Exit
  <2>4. CASE Gate \/ L4Done \/ L4Skips \/ \E c \in Cands : L3Audit(c) \/ L3Fails(c) \/ L4Call(c)
    BY <1>s, <2>4 DEF Gate, L4Done, L4Skips, L3Audit, L3Fails, L4Call, Next1
  <2>5. CASE UNCHANGED <<st, epc, who>>
    BY <1>s, <2>5
  <2>6. TimeUp \/ Concludes \/ UNCHANGED vars => UNCHANGED <<st, epc, who>>
    BY DEF TimeUp, Concludes, vars, engine
  <2>7. CASE UNCHANGED <<rows, file, engine, daemon, runs, flow, history, faults>>
    BY <2>5, <2>7 DEF engine
  <2>. QED BY <1>s, <2>1, <2>2, <2>3, <2>4, <2>5, <2>6, <2>7 DEF Next, EngineStep
<1>n. ASSUME DaemonStarts
      PROVE  /\ st'.run = runs + 1 /\ runs + 1 \in Runs /\ rows' = rows /\ acc' = {}
             /\ code' = "none"
  <2>1. runs + 1 \in 0..MaxRuns /\ NewRun = runs + 1 /\ runs + 1 \in Runs
    BY <1>n, <1>a, AuditAssumption DEF DaemonStarts, Fresh, NewRun, Runs
  <2>2. st' = [Blank EXCEPT !.run = runs + 1]
    BY <1>n, <2>1 DEF DaemonStarts, Fresh, SaveState
  <2>. QED BY <1>n, <2>1, <2>2, RecordParts, BlankForm DEF DaemonStarts, Held, Placed
<1>c. CliStarts => who' = "cli" /\ drun' = drun /\ code' = code
  BY DEF CliStarts, Fresh, Begin, daemon
<1>1. who' = "cli" => drun' = 0
  <2>1. DaemonStarts => who' = "daemon"
    BY DEF DaemonStarts, Fresh, Begin
  <2>2. ~DaemonStarts /\ ~CliStarts => who' \in {who, "none"} /\ drun' \in {drun, 0}
    BY DEF Next, EngineStep, L1, L2Reject, L2End, L3End, Gate, L4Done, L4Skips, L4End, L2Audit,
           L2Fails, L3Audit, L3Fails, L4Call, TimeUp, Dies, Kills, Exit, Concludes, vars, daemon, engine
  <2>. QED BY <1>c, <2>1, <2>2 DEF Alone
<1>2. ASSUME NEW r \in Runs, r > runs' PROVE RowsOf(r)' = {}
  <2>1. \A c \in Cands : rows[r][c] = NoRow
    BY <1>2, <1>a, <1>b DEF Alone, RowsOf, Runs
  <2>2. \A c \in Cands : ~Rewritten(r, c)
    BY <1>2, <1>a, <1>b DEF Rewritten, Runs
  <2>3. \A c \in Cands : rows'[r][c] = rows[r][c]
    BY <2>2, RowMoves
  <2>. QED BY <2>1, <2>3 DEF RowsOf
<1>3. ASSUME who' = "daemon", epc' \in {"L1", "L2", "rejecting"}, NEW c \in Cands
      PROVE  rows'[st'.run][c].status # "L4_DONE"
  <2>1. CASE DaemonStarts
    <3>1. rows[runs + 1][c] = NoRow
      BY <1>a, <1>n, <2>1 DEF Alone, RowsOf
    <3>. QED BY <1>n, <2>1, <3>1 DEF NoRow
  <2>2. CASE ~DaemonStarts /\ ~CliStarts
    <3>1. /\ epc \in {"L1", "L2", "rejecting"} /\ who = "daemon" /\ st'.run = st.run
          /\ st.run \in Runs /\ rows[st.run][c].status # "L4_DONE"
      BY <1>3, <1>a, <1>s, <2>2 DEF Alone
    <3>2. rows'[st.run][c] = rows[st.run][c] \/ Rewritten(st.run, c)
      BY <3>1, RowMoves
    <3>. QED BY <3>1, <3>2, MergedParts DEF Rewritten
  <2>. QED BY <1>3, <1>c, <2>1, <2>2
<1>4. ASSUME who' = "daemon", epc' \in {"L2", "rejecting"}, NEW c \in acc'
      PROVE  rows'[st'.run][c].status = "L2_DONE"
  <2>1. ~DaemonStarts /\ ~CliStarts
    BY <1>4, <1>c, <1>n
  <2>2. epc \in {"L1", "L2", "rejecting"} /\ who = "daemon" /\ st'.run = st.run
    BY <1>4, <1>s, <2>1
  <2>3. epc = "L1" => acc = {}
    BY DEF Held
  <2>4. acc \subseteq Cands /\ (epc \in {"L2", "rejecting"} =>
           /\ acc \intersect todo = {} /\ cur \notin acc
           /\ \A d \in acc : rows[st.run][d].status = "L2_DONE"
           /\ \A d \in Cands : rows[st.run][d].status # "L4_DONE")
    BY <2>2 DEF TypeOK, Lists, Alone
  <2>5. ASSUME NEW d \in Cands, L2Audit(d) PROVE rows'[st.run][c].status = "L2_DONE"
    <3>1. /\ epc = "L2" /\ acc' \subseteq acc \union {d} /\ Save(d, "L2_DONE", "NONE")
      BY <2>5 DEF L2Audit, Next1
    <3>2. /\ \A f \in Cands : f # d => rows'[st.run][f] = rows[st.run][f]
          /\ rows'[st.run][d] = Merged(rows[st.run][d], "L2_DONE", "NONE")
      BY <3>1, OneRow
    <3>. QED BY <1>4, <2>4, <3>1, <3>2, MergedParts
  <2>6. ASSUME NEW d \in Cands, L2Fails(d) \/ (L2Reject /\ d = cur)
        PROVE  rows'[st.run][c].status = "L2_DONE"
    <3>1. /\ epc \in {"L2", "rejecting"} /\ acc' = acc /\ d \notin acc
          /\ Save(d, "TERMINAL", "VETO")
      BY <2>4, <2>6 DEF L2Fails, L2Reject, Next1
    <3>2. \A f \in Cands : f # d => rows'[st.run][f] = rows[st.run][f]
      BY <3>1, OneRow
    <3>. QED BY <1>4, <2>4, <3>1, <3>2
  <2>7. CASE L2Reject
    BY <2>2, <2>6, <2>7 DEF L2Reject, Held
  <2>8. CASE UNCHANGED <<rows, acc, epc>>
    BY <1>4, <2>2, <2>4, <2>8
  <2>9. CASE L1
    BY <1>4, <2>3, <2>9 DEF L1
  <2>10. TimeUp \/ Concludes \/ UNCHANGED vars => UNCHANGED <<rows, acc, epc>>
    BY DEF TimeUp, Concludes, vars, engine
  <2>11. CASE L2End \/ L3End \/ L4End \/ Dies \/ Kills
    BY <1>4, <2>11 DEF L2End, L3End, L4End, Dies, Kills, Exit
  <2>12. CASE Gate \/ L4Done \/ L4Skips \/ \E d \in Cands : L3Audit(d) \/ L3Fails(d) \/ L4Call(d)
    BY <1>4, <2>12 DEF Gate, L4Done, L4Skips, L3Audit, L3Fails, L4Call, Next1
  <2>13. CASE UNCHANGED <<rows, file, engine, daemon, runs, flow, history, faults>>
    BY <2>8, <2>13 DEF engine
  <2>14. ASSUME NEW d \in Cands, L2Fails(d) PROVE rows'[st.run][c].status = "L2_DONE"
    BY <2>6, <2>14
  <2>15. CASE EngineStep
    BY <2>2, <2>5, <2>7, <2>9, <2>11, <2>12, <2>14, <2>15 DEF EngineStep
  <2>. QED BY <2>1, <2>8, <2>10, <2>11, <2>13, <2>15 DEF Next
<1>5. ASSUME drun' # 0, code' = "ok"
      PROVE  /\ file'.run = drun'
             /\ file'.phase = "L3" => \A c \in file'.l2 : rows'[drun'][c].status = "L2_DONE"
  <2>1. CASE code = "ok"
    <3>1. drun # 0 /\ ~DaemonStarts
      BY <1>5, <1>n, <2>1 DEF Placed
    <3>2. who = "none" /\ epc = "off"
      BY <1>a, <2>1, <3>1 DEF Alone, Placed, TypeOK
    <3>3. UNCHANGED <<file, rows, drun>>
      BY <1>5, <3>1, <3>2
         DEF Next, EngineStep, L1, L2Reject, L2End, L3End, Gate, L4Done, L4Skips, L4End, L2Audit,
             L2Fails, L3Audit, L3Fails, L4Call, Next1, TimeUp, Dies, Kills, Concludes, vars, daemon
    <3>. QED BY <2>1, <3>1, <3>3 DEF Alone
  <2>2. CASE code # "ok"
    <3>1. EngineStep
      BY <1>5, <1>n, <1>c, <2>2 DEF Next, TimeUp, Dies, Kills, Exit, Concludes, vars, daemon
    <3>2. file'.run = drun /\ who = "daemon" /\ drun = st.run
      BY <1>5, <2>2, <3>1, EndsWell
    <3>3. UNCHANGED <<drun, rows>> /\ (L2End \/ L3End \/ L4End)
      BY <1>5, <2>2, <3>1 DEF EngineStep, L1, L2Reject, L2End, L3End, Gate, L4Done, L4Skips, L4End,
            L2Audit, L2Fails, L3Audit, L3Fails, L4Call, daemon
    <3>4. ASSUME file'.phase = "L3" PROVE epc = "L2" /\ file'.l2 = acc
      <4>1. st \in States /\ st = file /\ st.phase = Stage(epc)
        BY <3>3 DEF L2End, L3End, L4End, TypeOK, Placed
      <4>2. CASE L2End
        BY <4>1, <4>2, RecordParts DEF L2End
      <4>3. CASE L3End
        <5>1. file'.phase = "L4"
          BY <4>1, <4>3, RecordParts DEF L3End
        <5>. QED BY <3>4, <5>1
      <4>4. CASE L4End
        <5>1. st.phase = "L4"
          BY <4>1, <4>4 DEF L4End, Stage
        <5>2. [st EXCEPT !.phase = "COMPLETED"].phase = "COMPLETED"
          BY <4>1, RecordParts
        <5>. QED BY <3>4, <4>1, <4>4, <5>1, <5>2 DEF L4End
      <4>. QED BY <3>3, <4>2, <4>3, <4>4
    <3>. QED BY <3>2, <3>3, <3>4 DEF Alone
  <2>. QED BY <2>1, <2>2
<1>. QED BY <1>1, <1>2, <1>3, <1>4, <1>5 DEF Alone

LEMMA SettledStep ==
    ASSUME AuditInv, Lists, Alone, Settled, DoneIsFinal, [Next]_vars
    PROVE  Settled' /\ DoneIsFinal'
<1>. USE DEF AuditInv
<1>1. ASSUME NEW r \in Runs, outcome'[r] = "DONE", outcome[r] # "DONE"
      PROVE  /\ \A c \in RowsOf(r)' : rows'[r][c].status \in {"TERMINAL", "L4_DONE"}
             /\ file'.run = r /\ file'.phase = "L3" => file'.l2 = {}
  <2>1. UNCHANGED rows /\ r = drun /\ code = "ok" /\ (RowsReady(r) \/ ZeroReady(r))
    BY <1>1, DoneMoves
  <2>2. UNCHANGED file
    BY <1>1 DEF Next, EngineStep, L1, L2Reject, L2End, L3End, Gate, L4Done, L4Skips, L4End, L2Audit,
           L2Fails, L3Audit, L3Fails, L4Call, DaemonStarts, CliStarts, TimeUp, Dies, Kills, Concludes,
           vars, daemon, TypeOK
  <2>3. \A c \in RowsOf(r) : rows[r][c].status \in {"TERMINAL", "L4_DONE"}
    BY <2>1 DEF RowsReady, ZeroReady
  <2>4. ASSUME file.run = r, file.phase = "L3" PROVE file.l2 = {}
    <3>1. file.l2 \subseteq RowsOf(r) /\ \A c \in file.l2 : rows[r][c].status = "L2_DONE"
      BY <2>1, <2>4 DEF Registered, Alone, Runs
    <3>. QED BY <2>3, <3>1
  <2>. QED BY <2>1, <2>2, <2>3, <2>4 DEF RowsOf
<1>2. ASSUME NEW r \in Runs, outcome[r] = "DONE"
      PROVE  /\ \A c \in RowsOf(r)' : rows'[r][c].status \in {"TERMINAL", "L4_DONE"}
             /\ file'.run = r /\ file'.phase = "L3" => file'.l2 = {}
  <2>1. r <= runs /\ r # 0 /\ runs \in Nat
    BY <1>2, AuditAssumption DEF PastL2, Runs, TypeOK
  <2>2. ASSUME epc # "off", st.run = r
        PROVE  epc \notin {"L1", "L2"} /\ (epc = "L3" => todo = {})
    <3>1. st = file /\ st.phase = Stage(epc)
      BY <2>2 DEF Placed
    <3>2. epc \notin {"L1", "L2"}
      BY <1>2, <2>2, <3>1 DEF PastL2, Passed, Stage
    <3>3. epc = "L3" => todo = {}
      BY <1>2, <2>2, <3>1 DEF Settled, Lists, Stage
    <3>. QED BY <3>2, <3>3
  <2>3. ASSUME NEW c \in Cands, rows'[r][c] # NoRow
        PROVE  rows'[r][c].status \in {"TERMINAL", "L4_DONE"}
    <3>1. CASE rows'[r][c] = rows[r][c]
      BY <1>2, <2>3, <3>1 DEF DoneIsFinal, RowsOf
    <3>2. CASE Rewritten(r, c)
      BY <2>2, <3>2, MergedParts DEF Rewritten
    <3>. QED BY <3>1, <3>2, RowMoves
  <2>4. ASSUME file'.run = r, file'.phase = "L3" PROVE file'.l2 = {}
    <3>1. file' # Torn /\ file'.run # runs + 1
      BY <2>1, <2>4 DEF Torn, Blank
    <3>2. epc # "off" => st = file
      BY DEF Placed
    <3>. QED BY <1>2, <2>2, <2>4, <3>1, <3>2, FileMoves DEF Settled
  <2>. QED BY <2>3, <2>4 DEF RowsOf
<1>. QED BY <1>1, <1>2 DEF Settled, DoneIsFinal

\* When no process is started from the command line before the daemon has looked at the
\* rows of its run, they are final once the run is DONE: nothing that is resumed, cut,
\* killed or torn afterwards reopens one.
THEOREM DoneStaysFinal == Spec /\ CliWaits => []DoneIsFinal
<1>1. Init => FinalInv
  <2>1. Init => AuditInv
    BY TypesInitially, PlacedInitially, RestInitially DEF AuditInv
  <2>2. Init => Lists /\ Alone /\ Settled /\ DoneIsFinal
    BY DEF Init, Lists, Alone, Settled, DoneIsFinal, RowsOf
  <2>. QED BY <2>1, <2>2 DEF FinalInv
<1>2. FinalInv /\ [Next]_vars /\ [CliStarts => drun = 0]_vars => FinalInv'
  <2>. SUFFICES ASSUME FinalInv, [Next]_vars, [CliStarts => drun = 0]_vars PROVE FinalInv'
    OBVIOUS
  <2>1. CliStarts => drun = 0
    BY DEF vars, CliStarts, Fresh, Begin, FinalInv, AuditInv, TypeOK, engine, Held
  <2>. QED BY <2>1, AuditStep, ListsStep, AloneStep, SettledStep DEF FinalInv, AuditInv
<1>3. FinalInv => DoneIsFinal
  BY DEF FinalInv
<1>. QED BY <1>1, <1>2, <1>3, PTL DEF Spec, CliWaits

-------------------------------------------------------------------------------
(* The cloud court: for every set of replies, weights and sentiments, and     *)
(* however often the providers go away.                                      *)


Under == {"asking", "paused", "answered"}
Said  == {"STRONG", "MODERATE", "WEAK", "FATAL", "MATERIAL", "MINOR", "PASS", "HOLD", "VETO",
          "UNFIT", "GUARDED", "GARBLED", "READ", "none"}

Types ==
    /\ cpc \in {"idle", "advocates", "judge", "notary", "attribution", "ruled"}
    /\ brief \in H!Briefs
    /\ call \in [Parties -> Under \union {"none"}]
    /\ reply \in [Parties -> Said]
    /\ verdict \in H!Verdicts \union {"NONE"}

\* The Judge has ruled, or neither plea survived the evidence guards.
Judged == Heard("judge") \/ (call["judge"] = "none" /\ reply["bull"] = "GUARDED"
                                                    /\ reply["bear"] = "GUARDED")
Pleaded == Heard("bull") /\ Heard("bear")
Ruled   == ruling # NoRuling /\ ruling.verdict \in H!Verdicts

\* How far the requests are in each phase; a verdict is there at the end and only then.
Phase ==
    /\ verdict # "NONE" <=> cpc = "ruled"
    /\ cpc = "idle" => Adjourned
    /\ cpc \notin {"idle", "ruled"} => brief.zeta # "exit"
    /\ cpc \in {"advocates", "judge"} =>
          ruling = NoRuling /\ call["notary"] = "none" /\ call["hold"] = "none"
    /\ cpc = "advocates" => call["judge"] = "none"
    /\ cpc = "judge" => Pleaded
    /\ cpc = "notary" => Pleaded /\ Judged /\ Ruled /\ call["hold"] = "none"
    /\ cpc = "attribution" => Pleaded /\ Judged /\ Ruled /\ Heard("notary")
    /\ cpc = "ruled" => \A p \in Parties : call[p] \in {"none", "answered"}
    /\ cpc = "ruled" /\ ruling # NoRuling => Pleaded /\ Judged /\ Heard("notary")

\* An answer is one that its parser knows.
Answers == \A p \in Parties : Heard(p) => reply[p] \in Replies(p)

Within == verdict # "NONE" => verdict \in H!Envelope(brief)

CInv == Types /\ Phase /\ Answers /\ Within /\ PausedHasIncident /\ PassWithinEnvelope

\* What may come back is one of the replies the parsers tell apart.
LEMMA RepliesSaid == \A p \in Parties : Replies(p) \subseteq Said
BY CourtAssumption DEF Replies, Said

\* The court at rest satisfies the inductive invariant.
LEMMA InitOK == CourtInit => CInv
<1>. SUFFICES ASSUME CourtInit PROVE CInv
  OBVIOUS
<1>1. Types /\ Phase
  BY DEF CourtInit, Adjourned, Types, Phase, Quiet, Under, Said, H!Briefs, H!NoBrief, NoRuling,
         Parties
<1>2. Answers /\ Within /\ PausedHasIncident /\ PassWithinEnvelope
  BY DEF CourtInit, Adjourned, Answers, Heard, Within, PausedHasIncident, PassWithinEnvelope, Quiet
<1>. QED BY <1>1, <1>2 DEF CInv

\* A request that answers: nobody else's state changes.
LEMMA StepRespond ==
    ASSUME CInv, NEW p \in Parties, Respond(p) PROVE CInv'
<1>1. PICK r \in Replies(p) : reply' = [reply EXCEPT ![p] = r]
  BY DEF Respond, Answer
<1>2. /\ call[p] = "asking" /\ call' = [call EXCEPT ![p] = "answered"]
      /\ UNCHANGED <<cpc, brief, ruling, verdict, incidents>>
  BY DEF Respond, Answer
<1>3. Types'
  BY <1>1, <1>2, RepliesSaid DEF CInv, Types, Under
<1>4. Phase'
  BY <1>1, <1>2 DEF CInv, Types, Phase, Adjourned, Pleaded, Judged, Ruled, Heard, Quiet, Parties
<1>5. PausedHasIncident'
  BY <1>2 DEF CInv, Types, PausedHasIncident
<1>6. Answers'
  BY <1>1, <1>2 DEF CInv, Types, Answers, Heard, Replies
<1>. QED BY <1>2, <1>3, <1>4, <1>5, <1>6 DEF CInv, Within, PassWithinEnvelope, H!Envelope

\* Who pauses opens the incident of its provider and model.
LEMMA StepPause ==
    ASSUME CInv, NEW p \in Parties, Pause(p) PROVE CInv'
<1>1. /\ call[p] = "asking" /\ call' = [call EXCEPT ![p] = "paused"]
      /\ incidents' = incidents \union {Key[p]}
      /\ UNCHANGED <<cpc, brief, reply, ruling, verdict>>
  BY DEF Pause
<1>2. Types'
  BY <1>1 DEF CInv, Types, Under
<1>3. Phase'
  BY <1>1 DEF CInv, Types, Phase, Adjourned, Pleaded, Judged, Ruled, Heard, Quiet, Parties
<1>4. PausedHasIncident'
  <2>1. {q \in Parties : call'[q] = "paused"} = {q \in Parties : call[q] = "paused"} \union {p}
    BY <1>1 DEF CInv, Types
  <2>. QED BY <2>1, <1>1 DEF CInv, PausedHasIncident
<1>5. Answers'
  BY <1>1 DEF CInv, Types, Answers, Heard, Replies
<1>. QED BY <1>1, <1>2, <1>3, <1>4, <1>5 DEF CInv, Within, PassWithinEnvelope, H!Envelope

\* Two requests that are under way at once have different incidents: the Notary and the
\* attribution share a model, but the Notary has answered before the other asks.
LEMMA IncidentsApart ==
    ASSUME CInv, NEW p \in Parties, NEW q \in Parties,
           call[p] = "paused", call[q] = "paused", p # q
    PROVE  Key[p] # Key[q]
<1>1. call["hold"] = "paused" => call["notary"] # "paused"
  BY DEF CInv, Types, Phase, Adjourned, Quiet, Heard, Parties
<1>2. /\ Key["bull"] = <<"kimi", "v1">> /\ Key["bear"] = <<"deepseek", "pro">>
      /\ Key["judge"] = <<"deepseek", "flash">> /\ Key["notary"] = <<"qwen", "plus">>
      /\ Key["hold"] = <<"qwen", "plus">>
  BY DEF Key
<1>3. p \in {"bull", "bear", "judge", "notary", "hold"}
      /\ q \in {"bull", "bear", "judge", "notary", "hold"}
  BY DEF Parties
<1>. QED BY <1>1, <1>2, <1>3

\* Who recovers closes its own incident and no other.
LEMMA StepRecover ==
    ASSUME CInv, NEW p \in Parties, Recover(p) PROVE CInv'
<1>1. PICK r \in Replies(p) : reply' = [reply EXCEPT ![p] = r]
  BY DEF Recover, Answer
<1>2. /\ call[p] = "paused" /\ call' = [call EXCEPT ![p] = "answered"]
      /\ incidents' = incidents \ {Key[p]}
      /\ UNCHANGED <<cpc, brief, ruling, verdict>>
  BY DEF Recover, Answer
<1>3. Types'
  BY <1>1, <1>2, RepliesSaid DEF CInv, Types, Under
<1>4. Phase'
  BY <1>1, <1>2 DEF CInv, Types, Phase, Adjourned, Pleaded, Judged, Ruled, Heard, Quiet, Parties
<1>5. PausedHasIncident'
  <2>1. {q \in Parties : call'[q] = "paused"} = {q \in Parties : call[q] = "paused"} \ {p}
    BY <1>2 DEF CInv, Types
  <2>2. \A q \in Parties : call[q] = "paused" /\ q # p => Key[q] # Key[p]
    BY <1>2, IncidentsApart
  <2>. QED BY <2>1, <2>2, <1>2 DEF CInv, PausedHasIncident
<1>6. Answers'
  BY <1>1, <1>2 DEF CInv, Types, Answers, Heard, Replies
<1>. QED BY <1>2, <1>3, <1>4, <1>5, <1>6 DEF CInv, Within, PassWithinEnvelope, H!Envelope

\* A step of the court itself leaves the set of paused requests as it is.
LEMMA IncidentsStay ==
    ASSUME CInv, NEW p \in Parties, call[p] = "none",
           call' \in {call, [call EXCEPT ![p] = "asking"]}, UNCHANGED incidents
    PROVE  PausedHasIncident'
<1>1. \A q \in Parties : call'[q] = "paused" <=> call[q] = "paused"
  BY DEF CInv, Types
<1>. QED BY <1>1 DEF CInv, PausedHasIncident

\* A request that is asked has no answer yet; those that answered keep theirs.
LEMMA AskingKeepsAnswers ==
    ASSUME CInv, NEW p \in Parties, call[p] = "none",
           call' \in {call, [call EXCEPT ![p] = "asking"]}, UNCHANGED reply
    PROVE  /\ call' \in [Parties -> Under \union {"none"}]
           /\ Answers'
           /\ \A q \in Parties : Heard(q)' <=> Heard(q)
<1>1. call' \in [Parties -> Under \union {"none"}]
  BY DEF CInv, Types, Under
<1>2. \A q \in Parties : call'[q] = "answered" <=> call[q] = "answered"
  BY DEF CInv, Types
<1>3. \A q \in Parties : Heard(q)' <=> Heard(q)
  BY <1>2 DEF Heard
<1>4. \A q \in Parties : Heard(q) => reply[q] \in Replies(q)
  BY DEF CInv, Answers
<1>5. Answers'
  <2>. SUFFICES ASSUME NEW q \in Parties, Heard(q)' PROVE reply'[q] \in Replies(q)
    BY DEF Answers, Replies
  <2>. QED BY <1>3, <1>4
<1>. QED BY <1>1, <1>3, <1>5

\* Convening: an EXIT is decided at once, anything else starts both advocates.
LEMMA StepConvene ==
    ASSUME CInv, NEW b \in H!Briefs, Convene(b) PROVE CInv'
<1>1. /\ cpc = "idle" /\ Adjourned /\ brief' = b /\ UNCHANGED <<reply, ruling, incidents>>
  BY DEF Convene, CInv, Phase
<1>2. CASE b.zeta = "exit" /\ verdict' = "VETO" /\ cpc' = "ruled" /\ UNCHANGED call
  <2>1. Types' /\ Phase'
    BY <1>1, <1>2 DEF CInv, Types, Phase, Adjourned, Quiet, H!Verdicts, Heard
  <2>3. Answers'
    BY <1>1, <1>2 DEF Adjourned, Answers, Heard, Quiet
  <2>2. Within' /\ PausedHasIncident' /\ PassWithinEnvelope'
    BY <1>1, <1>2 DEF CInv, Within, PausedHasIncident, PassWithinEnvelope, H!Envelope
  <2>. QED BY <2>1, <2>2, <2>3 DEF CInv
<1>3. CASE /\ b.zeta # "exit" /\ cpc' = "advocates" /\ UNCHANGED verdict
           /\ call' = [call EXCEPT !["bull"] = "asking", !["bear"] = "asking"]
  <2>1. Types'
    BY <1>1, <1>3 DEF CInv, Types, Under
  <2>2. Phase'
    BY <1>1, <1>3 DEF CInv, Types, Phase, Adjourned, Quiet, Parties
  <2>3. \A q \in Parties : call'[q] # "paused" /\ call[q] # "paused"
    BY <1>1, <1>3 DEF CInv, Types, Adjourned, Quiet
  <2>4. PausedHasIncident'
    BY <1>1, <2>3 DEF CInv, PausedHasIncident
  <2>5. Answers'
    BY <1>1, <1>3 DEF CInv, Types, Adjourned, Answers, Heard, Quiet
  <2>. QED BY <1>1, <1>3, <2>1, <2>2, <2>4, <2>5
           DEF CInv, Within, PassWithinEnvelope, Adjourned
<1>. QED BY <1>2, <1>3 DEF Convene

\* The Judge's answer, and what stands in for one, is a ruling.
LEMMA RulingsRule ==
    ASSUME CInv, Heard("judge"), NEW r \in Rulings
    PROVE  r # NoRuling /\ r.verdict \in H!Verdicts
<1>1. reply["judge"] \in {"PASS", "HOLD", "VETO", "UNFIT", "GUARDED", "GARBLED"}
  BY CourtAssumption DEF CInv, Answers, Replies, Parties
<1>2. CASE reply["judge"] = "GARBLED"
  <2>1. PICK phi \in Phis : r = LocalRuling(phi)
    BY <1>2 DEF Rulings
  <2>2. r.verdict \in H!Verdicts
    BY <2>1 DEF LocalRuling, BandOf, H!Verdicts
  <2>. QED BY <2>2 DEF NoRuling, H!Verdicts
<1>3. CASE reply["judge"] \in {"GUARDED", "UNFIT"}
  BY <1>3 DEF Rulings, Insufficient, NoRuling, H!Verdicts
<1>4. CASE reply["judge"] \in {"PASS", "HOLD", "VETO"}
  <2>1. PICK sc \in ScoresOf(reply["judge"]) :
            r = [verdict |-> reply["judge"], score |-> sc, by |-> "judge"]
    BY <1>4 DEF Rulings
  <2>. QED BY <2>1, <1>4 DEF NoRuling, H!Verdicts
<1>. QED BY <1>1, <1>2, <1>3, <1>4

\* The cap on the weighted score and the guards after it stay inside the envelope.
LEMMA LoweredWithin ==
    ASSUME CInv, Ruled, brief.zeta # "exit", NEW sc, NEW v \in Lowered(BandOfCourt(sc))
    PROVE  /\ v \in H!Verdicts /\ v \in H!Envelope(brief)
           /\ v = "PASS" => ruling.verdict = "PASS" /\ brief.kind = "open" /\ brief.zeta = "none"
<1>. DEFINE w == BandOfCourt(sc)
<1>1. w \in H!Verdicts /\ (w = "PASS" => ruling.verdict = "PASS" /\ brief.kind # "downgraded")
  BY DEF Ruled, BandOfCourt, BandOf, H!Verdicts
<1>2. /\ v \in H!Verdicts /\ v # "NONE"
      /\ v = "PASS" => w = "PASS" /\ brief.zeta # "offline"
  BY <1>1 DEF Lowered, H!Verdicts
<1>3. brief.kind \in {"open", "downgraded"} /\ brief.zeta \in {"none", "exit", "offline"}
  BY DEF CInv, Types, H!Briefs
<1>. QED BY <1>1, <1>2, <1>3 DEF H!Envelope, H!Verdicts

\* A HOLD may always be lowered.
LEMMA HoldWithin ==
    ASSUME CInv, brief.zeta # "exit", NEW v \in Lowered("HOLD")
    PROVE  v \in {"HOLD", "VETO"} /\ v \in H!Envelope(brief)
BY DEF Lowered, H!Envelope, H!Verdicts

\* The Judge is asked when both advocates have answered.
LEMMA StepJoin ==
    ASSUME CInv, Join PROVE CInv'
<1>1. /\ cpc = "advocates" /\ Pleaded /\ UNCHANGED <<brief, reply, verdict, incidents>>
      /\ ruling = NoRuling /\ call["notary"] = "none" /\ call["hold"] = "none"
      /\ call["judge"] = "none" /\ brief.zeta # "exit" /\ verdict = "NONE"
  BY DEF Join, JoinBoth, Pleaded, CInv, Phase
<1>2. CASE /\ reply["bull"] = "GUARDED" /\ reply["bear"] = "GUARDED"
           /\ ruling' = Insufficient /\ call' = [call EXCEPT !["notary"] = "asking"]
           /\ cpc' = "notary"
  <2>1. Types' /\ Answers'
    BY <1>1, <1>2, AskingKeepsAnswers DEF CInv, Types, Parties
  <2>2. Phase'
    BY <1>1, <1>2 DEF CInv, Types, Phase, Pleaded, Judged, Ruled, Heard, Insufficient, NoRuling,
                      H!Verdicts, Parties
  <2>3. PausedHasIncident'
    BY <1>1, <1>2, IncidentsStay DEF Parties
  <2>. QED BY <1>1, <2>1, <2>2, <2>3 DEF CInv, Within, PassWithinEnvelope
<1>3. CASE /\ call' = [call EXCEPT !["judge"] = "asking"] /\ cpc' = "judge"
           /\ UNCHANGED ruling
  <2>1. Types' /\ Answers'
    BY <1>1, <1>3, AskingKeepsAnswers DEF CInv, Types, Parties
  <2>2. Phase'
    BY <1>1, <1>3 DEF CInv, Types, Phase, Pleaded, Heard, Parties
  <2>3. PausedHasIncident'
    BY <1>1, <1>3, IncidentsStay DEF Parties
  <2>. QED BY <1>1, <2>1, <2>2, <2>3 DEF CInv, Within, PassWithinEnvelope
<1>. QED BY <1>2, <1>3 DEF Join

\* The first instance rules.
LEMMA StepRule ==
    ASSUME CInv, Rule PROVE CInv'
<1>1. /\ cpc = "judge" /\ Heard("judge") /\ ruling' \in Rulings /\ cpc' = "notary"
      /\ call' = [call EXCEPT !["notary"] = "asking"]
      /\ UNCHANGED <<brief, reply, verdict, incidents>>
      /\ call["notary"] = "none" /\ call["hold"] = "none" /\ Pleaded
      /\ brief.zeta # "exit" /\ verdict = "NONE"
  BY DEF Rule, CInv, Phase
<1>2. Ruled'
  BY <1>1, RulingsRule DEF Ruled, NoRuling, H!Verdicts
<1>3. Types' /\ Answers'
  BY <1>1, AskingKeepsAnswers DEF CInv, Types, Parties
<1>4. Phase'
  BY <1>1, <1>2 DEF CInv, Types, Phase, Pleaded, Judged, Heard, Parties
<1>5. PausedHasIncident'
  BY <1>1, IncidentsStay DEF Parties
<1>. QED BY <1>1, <1>3, <1>4, <1>5 DEF CInv, Within, PassWithinEnvelope

\* The ruling is recorded and either final or sent to attribution.
LEMMA StepRecord ==
    ASSUME CInv, Record PROVE CInv'
<1>1. /\ cpc = "notary" /\ Heard("notary") /\ Pleaded /\ Judged /\ Ruled
      /\ call["hold"] = "none" /\ brief.zeta # "exit" /\ verdict = "NONE"
      /\ UNCHANGED <<brief, reply, ruling, incidents>>
  BY DEF Record, CInv, Phase
<1>2. PICK s \in Weighed :
         LET v == BandOfCourt(s) IN
         IF v = "HOLD" /\ ~Guarded
            THEN /\ call' = [call EXCEPT !["hold"] = "asking"]
                 /\ cpc' = "attribution" /\ UNCHANGED verdict
            ELSE /\ verdict' \in Lowered(v) /\ cpc' = "ruled" /\ UNCHANGED call
  BY DEF Record
<1>3. CASE /\ call' = [call EXCEPT !["hold"] = "asking"]
           /\ cpc' = "attribution" /\ UNCHANGED verdict
  <2>1. Types' /\ Answers' /\ \A q \in Parties : Heard(q)' <=> Heard(q)
    BY <1>1, <1>3, AskingKeepsAnswers DEF CInv, Types, Parties
  <2>2. call'["judge"] = call["judge"]
    BY <1>3 DEF CInv, Types, Parties
  <2>3. Pleaded' /\ Judged' /\ Heard("notary")' /\ Ruled'
    BY <1>1, <2>1, <2>2 DEF Pleaded, Judged, Ruled, Parties
  <2>4. Phase'
    BY <1>1, <1>3, <2>3 DEF Phase
  <2>5. PausedHasIncident'
    BY <1>1, <1>3, IncidentsStay DEF Parties
  <2>. QED BY <1>1, <1>3, <2>1, <2>4, <2>5 DEF CInv, Within, PassWithinEnvelope
<1>4. CASE verdict' \in Lowered(BandOfCourt(s)) /\ cpc' = "ruled" /\ UNCHANGED call
  <2>1. /\ verdict' \in H!Verdicts /\ verdict' \in H!Envelope(brief)
        /\ verdict' = "PASS" =>
              ruling.verdict = "PASS" /\ brief.kind = "open" /\ brief.zeta = "none"
    BY <1>1, <1>4, LoweredWithin
  <2>2. Types' /\ Answers' /\ PausedHasIncident'
    BY <1>1, <1>4, <2>1 DEF CInv, Types, Answers, Heard, Replies, PausedHasIncident
  <2>3. \A p \in Parties : call[p] \in {"none", "answered"}
    BY <1>1 DEF CInv, Types, Phase, Pleaded, Judged, Heard, Parties, Under
  <2>4. Phase'
    BY <1>1, <1>4, <2>1, <2>3
       DEF CInv, Phase, Pleaded, Judged, Ruled, Heard, H!Verdicts, Parties
  <2>5. Within' /\ PassWithinEnvelope'
    BY <1>1, <1>4, <2>1 DEF Within, PassWithinEnvelope, H!Envelope
  <2>. QED BY <2>2, <2>4, <2>5 DEF CInv
<1>. QED BY <1>2, <1>3, <1>4

\* The attribution of a HOLD is the last request.
LEMMA StepAttribute ==
    ASSUME CInv, Attribute PROVE CInv'
<1>1. /\ cpc = "attribution" /\ Heard("hold") /\ Heard("notary") /\ Pleaded /\ Judged /\ Ruled
      /\ brief.zeta # "exit" /\ verdict' \in Lowered("HOLD") /\ cpc' = "ruled"
      /\ UNCHANGED <<brief, call, reply, ruling, incidents>>
  BY DEF Attribute, CInv, Phase
<1>2. verdict' \in {"HOLD", "VETO"} /\ verdict' \in H!Envelope(brief)
  BY <1>1, HoldWithin
<1>3. Types' /\ Answers' /\ PausedHasIncident'
  BY <1>1, <1>2 DEF CInv, Types, Answers, Heard, Replies, PausedHasIncident, H!Verdicts
<1>4. \A p \in Parties : call[p] \in {"none", "answered"}
  BY <1>1 DEF CInv, Types, Phase, Pleaded, Judged, Heard, Parties, Under
<1>5. Phase'
  BY <1>1, <1>2, <1>4 DEF CInv, Phase, Pleaded, Judged, Ruled, Heard, Parties
<1>6. Within' /\ PassWithinEnvelope'
  BY <1>1, <1>2 DEF Within, PassWithinEnvelope, H!Envelope
<1>. QED BY <1>3, <1>5, <1>6 DEF CInv

\* The verdict is taken when no request is under way, so no incident is left behind.
LEMMA StepTakeVerdict ==
    ASSUME CInv, TakeVerdict PROVE CInv'
<1>1. cpc = "ruled" /\ \A p \in Parties : call[p] # "paused"
  BY DEF TakeVerdict, CInv, Phase
<1>2. Adjourned' /\ UNCHANGED incidents
  BY DEF TakeVerdict, Adjourn, Adjourned
<1>3. Types' /\ Phase'
  BY <1>2 DEF Adjourned, Types, Phase, Quiet, Under, Said, H!Briefs, H!NoBrief, NoRuling, Parties
<1>4. Answers' /\ Within' /\ PassWithinEnvelope'
  BY <1>2 DEF Adjourned, Answers, Heard, Within, PassWithinEnvelope, Quiet
<1>5. PausedHasIncident'
  BY <1>1, <1>2 DEF Adjourned, CInv, PausedHasIncident, Quiet
<1>. QED BY <1>3, <1>4, <1>5 DEF CInv

\* What the providers do, and a step that changes nothing, leaves the court alone.
LEMMA StepElse ==
    ASSUME CInv, UNCHANGED <<cpc, brief, call, reply, ruling, verdict, incidents>> PROVE CInv'
<1>1. Types' /\ Phase'
  BY DEF CInv, Types, Phase, Adjourned, Pleaded, Judged, Ruled, Heard
<1>2. Answers' /\ Within' /\ PausedHasIncident' /\ PassWithinEnvelope'
  BY DEF CInv, Answers, Heard, Replies, Within, PausedHasIncident, PassWithinEnvelope, H!Envelope
<1>. QED BY <1>1, <1>2 DEF CInv

\* Every step of the court keeps the invariant.
LEMMA StepOK == CInv /\ [CourtNext]_courtVars => CInv'
<1>. SUFFICES ASSUME CInv, [CourtNext]_courtVars PROVE CInv'
  OBVIOUS
<1>1. CASE Join \/ Rule \/ Record \/ Attribute
  BY <1>1, StepJoin, StepRule, StepRecord, StepAttribute
<1>2. CASE \E p \in Parties : Respond(p) \/ Pause(p) \/ Recover(p)
  BY <1>2, StepRespond, StepPause, StepRecover
<1>3. CASE Weather
  BY <1>3, StepElse DEF Weather, ProviderDown, ProviderUp
<1>4. CASE TakeVerdict
  BY <1>4, StepTakeVerdict
<1>5. CASE \E b \in H!Briefs : Convene(b)
  BY <1>5, StepConvene
<1>6. CASE UNCHANGED courtVars
  BY <1>6, StepElse DEF courtVars
<1>. QED BY <1>1, <1>2, <1>3, <1>4, <1>5, <1>6 DEF CourtNext, CourtStep

LEMMA Invariant == CourtSpec => []CInv
BY InitOK, StepOK, PTL DEF CourtSpec

-------------------------------------------------------------------------------
\* An incident is open for exactly the paused requests
\* (_pause_until_l4_provider_recovers, decision_engine.py:2476).
THEOREM IncidentsFollowPauses == CourtSpec => []PausedHasIncident
<1>1. CInv => PausedHasIncident
  BY DEF CInv
<1>. QED BY <1>1, Invariant, PTL

\* No weight, bonus or recorder lifts a verdict over the envelope of the Judge and of L3
\* (_apply_court_verdict_cap, decision_engine.py:6430).
THEOREM PassStaysInEnvelope == CourtSpec => []PassWithinEnvelope
<1>1. CInv => PassWithinEnvelope
  BY DEF CInv
<1>. QED BY <1>1, Invariant, PTL

\* The court never outruns a party it must hear (L4SupremeCourt.audit,
\* decision_engine.py:6596).
THEOREM CourtHearsAll == CourtSpec => []NobodyOutrun
<1>1. CInv => NobodyOutrun
  <2>. SUFFICES ASSUME CInv, cpc = "ruled", ruling # NoRuling PROVE NobodyOutrun
    BY DEF NobodyOutrun
  <2>1. Pleaded /\ Judged /\ Heard("notary")
    BY DEF CInv, Phase
  <2>. QED BY <2>1 DEF NobodyOutrun, Pleaded, Judged
<1>. QED BY <1>1, Invariant, PTL

-------------------------------------------------------------------------------
(* Types.                                                                   *)

\* What the proofs above did not need to know: who is asked has not answered, and the
\* score of a ruling is one of 0 to 100.
Rest ==
    /\ works \subseteq Providers /\ outages \in 0..MaxOutages
    /\ \A p \in Parties : ~Heard(p) => reply[p] = "none"
    /\ ruling.verdict \in H!Verdicts \union {"NONE"} /\ ruling.score \in 0..100

\* The weighing of the pleas without a Judge stays on the scale.
Scale       == 0..100
Hundredfold == 0..10000
PleasFor     == {82, 72, 50, 58}
PleasAgainst == {82, 68, 50, 48}
Shares       == 40..70
Sum(b, c, w) == b * w + (100 - c) * (100 - w)
Percent(n)   == n \div 100

LEMMA Weighing ==
    \A x \in PleasFor, y \in PleasAgainst, w \in Shares : Sum(x, y, w) \in Hundredfold
<1>. TAKE x \in PleasFor, y \in PleasAgainst, w \in Shares
<1>. USE DEF PleasFor, PleasAgainst, Shares
<1>1. x * w \in 0..(82 * w)
  <2>1. CASE x = 82
    BY <2>1
  <2>2. CASE x = 72
    BY <2>2
  <2>3. CASE x = 50
    BY <2>3
  <2>4. CASE x = 58
    BY <2>4
  <2>. QED BY <2>1, <2>2, <2>3, <2>4
<1>2. (100 - y) * (100 - w) \in 0..(52 * (100 - w))
  <2>1. CASE y = 82
    BY <2>1
  <2>2. CASE y = 68
    BY <2>2
  <2>3. CASE y = 50
    BY <2>3
  <2>4. CASE y = 48
    BY <2>4
  <2>. QED BY <2>1, <2>2, <2>3, <2>4
<1>3. \A a \in 0..(82 * w), b \in 0..(52 * (100 - w)) : a + b \in 0..10000
  OBVIOUS
<1>. DEFINE a == x * w
           b == (100 - y) * (100 - w)
<1>4. Sum(x, y, w) = a + b
  BY DEF Sum
<1>5. a \in 0..(82 * w) /\ b \in 0..(52 * (100 - w))
  BY <1>1, <1>2
<1>. HIDE DEF a, b
<1>. QED BY <1>3, <1>4, <1>5 DEF Hundredfold

LEMMA OnScale ==
    \A x \in PleasFor, y \in PleasAgainst, w \in Shares : Weighted(x, y, w) \in Scale
<1>1. \A n \in Hundredfold : Percent(n) \in Scale
  BY DEF Hundredfold, Percent, Scale
<1>2. \A x, y, w : Weighted(x, y, w) = Percent(Sum(x, y, w))
  BY DEF Weighted, Percent, Sum
<1>. QED BY <1>1, <1>2, Weighing, Zenon

LEMMA LocalScore ==
    ASSUME NEW phi \in 0..10 PROVE LocalRuling(phi).score \in 0..100
<1>1. BullScore(reply["bull"]) \in PleasFor /\ BearScore(reply["bear"]) \in PleasAgainst
  BY DEF BullScore, BearScore, PleasFor, PleasAgainst
<1>2. 40 + 3 * phi \in Shares
  BY DEF Shares
<1>3. Weighted(BullScore(reply["bull"]), BearScore(reply["bear"]), 40 + 3 * phi) \in Scale
  BY <1>1, <1>2, OnScale, Zenon
<1>4. LocalRuling(phi).score =
        Weighted(BullScore(reply["bull"]), BearScore(reply["bear"]), 40 + 3 * phi)
  BY DEF LocalRuling
<1>5. LocalRuling(phi).score \in Scale
  BY <1>3, <1>4, Zenon
<1>. QED BY <1>5 DEF Scale

LEMMA RulingsScored ==
    ASSUME CInv, Heard("judge"), NEW r \in Rulings PROVE r.score \in 0..100
<1>1. CASE reply["judge"] = "GARBLED"
  <2>1. PICK phi \in Phis : r = LocalRuling(phi)
    BY <1>1 DEF Rulings
  <2>2. phi \in 0..10
    BY CourtAssumption
  <2>. QED BY <2>1, <2>2, LocalScore
<1>2. CASE reply["judge"] \in {"GUARDED", "UNFIT"}
  BY <1>2 DEF Rulings, Insufficient
<1>3. CASE reply["judge"] \notin {"GARBLED", "GUARDED", "UNFIT"}
  <2>1. PICK sc \in ScoresOf(reply["judge"]) :
            r = [verdict |-> reply["judge"], score |-> sc, by |-> "judge"]
    BY <1>3 DEF Rulings
  <2>2. sc \in 0..100
    BY <2>1 DEF ScoresOf
  <2>. QED BY <2>1, <2>2
<1>. QED BY <1>1, <1>2, <1>3

LEMMA StepRest == CInv /\ Rest /\ [CourtNext]_courtVars => Rest'
<1>. SUFFICES ASSUME CInv, Rest, [CourtNext]_courtVars PROVE Rest'
  OBVIOUS
<1>1. ASSUME NEW p \in Parties, Respond(p) \/ Recover(p) PROVE Rest'
  <2>1. PICK r \in Replies(p) : reply' = [reply EXCEPT ![p] = r]
    BY <1>1 DEF Respond, Recover, Answer
  <2>2. call' = [call EXCEPT ![p] = "answered"] /\ UNCHANGED <<works, outages, ruling>>
    BY <1>1 DEF Respond, Recover, Answer
  <2>. QED BY <2>1, <2>2 DEF Rest, Heard, CInv, Types
<1>2. ASSUME NEW p \in Parties, Pause(p) PROVE Rest'
  BY <1>2 DEF Pause, Rest, Heard, CInv, Types
<1>3. CASE Join \/ Record \/ Attribute
  <2>1. \A p \in Parties : Heard(p) => Heard(p)'
    BY <1>3 DEF Join, JoinBoth, Record, Attribute, Heard, CInv, Types, Phase
  <2>2. UNCHANGED <<works, outages, reply>> /\ ruling' \in {ruling, Insufficient}
    BY <1>3 DEF Join, Record, Attribute
  <2>. QED BY <2>1, <2>2 DEF Rest, Insufficient, H!Verdicts
<1>4. CASE Rule
  <2>1. \A p \in Parties : Heard(p) => Heard(p)'
    BY <1>4 DEF Rule, Heard, CInv, Types, Phase
  <2>2. ruling'.score \in 0..100 /\ ruling'.verdict \in H!Verdicts
    BY <1>4, RulingsRule, RulingsScored DEF Rule
  <2>. QED BY <1>4, <2>1, <2>2 DEF Rule, Rest
<1>5. CASE Weather
  BY <1>5, CourtAssumption DEF Weather, ProviderDown, ProviderUp, Rest, Heard
<1>6. CASE TakeVerdict
  BY <1>6, CourtAssumption DEF TakeVerdict, Adjourn, Rest, Heard, Quiet, NoRuling
<1>7. ASSUME NEW b \in H!Briefs, Convene(b) PROVE Rest'
  <2>1. \A p \in Parties : call[p] # "answered" /\ reply[p] = "none"
    BY <1>7 DEF Convene, CInv, Phase, Adjourned, Quiet
  <2>. QED BY <1>7, <2>1 DEF Convene, Rest, Heard
<1>8. CASE UNCHANGED courtVars
  BY <1>8 DEF courtVars, Rest, Heard
<1>. QED BY <1>1, <1>2, <1>3, <1>4, <1>5, <1>6, <1>7, <1>8 DEF CourtNext, CourtStep

\* The court's type invariant: replies are those the parsers know, scores stay on the
\* scale, a verdict is there at the end only (decision_engine.py:6479).
THEOREM CourtTypeCorrect == CourtSpec => []CourtTypeOK
<1>1. CourtInit => Rest
  BY CourtAssumption DEF CourtInit, Adjourned, Rest, Heard, Quiet, NoRuling
<1>2. CInv /\ Rest => CourtTypeOK
  <2>. SUFFICES ASSUME CInv, Rest PROVE CourtTypeOK
    OBVIOUS
  <2>1. call \in [Parties -> {"none", "asking", "paused", "answered"}] /\ brief \in H!Briefs
        /\ cpc \in {"idle", "advocates", "judge", "notary", "attribution", "ruled"}
    BY DEF CInv, Types, Under
  <2>2. \A p \in Parties : reply[p] \in IF Heard(p) THEN Replies(p) ELSE {"none"}
    BY DEF CInv, Answers, Rest
  <2>3. verdict \in IF cpc = "ruled" THEN H!Verdicts ELSE {"NONE"}
    BY DEF CInv, Types, Phase
  <2>4. incidents \subseteq {Key[p] : p \in Parties}
    BY DEF CInv, PausedHasIncident
  <2>. QED BY <2>1, <2>2, <2>3, <2>4 DEF CourtTypeOK, Rest
<1>. QED BY <1>1, <1>2, StepRest, Invariant, PTL DEF CourtSpec

-------------------------------------------------------------------------------
(* The court implements the hearing.                                        *)

\* A step that leaves the phase outside alone, and pauses nobody, is not seen.
LEMMA Unseen ==
    ASSUME \/ cpc' = cpc
           \/ {cpc, cpc'} \cap {"idle", "ruled"} = {},
           (\E p \in Parties : call'[p] = "paused") <=> \E p \in Parties : call[p] = "paused",
           UNCHANGED <<brief, verdict>>
    PROVE  UNCHANGED H!hearing
<1>1. HearingState' = HearingState
  BY DEF HearingState
<1>. QED BY <1>1 DEF H!hearing

\* Each step of the court is a step of the hearing or is not seen.
LEMMA StepIsHearing ==
    CInv /\ [CourtNext]_courtVars => [H!HearingNext]_(H!hearing)
<1>. SUFFICES ASSUME CInv, [CourtNext]_courtVars PROVE [H!HearingNext]_(H!hearing)
  OBVIOUS
<1>. DEFINE Standing(c) == \E p \in Parties : c[p] = "paused"
<1>1. ASSUME NEW p \in Parties, Respond(p) PROVE UNCHANGED H!hearing
  <2>1. \A q \in Parties : call'[q] = "paused" <=> call[q] = "paused"
    BY <1>1 DEF Respond, Answer, CInv, Types
  <2>. QED BY <1>1, <2>1, Unseen DEF Respond
<1>2. ASSUME NEW p \in Parties, Pause(p) PROVE H!Stall \/ UNCHANGED H!hearing
  <2>1. cpc' = cpc /\ cpc \notin {"idle", "ruled"} /\ UNCHANGED <<brief, verdict>>
    BY <1>2 DEF Pause, CInv, Phase, Adjourned, Quiet
  <2>2. call'[p] = "paused"
    BY <1>2 DEF Pause, CInv, Types
  <2>3. HearingState' = "paused" /\ HearingState \in {"paused", "sitting"}
    BY <2>1, <2>2 DEF HearingState
  <2>. QED BY <2>1, <2>3 DEF H!Stall, H!hearing
<1>3. ASSUME NEW p \in Parties, Recover(p) PROVE H!Resume \/ UNCHANGED H!hearing
  <2>1. cpc' = cpc /\ cpc \notin {"idle", "ruled"} /\ UNCHANGED <<brief, verdict>>
    BY <1>3 DEF Recover, CInv, Phase, Adjourned, Quiet
  <2>2. call[p] = "paused"
    BY <1>3 DEF Recover
  <2>3. HearingState = "paused" /\ HearingState' \in {"paused", "sitting"}
    BY <2>1, <2>2 DEF HearingState
  <2>. QED BY <2>1, <2>3 DEF H!Resume, H!hearing
<1>4. ASSUME NEW b \in H!Briefs, Convene(b) PROVE H!Open(b)
  <2>1. cpc = "idle" /\ Adjourned
    BY <1>4 DEF Convene, CInv, Phase
  <2>2. CASE b.zeta = "exit" /\ verdict' = "VETO" /\ cpc' = "ruled"
    BY <1>4, <2>1, <2>2 DEF Convene, HearingState, H!Open
  <2>3. CASE b.zeta # "exit" /\ cpc' = "advocates" /\ UNCHANGED verdict
             /\ call' = [call EXCEPT !["bull"] = "asking", !["bear"] = "asking"]
    <3>1. \A q \in Parties : call'[q] # "paused"
      BY <2>1, <2>3 DEF Adjourned, Quiet
    <3>2. HearingState' = "sitting" /\ HearingState = "idle"
      BY <2>1, <2>3, <3>1 DEF HearingState
    <3>. QED BY <1>4, <2>1, <2>3, <3>2 DEF Convene, Adjourned, H!Open
  <2>. QED BY <1>4, <2>2, <2>3 DEF Convene
<1>5. ASSUME Join \/ Rule PROVE UNCHANGED H!hearing
  <2>1. /\ {cpc, cpc'} \cap {"idle", "ruled"} = {} /\ UNCHANGED <<brief, verdict>>
        /\ call["judge"] = "none" \/ Rule
    BY <1>5 DEF Join, JoinBoth, Rule, CInv, Phase
  <2>2. PICK q \in Parties : call[q] = "none" /\ call' = [call EXCEPT ![q] = "asking"]
    BY <1>5 DEF Join, JoinBoth, Rule, CInv, Phase, Parties
  <2>3. \A p \in Parties : call'[p] = "paused" <=> call[p] = "paused"
    BY <2>2 DEF CInv, Types
  <2>. QED BY <2>1, <2>3, Unseen
<1>6. ASSUME Record PROVE H!Decide \/ UNCHANGED H!hearing
  <2>1. /\ cpc = "notary" /\ UNCHANGED brief /\ Ruled /\ brief.zeta # "exit"
        /\ call["hold"] = "none"
    BY <1>6 DEF Record, CInv, Phase
  <2>2. \A p \in Parties : call[p] # "paused"
    BY <1>6, <2>1 DEF Record, CInv, Types, Phase, Pleaded, Judged, Heard, Parties
  <2>3. HearingState = "sitting"
    BY <2>1, <2>2 DEF HearingState
  <2>4. CASE cpc' = "attribution" /\ call' = [call EXCEPT !["hold"] = "asking"]
             /\ UNCHANGED verdict
    <3>1. \A p \in Parties : call'[p] # "paused"
      BY <2>2, <2>4 DEF CInv, Types
    <3>. QED BY <2>1, <2>2, <2>4, <3>1, Unseen
  <2>5. CASE cpc' = "ruled" /\ \E s \in Weighed : verdict' \in Lowered(BandOfCourt(s))
    <3>1. verdict' \in H!Envelope(brief)
      BY <2>1, <2>5, LoweredWithin
    <3>. QED BY <2>1, <2>3, <2>5, <3>1 DEF HearingState, H!Decide
  <2>. QED BY <1>6, <2>4, <2>5 DEF Record
<1>7. ASSUME Attribute PROVE H!Decide
  <2>1. /\ cpc = "attribution" /\ cpc' = "ruled" /\ UNCHANGED brief /\ brief.zeta # "exit"
        /\ verdict' \in Lowered("HOLD")
    BY <1>7 DEF Attribute, CInv, Phase
  <2>2. \A p \in Parties : call[p] # "paused"
    BY <1>7 DEF Attribute, CInv, Types, Phase, Pleaded, Judged, Heard, Parties
  <2>3. HearingState = "sitting" /\ HearingState' = "ruled"
    BY <2>1, <2>2 DEF HearingState
  <2>. QED BY <2>1, <2>3, HoldWithin DEF H!Decide
<1>8. ASSUME TakeVerdict PROVE HearingState = "ruled" /\ H!Close
  BY <1>8 DEF TakeVerdict, Adjourn, HearingState, H!Close
<1>9. ASSUME Weather \/ UNCHANGED courtVars PROVE UNCHANGED H!hearing
  BY <1>9, Unseen DEF Weather, ProviderDown, ProviderUp, courtVars
<1>. QED BY <1>1, <1>2, <1>3, <1>4, <1>5, <1>6, <1>7, <1>8, <1>9
         DEF CourtNext, CourtStep, H!HearingNext

\* The court is a hearing: to the audit engine it opens, stands still and goes on, and
\* ends with one verdict that the L3 result allows (L4SupremeCourt.audit,
\* decision_engine.py:6479).
THEOREM CourtIsAHearing == CourtSpec => ImplementsHearing
<1>1. CourtInit => H!Closed
  BY DEF CourtInit, Adjourned, HearingState, H!Closed
<1>. QED BY <1>1, StepIsHearing, Invariant, PTL
         DEF CourtSpec, ImplementsHearing, H!HearingSpec

================================================================================
