------------------------------ MODULE EveningProofs ------------------------------
(***************************************************************************)
(* What holds of the evening and of the receivers for any stocks, audit    *)
(* runs, receivers on the command line, crashes and failed writes.         *)
(***************************************************************************)
EXTENDS EveningPipeline, FiniteSetTheorems, TLAPS

\* An audit under way has a run, and a dispatch a validated one.
RunInHand ==
    /\ apc # "off" => run \in Runs
    /\ apc = "dispatch" => run \in validated

TInv == TypeOK /\ RunInHand

LEMMA InitTyped == Init => TInv
<1> SUFFICES ASSUME Init PROVE TInv
    OBVIOUS
<1> USE ReceiverAssumption
<1>1. ReceiverTypeOK
    BY DEF Init, ReceiverInit, ReceiverTypeOK, RpcValues
<1>2. run = 0 /\ run \in 0..MaxRuns /\ validated \union crossed \subseteq 1..run
    BY DEF Init
<1>3. apc = "off" /\ hpc = "off" /\ up = "down" /\ rpc[Daemon] = "idle" /\ early = FALSE
    BY DEF Init, ReceiverInit
<1>4. {harvest, audit} = {"NONE"} /\ facts = "none" /\ ahead = {} /\ scheduled = Phases
    BY DEF Init
<1> QED BY <1>1, <1>2, <1>3, <1>4 DEF TInv, TypeOK, RunInHand

\* No step takes the tables or the receivers out of their types.
LEMMA ReceiverTyped == TInv /\ [Next]_vars => ReceiverTypeOK'
<1> SUFFICES ASSUME TInv, [Next]_vars PROVE ReceiverTypeOK'
    OBVIOUS
<1> USE ReceiverAssumption DEF TInv, TypeOK
<1>1. ASSUME NEW d \in Receivers, Forget(d), UNCHANGED <<passed, tables>>, faults' \in Nat
      PROVE  ReceiverTypeOK'
    BY <1>1 DEF Forget, GoOn, tables, ReceiverTypeOK, RpcValues
<1>2. ASSUME NEW d \in Receivers, NEW r \in Nat, Fetch(d, r) PROVE ReceiverTypeOK'
    BY <1>2 DEF Fetch, GoOn, Pending, Unmarked, tables, ReceiverTypeOK, RpcValues
<1>3. ASSUME NEW d \in Receivers, Take(d) PROVE ReceiverTypeOK'
    BY <1>3 DEF Take, GoOn, tables, ReceiverTypeOK, RpcValues
<1>4. ASSUME NEW d \in Receivers, Return(d) PROVE ReceiverTypeOK'
    BY <1>4 DEF Return, GoOn, tables, ReceiverTypeOK, RpcValues
<1>5. ASSUME NEW d \in Receivers, Reinforce(d) PROVE ReceiverTypeOK'
    <2>1. cur[d] \in Tasks /\ StockOf(cur[d]) \in Stocks
        BY <1>5 DEF Reinforce, ReceiverTypeOK, Tasks, StockOf
    <2> QED BY <1>5, <2>1 DEF Reinforce, GoOn, ReceiverTypeOK, RpcValues
<1>6. ASSUME NEW d \in Receivers, ReinforceFails(d) PROVE ReceiverTypeOK'
    <2>1. cur[d] \in Tasks /\ StockOf(cur[d]) \in Stocks
        BY <1>6 DEF ReinforceFails, ReceiverTypeOK, Tasks, StockOf
    <2> QED BY <1>6, <2>1 DEF ReinforceFails, NextTask, Faulty, GoOn, ReceiverTypeOK, RpcValues
<1>7. ASSUME NEW d \in Receivers, Store(d) PROVE ReceiverTypeOK'
    BY <1>7 DEF Store, GoOn, ReceiverTypeOK, RpcValues
<1>8. ASSUME NEW d \in Receivers, StoreFails(d) PROVE ReceiverTypeOK'
    BY <1>8 DEF StoreFails, NextTask, Faulty, GoOn, tables, ReceiverTypeOK, RpcValues
<1>9. ASSUME NEW d \in Receivers, Mark(d) PROVE ReceiverTypeOK'
    BY <1>9 DEF Mark, NextTask, Faulty, GoOn, ReceiverTypeOK, RpcValues
<1>10. ASSUME NEW t \in Tasks, Fill(t) PROVE ReceiverTypeOK'
    BY <1>10 DEF Fill, receivers, StockOf, Tasks, ReceiverTypeOK, RpcValues
<1>11. ASSUME Child PROVE ReceiverTypeOK'
    BY <1>11 DEF Child, tables, receivers, ReceiverTypeOK, RpcValues, RunInHand, Tasks
<1>12. ASSUME UNCHANGED <<passed, tables, receivers>>, faults' \in Nat PROVE ReceiverTypeOK'
    BY <1>12 DEF tables, receivers, ReceiverTypeOK, RpcValues
<1>13. faults \in Nat /\ run \in Nat /\ (Faulty => faults' \in Nat)
    BY DEF ReceiverTypeOK, Faulty
<1>14. CASE Stop \/ Crash
    BY <1>1, <1>13, <1>14 DEF Stop, Crash
<1>15. CASE StartDaemon \/ StartOneShot \/ Miss \/ Abort \/ StartHarvest \/ StartAudit \/ SkipAudit
    BY <1>12, <1>13, <1>15 DEF StartDaemon, StartOneShot, Miss, Abort, StartHarvest, StartAudit,
       SkipAudit, recvVars
<1>16. CASE PhaseStep
    BY <1>2, <1>11, <1>12, <1>13, <1>16 DEF PhaseStep, Sync, EndHarvest, Conclude, Dispatch,
       EndAudit, recvVars
<1>17. ASSUME NEW d \in Receivers, ReceiverStep(d) PROVE ReceiverTypeOK'
    BY <1>3, <1>4, <1>5, <1>6, <1>7, <1>8, <1>9, <1>17 DEF ReceiverStep
<1>18. ASSUME NEW d \in Receivers, ByHand(d) PROVE ReceiverTypeOK'
    BY <1>1, <1>2, <1>13, <1>18 DEF ByHand
<1>19. CASE UNCHANGED vars
    BY <1>12, <1>13, <1>19 DEF vars, recvVars
<1> QED BY <1>10, <1>14, <1>15, <1>16, <1>17, <1>18, <1>19 DEF Next

\* The daemon's receiver moves only inside its audit.
LEMMA EveningTyped == TInv /\ [Next]_vars => TInv'
<1> SUFFICES ASSUME TInv, [Next]_vars PROVE TInv'
    OBVIOUS
<1>0. ReceiverTypeOK /\ ReceiverTypeOK'
    BY ReceiverTyped DEF TInv, TypeOK
<1> USE ReceiverAssumption DEF TInv, TypeOK, RunInHand, Phases, Final, Runs, history
<1>1. CASE StartDaemon \/ StartOneShot \/ Miss \/ Abort
    BY <1>0, <1>1 DEF StartDaemon, StartOneShot, Miss, Abort, recvVars, receivers, rows
<1>2. CASE Stop \/ Crash
    BY <1>0, <1>2 DEF Stop, Crash, Forget, GoOn, rows, ReceiverTypeOK
<1>3. CASE StartHarvest \/ SkipAudit
    <2>1. /\ ahead' \subseteq Phases /\ scheduled' \subseteq Phases /\ up # "down"
        BY <1>3 DEF StartHarvest, SkipAudit, Begins
    <2>2. harvest' \in {"NONE", "IN_PROGRESS"} \union Final /\ audit' = audit
        BY <1>3 DEF StartHarvest, SkipAudit, Row, rows
    <2> QED BY <1>0, <1>3, <2>1, <2>2 DEF StartHarvest, SkipAudit, recvVars, receivers
<1>12. CASE StartAudit
    <2>1. /\ ahead' \subseteq Phases /\ scheduled' \subseteq Phases /\ up # "down"
        BY <1>12 DEF StartAudit, Begins
    <2>2. audit' \in {"NONE", "IN_PROGRESS"} \union Final /\ harvest' = harvest
        BY <1>12 DEF StartAudit, Row
    <2>3. run' \in Runs /\ run' \in 0..MaxRuns /\ (validated \union crossed)' \subseteq 1..run'
          /\ early' \in BOOLEAN
        BY <1>12 DEF StartAudit
    <2>4. /\ facts' = facts /\ up' = up /\ hpc' = hpc /\ apc' = "child"
        BY <1>12 DEF StartAudit
    <2>5. ReceiverTypeOK'
        BY <1>0
    <2> HIDE DEF Runs
    <2> QED BY <2>1, <2>2, <2>3, <2>4, <2>5
<1>4. CASE Sync
    <2>1. (apc = "child" => run \in 1..run) /\ up # "down"
        BY <1>4 DEF Sync
    <2>2. crossed' \subseteq 1..run
        BY <1>4, <2>1 DEF Sync
    <2> QED BY <1>0, <1>4, <2>1, <2>2 DEF Sync, recvVars, receivers, rows
<1>15. CASE EndHarvest
    BY <1>0, <1>15 DEF EndHarvest, Row, recvVars, receivers, rows
<1>5. CASE Child
    BY <1>0, <1>5 DEF Child, receivers, rows
<1>13. CASE Conclude
    <2>1. run \in Runs /\ run \in 1..run
        BY <1>13 DEF Conclude
    <2>4. validated' \subseteq 1..run /\ (apc' = "dispatch" => run \in validated')
        BY <1>13, <2>1 DEF Conclude
    <2>2. audit' \in {"NONE", "IN_PROGRESS"} \union Final
        BY <1>13 DEF Conclude, Row
    <2>3. up # "down" /\ apc' \in {"off", "dispatch"}
        BY <1>13 DEF Conclude
    <2> QED BY <1>0, <1>13, <2>1, <2>2, <2>3, <2>4 DEF Conclude, recvVars, receivers
<1>14. CASE EndAudit
    BY <1>0, <1>14 DEF EndAudit, recvVars, receivers, rows
<1>6. CASE Dispatch
    BY <1>0, <1>6 DEF Dispatch, Fetch, rows
<1>7. ASSUME UNCHANGED pipeline, rpc[Daemon] = "idle" => rpc'[Daemon] = "idle" PROVE TInv'
    BY <1>0, <1>7 DEF pipeline, rows
<1>8. ASSUME NEW d \in Receivers, ReceiverStep(d), UNCHANGED pipeline PROVE TInv'
    BY <1>0, <1>7, <1>8 DEF ReceiverStep, Take, Return, Reinforce, Store, Mark, ReinforceFails,
       StoreFails, NextTask, GoOn, ReceiverTypeOK
<1>9. ASSUME NEW d \in Receivers \ {Daemon}, ByHand(d), UNCHANGED pipeline PROVE TInv'
    BY <1>0, <1>7, <1>9 DEF ByHand, Fetch, Forget, GoOn, ReceiverTypeOK
<1>10. ASSUME NEW t \in Tasks, Fill(t), UNCHANGED pipeline PROVE TInv'
    BY <1>0, <1>7, <1>10 DEF Fill, receivers
<1>11. CASE UNCHANGED vars
    BY <1>0, <1>7, <1>11 DEF vars, recvVars, receivers
<1> QED BY <1>1, <1>2, <1>3, <1>4, <1>5, <1>6, <1>8, <1>9, <1>10, <1>11, <1>12, <1>13, <1>14,
       <1>15 DEF Next, PhaseStep

LEMMA Typed == Spec => []TInv
BY InitTyped, EveningTyped, PTL DEF Spec

\* The type invariant of the evening (zhulong_daemon.py) and its receivers
\* (signal_receiver.py).
THEOREM TypeCorrect == Spec => []TypeOK
<1>1. TInv => TypeOK
    BY DEF TInv
<1> QED BY Typed, <1>1, PTL

-------------------------------------------------------------------------------
(* The outcomes of the receivers.                                           *)

outcomes == <<marked, queue, skipped, reinforced, count, torn>>

\* Only four steps of a receiver touch an outcome; no other makes one ready to be marked.
LEMMA OutcomeSteps ==
    ASSUME TInv, [Next]_vars
    PROVE  \/ /\ UNCHANGED outcomes
              /\ \A d \in Receivers : rpc'[d] = "mark" => rpc[d] = "mark" /\ cur'[d] = cur[d]
           \/ \E d \in Receivers : Reinforce(d) \/ ReinforceFails(d) \/ Store(d) \/ Mark(d)
<1> DEFINE Quiet == /\ UNCHANGED outcomes
                    /\ \A d \in Receivers : rpc'[d] = "mark" => rpc[d] = "mark" /\ cur'[d] = cur[d]
<1> USE ReceiverAssumption
<1>0. rpc \in [Receivers -> RpcValues] /\ cur \in [Receivers -> Tasks \union {None}]
    BY DEF TInv, TypeOK, ReceiverTypeOK
<1>1. ASSUME UNCHANGED tables, UNCHANGED receivers PROVE Quiet
    BY <1>1 DEF tables, receivers, outcomes
<1>2. ASSUME NEW d \in Receivers, Forget(d), UNCHANGED tables PROVE Quiet
    BY <1>0, <1>2 DEF Forget, GoOn, tables, outcomes
<1>3. ASSUME NEW d \in Receivers, NEW r \in Nat, Fetch(d, r) PROVE Quiet
    BY <1>0, <1>3 DEF Fetch, GoOn, tables, outcomes
<1>4. ASSUME NEW d \in Receivers, Take(d) \/ Return(d) \/ StoreFails(d) PROVE Quiet
    BY <1>0, <1>4 DEF Take, Return, StoreFails, NextTask, GoOn, tables, outcomes
<1>5. ASSUME NEW t \in Tasks, Fill(t) PROVE Quiet
    BY <1>5 DEF Fill, receivers, outcomes
<1>6. ASSUME Stop \/ Crash PROVE Quiet
    BY <1>2, <1>6 DEF Stop, Crash
<1>7. ASSUME Dispatch PROVE Quiet
    <2>1. run \in Nat
        BY DEF TInv, TypeOK
    <2> QED BY <1>3, <1>7, <2>1 DEF Dispatch
<1>8. ASSUME \/ StartDaemon \/ StartOneShot \/ Miss \/ Abort \/ StartHarvest \/ StartAudit
             \/ SkipAudit \/ Sync \/ EndHarvest \/ Child \/ Conclude \/ EndAudit
      PROVE  Quiet
    BY <1>1, <1>8 DEF StartDaemon, StartOneShot, Miss, Abort, StartHarvest, StartAudit, SkipAudit,
       Sync, EndHarvest, Child, Conclude, EndAudit, recvVars
<1>9. ASSUME NEW d \in Receivers, ByHand(d) PROVE Quiet
    BY <1>2, <1>3, <1>9 DEF ByHand
<1>10. ASSUME UNCHANGED vars PROVE Quiet
    BY <1>1, <1>10 DEF vars, recvVars
<1> HIDE DEF Quiet
<1>11. ASSUME NEW d \in Receivers, ReceiverStep(d)
      PROVE  Quiet \/ Reinforce(d) \/ ReinforceFails(d) \/ Store(d) \/ Mark(d)
    BY <1>4, <1>11 DEF ReceiverStep
<1>12. Quiet \/ \E d \in Receivers : Reinforce(d) \/ ReinforceFails(d) \/ Store(d) \/ Mark(d)
    <2>1. CASE Next
        <3>1. \/ Stop \/ Crash
              \/ Dispatch
              \/ \/ StartDaemon \/ StartOneShot \/ Miss \/ Abort \/ StartHarvest \/ StartAudit \/ SkipAudit
                 \/ Sync \/ EndHarvest \/ Child \/ Conclude \/ EndAudit
              \/ \E d \in Receivers : ReceiverStep(d) \/ ByHand(d)
              \/ \E t \in Tasks : Fill(t)
            BY <2>1 DEF Next, PhaseStep
        <3>2. CASE \E d \in Receivers : ReceiverStep(d) \/ ByHand(d)
            BY <3>2, <1>9, <1>11
        <3>3. CASE \E t \in Tasks : Fill(t)
            BY <3>3, <1>5
        <3> QED BY <3>1, <3>2, <3>3, <1>6, <1>7, <1>8
    <2> QED BY <2>1, <1>10
<1> QED BY <1>12 DEF Quiet

\* What a receiver is about to mark has its trace.
ReadyIsTraced == \A d \in Receivers : rpc[d] = "mark" => cur[d] \in Traced

MInv == MarkedIsTraced /\ ReadyIsTraced

LEMMA MarkedStep == TInv /\ MInv /\ [Next]_vars => MInv'
<1> SUFFICES ASSUME TInv, MInv, [Next]_vars PROVE MInv'
    OBVIOUS
<1> USE ReceiverAssumption DEF MInv, MarkedIsTraced, ReadyIsTraced
<1>0. /\ rpc \in [Receivers -> RpcValues] /\ cur \in [Receivers -> Tasks \union {None}]
      /\ \A d \in Receivers : rpc[d] \in {"hold", "gates", "mark"} => cur[d] \in Tasks
    BY DEF TInv, TypeOK, ReceiverTypeOK
<1>1. CASE /\ UNCHANGED outcomes
           /\ \A d \in Receivers : rpc'[d] = "mark" => rpc[d] = "mark" /\ cur'[d] = cur[d]
    BY <1>1 DEF outcomes, Traced
<1>2. ASSUME NEW d \in Receivers, Reinforce(d) PROVE MInv'
    <2>1. Traced \subseteq Traced' /\ marked' = marked /\ cur' = cur
        BY <1>2 DEF Reinforce, Traced
    <2>2. rpc'[d] = "mark" => cur[d] \in Traced'
        BY <1>0, <1>2 DEF Reinforce, Recorded, GoOn, Traced
    <2>3. \A e \in Receivers \ {d} : rpc'[e] = rpc[e]
        BY <1>0, <1>2 DEF Reinforce, GoOn
    <2> QED BY <2>1, <2>2, <2>3
<1>3. ASSUME NEW d \in Receivers, ReinforceFails(d) PROVE MInv'
    BY <1>0, <1>3 DEF ReinforceFails, NextTask, GoOn, Traced
<1>4. ASSUME NEW d \in Receivers, Store(d) PROVE MInv'
    <2>1. /\ cur[d] \in Tasks /\ cur' = cur /\ marked' = marked /\ reinforced' = reinforced
          /\ \A e \in Receivers \ {d} : rpc'[e] = rpc[e]
        BY <1>0, <1>4 DEF Store, GoOn
    <2>2. Traced' = Traced \union {cur[d]}
        BY <1>4, <2>1 DEF Store, Traced
    <2> QED BY <2>1, <2>2
<1>5. ASSUME NEW d \in Receivers, Mark(d) PROVE MInv'
    <2>1. Traced' = Traced /\ marked' \subseteq marked \union {cur[d]} /\ cur[d] \in Traced
        BY <1>5 DEF Mark, Traced
    <2>2. rpc'[d] # "mark" /\ \A e \in Receivers \ {d} : rpc'[e] = rpc[e] /\ cur'[e] = cur[e]
        BY <1>0, <1>5 DEF Mark, NextTask, GoOn
    <2> QED BY <2>1, <2>2
<1> QED BY <1>1, <1>2, <1>3, <1>4, <1>5, OutcomeSteps

\* A row marked as processed has its outcome on record (signal_receiver.py, the
\* order of process_signal and _mark_shadow_processed), for any number of receivers.
THEOREM MarkedKeepsTrace == Spec => []MarkedIsTraced
<1>1. Init => MInv
    BY DEF Init, ReceiverInit, MInv, MarkedIsTraced, ReadyIsTraced
<1>2. MInv => MarkedIsTraced
    BY DEF MInv
<1> QED BY Typed, MarkedStep, <1>1, <1>2, PTL DEF Spec

Events(s) == {t \in reinforced : StockOf(t) = s}

RInv == IsFiniteSet(reinforced) /\ ReinforcementsCounted

LEMMA CountStep == TInv /\ RInv /\ [Next]_vars => RInv'
<1> SUFFICES ASSUME TInv, RInv, [Next]_vars PROVE RInv'
    OBVIOUS
<1>0. /\ count \in [Stocks -> Nat] /\ torn \in Nat
      /\ \A d \in Receivers : rpc[d] \in {"hold", "gates", "mark"}
                              => cur[d] \in Tasks /\ StockOf(cur[d]) \in Stocks
    BY DEF TInv, TypeOK, ReceiverTypeOK, Tasks, StockOf
<1>1. \A s : IsFiniteSet(Events(s)) /\ Cardinality(Events(s)) \in Nat
    <2>1. \A s : Events(s) \subseteq reinforced
        BY DEF Events
    <2> QED BY <2>1, FS_Subset, FS_CardinalityType DEF RInv
<1>2. \A s \in Stocks : count[s] - Cardinality(Events(s)) \in 0..torn
    BY DEF RInv, ReinforcementsCounted, Events
<1>3. SUFFICES IsFiniteSet(reinforced') /\ \A s \in Stocks : count'[s] - Cardinality(Events(s)') \in 0..torn'
    BY DEF RInv, ReinforcementsCounted, Events
<1>4. CASE UNCHANGED <<reinforced, count, torn>>
    BY <1>2, <1>4 DEF Events, RInv
<1>5. ASSUME NEW d \in Receivers, Reinforce(d)
      PROVE  IsFiniteSet(reinforced') /\ \A s \in Stocks : count'[s] - Cardinality(Events(s)') \in 0..torn'
    <2>0. PICK t \in Tasks, x \in Stocks : t = cur[d] /\ x = StockOf(t)
        BY <1>0, <1>5 DEF Reinforce
    <2>1. torn' = torn /\ torn \in Nat
        BY <1>0, <1>5 DEF Reinforce
    <2>2. CASE UNCHANGED <<count, reinforced>>
        BY <1>4, <2>1, <2>2
    <2>3. CASE /\ t \notin reinforced /\ reinforced' = reinforced \union {t}
               /\ count' = [count EXCEPT ![x] = @ + 1]
        <3>1. IsFiniteSet(reinforced')
            BY <2>3, FS_AddElement DEF RInv
        <3>2. /\ Events(x)' = Events(x) \union {t}
              /\ t \notin Events(x)
            BY <2>0, <2>3 DEF Events
        <3>3. Cardinality(Events(x)') = Cardinality(Events(x)) + 1
            BY <1>1, <3>2, FS_AddElement
        <3>4. \A s \in Stocks \ {x} : Events(s)' = Events(s)
            BY <2>0, <2>3 DEF Events
        <3>5. \A s \in Stocks : count'[s] = IF s = x THEN count[s] + 1 ELSE count[s]
            BY <1>0, <2>3
        <3>6. ASSUME NEW s \in Stocks PROVE count'[s] - Cardinality(Events(s)') \in 0..torn'
            <4>1. count[s] \in Nat /\ Cardinality(Events(s)) \in Nat /\ count[s] - Cardinality(Events(s)) \in 0..torn
                BY <1>0, <1>1, <1>2
            <4>2. CASE s = x
                BY <2>1, <3>3, <3>5, <4>1, <4>2
            <4>3. CASE s # x
                BY <2>1, <3>4, <3>5, <4>1, <4>3
            <4> QED BY <4>2, <4>3
        <3> QED BY <3>1, <3>6
    <2> QED BY <1>5, <2>0, <2>2, <2>3 DEF Reinforce, Recorded
<1>6. ASSUME NEW d \in Receivers, ReinforceFails(d)
      PROVE  IsFiniteSet(reinforced') /\ \A s \in Stocks : count'[s] - Cardinality(Events(s)') \in 0..torn'
    <2>1. reinforced' = reinforced /\ StockOf(cur[d]) \in Stocks
        BY <1>0, <1>6 DEF ReinforceFails
    <2>2. CASE UNCHANGED <<count, torn>>
        BY <1>4, <2>1, <2>2
    <2>3. CASE count' = [count EXCEPT ![StockOf(cur[d])] = @ + 1] /\ torn' = torn + 1
        <3>1. ASSUME NEW s \in Stocks PROVE count'[s] - Cardinality(Events(s)') \in 0..torn'
            <4>1. /\ count[s] \in Nat /\ Cardinality(Events(s)) \in Nat
                  /\ count[s] - Cardinality(Events(s)) \in 0..torn /\ torn \in Nat
                BY <1>0, <1>1, <1>2
            <4>2. Events(s)' = Events(s) /\ count'[s] \in {count[s], count[s] + 1}
                BY <1>0, <2>1, <2>3 DEF Events
            <4> QED BY <2>3, <4>1, <4>2
        <3> QED BY <2>1, <3>1 DEF RInv
    <2> QED BY <1>6, <2>2, <2>3 DEF ReinforceFails
<1>7. ASSUME NEW d \in Receivers, Store(d) \/ Mark(d) PROVE UNCHANGED <<reinforced, count, torn>>
    BY <1>7 DEF Store, Mark
<1> QED BY <1>4, <1>5, <1>6, <1>7, OutcomeSteps DEF outcomes

\* The reinforcement count of a position is the number of its events, up to the
\* failures between the UPDATE and the INSERT (signal_receiver.py).
THEOREM CountMatchesEvents == Spec => []ReinforcementsCounted
<1>1. Init => RInv
    <2> SUFFICES ASSUME Init PROVE RInv
        OBVIOUS
    <2>1. reinforced = {} /\ torn = 0 /\ \A s \in Stocks : count[s] = 0
        BY DEF Init, ReceiverInit
    <2>2. \A s : {t \in reinforced : StockOf(t) = s} = {}
        BY <2>1
    <2> QED BY <2>1, <2>2, FS_EmptySet DEF RInv, ReinforcementsCounted
<1>2. RInv => ReinforcementsCounted
    BY DEF RInv
<1> QED BY Typed, CountStep, <1>1, <1>2, PTL DEF Spec

-------------------------------------------------------------------------------
(* The dispatch.                                                            *)

\* What the daemon's receiver has in hand was passed by a validated run.
Scoped == \A t \in todo[Daemon] \union ({cur[Daemon]} \ {None}) : RunOf(t) \in validated

\* A receiver at work keeps to what it fetched.
LEMMA ScopeKept ==
    ASSUME TInv, Scoped, validated \subseteq validated',
           todo'[Daemon] \subseteq todo[Daemon],
           cur'[Daemon] \in todo[Daemon] \union {cur[Daemon], None}
    PROVE  Scoped'
BY DEF Scoped

LEMMA ScopeStep == TInv /\ Scoped /\ [Next]_vars => Scoped'
<1> SUFFICES ASSUME TInv, Scoped, [Next]_vars PROVE Scoped'
    OBVIOUS
<1> USE ReceiverAssumption DEF history
<1>0. /\ Daemon \in Receivers /\ todo \in [Receivers -> SUBSET Tasks]
      /\ cur \in [Receivers -> Tasks \union {None}] /\ rpc \in [Receivers -> RpcValues]
    BY DEF TInv, TypeOK, ReceiverTypeOK
<1>1. ASSUME UNCHANGED receivers, validated \subseteq validated' PROVE Scoped'
    BY <1>1, ScopeKept DEF receivers
<1>2. ASSUME NEW d \in Receivers, Forget(d), UNCHANGED validated PROVE Scoped'
    <2>1. todo'[Daemon] \in {todo[Daemon], {}} /\ cur'[Daemon] \in {cur[Daemon], None}
        BY <1>0, <1>2 DEF Forget
    <2> QED BY <1>2, <2>1, ScopeKept
<1>3. ASSUME NEW d \in Receivers, ReceiverStep(d), UNCHANGED validated PROVE Scoped'
    <2>1. CASE Take(d)
        <3>1. PICK t \in todo[d] : /\ cur' = [cur EXCEPT ![d] = t]
                                   /\ todo' = [todo EXCEPT ![d] = @ \ {t}]
            BY <2>1 DEF Take
        <3>2. CASE d = Daemon
            <4>1. cur'[Daemon] = t /\ todo'[Daemon] = todo[Daemon] \ {t}
                BY <1>0, <3>1, <3>2
            <4> QED BY <1>3, <3>1, <3>2, <4>1, ScopeKept
        <3>3. CASE d # Daemon
            <4>1. cur'[Daemon] = cur[Daemon] /\ todo'[Daemon] = todo[Daemon]
                BY <1>0, <3>1, <3>3
            <4> QED BY <1>3, <4>1, ScopeKept
        <3> QED BY <3>2, <3>3
    <2>2. CASE Return(d) \/ Reinforce(d) \/ Store(d) \/ Mark(d) \/ ReinforceFails(d) \/ StoreFails(d)
        <3>1. todo' = todo /\ cur'[Daemon] \in {cur[Daemon], None}
            BY <1>0, <2>2 DEF Return, Reinforce, Store, Mark, ReinforceFails, StoreFails, NextTask
        <3> QED BY <1>3, <3>1, ScopeKept
    <2> QED BY <1>3, <2>1, <2>2 DEF ReceiverStep
<1>4. ASSUME NEW d \in Receivers \ {Daemon}, ByHand(d), UNCHANGED validated PROVE Scoped'
    <2>1. CASE Forget(d)
        BY <1>2, <1>4, <2>1
    <2>2. ASSUME NEW r \in Nat, Fetch(d, r) PROVE Scoped'
        <3>1. todo'[Daemon] = todo[Daemon] /\ cur' = cur
            BY <1>0, <1>4, <2>2 DEF Fetch
        <3> QED BY <1>4, <3>1, ScopeKept
    <2> QED BY <1>4, <2>1, <2>2 DEF ByHand
<1>5. CASE Stop \/ Crash
    BY <1>0, <1>2, <1>5 DEF Stop, Crash
<1>6. CASE Dispatch
    <2>1. run \in validated /\ validated' = validated
        BY <1>6 DEF Dispatch, TInv, RunInHand
    <2>2. cur[Daemon] = None
        BY <1>0, <1>6 DEF Dispatch, Fetch, TInv, TypeOK, ReceiverTypeOK
    <2>3. todo'[Daemon] = Pending(Daemon, run) /\ cur' = cur
        BY <1>0, <1>6 DEF Dispatch, Fetch
    <2>4. \A t \in Pending(Daemon, run) : RunOf(t) \in validated
        BY <2>1 DEF Pending
    <2> QED BY <2>1, <2>2, <2>3, <2>4 DEF Scoped
<1>7. CASE \/ StartDaemon \/ StartOneShot \/ Miss \/ Abort \/ StartHarvest \/ StartAudit
           \/ SkipAudit \/ Sync \/ EndHarvest \/ Child \/ Conclude \/ EndAudit
    BY <1>1, <1>7 DEF StartDaemon, StartOneShot, Miss, Abort, StartHarvest, StartAudit, SkipAudit,
       Sync, EndHarvest, Child, Conclude, EndAudit, recvVars
<1>8. ASSUME NEW t \in Tasks, Fill(t), UNCHANGED pipeline PROVE Scoped'
    BY <1>1, <1>8 DEF Fill, pipeline
<1>9. CASE UNCHANGED vars
    BY <1>1, <1>9 DEF vars, recvVars, pipeline
<1>10. \/ Stop \/ Crash
       \/ Dispatch
       \/ \/ StartDaemon \/ StartOneShot \/ Miss \/ Abort \/ StartHarvest \/ StartAudit
          \/ SkipAudit \/ Sync \/ EndHarvest \/ Child \/ Conclude \/ EndAudit
       \/ \E d \in Receivers : ReceiverStep(d) /\ UNCHANGED validated
       \/ \E d \in Receivers \ {Daemon} : ByHand(d) /\ UNCHANGED validated
       \/ \E t \in Tasks : Fill(t) /\ UNCHANGED pipeline
       \/ UNCHANGED vars
    BY DEF Next, PhaseStep, pipeline
<1> QED BY <1>3, <1>4, <1>5, <1>6, <1>7, <1>8, <1>9, <1>10

\* "Only a validated exact run with rows may enqueue signals" (zhulong_daemon.py:2780).
THEOREM DispatchStaysInScope == Spec => []DispatchScope
<1>1. Init => Scoped
    BY ReceiverAssumption DEF Init, ReceiverInit, Scoped
<1>2. TInv /\ Scoped => DispatchScope
    BY DEF TInv, Scoped, DispatchScope
<1> QED BY Typed, ScopeStep, <1>1, <1>2, PTL DEF Spec

-------------------------------------------------------------------------------
(* The gate of the audit.                                                   *)

\* The daemon's harvest comes once and before its audit.  Unless a one-shot was ahead
\* of it, the row it leaves is its own.
GateInv ==
    /\ up = "daemon" => ahead \subseteq scheduled
    /\ ~early => /\ "harvest" \in scheduled => harvest = "NONE" /\ hpc = "off"
                 /\ up = "oneshot" => "harvest" \notin scheduled
                 /\ up = "daemon" /\ hpc # "off" => harvest = "IN_PROGRESS"
                 /\ up = "daemon" /\ apc = "child" => /\ facts = "complete" /\ hpc = "off"
                                                      /\ "harvest" \notin ahead
    /\ up = "daemon" /\ apc = "child" =>
            harvest \in Final /\ (facts = "complete" \/ run \in crossed)

LEMMA GateStep == TInv /\ GateInv /\ [Next]_vars => GateInv'
<1> SUFFICES ASSUME TInv, GateInv, [Next]_vars PROVE GateInv'
    OBVIOUS
<1>0. /\ up \in {"down", "daemon", "oneshot"} /\ hpc \in {"off", "sync", "derive"}
      /\ ahead \subseteq Phases /\ scheduled \subseteq Phases /\ early \in BOOLEAN
      /\ up = "down" => hpc = "off" /\ apc = "off"
    BY DEF TInv, TypeOK
<1> USE DEF GateInv, Phases, rows, history
<1>1. CASE StartDaemon \/ Miss
    BY <1>0, <1>1 DEF StartDaemon, Miss
<1>2. CASE StartOneShot
    BY <1>0, <1>2 DEF StartOneShot
<1>3. CASE Stop \/ Crash \/ Abort
    BY <1>0, <1>3 DEF Stop, Crash, Abort
<1>4. CASE StartHarvest
    BY <1>0, <1>4 DEF StartHarvest, Begins, Row, Final
<1>5. CASE StartAudit
    BY <1>0, <1>5 DEF StartAudit, Begins, CanEnterAudit, Final
<1>6. CASE SkipAudit
    BY <1>0, <1>6 DEF SkipAudit, Begins
<1>7. CASE Sync \/ EndHarvest
    BY <1>0, <1>7 DEF Sync, EndHarvest, Row, Final
<1>8. CASE Child \/ Conclude \/ Dispatch \/ EndAudit
    BY <1>0, <1>8 DEF Child, Conclude, Dispatch, EndAudit
<1>9. CASE UNCHANGED pipeline
    BY <1>9 DEF pipeline
<1>10. CASE UNCHANGED vars
    BY <1>9, <1>10 DEF vars
<1> QED BY <1>1, <1>2, <1>3, <1>4, <1>5, <1>6, <1>7, <1>8, <1>9, <1>10 DEF Next, PhaseStep

\* The "hard gate for Phase 3" (zhulong_daemon.py:760) as far as it is true, with
\* one-shots at any time.
THEOREM GateHolds == Spec => []IncompleteOnlyIfCrossed
<1>1. Init => GateInv
    BY DEF Init, GateInv, Phases
<1>2. TInv /\ GateInv => IncompleteOnlyIfCrossed
    BY DEF GateInv, IncompleteOnlyIfCrossed, TInv, TypeOK
<1> QED BY Typed, <1>1, <1>2, GateStep, PTL DEF Spec
===============================================================================
