----------------------------- MODULE T1FillProofs -----------------------------
(***************************************************************************)
(* What holds of the fill engine for every set of signals, any number of   *)
(* overlapping cycles and any bound on faults.                             *)
(***************************************************************************)
EXTENDS T1Fill, FiniteSetTheorems, TLAPS

\* The count of open positions is a natural number, whatever the positions are.
LEMMA HeldCount == Cardinality(Held) \in Nat
<1>1. Held \subseteq Signals
  BY DEF Held
<1>2. IsFiniteSet(Held)
  BY <1>1, T1Assumption, FS_Subset
<1>. QED BY <1>2, FS_CardinalityType

\* Any signal list a cycle fetches is a set of signals that are due.
LEMMA FetchedAreSignals ==
    ASSUME NEW key, NEW n, NEW q \in Foremost(key, Due, n)
    PROVE  q \in SUBSET Due /\ q \in SUBSET Signals
BY DEF Foremost, Due

\* A sweep that is as long as the queue reads all of it.
LEMMA WholeQueue ==
    ASSUME Cardinality(Signals) <= SweepLimit, NEW q \in Foremost(age, Due, SweepLimit)
    PROVE  q = Due
<1>1. Due \subseteq Signals
  BY DEF Due
<1>2. IsFiniteSet(Due) /\ Cardinality(Due) <= Cardinality(Signals)
  BY <1>1, T1Assumption, FS_Subset
<1>3. Cardinality(Due) \in Nat /\ Cardinality(Signals) \in Nat
  BY <1>2, T1Assumption, FS_CardinalityType
<1>4. q \subseteq Due /\ Cardinality(q) = Cardinality(Due)
  BY <1>2, <1>3, T1Assumption DEF Foremost
<1>. QED BY <1>2, <1>4, FS_Subset

\* What the provider facts can decide.
LEMMA PriceStatus ==
    ASSUME NEW f \in Facts, NEW m \in Modes
    PROVE  SettleStatus(PriceDecision(f, m), m) \in Waiting \union Terminal
BY DEF SettleStatus, PriceDecision, Waiting, Terminal

\* The empty queue has the right types.
LEMMA TypeInit == Init => TypeOK
BY T1Assumption DEF Init, TypeOK, AgeCap, Waiting, Terminal, Modes, PcValues, None

\* Every step keeps the types, by cases on the action.
LEMMA TypeStep == TypeOK /\ [Next]_vars => TypeOK'
<1>. USE DEF Waiting, Terminal, Modes, PcValues, None
<1>. SUFFICES ASSUME TypeOK, [Next]_vars PROVE TypeOK'
  OBVIOUS
<1>a. AgeCap \in Nat /\ AgeCap >= 2
  BY T1Assumption DEF AgeCap
<1>1. ASSUME NEW s \in Signals, Enqueue(s) PROVE TypeOK'
  BY <1>1 DEF Enqueue, TypeOK, worker, history
<1>2. ASSUME NEW s \in Signals, CloseOut(s) PROVE TypeOK'
  <2>1. Cardinality(Held') \in Nat
    <3>1. Held' \subseteq Signals
      BY DEF Held
    <3>. QED BY <3>1, T1Assumption, FS_Subset, FS_CardinalityType
  <2>. QED BY <1>2, <2>1 DEF CloseOut, TypeOK, worker, history
<1>3. CASE NextDay
  <2>1. \A s \in Signals : Older(s) \in 0..AgeCap
    BY <1>a DEF TypeOK, Older
  <2>. QED BY <1>3, <2>1 DEF NextDay, TypeOK, worker, history
<1>4. ASSUME NEW w \in Workers, NEW m \in Modes, Start(w, m) PROVE TypeOK'
  BY <1>4, FetchedAreSignals DEF Start, Goto, TypeOK, table, history
<1>5. ASSUME NEW w \in Workers, SweepOne(w) PROVE TypeOK'
  BY <1>5 DEF SweepOne, Decide, Goto, TypeOK, table, history
<1>6. ASSUME NEW w \in Workers, Fetch(w) PROVE TypeOK'
  BY <1>6, FetchedAreSignals DEF Fetch, TypeOK, table, history
<1>7. ASSUME NEW w \in Workers, Gate(w) PROVE TypeOK'
  <2>. PICK s \in todo[w] : Gate(w)!2!(s)
    BY <1>7 DEF Gate
  <2>0. s \in Signals
    BY DEF TypeOK
  <2>u. UNCHANGED <<table, metrics, mode, phase, history>>
    BY <1>7 DEF Gate
  <2>t. todo' \in [Workers -> SUBSET Signals]
    BY DEF TypeOK
  <2>1. CASE Decide(w, s, "SKIPPED") /\ UNCHANGED faults
    BY <2>0, <2>1, <2>u, <2>t DEF Decide, Goto, TypeOK, table, history
  <2>2. CASE ~(Decide(w, s, "SKIPPED") /\ UNCHANGED faults)
    <3>1. faults' \in Nat
      BY <2>2 DEF Faulty, TypeOK
    <3>. QED BY <2>0, <2>2, <2>u, <2>t, <3>1 DEF Goto, TypeOK, table, history
  <2>. QED BY <2>1, <2>2
<1>8. ASSUME NEW w \in Workers, Price(w) PROVE TypeOK'
  <2>. PICK f \in Facts : Price(w)!2!(f)
    BY <1>8 DEF Price
  <2>1. SettleStatus(PriceDecision(f, mode[w]), mode[w]) \in Waiting \union Terminal
    BY PriceStatus DEF TypeOK
  <2>. QED BY <1>8, <2>1 DEF Price, Decide, Goto, TypeOK, table, history
<1>9. ASSUME NEW w \in Workers, CommitBuy(w) PROVE TypeOK'
  BY <1>9 DEF CommitBuy, Goto, TypeOK, history
<1>10. ASSUME NEW w \in Workers, RejectBuy(w) PROVE TypeOK'
  BY <1>10 DEF RejectBuy, Decide, Goto, Faulty, TypeOK, table, history
<1>11. ASSUME NEW w \in Workers, Rebuild(w) PROVE TypeOK'
  BY <1>11, HeldCount DEF Rebuild, Goto, Faulty, TypeOK, table
<1>12. ASSUME NEW w \in Workers, RecordEvent(w) PROVE TypeOK'
  BY <1>12 DEF RecordEvent, Goto, TypeOK, history
<1>13. ASSUME NEW w \in Workers, UpdateStatus(w) PROVE TypeOK'
  BY <1>13 DEF UpdateStatus, Goto, TypeOK, history
<1>20. ASSUME NEW w \in Workers, Settled(w) PROVE TypeOK'
  BY <1>20 DEF Settled, NextSignal, Goto, TypeOK, table, history
<1>14. ASSUME NEW w \in Workers, Fault(w) PROVE TypeOK'
  <2>1. hits' \in [Signals -> Nat] /\ deferred' \in Nat /\ faults' \in Nat
    BY <1>14 DEF Fault, Hit, LoseRebuild, Faulty, TypeOK
  <2>2. CASE phase[w] = "sweep" /\ Leave(w)
    BY <1>14, <2>1, <2>2 DEF Fault, Leave, Goto, TypeOK, table
  <2>3. CASE Goto(w, "error") /\ UNCHANGED <<mode, phase, todo, cur, decided>>
    BY <1>14, <2>1, <2>3 DEF Fault, Goto, TypeOK, table
  <2>. QED BY <1>14, <2>2, <2>3 DEF Fault
<1>15. ASSUME NEW w \in Workers, MarkError(w) PROVE TypeOK'
  BY <1>15 DEF MarkError, NextSignal, Goto, Faulty, TypeOK, history
<1>16. ASSUME NEW w \in Workers, Finish(w) PROVE TypeOK'
  <2>1. CASE mode[w] = "main"
    BY <1>16, <2>1 DEF Finish, Leave, Goto, TypeOK, table, history
  <2>2. CASE mode[w] = "final"
    BY <1>16, <2>2 DEF Finish, Goto, TypeOK, table, history
  <2>. QED BY <1>16, <2>1, <2>2 DEF Finish
<1>17. ASSUME NEW w \in Workers, Watchdog(w) PROVE TypeOK'
  BY <1>17 DEF Watchdog, Leave, Goto, TypeOK, table, history
<1>18. ASSUME NEW w \in Workers, Crash(w) PROVE TypeOK'
  <2>1. hits' \in [Signals -> Nat] /\ deferred' \in Nat /\ faults' \in Nat
    BY <1>18 DEF Crash, Hit, LoseRebuild, Faulty, TypeOK
  <2>. QED BY <1>18, <2>1 DEF Crash, Leave, Goto, TypeOK, table
<1>19. CASE UNCHANGED vars
  BY <1>19 DEF vars, history, table, worker, TypeOK
<1>. QED
  BY <1>1, <1>2, <1>3, <1>4, <1>5, <1>6, <1>7, <1>8, <1>9, <1>10, <1>11, <1>12,
     <1>13, <1>14, <1>15, <1>16, <1>17, <1>18, <1>19, <1>20 DEF Next, WorkerStep

\* The tables and the workers keep their types (T1Fill!TypeOK).
THEOREM TypeCorrect == Spec => []TypeOK
BY TypeInit, TypeStep, PTL DEF Spec

-------------------------------------------------------------------------------
(* The buy chain.  BuyChainAtomic and OneHoldPerSymbol are inductive once   *)
(* the types are known: only CommitBuy writes the chain, and Buyable is     *)
(* evaluated inside its transaction.  The terminal statuses the other steps *)
(* record must differ from FILLED, which is what NotDecidedFilled adds.     *)

NotDecidedFilled == \A w \in Workers : decided[w] # "FILLED"

ChainInv == TypeOK /\ NotDecidedFilled /\ BuyChainAtomic /\ OneHoldPerSymbol

\* Steps that leave the rows of the buy chain alone keep the invariant.
LEMMA ChainFrame ==
    ASSUME BuyChainAtomic, OneHoldPerSymbol,
           UNCHANGED <<dedup, ledger, position, events>>
    PROVE  BuyChainAtomic' /\ OneHoldPerSymbol'
BY DEF BuyChainAtomic, OneHoldPerSymbol, Held

\* A committed BUY adds one complete chain for a stock nobody holds.
LEMMA CommitKeepsChain ==
    ASSUME TypeOK, BuyChainAtomic, OneHoldPerSymbol, NEW w \in Workers, CommitBuy(w)
    PROVE  BuyChainAtomic' /\ OneHoldPerSymbol'
<1>. DEFINE c == cur[w]
<1>1. c \in Signals /\ c \notin dedup /\ position[c] = "NONE" /\ ~HeldSymbol(SymbolOf[c])
  BY DEF CommitBuy, Buyable, TypeOK
<1>2. BuyChainAtomic'
  BY <1>1 DEF CommitBuy, BuyChainAtomic, TypeOK
<1>3. Held' = Held \union {c}
  BY <1>1 DEF CommitBuy, Held, TypeOK
<1>4. OneHoldPerSymbol'
  BY <1>1, <1>3 DEF OneHoldPerSymbol, HeldSymbol
<1>. QED BY <1>2, <1>4

\* An exit keeps the chain of its signal and frees the stock.
LEMMA CloseKeepsChain ==
    ASSUME TypeOK, BuyChainAtomic, OneHoldPerSymbol, NEW s \in Signals, CloseOut(s)
    PROVE  BuyChainAtomic' /\ OneHoldPerSymbol'
<1>1. BuyChainAtomic'
  BY DEF CloseOut, BuyChainAtomic, TypeOK
<1>2. Held' \subseteq Held
  BY DEF CloseOut, Held, TypeOK
<1>. QED BY <1>1, <1>2 DEF OneHoldPerSymbol

\* Recording any other terminal status does not complete a chain.
LEMMA RecordKeepsChain ==
    ASSUME TypeOK, NotDecidedFilled, BuyChainAtomic, OneHoldPerSymbol,
           NEW w \in Workers, RecordEvent(w)
    PROVE  BuyChainAtomic' /\ OneHoldPerSymbol'
<1>1. \A s \in Signals : "FILLED" \in events'[s] <=> "FILLED" \in events[s]
  BY DEF RecordEvent, NotDecidedFilled, TypeOK
<1>2. BuyChainAtomic'
  BY <1>1 DEF RecordEvent, BuyChainAtomic
<1>3. OneHoldPerSymbol'
  BY DEF RecordEvent, OneHoldPerSymbol, Held
<1>. QED BY <1>2, <1>3

\* No step decides FILLED: that status is written by the BUY transaction alone.
LEMMA DecisionsAreRefusals ==
    ASSUME TypeOK, NotDecidedFilled, [Next]_vars
    PROVE  NotDecidedFilled'
<1>. USE DEF NotDecidedFilled, TypeOK
<1>1. ASSUME NEW w \in Workers, SweepOne(w) PROVE NotDecidedFilled'
  BY <1>1 DEF SweepOne, Decide
<1>2. ASSUME NEW w \in Workers, Gate(w) PROVE NotDecidedFilled'
  BY <1>2 DEF Gate, Decide
<1>3. ASSUME NEW w \in Workers, Price(w) PROVE NotDecidedFilled'
  BY <1>3 DEF Price, Decide
<1>4. ASSUME NEW w \in Workers, RejectBuy(w) PROVE NotDecidedFilled'
  BY <1>4 DEF RejectBuy, Decide
<1>5. ASSUME NEW w \in Workers,
             Settled(w) \/ MarkError(w)
      PROVE NotDecidedFilled'
  BY <1>5 DEF Settled, MarkError, NextSignal, None
<1>6. ASSUME NEW w \in Workers,
             Fault(w) \/ Finish(w) \/ Watchdog(w) \/ Crash(w)
      PROVE NotDecidedFilled'
  BY <1>6 DEF Fault, Finish, Watchdog, Crash, Leave, None
<1>7. ASSUME UNCHANGED decided PROVE NotDecidedFilled'
  BY <1>7
<1>8. ASSUME NEW w \in Workers, Fetch(w) \/ CommitBuy(w) \/ RecordEvent(w)
             \/ Rebuild(w) \/ UpdateStatus(w) \/ \E m \in Modes : Start(w, m)
      PROVE NotDecidedFilled'
  BY <1>8 DEF Fetch, CommitBuy, RecordEvent, Rebuild, UpdateStatus, Start
<1>9. ASSUME NEW s \in Signals, Enqueue(s) \/ CloseOut(s) PROVE NotDecidedFilled'
  BY <1>9 DEF Enqueue, CloseOut, worker
<1>10. CASE NextDay
  BY <1>10 DEF NextDay, worker
<1>11. CASE UNCHANGED vars
  BY <1>11 DEF vars, history, worker
<1>. QED
  BY <1>1, <1>2, <1>3, <1>4, <1>5, <1>6, <1>8, <1>9, <1>10, <1>11 DEF Next, WorkerStep

\* Every step other than a committed BUY, an exit or a recorded event leaves the
\* rows of the chain alone.
LEMMA OtherStepsFrame ==
    ASSUME [Next]_vars,
           \A w \in Workers : ~CommitBuy(w) /\ ~RecordEvent(w),
           \A s \in Signals : ~CloseOut(s)
    PROVE  UNCHANGED <<dedup, ledger, position, events>>
<1>1. ASSUME NEW w \in Workers, WorkerStep(w)
      PROVE  UNCHANGED <<dedup, ledger, position, events>>
  BY <1>1 DEF WorkerStep, SweepOne, Fetch, Gate, Price, RejectBuy, Rebuild,
       UpdateStatus, Settled, MarkError, Finish, Watchdog, table
<1>2. ASSUME NEW w \in Workers, Fault(w) \/ Crash(w) \/ \E m \in Modes : Start(w, m)
      PROVE  UNCHANGED <<dedup, ledger, position, events>>
  BY <1>2 DEF Fault, Crash, Start, table
<1>3. ASSUME NEW s \in Signals, Enqueue(s)
      PROVE  UNCHANGED <<dedup, ledger, position, events>>
  BY <1>3 DEF Enqueue
<1>4. CASE NextDay
  BY <1>4 DEF NextDay
<1>5. CASE UNCHANGED vars
  BY <1>5 DEF vars, history, table
<1>. QED BY <1>1, <1>2, <1>3, <1>4, <1>5 DEF Next

\* The invariant of the buy chain is inductive.
LEMMA ChainInductive == ChainInv /\ [Next]_vars => ChainInv'
<1>. SUFFICES ASSUME ChainInv, [Next]_vars PROVE ChainInv'
  OBVIOUS
<1>. USE DEF ChainInv
<1>1. TypeOK' /\ NotDecidedFilled'
  BY TypeStep, DecisionsAreRefusals
<1>2. BuyChainAtomic' /\ OneHoldPerSymbol'
  <2>1. ASSUME NEW w \in Workers, CommitBuy(w)
        PROVE  BuyChainAtomic' /\ OneHoldPerSymbol'
    BY <2>1, CommitKeepsChain
  <2>2. ASSUME NEW w \in Workers, RecordEvent(w)
        PROVE  BuyChainAtomic' /\ OneHoldPerSymbol'
    BY <2>2, RecordKeepsChain
  <2>3. ASSUME NEW s \in Signals, CloseOut(s)
        PROVE  BuyChainAtomic' /\ OneHoldPerSymbol'
    BY <2>3, CloseKeepsChain
  <2>4. CASE /\ \A w \in Workers : ~CommitBuy(w) /\ ~RecordEvent(w)
             /\ \A s \in Signals : ~CloseOut(s)
    BY <2>4, OtherStepsFrame, ChainFrame
  <2>. QED BY <2>1, <2>2, <2>3, <2>4
<1>. QED BY <1>1, <1>2

\* No chain exists before the first signal.
LEMMA ChainInit == Init => ChainInv
<1>1. Init => NotDecidedFilled /\ BuyChainAtomic /\ OneHoldPerSymbol
  BY DEF Init, NotDecidedFilled, None, BuyChainAtomic, OneHoldPerSymbol, Held
<1>. QED BY <1>1, TypeInit DEF ChainInv

\* The invariant holds of every behaviour.
LEMMA ChainInvariant == Spec => []ChainInv
BY ChainInit, ChainInductive, PTL DEF Spec

\* Whatever the overlaps, retries and crashes, the dedup key, the ledger row, the
\* position and the FILLED event of a signal are written together and once
\* (_commit_filled_buy, T1Fill!BuyChainAtomic).
THEOREM BuyChain == Spec => []BuyChainAtomic
BY ChainInvariant, PTL DEF ChainInv

\* No two open positions are on the same stock (open_paper_position_from_fill,
\* T1Fill!OneHoldPerSymbol).
THEOREM OneHold == Spec => []OneHoldPerSymbol
BY ChainInvariant, PTL DEF ChainInv

-------------------------------------------------------------------------------
(* Refinement.  A BUY must be of an offered order, so the signals a cycle   *)
(* has in its list or in hand must be known to have a row; rows never go.   *)

Queued == {s \in Signals : pending[s] # "NONE"}

InHandQueued ==
    \A w \in Workers : todo[w] \subseteq Queued /\ cur[w] \in Queued \union {None}

RefineInv == ChainInv /\ InHandQueued

\* No status written by a cycle is NONE.
LEMMA QueuedGrows ==
    ASSUME TypeOK, [Next]_vars
    PROVE  Queued \subseteq Queued'
<1>. USE DEF Queued, TypeOK, Waiting, Terminal, None
<1>1. ASSUME NEW w \in Workers, CommitBuy(w) \/ UpdateStatus(w) \/ MarkError(w)
      PROVE  Queued \subseteq Queued'
  BY <1>1 DEF CommitBuy, UpdateStatus, MarkError
<1>2. ASSUME NEW w \in Workers,
             SweepOne(w) \/ Fetch(w) \/ Gate(w) \/ Price(w) \/ RejectBuy(w) \/ Rebuild(w)
             \/ RecordEvent(w) \/ Settled(w) \/ Finish(w) \/ Watchdog(w) \/ Fault(w) \/ Crash(w)
             \/ \E m \in Modes : Start(w, m)
      PROVE  Queued \subseteq Queued'
  BY <1>2 DEF SweepOne, Fetch, Gate, Price, RejectBuy, Rebuild, RecordEvent, Settled, Finish,
       Watchdog, Fault, Crash, Start, table
<1>3. ASSUME NEW s \in Signals, Enqueue(s) \/ CloseOut(s) PROVE Queued \subseteq Queued'
  BY <1>3 DEF Enqueue, CloseOut
<1>4. CASE NextDay
  BY <1>4 DEF NextDay
<1>5. CASE UNCHANGED vars
  BY <1>5 DEF vars, history, table
<1>. QED BY <1>1, <1>2, <1>3, <1>4, <1>5 DEF Next, WorkerStep

\* What a cycle has in its list or in hand was read from the queue.
LEMMA InHandStep ==
    ASSUME TypeOK, InHandQueued, [Next]_vars
    PROVE  InHandQueued'
<1>. USE QueuedGrows DEF InHandQueued
<1>1. ASSUME NEW w \in Workers, NEW m \in Modes, Start(w, m) PROVE InHandQueued'
  BY <1>1 DEF Start, Foremost, Due, Queued, Waiting, TypeOK
<1>2. ASSUME NEW w \in Workers, Fetch(w) PROVE InHandQueued'
  BY <1>2 DEF Fetch, Foremost, Due, Queued, Waiting, TypeOK
<1>3. ASSUME NEW w \in Workers, SweepOne(w) \/ Gate(w) PROVE InHandQueued'
  BY <1>3 DEF SweepOne, Gate, Decide, TypeOK
<1>4. ASSUME NEW w \in Workers, Price(w) \/ RejectBuy(w) PROVE InHandQueued'
  BY <1>4 DEF Price, RejectBuy, Decide, TypeOK
<1>5. ASSUME NEW w \in Workers, CommitBuy(w) \/ RecordEvent(w) \/ Rebuild(w) \/ UpdateStatus(w)
      PROVE InHandQueued'
  BY <1>5 DEF CommitBuy, RecordEvent, Rebuild, UpdateStatus
<1>6. ASSUME NEW w \in Workers, Settled(w) \/ MarkError(w)
      PROVE InHandQueued'
  BY <1>6 DEF Settled, MarkError, NextSignal, TypeOK
<1>7. ASSUME NEW w \in Workers, Fault(w) \/ Finish(w) \/ Watchdog(w) \/ Crash(w)
      PROVE InHandQueued'
  BY <1>7 DEF Fault, Finish, Watchdog, Crash, Leave, TypeOK
<1>8. ASSUME NEW s \in Signals, Enqueue(s) \/ CloseOut(s) PROVE InHandQueued'
  BY <1>8 DEF Enqueue, CloseOut, worker
<1>9. CASE NextDay
  BY <1>9 DEF NextDay, worker
<1>10. CASE UNCHANGED vars
  BY <1>10 DEF vars, history, worker
<1>. QED
  BY <1>1, <1>2, <1>3, <1>4, <1>5, <1>6, <1>7, <1>8, <1>9, <1>10 DEF Next, WorkerStep

\* The invariant the refinement is proved under.
LEMMA RefineInvariant == Spec => []RefineInv
<1>1. Init => InHandQueued
  BY DEF Init, InHandQueued, None
<1>2. RefineInv /\ [Next]_vars => RefineInv'
  BY ChainInductive, InHandStep DEF RefineInv, ChainInv
<1>3. Init => RefineInv
  BY <1>1, ChainInit DEF RefineInv
<1>. QED BY <1>2, <1>3, PTL DEF Spec

\* A committed BUY is the abstract Buy of the signal in hand.
LEMMA CommitIsBuy ==
    ASSUME RefineInv, NEW w \in Workers, CommitBuy(w)
    PROVE  Order!Buy(cur[w]) /\ cur[w] \in Signals
<1>. DEFINE c == cur[w]
<1>. USE DEF RefineInv, ChainInv
<1>1. c \in Signals /\ position[c] = "NONE" /\ ~HeldSymbol(SymbolOf[c])
  BY DEF CommitBuy, Buyable, TypeOK
<1>2. pending[c] # "NONE"
  BY <1>1, T1Assumption DEF InHandQueued, Queued
<1>3. /\ {s \in Signals : position'[s] = "HOLD"}
              = {s \in Signals : position[s] = "HOLD"} \union {c}
      /\ {s \in Signals : position'[s] = "SOLD"} = {s \in Signals : position[s] = "SOLD"}
      /\ {s \in Signals : pending'[s] # "NONE"} = {s \in Signals : pending[s] # "NONE"}
  BY <1>1, <1>2 DEF CommitBuy, TypeOK
<1>. QED BY <1>1, <1>2, <1>3 DEF Order!Buy, HeldSymbol, Held

\* An exit is the abstract Close.
LEMMA CloseOutIsClose ==
    ASSUME TypeOK, NEW s \in Signals, CloseOut(s)
    PROVE  Order!Close(s)
BY DEF CloseOut, TypeOK, Order!Close

\* A first enqueue is the abstract Offer, a repeated one changes nothing.
LEMMA EnqueueIsOffer ==
    ASSUME TypeOK, NEW s \in Signals, Enqueue(s)
    PROVE  Order!Offer(s) \/ UNCHANGED Order!orderVars
<1>1. CASE pending[s] = "NONE"
  <2>1. {t \in Signals : pending'[t] # "NONE"} = {t \in Signals : pending[t] # "NONE"} \union {s}
    BY <1>1 DEF Enqueue, TypeOK
  <2>. QED BY <1>1, <2>1 DEF Enqueue, Order!Offer
<1>2. CASE pending[s] # "NONE"
  BY <1>2 DEF Enqueue, Order!orderVars
<1>. QED BY <1>1, <1>2

\* Every other step leaves the set of queued signals and the positions alone.
LEMMA OthersStutter ==
    ASSUME RefineInv, [Next]_vars,
           \A w \in Workers : ~CommitBuy(w),
           \A s \in Signals : ~CloseOut(s) /\ ~Enqueue(s)
    PROVE  UNCHANGED Order!orderVars
<1>. USE DEF RefineInv, ChainInv
<1>1. ASSUME NEW w \in Workers, UpdateStatus(w) \/ MarkError(w)
      PROVE  UNCHANGED position /\ Queued' = Queued
  <2>1. cur[w] \in Queued
    BY <1>1, T1Assumption DEF UpdateStatus, MarkError, InHandQueued, TypeOK
  <2>2. Queued' \subseteq Queued
    BY <1>1, <2>1 DEF UpdateStatus, MarkError, Queued, TypeOK
  <2>. QED BY <1>1, <2>2, QueuedGrows DEF UpdateStatus, MarkError
<1>2. ASSUME NEW w \in Workers,
             SweepOne(w) \/ Fetch(w) \/ Gate(w) \/ Price(w) \/ RejectBuy(w) \/ Rebuild(w)
             \/ RecordEvent(w) \/ Settled(w) \/ Finish(w) \/ Watchdog(w) \/ Fault(w) \/ Crash(w)
             \/ \E m \in Modes : Start(w, m)
      PROVE  UNCHANGED position /\ Queued' = Queued
  BY <1>2 DEF SweepOne, Fetch, Gate, Price, RejectBuy, Rebuild, RecordEvent, Settled, Finish,
       Watchdog, Fault, Crash, Start, table, Queued
<1>3. CASE NextDay
  BY <1>3 DEF NextDay, Queued, Order!orderVars
<1>4. CASE UNCHANGED vars
  BY <1>4 DEF vars, history, table, Queued, Order!orderVars
<1>. QED
  BY <1>1, <1>2, <1>3, <1>4 DEF Next, WorkerStep, Queued, Order!orderVars

\* The fill engine implements PaperOrder for every set of signals, any number of
\* overlapping cycles and any faults (T1Fill!ImplementsPaperOrder).
THEOREM Implements == Spec => ImplementsPaperOrder
<1>1. Init => Order!OrderInit
  BY DEF Init, Order!OrderInit
<1>2. RefineInv /\ [Next]_vars => [Order!OrderNext]_(Order!orderVars)
  <2>. SUFFICES ASSUME RefineInv, [Next]_vars
                PROVE  Order!OrderNext \/ UNCHANGED Order!orderVars
    OBVIOUS
  <2>1. ASSUME NEW w \in Workers, CommitBuy(w) PROVE Order!OrderNext
    <3>1. Order!Buy(cur[w]) /\ cur[w] \in Signals
      BY <2>1, CommitIsBuy
    <3>. QED BY <3>1 DEF Order!OrderNext, Order!Buy
  <2>2. ASSUME NEW s \in Signals, CloseOut(s) PROVE Order!OrderNext
    BY <2>2, CloseOutIsClose DEF RefineInv, ChainInv, Order!OrderNext
  <2>3. ASSUME NEW s \in Signals, Enqueue(s)
        PROVE  Order!OrderNext \/ UNCHANGED Order!orderVars
    BY <2>3, EnqueueIsOffer DEF RefineInv, ChainInv, Order!OrderNext
  <2>. QED BY <2>1, <2>2, <2>3, OthersStutter
<1>. QED
  BY <1>1, <1>2, RefineInvariant, PTL DEF Spec, ImplementsPaperOrder, Order!OrderSpec

-------------------------------------------------------------------------------
(* Evidence.  A status reaches the queue after its event: what a worker     *)
(* carries to the second statement of _mark_terminal has been recorded.     *)

Evidenced ==
    \A w \in Workers : pc[w] = "status" /\ decided[w] \in Terminal
                         => decided[w] \in events[cur[w]]

EvidenceInv == TypeOK /\ StatusHasEvidence /\ Evidenced

\* The inductive step for the evidence.
LEMMA EvidenceStep == EvidenceInv /\ [Next]_vars => EvidenceInv'
<1>. SUFFICES ASSUME EvidenceInv, [Next]_vars PROVE StatusHasEvidence' /\ Evidenced'
  BY TypeStep DEF EvidenceInv
<1>. USE DEF EvidenceInv, TypeOK, StatusHasEvidence, Evidenced
<1>1. ASSUME NEW w \in Workers, RecordEvent(w)
      PROVE  StatusHasEvidence' /\ Evidenced'
  BY <1>1 DEF RecordEvent, Goto
<1>2. ASSUME NEW w \in Workers, UpdateStatus(w)
      PROVE  StatusHasEvidence' /\ Evidenced'
  BY <1>2 DEF UpdateStatus, Goto
<1>3. ASSUME NEW w \in Workers, CommitBuy(w)
      PROVE  StatusHasEvidence' /\ Evidenced'
  BY <1>3 DEF CommitBuy, Goto
<1>4. ASSUME NEW w \in Workers, MarkError(w)
      PROVE  StatusHasEvidence' /\ Evidenced'
  BY <1>4 DEF MarkError, NextSignal, Goto, Terminal
<1>5. ASSUME NEW w \in Workers, SweepOne(w) \/ Gate(w) \/ Price(w) \/ RejectBuy(w)
      PROVE  StatusHasEvidence' /\ Evidenced'
  BY <1>5 DEF SweepOne, Gate, Price, RejectBuy, Decide, Goto, table
<1>6. ASSUME NEW w \in Workers, NEW m \in Modes,
             Start(w, m) \/ Fetch(w) \/ Rebuild(w) \/ Settled(w) \/ Finish(w) \/ Watchdog(w)
             \/ Fault(w) \/ Crash(w)
      PROVE  StatusHasEvidence' /\ Evidenced'
  BY <1>6 DEF Start, Fetch, Rebuild, Settled, Finish, Watchdog, Fault, Crash, Leave, NextSignal, Goto, table
<1>7. ASSUME NEW s \in Signals, Enqueue(s) \/ CloseOut(s)
      PROVE  StatusHasEvidence' /\ Evidenced'
  BY <1>7 DEF Enqueue, CloseOut, worker, Terminal
<1>8. CASE NextDay
  BY <1>8 DEF NextDay, worker
<1>9. CASE UNCHANGED vars
  BY <1>9 DEF vars, history, table, worker
<1>. QED
  BY <1>1, <1>2, <1>3, <1>4, <1>5, <1>6, <1>7, <1>8, <1>9 DEF Next, WorkerStep, Modes

\* Whatever crashes between the two statements of _mark_terminal, and however many
\* cycles overlap, a terminal status has its event (T1Fill!StatusHasEvidence).
THEOREM StatusEvidence == Spec => []StatusHasEvidence
<1>1. Init => EvidenceInv
  BY TypeInit DEF Init, EvidenceInv, StatusHasEvidence, Evidenced, Terminal
<1>. QED BY <1>1, EvidenceStep, PTL DEF Spec, EvidenceInv

-------------------------------------------------------------------------------
(* The window.  The day does not change under a running cycle, so a signal  *)
(* keeps its age while it is in hand; what has to be shown is that the work *)
(* list holds no signal the sweep should have closed, whatever other cycles *)
(* put back into the queue meanwhile.                                       *)

InHand(w) == todo[w] \union ({cur[w]} \ {None})
InWindow(s) == age[s] <= MaxPendingDays + 1

Working == {"price", "commit", "rebuild", "error", "watch"}

\* No worker's locals outlive its run, and only the work loop buys.
Located ==
    /\ \A w \in Workers : pc[w] = "idle" => InHand(w) = {}
    /\ \A w \in Workers : pc[w] = "loop" => cur[w] = None
    /\ \A w \in Workers : pc[w] \in Working => phase[w] = "work"

\* Age belongs to a row, and every signal in hand is at least a day old.
Aged ==
    /\ \A s \in Signals : pending[s] = "NONE" => age[s] = 0
    /\ \A w \in Workers : \A s \in InHand(w) : age[s] >= 1

\* What is past the window is still on the list of a sweep, or being expired by it.
Swept ==
    \A w \in Workers :
        /\ phase[w] = "work" => \A s \in InHand(w) : InWindow(s)
        /\ phase[w] = "sweep" /\ pc[w] # "idle" =>
              \A s \in Due : InWindow(s) \/ s \in todo[w] \/ (s = cur[w] /\ pc[w] # "done")
        /\ phase[w] = "sweep" /\ pc[w] \in {"event", "status"} => decided[w] = "EXPIRED"

WindowInv == TypeOK /\ NotDecidedFilled /\ Located /\ Aged /\ Swept /\ FillWindow

\* Where a worker is tells what it has in hand.
LEMMA LocatedStep == TypeOK /\ Located /\ [Next]_vars => Located'
<1>. SUFFICES ASSUME TypeOK, Located, [Next]_vars PROVE Located'
  OBVIOUS
<1>. USE DEF TypeOK, Located, InHand, Working
<1>1. ASSUME NEW w \in Workers,
             SweepOne(w) \/ Gate(w) \/ Price(w) \/ RejectBuy(w) \/ CommitBuy(w)
             \/ RecordEvent(w) \/ Fetch(w) \/ \E m \in Modes : Start(w, m)
      PROVE  Located'
  BY <1>1 DEF SweepOne, Gate, Price, RejectBuy, CommitBuy, RecordEvent, Fetch, Start, Decide, Goto
<1>2. ASSUME NEW w \in Workers,
             Rebuild(w) \/ UpdateStatus(w) \/ Settled(w) \/ MarkError(w) \/ Finish(w)
             \/ Watchdog(w) \/ Fault(w) \/ Crash(w)
      PROVE  Located'
  BY <1>2 DEF Rebuild, UpdateStatus, Settled, MarkError, Finish, Watchdog, Fault, Crash, NextSignal,
       Leave, Goto
<1>3. ASSUME NEW s \in Signals, Enqueue(s) \/ CloseOut(s) PROVE Located'
  BY <1>3 DEF Enqueue, CloseOut, worker
<1>4. CASE NextDay \/ UNCHANGED vars
  BY <1>4 DEF NextDay, vars, history, worker
<1>. QED BY <1>1, <1>2, <1>3, <1>4 DEF Next, WorkerStep

\* What a run reads from the queue is at least a day old, and midnight comes only
\* when no run has anything in hand.
LEMMA AgedStep == TypeOK /\ Located /\ Aged /\ [Next]_vars => Aged'
<1>. SUFFICES ASSUME TypeOK, Located, Aged, [Next]_vars PROVE Aged'
  OBVIOUS
<1>. USE DEF TypeOK, Aged, InHand
<1>1. ASSUME NEW w \in Workers, NEW m \in Modes, Start(w, m) PROVE Aged'
  BY <1>1 DEF Start, Foremost, Due, table
<1>2. ASSUME NEW w \in Workers, Fetch(w) PROVE Aged'
  BY <1>2 DEF Fetch, Foremost, Due, table
<1>3. ASSUME NEW w \in Workers, SweepOne(w) \/ Gate(w) \/ Price(w) \/ RejectBuy(w)
      PROVE  Aged'
  BY <1>3 DEF SweepOne, Gate, Price, RejectBuy, Decide, table
<1>4. ASSUME NEW w \in Workers, CommitBuy(w) \/ RecordEvent(w) \/ UpdateStatus(w) \/ MarkError(w)
      PROVE  Aged'
  <2>1. cur[w] \in Signals /\ age[cur[w]] >= 1
    BY <1>4, T1Assumption DEF CommitBuy, RecordEvent, UpdateStatus, MarkError
  <2>. QED BY <1>4, <2>1 DEF CommitBuy, RecordEvent, UpdateStatus, MarkError, NextSignal, None,
               Waiting, Terminal
<1>5. ASSUME NEW w \in Workers,
             Rebuild(w) \/ Settled(w) \/ Finish(w) \/ Watchdog(w) \/ Fault(w) \/ Crash(w)
      PROVE  Aged'
  BY <1>5 DEF Rebuild, Settled, Finish, Watchdog, Fault, Crash, NextSignal, Leave, table
<1>6. ASSUME NEW s \in Signals, Enqueue(s) \/ CloseOut(s) PROVE Aged'
  BY <1>6 DEF Enqueue, CloseOut, worker
<1>7. CASE NextDay
  <2>1. \A w \in Workers : InHand(w)' = {}
    BY <1>7 DEF NextDay, worker, Located
  <2>. QED BY <1>7, <2>1 DEF NextDay, Older
<1>8. CASE UNCHANGED vars
  BY <1>8 DEF vars, history, table, worker
<1>. QED BY <1>1, <1>2, <1>3, <1>4, <1>5, <1>6, <1>7, <1>8 DEF Next, WorkerStep

\* The list of signals that are due but late shrinks to what each sweep still has.
LEMMA SweptStep ==
    ASSUME CalendarKnown = {TRUE}, Cardinality(Signals) <= SweepLimit,
           TypeOK, Located, Aged, Swept, [Next]_vars
    PROVE  Swept'
<1>. USE DEF TypeOK, Swept, InHand, InWindow
<1>1. ASSUME NEW w \in Workers, NEW m \in Modes, Start(w, m) PROVE Swept'
  <2>1. todo' = [todo EXCEPT ![w] = Due] /\ Due' = Due
    BY <1>1, WholeQueue DEF Start, Due, table
  <2>. QED BY <1>1, <2>1 DEF Start, Goto, table, Located
<1>2. ASSUME NEW w \in Workers, SweepOne(w) PROVE Swept'
  <2>1. PICK s \in todo[w] : /\ todo' = [todo EXCEPT ![w] = @ \ {s}]
                             /\ Decide(w, s, "EXPIRED")
    BY <1>2 DEF SweepOne
  <2>2. s # None /\ s \in Signals
    BY T1Assumption
  <2>3. Due' = Due
    BY <1>2 DEF SweepOne, Due, table
  <2>4. \A t \in Due : InWindow(t) \/ t \in todo[w]
    <3>1. cur[w] = None /\ None \notin Signals
      BY <1>2, T1Assumption DEF SweepOne, Located
    <3>. QED BY <1>2, <3>1 DEF SweepOne, Due
  <2>. QED BY <1>2, <2>1, <2>2, <2>3, <2>4 DEF SweepOne, Decide, Goto, table, Located
<1>3. ASSUME NEW w \in Workers, Fetch(w) PROVE Swept'
  <2>1. \A s \in todo[w] : InWindow(s)
    BY <1>3, T1Assumption DEF Fetch, Expired, PendingAge, AgeCap
  <2>2. \A s \in Due : InWindow(s)
    <3>1. cur[w] = None /\ None \notin Signals
      BY <1>3, T1Assumption DEF Fetch, Located
    <3>. QED BY <1>3, <2>1, <3>1 DEF Fetch, Due
  <2>. QED BY <1>3, <2>2 DEF Fetch, Foremost, Due, table, Located
<1>4. ASSUME NEW w \in Workers, Gate(w) \/ Price(w) \/ RejectBuy(w) PROVE Swept'
  BY <1>4 DEF Gate, Price, RejectBuy, Decide, Goto, Due, table, Located, Working
<1>5. ASSUME NEW w \in Workers, CommitBuy(w) PROVE Swept'
  BY <1>5 DEF CommitBuy, Goto, Due, Waiting, Located, Working
<1>6. ASSUME NEW w \in Workers, RecordEvent(w) PROVE Swept'
  BY <1>6 DEF RecordEvent, Goto, Due
<1>7. ASSUME NEW w \in Workers, UpdateStatus(w) PROVE Swept'
  <2>1. cur[w] \in InHand(w) /\ cur[w] \in Signals
    BY <1>7, T1Assumption DEF UpdateStatus
  <2>2. cur[w] \in Due' => InWindow(cur[w])
    BY <1>7, <2>1 DEF UpdateStatus, Due, Waiting
  <2>3. Due' \subseteq Due \union {cur[w]}
    BY <1>7 DEF UpdateStatus, Due
  <2>. QED BY <1>7, <2>1, <2>2, <2>3 DEF UpdateStatus, Goto
<1>8. ASSUME NEW w \in Workers, MarkError(w) PROVE Swept'
  <2>1. cur[w] \in Signals /\ InWindow(cur[w])
    BY <1>8, T1Assumption DEF MarkError, Located, Working
  <2>2. Due' \subseteq Due \union {cur[w]}
    BY <1>8 DEF MarkError, Due
  <2>. QED BY <1>8, <2>1, <2>2 DEF MarkError, NextSignal, Goto, Located, Working
<1>9. ASSUME NEW w \in Workers,
             Rebuild(w) \/ Settled(w) \/ Finish(w) \/ Watchdog(w) \/ Fault(w) \/ Crash(w)
      PROVE  Swept'
  BY <1>9 DEF Rebuild, Settled, Finish, Watchdog, Fault, Crash, NextSignal, Leave, Goto, Due, table,
       Located, Working
<1>10. ASSUME NEW s \in Signals, Enqueue(s) PROVE Swept'
  <2>1. Due' \subseteq Due
    BY <1>10 DEF Enqueue, Due, Aged, worker
  <2>. QED BY <1>10, <2>1 DEF Enqueue, worker
<1>11. ASSUME NEW s \in Signals, CloseOut(s) PROVE Swept'
  BY <1>11 DEF CloseOut, Due, worker
<1>12. CASE NextDay
  BY <1>12 DEF NextDay, worker, Located
<1>13. CASE UNCHANGED vars
  BY <1>13 DEF vars, history, table, worker, Due
<1>. QED
  BY <1>1, <1>2, <1>3, <1>4, <1>5, <1>6, <1>7, <1>8, <1>9, <1>10, <1>11, <1>12, <1>13
     DEF Next, WorkerStep

\* Only a committed BUY writes the age of a fill or the event FILLED, for a signal
\* that the work loop has in hand.
LEMMA FillWindowStep ==
    ASSUME TypeOK, NotDecidedFilled, Located, Aged, Swept, FillWindow, [Next]_vars
    PROVE  FillWindow'
<1>. USE DEF TypeOK, FillWindow
<1>1. ASSUME NEW w \in Workers, CommitBuy(w) PROVE FillWindow'
  <2>1. cur[w] \in InHand(w) /\ cur[w] \in Signals /\ phase[w] = "work"
    BY <1>1, T1Assumption DEF CommitBuy, InHand, Located, Working
  <2>2. age[cur[w]] >= 1 /\ age[cur[w]] <= MaxPendingDays + 1
    BY <2>1 DEF Aged, Swept, InWindow
  <2>. QED BY <1>1, <2>1, <2>2 DEF CommitBuy
<1>2. ASSUME NEW w \in Workers, RecordEvent(w) PROVE FillWindow'
  BY <1>2 DEF RecordEvent, NotDecidedFilled
<1>3. CASE \A w \in Workers : ~CommitBuy(w) /\ ~RecordEvent(w)
  BY <1>3 DEF Next, WorkerStep, SweepOne, Fetch, Gate, Price, RejectBuy, Rebuild, UpdateStatus,
       Settled, MarkError, Finish, Watchdog, Fault, Crash, Start, Enqueue, CloseOut, NextDay, vars, history, table
<1>. QED BY <1>1, <1>2, <1>3

\* A fill falls in the window, whatever the number of cycles, wherever they overlap
\* and whatever fails, as long as the calendar covers the dates and one sweep reads
\* the whole queue.  With a gap the age reads as 0 and the sweep keeps the signal;
\* what is beyond its limit it does not look at (_trading_day_age,
\* T1_EXPIRY_SWEEP_LIMIT, T1Fill!FillWindow).
THEOREM FilledInWindow ==
    ASSUME CalendarKnown = {TRUE}, Cardinality(Signals) <= SweepLimit
    PROVE  Spec => []FillWindow
<1>1. Init => WindowInv
  <2>1. Init => NotDecidedFilled /\ Located /\ Aged /\ Swept /\ FillWindow
    BY DEF Init, NotDecidedFilled, Located, Aged, Swept, FillWindow, InHand, Working, None
  <2>. QED BY <2>1, TypeInit DEF WindowInv
<1>2. WindowInv /\ [Next]_vars => WindowInv'
  BY TypeStep, DecisionsAreRefusals, LocatedStep, AgedStep, SweptStep, FillWindowStep
     DEF WindowInv
<1>. QED BY <1>1, <1>2, PTL DEF Spec, WindowInv

-------------------------------------------------------------------------------
(* One cycle at a time, which is what the daemon runs.  The cap and the     *)
(* single outcome depend on it: both are checked in one step and acted upon *)
(* in a later one.                                                          *)

OneCycle == \A v, w \in Workers : v = w

MidSignal == {"price", "commit", "event", "status"}

\* Whatever the cycle has in hand still waits until its status is written, and its
\* list does not repeat it.
InHandWaits ==
    \A w \in Workers :
        /\ \A s \in todo[w] : pending[s] \in Waiting
        /\ cur[w] \notin todo[w]
        /\ pc[w] \in MidSignal => pending[cur[w]] \in Waiting

Outcomes(s) == Cardinality(events[s])

\* A signal that waits has had an outcome only if something came upon it since, except
\* between the two statements of _mark_terminal.
WaitsUndecided ==
    \A s \in Signals : pending[s] \notin Terminal =>
        \/ Outcomes(s) <= hits[s]
        \/ \E w \in Workers : cur[w] = s /\ pc[w] = "status" /\ decided[w] \in Terminal

\* The handler of exceptions is reached by an exception.
HandlerWasHit == \A w \in Workers : pc[w] = "error" => Outcomes(cur[w]) <= hits[cur[w]]

OutcomeInv == WaitsUndecided /\ HandlerWasHit /\ RedecidedOnlyWhenHit

\* The inductive step for the signals in hand.
LEMMA WaitsStep ==
    ASSUME OneCycle, TypeOK, Located, InHandWaits, [Next]_vars
    PROVE  InHandWaits'
<1>. USE T1Assumption DEF OneCycle, TypeOK, InHandWaits, MidSignal
<1>1. ASSUME NEW w \in Workers, NEW m \in Modes, Start(w, m) PROVE InHandWaits'
  BY <1>1 DEF Start, Goto, Foremost, Due, table, Located, InHand
<1>2. ASSUME NEW w \in Workers, Fetch(w) PROVE InHandWaits'
  BY <1>2 DEF Fetch, Foremost, Due, table, Located
<1>3. ASSUME NEW w \in Workers, SweepOne(w) \/ Gate(w) PROVE InHandWaits'
  BY <1>3 DEF SweepOne, Gate, Decide, Goto, table
<1>4. ASSUME NEW w \in Workers, Price(w) \/ RejectBuy(w) \/ RecordEvent(w) PROVE InHandWaits'
  BY <1>4 DEF Price, RejectBuy, RecordEvent, Decide, Goto, table
<1>5. ASSUME NEW w \in Workers, CommitBuy(w) \/ UpdateStatus(w) \/ MarkError(w)
      PROVE  InHandWaits'
  BY <1>5 DEF CommitBuy, UpdateStatus, MarkError, NextSignal, Goto
<1>6. ASSUME NEW w \in Workers,
             Rebuild(w) \/ Settled(w) \/ Finish(w) \/ Watchdog(w) \/ Fault(w) \/ Crash(w)
      PROVE  InHandWaits'
  BY <1>6 DEF Rebuild, Settled, Finish, Watchdog, Fault, Crash, NextSignal, Leave, Goto, table
<1>7. ASSUME NEW s \in Signals, Enqueue(s) \/ CloseOut(s) PROVE InHandWaits'
  BY <1>7 DEF Enqueue, CloseOut, worker, Waiting
<1>8. CASE NextDay \/ UNCHANGED vars
  BY <1>8 DEF NextDay, vars, history, worker, table
<1>. QED BY <1>1, <1>2, <1>3, <1>4, <1>5, <1>6, <1>7, <1>8 DEF Next, WorkerStep

\* There are four terminal statuses.
LEMMA FiniteTerminal == IsFiniteSet(Terminal)
<1>1. IsFiniteSet({"FILLED"})
  BY FS_Singleton
<1>2. IsFiniteSet({"FILLED"} \union {"UNFILLED"})
  BY <1>1, FS_AddElement
<1>3. IsFiniteSet(({"FILLED"} \union {"UNFILLED"}) \union {"SKIPPED"})
  BY <1>2, FS_AddElement
<1>4. IsFiniteSet((({"FILLED"} \union {"UNFILLED"}) \union {"SKIPPED"}) \union {"EXPIRED"})
  BY <1>3, FS_AddElement
<1>5. Terminal = (({"FILLED"} \union {"UNFILLED"}) \union {"SKIPPED"}) \union {"EXPIRED"}
  BY DEF Terminal
<1>. QED BY <1>4, <1>5

\* The outcomes of a signal are finitely many, and one more event adds at most one.
LEMMA OneMoreOutcome ==
    ASSUME TypeOK, NEW s \in Signals
    PROVE  /\ Outcomes(s) \in Nat
           /\ \A e : e \in Terminal => Cardinality(events[s] \union {e}) <= Outcomes(s) + 1
<1>1. IsFiniteSet(events[s])
  BY FiniteTerminal, FS_Subset DEF TypeOK
<1>2. Outcomes(s) \in Nat
  BY <1>1, FS_CardinalityType DEF Outcomes
<1>3. ASSUME NEW e \in Terminal PROVE Cardinality(events[s] \union {e}) <= Outcomes(s) + 1
  <2>1. Cardinality(events[s] \union {e}) = IF e \in events[s] THEN Outcomes(s) ELSE Outcomes(s) + 1
    BY <1>1, FS_AddElement DEF Outcomes
  <2>. QED BY <1>2, <2>1
<1>. QED BY <1>2, <1>3

\* A step that leaves the events and the status of a signal alone, with nobody on it
\* at the second statement of _mark_terminal, keeps what is known of its outcomes.
LEMMA OutcomeFrame ==
    ASSUME TypeOK, OutcomeInv, UNCHANGED events,
           \A s \in Signals : hits'[s] \in Nat /\ hits'[s] >= hits[s],
           \A s \in Signals : pending'[s] \notin Terminal => pending[s] \notin Terminal,
           \A w \in Workers : pc[w] = "status" /\ decided[w] \in Terminal =>
               \/ pc'[w] = "status" /\ cur'[w] = cur[w] /\ decided'[w] = decided[w]
               \/ pending'[cur[w]] \in Terminal
               \/ Outcomes(cur[w]) <= hits'[cur[w]],
           \A w \in Workers : pc'[w] = "error" =>
               cur'[w] \in Signals /\ Outcomes(cur'[w]) <= hits'[cur'[w]]
    PROVE  OutcomeInv'
<1>. USE DEF OutcomeInv, TypeOK
<1>1. \A s \in Signals : Outcomes(s)' = Outcomes(s) /\ Outcomes(s) \in Nat
  BY OneMoreOutcome DEF Outcomes
<1>2. RedecidedOnlyWhenHit'
  BY <1>1 DEF RedecidedOnlyWhenHit, Outcomes
<1>3. HandlerWasHit'
  BY <1>1 DEF HandlerWasHit
<1>4. WaitsUndecided'
  BY <1>1 DEF WaitsUndecided
<1>. QED BY <1>2, <1>3, <1>4

\* The inductive step for the outcomes.
LEMMA OutcomeStep ==
    ASSUME OneCycle, TypeOK, Located, InHandWaits, OutcomeInv, [Next]_vars
    PROVE  OutcomeInv'
<1>. USE T1Assumption DEF OneCycle, TypeOK
<1>0. \A s \in Signals : Outcomes(s) \in Nat /\ Outcomes(s) <= 1 + hits[s]
  BY OneMoreOutcome DEF OutcomeInv, RedecidedOnlyWhenHit, Outcomes
<1>e. \A w \in Workers : pc[w] = "error" => Outcomes(cur[w]) <= hits[cur[w]]
  BY DEF OutcomeInv, HandlerWasHit
<1>1. ASSUME NEW w \in Workers, CommitBuy(w) \/ RecordEvent(w) PROVE OutcomeInv'
  <2>1. PICK c \in Signals : c = cur[w]
    BY <1>1 DEF CommitBuy, RecordEvent, PcValues
  <2>2. pending[c] \in Waiting /\ pc[w] \in {"commit", "event"}
    BY <1>1, <2>1 DEF CommitBuy, RecordEvent, InHandWaits, MidSignal
  <2>3. Outcomes(c) <= hits[c]
    BY <2>2 DEF OutcomeInv, WaitsUndecided, Waiting, Terminal
  <2>4. UNCHANGED <<hits, cur>> /\ pc'[w] \in {"rebuild", "status"}
    BY <1>1 DEF CommitBuy, RecordEvent, Goto, history
  <2>5. \A s \in Signals \ {c} : Outcomes(s)' = Outcomes(s) /\ pending'[s] = pending[s]
    BY <1>1, <2>1 DEF CommitBuy, RecordEvent, Outcomes
  <2>6. Outcomes(c)' \in Nat /\ Outcomes(c)' <= Outcomes(c) + 1
    <3>1. CASE events'[c] = events[c]
      BY <1>0, <3>1 DEF Outcomes
    <3>2. ASSUME NEW e \in Terminal, events'[c] = events[c] \union {e}
          PROVE  Outcomes(c)' \in Nat /\ Outcomes(c)' <= Outcomes(c) + 1
      <4>1. IsFiniteSet(events'[c])
        <5>1. events'[c] \subseteq Terminal
          BY <3>2
        <5>. QED BY <5>1, FiniteTerminal, FS_Subset
      <4>2. Outcomes(c)' \in Nat
        BY <4>1, FS_CardinalityType DEF Outcomes
      <4>. QED BY <3>2, <4>2, OneMoreOutcome DEF Outcomes
    <3>3. events'[c] = events[c] \/ \E e \in Terminal : events'[c] = events[c] \union {e}
      <4>1. CASE CommitBuy(w)
        BY <2>1, <4>1 DEF CommitBuy, Terminal
      <4>2. CASE RecordEvent(w)
        <5>1. events'[c] = events[c] \union ({decided[w]} \intersect Terminal)
          BY <2>1, <4>2 DEF RecordEvent
        <5>2. CASE decided[w] \in Terminal
          BY <5>1, <5>2
        <5>3. CASE decided[w] \notin Terminal
          BY <5>1, <5>3
        <5>. QED BY <5>2, <5>3
      <4>. QED BY <1>1, <4>1, <4>2
    <3>. QED BY <3>1, <3>2, <3>3
  <2>7. RedecidedOnlyWhenHit'
    BY <1>0, <2>3, <2>4, <2>5, <2>6 DEF RedecidedOnlyWhenHit, Outcomes
  <2>8. HandlerWasHit'
    BY <2>4 DEF HandlerWasHit
  <2>9. ASSUME NEW s \in Signals, pending'[s] \notin Terminal
        PROVE  \/ Outcomes(s)' <= hits'[s]
               \/ \E v \in Workers : cur'[v] = s /\ pc'[v] = "status" /\ decided'[v] \in Terminal
    <3>1. CASE s # c
      <4>1. Outcomes(s) <= hits[s]
        BY <2>2, <2>5, <2>9, <3>1 DEF OutcomeInv, WaitsUndecided
      <4>. QED BY <2>4, <2>5, <3>1, <4>1
    <3>2. CASE s = c /\ RecordEvent(w) /\ decided[w] \in Terminal
      BY <2>1, <3>2 DEF RecordEvent, Goto
    <3>3. CASE s = c /\ RecordEvent(w) /\ decided[w] \notin Terminal
      <4>1. events'[c] = events[c] \union ({decided[w]} \intersect Terminal)
        BY <2>1, <3>3 DEF RecordEvent
      <4>2. events'[c] = events[c]
        BY <3>3, <4>1
      <4>3. Outcomes(c)' = Outcomes(c)
        BY <4>2 DEF Outcomes
      <4>. QED BY <2>3, <2>4, <3>3, <4>3
    <3>4. CASE s = c /\ CommitBuy(w)
      BY <2>1, <2>9, <3>4 DEF CommitBuy, Terminal
    <3>. QED BY <1>1, <3>1, <3>2, <3>3, <3>4
  <2>. QED BY <2>7, <2>8, <2>9 DEF OutcomeInv, WaitsUndecided
<1>2. ASSUME NEW w \in Workers, UpdateStatus(w) PROVE OutcomeInv'
  <2>1. cur[w] \in Signals /\ pending[cur[w]] \notin Terminal
    BY <1>2 DEF UpdateStatus, PcValues, InHandWaits, MidSignal, Waiting, Terminal
  <2>2. UNCHANGED <<events, hits>> /\ pc'[w] = "done"
    BY <1>2 DEF UpdateStatus, Goto, history
  <2>3. pending' = [pending EXCEPT ![cur[w]] = decided[w]]
    BY <1>2 DEF UpdateStatus
  <2>4. /\ \A s \in Signals : pending'[s] \notin Terminal => pending[s] \notin Terminal
        /\ decided[w] \in Terminal => pending'[cur[w]] \in Terminal
    BY <2>1, <2>3
  <2>5. \A v \in Workers : v = w
    OBVIOUS
  <2>6. \A s \in Signals : hits'[s] \in Nat /\ hits'[s] >= hits[s]
    BY <2>2
  <2>. QED BY <2>2, <2>4, <2>5, <2>6, OutcomeFrame
<1>3. ASSUME NEW w \in Workers, Fault(w) \/ Crash(w) PROVE OutcomeInv'
  <2>1. UNCHANGED <<events, pending>> /\ \A s \in Signals : hits'[s] \in Nat /\ hits'[s] >= hits[s]
    BY <1>3 DEF Fault, Crash, Hit, table
  <2>2. cur[w] \in Signals => Outcomes(cur[w]) <= hits'[cur[w]]
    BY <1>0, <1>3 DEF Fault, Crash, Hit
  <2>3. /\ pc'[w] # "status"
        /\ pc[w] = "status" => cur[w] \in Signals
        /\ pc'[w] = "error" => cur'[w] = cur[w] /\ cur[w] \in Signals
    BY <1>3 DEF Fault, Crash, Leave, Goto, PcValues
  <2>. QED BY <2>1, <2>2, <2>3, OutcomeFrame
<1>4. ASSUME NEW w \in Workers, MarkError(w) PROVE OutcomeInv'
  <2>. DEFINE c == cur[w]
  <2>1. c \in Signals /\ Outcomes(c) <= hits[c] /\ UNCHANGED <<events, hits>>
    BY <1>4, <1>e DEF MarkError, PcValues, history
  <2>2. pc'[w] = "loop" /\ \A s \in Signals \ {c} : pending'[s] = pending[s]
    BY <1>4 DEF MarkError, NextSignal, Goto
  <2>3. \A s \in Signals : Outcomes(s)' = Outcomes(s)
    BY <2>1 DEF Outcomes
  <2>4. RedecidedOnlyWhenHit' /\ HandlerWasHit'
    BY <2>1, <2>2 DEF OutcomeInv, RedecidedOnlyWhenHit, HandlerWasHit
  <2>5. WaitsUndecided'
    BY <1>4, <2>1, <2>2, <2>3 DEF OutcomeInv, WaitsUndecided, MarkError
  <2>. QED BY <2>4, <2>5 DEF OutcomeInv
<1>5. ASSUME NEW w \in Workers,
             SweepOne(w) \/ Fetch(w) \/ Gate(w) \/ Price(w) \/ RejectBuy(w) \/ Rebuild(w)
             \/ Settled(w) \/ Finish(w) \/ Watchdog(w) \/ \E m \in Modes : Start(w, m)
      PROVE  OutcomeInv'
  <2>1. UNCHANGED <<pending, events, hits>>
    BY <1>5 DEF SweepOne, Fetch, Gate, Price, RejectBuy, Rebuild, Settled, Finish, Watchdog, Start,
         table, history
  <2>2. pc[w] # "status" /\ pc'[w] # "error"
    BY <1>5 DEF SweepOne, Fetch, Gate, Price, RejectBuy, Rebuild, Settled, Finish, Watchdog, Start,
         Decide, NextSignal, Leave, Goto
  <2>. QED BY <2>1, <2>2, OutcomeFrame
<1>6. ASSUME NEW s \in Signals, Enqueue(s) \/ CloseOut(s) PROVE OutcomeInv'
  BY <1>6, <1>e, OutcomeFrame DEF Enqueue, CloseOut, worker, history, Terminal, PcValues
<1>7. CASE NextDay \/ UNCHANGED vars
  BY <1>7, <1>e, OutcomeFrame DEF NextDay, vars, history, worker, table, PcValues
<1>. QED BY <1>1, <1>2, <1>3, <1>4, <1>5, <1>6, <1>7 DEF Next, WorkerStep

OnceInv == TypeOK /\ Located /\ InHandWaits /\ OutcomeInv

\* With one cycle at a time, for any signals and any number of faults: a signal that
\* was filled, refused, skipped or expired gets another outcome only by way of an
\* exception or a crash that came upon it, one for each (the handler at
\* t1_fill_engine.py:1744 and _mark_terminal, T1Fill!RedecidedOnlyWhenHit).
THEOREM DecidedOnceUnlessHit ==
    ASSUME OneCycle
    PROVE  Spec => []RedecidedOnlyWhenHit
<1>1. Init => OnceInv
  <2>1. Init => Located /\ InHandWaits
    BY DEF Init, Located, InHand, Working, InHandWaits, MidSignal
  <2>2. Init => OutcomeInv
    BY FS_EmptySet DEF Init, OutcomeInv, WaitsUndecided, HandlerWasHit, RedecidedOnlyWhenHit, Outcomes
  <2>. QED BY <2>1, <2>2, TypeInit DEF OnceInv
<1>2. OnceInv /\ [Next]_vars => OnceInv'
  BY TypeStep, LocatedStep, WaitsStep, OutcomeStep DEF OnceInv
<1>3. OnceInv => RedecidedOnlyWhenHit
  BY DEF OnceInv, OutcomeInv
<1>. QED BY <1>1, <1>2, <1>3, PTL DEF Spec

\* A BUY that was committed and whose rebuild of the metrics is still to come.
Unaccounted == IF \E w \in Workers : pc[w] = "rebuild" THEN 1 ELSE 0

\* The cached count lags by the rebuilds that were lost and the one to come, and a BUY
\* that passed the check still has its slot: exits in between only make room.
SlotKept ==
    /\ Cardinality(Held) <= metrics + deferred + Unaccounted
    /\ \A w \in Workers : pc[w] = "commit" => Cardinality(Held) < MaxPositions + deferred

CapInv == TypeOK /\ SlotKept /\ CapUpToDeferred

\* Steps of the other kind leave the positions, the cached count and the place of a
\* pending rebuild alone.
LEMMA CapFrame ==
    ASSUME TypeOK, SlotKept, CapUpToDeferred, UNCHANGED <<position, metrics, deferred>>,
           \A w \in Workers : /\ pc'[w] = "commit" => pc[w] = "commit"
                              /\ pc[w] = "rebuild" => pc'[w] = "rebuild"
    PROVE  SlotKept' /\ CapUpToDeferred'
<1>1. Held' = Held
  BY DEF Held
<1>2. Unaccounted' >= Unaccounted
  BY DEF Unaccounted
<1>3. Unaccounted \in 0..1 /\ Unaccounted' \in 0..1 /\ Cardinality(Held) \in Nat
  BY HeldCount DEF Unaccounted
<1>4. Cardinality(Held') = Cardinality(Held)
  BY <1>1
<1>. QED BY <1>2, <1>3, <1>4, T1Assumption DEF SlotKept, CapUpToDeferred, TypeOK

\* A committed BUY takes the slot that was kept for it.
LEMMA CommitTakesSlot ==
    ASSUME OneCycle, TypeOK, SlotKept, CapUpToDeferred, NEW w \in Workers, CommitBuy(w)
    PROVE  SlotKept' /\ CapUpToDeferred'
<1>1. Held' = Held \union {cur[w]} /\ cur[w] \notin Held
  BY DEF CommitBuy, Buyable, Held, TypeOK
<1>2. IsFiniteSet(Held)
  BY T1Assumption, FS_Subset DEF Held
<1>3. Cardinality(Held') = Cardinality(Held) + 1 /\ Cardinality(Held) \in Nat
  BY <1>1, <1>2, FS_AddElement, HeldCount
<1>4. Unaccounted = 0 /\ Unaccounted' = 1
  BY DEF CommitBuy, Goto, Unaccounted, OneCycle, TypeOK
<1>5. \A v \in Workers : pc'[v] # "commit"
  BY DEF CommitBuy, Goto, OneCycle, TypeOK
<1>. QED
  BY <1>3, <1>4, <1>5, T1Assumption DEF CommitBuy, history, SlotKept, CapUpToDeferred, TypeOK

\* An exit gives a slot back, whether or not the metrics are rebuilt.
LEMMA ExitGivesSlot ==
    ASSUME TypeOK, SlotKept, CapUpToDeferred, NEW s \in Signals, CloseOut(s)
    PROVE  SlotKept' /\ CapUpToDeferred'
<1>1. Held' = Held \ {s} /\ s \in Held
  BY DEF CloseOut, Held, TypeOK
<1>2. IsFiniteSet(Held)
  BY T1Assumption, FS_Subset DEF Held
<1>3. Cardinality(Held') = Cardinality(Held) - 1 /\ Cardinality(Held) \in Nat
  BY <1>1, <1>2, FS_RemoveElement, HeldCount
<1>4. Unaccounted' = Unaccounted /\ Unaccounted \in 0..1
  BY DEF CloseOut, worker, Unaccounted
<1>5. metrics' \in {metrics, Cardinality(Held')} /\ UNCHANGED <<pc, deferred>>
  BY DEF CloseOut, worker, history
<1>. QED BY <1>3, <1>4, <1>5, T1Assumption DEF SlotKept, CapUpToDeferred, TypeOK

\* A rebuild makes the cached count exact; one that is lost is counted as deferred.
LEMMA RebuildSettles ==
    ASSUME OneCycle, TypeOK, SlotKept, CapUpToDeferred, NEW w \in Workers,
           Rebuild(w) \/ ((Fault(w) \/ Crash(w)) /\ pc[w] = "rebuild")
    PROVE  SlotKept' /\ CapUpToDeferred'
<1>1. Held' = Held
  BY DEF Rebuild, Fault, Crash, Held, table
<1>2. Cardinality(Held') = Cardinality(Held) /\ Cardinality(Held) \in Nat
  BY <1>1, HeldCount
<1>3. Unaccounted = 1 /\ Unaccounted' = 0
  BY DEF Rebuild, Fault, Crash, Leave, Goto, Unaccounted, OneCycle, TypeOK
<1>4. \A v \in Workers : pc'[v] # "commit"
  BY DEF Rebuild, Fault, Crash, Leave, Goto, OneCycle, TypeOK
<1>5. \/ metrics' = Cardinality(Held) /\ deferred' = deferred
      \/ metrics' = metrics /\ deferred' = deferred + 1
  BY DEF Rebuild, Fault, Crash, LoseRebuild
<1>. QED BY <1>2, <1>3, <1>4, <1>5, T1Assumption DEF SlotKept, CapUpToDeferred, TypeOK

\* The check of the cap leaves room for one more than is held.
LEMMA PriceKeepsRoom ==
    ASSUME OneCycle, TypeOK, SlotKept, CapUpToDeferred, NEW w \in Workers, Price(w)
    PROVE  SlotKept' /\ CapUpToDeferred'
<1>1. Held' = Held
  BY DEF Price, Held, table
<1>2. Cardinality(Held') = Cardinality(Held) /\ Cardinality(Held) \in Nat
  BY <1>1, HeldCount
<1>3. Unaccounted = 0 /\ Unaccounted' \in 0..1
  BY DEF Price, Unaccounted, OneCycle, TypeOK
<1>4. ASSUME NEW v \in Workers, pc'[v] = "commit" PROVE metrics < MaxPositions
  BY <1>4, T1Assumption DEF Price, Decide, Goto, PositionFull, OneCycle, TypeOK
<1>5. UNCHANGED <<metrics, deferred>>
  BY DEF Price, history
<1>. QED BY <1>2, <1>3, <1>4, <1>5, T1Assumption DEF SlotKept, CapUpToDeferred, TypeOK

\* The inductive step for the cap.
LEMMA CapStep == OneCycle /\ CapInv /\ [Next]_vars => CapInv'
<1>. SUFFICES ASSUME OneCycle, CapInv, [Next]_vars PROVE SlotKept' /\ CapUpToDeferred'
  BY TypeStep DEF CapInv
<1>. USE DEF CapInv
<1>1. ASSUME NEW w \in Workers,
             CommitBuy(w) \/ Rebuild(w) \/ Price(w)
             \/ ((Fault(w) \/ Crash(w)) /\ pc[w] = "rebuild")
      PROVE  SlotKept' /\ CapUpToDeferred'
  BY <1>1, CommitTakesSlot, RebuildSettles, PriceKeepsRoom
<1>2. ASSUME NEW s \in Signals, CloseOut(s) PROVE SlotKept' /\ CapUpToDeferred'
  BY <1>2, ExitGivesSlot
<1>3. ASSUME NEW w \in Workers,
             SweepOne(w) \/ Fetch(w) \/ Gate(w) \/ RejectBuy(w) \/ RecordEvent(w)
             \/ UpdateStatus(w) \/ Settled(w) \/ MarkError(w) \/ Finish(w) \/ Watchdog(w)
             \/ ((Fault(w) \/ Crash(w)) /\ pc[w] # "rebuild") \/ \E m \in Modes : Start(w, m)
      PROVE  SlotKept' /\ CapUpToDeferred'
  <2>1. UNCHANGED <<position, metrics, deferred>>
    BY <1>3 DEF SweepOne, Fetch, Gate, RejectBuy, RecordEvent, UpdateStatus, Settled, MarkError, Finish,
         Watchdog, Fault, Crash, LoseRebuild, Start, history, table
  <2>2. \A v \in Workers : /\ pc'[v] = "commit" => pc[v] = "commit"
                           /\ pc[v] = "rebuild" => pc'[v] = "rebuild"
    BY <1>3 DEF SweepOne, Fetch, Gate, RejectBuy, RecordEvent, UpdateStatus, Settled, MarkError, Finish,
         Watchdog, Fault, Crash, Start, Decide, NextSignal, Leave, Goto, OneCycle, TypeOK
  <2>. QED BY <2>1, <2>2, CapFrame
<1>4. ASSUME NEW s \in Signals, Enqueue(s) PROVE SlotKept' /\ CapUpToDeferred'
  BY <1>4, CapFrame DEF Enqueue, worker, history
<1>5. CASE NextDay \/ UNCHANGED vars
  BY <1>5, CapFrame DEF NextDay, vars, history, table, worker
<1>. QED BY <1>1, <1>2, <1>3, <1>4, <1>5 DEF Next, WorkerStep

\* The cap holds up to the rebuilds that were lost, for any cap, any exits during the
\* cycle and any faults (t1_fill_engine.py, T1Fill!CapUpToDeferred).
THEOREM CapHolds ==
    ASSUME OneCycle
    PROVE  Spec => []CapUpToDeferred
<1>1. Init => CapInv
  <2>1. ASSUME Init PROVE Held = {}
    BY <2>1 DEF Init, Held
  <2>2. Init => SlotKept /\ CapUpToDeferred
    BY <2>1, FS_EmptySet, T1Assumption DEF Init, SlotKept, CapUpToDeferred, Unaccounted
  <2>. QED BY <2>2, TypeInit DEF CapInv
<1>2. CapInv /\ [Next]_vars => CapInv'
  BY CapStep
<1>. QED BY <1>1, <1>2, PTL DEF Spec, CapInv
===============================================================================
