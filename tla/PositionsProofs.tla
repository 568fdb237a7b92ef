----------------------------- MODULE PositionsProofs -----------------------------
(***************************************************************************)
(* What holds of the paper positions for any rows, sizes, quotes and       *)
(* liquidity, with stale copies, partial sales and the force liquidation.  *)
(***************************************************************************)
EXTENDS PaperPositions, TLAPS

Lines == {WrongPick, Entry, Floor}

RuleNames == {"", "FORCE_LIQUIDATION", "WRONG_PICK_STOP"} \union {Order[k] : k \in 1..17}

Rows == [status : Statuses, qty : Nat, realized : Nat, stage : Stages,
         high : Price, stop : Lines, rule : RuleNames]

LEMMA Prices == /\ \A x \in Lines : x \in Nat
                /\ \A x \in Price : x \in Nat
<1>1. \A x \in Lines : x \in Nat
    BY DEF Lines, WrongPick, Entry, Floor
<1>2. \A x \in Price : x \in Nat
    BY PositionAssumption DEF Price, Entry
<1> QED BY <1>1, <1>2

-------------------------------------------------------------------------------
(* The plan of a sale.                                                      *)

\* The first rule that applies exists, as the last one always does.
LEMMA FirstOfOrder ==
    ASSUME NEW v
    PROVE  \E k \in 1..17 : /\ FirstApplying(v) = Order[k] /\ Applies(Order[k], v)
                            /\ \A j \in 1..(k - 1) : ~Applies(Order[j], v)
<1> DEFINE A(k) == Applies(Order[k], v)
           First(k) == A(k) /\ \A j \in 1..(k - 1) : ~A(j)
<1>1. DOMAIN Order = 1..17
    BY DEF Order
<1>2. A(17)
    BY DEF Applies, Order
<1>3. \E k \in 1..17 : First(k)
    <2> HIDE DEF A
    <2>1. CASE \A j \in 1..16 : ~A(j)
        BY <1>2, <2>1
    <2>2. ASSUME NEW i \in 1..16, A(i) PROVE \E k \in 1..17 : First(k)
        <3>1. CASE \E j \in 1..8 : A(j)
            <4>1. CASE A(1) \/ A(2) \/ A(3) \/ A(4)
                BY <4>1
            <4>2. CASE ~A(1) /\ ~A(2) /\ ~A(3) /\ ~A(4) /\ (A(5) \/ A(6) \/ A(7) \/ A(8))
                BY <4>2
            <4> QED BY <3>1, <4>1, <4>2
        <3>2. CASE (\A j \in 1..8 : ~A(j)) /\ \E j \in 9..16 : A(j)
            <4>1. CASE A(9) \/ A(10) \/ A(11) \/ A(12)
                BY <3>2, <4>1
            <4>2. CASE ~A(9) /\ ~A(10) /\ ~A(11) /\ ~A(12) /\ (A(13) \/ A(14) \/ A(15) \/ A(16))
                BY <3>2, <4>2
            <4> QED BY <3>2, <4>1, <4>2
        <3> QED BY <2>2, <3>1, <3>2
    <2> QED BY <2>1, <2>2
<1>4. PICK k \in 1..17 : k = CHOOSE i \in DOMAIN Order : First(i)
    BY <1>1, <1>3
<1>5. First(k)
    BY <1>1, <1>3, <1>4
<1>6. FirstApplying(v) = Order[k]
    BY <1>4 DEF FirstApplying
<1> QED BY <1>5, <1>6

\* A rule is a name, whichever applies.
LEMMA RuleIsName == ASSUME NEW v PROVE SellRule(v) \in RuleNames
<1>1. PICK k \in 1..17 : FirstApplying(v) = Order[k]
    BY FirstOfOrder
<1> QED BY <1>1 DEF SellRule, RuleNames

\* What the manager makes of a copy keeps to the columns' types and never lowers a line.
LEMMA ViewSound ==
    ASSUME NEW p \in Positions, NEW f \in Facts, seen[p] \in Rows
    PROVE  LET v == View(p, f) IN
           /\ v.qty = seen[p].qty /\ v.base \in Nat /\ v.stage = seen[p].stage
           /\ v.high \in Price /\ seen[p].high <= v.high
           /\ v.stop \in Lines /\ seen[p].stop <= v.stop
<1>1. f.price \in Quotes /\ f.price \in Nat
    BY PositionAssumption DEF Facts
<1>2. /\ seen[p].high \in Price /\ seen[p].high \in Nat /\ seen[p].qty \in Nat
      /\ seen[p].stage \in Stages /\ seen[p].stop \in Lines /\ Initial[p] \in Nat
    <2>1. /\ seen[p].high \in Price /\ seen[p].qty \in Nat
          /\ seen[p].stage \in Stages /\ seen[p].stop \in Lines
        BY DEF Rows
    <2>2. Initial[p] \in Nat /\ \A x \in Price : x \in Nat
        BY PositionAssumption DEF Price, Entry
    <2> QED BY <2>1, <2>2
<1>3. /\ Larger(Larger(seen[p].high, Entry), f.price) \in Price
      /\ seen[p].high <= Larger(Larger(seen[p].high, Entry), f.price)
    BY <1>1, <1>2 DEF Larger, Price, Entry
<1>4. StageLine(seen[p].stage) \in Lines
    BY <1>2 DEF StageLine, Lines
<1>5. /\ ProtectionLine(seen[p].stage, seen[p].stop) \in Lines
      /\ seen[p].stop <= ProtectionLine(seen[p].stage, seen[p].stop)
    BY <1>2, <1>4 DEF ProtectionLine, Larger, Lines, WrongPick, Entry, Floor
<1>6. Larger(Initial[p], seen[p].qty) \in Nat
    BY <1>2 DEF Larger
<1> QED BY <1>3, <1>5, <1>6 DEF View

\* No plan sells more than there is.
LEMMA PlanSound ==
    ASSUME NEW rule, NEW v, v.qty \in Nat, v.base \in Nat, v.stage \in Stages, v.stop \in Lines
    PROVE  /\ PlanLots(rule, v) \in 0..v.qty
           /\ PlanStop(rule, v) \in Lines
           /\ PlanStage(rule, v) \in Stages
<1>1. Runner(v) \in 0..v.qty /\ FirstLots(v) \in 0..v.qty /\ v.qty \div 2 \in 0..v.qty
    BY DEF Runner, FirstLots, Smaller
<1>2. PlanLots(rule, v) \in 0..v.qty
    BY <1>1 DEF PlanLots
<1>3. LockStop(v) \in Lines /\ Larger(Entry, v.stop) \in Lines
    BY DEF LockStop, Larger, Lines, WrongPick, Entry, Floor
<1>4. PlanStop(rule, v) \in Lines
    BY <1>3 DEF PlanStop
<1>5. PlanStage(rule, v) \in Stages
    BY DEF PlanStage, Stages, Locked
<1> QED BY <1>2, <1>4, <1>5

\* The market takes something of an order, and no more than the order.
LEMMA FillSound ==
    ASSUME NEW rule, NEW lots \in Nat \ {0}, NEW capacity \in Nat
    PROVE  FilledLots(rule, lots, capacity) \in 1..lots
BY DEF FilledLots, Smaller

-------------------------------------------------------------------------------
(* The rows, and the copies of them a tick goes by.                         *)

Outcomes == {"NONE", "IN_PROGRESS", "COMPLETED"}

Shape ==
    /\ row \in [Positions -> Rows] /\ sold \in [Positions -> Nat]
    /\ events \in [Positions -> [Liquidating -> Outcomes]]
    /\ seen = [p \in DOMAIN seen |-> seen[p]] /\ DOMAIN seen \subseteq Positions

\* A copy of a row that is still open is the row.
Copied ==
    \A p \in DOMAIN seen : /\ seen[p] \in Rows /\ seen[p].status = "HOLD"
                           /\ row[p].status # "NONE"
                           /\ row[p].status = "HOLD" => seen[p] = row[p]

Completed(p, r) == events[p][r] = "COMPLETED"

\* The books of one position.
Balanced(p) ==
    /\ row[p].status = "NONE" =>
          row[p].qty = 0 /\ row[p].realized = 0 /\ sold[p] = 0 /\ \A r \in Liquidating : ~Completed(p, r)
    /\ row[p].status = "HOLD" =>
          /\ row[p].qty \in 1..Initial[p] /\ sold[p] = Initial[p] - row[p].qty
          /\ row[p].realized = sold[p] /\ \A r \in Liquidating : ~Completed(p, r)
    /\ row[p].status = "SOLD" =>
          /\ row[p].qty = 0 /\ sold[p] = Initial[p] /\ row[p].realized \in 0..Initial[p]
          /\ row[p].rule # "FORCE_LIQUIDATION" => row[p].realized = sold[p]
          /\ \A r \in Liquidating : Completed(p, r) => row[p].rule = r

Books == \A p \in Positions : Balanced(p)

PInv == Shape /\ Copied /\ Books

LEMMA InitBooks == Init => PInv
<1> SUFFICES ASSUME Init PROVE PInv
    OBVIOUS
<1>1. Unopened \in Rows
    BY DEF Unopened, Rows, Statuses, Stages, Price, Lines, RuleNames
<1>2. Shape
    BY <1>1 DEF Init, Shape, Outcomes, Nothing
<1>3. Copied
    BY DEF Init, Copied, Nothing
<1>4. Books
    BY DEF Init, Books, Balanced, Completed, Unopened
<1> QED BY <1>2, <1>3, <1>4 DEF PInv

\* The tick goes on to its next copy.
LEMMA CopiesLeft ==
    ASSUME PInv, NEW p \in DOMAIN seen, Handled(p), row' \in [Positions -> Rows],
           \A q \in Positions \ {p} : row'[q] = row[q]
    PROVE  /\ seen' = [q \in DOMAIN seen' |-> seen'[q]] /\ DOMAIN seen' \subseteq Positions
           /\ Copied'
<1>1. seen' = [q \in DOMAIN seen \ {p} |-> seen[q]]
    BY DEF Handled, Restrict
<1>2. DOMAIN seen' = DOMAIN seen \ {p} /\ \A q \in DOMAIN seen' : seen'[q] = seen[q] /\ row'[q] = row[q]
    BY <1>1 DEF PInv, Shape
<1> QED BY <1>1, <1>2 DEF PInv, Shape, Copied

\* A sale is made on an exact copy and leaves the books balanced.
LEMMA SellStep == ASSUME PInv, NEW p \in Positions, NEW f \in Facts, Sell(p, f) PROVE PInv'
<1> DEFINE v == View(p, f)
           rule == SellRule(v)
<1>1. p \in DOMAIN seen /\ PlanLots(rule, v) > 0
    BY DEF Sell
<1>2. PICK capacity \in Liquidity :
        LET lots == FilledLots(rule, PlanLots(rule, v), capacity) IN
        /\ Committable(p, lots)
        /\ row' = [row EXCEPT ![p] = RowAfterSale(p, v, rule, lots)]
        /\ sold' = [sold EXCEPT ![p] = @ + lots]
        /\ events' = EventsAfter(p, rule, lots = v.qty)
    BY DEF Sell
<1> DEFINE lots == FilledLots(rule, PlanLots(rule, v), capacity)
<1>3. /\ row[p].status = "HOLD" /\ seen[p] = row[p] /\ seen[p] \in Rows
    BY <1>1, <1>2 DEF Committable, PInv, Copied
<1>4. /\ v.qty = row[p].qty /\ v.qty \in Nat /\ v.base \in Nat /\ v.stage \in Stages
      /\ v.high \in Price /\ v.stop \in Lines
    BY <1>3, ViewSound DEF Rows
<1>5. /\ PlanLots(rule, v) \in 0..v.qty /\ PlanStop(rule, v) \in Lines
      /\ PlanStage(rule, v) \in Stages /\ rule \in RuleNames
    BY <1>4, PlanSound, RuleIsName
<1> HIDE DEF v, rule
<1>6. lots \in 1..v.qty
    <2>1. PlanLots(rule, v) \in Nat \ {0} /\ capacity \in Nat
        BY <1>1, <1>5, PositionAssumption
    <2>2. lots \in 1..PlanLots(rule, v)
        BY <2>1, FillSound
    <2> QED BY <1>4, <1>5, <2>1, <2>2
<1> HIDE DEF lots
<1>7. /\ row' = [row EXCEPT ![p] = RowAfterSale(p, v, rule, lots)]
      /\ sold' = [sold EXCEPT ![p] = @ + lots]
      /\ events' = EventsAfter(p, rule, lots = v.qty)
    BY <1>2 DEF lots
<1> DEFINE after == RowAfterSale(p, v, rule, lots)
<1>8. /\ Initial[p] \in Nat /\ row[p].qty \in 1..Initial[p]
      /\ sold[p] = Initial[p] - row[p].qty /\ row[p].realized = sold[p]
      /\ \A r \in Liquidating : ~Completed(p, r)
    BY <1>3, PositionAssumption DEF PInv, Books, Balanced
<1>9. /\ after.status = (IF lots = v.qty THEN "SOLD" ELSE "HOLD") /\ after.qty = v.qty - lots
      /\ after.realized = row[p].realized + lots /\ after.rule = rule
    BY <1>3 DEF RowAfterSale, Realized
<1>10. after \in Rows
    <2>1. v.qty - lots \in Nat /\ row[p].realized + lots \in Nat
        BY <1>4, <1>6, <1>8
    <2>2. Larger(v.stop, PlanStop(rule, v)) \in Lines
        BY <1>4, <1>5 DEF Larger
    <2> QED BY <1>3, <1>4, <1>5, <2>1, <2>2 DEF RowAfterSale, Realized, Rows, Statuses
<1> HIDE DEF after
<1>11. /\ row' \in [Positions -> Rows] /\ row'[p] = after
       /\ \A q \in Positions \ {p} : row'[q] = row[q]
    BY <1>7, <1>10 DEF PInv, Shape, after
<1>12. /\ sold' \in [Positions -> Nat] /\ sold'[p] = sold[p] + lots
       /\ \A q \in Positions \ {p} : sold'[q] = sold[q]
    BY <1>6, <1>7, <1>4 DEF PInv, Shape
<1>13. /\ events' \in [Positions -> [Liquidating -> Outcomes]]
       /\ \A q \in Positions \ {p} : events'[q] = events[q]
       /\ \A r \in Liquidating : events'[p][r] = "COMPLETED" => lots = v.qty /\ r = rule
    <2>1. CASE rule \in Liquidating
        BY <1>7, <1>8, <2>1 DEF EventsAfter, PInv, Shape, Outcomes, Completed
    <2>2. CASE rule \notin Liquidating
        BY <1>7, <1>8, <2>2 DEF EventsAfter, PInv, Shape, Completed
    <2> QED BY <2>1, <2>2
<1>14. Handled(p)
    BY DEF Sell
<1>15. Shape' /\ Copied'
    BY <1>1, <1>11, <1>12, <1>13, <1>14, CopiesLeft DEF Shape
<1>16. \A q \in Positions \ {p} : Balanced(q)'
    BY <1>11, <1>12, <1>13 DEF PInv, Books, Balanced, Completed
<1>17. Balanced(p)'
    <2>1. CASE lots = v.qty
        <3>1. /\ row'[p].status = "SOLD" /\ row'[p].qty = 0 /\ row'[p].rule = rule
              /\ row'[p].realized = Initial[p] /\ sold'[p] = Initial[p]
            BY <1>4, <1>8, <1>9, <1>11, <1>12, <2>1
        <3> QED BY <1>8, <1>13, <3>1 DEF Balanced, Completed
    <2>2. CASE lots # v.qty
        <3>1. /\ row'[p].status = "HOLD" /\ row'[p].qty \in 1..Initial[p]
              /\ row'[p].realized = sold'[p] /\ sold'[p] = Initial[p] - row'[p].qty
            BY <1>4, <1>6, <1>8, <1>9, <1>11, <1>12, <2>2
        <3> QED BY <1>13, <2>2, <3>1 DEF Balanced, Completed
    <2> QED BY <2>1, <2>2
<1> QED BY <1>15, <1>16, <1>17 DEF PInv, Books

\* A tick that sells nothing may raise the line and the high, and nothing else.
LEMMA KeepStep == ASSUME PInv, NEW p \in Positions, NEW f \in Facts, Keep(p, f) PROVE PInv'
<1> DEFINE v == View(p, f)
           rule == SellRule(v)
           after == RowKept(p, v, rule)
<1>1. /\ p \in DOMAIN seen /\ Handled(p) /\ UNCHANGED <<sold, events>>
      /\ row' = IF row[p].status = "HOLD" THEN [row EXCEPT ![p] = after] ELSE row
    BY DEF Keep
<1>2. row \in [Positions -> Rows]
    BY DEF PInv, Shape
<1>3. CASE row[p].status # "HOLD"
    <2>1. row' = row
        BY <1>1, <1>3
    <2>2. Shape' /\ Copied'
        BY <1>1, <1>2, <2>1, CopiesLeft DEF PInv, Shape
    <2> QED BY <1>1, <2>1, <2>2 DEF PInv, Books, Balanced, Completed
<1>4. CASE row[p].status = "HOLD"
    <2>1. seen[p] = row[p] /\ seen[p] \in Rows
        BY <1>1, <1>4 DEF PInv, Copied
    <2>2. /\ v.qty \in Nat /\ v.base \in Nat /\ v.stage \in Stages /\ v.high \in Price /\ v.stop \in Lines
        BY <2>1, ViewSound DEF Rows
    <2>3. PlanStop(rule, v) \in Lines /\ PlanStage(rule, v) \in Stages
        BY <2>2, PlanSound
    <2> HIDE DEF v, rule
    <2>4. /\ after \in Rows /\ after.status = row[p].status /\ after.qty = row[p].qty
          /\ after.realized = row[p].realized /\ after.rule = row[p].rule
        <3>1. Larger(v.stop, PlanStop(rule, v)) \in Lines /\ "PROFIT_LOCK" \in Stages
            BY <2>2, <2>3 DEF Larger, Stages, Locked
        <3> QED BY <2>1, <2>2, <2>3, <3>1 DEF RowKept, Rows
    <2> HIDE DEF after
    <2>5. /\ row' \in [Positions -> Rows] /\ row'[p] = after
          /\ \A q \in Positions \ {p} : row'[q] = row[q]
        BY <1>1, <1>2, <1>4, <2>4
    <2>6. Shape' /\ Copied'
        BY <1>1, <2>5, CopiesLeft DEF PInv, Shape
    <2>7. \A q \in Positions : Balanced(q)'
        BY <1>1, <1>4, <2>4, <2>5 DEF PInv, Books, Balanced, Completed
    <2> QED BY <2>6, <2>7 DEF PInv, Books
<1> QED BY <1>3, <1>4

\* The force liquidation closes every open row for what is left of it.
LEMMA LiquidateStep == ASSUME PInv, Liquidate PROVE PInv'
<1>1. /\ row \in [Positions -> Rows] /\ sold \in [Positions -> Nat] /\ UNCHANGED <<events, seen>>
    BY DEF PInv, Shape, Liquidate
<1>2. \A p \in Positions : row[p].status # "HOLD" => row'[p] = row[p] /\ sold'[p] = sold[p]
    BY <1>1 DEF Liquidate, Held
<1>3. ASSUME NEW p \in Positions, row[p].status = "HOLD"
      PROVE  /\ row'[p] = [row[p] EXCEPT !.status = "SOLD", !.qty = 0, !.realized = row[p].qty,
                                         !.rule = "FORCE_LIQUIDATION"]
             /\ sold'[p] = sold[p] + row[p].qty
    BY <1>1, <1>3 DEF Liquidate, Held
<1>4. ASSUME NEW p \in Positions, row[p].status = "HOLD"
      PROVE  /\ row'[p] \in Rows /\ row'[p].status = "SOLD" /\ row'[p].qty = 0
             /\ row'[p].realized = row[p].qty /\ row'[p].rule = "FORCE_LIQUIDATION"
    <2>1. row[p] \in Rows /\ "FORCE_LIQUIDATION" \in RuleNames /\ "SOLD" \in Statuses
        BY <1>1 DEF RuleNames, Statuses
    <2> HIDE DEF RuleNames, Statuses
    <2>2. row'[p] = [status |-> "SOLD", qty |-> 0, realized |-> row[p].qty, stage |-> row[p].stage,
                     high |-> row[p].high, stop |-> row[p].stop, rule |-> "FORCE_LIQUIDATION"]
        BY <1>3, <1>4, <2>1 DEF Rows
    <2> QED BY <2>1, <2>2 DEF Rows
<1>5. ASSUME NEW p \in Positions PROVE row'[p] \in Rows /\ sold'[p] \in Nat
    <2>1. row[p] \in Rows /\ row[p].qty \in Nat /\ sold[p] \in Nat
        BY <1>1 DEF Rows
    <2>2. CASE row[p].status = "HOLD"
        <3>1. row'[p] \in Rows
            BY <1>4, <2>2
        <3>2. sold'[p] = sold[p] + row[p].qty
            BY <1>3, <2>2
        <3> QED BY <2>1, <3>1, <3>2
    <2> QED BY <1>2, <2>1, <2>2
<1>6. Shape'
    BY <1>1, <1>5 DEF PInv, Shape, Liquidate
<1>7. Copied'
    <2>1. \A p \in Positions : /\ row'[p].status # "HOLD"
                               /\ row[p].status # "NONE" => row'[p].status # "NONE"
        BY <1>2, <1>4
    <2>2. \A p \in DOMAIN seen : p \in Positions /\ seen[p] \in Rows /\ seen[p].status = "HOLD"
                               /\ row[p].status # "NONE"
        BY DEF PInv, Shape, Copied
    <2>3. DOMAIN seen' = DOMAIN seen /\ \A p \in DOMAIN seen : seen'[p] = seen[p]
        BY <1>1
    <2> QED BY <2>1, <2>2, <2>3 DEF Copied
<1>8. ASSUME NEW p \in Positions PROVE Balanced(p)'
    <2>1. CASE row[p].status = "HOLD"
        <3>1. /\ row[p].qty \in 1..Initial[p] /\ sold[p] = Initial[p] - row[p].qty /\ Initial[p] \in Nat
              /\ \A r \in Liquidating : ~Completed(p, r)
            BY <2>1, PositionAssumption DEF PInv, Books, Balanced
        <3>2. sold'[p] = Initial[p] /\ row'[p].realized \in 0..Initial[p]
            <4>1. sold'[p] = sold[p] + row[p].qty
                BY <1>3, <2>1
            <4>2. row'[p].realized = row[p].qty
                BY <1>4, <2>1
            <4> QED BY <3>1, <4>1, <4>2
        <3> QED BY <1>1, <1>4, <2>1, <3>1, <3>2 DEF Balanced, Completed
    <2>2. CASE row[p].status # "HOLD"
        BY <1>1, <1>2, <2>2 DEF PInv, Books, Balanced, Completed
    <2> QED BY <2>1, <2>2
<1> QED BY <1>6, <1>7, <1>8 DEF PInv, Books

LEMMA BooksStep == PInv /\ [Next]_vars => PInv'
<1> SUFFICES ASSUME PInv, [Next]_vars PROVE PInv'
    OBVIOUS
<1>1. ASSUME UNCHANGED <<row, sold, events, seen>> PROVE PInv'
    BY <1>1 DEF PInv, Shape, Copied, Books, Balanced, Completed
<1>2. ASSUME NEW p \in Positions, Open(p) PROVE PInv'
    <2> DEFINE new == [row[p] EXCEPT !.status = "HOLD", !.qty = Initial[p]]
    <2>1. /\ row[p] \in Rows /\ row \in [Positions -> Rows] /\ Initial[p] \in Nat \ {0}
          /\ row[p].status = "NONE" /\ row[p].realized = 0 /\ sold[p] = 0
          /\ \A r \in Liquidating : ~Completed(p, r)
        BY <1>2, PositionAssumption DEF Open, PInv, Shape, Books, Balanced
    <2>2. new \in Rows /\ new.status = "HOLD" /\ new.qty = Initial[p] /\ new.realized = 0
        <3>1. "HOLD" \in Statuses
            BY DEF Statuses
        <3> QED BY <2>1, <3>1 DEF Rows
    <2>3. row' = [row EXCEPT ![p] = new] /\ UNCHANGED <<sold, events, seen>>
        BY <1>2, <2>1 DEF Open, Rows
    <2> HIDE DEF new
    <2>4. /\ row' \in [Positions -> Rows] /\ row'[p] = new
          /\ \A q \in Positions \ {p} : row'[q] = row[q]
        BY <2>1, <2>2, <2>3
    <2>5. Copied'
        BY <2>1, <2>3, <2>4 DEF PInv, Shape, Copied
    <2>6. Shape'
        BY <2>3, <2>4 DEF PInv, Shape
    <2>7. Balanced(p)'
        BY <2>1, <2>2, <2>3, <2>4 DEF Balanced, Completed
    <2>8. \A q \in Positions \ {p} : Balanced(q)'
        BY <2>3, <2>4 DEF PInv, Books, Balanced, Completed
    <2> QED BY <2>5, <2>6, <2>7, <2>8 DEF PInv, Books
<1>3. ASSUME NEW p \in Positions, LeftAlone(p) PROVE PInv'
    <2>1. p \in DOMAIN seen /\ Handled(p) /\ UNCHANGED <<row, sold, events>>
        BY <1>3 DEF LeftAlone
    <2>2. Shape' /\ Copied'
        BY <2>1, CopiesLeft DEF PInv, Shape
    <2> QED BY <2>1, <2>2 DEF PInv, Books, Balanced, Completed
<1>4. CASE Tick
    <2>1. seen' = [p \in Held |-> row[p]] /\ UNCHANGED <<row, sold, events>>
        BY <1>4 DEF Tick
    <2>2. Shape' /\ Copied'
        BY <2>1 DEF PInv, Shape, Copied, Held
    <2> QED BY <2>1, <2>2 DEF PInv, Books, Balanced, Completed
<1>5. CASE Crash
    BY <1>5 DEF Crash, Nothing, PInv, Shape, Copied, Books, Balanced, Completed
<1>6. CASE OpeningEnds \/ NextDay
    BY <1>1, <1>6 DEF OpeningEnds, NextDay
<1>7. CASE UNCHANGED vars
    BY <1>1, <1>7 DEF vars
<1> QED BY <1>2, <1>3, <1>4, <1>5, <1>6, <1>7, SellStep, KeepStep, LiquidateStep DEF Next, Handle

LEMMA BooksKept == Spec => []PInv
BY InitBooks, BooksStep, PTL DEF Spec

\* The books of the positions (intraday_manager.py, _commit_sell_execution): lots
\* bought are held or sold, closed means empty, and the realized part of a row adds up
\* over stale copies, partial sales, crashes and the force liquidation.
THEOREM BooksAddUp == Spec => []QuantitiesAddUp
<1>1. PInv => QuantitiesAddUp
    <2> SUFFICES ASSUME PInv PROVE QuantitiesAddUp
        OBVIOUS
    <2>1. ASSUME NEW p \in Positions
          PROVE  /\ row[p] \in Rows /\ Balanced(p) /\ Initial[p] \in Nat \ {0}
                 /\ row[p].status \in Statuses /\ row[p].qty \in Nat
        BY PositionAssumption DEF PInv, Shape, Books, Rows
    <2>2. ASSUME NEW p \in Positions
          PROVE  row[p].qty \in 0..Initial[p] /\ row[p].realized \in 0..Initial[p]
        <3>1. CASE row[p].status = "NONE"
            BY <2>1, <3>1 DEF Balanced
        <3>2. CASE row[p].status = "HOLD"
            <4>1. row[p].qty \in 1..Initial[p] /\ row[p].realized = Initial[p] - row[p].qty
                BY <2>1, <3>2 DEF Balanced
            <4> QED BY <2>1, <4>1
        <3>3. CASE row[p].status = "SOLD"
            BY <2>1, <3>3 DEF Balanced
        <3> QED BY <2>1, <3>1, <3>2, <3>3 DEF Statuses
    <2>3. TypeOK
        BY <2>1, <2>2 DEF TypeOK, PInv, Shape, Copied, Rows, Lines, Outcomes
    <2>4. ASSUME NEW p \in Positions
          PROVE  /\ row[p].status # "NONE" => row[p].qty + sold[p] = Initial[p]
                 /\ row[p].status = "SOLD" <=> (sold[p] = Initial[p])
                 /\ row[p].rule # "FORCE_LIQUIDATION" => row[p].realized = sold[p]
                 /\ \A r \in Liquidating : events[p][r] = "COMPLETED" =>
                       row[p].status = "SOLD" /\ row[p].rule = r
        <3>1. CASE row[p].status = "NONE"
            BY <2>1, <3>1 DEF Balanced, Completed
        <3>2. CASE row[p].status = "HOLD"
            <4>1. /\ row[p].qty \in 1..Initial[p] /\ sold[p] = Initial[p] - row[p].qty
                  /\ row[p].realized = sold[p] /\ \A r \in Liquidating : events[p][r] # "COMPLETED"
                BY <2>1, <3>2 DEF Balanced, Completed
            <4>2. row[p].qty + sold[p] = Initial[p] /\ sold[p] # Initial[p]
                BY <2>1, <4>1
            <4> QED BY <3>2, <4>1, <4>2
        <3>3. CASE row[p].status = "SOLD"
            BY <2>1, <3>3 DEF Balanced, Completed
        <3> QED BY <2>1, <3>1, <3>2, <3>3 DEF Statuses
    <2> QED BY <2>3, <2>4 DEF QuantitiesAddUp
<1> QED BY BooksKept, <1>1, PTL

-------------------------------------------------------------------------------
(* What no step may do.                                                     *)

\* A closed position is closed for good (the status and quantity guards of
\* _commit_sell_execution and of the row's update), whoever still holds a copy.
THEOREM ClosedForGood == Spec => SoldIsFinal
<1>1. ASSUME PInv, [Next]_vars, NEW p \in Positions, row[p].status = "SOLD"
      PROVE  row'[p] = row[p] /\ sold'[p] = sold[p]
    <2>0. row \in [Positions -> Rows] /\ sold \in [Positions -> Nat]
        BY <1>1 DEF PInv, Shape
    <2>1. ASSUME NEW q \in Positions, Open(q) PROVE row'[p] = row[p] /\ sold'[p] = sold[p]
        <3>1. q # p
            BY <1>1, <2>1 DEF Open
        <3> QED BY <2>0, <2>1, <3>1 DEF Open
    <2>2. ASSUME NEW q \in Positions, LeftAlone(q) PROVE row'[p] = row[p] /\ sold'[p] = sold[p]
        BY <2>2 DEF LeftAlone
    <2>3. ASSUME NEW q \in Positions, NEW f \in Facts, Sell(q, f)
          PROVE  row'[p] = row[p] /\ sold'[p] = sold[p]
        <3>1. PICK after, lots : /\ row' = [row EXCEPT ![q] = after] /\ row[q].status = "HOLD"
                                 /\ sold' = [sold EXCEPT ![q] = @ + lots]
            BY <2>3 DEF Sell, Committable
        <3>2. q # p
            BY <1>1, <3>1
        <3> QED BY <2>0, <3>1, <3>2
    <2>4. ASSUME NEW q \in Positions, NEW f \in Facts, Keep(q, f)
          PROVE  row'[p] = row[p] /\ sold'[p] = sold[p]
        <3>1. PICK after : row' = IF row[q].status = "HOLD" THEN [row EXCEPT ![q] = after] ELSE row
            BY <2>4 DEF Keep
        <3>2. sold' = sold
            BY <2>4 DEF Keep
        <3>3. CASE row[q].status = "HOLD"
            <4>1. q # p
                BY <1>1, <3>3
            <4> QED BY <2>0, <3>1, <3>2, <3>3, <4>1
        <3> QED BY <3>1, <3>2, <3>3
    <2>5. CASE Liquidate
        BY <1>1, <2>0, <2>5 DEF Liquidate, Held
    <2>6. CASE Tick \/ Crash \/ OpeningEnds \/ NextDay \/ UNCHANGED vars
        BY <2>6 DEF Tick, Crash, OpeningEnds, NextDay, vars
    <2> QED BY <1>1, <2>1, <2>2, <2>3, <2>4, <2>5, <2>6 DEF Next, Handle
<1>2. PInv /\ [Next]_vars => [\A p \in Positions : row[p].status = "SOLD" =>
            row'[p] = row[p] /\ sold'[p] = sold[p]]_<<row, sold>>
    BY <1>1
<1> QED BY BooksKept, <1>2, PTL DEF Spec, SoldIsFinal

\* The protection line and the high of a position never go down (the MAX of the
\* update's old and new values), whichever copy the tick goes by.
THEOREM LineHolds == Spec => LineNeverFalls
<1>1. ASSUME PInv, [Next]_vars, NEW p \in Positions
      PROVE  row[p].stop <= row'[p].stop /\ row[p].high <= row'[p].high
    <2>0. /\ row \in [Positions -> Rows] /\ row[p].stop \in Lines /\ row[p].high \in Price
          /\ row[p].stop \in Nat /\ row[p].high \in Nat
        <3>1. row \in [Positions -> Rows]
            BY <1>1 DEF PInv, Shape
        <3>2. row[p].stop \in Lines /\ row[p].high \in Price
            BY <3>1 DEF Rows
        <3> QED BY <3>1, <3>2, Prices
    <2>1. CASE row'[p] = row[p]
        BY <2>0, <2>1
    <2>2. ASSUME NEW q \in Positions, Open(q) PROVE row[p].stop <= row'[p].stop /\ row[p].high <= row'[p].high
        <3>1. row'[p].stop = row[p].stop /\ row'[p].high = row[p].high
            BY <2>0, <2>2 DEF Open, Rows
        <3> QED BY <2>0, <3>1
    <2>3. ASSUME NEW q \in Positions, NEW f \in Facts, Sell(q, f) \/ Keep(q, f), q # p
          PROVE  row'[p] = row[p]
        <3>1. PICK after : row' \in {row, [row EXCEPT ![q] = after]}
            BY <2>3 DEF Sell, Keep
        <3> QED BY <2>0, <2>3, <3>1
    <2>4. ASSUME NEW f \in Facts, Sell(p, f) \/ Keep(p, f), row'[p] # row[p]
          PROVE  row[p].stop <= row'[p].stop /\ row[p].high <= row'[p].high
        <3> DEFINE v == View(p, f)
                   rule == SellRule(v)
        <3>1. p \in DOMAIN seen /\ row[p].status = "HOLD"
            BY <2>4 DEF Sell, Keep, Committable
        <3>2. seen[p] = row[p] /\ seen[p] \in Rows
            BY <1>1, <3>1 DEF PInv, Copied
        <3>3. /\ v.high \in Price /\ row[p].high <= v.high /\ v.stop \in Lines /\ row[p].stop <= v.stop
              /\ v.qty \in Nat /\ v.base \in Nat /\ v.stage \in Stages
            BY <3>2, ViewSound DEF Rows
        <3>4. PlanStop(rule, v) \in Lines
            BY <3>3, PlanSound
        <3> HIDE DEF v, rule
        <3>5. Larger(v.stop, PlanStop(rule, v)) >= v.stop /\ v.stop \in Nat /\ v.high \in Nat
            <4>1. v.stop \in Nat /\ v.high \in Nat /\ PlanStop(rule, v) \in Nat
                BY <3>3, <3>4, Prices
            <4> QED BY <4>1 DEF Larger
        <3>6. row'[p].stop = Larger(v.stop, PlanStop(rule, v)) /\ row'[p].high = v.high
            <4>1. CASE Sell(p, f)
                <5>1. PICK lots : row' = [row EXCEPT ![p] = RowAfterSale(p, v, rule, lots)]
                    BY <4>1 DEF Sell, v, rule
                <5>2. row'[p] = RowAfterSale(p, v, rule, lots)
                    BY <2>0, <5>1
                <5> QED BY <5>2 DEF RowAfterSale
            <4>2. CASE Keep(p, f)
                <5>1. row'[p] = RowKept(p, v, rule)
                    BY <2>0, <3>1, <4>2 DEF Keep, v, rule
                <5>2. PICK stage : row'[p] = [row[p] EXCEPT !.high = v.high,
                                        !.stop = Larger(v.stop, PlanStop(rule, v)), !.stage = stage]
                    BY <2>4, <5>1 DEF RowKept
                <5> QED BY <3>2, <5>2 DEF Rows
            <4> QED BY <2>4, <4>1, <4>2
        <3>7. Larger(v.stop, PlanStop(rule, v)) \in Nat
            BY <3>3, <3>4 DEF Larger, Lines, WrongPick, Entry, Floor
        <3> QED BY <2>0, <3>3, <3>5, <3>6, <3>7
    <2>5. CASE Liquidate
        <3>1. row'[p] \in {row[p], [row[p] EXCEPT !.status = "SOLD", !.qty = 0, !.realized = row[p].qty,
                                                 !.rule = "FORCE_LIQUIDATION"]}
            BY <2>5 DEF Liquidate
        <3>3. row[p] \in Rows
            BY <2>0
        <3>2. row'[p].stop = row[p].stop /\ row'[p].high = row[p].high
            BY <3>1, <3>3 DEF Rows
        <3> QED BY <2>0, <3>2
    <2>6. CASE Tick \/ Crash \/ OpeningEnds \/ NextDay \/ UNCHANGED vars
        BY <2>1, <2>6 DEF Tick, Crash, OpeningEnds, NextDay, vars
    <2>7. ASSUME NEW q \in Positions, LeftAlone(q) PROVE row'[p] = row[p]
        BY <2>7 DEF LeftAlone
    <2>8. ASSUME NEW q \in Positions, NEW f \in Facts, Sell(q, f) \/ Keep(q, f)
          PROVE  row[p].stop <= row'[p].stop /\ row[p].high <= row'[p].high
        BY <2>1, <2>3, <2>4, <2>8
    <2> QED BY <1>1, <2>1, <2>2, <2>5, <2>6, <2>7, <2>8 DEF Next, Handle
<1>2. PInv /\ [Next]_vars => [\A p \in Positions :
            row[p].stop <= row'[p].stop /\ row[p].high <= row'[p].high]_row
    BY <1>1
<1> QED BY BooksKept, <1>2, PTL DEF Spec, LineNeverFalls

-------------------------------------------------------------------------------
(* Stages: what has been sold in each, and the line each guarantees.        *)

Share(p) == IF Tier[p] = "STRONG" THEN Initial[p] \div 3 ELSE Initial[p] \div 2

Staged(p) ==
    /\ row[p].status = "NONE" => row[p].stage = "HOLD_FULL"
    /\ row[p].status = "HOLD" /\ row[p].stage = "HOLD_FULL" => sold[p] = 0
    /\ row[p].status = "HOLD" /\ row[p].stage = "TAKE_1_DONE" =>
          row[p].high < SecondTake /\ sold[p] <= Share(p)
    /\ row[p].stage = "TAKE_1_DONE" => row[p].stop >= Entry
    /\ row[p].stage \in Locked => row[p].stop >= Floor

SInv == \A p \in Positions : Staged(p)

\* The first profit and the wait give way to the second target, and each rule but
\* the stop is applied where it applies.
LEMMA RuleApplies ==
    ASSUME NEW v
    PROVE  /\ SellRule(v) # "WRONG_PICK_STOP" => Applies(SellRule(v), v)
           /\ SellRule(v) \in {"TAKE_PROFIT_8", "HOLD"} => ~SecondReached(v)
           /\ SellRule(v) = "PROFIT_LOCK_TRIM" => ~(v.qty <= 1)
<1>1. PICK k \in 1..17 : /\ FirstApplying(v) = Order[k] /\ Applies(Order[k], v)
                         /\ \A j \in 1..(k - 1) : ~Applies(Order[j], v)
    BY FirstOfOrder
<1>2. SellRule(v) # "WRONG_PICK_STOP" => SellRule(v) = Order[k]
    BY <1>1 DEF SellRule
<1>3. Order[k] \in {"TAKE_PROFIT_8", "HOLD"} => k \in {13, 17}
    BY DEF Order
<1>4. k \in {13, 17} => ~Applies("PROFIT_LOCK_ARMED", v)
    <2>1. Order[12] = "PROFIT_LOCK_ARMED"
        BY DEF Order
    <2> QED BY <1>1, <2>1
<1>5. Applies("PROFIT_LOCK_ARMED", v) = SecondReached(v)
    BY DEF Applies
<1>6. SellRule(v) = "PROFIT_LOCK_TRIM" => ~(v.qty <= 1)
    <2> SUFFICES ASSUME SellRule(v) = "PROFIT_LOCK_TRIM" PROVE ~(v.qty <= 1)
        OBVIOUS
    <2>1. k = 9
        BY <1>2 DEF Order
    <2>2. Order[8] = "PROFIT_LOCK_TRIM_SMALL_CLEAR" /\ Order[9] = "PROFIT_LOCK_TRIM"
        BY DEF Order
    <2>3. Applies("PROFIT_LOCK_TRIM", v) /\ ~Applies("PROFIT_LOCK_TRIM_SMALL_CLEAR", v)
        BY <1>1, <2>1, <2>2
    <2> QED BY <2>3 DEF Applies
<1> QED BY <1>1, <1>2, <1>3, <1>4, <1>5, <1>6

\* The line of a copy guarantees its stage.
LEMMA ViewLine ==
    ASSUME NEW p \in Positions, NEW f \in Facts, seen[p] \in Rows
    PROVE  LET v == View(p, f) IN
           /\ v.stage = "TAKE_1_DONE" => v.stop >= Entry
           /\ v.stage \in Locked => v.stop >= Floor
           /\ seen[p].high < SecondTake /\ f.price < FirstTake => v.high < SecondTake
           /\ v.price = f.price /\ v.tier = Tier[p] /\ v.base = Larger(Initial[p], seen[p].qty)
<1>1. seen[p].stop \in Nat /\ seen[p].high \in Nat /\ f.price \in Nat
    <2>1. seen[p].stop \in Lines /\ seen[p].high \in Price
        BY DEF Rows
    <2> QED BY <2>1, Prices, PositionAssumption DEF Facts
<1>2. /\ seen[p].stage = "TAKE_1_DONE" => ProtectionLine(seen[p].stage, seen[p].stop) >= Entry
      /\ seen[p].stage \in Locked => ProtectionLine(seen[p].stage, seen[p].stop) >= Floor
    BY <1>1 DEF ProtectionLine, StageLine, Larger, Locked, Entry, Floor
<1>3. seen[p].high < SecondTake /\ f.price < FirstTake
      => Larger(Larger(seen[p].high, Entry), f.price) < SecondTake
    BY <1>1 DEF Larger, Entry, SecondTake, FirstTake
<1> QED BY <1>2, <1>3 DEF View

\* What a sale leaves of the row is in order with its stage.
LEMMA SellStaged ==
    ASSUME PInv, SInv, NEW p \in Positions, NEW f \in Facts, Sell(p, f)
    PROVE  SInv'
<1> DEFINE v == View(p, f)
           rule == SellRule(v)
<1>1. PICK capacity \in Liquidity :
        LET lots == FilledLots(rule, PlanLots(rule, v), capacity) IN
        /\ Committable(p, lots)
        /\ row' = [row EXCEPT ![p] = RowAfterSale(p, v, rule, lots)]
        /\ sold' = [sold EXCEPT ![p] = @ + lots]
    BY DEF Sell
<1> DEFINE lots == FilledLots(rule, PlanLots(rule, v), capacity)
           after == RowAfterSale(p, v, rule, lots)
<1>2. /\ p \in DOMAIN seen /\ PlanLots(rule, v) > 0 /\ row[p].status = "HOLD"
      /\ row' = [row EXCEPT ![p] = after] /\ sold' = [sold EXCEPT ![p] = @ + lots]
    BY <1>1 DEF Sell, Committable
<1>3. seen[p] = row[p] /\ seen[p] \in Rows
    BY <1>2 DEF PInv, Copied
<1>4. /\ v.qty = row[p].qty /\ v.qty \in Nat /\ v.base \in Nat /\ v.stage = row[p].stage
      /\ v.stage \in Stages /\ v.high \in Nat /\ v.stop \in Lines /\ v.stop \in Nat
    <2>1. v.high \in Price /\ v.stop \in Lines
        BY <1>3, ViewSound
    <2> QED BY <1>3, <2>1, ViewSound, Prices DEF Rows
<1>5. /\ v.stage = "TAKE_1_DONE" => v.stop >= Entry
      /\ v.stage \in Locked => v.stop >= Floor
      /\ v.tier = Tier[p] /\ v.base = Larger(Initial[p], row[p].qty)
    BY <1>3, ViewLine
<1>6. /\ rule # "WRONG_PICK_STOP" => Applies(rule, v)
      /\ rule \in {"TAKE_PROFIT_8", "HOLD"} => ~SecondReached(v)
    BY RuleApplies
<1>7. PlanLots(rule, v) \in 0..v.qty /\ PlanStop(rule, v) \in Nat
    BY <1>4, PlanSound, Prices
<1> HIDE DEF v, rule
<1>8. rule \notin Keeping
    BY <1>2 DEF PlanLots, Keeping
<1>9. /\ PlanStage(rule, v) # "HOLD_FULL"
      /\ PlanStage(rule, v) = "TAKE_1_DONE" => rule = "TAKE_PROFIT_8"
      /\ PlanStage(rule, v) \in Locked => rule \in {"PROFIT_LOCK_TRIM", "TAKE_PROFIT_12_LOCK"}
    BY <1>8 DEF PlanStage, Keeping, Locked
<1>10. lots <= PlanLots(rule, v) /\ lots \in Nat
    <2>1. PlanLots(rule, v) \in Nat \ {0} /\ capacity \in Nat
        BY <1>2, <1>7, PositionAssumption
    <2>2. lots \in 1..PlanLots(rule, v)
        BY <2>1, FillSound
    <2> QED BY <2>1, <2>2
<1> HIDE DEF lots
<1>11. /\ after.status \in {"HOLD", "SOLD"} /\ after.stage = PlanStage(rule, v) /\ after.high = v.high
       /\ after.stop = Larger(v.stop, PlanStop(rule, v))
    BY DEF RowAfterSale
<1> HIDE DEF after
<1>12. /\ row'[p] = after /\ sold'[p] = sold[p] + lots
       /\ \A q \in Positions \ {p} : row'[q] = row[q] /\ sold'[q] = sold[q]
    BY <1>2 DEF PInv, Shape
<1>13. CASE rule = "TAKE_PROFIT_8"
    <2>1. v.stage = "HOLD_FULL" /\ v.high < SecondTake
        BY <1>4, <1>6, <1>13 DEF Applies, SecondReached, Locked, SecondTake
    <2>2. PlanStop(rule, v) = Larger(Entry, v.stop) /\ PlanStage(rule, v) = "TAKE_1_DONE"
        BY <1>13, <2>1 DEF PlanStop, PlanStage, Locked
    <2>3. sold[p] = 0
        BY <1>2, <1>4, <2>1 DEF SInv, Staged
    <2>4. PlanLots(rule, v) <= Share(p)
        <3>1. PlanLots(rule, v) = FirstLots(v)
            BY <1>13 DEF PlanLots, Keeping
        <3>2. row[p].qty \in 1..Initial[p] /\ Initial[p] \in Nat
            BY <1>2, PositionAssumption DEF PInv, Books, Balanced
        <3>3. v.base = Initial[p]
            BY <1>5, <3>2 DEF Larger
        <3>4. Initial[p] \div 3 \in Nat /\ Initial[p] \div 2 \in Nat
            BY <3>2
        <3> QED BY <1>4, <1>5, <3>1, <3>3, <3>4 DEF FirstLots, Smaller, Share
    <2>5. Share(p) \in Nat
        BY PositionAssumption DEF Share
    <2>6. sold'[p] <= Share(p)
        BY <1>7, <1>10, <1>12, <2>3, <2>4, <2>5
    <2>7. Larger(v.stop, PlanStop(rule, v)) >= Entry
        BY <1>4, <2>2 DEF Larger, Entry
    <2>8. Staged(p)'
        BY <1>11, <1>12, <2>1, <2>2, <2>6, <2>7 DEF Staged, Locked, Share
    <2> QED BY <1>12, <2>8 DEF SInv, Staged, Share
<1>14. CASE rule \in {"PROFIT_LOCK_TRIM", "TAKE_PROFIT_12_LOCK"}
    <2>1. rule = "PROFIT_LOCK_TRIM" => v.stage \in Locked
        BY <1>6 DEF Applies, Locked
    <2>2. PlanStop(rule, v) = LockStop(v)
        BY <1>14, <2>1 DEF PlanStop
    <2>3. Larger(v.stop, PlanStop(rule, v)) >= Floor
        BY <1>4, <2>2 DEF LockStop, Larger, Floor
    <2>4. PlanStage(rule, v) \in Locked
        BY <1>14 DEF PlanStage, Locked
    <2>5. Staged(p)'
        BY <1>11, <1>12, <2>3, <2>4 DEF Staged, Locked
    <2> QED BY <1>12, <2>5 DEF SInv, Staged, Share
<1>15. CASE rule \notin {"TAKE_PROFIT_8", "PROFIT_LOCK_TRIM", "TAKE_PROFIT_12_LOCK"}
    <2>1. Staged(p)'
        BY <1>9, <1>11, <1>12, <1>15 DEF Staged
    <2> QED BY <1>12, <2>1 DEF SInv, Staged, Share
<1> QED BY <1>13, <1>14, <1>15

\* A tick that sells nothing keeps a line in order with the stage, too.
LEMMA KeepStaged ==
    ASSUME PInv, SInv, NEW p \in Positions, NEW f \in Facts, Keep(p, f)
    PROVE  SInv'
<1> DEFINE v == View(p, f)
           rule == SellRule(v)
           after == RowKept(p, v, rule)
<1>1. /\ p \in DOMAIN seen /\ sold' = sold
      /\ row' = IF row[p].status = "HOLD" THEN [row EXCEPT ![p] = after] ELSE row
    BY DEF Keep
<1>2. CASE row[p].status # "HOLD"
    BY <1>1, <1>2 DEF SInv, Staged, Share
<1>3. CASE row[p].status = "HOLD"
    <2>1. seen[p] = row[p] /\ seen[p] \in Rows
        BY <1>1, <1>3 DEF PInv, Copied
    <2>2. /\ v.stage = row[p].stage /\ v.stage \in Stages /\ v.high \in Nat /\ v.stop \in Lines
          /\ v.stop \in Nat /\ v.qty \in Nat /\ v.base \in Nat
        <3>1. v.high \in Price /\ v.stop \in Lines
            BY <2>1, ViewSound
        <3> QED BY <2>1, <3>1, ViewSound, Prices DEF Rows
    <2>3. /\ v.stage = "TAKE_1_DONE" => v.stop >= Entry
          /\ v.stage \in Locked => v.stop >= Floor
          /\ row[p].high < SecondTake /\ v.price < FirstTake => v.high < SecondTake
        BY <2>1, ViewLine
    <2>4. /\ rule # "WRONG_PICK_STOP" => Applies(rule, v)
          /\ rule \in {"TAKE_PROFIT_8", "HOLD"} => ~SecondReached(v)
          /\ rule = "PROFIT_LOCK_TRIM" => ~(v.qty <= 1)
        BY RuleApplies
    <2>11. v.qty = row[p].qty
        BY <2>1, ViewSound
    <2>5. PlanStop(rule, v) \in Nat
        BY <2>2, PlanSound, Prices
    <2> HIDE DEF v, rule
    <2>6. /\ row'[p] = after /\ sold'[p] = sold[p]
          /\ \A q \in Positions \ {p} : row'[q] = row[q] /\ sold'[q] = sold[q]
        BY <1>1, <1>3 DEF PInv, Shape
    <2> DEFINE stop == Larger(v.stop, PlanStop(rule, v))
               stage == IF v.high >= SecondTake /\ row[p].stage = "TAKE_1_DONE"
                        THEN "PROFIT_LOCK" ELSE PlanStage(rule, v)
    <2>7. \/ after = row[p]
          \/ /\ after.status = "HOLD" /\ after.high = v.high /\ after.stop = stop /\ after.stage = stage
        BY <1>3, <2>1 DEF RowKept, Rows
    <2>8. stop >= v.stop
        BY <2>2, <2>5 DEF Larger
    <2> HIDE DEF after
    <2>9. CASE after = row[p]
        BY <2>6, <2>9 DEF SInv, Staged, Share
    <2>10. CASE after # row[p]
        <3>1. CASE rule \in {"HOLD", "OPENING_WAIT"}
            <4>1. PlanStage(rule, v) = row[p].stage
                BY <2>2, <3>1 DEF PlanStage
            <4>2. row[p].stage = "TAKE_1_DONE" => v.high < SecondTake
                <5>1. row[p].stage = "TAKE_1_DONE" => row[p].high < SecondTake
                    BY <1>3 DEF SInv, Staged
                <5>2. CASE rule = "HOLD"
                    BY <2>2, <2>4, <5>2 DEF SecondReached, Locked, SecondTake
                <5>3. CASE rule = "OPENING_WAIT"
                    BY <2>3, <2>4, <5>1, <5>3 DEF Applies
                <5> QED BY <3>1, <5>2, <5>3
            <4>3. stage = row[p].stage
                BY <2>2, <4>1, <4>2 DEF SecondTake
            <4>4. /\ stage = "TAKE_1_DONE" => stop >= Entry
                  /\ stage \in Locked => stop >= Floor
                BY <2>2, <2>3, <2>5, <2>8, <4>3 DEF Larger, Entry, Floor
            <4>5. /\ row[p].stage = "HOLD_FULL" => sold[p] = 0
                  /\ row[p].stage = "TAKE_1_DONE" => sold[p] <= Share(p)
                BY <1>3 DEF SInv, Staged
            <4> HIDE DEF stop, stage
            <4>6. Staged(p)'
                BY <2>6, <2>7, <2>10, <4>2, <4>3, <4>4, <4>5 DEF Staged, Share
            <4> QED BY <2>6, <4>6 DEF SInv, Staged, Share
        <3>2. CASE rule = "PROFIT_LOCK_ARMED"
            <4>1. PlanStop(rule, v) = LockStop(v) /\ stage = "PROFIT_LOCK"
                BY <3>2 DEF PlanStop, PlanStage
            <4>2. stop >= Floor
                BY <2>2, <4>1 DEF LockStop, Larger, Floor
            <4> HIDE DEF stop, stage
            <4>3. Staged(p)'
                BY <2>6, <2>7, <2>10, <4>1, <4>2 DEF Staged
            <4> QED BY <2>6, <4>3 DEF SInv, Staged, Share
        <3>3. CASE rule \notin Keeping
            <4>1. PlanLots(rule, v) = 0
                BY DEF Keep, v, rule
            <4>2. v.qty \in Nat \ {0}
                BY <1>3, <2>1, <2>11 DEF PInv, Books, Balanced
            <4>3. Runner(v) \in Nat /\ FirstLots(v) \in Nat
                <5>1. v.base \div 10 \in Nat /\ v.base \div 3 \in Nat /\ v.base \div 2 \in Nat
                    BY <2>2
                <5> QED BY <2>2, <5>1 DEF Runner, FirstLots, Smaller
            <4>4. rule \notin {"PROFIT_LOCK_TRIM", "TAKE_PROFIT_12_LOCK", "TAKE_PROFIT_8"}
                  => PlanLots(rule, v) = v.qty
                BY <3>3 DEF PlanLots
            <4>5. rule = "PROFIT_LOCK_TRIM" => PlanLots(rule, v) > 0
                BY <2>4, <4>2 DEF PlanLots, Keeping
            <4>6. rule = "TAKE_PROFIT_12_LOCK" => PlanLots(rule, v) > 0
                BY <2>4, <4>2, <4>3 DEF PlanLots, Keeping, Applies
            <4>7. rule = "TAKE_PROFIT_8" => PlanLots(rule, v) > 0
                BY <2>4, <4>3 DEF PlanLots, Keeping, Applies
            <4> QED BY <4>1, <4>2, <4>4, <4>5, <4>6, <4>7
        <3> QED BY <3>1, <3>2, <3>3 DEF Keeping
    <2> QED BY <2>9, <2>10
<1> QED BY <1>2, <1>3

LEMMA StagedStep == PInv /\ SInv /\ [Next]_vars => SInv'
<1> SUFFICES ASSUME PInv, SInv, [Next]_vars PROVE SInv'
    OBVIOUS
<1>0. row \in [Positions -> Rows] /\ sold \in [Positions -> Nat]
    BY DEF PInv, Shape
<1>1. ASSUME UNCHANGED <<row, sold>> PROVE SInv'
    BY <1>1 DEF SInv, Staged, Share
<1>2. ASSUME NEW p \in Positions, Open(p) PROVE SInv'
    <2>1. row[p].stage = "HOLD_FULL" /\ sold[p] = 0 /\ sold' = sold
        BY <1>2 DEF Open, SInv, Staged, PInv, Books, Balanced
    <2>2. row'[p].stage = "HOLD_FULL" /\ \A q \in Positions \ {p} : row'[q] = row[q]
        BY <1>0, <1>2, <2>1 DEF Open, Rows
    <2>3. row'[p].status = "HOLD"
        BY <1>0, <1>2 DEF Open, Rows
    <2> QED BY <2>1, <2>2, <2>3 DEF SInv, Staged, Share, Locked
<1>3. ASSUME NEW p \in Positions, LeftAlone(p) PROVE SInv'
    BY <1>1, <1>3 DEF LeftAlone
<1>4. CASE Liquidate
    <2>1. ASSUME NEW p \in Positions
          PROVE  \/ row'[p] = row[p] /\ sold'[p] = sold[p]
                 \/ /\ row'[p].status = "SOLD" /\ row'[p].stage = row[p].stage
                    /\ row'[p].stop = row[p].stop
        <3>1. CASE p \notin Held
            BY <1>0, <1>4, <3>1 DEF Liquidate
        <3>2. CASE p \in Held
            <4>1. row'[p] = [row[p] EXCEPT !.status = "SOLD", !.qty = 0, !.realized = row[p].qty,
                                           !.rule = "FORCE_LIQUIDATION"]
                BY <1>4, <3>2 DEF Liquidate
            <4>2. row[p] \in Rows
                BY <1>0
            <4> QED BY <4>1, <4>2 DEF Rows
        <3> QED BY <3>1, <3>2
    <2>2. ASSUME NEW p \in Positions PROVE Staged(p)'
        BY <2>1 DEF SInv, Staged, Share
    <2> QED BY <2>2 DEF SInv
<1>5. CASE Tick \/ Crash \/ OpeningEnds \/ NextDay \/ UNCHANGED vars
    BY <1>1, <1>5 DEF Tick, Crash, OpeningEnds, NextDay, vars
<1> QED BY <1>2, <1>3, <1>4, <1>5, SellStaged, KeepStaged DEF Next, Handle

LEMMA StagesKept == Spec => []SInv
<1>1. Init => SInv
    <2>1. Unopened.status = "NONE" /\ Unopened.stage = "HOLD_FULL"
        BY DEF Unopened
    <2>2. Init => \A p \in Positions : row[p].status = "NONE" /\ row[p].stage = "HOLD_FULL"
        BY <2>1 DEF Init
    <2> QED BY <2>2 DEF SInv, Staged, Locked
<1> QED BY BooksKept, StagedStep, <1>1, PTL DEF Spec

\* The line that protects a profit already taken (_protection_line and the stop of
\* the plan), for any prices, sizes and stale copies.
THEOREM LineFollowsStage == Spec => []LineMatchesStage
<1>1. SInv => LineMatchesStage
    BY DEF SInv, Staged, LineMatchesStage
<1> QED BY StagesKept, <1>1, PTL

\* The first profit is taken once (_select_sell_plan, TAKE_PROFIT_8), for any sizes
\* and any share of it that the market takes.
THEOREM FirstShareOnce == Spec => []FirstShareOnly
<1>1. PInv /\ SInv => FirstShareOnly
    <2> SUFFICES ASSUME PInv, SInv, NEW p \in Positions, row[p].status = "HOLD",
                        row[p].stage \in {"HOLD_FULL", "TAKE_1_DONE"}
                 PROVE  sold[p] <= Share(p)
        BY DEF FirstShareOnly, Share
    <2>1. Share(p) \in Nat
        BY PositionAssumption DEF Share
    <2> QED BY <2>1 DEF SInv, Staged
<1> QED BY BooksKept, StagesKept, <1>1, PTL
===============================================================================
