----------------------------- MODULE PaperPositions -----------------------------
(***************************************************************************)
(* Open paper positions and the two processes that close them: the         *)
(* intraday manager of the daemon (05_shadow/lib/intraday_manager.py) and  *)
(* the force liquidation of the poller (05_shadow/lib/engine.py).          *)
(*                                                                         *)
(* A tick reads all open rows at once and then handles them one by one,    *)
(* with a network quote in front of each, so it judges a row by a copy     *)
(* that may be stale.  Prices are per cents of the entry price, sizes are  *)
(* lots of 100 shares; amounts of money and fees are left out.  The stages *)
(* RUNNER_LEFT and CORE_PROFIT_LOCKED, which nothing writes any more, and  *)
(* the close_confirm mode, which rules.yaml does not choose, are left out. *)
(***************************************************************************)
EXTENDS Integers, Sequences, Functions

CONSTANTS
    Positions,    \* rows of fact_paper_positions
    Initial,      \* initial_qty of each, in lots
    Tier,         \* strength_tier of each
    Quotes,       \* prices the market may show
    Liquidity,    \* lots a sale may take from the market; 0 when unknown
    SmallOrder,   \* liquidation.small_order_full_qty, in lots (50)
    TimeLimit     \* TIME_EXIT_DAYS_NORMAL and _STRONG (5 and 8)

Tiers == {"NORMAL", "STRONG"}

ASSUME PositionAssumption ==
    /\ Initial \in [Positions -> Nat \ {0}]
    /\ Tier \in [Positions -> Tiers]
    /\ Quotes \subseteq Nat \ {0} /\ Liquidity \subseteq Nat
    /\ SmallOrder \in Nat /\ TimeLimit \in [Tiers -> Nat]

VARIABLES
    row,        \* fact_paper_positions
    sold,       \* lots in the SELL rows of fact_shadow_ledger
    events,     \* fact_shadow_liquidation_events: status per rule
    critical,   \* latest thesis review asks for EXIT_NEXT_SESSION
    held,       \* trading days since the entry
    meltdown,   \* {trade_date}_MELTDOWN_ALL of today is in the guard table
    clock,      \* "opening" (09:30-09:50) or "session"
    seen,       \* rows the tick in progress read and has not handled
    opening     \* the tick started in the opening window

market == <<critical, held, meltdown, clock>>
vars   == <<row, sold, events, market, seen, opening>>

Entry      == 100
FirstTake  == 108
SecondTake == 112
Floor      == 108
WrongPick  == 95
Extreme    == 93
MinGain    == 105

Larger(a, b)  == IF a >= b THEN a ELSE b
Smaller(a, b) == IF a <= b THEN a ELSE b

Locked == {"PROFIT_LOCK", "PROFIT_LOCK_TRIMMED"}
Stages == Locked \union {"HOLD_FULL", "TAKE_1_DONE", "SOLD"}

\* Rules that sell out, and the ones priced as protective or panic stops.
Liquidating ==
    {"THESIS_CRITICAL_RISK_EXIT", "TWO_LIMIT_UP_FULL_EXIT", "WRONG_PICK_STOP",
     "PROFIT_LOCK_GAP_EXIT", "PROFIT_LOCK_FLOOR_EXIT", "PROFIT_LOCK_CLEAR",
     "PROFIT_LOCK_TRIM_SMALL_CLEAR", "TIME_EFFICIENCY_EXIT", "TRAILING_RUNNER_STOP"}
Protective == Liquidating \ {"TWO_LIMIT_UP_FULL_EXIT"}

Held == {p \in Positions : row[p].status = "HOLD"}

-------------------------------------------------------------------------------
(* _select_sell_plan, as an ordered list of rules over a view v of the row. *)

\* _protection_line: what the stage guarantees, and never below the old stop.
StageLine(stage) ==
    CASE stage \in Locked      -> Floor
      [] stage = "TAKE_1_DONE" -> Entry
      [] OTHER                 -> WrongPick
ProtectionLineForgetful(stage, stop) == StageLine(stage)
ProtectionLine(stage, stop) == Larger(stop, StageLine(stage))

\* The row as copied, the quote, and what the evaluation looks up.
View(p, f) ==
    LET r == seen[p]
        high == Larger(Larger(r.high, Entry), f.price)
    IN [qty |-> r.qty, base |-> Larger(Initial[p], r.qty), stage |-> r.stage,
        high |-> high, stop |-> ProtectionLine(r.stage, r.stop),
        tier |-> Tier[p], critical |-> critical[p], held |-> held[p],
        opening |-> opening, price |-> f.price, streak |-> f.streak, allow |-> f.allow]

Runner(v)   == Smaller(v.qty, v.base \div 10)
FirstLots(v) == Smaller(v.qty, IF v.tier = "STRONG" THEN v.base \div 3 ELSE v.base \div 2)
LockStop(v) == Larger(Floor, v.stop)
Pullback(v, permille) == v.price * 1000 <= v.high * (1000 - permille)
SecondReached(v) == v.high >= SecondTake /\ v.stage \notin Locked
KeepsRunner(v)   == v.tier = "STRONG" /\ v.allow /\ Runner(v) > 0

Applies(rule, v) ==
    CASE rule = "THESIS_CRITICAL_RISK_EXIT" -> v.critical
      [] rule = "TWO_LIMIT_UP_FULL_EXIT" -> v.streak /\ v.price >= FirstTake
      [] rule = "OPENING_WAIT" -> v.opening /\ Extreme < v.price /\ v.price < FirstTake
      [] rule = "WRONG_PICK_STOP" -> v.price <= (IF v.opening THEN Extreme ELSE WrongPick)
      [] rule = "PROFIT_LOCK_GAP_EXIT" ->
            v.stage \in Locked /\ v.opening /\ v.price <= LockStop(v)
      [] rule = "PROFIT_LOCK_FLOOR_EXIT" -> v.stage \in Locked /\ v.price <= LockStop(v)
      [] rule = "PROFIT_LOCK_CLEAR" -> v.stage \in Locked /\ Pullback(v, 50)
      [] rule = "PROFIT_LOCK_TRIM_SMALL_CLEAR" ->
            v.stage = "PROFIT_LOCK" /\ Pullback(v, 35) /\ v.qty <= 1
      [] rule = "PROFIT_LOCK_TRIM" -> v.stage = "PROFIT_LOCK" /\ Pullback(v, 35)
      [] rule = "TAKE_PROFIT_12_FULL" -> SecondReached(v) /\ ~KeepsRunner(v)
      [] rule = "TAKE_PROFIT_12_LOCK" -> SecondReached(v) /\ v.qty > Runner(v)
      [] rule = "PROFIT_LOCK_ARMED" -> SecondReached(v)
      [] rule = "TAKE_PROFIT_8" ->
            v.price >= FirstTake /\ v.stage = "HOLD_FULL" /\ FirstLots(v) > 0
      [] rule = "TIME_EFFICIENCY_EXIT" -> v.held >= TimeLimit[v.tier] /\ v.high < MinGain
      [] rule = "TRAILING_RUNNER_STOP" -> v.price <= v.stop /\ v.stage # "HOLD_FULL"
      [] rule = "STOP_AT_LINE" -> v.price <= v.stop
      [] rule = "HOLD" -> TRUE

Order ==
    <<"THESIS_CRITICAL_RISK_EXIT", "TWO_LIMIT_UP_FULL_EXIT", "OPENING_WAIT",
      "WRONG_PICK_STOP", "PROFIT_LOCK_GAP_EXIT", "PROFIT_LOCK_FLOOR_EXIT",
      "PROFIT_LOCK_CLEAR", "PROFIT_LOCK_TRIM_SMALL_CLEAR", "PROFIT_LOCK_TRIM",
      "TAKE_PROFIT_12_FULL", "TAKE_PROFIT_12_LOCK", "PROFIT_LOCK_ARMED",
      "TAKE_PROFIT_8", "TIME_EFFICIENCY_EXIT", "TRAILING_RUNNER_STOP",
      "STOP_AT_LINE", "HOLD">>

FirstApplying(v) ==
    Order[CHOOSE k \in DOMAIN Order :
            Applies(Order[k], v) /\ \A j \in 1..(k - 1) : ~Applies(Order[j], v)]

SellRuleUnlessSold(v) == IF v.stage = "SOLD" THEN "HOLD" ELSE FirstApplying(v)
\* The first rule that applies; a stop at the line of a full row is a wrong pick.
SellRule(v) ==
    IF FirstApplying(v) = "STOP_AT_LINE" THEN "WRONG_PICK_STOP" ELSE FirstApplying(v)

Keeping == {"OPENING_WAIT", "PROFIT_LOCK_ARMED", "HOLD"}

\* qty_to_sell, stop_after and new_stage of the plan.
PlanLots(rule, v) ==
    CASE rule \in Keeping              -> 0
      [] rule = "PROFIT_LOCK_TRIM"     -> v.qty \div 2
      [] rule = "TAKE_PROFIT_12_LOCK"  -> v.qty - Runner(v)
      [] rule = "TAKE_PROFIT_8"        -> FirstLots(v)
      [] OTHER                         -> v.qty

PlanStopUnraised(rule, v) == v.stop
PlanStop(rule, v) ==
    CASE \/ v.stage \in Locked /\ rule \notin {"THESIS_CRITICAL_RISK_EXIT", "OPENING_WAIT",
                                               "WRONG_PICK_STOP"}
         \/ rule \in {"TWO_LIMIT_UP_FULL_EXIT", "TAKE_PROFIT_12_FULL",
                      "TAKE_PROFIT_12_LOCK", "PROFIT_LOCK_ARMED"} -> LockStop(v)
      [] rule = "TAKE_PROFIT_8" -> Larger(Entry, v.stop)
      [] OTHER -> v.stop

PlanStageForgetful(rule, v) ==
    CASE rule \in {"OPENING_WAIT", "HOLD", "TAKE_PROFIT_8"} -> v.stage
      [] rule = "PROFIT_LOCK_TRIM" -> "PROFIT_LOCK_TRIMMED"
      [] rule \in {"TAKE_PROFIT_12_LOCK", "PROFIT_LOCK_ARMED"} -> "PROFIT_LOCK"
      [] OTHER -> "SOLD"
PlanStage(rule, v) ==
    CASE rule \in {"OPENING_WAIT", "HOLD"} -> v.stage
      [] rule = "TAKE_PROFIT_8"    -> "TAKE_1_DONE"
      [] rule = "PROFIT_LOCK_TRIM" -> "PROFIT_LOCK_TRIMMED"
      [] rule \in {"TAKE_PROFIT_12_LOCK", "PROFIT_LOCK_ARMED"} -> "PROFIT_LOCK"
      [] OTHER -> "SOLD"

\* calculate_shadow_fill: a small protective order is sold whole, any other is
\* cut to what the market takes, when that is known.
FilledLots(rule, lots, capacity) ==
    IF (rule \in Protective /\ lots <= SmallOrder) \/ capacity = 0
    THEN lots ELSE Smaller(lots, capacity)

-------------------------------------------------------------------------------
Unopened == [status |-> "NONE", qty |-> 0, realized |-> 0, stage |-> "HOLD_FULL",
             high |-> Entry, stop |-> WrongPick, rule |-> ""]

Nothing == [p \in {} |-> Unopened]

Init ==
    /\ row = [p \in Positions |-> Unopened] /\ sold = [p \in Positions |-> 0]
    /\ events = [p \in Positions |-> [r \in Liquidating |-> "NONE"]]
    /\ critical = [p \in Positions |-> FALSE] /\ held = [p \in Positions |-> 0]
    /\ meltdown = FALSE /\ clock = "session"
    /\ seen = Nothing /\ opening = FALSE

\* open_paper_position_from_fill, in the BUY transaction of the T+1 fill.
Open(p) ==
    /\ row[p].status = "NONE"
    /\ row' = [row EXCEPT ![p].status = "HOLD", ![p].qty = Initial[p]]
    /\ UNCHANGED <<sold, events, market, seen, opening>>

-------------------------------------------------------------------------------
(* run_once.                                                                *)

\* The snapshot of all open rows, and the time the tick will go by.
Tick ==
    /\ DOMAIN seen = {} /\ Held # {}
    /\ seen' = [p \in Held |-> row[p]]
    /\ opening' = (clock = "opening")
    /\ UNCHANGED <<row, sold, events, market>>

\* On to the next row of the snapshot.
Handled(p) ==
    /\ seen' = Restrict(seen, DOMAIN seen \ {p})
    /\ opening' = (opening /\ DOMAIN seen' # {})
    /\ UNCHANGED market

\* The realtime quote and the lookups of one evaluation.
Facts == [price : Quotes, streak : BOOLEAN, allow : BOOLEAN]

\* The position is left as it is, with only a decision row written: no quote, or
\* a sale that is sealed at the limit down or whose transaction rolls back.
LeftAlone(p) ==
    /\ p \in DOMAIN seen
    /\ Handled(p)
    /\ UNCHANGED <<row, sold, events>>

\* The SELL of _commit_sell_execution finds the row still open and large enough.
CommittableBlindly(p, lots) == row[p].status # "NONE"
Committable(p, lots) == row[p].status = "HOLD" /\ row[p].qty >= lots

\* _register_liquidation_event.
EventsAfter(p, rule, final) ==
    IF rule \in Liquidating
    THEN [events EXCEPT ![p][rule] = IF final THEN "COMPLETED" ELSE "IN_PROGRESS"]
    ELSE events

\* The columns of a sale are computed from the copy and written as they are.
Realized(p, lots) == seen[p].realized + lots
RowAfterSale(p, v, rule, lots) ==
    [status   |-> IF lots = v.qty THEN "SOLD" ELSE "HOLD",
     qty      |-> v.qty - lots,
     realized |-> Realized(p, lots),
     stage    |-> PlanStage(rule, v),
     high     |-> v.high,
     stop     |-> Larger(v.stop, PlanStop(rule, v)),
     rule     |-> rule]

Sell(p, f) ==
    /\ p \in DOMAIN seen
    /\ LET v == View(p, f)
           rule == SellRule(v)
       IN /\ PlanLots(rule, v) > 0
          /\ \E capacity \in Liquidity :
                LET lots == FilledLots(rule, PlanLots(rule, v), capacity) IN
                /\ Committable(p, lots)
                /\ row' = [row EXCEPT ![p] = RowAfterSale(p, v, rule, lots)]
                /\ sold' = [sold EXCEPT ![p] = @ + lots]
                /\ events' = EventsAfter(p, rule, lots = v.qty)
    /\ Handled(p)

\* Nothing to sell: raise the high and the protection line of a row still open.
RowKept(p, v, rule) ==
    LET stop  == Larger(v.stop, PlanStop(rule, v))
        stage == PlanStage(rule, v)
    IN IF v.price > seen[p].high \/ stop > seen[p].stop \/ stage # seen[p].stage
       THEN [row[p] EXCEPT !.high = v.high, !.stop = stop,
                !.stage = IF v.high >= SecondTake /\ seen[p].stage = "TAKE_1_DONE"
                          THEN "PROFIT_LOCK" ELSE stage]
       ELSE row[p]

Keep(p, f) ==
    /\ p \in DOMAIN seen
    /\ LET v == View(p, f)
           rule == SellRule(v)
       IN /\ PlanLots(rule, v) = 0
          /\ row' = IF row[p].status = "HOLD"
                    THEN [row EXCEPT ![p] = RowKept(p, v, rule)] ELSE row
    /\ Handled(p)
    /\ UNCHANGED <<sold, events>>

\* The daemon dies in the middle of a tick.
Crash ==
    /\ DOMAIN seen # {}
    /\ seen' = Nothing /\ opening' = FALSE
    /\ UNCHANGED <<row, sold, events, market>>

-------------------------------------------------------------------------------
(* The poller's force liquidation, one transaction a day, and the clock.    *)

Liquidate ==
    /\ ~meltdown
    /\ meltdown' = TRUE
    /\ row' = [p \in Positions |->
                IF p \in Held
                THEN [row[p] EXCEPT !.status = "SOLD", !.qty = 0, !.realized = row[p].qty,
                                    !.rule = "FORCE_LIQUIDATION"]
                ELSE row[p]]
    /\ sold' = [p \in Positions |-> IF p \in Held THEN sold[p] + row[p].qty ELSE sold[p]]
    /\ UNCHANGED <<events, critical, held, clock, seen, opening>>

OpeningEnds ==
    /\ clock = "opening"
    /\ clock' = "session"
    /\ UNCHANGED <<row, sold, events, critical, held, meltdown, seen, opening>>

\* Overnight: the thesis review of every open row, a new guard date.
NextDay ==
    /\ clock = "session" /\ DOMAIN seen = {}
    /\ clock' = "opening" /\ meltdown' = FALSE
    /\ critical' \in {c \in [Positions -> BOOLEAN] : \A p \in Positions : c[p] => p \in Held}
    /\ held' = [p \in Positions |-> IF p \in Held THEN Smaller(held[p] + 1, TimeLimit[Tier[p]])
                                    ELSE held[p]]
    /\ UNCHANGED <<row, sold, events, seen, opening>>

-------------------------------------------------------------------------------
Handle(p) ==
    \/ LeftAlone(p)
    \/ \E f \in Facts : Sell(p, f) \/ Keep(p, f)

Next ==
    \/ \E p \in Positions : Open(p) \/ Handle(p)
    \/ Tick \/ Crash \/ Liquidate \/ OpeningEnds \/ NextDay

Spec == Init /\ [][Next]_vars

(***************************************************************************)
(* The scheduler keeps ticking, a tick goes on to its end, and a stock is  *)
(* not without a quote, sealed at its limit or out of luck with the        *)
(* database for ever: a sale that is possible again and again is made.     *)
(***************************************************************************)
LiveSpec ==
    /\ Spec
    /\ WF_vars(Tick)
    /\ \A p \in Positions : WF_vars(Handle(p)) /\ SF_vars(\E f \in Facts : Sell(p, f))

-------------------------------------------------------------------------------
(* Properties. *)

Statuses == {"NONE", "HOLD", "SOLD"}
Price == {Entry} \union Quotes

\* Type invariant of the tables and of the snapshot.
TypeOK ==
    /\ \A p \in Positions :
        /\ row[p].status \in Statuses /\ row[p].qty \in 0..Initial[p]
        /\ row[p].realized \in 0..Initial[p] /\ row[p].stage \in Stages
        /\ row[p].high \in Price /\ row[p].stop \in {WrongPick, Entry, Floor}
        /\ events[p] \in [Liquidating -> {"NONE", "IN_PROGRESS", "COMPLETED"}]
    /\ sold \in [Positions -> Nat]
    /\ DOMAIN seen \subseteq Positions
    /\ \A p \in DOMAIN seen : seen[p].status = "HOLD"

\* Every lot bought is either still in the row or in the SELL rows of the ledger,
\* and a row is closed exactly when it is empty, whatever the manager's copy of
\* the row has missed in the meantime (_commit_sell_execution); and a row says it has
\* realized what was sold for it over all partial exits, as long as the manager sells.
\* One liquidation at most is reported complete, by the rule that closed the row.
QuantitiesAddUp ==
    /\ TypeOK
    /\ \A p \in Positions :
        /\ row[p].status # "NONE" => row[p].qty + sold[p] = Initial[p]
        /\ row[p].status = "SOLD" <=> (sold[p] = Initial[p])
        /\ row[p].rule # "FORCE_LIQUIDATION" => row[p].realized = sold[p]
        /\ \A r \in Liquidating : events[p][r] = "COMPLETED" =>
              row[p].status = "SOLD" /\ row[p].rule = r

\* The first profit is taken once: no position that has not gone past the first
\* stage has sold more than its first share, capped sales and stale copies included.
FirstShareOnly ==
    \A p \in Positions :
        row[p].status = "HOLD" /\ row[p].stage \in {"HOLD_FULL", "TAKE_1_DONE"} =>
            sold[p] <= (IF Tier[p] = "STRONG" THEN Initial[p] \div 3 ELSE Initial[p] \div 2)

\* The line that protects a profit already taken: at least the entry price after
\* the first sale, at least the profit floor once the profit is locked.
LineMatchesStage ==
    \A p \in Positions :
        /\ row[p].stage = "TAKE_1_DONE" => row[p].stop >= Entry
        /\ row[p].stage \in Locked => row[p].stop >= Floor

\* A closed position is closed for good: a tick that still holds a copy of it
\* sells nothing and writes nothing.
SoldIsFinal ==
    [][\A p \in Positions : row[p].status = "SOLD" =>
            row'[p] = row[p] /\ sold'[p] = sold[p]]_<<row, sold>>

\* The protection line and the high of an open position never go down.
LineNeverFalls ==
    [][\A p \in Positions : row[p].stop <= row'[p].stop /\ row[p].high <= row'[p].high]_row

\* A position whose thesis stays invalidated is sold out, however little the
\* market takes at a time (THESIS_CRITICAL_RISK_EXIT comes before every wait).
CriticalExit ==
    \A p \in Positions : (row[p].status = "HOLD" /\ critical[p]) ~>
                         (row[p].status = "SOLD" \/ ~critical[p])
===============================================================================
