------------------------------ MODULE PaperOrder ------------------------------
(***************************************************************************)
(* What the paper-trading side of the system promises about an order,      *)
(* whatever the schedule, the retries and the crashes of the jobs that     *)
(* carry it out: an order is offered once it has passed the audit, buys at *)
(* most once, never while the same symbol is already held, and a closed    *)
(* position stays closed.  T1Fill is shown to implement this module.       *)
(***************************************************************************)
CONSTANTS Signals,   \* audit signals, one per task_id
          SymbolOf   \* the stock of each signal

VARIABLES offered,   \* signals accepted into the T+1 queue
          held,      \* signals whose buy is an open position
          closed     \* signals whose position was sold out

orderVars == <<offered, held, closed>>

OrderInit == offered = {} /\ held = {} /\ closed = {}

Offer(s) ==
    /\ s \notin offered
    /\ offered' = offered \union {s}
    /\ UNCHANGED <<held, closed>>

Buy(s) ==
    /\ s \in offered \ (held \union closed)
    /\ \A t \in held : SymbolOf[t] # SymbolOf[s]
    /\ held' = held \union {s}
    /\ UNCHANGED <<offered, closed>>

Close(s) ==
    /\ s \in held
    /\ held' = held \ {s}
    /\ closed' = closed \union {s}
    /\ UNCHANGED offered

OrderNext == \E s \in Signals : Offer(s) \/ Buy(s) \/ Close(s)

OrderSpec == OrderInit /\ [][OrderNext]_orderVars
===============================================================================
