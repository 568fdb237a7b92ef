-------------------------------- MODULE Hearing ---------------------------------
(***************************************************************************)
(* What the cloud court promises to the audit engine                       *)
(* (L4SupremeCourt.audit of 02_brain/decision_engine.py): a hearing is     *)
(* opened on the L3 result of one candidate, may stand still while a       *)
(* provider is away, and ends with one verdict inside the envelope that    *)
(* this result allows.                                                     *)
(***************************************************************************)
VARIABLES
    hpc,       \* idle, sitting, paused or ruled
    hbrief,    \* the L3 result that is heard
    hverdict   \* its verdict, "NONE" before it

hearing == <<hpc, hbrief, hverdict>>

\* open is an L3 PASS or HOLD, downgraded an L3 VETO that the dual gate let through;
\* zeta is the capital-flow signal that came with it, as far as the result carries it.
Briefs  == [kind : {"open", "downgraded"}, zeta : {"none", "exit", "offline"}]
NoBrief == [kind |-> "open", zeta |-> "none"]

Verdicts == {"PASS", "HOLD", "VETO"}

Envelope(b) ==
    IF b.zeta = "exit" THEN {"VETO"}
    ELSE IF b.kind = "downgraded" \/ b.zeta = "offline" THEN {"HOLD", "VETO"}
    ELSE Verdicts

Closed == hpc = "idle" /\ hbrief = NoBrief /\ hverdict = "NONE"

\* A capital-flow EXIT is decided at once.
Open(b) ==
    /\ hpc = "idle"
    /\ hbrief' = b
    /\ IF b.zeta = "exit" THEN hpc' = "ruled" /\ hverdict' = "VETO"
       ELSE hpc' = "sitting" /\ hverdict' = "NONE"

Stall  == hpc = "sitting" /\ hpc' = "paused" /\ UNCHANGED <<hbrief, hverdict>>
Resume == hpc = "paused" /\ hpc' = "sitting" /\ UNCHANGED <<hbrief, hverdict>>

Decide ==
    /\ hpc = "sitting"
    /\ hpc' = "ruled"
    /\ hverdict' \in Envelope(hbrief)
    /\ UNCHANGED hbrief

Close == hpc' = "idle" /\ hbrief' = NoBrief /\ hverdict' = "NONE"

HearingNext ==
    \/ \E b \in Briefs : Open(b)
    \/ Stall \/ Resume \/ Decide
    \/ hpc = "ruled" /\ Close

HearingSpec == Closed /\ [][HearingNext]_hearing
===============================================================================
