-------------------------------- MODULE DbGateway --------------------------------
(***************************************************************************)
(* How the threads and processes of the system share one DuckDB file       *)
(* (01_engine/lib/db_gateway.py).  A block opens a connection under a      *)
(* reentrant lock of its process and gives the lock back when it ends;     *)
(* between processes only the lock of the file itself helps, so opening is *)
(* tried again a few times before it is refused.                           *)
(*                                                                         *)
(* One write is one statement, committed by itself.  The exists() check of *)
(* a read-only open, the waits between tries and the repeated statements   *)
(* change no state and are left out.  A tool that opens a read-only        *)
(* connection by itself is a process of one thread.                        *)
(***************************************************************************)
EXTENDS Integers

CONSTANTS
    Threads, Processes,
    Home,       \* the process of each thread
    MaxDepth,   \* blocks nest this deep
    MaxTries,   \* _MAX_WRITE_RETRIES
    MaxFaults   \* bound on crashes and on errors other than a conflict

ASSUME GatewayAssumption ==
    /\ Home \in [Threads -> Processes]
    /\ MaxDepth \in Nat /\ MaxTries \in Nat /\ MaxFaults \in Nat

None   == "none"
ASSUME NoneAssumption == None \notin Threads

Modes  == {"RO", "RW"}
Levels == 1..MaxDepth   \* the nesting of blocks

VARIABLES
    owner, depth,     \* _connection_lock of each process
    pc, want, tries,  \* the open that a thread is in, its mode, its failed tries
    level,            \* blocks a thread is inside of
    conn,             \* mode of its open connections
    wrote,            \* who wrote since each was opened (history)
    faults            \* crashes and errors so far (bound)

lock  == <<owner, depth>>
opens == <<pc, want, tries>>
vars  == <<lock, opens, level, conn, wrote, faults>>

NoConn  == [l \in Levels |-> None]
Nothing == [l \in Levels |-> {}]

Init ==
    /\ owner = [p \in Processes |-> None] /\ depth = [p \in Processes |-> 0]
    /\ pc = [t \in Threads |-> "free"] /\ want = [t \in Threads |-> "RO"]
    /\ tries = [t \in Threads |-> 0] /\ level = [t \in Threads |-> 0]
    /\ conn = [t \in Threads |-> NoConn] /\ wrote = [t \in Threads |-> Nothing]
    /\ faults = 0

Faulty == faults < MaxFaults /\ faults' = faults + 1

-------------------------------------------------------------------------------
(* DuckDB: connections of one process share one configuration; a file is    *)
(* open for writing in one process or for reading in any number of them.    *)

Agree(t, m, u, k) == IF Home[t] = Home[u] THEN m = k ELSE m = "RO" /\ k = "RO"
Compatible(t, m) ==
    \A u \in Threads, l \in Levels : conn[u][l] # None => Agree(t, m, u, conn[u][l])

Connected(t, l, m) ==
    /\ conn' = [conn EXCEPT ![t][l] = m]
    /\ wrote' = [wrote EXCEPT ![t][l] = {}]
Disconnected(t, l) ==
    /\ conn' = [conn EXCEPT ![t][l] = None]
    /\ wrote' = [wrote EXCEPT ![t][l] = {}]

-------------------------------------------------------------------------------
(* __enter__, get_connection and _connect_with_retry.                       *)

\* The lock is reentrant.
AnyMayAcquire(t) == TRUE
MayAcquire(t) == owner[Home[t]] \in {None, t}

Release(p) ==
    /\ depth' = [depth EXCEPT ![p] = @ - 1]
    /\ owner' = [owner EXCEPT ![p] = IF depth[p] = 1 THEN None ELSE @]

\* The open is over, and its local variables with it.
Answered(t) ==
    /\ pc' = [pc EXCEPT ![t] = "free"]
    /\ want' = [want EXCEPT ![t] = "RO"]
    /\ tries' = [tries EXCEPT ![t] = 0]

Ask(t, m) ==
    /\ pc[t] = "free" /\ level[t] < MaxDepth
    /\ pc' = [pc EXCEPT ![t] = "waiting"]
    /\ want' = [want EXCEPT ![t] = m]
    /\ UNCHANGED <<lock, tries, level, conn, wrote, faults>>

Acquire(t) ==
    /\ pc[t] = "waiting" /\ MayAcquire(t)
    /\ owner' = [owner EXCEPT ![Home[t]] = t]
    /\ depth' = [depth EXCEPT ![Home[t]] = @ + 1]
    /\ pc' = [pc EXCEPT ![t] = "connecting"]
    /\ UNCHANGED <<want, tries, level, conn, wrote, faults>>

Open(t) ==
    /\ pc[t] = "connecting" /\ Compatible(t, want[t])
    /\ Connected(t, level[t] + 1, want[t])
    /\ level' = [level EXCEPT ![t] = @ + 1]
    /\ Answered(t)
    /\ UNCHANGED <<lock, faults>>

\* A conflict is in _LOCK_ERROR_HINTS, "different configuration" among them.
Conflict(t) == pc[t] = "connecting" /\ ~Compatible(t, want[t])

Exhausted(t) == tries[t] + 1 >= MaxTries

RetryUncounted(t) ==
    /\ Conflict(t) /\ ~Exhausted(t)
    /\ UNCHANGED vars
Retry(t) ==
    /\ Conflict(t) /\ ~Exhausted(t)
    /\ tries' = [tries EXCEPT ![t] = @ + 1]
    /\ UNCHANGED <<lock, pc, want, level, conn, wrote, faults>>

\* The open is refused: the last try, any other error, a SET that fails after connect.
\* The connection of the last case stays open on its instance, which nobody uses, until
\* that is collected; here it is gone at once.
RefuseHolding(t) ==
    /\ \/ Conflict(t) /\ Exhausted(t) /\ UNCHANGED faults
       \/ pc[t] = "connecting" /\ Faulty
    /\ Answered(t)
    /\ UNCHANGED <<lock, level, conn, wrote>>
Refuse(t) ==
    /\ \/ Conflict(t) /\ Exhausted(t) /\ UNCHANGED faults
       \/ pc[t] = "connecting" /\ Faulty
    /\ Release(Home[t])
    /\ Answered(t)
    /\ UNCHANGED <<level, conn, wrote>>

-------------------------------------------------------------------------------
(* Inside a block, and its end: __exit__ and _LockedConnection.close, which *)
(* give the lock back whether the close fails or not.                       *)

Write(t) ==
    /\ pc[t] = "free" /\ level[t] > 0 /\ conn[t][level[t]] = "RW"
    /\ wrote' = [u \in Threads |-> [l \in Levels |->
                    IF conn[u][l] = None THEN wrote[u][l] ELSE wrote[u][l] \union {t}]]
    /\ UNCHANGED <<lock, opens, level, conn, faults>>

\* Each block has an instance of its own, so the one that is closed has its connection.
Close(t) ==
    /\ pc[t] = "free" /\ level[t] > 0
    /\ Disconnected(t, level[t])
    /\ level' = [level EXCEPT ![t] = @ - 1]
    /\ Release(Home[t])
    /\ UNCHANGED <<opens, faults>>

\* A process dies: its lock, its connections and the lock of the file go with it.
Crash(p) ==
    /\ Faulty
    /\ owner' = [owner EXCEPT ![p] = None] /\ depth' = [depth EXCEPT ![p] = 0]
    /\ pc' = [t \in Threads |-> IF Home[t] = p THEN "free" ELSE pc[t]]
    /\ level' = [t \in Threads |-> IF Home[t] = p THEN 0 ELSE level[t]]
    /\ conn' = [t \in Threads |-> IF Home[t] = p THEN NoConn ELSE conn[t]]
    /\ wrote' = [t \in Threads |-> IF Home[t] = p THEN Nothing ELSE wrote[t]]
    /\ want' = [t \in Threads |-> IF Home[t] = p THEN "RO" ELSE want[t]]
    /\ tries' = [t \in Threads |-> IF Home[t] = p THEN 0 ELSE tries[t]]

Next ==
    \/ \E t \in Threads :
        \/ \E m \in Modes : Ask(t, m)
        \/ Acquire(t) \/ Open(t) \/ Retry(t) \/ Refuse(t)
        \/ Write(t) \/ Close(t)
    \/ \E p \in Processes : Crash(p)

Spec == Init /\ [][Next]_vars

(***************************************************************************)
(* A thread goes on, a block ends some day, and a lock that is free again  *)
(* and again is given some day to each thread that waits for it.           *)
(***************************************************************************)
LiveSpec ==
    /\ Spec
    /\ \A t \in Threads :
        /\ WF_vars(Open(t) \/ Retry(t) \/ Refuse(t))
        /\ SF_vars(Acquire(t))
        /\ \A l \in Levels : SF_vars(level[t] = l /\ Close(t))

-------------------------------------------------------------------------------
(* Properties. *)

\* Type invariant.
TypeOK ==
    /\ owner \in [Processes -> Threads \union {None}] /\ depth \in [Processes -> Nat]
    /\ pc \in [Threads -> {"free", "waiting", "connecting"}] /\ want \in [Threads -> Modes]
    /\ tries \in [Threads -> Nat] /\ level \in [Threads -> 0..MaxDepth]
    /\ conn \in [Threads -> [Levels -> Modes \union {None}]]
    /\ wrote \in [Threads -> [Levels -> SUBSET Threads]]
    /\ faults \in 0..MaxFaults

\* The rest of the system takes one block for one step: from the open of a connection to
\* its close nobody writes but the thread that opened it, neither another thread of the
\* process nor another process, whatever is nested.
BlockAlone ==
    \A t \in Threads, l \in Levels : conn[t][l] # None => wrote[t][l] \subseteq {t}

\* Blocks that a thread holds the lock for.
Holds(t) == level[t] + (IF pc[t] = "connecting" THEN 1 ELSE 0)

\* The lock of a process is held by the thread that is inside blocks, as often as it is,
\* and by nobody when there is none: no way out of a block or of a refused open keeps it
\* (db_gateway.py:463, :496).
LockMatchesBlocks ==
    /\ \A t \in Threads : Holds(t) > 0 => owner[Home[t]] = t
    /\ \A p \in Processes :
        depth[p] = IF owner[p] = None THEN 0 ELSE Holds(owner[p])
    /\ \A p \in Processes : owner[p] # None => depth[p] > 0

\* Who asks for a connection gets it or is refused, also where it is the asking thread's
\* own block in the other mode that is in the way.
AskedIsAnswered == \A t \in Threads : pc[t] # "free" ~> pc[t] = "free"
===============================================================================
