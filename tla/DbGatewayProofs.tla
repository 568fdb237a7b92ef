----------------------------- MODULE DbGatewayProofs -----------------------------
(***************************************************************************)
(* What holds of the gateway for any threads, processes and depth of       *)
(* nesting.                                                                *)
(***************************************************************************)
EXTENDS DbGateway, TLAPS

\* The connections of a thread are those of the blocks it is inside of, and a thread that
\* is opening one has room for it.
Stacked ==
    /\ \A t \in Threads, l \in Levels : conn[t][l] # None <=> l <= level[t]
    /\ \A t \in Threads : pc[t] # "free" => level[t] < MaxDepth

\* The lock of a process is held by a thread of it.
OwnLock == \A p \in Processes : owner[p] # None => Home[owner[p]] = p

\* DuckDB's rule, for all pairs of open connections.
AllAgree ==
    \A t, u \in Threads : \A l, k \in Levels :
        conn[t][l] # None /\ conn[u][k] # None => Agree(t, conn[t][l], u, conn[u][k])

IInv == TypeOK /\ Stacked /\ OwnLock /\ LockMatchesBlocks /\ AllAgree /\ BlockAlone

\* The initial state satisfies the inductive invariant.
LEMMA InitOK == Init => IInv
BY GatewayAssumption, NoneAssumption
   DEF Init, IInv, TypeOK, Stacked, OwnLock, LockMatchesBlocks, AllAgree, BlockAlone,
       NoConn, Nothing, Levels, Modes, None, Holds

\* A thread that is inside a block or opening one owns the lock of its process.
LEMMA InsideOwns ==
    ASSUME IInv, NEW t \in Threads, level[t] > 0 \/ pc[t] = "connecting"
    PROVE  owner[Home[t]] = t
<1>1. Holds(t) > 0
  BY DEF IInv, TypeOK, Holds
<1>. QED BY <1>1 DEF IInv, LockMatchesBlocks

\* What giving the lock back does, for a thread that leaves a block or a failed open.
LEMMA Released ==
    ASSUME IInv, NEW t \in Threads, Holds(t) > 0, Release(Home[t]),
           pc' \in [Threads -> {"free", "waiting", "connecting"}],
           level' \in [Threads -> 0..MaxDepth],
           Holds(t)' = Holds(t) - 1,
           \A u \in Threads \ {t} : Holds(u)' = Holds(u)
    PROVE  /\ owner' \in [Processes -> Threads \union {None}]
           /\ depth' \in [Processes -> Nat]
           /\ OwnLock' /\ LockMatchesBlocks'
<1>. DEFINE p == Home[t]
<1>1. p \in Processes /\ owner[p] = t /\ t # None
  BY GatewayAssumption, NoneAssumption DEF IInv, LockMatchesBlocks
<1>2. depth[p] = Holds(t) /\ depth[p] \in Nat
  BY <1>1 DEF IInv, LockMatchesBlocks, TypeOK
<1>3. /\ owner' = [owner EXCEPT ![p] = IF depth[p] = 1 THEN None ELSE @]
      /\ depth' = [depth EXCEPT ![p] = @ - 1]
  BY DEF Release
<1>4. /\ owner' \in [Processes -> Threads \union {None}]
      /\ depth' \in [Processes -> Nat]
  BY <1>1, <1>2, <1>3 DEF IInv, TypeOK
<1>5. OwnLock'
  BY <1>1, <1>3 DEF IInv, OwnLock, TypeOK
<1>6. \A q \in Processes \ {p} : owner'[q] = owner[q] /\ depth'[q] = depth[q]
  BY <1>3 DEF IInv, TypeOK
<1>7. ASSUME NEW u \in Threads, Holds(u)' > 0 PROVE owner'[Home[u]] = u
  <2>1. CASE u = t
    BY <2>1, <1>7, <1>1, <1>2, <1>3 DEF IInv, TypeOK
  <2>2. CASE u # t
    <3>1. owner[Home[u]] = u
      BY <2>2, <1>7 DEF IInv, LockMatchesBlocks
    <3>2. Home[u] # p /\ Home[u] \in Processes
      BY <2>2, <3>1, <1>1, GatewayAssumption
    <3>. QED BY <3>1, <3>2, <1>6
  <2>. QED BY <2>1, <2>2
<1>8. ASSUME NEW q \in Processes
      PROVE  (/\ depth[q] = IF owner[q] = None THEN 0 ELSE Holds(owner[q])
              /\ owner[q] # None => depth[q] > 0)'
  <2>1. CASE q = p
    <3>1. CASE depth[p] = 1
      BY <2>1, <3>1, <1>1, <1>2, <1>3 DEF IInv, TypeOK
    <3>2. CASE depth[p] # 1
      <4>1. owner'[p] = t /\ depth'[p] = Holds(t) - 1 /\ depth'[p] > 0
        BY <3>2, <1>1, <1>2, <1>3 DEF IInv, TypeOK
      <4>2. Holds(owner[p])' = Holds(t)'
        BY <4>1 DEF Holds
      <4>. QED BY <2>1, <4>1, <4>2, <1>1
    <3>. QED BY <3>1, <3>2
  <2>2. CASE q # p
    <3>1. owner'[q] = owner[q] /\ depth'[q] = depth[q]
      BY <2>2, <1>6
    <3>2. owner[q] # None => owner[q] \in Threads \ {t}
      BY <2>2, <1>1 DEF IInv, OwnLock, TypeOK
    <3>3. CASE owner[q] = None
      BY <3>1, <3>3 DEF IInv, LockMatchesBlocks
    <3>4. CASE owner[q] # None
      <4>. DEFINE u == owner[q]
      <4>1. Holds(u)' = Holds(u)
        BY <3>1, <3>2, <3>4 DEF Holds
      <4>. QED BY <3>1, <3>4, <4>1 DEF IInv, LockMatchesBlocks
    <3>. QED BY <3>3, <3>4
  <2>. QED BY <2>1, <2>2
<1>. QED BY <1>4, <1>5, <1>7, <1>8 DEF LockMatchesBlocks

\* Opening a connection that agrees with the others keeps them all in agreement.
LEMMA OpenAgrees ==
    ASSUME IInv, NEW t \in Threads, Open(t)
    PROVE  AllAgree'
<1>. DEFINE n == level[t] + 1
<1>1. n \in Levels /\ want[t] \in Modes
  <2>1. level[t] \in 0..MaxDepth /\ level[t] < MaxDepth /\ want[t] \in Modes
    BY DEF IInv, TypeOK, Stacked, Open
  <2>. QED BY <2>1, GatewayAssumption DEF Levels
<1>2. conn' = [conn EXCEPT ![t][n] = want[t]]
  BY DEF Open, Connected
<1>3. \A u \in Threads, l \in Levels :
        conn'[u][l] = IF u = t /\ l = n THEN want[t] ELSE conn[u][l]
  BY <1>1, <1>2 DEF IInv, TypeOK
<1>4. \A u \in Threads, l \in Levels :
        conn[u][l] # None => Agree(t, want[t], u, conn[u][l])
  BY DEF Open, Compatible
<1>5. ASSUME NEW u \in Threads, NEW v \in Threads, NEW l \in Levels, NEW k \in Levels,
             conn'[u][l] # None, conn'[v][k] # None
      PROVE  Agree(u, conn'[u][l], v, conn'[v][k])
  BY <1>3, <1>4, <1>5 DEF IInv, AllAgree, Agree
<1>. QED BY <1>5 DEF AllAgree, Agree

\* The one writer of a file is the only one who has it open.
LEMMA WriterAlone ==
    ASSUME IInv, NEW t \in Threads, Write(t),
           NEW u \in Threads, NEW l \in Levels, conn[u][l] # None
    PROVE  u = t
<1>. DEFINE n == level[t]
<1>1. n \in Levels /\ conn[t][n] = "RW" /\ level[t] > 0
  BY DEF Write, IInv, TypeOK, Levels
<1>2. Agree(t, "RW", u, conn[u][l])
  BY <1>1 DEF IInv, AllAgree, None
<1>3. Home[t] = Home[u]
  BY <1>2 DEF Agree
<1>4. level[u] > 0
  BY DEF IInv, Stacked, TypeOK, Levels
<1>. QED BY <1>1, <1>3, <1>4, InsideOwns

\* A thread that asks changes nothing but its own wait.
LEMMA StepAsk ==
    ASSUME IInv, NEW t \in Threads, NEW m \in Modes, Ask(t, m) PROVE IInv'
<1>1. TypeOK' /\ Stacked' /\ OwnLock' /\ AllAgree' /\ BlockAlone'
  BY DEF IInv, TypeOK, Stacked, OwnLock, AllAgree, BlockAlone, Ask, lock, Agree
<1>2. \A u \in Threads : Holds(u)' = Holds(u)
  BY DEF IInv, TypeOK, Ask, Holds
<1>3. LockMatchesBlocks'
  BY <1>2 DEF IInv, TypeOK, LockMatchesBlocks, Ask, lock, Holds
<1>. QED BY <1>1, <1>3 DEF IInv

\* The lock is taken by its owner once more, or by a thread when nobody has it.
LEMMA StepAcquire ==
    ASSUME IInv, NEW t \in Threads, Acquire(t) PROVE IInv'
<1>. DEFINE p == Home[t]
<1>1. p \in Processes /\ t # None
  BY GatewayAssumption, NoneAssumption
<1>2. TypeOK' /\ Stacked' /\ AllAgree' /\ BlockAlone'
  BY <1>1 DEF IInv, TypeOK, Stacked, AllAgree, BlockAlone, Acquire, Agree
<1>3. OwnLock'
  BY <1>1 DEF IInv, TypeOK, OwnLock, Acquire
<1>4. Holds(t)' = Holds(t) + 1 /\ \A u \in Threads \ {t} : Holds(u)' = Holds(u)
  BY DEF IInv, TypeOK, Acquire, Holds
<1>5. depth[p] = Holds(t) /\ owner[p] \in {None, t}
  <2>1. owner[p] \in {None, t}
    BY DEF Acquire, MayAcquire
  <2>2. owner[p] = None => Holds(t) = 0
    BY <1>1 DEF IInv, LockMatchesBlocks, Holds, TypeOK
  <2>. QED BY <1>1, <2>1, <2>2 DEF IInv, LockMatchesBlocks
<1>6. LockMatchesBlocks'
  <2>1. /\ owner' = [owner EXCEPT ![p] = t] /\ depth' = [depth EXCEPT ![p] = @ + 1]
        /\ Holds(t) \in Nat
    BY DEF Acquire, IInv, TypeOK, Holds
  <2>2. ASSUME NEW u \in Threads, Holds(u)' > 0 PROVE owner'[Home[u]] = u
    <3>1. CASE u = t
      BY <3>1, <2>1, <1>1 DEF IInv, TypeOK
    <3>2. CASE u # t
      <4>1. owner[Home[u]] = u /\ Home[u] \in Processes
        BY <3>2, <2>2, <1>4, GatewayAssumption DEF IInv, LockMatchesBlocks
      <4>2. Home[u] # p
        BY <4>1, <3>2, <1>5, NoneAssumption
      <4>. QED BY <4>1, <4>2, <2>1 DEF IInv, TypeOK
    <3>. QED BY <3>1, <3>2
  <2>3. ASSUME NEW q \in Processes
        PROVE  (/\ depth[q] = IF owner[q] = None THEN 0 ELSE Holds(owner[q])
                /\ owner[q] # None => depth[q] > 0)'
    <3>1. CASE q = p
      <4>1. owner'[q] = t /\ depth'[q] = Holds(t) + 1
        BY <3>1, <2>1, <1>1, <1>5 DEF IInv, TypeOK
      <4>2. Holds(owner[q])' = Holds(t)'
        BY <4>1 DEF Holds
      <4>. QED BY <4>1, <4>2, <1>1, <1>4, <2>1
    <3>2. CASE q # p
      <4>1. owner'[q] = owner[q] /\ depth'[q] = depth[q]
        BY <3>2, <2>1 DEF IInv, TypeOK
      <4>2. CASE owner[q] = None
        BY <4>1, <4>2 DEF IInv, LockMatchesBlocks
      <4>3. CASE owner[q] # None
        <5>1. owner[q] \in Threads \ {t}
          BY <3>2, <4>3 DEF IInv, OwnLock, TypeOK
        <5>2. Holds(owner[q])' = Holds(owner[q])
          BY <4>1, <5>1, <1>4 DEF Holds
        <5>. QED BY <4>1, <4>3, <5>2 DEF IInv, LockMatchesBlocks
      <4>. QED BY <4>2, <4>3
    <3>. QED BY <3>1, <3>2
  <2>. QED BY <2>2, <2>3 DEF LockMatchesBlocks
<1>. QED BY <1>2, <1>3, <1>6 DEF IInv

\* A connection that is opened is the next block of its thread.
LEMMA StepOpen ==
    ASSUME IInv, NEW t \in Threads, Open(t) PROVE IInv'
<1>. DEFINE n == level[t] + 1
<1>1. n \in Levels /\ want[t] \in Modes
  <2>1. level[t] \in 0..MaxDepth /\ level[t] < MaxDepth /\ want[t] \in Modes
    BY DEF IInv, TypeOK, Stacked, Open
  <2>. QED BY <2>1, GatewayAssumption DEF Levels
<1>2. /\ conn' = [conn EXCEPT ![t][n] = want[t]] /\ wrote' = [wrote EXCEPT ![t][n] = {}]
      /\ level' = [level EXCEPT ![t] = n]
      /\ pc' = [pc EXCEPT ![t] = "free"] /\ want' = [want EXCEPT ![t] = "RO"]
      /\ tries' = [tries EXCEPT ![t] = 0] /\ UNCHANGED <<owner, depth, faults>>
  BY DEF Open, Connected, Answered, lock
<1>3. TypeOK'
  BY <1>1, <1>2 DEF IInv, TypeOK, Levels, Modes
<1>4. Stacked'
  <2>1. \A u \in Threads, l \in Levels :
          conn'[u][l] = IF u = t /\ l = n THEN want[t] ELSE conn[u][l]
    BY <1>1, <1>2 DEF IInv, TypeOK
  <2>2. \A u \in Threads : level'[u] = IF u = t THEN n ELSE level[u]
    BY <1>2 DEF IInv, TypeOK
  <2>3. want[t] # None
    BY <1>1 DEF Modes, None
  <2>4. ASSUME NEW u \in Threads, NEW l \in Levels
        PROVE  conn'[u][l] # None <=> l <= level'[u]
    <3>1. level[u] \in Nat /\ level[t] \in Nat /\ l \in Nat
      BY GatewayAssumption DEF IInv, TypeOK, Levels
    <3>2. conn[u][l] # None <=> l <= level[u]
      BY DEF IInv, Stacked
    <3>. QED BY <3>1, <3>2, <2>1, <2>2, <2>3
  <2>5. ASSUME NEW u \in Threads, pc'[u] # "free" PROVE level'[u] < MaxDepth
    BY <2>5, <2>2, <1>2 DEF IInv, Stacked, TypeOK
  <2>. QED BY <2>4, <2>5 DEF Stacked
<1>5. \A u \in Threads : Holds(u)' = Holds(u)
  BY <1>2 DEF IInv, TypeOK, Open, Holds
<1>6. OwnLock' /\ LockMatchesBlocks'
  BY <1>2, <1>5 DEF IInv, OwnLock, LockMatchesBlocks, TypeOK, Holds
<1>7. BlockAlone'
  BY <1>1, <1>2 DEF IInv, BlockAlone, TypeOK
<1>. QED BY <1>3, <1>4, <1>6, <1>7, OpenAgrees DEF IInv

\* A try that fails is only counted.
LEMMA StepRetry ==
    ASSUME IInv, NEW t \in Threads, Retry(t) PROVE IInv'
<1>1. TypeOK' /\ Stacked' /\ OwnLock' /\ AllAgree' /\ BlockAlone'
  BY DEF IInv, TypeOK, Stacked, OwnLock, AllAgree, BlockAlone, Retry, lock, Agree
<1>2. LockMatchesBlocks'
  BY DEF IInv, LockMatchesBlocks, Retry, lock, Holds
<1>. QED BY <1>1, <1>2 DEF IInv

\* A refused open gives the lock back.
LEMMA StepRefuse ==
    ASSUME IInv, NEW t \in Threads, Refuse(t) PROVE IInv'
<1>1. /\ pc[t] = "connecting" /\ Release(Home[t])
      /\ pc' = [pc EXCEPT ![t] = "free"] /\ want' = [want EXCEPT ![t] = "RO"]
      /\ tries' = [tries EXCEPT ![t] = 0] /\ UNCHANGED <<level, conn, wrote>>
      /\ faults' \in 0..MaxFaults
  BY GatewayAssumption DEF Refuse, Conflict, Answered, Faulty, IInv, TypeOK
<1>2. /\ Holds(t) > 0 /\ Holds(t)' = Holds(t) - 1
      /\ \A u \in Threads \ {t} : Holds(u)' = Holds(u)
  BY <1>1 DEF IInv, TypeOK, Holds
<1>3. /\ pc' \in [Threads -> {"free", "waiting", "connecting"}]
      /\ level' \in [Threads -> 0..MaxDepth]
  BY <1>1 DEF IInv, TypeOK
<1>4. /\ owner' \in [Processes -> Threads \union {None}] /\ depth' \in [Processes -> Nat]
      /\ OwnLock' /\ LockMatchesBlocks'
  BY <1>1, <1>2, <1>3, Released
<1>5. TypeOK' /\ Stacked' /\ AllAgree' /\ BlockAlone'
  BY <1>1, <1>3, <1>4 DEF IInv, TypeOK, Stacked, AllAgree, BlockAlone, Agree, Modes
<1>. QED BY <1>4, <1>5 DEF IInv

\* Who writes has the file to itself.
LEMMA StepWrite ==
    ASSUME IInv, NEW t \in Threads, Write(t) PROVE IInv'
<1>1. wrote' \in [Threads -> [Levels -> SUBSET Threads]]
  BY DEF IInv, TypeOK, Write
<1>2. TypeOK' /\ Stacked' /\ OwnLock' /\ AllAgree'
  BY <1>1 DEF IInv, TypeOK, Stacked, OwnLock, AllAgree, Write, lock, opens, Agree
<1>3. LockMatchesBlocks'
  BY DEF IInv, LockMatchesBlocks, Write, lock, opens, Holds
<1>4. BlockAlone'
  <2>. SUFFICES ASSUME NEW u \in Threads, NEW l \in Levels, conn'[u][l] # None
                PROVE  wrote'[u][l] \subseteq {u}
    BY DEF BlockAlone
  <2>1. conn[u][l] # None
    BY DEF Write
  <2>2. u = t
    BY <2>1, WriterAlone
  <2>3. wrote'[u][l] = wrote[u][l] \union {t}
    BY <2>1 DEF Write
  <2>. QED BY <2>1, <2>2, <2>3 DEF IInv, BlockAlone
<1>. QED BY <1>2, <1>3, <1>4 DEF IInv

\* The innermost block is the one that ends.
LEMMA StepClose ==
    ASSUME IInv, NEW t \in Threads, Close(t) PROVE IInv'
<1>. DEFINE n == level[t]
<1>1. /\ n \in Levels /\ pc[t] = "free" /\ Release(Home[t])
      /\ conn' = [conn EXCEPT ![t][n] = None] /\ wrote' = [wrote EXCEPT ![t][n] = {}]
      /\ level' = [level EXCEPT ![t] = n - 1] /\ UNCHANGED <<pc, want, tries, faults>>
  BY DEF Close, Disconnected, opens, IInv, TypeOK, Levels
<1>2. /\ Holds(t) > 0 /\ Holds(t)' = Holds(t) - 1
      /\ \A u \in Threads \ {t} : Holds(u)' = Holds(u)
  BY <1>1 DEF IInv, TypeOK, Holds, Levels
<1>3. /\ pc' \in [Threads -> {"free", "waiting", "connecting"}]
      /\ level' \in [Threads -> 0..MaxDepth]
  <2>1. n - 1 \in 0..MaxDepth
    BY <1>1, GatewayAssumption DEF Levels
  <2>. QED BY <1>1, <2>1 DEF IInv, TypeOK
<1>4. /\ owner' \in [Processes -> Threads \union {None}] /\ depth' \in [Processes -> Nat]
      /\ OwnLock' /\ LockMatchesBlocks'
  BY <1>1, <1>2, <1>3, Released
<1>5. TypeOK'
  BY <1>1, <1>3, <1>4 DEF IInv, TypeOK
<1>6. /\ \A u \in Threads, l \in Levels :
            conn'[u][l] = IF u = t /\ l = n THEN None ELSE conn[u][l]
      /\ \A u \in Threads : level'[u] = IF u = t THEN n - 1 ELSE level[u]
  BY <1>1 DEF IInv, TypeOK
<1>7. Stacked'
  <2>1. ASSUME NEW u \in Threads, NEW l \in Levels
        PROVE  conn'[u][l] # None <=> l <= level'[u]
    BY <1>1, <1>6 DEF IInv, Stacked, TypeOK, Levels
  <2>2. ASSUME NEW u \in Threads, pc'[u] # "free" PROVE level'[u] < MaxDepth
    BY <2>2, <1>1, <1>6 DEF IInv, Stacked, TypeOK
  <2>. QED BY <2>1, <2>2 DEF Stacked
<1>8. AllAgree'
  <2>1. ASSUME NEW u \in Threads, NEW v \in Threads, NEW l \in Levels, NEW k \in Levels,
               conn'[u][l] # None, conn'[v][k] # None
        PROVE  Agree(u, conn'[u][l], v, conn'[v][k])
    BY <1>6, <2>1 DEF IInv, AllAgree, Agree
  <2>. QED BY <2>1 DEF AllAgree, Agree
<1>9. BlockAlone'
  BY <1>1, <1>6 DEF IInv, BlockAlone, TypeOK
<1>. QED BY <1>4, <1>5, <1>7, <1>8, <1>9 DEF IInv

\* A process that dies takes nothing with it that is not its own.
LEMMA StepCrash ==
    ASSUME IInv, NEW p \in Processes, Crash(p) PROVE IInv'
<1>1. /\ owner' = [owner EXCEPT ![p] = None] /\ depth' = [depth EXCEPT ![p] = 0]
      /\ faults' \in 0..MaxFaults
      /\ \A u \in Threads :
            /\ pc'[u] = IF Home[u] = p THEN "free" ELSE pc[u]
            /\ level'[u] = IF Home[u] = p THEN 0 ELSE level[u]
            /\ conn'[u] = IF Home[u] = p THEN NoConn ELSE conn[u]
            /\ wrote'[u] = IF Home[u] = p THEN Nothing ELSE wrote[u]
  BY GatewayAssumption DEF Crash, Faulty, IInv, TypeOK
<1>2. TypeOK'
  BY <1>1, GatewayAssumption DEF Crash, IInv, TypeOK, NoConn, Nothing, Modes
<1>3. \A l \in Levels : NoConn[l] = None /\ l \in Nat /\ l > 0
  BY GatewayAssumption DEF NoConn, Levels
<1>4. Stacked'
  <2>1. ASSUME NEW u \in Threads, NEW l \in Levels
        PROVE  conn'[u][l] # None <=> l <= level'[u]
    <3>1. conn[u][l] # None <=> l <= level[u]
      BY DEF IInv, Stacked
    <3>. QED BY <3>1, <1>1, <1>3
  <2>2. ASSUME NEW u \in Threads, pc'[u] # "free" PROVE level'[u] < MaxDepth
    BY <2>2, <1>1 DEF IInv, Stacked
  <2>. QED BY <2>1, <2>2 DEF Stacked
<1>5. \A u \in Threads : Holds(u)' = IF Home[u] = p THEN 0 ELSE Holds(u)
  BY <1>1 DEF Holds
<1>6. OwnLock'
  BY <1>1 DEF IInv, OwnLock, TypeOK
<1>7. LockMatchesBlocks'
  <2>1. ASSUME NEW u \in Threads, Holds(u)' > 0 PROVE owner'[Home[u]] = u
    BY <2>1, <1>1, <1>5, GatewayAssumption DEF IInv, LockMatchesBlocks, TypeOK
  <2>2. ASSUME NEW q \in Processes
        PROVE  (/\ depth[q] = IF owner[q] = None THEN 0 ELSE Holds(owner[q])
                /\ owner[q] # None => depth[q] > 0)'
    <3>1. CASE q = p
      BY <3>1, <1>1 DEF IInv, TypeOK
    <3>2. CASE q # p
      <4>1. owner'[q] = owner[q] /\ depth'[q] = depth[q]
        BY <3>2, <1>1 DEF IInv, TypeOK
      <4>2. CASE owner[q] = None
        BY <4>1, <4>2 DEF IInv, LockMatchesBlocks
      <4>3. CASE owner[q] # None
        <5>1. owner[q] \in Threads /\ Home[owner[q]] # p
          BY <3>2, <4>3 DEF IInv, OwnLock, TypeOK
        <5>2. Holds(owner[q])' = Holds(owner[q])
          BY <4>1, <5>1, <1>5 DEF Holds
        <5>. QED BY <4>1, <4>3, <5>2 DEF IInv, LockMatchesBlocks
      <4>. QED BY <4>2, <4>3
    <3>. QED BY <3>1, <3>2
  <2>. QED BY <2>1, <2>2 DEF LockMatchesBlocks
<1>8. AllAgree'
  <2>1. ASSUME NEW u \in Threads, NEW v \in Threads, NEW l \in Levels, NEW k \in Levels,
               conn'[u][l] # None, conn'[v][k] # None
        PROVE  Agree(u, conn'[u][l], v, conn'[v][k])
    BY <1>1, <1>3, <2>1 DEF IInv, AllAgree, Agree
  <2>. QED BY <2>1 DEF AllAgree, Agree
<1>9. BlockAlone'
  BY <1>1, <1>3 DEF IInv, BlockAlone
<1>. QED BY <1>2, <1>4, <1>6, <1>7, <1>8, <1>9 DEF IInv

\* Every step keeps the invariant, by cases on the action.
LEMMA StepOK == IInv /\ [Next]_vars => IInv'
<1>. SUFFICES ASSUME IInv, [Next]_vars PROVE IInv'
  OBVIOUS
<1>1. ASSUME NEW t \in Threads, NEW m \in Modes, Ask(t, m) PROVE IInv'
  BY <1>1, StepAsk
<1>2. ASSUME NEW t \in Threads, Acquire(t) PROVE IInv'
  BY <1>2, StepAcquire
<1>3. ASSUME NEW t \in Threads, Open(t) PROVE IInv'
  BY <1>3, StepOpen
<1>4. ASSUME NEW t \in Threads, Retry(t) PROVE IInv'
  BY <1>4, StepRetry
<1>5. ASSUME NEW t \in Threads, Refuse(t) PROVE IInv'
  BY <1>5, StepRefuse
<1>6. ASSUME NEW t \in Threads, Write(t) PROVE IInv'
  BY <1>6, StepWrite
<1>7. ASSUME NEW t \in Threads, Close(t) PROVE IInv'
  BY <1>7, StepClose
<1>8. ASSUME NEW p \in Processes, Crash(p) PROVE IInv'
  BY <1>8, StepCrash
<1>9. CASE UNCHANGED vars
  <2>1. TypeOK' /\ Stacked' /\ OwnLock' /\ AllAgree' /\ BlockAlone'
    BY <1>9 DEF IInv, TypeOK, Stacked, OwnLock, AllAgree, BlockAlone, Agree, vars, lock, opens
  <2>2. LockMatchesBlocks'
    BY <1>9 DEF IInv, LockMatchesBlocks, Holds, vars, lock, opens
  <2>. QED BY <2>1, <2>2 DEF IInv
<1>. QED BY <1>1, <1>2, <1>3, <1>4, <1>5, <1>6, <1>7, <1>8, <1>9 DEF Next

\* The inductive invariant holds in every reachable state.
LEMMA Invariant == Spec => []IInv
BY InitOK, StepOK, PTL DEF Spec

\* The types of the lock, the opens and the connections.
THEOREM TypeCorrect == Spec => []TypeOK
<1>1. IInv => TypeOK
  BY DEF IInv
<1>. QED BY <1>1, Invariant, PTL

\* The lock of a process is held as often as its owner is inside blocks, and never left
\* behind, for any nesting and any number of refused opens and crashes.
THEOREM LockFollowsBlocks == Spec => []LockMatchesBlocks
<1>1. IInv => LockMatchesBlocks
  BY DEF IInv
<1>. QED BY <1>1, Invariant, PTL

\* A block is alone with the file: the one step that the other modules take it for.
THEOREM BlocksAreAlone == Spec => []BlockAlone
<1>1. IInv => BlockAlone
  BY DEF IInv
<1>. QED BY <1>1, Invariant, PTL
===============================================================================
