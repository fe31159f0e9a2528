------------------------ MODULE ConnectionPool_proofs ------------------------
(***************************************************************************)
(* Proofs about ConnectionPool, for any number of threads, connections and *)
(* tries: the marks are the leases, and the pool implements                *)
(* ConnectionLease.                                                        *)
(***************************************************************************)
EXTENDS ConnectionPool, WellFoundedInduction, FiniteSetTheorems, TLAPS

\* No connection is lent twice.
Exclusive ==
    \A t, u \in Callers : t # u /\ Pooled(t) /\ Pooled(u) => conn[t] # conn[u]

\* A caller that looks for a connection has none.
LookingHasNone ==
    \A t \in Callers : pc[t] \in {"idle", "get", "wait"} => conn[t] = Nothing

\* A call that is not over has a try left.
TriesLeft ==
    \A t \in Threads : pc[t] \in {"get", "wait", "run"} => tries[t] > 0

PoolInv == TypeOK /\ MarksAreLeases /\ Exclusive /\ LookingHasNone /\ TriesLeft

LEMMA InitPool == Init => PoolInv
<1> SUFFICES ASSUME Init PROVE PoolInv
  OBVIOUS
<1>1. TypeOK
  BY PoolAssumption DEF Init, TypeOK, Nothing
<1>2. \A t \in Callers : conn[t] = Nothing
  BY DEF Init
<1>3. \A t \in Callers : ~Pooled(t)
  BY <1>2, PoolAssumption DEF Pooled, Nothing, Slots
<1>4. MarksAreLeases
  BY <1>3 DEF Init, MarksAreLeases
<1>5. TriesLeft
  BY PoolAssumption DEF Init, TriesLeft, Callers
<1> QED
  BY <1>1, <1>2, <1>3, <1>4, <1>5 DEF PoolInv, Exclusive, LookingHasNone

\* The first idle wrapper is idle.
LEMMA FirstIsIdle ==
    ASSUME TypeOK, Idle # {}
    PROVE  First(Idle) \in Idle
<1>1. Idle \subseteq Nat
  BY PoolAssumption DEF Idle, TypeOK
<1>2. PICK m \in Idle : \A k \in Idle : <<k, m>> \notin OpToRel(<, Nat)
  BY <1>1, WFMin, NatLessThanWellFounded, Zenon
<1>3. \A k \in Idle : ~(k < m)
  BY <1>1, <1>2, Zenon DEF OpToRel
<1>4. \A k \in Idle : m <= k
  BY <1>1, <1>3
<1> QED
  BY <1>4 DEF First

\* Taking a connection that is not marked keeps the invariant.
LEMMA TakeKeepsInv ==
    ASSUME PoolInv, NEW t \in Callers, NEW c \in Slots, c \notin inUse,
           pc[t] \in {"get", "wait"}, Take(t, c),
           size' \in 0 .. PoolSize, inUse \cup {c} \subseteq 1 .. size',
           lock' \in Callers \cup {Free}, looks' \in [Callers -> Nat], tries' = tries
    PROVE  PoolInv'
<1> USE DEF PoolInv
<1>1. TypeOK'
  <2>1. conn' \in [Callers -> 0 .. PoolSize + 1]
    BY PoolAssumption DEF TypeOK, Take, Slots
  <2>2. pc' \in [Callers -> {"idle", "get", "wait", "run", "release", "left"}]
    BY DEF TypeOK, Take, Goto
  <2> QED
    BY <2>1, <2>2 DEF TypeOK, Take
<1>2. conn' = [conn EXCEPT ![t] = c] /\ conn'[t] = c
      /\ \A u \in Callers \ {t} : conn'[u] = conn[u]
  BY DEF TypeOK, Take
<1>3. conn[t] = Nothing /\ ~Pooled(t)
  BY PoolAssumption DEF LookingHasNone, Pooled, Slots, Nothing
<1>4. \A u \in Callers : Pooled(u)' <=> (Pooled(u) \/ u = t)
  BY <1>2 DEF Pooled
<1>5. MarksAreLeases'
  <2>1. {conn'[u] : u \in {v \in Callers : Pooled(v)'}}
          = {conn[u] : u \in {v \in Callers : Pooled(v)}} \cup {c}
    BY <1>2, <1>3, <1>4
  <2> QED
    BY <2>1 DEF MarksAreLeases, Take, Pooled
<1>6. Exclusive'
  BY <1>2, <1>4 DEF Exclusive, MarksAreLeases, Pooled
<1>7. LookingHasNone'
  BY <1>2 DEF LookingHasNone, TypeOK, Take, Goto
<1>8. TriesLeft'
  BY DEF TriesLeft, TypeOK, Take, Goto, Callers
<1> QED
  BY <1>1, <1>5, <1>6, <1>7, <1>8

LEMMA ReleaseKeepsInv ==
    ASSUME PoolInv, NEW t \in Threads, Release(t)
    PROVE  PoolInv'
<1> USE DEF PoolInv
<1>0. t \in Callers
  BY DEF Callers
<1>1. TypeOK'
  <2>1. conn' \in [Callers -> 0 .. PoolSize + 1]
    BY <1>0, PoolAssumption DEF TypeOK, Release, Nothing
  <2>2. pc' \in [Callers -> {"idle", "get", "wait", "run", "release", "left"}]
    BY <1>0 DEF TypeOK, Release, Goto
  <2>3. inUse' \subseteq 1 .. size'
    BY DEF TypeOK, Release
  <2> QED
    BY <2>1, <2>2, <2>3 DEF TypeOK, Release
<1>2. conn'[t] = Nothing /\ \A u \in Callers \ {t} : conn'[u] = conn[u]
  BY <1>0 DEF TypeOK, Release
<1>3. \A u \in Callers : Pooled(u)' <=> (Pooled(u) /\ u # t)
  BY <1>2, PoolAssumption DEF Pooled, Nothing, Slots
<1>4. MarksAreLeases'
  <2>1. {conn'[u] : u \in {v \in Callers : Pooled(v)'}}
          = {conn[u] : u \in {v \in Callers : Pooled(v)}} \ {conn[t]}
    BY <1>0, <1>2, <1>3 DEF Exclusive, Pooled
  <2> QED
    BY <2>1 DEF MarksAreLeases, Release, Pooled
<1>5. Exclusive'
  BY <1>2, <1>3 DEF Exclusive, Pooled
<1>6. LookingHasNone'
  BY <1>0, <1>2 DEF LookingHasNone, TypeOK, Release, Goto
<1>7. TriesLeft'
  <2>1. \A u \in Threads \ {t} : pc'[u] = pc[u] /\ tries'[u] = tries[u]
    BY DEF Release, Goto, TypeOK, Callers
  <2>2. pc'[t] = "get" => tries'[t] # 0
    BY <1>0 DEF Release, Goto, TypeOK
  <2>3. pc'[t] \in {"idle", "get"} /\ tries'[t] \in Nat
    BY <1>0 DEF Release, Goto, TypeOK
  <2> QED
    BY <2>1, <2>2, <2>3 DEF TriesLeft
<1> QED
  BY <1>1, <1>4, <1>5, <1>6, <1>7

\* The steps that leave the pool and the connections alone.
LEMMA SameConnections ==
    ASSUME PoolInv, UNCHANGED <<size, inUse, conn>>,
           TypeOK', LookingHasNone', TriesLeft'
    PROVE  PoolInv'
BY DEF PoolInv, MarksAreLeases, Exclusive, Pooled

LEMMA StepPool == PoolInv /\ [Next]_vars => PoolInv'
<1> SUFFICES ASSUME PoolInv, [Next]_vars PROVE PoolInv'
  OBVIOUS
<1> USE DEF PoolInv
<1>1. CASE LeaveBoot
  <2>1. TypeOK' /\ LookingHasNone' /\ TriesLeft'
    BY <1>1, PoolAssumption DEF LeaveBoot, Goto, TriesLeft, TypeOK, LookingHasNone, Callers
  <2> QED
    BY <1>1, <2>1, SameConnections DEF LeaveBoot
<1>2. ASSUME NEW t \in Callers, GetPooled(t) PROVE PoolInv'
  <2>1. CASE Idle # {} /\ Take(t, First(Idle)) /\ size' = size
    <3>1. First(Idle) \in Slots /\ First(Idle) \notin inUse /\ First(Idle) \in 1 .. size
      BY <2>1, FirstIsIdle, PoolAssumption DEF Idle, TypeOK, Slots
    <3> QED
      BY <1>2, <2>1, <3>1, TakeKeepsInv DEF GetPooled, TypeOK
  <2>2. CASE Idle = {} /\ size < PoolSize /\ Take(t, size + 1) /\ size' = size + 1
    <3>1. size + 1 \in Slots /\ size + 1 \notin inUse /\ size' \in 0 .. PoolSize
          /\ inUse \cup {size + 1} \subseteq 1 .. size'
      BY <2>2, PoolAssumption DEF TypeOK, Slots
    <3> QED
      BY <1>2, <2>2, <3>1, TakeKeepsInv DEF GetPooled, TypeOK
  <2> QED
    BY <1>2, <2>1, <2>2 DEF GetPooled
<1>3. ASSUME NEW t \in Callers, StartWaiting(t) PROVE PoolInv'
  <2>1. TypeOK' /\ LookingHasNone' /\ TriesLeft'
    BY <1>3, PoolAssumption DEF StartWaiting, Goto, TriesLeft, TypeOK, LookingHasNone, Callers
  <2> QED
    BY <1>3, <2>1, SameConnections DEF StartWaiting
<1>4. ASSUME NEW t \in Callers, LookAgain(t) PROVE PoolInv'
  <2>1. looks' \in [Callers -> Nat]
    BY <1>4 DEF LookAgain, TypeOK
  <2>2. CASE Idle # {}
    <3>1. First(Idle) \in Slots /\ First(Idle) \notin inUse /\ First(Idle) \in 1 .. size
      BY <2>2, FirstIsIdle, PoolAssumption DEF Idle, TypeOK, Slots
    <3> QED
      BY <1>4, <2>1, <2>2, <3>1, TakeKeepsInv DEF LookAgain, TypeOK
  <2>3. CASE Idle = {}
    <3>1. TypeOK' /\ LookingHasNone' /\ TriesLeft'
      BY <1>4, <2>1, <2>3 DEF LookAgain, TypeOK, LookingHasNone, TriesLeft
    <3> QED
      BY <1>4, <2>3, <3>1, SameConnections DEF LookAgain
  <2> QED
    BY <2>2, <2>3
<1>5. ASSUME NEW t \in Callers, OpenTemporary(t) PROVE PoolInv'
  <2>1. TypeOK' /\ LookingHasNone' /\ TriesLeft'
    BY <1>5, PoolAssumption 
       DEF OpenTemporary, Goto, TriesLeft, TypeOK, LookingHasNone, Temporary, Callers
  <2>2. \A u \in Callers : /\ ~Pooled(t) /\ ~Pooled(t)'
                           /\ u # t => conn'[u] = conn[u]
    BY <1>5, PoolAssumption
       DEF OpenTemporary, TypeOK, LookingHasNone, Pooled, Slots, Nothing, Temporary
  <2>3. MarksAreLeases' /\ Exclusive'
    BY <1>5, <2>2 DEF OpenTemporary, MarksAreLeases, Exclusive, Pooled
  <2> QED
    BY <2>1, <2>3
<1>6. ASSUME NEW t \in Threads, Call(t) PROVE PoolInv'
  <2>1. TypeOK' /\ LookingHasNone' /\ TriesLeft'
    BY <1>6, PoolAssumption DEF Call, Goto, TriesLeft, TypeOK, LookingHasNone, Callers
  <2> QED
    BY <1>6, <2>1, SameConnections DEF Call
<1>7. ASSUME NEW t \in Threads, Run(t) PROVE PoolInv'
  <2>1. TypeOK' /\ LookingHasNone' /\ TriesLeft'
    BY <1>7, PoolAssumption DEF Run, Goto, TriesLeft, TypeOK, LookingHasNone, Callers
  <2> QED
    BY <1>7, <2>1, SameConnections DEF Run
<1>8. ASSUME NEW t \in Threads, Release(t) PROVE PoolInv'
  BY <1>8, ReleaseKeepsInv
<1>9. CASE UNCHANGED vars
  BY <1>9 DEF vars, TypeOK, MarksAreLeases, Exclusive, LookingHasNone, TriesLeft, Pooled
<1> QED
  BY <1>1, <1>2, <1>3, <1>4, <1>5, <1>6, <1>7, <1>8, <1>9 DEF Next

-----------------------------------------------------------------------------
\* Every variable of the pool keeps its type, however many threads call it.
THEOREM TypeCorrect == Spec => []TypeOK
<1> QED
  BY InitPool, StepPool, PTL DEF Spec, PoolInv

\* No path through get_connection, release_connection or safe_execute leaks or
\* loses a mark: in_use marks exactly the connections that callers have.
THEOREM MarksAreTheLeases == Spec => []MarksAreLeases
<1> QED
  BY InitPool, StepPool, PTL DEF Spec, PoolInv

-----------------------------------------------------------------------------
(* The pool implements ConnectionLease: a caller that takes a connection   *)
(* borrows it, one that releases a pooled one returns it, and every other  *)
(* step, those of temporary connections included, lends nothing.           *)

LentOf(t) == IF Pooled(t) THEN {conn[t]} ELSE {}
lentNow   == [t \in Callers |-> LentOf(t)]

LEMMA InitLease == Init => L!LeaseInit
<1> SUFFICES ASSUME Init PROVE L!LeaseInit
  OBVIOUS
<1>1. \A t \in Callers : ~Pooled(t)
  BY PoolAssumption DEF Init, Pooled, Nothing, Slots
<1> QED
  BY <1>1 DEF L!LeaseInit

\* A marked connection is lent, and the other way round.
LEMMA LentAreMarked == PoolInv => L!Lent = inUse
BY DEF PoolInv, MarksAreLeases, L!Lent, Pooled

LEMMA TakeLends ==
    ASSUME PoolInv, NEW t \in Callers, NEW c \in Slots, c \notin inUse,
           pc[t] \in {"get", "wait"}, Take(t, c)
    PROVE  L!Lend(t, c)
<1> USE DEF PoolInv
<1>1. conn'[t] = c /\ \A u \in Callers \ {t} : conn'[u] = conn[u]
  BY DEF TypeOK, Take
<1>2. ~Pooled(t)
  BY PoolAssumption DEF LookingHasNone, Pooled, Slots, Nothing
<1>3. lentNow[t] = {} /\ LentOf(t)' = {c}
  BY <1>1, <1>2 DEF lentNow, LentOf, Pooled
<1>4. \A u \in Callers \ {t} : LentOf(u)' = LentOf(u)
  BY <1>1 DEF LentOf, Pooled
<1>5. lentNow' = [lentNow EXCEPT ![t] = {c}]
  BY <1>3, <1>4 DEF lentNow
<1>6. c \notin L!Lent
  BY LentAreMarked
<1> QED
  BY <1>3, <1>5, <1>6 DEF L!Lend, lentNow, LentOf

\* Giving back a temporary connection returns nothing.
LEMMA ReleaseReturns ==
    ASSUME PoolInv, NEW t \in Threads, Release(t)
    PROVE  L!Return(t) \/ lentNow' = lentNow
<1> USE DEF PoolInv
<1>0. t \in Callers
  BY DEF Callers
<1>1. conn'[t] = Nothing /\ \A u \in Callers \ {t} : conn'[u] = conn[u]
  BY <1>0 DEF TypeOK, Release
<1>2. LentOf(t)' = {}
  BY <1>1, PoolAssumption DEF LentOf, Pooled, Slots, Nothing
<1>3. \A u \in Callers \ {t} : LentOf(u)' = LentOf(u)
  BY <1>1 DEF LentOf, Pooled
<1>4. lentNow' = [lentNow EXCEPT ![t] = {}]
  BY <1>2, <1>3 DEF lentNow
<1>5. CASE Pooled(t)
  BY <1>0, <1>4, <1>5 DEF L!Return, lentNow, LentOf
<1>6. CASE ~Pooled(t)
  BY <1>0, <1>4, <1>6 DEF lentNow, LentOf
<1> QED
  BY <1>5, <1>6

LEMMA StepLease == PoolInv /\ [Next]_vars => L!LeaseNext \/ lentNow' = lentNow
<1> SUFFICES ASSUME PoolInv, [Next]_vars
             PROVE  L!LeaseNext \/ lentNow' = lentNow
  OBVIOUS
<1> USE DEF PoolInv
<1>1. ASSUME UNCHANGED conn PROVE lentNow' = lentNow
  BY <1>1 DEF lentNow, LentOf, Pooled
<1>2. ASSUME NEW t \in Callers, NEW c \in Slots, c \notin inUse,
             pc[t] \in {"get", "wait"}, Take(t, c)
      PROVE  L!LeaseNext
  BY <1>2, TakeLends DEF L!LeaseNext
<1>3. Idle # {} => First(Idle) \in Slots /\ First(Idle) \notin inUse
  BY FirstIsIdle, PoolAssumption DEF Idle, TypeOK, Slots
<1>4. size < PoolSize => size + 1 \in Slots /\ size + 1 \notin inUse
  BY PoolAssumption DEF TypeOK, Slots
<1>5. ASSUME NEW t \in Callers, GetPooled(t) PROVE L!LeaseNext
  BY <1>2, <1>3, <1>4, <1>5 DEF GetPooled
<1>6. ASSUME NEW t \in Callers, LookAgain(t) PROVE L!LeaseNext \/ lentNow' = lentNow
  <2>1. CASE Idle # {}
    BY <1>2, <1>3, <1>6, <2>1 DEF LookAgain
  <2>2. CASE Idle = {}
    BY <1>1, <1>6, <2>2 DEF LookAgain
  <2> QED
    BY <2>1, <2>2
<1>7. ASSUME NEW t \in Callers, OpenTemporary(t) PROVE lentNow' = lentNow
  <2>1. conn'[t] = Temporary /\ \A u \in Callers \ {t} : conn'[u] = conn[u]
    BY <1>7 DEF OpenTemporary, TypeOK
  <2>2. ~Pooled(t) /\ ~Pooled(t)'
    BY <1>7, <2>1, PoolAssumption
       DEF OpenTemporary, LookingHasNone, Pooled, Slots, Nothing, Temporary
  <2>3. \A u \in Callers : LentOf(u)' = LentOf(u)
    BY <2>1, <2>2 DEF LentOf, Pooled
  <2> QED
    BY <2>3 DEF lentNow
<1>8. ASSUME NEW t \in Threads, Release(t) PROVE L!LeaseNext \/ lentNow' = lentNow
  BY <1>8, ReleaseReturns DEF L!LeaseNext, Callers
<1>9. LeaveBoot \/ (\E t \in Threads : Call(t) \/ Run(t))
        \/ (\E t \in Callers : StartWaiting(t)) \/ UNCHANGED vars
      => UNCHANGED conn
  BY DEF LeaveBoot, Call, Run, StartWaiting, vars
<1> QED
  BY <1>1, <1>5, <1>6, <1>7, <1>8, <1>9 DEF Next

\* Two callers never share a pooled connection, and a connection comes back
\* only from the caller that had it: get_connection and release_connection,
\* with pool_lock around each, implement a lease.
THEOREM PoolIsLease == Spec => LeaseSpec
<1>1. PoolInv /\ [Next]_vars => [L!LeaseNext]_lentNow
  BY StepLease
<1>2. lentNow = [t \in Callers |-> IF Pooled(t) THEN {conn[t]} ELSE {}]
  BY DEF lentNow, LentOf
<1> QED
  BY <1>1, InitPool, StepPool, InitLease, PTL
     DEF Spec, LeaseSpec, L!Lease, lentNow, LentOf

-----------------------------------------------------------------------------
(* The first connection is lost.                                           *)

\* Boot comes first, finds the pool empty, and keeps what it takes.
BootFirst ==
    /\ pc[Boot] \in {"get", "run", "left"}
    /\ pc[Boot] = "get" => size = 0
    /\ pc[Boot] # "left" => \A t \in Threads : pc[t] = "idle"
    /\ pc[Boot] # "get" => Pooled(Boot)

LEMMA BootStep == PoolInv /\ BootFirst /\ [Next]_vars => BootFirst'
<1> SUFFICES ASSUME PoolInv, BootFirst, [Next]_vars PROVE BootFirst'
  OBVIOUS
<1> USE PoolAssumption DEF BootFirst, Pooled, Goto, Callers
<1>0. TypeOK /\ Boot \in Callers /\ size \in 0 .. PoolSize
  BY DEF PoolInv, TypeOK
<1>1. CASE LeaveBoot
  BY <1>0, <1>1 DEF LeaveBoot, TypeOK
<1>2. ASSUME NEW t \in Callers, GetPooled(t) PROVE BootFirst'
  <2>1. CASE t = Boot
    <3>1. size = 0 /\ Idle = {}
      BY <1>2, <2>1 DEF GetPooled, Idle
    <3>2. Take(Boot, 1)
      BY <1>2, <2>1, <3>1 DEF GetPooled
    <3>3. pc'[Boot] = "run" /\ conn'[Boot] = 1
      BY <1>0, <3>2 DEF Take, TypeOK
    <3>4. \A u \in Threads : pc'[u] = pc[u]
      BY <1>0, <3>2 DEF Take, TypeOK
    <3> QED BY <1>2, <2>1, <3>3, <3>4 DEF Slots, GetPooled
  <2>2. CASE t # Boot
    <3>1. pc[Boot] = "left"
      BY <1>2, <2>2 DEF GetPooled
    <3>2. pc'[Boot] = "left" /\ conn'[Boot] = conn[Boot]
      BY <1>0, <1>2, <2>2, <3>1 DEF GetPooled, Take, TypeOK
    <3> QED BY <3>1, <3>2
  <2> QED BY <2>1, <2>2
<1>3. ASSUME NEW t \in Callers, StartWaiting(t) \/ LookAgain(t) \/ OpenTemporary(t) PROVE BootFirst'
  <2>1. t # Boot
    BY <1>0, <1>3 DEF StartWaiting, LookAgain, OpenTemporary
  <2>2. pc[Boot] = "left"
    BY <1>3, <2>1 DEF StartWaiting, LookAgain, OpenTemporary
  <2>3. pc'[Boot] = "left" /\ conn'[Boot] = conn[Boot]
    BY <1>0, <1>3, <2>1, <2>2 DEF StartWaiting, LookAgain, OpenTemporary, Take, TypeOK
  <2> QED BY <2>2, <2>3
<1>4. ASSUME NEW t \in Threads, Call(t) \/ Run(t) \/ Release(t) PROVE BootFirst'
  <2>1. pc[Boot] = "left" /\ t # Boot
    BY <1>4 DEF Call, Run, Release, BootDone
  <2>2. pc'[Boot] = "left" /\ conn'[Boot] = conn[Boot]
    BY <1>0, <1>4, <2>1 DEF Call, Run, Release, TypeOK
  <2> QED BY <2>1, <2>2
<1>5. CASE UNCHANGED vars
  BY <1>5 DEF vars
<1> QED BY <1>1, <1>2, <1>3, <1>4, <1>5 DEF Next

\* As many threads work with pooled connections as there are wrappers but
\* Boot's: the mapping from threads to connections is injective.
LEMMA OneIsLost == PoolInv /\ BootFirst => OneConnectionLost
<1> SUFFICES ASSUME PoolInv, BootFirst, BootDone
      PROVE Cardinality({t \in Threads : Pooled(t)}) < PoolSize /\ Pooled(Boot)
  BY DEF OneConnectionLost
<1>1. Pooled(Boot)
  BY DEF BootFirst, BootDone
<1> DEFINE S == {t \in Threads : Pooled(t)}
           T == Slots \ {conn[Boot]}
           f == [t \in S |-> conn[t]]
<1>2. IsFiniteSet(T) /\ Cardinality(T) = PoolSize - 1
  <2>1. IsFiniteSet(Slots) /\ Cardinality(Slots) = PoolSize
    BY PoolAssumption, FS_Interval DEF Slots
  <2>2. conn[Boot] \in Slots
    BY <1>1 DEF Pooled
  <2> QED BY <2>1, <2>2, FS_RemoveElement
<1>3. f \in Injection(S, T)
  <2>1. \A t \in S : conn[t] \in T
    BY <1>1, PoolAssumption DEF PoolInv, Exclusive, Pooled, Callers
  <2>2. \A t, u \in S : conn[t] = conn[u] => t = u
    BY DEF PoolInv, Exclusive, Callers
  <2> QED BY <2>1, <2>2 DEF Injection, IsInjective
<1> HIDE DEF S, T, f
<1>4. IsFiniteSet(S) /\ Cardinality(S) <= Cardinality(T)
  BY <1>2, <1>3, FS_Injection
<1>5. Cardinality(S) \in Nat
  BY <1>4, FS_CardinalityType
<1> QED BY <1>1, <1>2, <1>4, <1>5, PoolAssumption DEF S

\* The connection that _initialize_db takes never comes back: callers share the
\* others, whatever the size of the pool (db_manager.py:34).
THEOREM AConnectionIsLost == Spec => []OneConnectionLost
<1>1. Init => BootFirst
  BY PoolAssumption DEF Init, BootFirst, Callers
<1> QED BY <1>1, InitPool, StepPool, BootStep, OneIsLost, PTL DEF Spec

-----------------------------------------------------------------------------
(***************************************************************************)
(* Waiting.  The lock passes to a caller when it finds the pool exhausted  *)
(* and back when it has a connection; every step that could make one idle  *)
(* in between needs the lock.                                              *)
(***************************************************************************)

LEMMA WaitStep == PoolInv /\ WaitsInVain /\ [Next]_vars => WaitsInVain'
<1> SUFFICES ASSUME PoolInv, WaitsInVain, [Next]_vars PROVE WaitsInVain'
  OBVIOUS
<1>0. TypeOK /\ \A u \in Callers : u # Free
  BY PoolAssumption DEF PoolInv, Callers
<1>1. ASSUME NEW t \in Callers, Goto(t, "run"), pc[t] = "get" \/ pc[t] = "wait",
             lock' = Free, lock = Free \/ lock = t
      PROVE  WaitsInVain'
  <2>1. \A u \in Callers : pc'[u] = IF u = t THEN "run" ELSE pc[u]
    BY <1>0, <1>1 DEF TypeOK, Goto
  <2> QED BY <1>0, <1>1, <2>1 DEF WaitsInVain
<1>2. ASSUME NEW t \in Callers, GetPooled(t) PROVE WaitsInVain'
  BY <1>1, <1>2 DEF GetPooled, Take
<1>3. ASSUME NEW t \in Callers, StartWaiting(t) PROVE WaitsInVain'
  <2>1. \A u \in Callers : pc'[u] = IF u = t THEN "wait" ELSE pc[u]
    BY <1>0, <1>3 DEF TypeOK, Goto, StartWaiting
  <2>2. lock = Free /\ lock' = t /\ Idle' = {} /\ size' = PoolSize
    BY <1>3 DEF StartWaiting, Idle
  <2> QED BY <1>0, <2>1, <2>2 DEF WaitsInVain
<1>4. ASSUME NEW t \in Callers, LookAgain(t) PROVE WaitsInVain'
  <2>1. Idle = {}
    BY <1>4 DEF LookAgain, WaitsInVain
  <2> QED BY <1>4, <2>1 DEF LookAgain, WaitsInVain, Idle
<1>5. ASSUME NEW t \in Callers, OpenTemporary(t) PROVE WaitsInVain'
  BY <1>1, <1>5 DEF OpenTemporary, WaitsInVain
<1>6. ASSUME NEW t \in Callers, NEW step \in {"idle", "get", "release", "left"}, Goto(t, step),
             pc[t] # "wait", UNCHANGED lock, lock = Free \/ UNCHANGED <<inUse, size>>
      PROVE  WaitsInVain'
  <2>1. \A u \in Callers : pc'[u] = IF u = t THEN step ELSE pc[u]
    BY <1>0, <1>6 DEF TypeOK, Goto
  <2> QED BY <1>0, <1>6, <2>1 DEF WaitsInVain, Idle
<1>7. CASE LeaveBoot
  BY <1>6, <1>7 DEF LeaveBoot, Callers
<1>8. ASSUME NEW t \in Threads, Call(t) \/ Run(t) \/ Release(t) PROVE WaitsInVain'
  <2>1. t \in Callers
    BY DEF Callers
  <2>2. CASE Call(t)
    BY <1>6, <2>1, <2>2 DEF Call
  <2>3. CASE Run(t)
    BY <1>6, <2>1, <2>3 DEF Run
  <2>4. CASE Release(t)
    BY <1>6, <2>1, <2>4 DEF Release
  <2> QED BY <1>8, <2>2, <2>3, <2>4
<1>9. CASE UNCHANGED vars
  BY <1>9 DEF vars, WaitsInVain, Idle
<1> QED BY <1>2, <1>3, <1>4, <1>5, <1>7, <1>8, <1>9 DEF Next

\* pool_lock is with the caller that waits, and no connection comes back while
\* it does: every wait is in vain (db_manager.py:100-112).
THEOREM WaitingIsInVain == Spec => []WaitsInVain
<1>1. Init => WaitsInVain
  BY PoolAssumption DEF Init, WaitsInVain, Callers
<1> QED BY <1>1, InitPool, StepPool, WaitStep, PTL DEF Spec

\* Who waits has found a thread at work with each connection but Boot's.
LEMMA AllAreLent ==
    ASSUME PoolInv, BootFirst, WaitsInVain, NEW t \in Callers, pc[t] = "wait"
    PROVE  /\ t \in Threads /\ ~Pooled(t)
           /\ \A c \in Slots \ {conn[Boot]} : \E u \in Threads : conn[u] = c
<1>1. t \in Threads /\ ~Pooled(t)
  BY PoolAssumption DEF BootFirst, Callers, PoolInv, LookingHasNone, Pooled, Slots, Nothing
<1>2. Slots \subseteq inUse
  BY PoolAssumption DEF WaitsInVain, Idle, Slots
<1>3. \A c \in Slots : \E u \in Callers : conn[u] = c
  BY <1>2 DEF PoolInv, MarksAreLeases
<1> QED BY <1>1, <1>3 DEF Callers

\* With fewer threads than connections nobody waits or opens a temporary one:
\* threads that do not look for a connection would have to be as many as the
\* connections but one, and the one that waits comes on top.
Sufficient == \A t \in Callers : pc[t] # "wait" /\ conn[t] # Temporary
Few == IsFiniteSet(Threads) /\ Cardinality(Threads) < PoolSize

LEMMA NobodyWaits == ASSUME PoolInv, BootFirst, WaitsInVain, Few, NEW t \in Callers
    PROVE pc[t] # "wait"
<1> SUFFICES ASSUME pc[t] = "wait" PROVE FALSE
  OBVIOUS
<1> DEFINE S == Threads \ {t}
           T == Slots \ {conn[Boot]}
           f == [c \in T |-> CHOOSE u \in Threads : conn[u] = c]
<1>1. t \in Threads /\ ~Pooled(t) /\ \A c \in T : \E u \in Threads : conn[u] = c
  BY AllAreLent
<1>2. IsFiniteSet(S) /\ Cardinality(S) = Cardinality(Threads) - 1
  BY <1>1, FS_RemoveElement DEF Few
<1>3. IsFiniteSet(T) /\ Cardinality(T) = PoolSize - 1
  <2>1. IsFiniteSet(Slots) /\ Cardinality(Slots) = PoolSize
    BY PoolAssumption, FS_Interval DEF Slots
  <2>2. pc[Boot] = "left"
    BY <1>1 DEF BootFirst
  <2>3. conn[Boot] \in Slots
    BY <2>2 DEF BootFirst, Pooled
  <2> QED BY <2>1, <2>3, FS_RemoveElement
<1>4. \A c \in T : f[c] \in Threads /\ conn[f[c]] = c
  BY <1>1
<1>5. \A c \in T : f[c] # t
  BY <1>1, <1>4 DEF Pooled
<1>6. f \in Injection(T, S)
  <2>1. f \in [T -> S]
    BY <1>4, <1>5
  <2>2. \A c, d \in T : f[c] = f[d] => c = d
    BY <1>4
  <2> QED BY <2>1, <2>2 DEF Injection, IsInjective
<1> HIDE DEF S, T, f
<1>7. Cardinality(T) <= Cardinality(S)
  BY <1>2, <1>6, FS_Injection
<1>8. Cardinality(Threads) \in Nat
  BY FS_CardinalityType DEF Few
<1> QED BY <1>2, <1>3, <1>7, <1>8, PoolAssumption DEF Few

NoTemporary == \A t \in Callers : conn[t] # Temporary

LEMMA NoTemporaryStep ==
    ASSUME PoolInv, BootFirst, WaitsInVain, Few, NoTemporary, [Next]_vars
    PROVE  NoTemporary'
<1>0. TypeOK /\ Threads \subseteq Callers
  BY DEF PoolInv, Callers
<1>1. ASSUME NEW t \in Callers, NEW c, c # Temporary, conn' = [conn EXCEPT ![t] = c]
      PROVE  NoTemporary'
  BY <1>0, <1>1 DEF NoTemporary, TypeOK
<1>2. ASSUME UNCHANGED conn PROVE NoTemporary'
  BY <1>2 DEF NoTemporary
<1>3. Idle # {} => First(Idle) # Temporary
  BY <1>0, FirstIsIdle, PoolAssumption DEF Idle, Temporary, TypeOK
<1>4. size < PoolSize => size + 1 # Temporary
  BY <1>0, PoolAssumption DEF Temporary, TypeOK
<1>5. ASSUME NEW t \in Callers, GetPooled(t) \/ LookAgain(t) PROVE NoTemporary'
  BY <1>1, <1>2, <1>3, <1>4, <1>5 DEF GetPooled, LookAgain, Take
<1>6. ASSUME NEW t \in Callers PROVE ~OpenTemporary(t)
  BY NobodyWaits DEF OpenTemporary
<1>7. ASSUME NEW t \in Threads, Release(t) PROVE NoTemporary'
  <2>1. t \in Callers /\ Nothing # Temporary
    BY <1>0, PoolAssumption DEF Nothing, Temporary
  <2>2. conn' = [conn EXCEPT ![t] = Nothing]
    BY <1>7 DEF Release
  <2> QED BY <1>1, <2>1, <2>2
<1>8. LeaveBoot \/ (\E t \in Threads : Call(t) \/ Run(t))
        \/ (\E t \in Callers : StartWaiting(t)) \/ UNCHANGED vars
      => UNCHANGED conn
  BY DEF LeaveBoot, Call, Run, StartWaiting, vars
<1> QED BY <1>2, <1>5, <1>6, <1>7, <1>8 DEF Next

\* A process with fewer threads than pooled connections never waits inside
\* get_connection and never opens a connection outside the pool; since one is
\* lost, as many threads as connections are already too many (db_manager.py:34).
THEOREM FewNeverWait == ASSUME Few PROVE Spec => []Sufficient
<1>1. Init => BootFirst /\ WaitsInVain /\ NoTemporary
  BY PoolAssumption DEF Init, BootFirst, WaitsInVain, NoTemporary, Callers, Nothing, Temporary
<1>2. PoolInv /\ BootFirst /\ WaitsInVain /\ NoTemporary => Sufficient
  BY NobodyWaits DEF Sufficient, NoTemporary
<1>3. PoolInv /\ BootFirst /\ WaitsInVain /\ NoTemporary /\ [Next]_vars => NoTemporary'
  BY NoTemporaryStep
<1> QED
  BY <1>1, <1>2, <1>3, InitPool, StepPool, BootStep, WaitStep, PTL DEF Spec
=============================================================================
