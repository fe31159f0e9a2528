--------------------------- MODULE ConnectionPool ---------------------------
(***************************************************************************)
(* The connection pool of DatabaseManager (db_manager.py), shared by the   *)
(* threads of one process.  pool_lock protects the pool; the queries       *)
(* themselves run outside it.  A caller that finds the pool exhausted      *)
(* waits inside get_connection, with pool_lock in its hands.               *)
(*                                                                         *)
(* Boot is the thread that creates the singleton: _initialize_db takes a   *)
(* connection with "with", which commits and does not release it.          *)
(***************************************************************************)
EXTENDS Integers, FiniteSets

CONSTANTS
    Threads,    \* threads that run queries
    Boot,       \* the creation of the singleton
    PoolSize,   \* pool_size, 3 in the code
    Retries,    \* looks at the pool while waiting, 3 in the code
    Tries,      \* attempts of safe_execute, 2 in the code
    Free        \* nobody holds pool_lock

ASSUME PoolAssumption ==
    /\ PoolSize \in Nat \ {0} /\ Retries \in Nat /\ Tries \in Nat \ {0}
    /\ Boot \notin Threads
    /\ Free \notin Threads \cup {Boot}

Callers == Threads \cup {Boot}
Slots   == 1 .. PoolSize
Nothing == 0
Temporary == PoolSize + 1   \* a connection outside the pool

VARIABLES
    size,    \* len(self.pool): the wrappers created so far
    inUse,   \* the wrappers with in_use set
    conn,    \* the connection each caller works with
    lock,    \* who sleeps with pool_lock in its hands, or Free
    looks,   \* what is left of "for _ in range(3)" for each caller
    tries,   \* what is left of the tries of each call
    pc       \* where each caller is

vars == <<size, inUse, conn, lock, looks, tries, pc>>

Goto(t, step) == pc' = [pc EXCEPT ![t] = step]

Init ==
    /\ size = 0 /\ inUse = {}
    /\ conn = [t \in Callers |-> Nothing]
    /\ lock = Free
    /\ looks = [t \in Callers |-> 0]
    /\ tries = [t \in Callers |-> 0]
    /\ pc = [t \in Callers |-> IF t = Boot THEN "get" ELSE "idle"]

-----------------------------------------------------------------------------
(* get_connection                                                          *)

Idle == (1 .. size) \ inUse
First(S) == CHOOSE c \in S : \A d \in S : c <= d

\* Mutant: a wrapper that is taken is not marked.
TakeUnmarked(t, c) ==
    /\ inUse' = inUse
    /\ conn' = [conn EXCEPT ![t] = c]
    /\ Goto(t, "run")

Take(t, c) ==
    /\ inUse' = inUse \cup {c}
    /\ conn' = [conn EXCEPT ![t] = c]
    /\ Goto(t, "run")

\* The first idle wrapper, or a new one while the pool may grow.
GetPooled(t) ==
    /\ pc[t] = "get" /\ lock = Free
    /\ \/ Idle # {} /\ Take(t, First(Idle)) /\ size' = size
       \/ Idle = {} /\ size < PoolSize /\ Take(t, size + 1) /\ size' = size + 1
    /\ UNCHANGED <<lock, looks, tries>>

\* The pool is exhausted: the caller sleeps and keeps pool_lock.
StartWaiting(t) ==
    /\ pc[t] = "get" /\ lock = Free
    /\ Idle = {} /\ size = PoolSize
    /\ lock' = t
    /\ looks' = [looks EXCEPT ![t] = Retries]
    /\ Goto(t, "wait")
    /\ UNCHANGED <<size, inUse, conn, tries>>

\* Mutant: it waits until a connection comes back.
LookForever(t) ==
    /\ pc[t] = "wait" /\ looks[t] > 0
    /\ Idle # {} /\ Take(t, First(Idle)) /\ lock' = Free
    /\ UNCHANGED <<size, looks, tries>>

\* After each sleep it looks at the pool again.
LookAgain(t) ==
    /\ pc[t] = "wait" /\ looks[t] > 0
    /\ looks' = [looks EXCEPT ![t] = @ - 1]
    /\ IF Idle # {}
       THEN Take(t, First(Idle)) /\ lock' = Free
       ELSE UNCHANGED <<inUse, conn, lock, pc>>
    /\ UNCHANGED <<size, tries>>

\* Nothing came back: a temporary connection that does not enter the pool.
OpenTemporary(t) ==
    /\ pc[t] = "wait" /\ looks[t] = 0
    /\ conn' = [conn EXCEPT ![t] = Temporary]
    /\ lock' = Free
    /\ Goto(t, "run")
    /\ UNCHANGED <<size, inUse, looks, tries>>

-----------------------------------------------------------------------------
(* Calls: execute_query and fetch* try once, safe_execute several times.   *)

BootDone == pc[Boot] = "left"

Call(t) ==
    /\ BootDone /\ t \in Threads /\ pc[t] = "idle"
    /\ \E n \in {1, Tries} : tries' = [tries EXCEPT ![t] = n]
    /\ Goto(t, "get")
    /\ UNCHANGED <<size, inUse, conn, lock, looks>>

\* _initialize_db is over: the connection stays marked, and nobody has it.
LeaveBoot ==
    /\ pc[Boot] = "run"
    /\ Goto(Boot, "left")
    /\ UNCHANGED <<size, inUse, conn, lock, looks, tries>>

\* The statement succeeds, raises for good, or finds the database locked, in
\* which case one try fewer is left; "finally" releases in every case.
Run(t) ==
    /\ t \in Threads /\ pc[t] = "run"
    /\ \E left \in {0, tries[t] - 1} : tries' = [tries EXCEPT ![t] = left]
    /\ Goto(t, "release")
    /\ UNCHANGED <<size, inUse, conn, lock, looks>>

\* Mutant: a call that is tried again keeps the mark of its wrapper.
ReleaseAtEnd(t) ==
    /\ pc[t] = "release" /\ lock = Free
    /\ inUse' = IF tries[t] = 0 THEN inUse \ {conn[t]} ELSE inUse
    /\ conn' = [conn EXCEPT ![t] = Nothing]
    /\ Goto(t, IF tries[t] = 0 THEN "idle" ELSE "get")
    /\ UNCHANGED <<size, lock, looks, tries>>

\* Mutant: a temporary connection joins the wrappers.
ReleaseIntoPool(t) ==
    /\ pc[t] = "release" /\ lock = Free
    /\ inUse' = inUse \ {conn[t]}
    /\ size' = IF conn[t] = Temporary THEN size + 1 ELSE size
    /\ conn' = [conn EXCEPT ![t] = Nothing]
    /\ Goto(t, IF tries[t] = 0 THEN "idle" ELSE "get")
    /\ UNCHANGED <<lock, looks, tries>>

\* Mutant: a connection is given back without pool_lock.
ReleaseUnlocked(t) ==
    /\ pc[t] = "release"
    /\ inUse' = inUse \ {conn[t]}
    /\ conn' = [conn EXCEPT ![t] = Nothing]
    /\ Goto(t, IF tries[t] = 0 THEN "idle" ELSE "get")
    /\ UNCHANGED <<size, lock, looks, tries>>

\* release_connection: a pooled connection loses its mark, another is closed.
\* safe_execute then tries again or is done.
Release(t) ==
    /\ pc[t] = "release" /\ lock = Free
    /\ inUse' = inUse \ {conn[t]}
    /\ conn' = [conn EXCEPT ![t] = Nothing]
    /\ Goto(t, IF tries[t] = 0 THEN "idle" ELSE "get")
    /\ UNCHANGED <<size, lock, looks, tries>>

-----------------------------------------------------------------------------
Next ==
    \/ LeaveBoot
    \/ \E t \in Callers : GetPooled(t) \/ StartWaiting(t) \/ LookAgain(t) \/ OpenTemporary(t)
    \/ \E t \in Threads : Call(t) \/ Run(t) \/ Release(t)

Spec == Init /\ [][Next]_vars

\* Sleeps and statements end, and pool_lock, when it is free again and again,
\* is got at last; calls need not come.
Fairness ==
    /\ WF_vars(LeaveBoot)
    /\ \A t \in Callers :
          /\ SF_vars(GetPooled(t) \/ StartWaiting(t))
          /\ WF_vars(LookAgain(t) \/ OpenTemporary(t))
    /\ \A t \in Threads : WF_vars(Run(t)) /\ SF_vars(Release(t))

FairSpec == Spec /\ Fairness

-----------------------------------------------------------------------------
(* Properties.                                                             *)

Pooled(t) == conn[t] \in Slots

\* Every variable holds a value of its type.
TypeOK ==
    /\ size \in 0 .. PoolSize
    /\ inUse \subseteq 1 .. size
    /\ conn \in [Callers -> 0 .. PoolSize + 1]
    /\ lock \in Callers \cup {Free}
    /\ looks \in [Callers -> Nat]
    /\ tries \in [Callers -> Nat]
    /\ pc \in [Callers -> {"idle", "get", "wait", "run", "release", "left"}]

\* The marks are those of the connections lent out, no more and no fewer: no
\* error path, retry or temporary connection leaks a mark.  Boot counts as a
\* holder for ever, which is how the pool loses its first connection.
MarksAreLeases == inUse = {conn[t] : t \in {u \in Callers : Pooled(u)}}

\* Two callers never share a pooled connection, and one that is given back
\* was lent: the pool implements ConnectionLease.
L == INSTANCE ConnectionLease WITH
        Connections <- Slots,
        lent <- [t \in Callers |-> IF Pooled(t) THEN {conn[t]} ELSE {}]
LeaseSpec == L!Lease

\* Only PoolSize - 1 threads ever work with pooled connections at once: the
\* connection that _initialize_db takes never returns.
OneConnectionLost ==
    BootDone => /\ Cardinality({t \in Threads : Pooled(t)}) < PoolSize
                /\ Pooled(Boot)

\* Who has pool_lock between two steps is who waits for a connection, and it
\* waits in vain: nobody can give one back without the lock, so no look finds
\* one and the wait ends with a temporary connection (lines 100-112, 118).
WaitsInVain ==
    \A t \in Callers : /\ lock = t <=> pc[t] = "wait"
                       /\ pc[t] = "wait" => Idle = {} /\ size = PoolSize

\* A call returns, although the callers that wait keep pool_lock from those
\* that could release a connection.
CallsReturn == \A t \in Threads : pc[t] # "idle" ~> pc[t] = "idle"

=============================================================================
