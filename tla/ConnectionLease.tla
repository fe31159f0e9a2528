-------------------------- MODULE ConnectionLease --------------------------
(***************************************************************************)
(* What the pool of DatabaseManager promises its callers: a pooled         *)
(* connection is lent to one caller at a time, and comes back from the     *)
(* caller it was lent to.  How a connection is found, how long a caller    *)
(* waits, and the temporary connections outside the pool are left open.    *)
(***************************************************************************)
EXTENDS Integers

CONSTANTS Callers, Connections

VARIABLE lent   \* the connections each caller has

Lent == UNION {lent[t] : t \in Callers}

LeaseInit == lent = [t \in Callers |-> {}]

Lend(t, c) ==
    /\ lent[t] = {} /\ c \notin Lent
    /\ lent' = [lent EXCEPT ![t] = {c}]

Return(t) ==
    /\ lent[t] # {}
    /\ lent' = [lent EXCEPT ![t] = {}]

LeaseNext ==
    \/ \E t \in Callers, c \in Connections : Lend(t, c)
    \/ \E t \in Callers : Return(t)

Lease == LeaseInit /\ [][LeaseNext]_lent

=============================================================================
