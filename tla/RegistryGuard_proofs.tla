------------------------ MODULE RegistryGuard_proofs ------------------------
(***************************************************************************)
(* Proofs about RegistryGuard, for any set of users and any bounds: types, *)
(* NothingMissed, NobodyForgotten, and how alone a monitor can be lost.    *)
(***************************************************************************)
EXTENDS RegistryGuard, TLAPS

Steps == {"none", "opening", "arm", "wait", "check", "fix", "fix2", "server", "again", "ended"}

-----------------------------------------------------------------------------
(* Types                                                                   *)

LEMMA TriesTypes == \A v \in Settings, p \in Ports \cup {NoPort} :
    /\ Mismatches(v, p) \in 0 .. 2
    /\ Tries(Mismatches(v, p)) \in {"again", "fix", "fix2"}
    /\ Tries(Mismatches(v, p)) = "again" => v = [on |-> TRUE, to |-> p]
<1> TAKE v \in Settings, p \in Ports \cup {NoPort}
<1>1. v = [on |-> v.on, to |-> v.to]
  BY DEF Settings
<1>2. CASE v.on /\ v.to = p
  <2>1. Mismatches(v, p) = 0
    BY <1>2 DEF Mismatches
  <2>2. v.on = TRUE
    BY <1>2 DEF Settings
  <2> QED BY <1>1, <1>2, <2>1, <2>2 DEF Tries
<1>3. CASE ~v.on /\ v.to # p
  <2>1. Mismatches(v, p) = 2
    BY <1>3 DEF Mismatches
  <2> QED BY <2>1 DEF Tries
<1>4. CASE ~(v.on <=> v.to = p)
  <2>1. Mismatches(v, p) = 1
    BY <1>4 DEF Mismatches
  <2> QED BY <2>1 DEF Tries
<1> QED BY <1>2, <1>3, <1>4

\* A write of proper values keeps the types of what it touches.
LEMMA WrittenTypes == ASSUME TypeOK, NEW s \in Users, NEW v \in Settings, Written(s, v)
    PROVE values' \in [Users -> Settings] /\ changed' \subseteq Users /\ unseen' \subseteq Users
BY DEF TypeOK, Written

\* The values a guard or a scanner writes are proper.
LEMMA ValuesTypes == ASSUME TypeOK, NEW s \in Users
    PROVE /\ [on |-> TRUE, to |-> port] \in Settings
          /\ [values[s] EXCEPT !.on = TRUE] \in Settings
          /\ [values[s] EXCEPT !.to = seen[s].to] \in Settings
          /\ Tampered(values[s]) \subseteq Settings
BY GuardAssumption DEF TypeOK, Settings, Ports, Tampered

LEMMA ScannerTypes == TypeOK /\ Scanner => TypeOK'
<1> SUFFICES ASSUME TypeOK, Scanner PROVE TypeOK'
  OBVIOUS
<1> USE GuardAssumption
<1>1. CASE ScanBegins \/ ScanLists \/ ScanCompares
  BY <1>1 DEF TypeOK, ScanBegins, ScanLists, ScanCompares, Listings, CurrentUsers, sys, mon, stp
<1>2. CASE AddStart
  BY <1>2 DEF TypeOK, AddStart, Goto, sys, stp
<1>3. CASE AddRegister
  BY <1>3 DEF TypeOK, AddRegister, sys, mon, stp
<1>4. CASE RemoveEnds
  BY <1>4 DEF TypeOK, RemoveEnds, sys, mon, stp
<1>5. CASE ScanDone
  BY <1>5 DEF TypeOK, ScanDone, sys, mon, stp
<1>6. CASE ScannerEnds
  BY <1>6 DEF TypeOK, ScannerEnds, sys, mon, stp
<1>7. ASSUME NEW s \in Users, AddSet(s) PROVE TypeOK'
  <2>1. values' \in [Users -> Settings] /\ changed' \subseteq Users /\ unseen' \subseteq Users
    BY <1>7, WrittenTypes, ValuesTypes DEF AddSet, TypeOK
  <2> QED BY <1>7, <2>1 DEF TypeOK, AddSet, sys, stp
<1>8. ASSUME NEW s \in Users, RemoveBegins(s) PROVE TypeOK'
  BY <1>8 DEF TypeOK, RemoveBegins, sys, mon, stp
<1>9. ASSUME NEW s \in Users, RemoveSkips(s) PROVE TypeOK'
  BY <1>9 DEF TypeOK, RemoveSkips, sys, mon, stp
<1> QED BY <1>1, <1>2, <1>3, <1>4, <1>5, <1>6, <1>7, <1>8, <1>9 DEF Scanner

LEMMA MonitorTypes == ASSUME TypeOK, NEW s \in Users, Monitor(s) PROVE TypeOK'
<1> USE GuardAssumption DEF TypeOK, sys, mon, scnr, stp, Goto
<1>1. CASE Open(s)
  BY <1>1 DEF Open
<1>2. CASE Arm(s)
  BY <1>2 DEF Arm
<1>3. CASE Look(s)
  BY <1>3 DEF Look
<1>4. CASE Check(s)
  <2>1. watch' \in [Users -> Steps] /\ failures' \in 0 .. MaxFailures
    BY <1>4, TriesTypes DEF Check, Steps, NoPort
  <2> QED BY <1>4, <2>1 DEF Check, Steps
<1>5. CASE FixEnable(s)
  <2>1. values' \in [Users -> Settings] /\ changed' \subseteq Users /\ unseen' \subseteq Users
    BY <1>5, WrittenTypes, ValuesTypes DEF FixEnable
  <2>2. seen' \in [Users -> Settings]
    BY <1>5, ValuesTypes DEF FixEnable
  <2> QED BY <1>5, <2>1, <2>2 DEF FixEnable
<1>6. CASE FixServer(s)
  <2>1. values' \in [Users -> Settings] /\ changed' \subseteq Users /\ unseen' \subseteq Users
    BY <1>6, WrittenTypes, ValuesTypes DEF FixServer
  <2> QED BY <1>6, <2>1 DEF FixServer
<1>7. CASE FixFails(s)
  BY <1>7 DEF FixFails
<1>8. CASE StopSeen(s)
  BY <1>8 DEF StopSeen
<1> QED BY <1>1, <1>2, <1>3, <1>4, <1>5, <1>6, <1>7, <1>8 DEF Monitor

LEMMA StopTypes == TypeOK /\ Stop => TypeOK'
BY GuardAssumption DEF TypeOK, Stop, StopJoined, StopClears, StopOne, StopOneEnds, sys, mon, scnr, stp

LEMMA WorldTypes == TypeOK /\ World => TypeOK'
<1> SUFFICES ASSUME TypeOK, World PROVE TypeOK'
  OBVIOUS
<1> USE GuardAssumption DEF TypeOK, sys, mon, scnr, stp
<1>1. ASSUME NEW s \in Users, Logon(s) PROVE TypeOK'
  BY <1>1 DEF Logon
<1>2. ASSUME NEW s \in Users, Logoff(s) PROVE TypeOK'
  BY <1>2 DEF Logoff
<1>3. ASSUME NEW s \in Users, AccountRemoved(s) PROVE TypeOK'
  BY <1>3 DEF AccountRemoved
<1>4. ASSUME NEW s \in Users, NEW v \in Tampered(values[s]), Tamper(s, v) PROVE TypeOK'
  <2>1. values' \in [Users -> Settings] /\ changed' \subseteq Users /\ unseen' \subseteq Users
    BY <1>4, WrittenTypes, ValuesTypes DEF Tamper
  <2> QED BY <1>4, <2>1 DEF Tamper
<1>5. CASE PortMoves
  BY <1>5 DEF PortMoves, Ports, Settings
<1>6. CASE StopBegins
  BY <1>6 DEF StopBegins
<1> QED BY <1>1, <1>2, <1>3, <1>4, <1>5, <1>6 DEF World

LEMMA TypeInit == Init => TypeOK
BY GuardAssumption DEF Init, TypeOK, Settings, Ports

LEMMA TypeStep == TypeOK /\ [Next]_vars => TypeOK'
<1> SUFFICES ASSUME TypeOK, [Next]_vars PROVE TypeOK'
  OBVIOUS
<1>1. CASE UNCHANGED vars
  BY <1>1 DEF TypeOK, vars, sys, mon, scnr, stp
<1> QED BY <1>1, ScannerTypes, MonitorTypes, StopTypes, WorldTypes DEF Next

\* Every variable keeps its type, whatever the users, the listings and the
\* failures are.
THEOREM TypeCorrect == Spec => []TypeOK
BY TypeInit, TypeStep, PTL DEF Spec

-----------------------------------------------------------------------------
(* No change is lost: while its user is recorded, a change is pending, the *)
(* values are right, or the monitor is on its way to a correction.         *)

Early(s) == watch[s] \in {"none", "opening", "arm"} => s \in unseen
OnItsWay(s) ==
    \/ watch[s] = "check" /\ seen[s] = values[s]
    \/ watch[s] \in {"fix", "fix2", "server"}
Covered(s) == s \in Recording \ unseen => s \in changed \/ Right(s) \/ OnItsWay(s)
Heard == \A s \in Users : Early(s) /\ Covered(s)

\* A write by anybody leaves a pending change, or a user no monitor hears of.
LEMMA WrittenHeard == ASSUME TypeOK, Heard, NEW s \in Users, NEW v, Written(s, v),
                             NEW u \in Users, watch'[u] = watch[u], seen'[u] = seen[u],
                             u \in dead' <=> u \in dead, port' = port
    PROVE Early(u)' /\ Covered(u)'
<1>1. CASE u = s
  BY <1>1 DEF TypeOK, Heard, Written, Early, Covered, Recording
<1>2. CASE u # s
  <2>1. values'[u] = values[u] /\ (u \in changed' <=> u \in changed) /\ (u \in unseen' <=> u \in unseen)
    BY <1>2 DEF Written, TypeOK
  <2> QED BY <2>1 DEF Heard, Early, Covered, Recording, Right, OnItsWay
<1> QED BY <1>1, <1>2

\* A user none of whose state a step touches stays covered.
LEMMA KeptHeard == ASSUME Heard, NEW u \in Users, watch'[u] = watch[u], seen'[u] = seen[u],
                          values'[u] = values[u], u \in dead' <=> u \in dead,
                          u \in changed' <=> u \in changed, u \in unseen' <=> u \in unseen,
                          port' = port
    PROVE Early(u)' /\ Covered(u)'
BY DEF Heard, Early, Covered, Recording, Right, OnItsWay

LEMMA ScannerHeard == TypeOK /\ Heard /\ Scanner => Heard'
<1> SUFFICES ASSUME TypeOK, Heard, Scanner, NEW u \in Users PROVE Early(u)' /\ Covered(u)'
  BY DEF Heard
<1>1. CASE UNCHANGED <<watch, seen, values, dead, changed, unseen, port>>
  BY <1>1, KeptHeard
<1>2. CASE AddStart
  <2>1. CASE u = cur
    BY <1>2, <2>1 DEF AddStart, Goto, Early, Covered, Recording, TypeOK
  <2>2. CASE u # cur
    BY <1>2, <2>2, KeptHeard DEF AddStart, Goto, sys, TypeOK
  <2> QED BY <2>1, <2>2
<1>3. ASSUME NEW s \in Users, AddSet(s) PROVE Early(u)' /\ Covered(u)'
  <2>1. UNCHANGED <<watch, seen, dead, port>>
    BY <1>3 DEF AddSet, sys
  <2>2. CASE Written(s, [on |-> TRUE, to |-> port])
    BY <2>1, <2>2, WrittenHeard
  <2>3. CASE UNCHANGED <<values, changed, unseen>>
    BY <2>1, <2>3, <1>1
  <2> QED BY <1>3, <2>2, <2>3 DEF AddSet
<1> QED BY <1>1, <1>2, <1>3 DEF Scanner, ScanBegins, ScanLists, ScanCompares, AddRegister, RemoveEnds, ScanDone, ScannerEnds,
        RemoveBegins, RemoveSkips, sys, mon

LEMMA MonitorHeard == ASSUME TypeOK, Heard, NEW s \in Users, Monitor(s) PROVE Heard'
<1> SUFFICES ASSUME NEW u \in Users PROVE Early(u)' /\ Covered(u)'
  BY DEF Heard
<1>1. port' = port
  BY DEF Monitor, Open, Arm, Look, Check, FixEnable, FixServer, FixFails, StopSeen, sys
<1>2. CASE u # s
  <2>1. watch'[u] = watch[u] /\ seen'[u] = seen[u] /\ dead' = dead
    BY <1>2 DEF Monitor, Open, Arm, Look, Check, FixEnable, FixServer, FixFails, StopSeen, Goto, TypeOK
  <2>2. values'[u] = values[u] /\ (u \in changed' <=> u \in changed) /\ (u \in unseen' <=> u \in unseen)
    BY <1>2 DEF Monitor, Open, Arm, Look, Check, FixEnable, FixServer, FixFails, StopSeen, Written, TypeOK
  <2> QED BY <1>1, <2>1, <2>2, KeptHeard
<1>3. CASE u = s
  <2> USE DEF Goto, TypeOK, Heard, Early, Covered, Recording
  <2>1. CASE Open(s)
    BY <1>3, <2>1 DEF Open
  <2>2. CASE Arm(s)
    BY <1>1, <1>3, <2>2 DEF Arm, Right, OnItsWay
  <2>3. CASE Look(s)
    BY <1>3, <2>3 DEF Look, OnItsWay
  <2>4. CASE Check(s)
    <3>1. UNCHANGED <<values, dead, changed, seen, unseen>> /\ watch[s] = "check"
      BY <2>4 DEF Check
    <3>2. PICK p \in {port, NoPort} : watch' = [watch EXCEPT ![s] = Tries(Mismatches(seen[s], p))]
      BY <2>4 DEF Check
    <3>3. seen[s] \in Settings /\ p \in Ports \cup {NoPort} /\ NoPort \notin Ports \cup {Other}
      BY <3>2 DEF NoPort, Ports, Other
    <3>4. Tries(Mismatches(seen[s], p)) \in {"again", "fix", "fix2"}
      BY <3>3, TriesTypes
    <3>5. CASE Tries(Mismatches(seen[s], p)) = "again"
      <4>1. seen[s] = [on |-> TRUE, to |-> port]
        BY <3>3, <3>5, TriesTypes DEF Settings
      <4> QED BY <1>1, <1>3, <3>1, <3>2, <3>5, <4>1 DEF Right, OnItsWay
    <3>6. CASE Tries(Mismatches(seen[s], p)) # "again"
      BY <1>3, <3>1, <3>2, <3>4, <3>6 DEF OnItsWay
    <3> QED BY <3>5, <3>6
  <2>5. CASE FixEnable(s)
    <3>1. watch'[s] = "server" /\ dead' = dead
      BY <2>5 DEF FixEnable
    <3> QED BY <1>3, <3>1 DEF OnItsWay
  <2>6. CASE FixServer(s)
    <3>1. watch'[s] = "again" /\ dead' = dead /\ watch[s] = "server"
      BY <2>6 DEF FixServer
    <3>2. s \notin dead => s \in changed'
      BY <2>6 DEF FixServer, Written
    <3> QED BY <1>3, <3>1, <3>2
  <2>7. CASE FixFails(s)
    <3>1. UNCHANGED <<values, dead, changed, seen>> /\ watch[s] \in {"fix", "fix2"}
      BY <2>7 DEF FixFails
    <3>2. CASE watch[s] = "fix2"
      BY <1>3, <2>7, <3>2 DEF FixFails, OnItsWay
    <3>3. CASE watch[s] = "fix"
      <4>1. watch'[s] = "again" /\ (s \in changed' \/ s \in unseen')
        BY <2>7, <3>3 DEF FixFails
      <4> QED BY <1>3, <4>1
    <3> QED BY <3>1, <3>2, <3>3
  <2>8. CASE StopSeen(s)
    BY <1>3, <2>8 DEF StopSeen
  <2> QED BY <2>1, <2>2, <2>3, <2>4, <2>5, <2>6, <2>7, <2>8 DEF Monitor
<1> QED BY <1>2, <1>3

LEMMA WorldHeard == TypeOK /\ Heard /\ World => Heard'
<1> SUFFICES ASSUME TypeOK, Heard, World, NEW u \in Users PROVE Early(u)' /\ Covered(u)'
  BY DEF Heard
<1>1. CASE UNCHANGED <<watch, seen, values, dead, changed, unseen, port>>
  BY <1>1, KeptHeard
<1>2. ASSUME NEW s \in Users, Logoff(s) PROVE Early(u)' /\ Covered(u)'
  <2>1. CASE u = s
    BY <1>2, <2>1 DEF Logoff, Heard, Early, Covered, Recording
  <2>2. CASE u # s
    BY <1>2, <2>2, KeptHeard DEF Logoff
  <2> QED BY <2>1, <2>2
<1>3. ASSUME NEW s \in Users, NEW v \in Tampered(values[s]), Tamper(s, v) PROVE Early(u)' /\ Covered(u)'
  BY <1>3, WrittenHeard DEF Tamper
<1>4. CASE PortMoves
  BY <1>4 DEF PortMoves, Early, Covered
<1> QED BY <1>1, <1>2, <1>3, <1>4 DEF World, Logon, AccountRemoved, StopBegins, mon, sys

LEMMA HeardStep == TypeOK /\ Heard /\ [Next]_vars => Heard'
<1> SUFFICES ASSUME TypeOK, Heard, [Next]_vars PROVE Heard'
  OBVIOUS
<1>1. CASE UNCHANGED <<watch, seen, values, dead, changed, unseen, port>>
  BY <1>1 DEF Heard, Early, Covered, Recording, Right, OnItsWay
<1>2. CASE Stop
  BY <1>1, <1>2 DEF Stop, StopJoined, StopClears, StopOne, StopOneEnds, sys, mon
<1>3. CASE UNCHANGED vars
  BY <1>1, <1>3 DEF vars, sys, mon
<1> QED BY <1>2, <1>3, ScannerHeard, MonitorHeard, WorldHeard DEF Next

\* A change made while another one is handled, or in the middle of a correction,
\* is not lost by any monitor (registry_monitor.py:75-108, daemon_service.py:386-435).
THEOREM NeverMissed == Spec => []NothingMissed
<1>1. Init => Heard
  BY DEF Init, Heard, Early, Covered, Recording
<1>2. TypeOK /\ Heard => NothingMissed
  BY DEF Heard, Covered, OnItsWay, NothingMissed, Recording
<1> QED BY <1>1, <1>2, HeardStep, TypeCorrect, PTL DEF Spec

-----------------------------------------------------------------------------
(* Nobody is forgotten: a monitor that has not been told to end is in the  *)
(* list, or the scanner is about to put it there.                          *)

Listed == Untold \subseteq entry \cup IF scan = "register" THEN {cur} ELSE {}
Locked ==
    /\ lock = "scanner" <=> scan = "join"
    /\ lock = "stop" <=> halt = "stop"
ScannerKnows ==
    /\ scan # "compare" => todo \cap entry = {}
    /\ scan \in {"start", "register"} => cur \in todo
    /\ scan = "join" => cur \in told
StopKnows == halt = "stop" => \A s \in entry \ left : s \in told \/ watch[s] = "ended"
Ledger == Listed /\ Locked /\ ScannerKnows /\ StopKnows

LEMMA ScannerLedger == TypeOK /\ Ledger /\ Scanner => Ledger'
<1> SUFFICES ASSUME TypeOK, Ledger, Scanner PROVE Ledger'
  OBVIOUS
<1> USE GuardAssumption DEF Ledger, Listed, Untold, Locked, ScannerKnows, StopKnows, sys, mon, scnr, stp
<1>1. CASE ScanBegins \/ ScanLists \/ ScanCompares
  BY <1>1 DEF ScanBegins, ScanLists, ScanCompares
<1>2. CASE AddStart
  <2>1. cur \in Users /\ cur \notin entry /\ watch'[cur] = "opening"
    BY <1>2 DEF AddStart, Goto, TypeOK
  <2>2. \A u \in Users \ {cur} : watch'[u] = watch[u] /\ (u \in told' <=> u \in told)
    BY <1>2 DEF AddStart, Goto, TypeOK
  <2>3. entry \subseteq Users
    BY DEF TypeOK
  <2> QED BY <1>2, <2>1, <2>2, <2>3 DEF AddStart
<1>3. CASE AddRegister
  BY <1>3 DEF AddRegister
<1>4. CASE RemoveEnds
  BY <1>4 DEF RemoveEnds
<1>5. CASE ScanDone
  BY <1>5 DEF ScanDone
<1>6. CASE ScannerEnds
  BY <1>6 DEF ScannerEnds
<1>7. ASSUME NEW s \in Users, AddSet(s) PROVE Ledger'
  BY <1>7 DEF AddSet
<1>8. ASSUME NEW s \in Users, RemoveBegins(s) PROVE Ledger'
  BY <1>8 DEF RemoveBegins
<1>9. ASSUME NEW s \in Users, RemoveSkips(s) PROVE Ledger'
  BY <1>9 DEF RemoveSkips
<1> QED BY <1>1, <1>2, <1>3, <1>4, <1>5, <1>6, <1>7, <1>8, <1>9 DEF Scanner

LEMMA MonitorLedger == ASSUME TypeOK, Ledger, NEW s \in Users, Monitor(s) PROVE Ledger'
<1>1. UNCHANGED <<entry, told, scnr, lock, stp>>
  BY DEF Monitor, Open, Arm, Look, Check, FixEnable, FixServer, FixFails, StopSeen
<1>2. watch[s] \notin {"none", "ended"}
  BY DEF Monitor, Open, Arm, Look, Check, FixEnable, FixServer, FixFails, StopSeen
<1>3. \A u \in Users \ {s} : watch'[u] = watch[u]
  BY DEF Monitor, Open, Arm, Look, Check, FixEnable, FixServer, FixFails, StopSeen, Goto, TypeOK
<1>4. entry \subseteq Users
  BY DEF TypeOK
<1> QED BY <1>1, <1>2, <1>3, <1>4 DEF Ledger, Listed, Untold, Locked, ScannerKnows, StopKnows, scnr, stp

LEMMA StopLedger == TypeOK /\ Ledger /\ Stop => Ledger'
<1> SUFFICES ASSUME TypeOK, Ledger, Stop PROVE Ledger'
  OBVIOUS
<1> USE GuardAssumption DEF Ledger, Listed, Untold, Locked, ScannerKnows, StopKnows, sys, mon, scnr, stp
<1>1. CASE StopJoined
  BY <1>1 DEF StopJoined, TypeOK
<1>2. CASE StopClears
  BY <1>2 DEF StopClears, TypeOK
<1>3. ASSUME NEW s \in Users, StopOne(s) PROVE Ledger'
  BY <1>3 DEF StopOne
<1>4. ASSUME NEW s \in Users, StopOneEnds(s) PROVE Ledger'
  BY <1>4 DEF StopOneEnds
<1> QED BY <1>1, <1>2, <1>3, <1>4 DEF Stop

LEMMA LedgerStep == TypeOK /\ Ledger /\ [Next]_vars => Ledger'
<1> SUFFICES ASSUME TypeOK, Ledger, [Next]_vars PROVE Ledger'
  OBVIOUS
<1>1. CASE World
  <2>1. UNCHANGED <<entry, watch, told, scnr, lock, left>>
    BY <1>1 DEF World, Logon, Logoff, AccountRemoved, Tamper, PortMoves, StopBegins, mon, stp
  <2>2. halt = "stop" <=> halt' = "stop"
    BY <1>1 DEF World, Logon, Logoff, AccountRemoved, Tamper, PortMoves, StopBegins, stp
  <2> QED BY <2>1, <2>2 DEF Ledger, Listed, Untold, Locked, ScannerKnows, StopKnows, scnr
<1>2. CASE UNCHANGED vars
  BY <1>2 DEF Ledger, Listed, Untold, Locked, ScannerKnows, StopKnows, vars, mon, scnr, stp
<1> QED BY <1>1, <1>2, ScannerLedger, MonitorLedger, StopLedger DEF Next

\* stop() leaves no monitor behind that it has not told to end, but one the
\* scanner started or listed behind its back (daemon_service.py:455-503).
THEOREM NobodyIsForgotten == Spec => []NobodyForgotten
<1>1. Init => Ledger
  BY GuardAssumption DEF Init, Ledger, Listed, Untold, Locked, ScannerKnows, StopKnows
<1>2. Ledger => NobodyForgotten
  BY DEF Ledger, Listed, NobodyForgotten
<1> QED BY <1>1, <1>2, LedgerStep, TypeCorrect, PTL DEF Spec

-----------------------------------------------------------------------------
(* The other way round: who is in the list has a monitor that runs.  What  *)
(* breaks this is a logoff, as registry_relogon shows, and nothing else.   *)

Lives(s) == watch[s] \notin {"none", "ended"}
Attended == \A s \in entry \cup IF scan = "register" THEN {cur} ELSE {} :
                Lives(s) \/ s \in told \/ s \in dead

LEMMA ScannerAttends == TypeOK /\ Ledger /\ Attended /\ Scanner => Attended'
<1> SUFFICES ASSUME TypeOK, Ledger, Attended, Scanner PROVE Attended'
  OBVIOUS
<1> USE DEF Attended, Lives
<1>1. CASE AddStart
  <2>1. cur \in Users /\ cur \notin entry /\ watch'[cur] = "opening"
    BY <1>1 DEF AddStart, Goto, TypeOK, Ledger, ScannerKnows
  <2>2. \A u \in Users \ {cur} :
          /\ watch'[u] = watch[u]
          /\ u \in told' <=> u \in told
          /\ u \in dead' <=> u \in dead
    BY <1>1 DEF AddStart, Goto, TypeOK
  <2>3. entry \subseteq Users /\ entry' = entry /\ cur' = cur
    BY <1>1 DEF AddStart, TypeOK
  <2> QED BY <1>1, <2>1, <2>2, <2>3
<1>2. CASE AddRegister
  BY <1>2 DEF AddRegister, mon
<1>3. CASE ScanBegins \/ ScanLists \/ ScanCompares \/ RemoveEnds \/ ScanDone \/ ScannerEnds
           \/ \E s \in Users : AddSet(s) \/ RemoveBegins(s) \/ RemoveSkips(s)
  <2>1. entry' \subseteq entry /\ watch' = watch /\ dead' = dead /\ told \subseteq told'
    BY <1>3 DEF ScanBegins, ScanLists, ScanCompares, RemoveEnds, ScanDone, ScannerEnds, AddSet, RemoveBegins, RemoveSkips, mon
  <2>2. scan' # "register"
    BY <1>3 DEF ScanBegins, ScanLists, ScanCompares, RemoveEnds, ScanDone, ScannerEnds, AddSet, RemoveBegins, RemoveSkips
  <2> QED BY <2>1, <2>2
<1> QED BY <1>1, <1>2, <1>3 DEF Scanner

LEMMA MonitorAttends == ASSUME TypeOK, Attended, NEW s \in Users, Monitor(s) PROVE Attended'
<1>1. UNCHANGED <<entry, told, scan, cur, dead>>
  BY DEF Monitor, Open, Arm, Look, Check, FixEnable, FixServer, FixFails, StopSeen, scnr
<1>2. \A u \in Users \ {s} : watch'[u] = watch[u]
  BY DEF Monitor, Open, Arm, Look, Check, FixEnable, FixServer, FixFails, StopSeen, Goto, TypeOK
<1>3. watch'[s] \notin {"none", "ended"} \/ s \in told \/ s \in dead
  <2>1. CASE Check(s)
    <3>1. PICK p \in {port, NoPort} : watch' = [watch EXCEPT ![s] = Tries(Mismatches(seen[s], p))]
      BY <2>1 DEF Check, Goto
    <3>2. Tries(Mismatches(seen[s], p)) \in {"again", "fix", "fix2"}
      BY <3>1, TriesTypes DEF TypeOK
    <3> QED BY <3>1, <3>2 DEF TypeOK
  <2> QED BY <2>1 DEF Monitor, Open, Arm, Look, FixEnable, FixServer, FixFails, StopSeen, Goto, TypeOK
<1>4. entry \subseteq Users /\ (scan = "register" => cur \in Users)
  BY DEF TypeOK
<1> QED BY <1>1, <1>2, <1>3, <1>4 DEF Attended, Lives

LEMMA AttendedStep == TypeOK /\ Ledger /\ Attended /\ [Next]_vars => Attended'
<1> SUFFICES ASSUME TypeOK, Ledger, Attended, [Next]_vars PROVE Attended'
  OBVIOUS
<1>1. CASE Stop \/ World \/ UNCHANGED vars
  <2>1. UNCHANGED <<watch, scan, cur>> /\ entry' \subseteq entry
    BY <1>1 DEF Stop, StopJoined, StopClears, StopOne, StopOneEnds, World, Logon, Logoff,
        AccountRemoved, Tamper, PortMoves, StopBegins, vars, mon, scnr
  <2>2. told \subseteq told' /\ dead \subseteq dead'
    BY <1>1 DEF Stop, StopJoined, StopClears, StopOne, StopOneEnds, World, Logon, Logoff,
        AccountRemoved, Tamper, PortMoves, StopBegins, vars, mon
  <2> QED BY <2>1, <2>2 DEF Attended, Lives
<1> QED BY <1>1, ScannerAttends, MonitorAttends DEF Next

\* The monitor of a listed user ends only when it is told to, or when a logoff has
\* unloaded the hive of its open key: no failure, no change of the settings and no
\* order of scans loses one (daemon_service.py:386-480, registry_monitor.py:28-110).
THEOREM LostOnlyByLogoff == Spec => [](\A s \in entry : Lives(s) \/ s \in told \/ s \in dead)
<1>1. Init => Attended
  BY DEF Init, Attended
<1>2. Init => Ledger
  BY GuardAssumption DEF Init, Ledger, Listed, Untold, Locked, ScannerKnows, StopKnows
<1>3. Attended => \A s \in entry : Lives(s) \/ s \in told \/ s \in dead
  BY DEF Attended
<1> QED BY <1>1, <1>2, <1>3, AttendedStep, LedgerStep, TypeCorrect, PTL DEF Spec
=============================================================================
