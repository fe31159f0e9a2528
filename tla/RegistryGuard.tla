---------------------------- MODULE RegistryGuard ----------------------------
(***************************************************************************)
(* The registry guard of the daemon service: the scanner of the users, one *)
(* RegistryMonitor per user (registry_monitor.py) with the callback that   *)
(* restores the proxy settings, and stop() (daemon_service.py).            *)
(*                                                                         *)
(* A user's settings are the two values ProxyEnable and ProxyServer, the   *)
(* server as a port of this machine or something else.  Windows records    *)
(* what happens to a key from the first RegNotifyChangeKeyValue on its     *)
(* handle; a handle does not survive the unloading of the hive at logoff.  *)
(***************************************************************************)
EXTENDS Integers, FiniteSets

CONSTANTS
    Users,       \* accounts with a SID
    MaxLogons,   \* bound: logons
    MaxTampers,  \* bound: changes made by a user
    MaxPort,     \* bound: the configured port starts at 1 and moves up to this
    MaxFailures, \* bound: settings that cannot be written
    NoOne

ASSUME GuardAssumption ==
    /\ NoOne \notin Users \cup {"scanner", "stop"}
    /\ MaxLogons \in Nat /\ MaxTampers \in Nat /\ MaxFailures \in Nat
    /\ MaxPort \in Nat \ {0}

VARIABLES
    accounts,  \* the accounts of the machine
    loaded,    \* users whose hive is loaded: they are logged on
    values,    \* the two values of each user
    port,      \* proxy_port in the database
    entry,     \* the users in monitor_threads
    watch,     \* where the monitor thread of each user is
    dead,      \* users whose monitor holds a handle of an unloaded hive
    changed,   \* what Windows has recorded for the handle: a change
    seen,      \* what the monitor of each user works with
    told,      \* users whose stop_event is set
    scan,      \* where the scanner is
    todo,      \* current_users, then new_users not added yet
    gone,      \* removed_sids not removed yet
    cur,       \* the user the scanner works on
    lock,      \* who holds monitor_threads_lock for more than one step
    halt,      \* where stop() is
    left,      \* the monitors stop() has not finished with
    logons, tampers, failures,   \* counters of the bounds
    unseen     \* history: users whose last change no monitor will hear of

sys  == <<accounts, loaded, port, logons, tampers>>
mon  == <<watch, dead, changed, seen>>
scnr == <<scan, todo, gone, cur>>
stp  == <<halt, left>>
vars == <<sys, values, mon, entry, told, scnr, lock, stp, failures, unseen>>

Ports == 1 .. MaxPort
Other  == 0    \* a server that is not the proxy of this machine
NoPort == -1   \* get_proxy_port has failed
Right(s) == values[s] = [on |-> TRUE, to |-> port]
Settings == [on : BOOLEAN, to : Ports \cup {Other}]

Init ==
    /\ accounts = Users /\ loaded = {}
    /\ values = [s \in Users |-> [on |-> FALSE, to |-> Other]]
    /\ port = 1
    /\ entry = {} /\ watch = [s \in Users |-> "none"]
    /\ dead = {} /\ changed = {} /\ told = {}
    /\ seen = [s \in Users |-> [on |-> FALSE, to |-> Other]]
    /\ scan = "sleep" /\ todo = {} /\ gone = {} /\ cur = NoOne
    /\ lock = NoOne /\ halt = "no" /\ left = {}
    /\ logons = 0 /\ tampers = 0 /\ failures = 0
    /\ unseen = Users

Goto(s, at) == watch' = [watch EXCEPT ![s] = at]

-----------------------------------------------------------------------------
(* Windows and the users                                                   *)

\* The handle was registered once and its hive is still there.
Recording == {s \in Users : watch[s] \in {"wait", "check", "fix", "fix2", "server", "again"}} \ dead

\* What a write of s's values by anybody leaves behind.
Written(s, v) ==
    /\ values' = [values EXCEPT ![s] = v]
    /\ changed' = IF s \in Recording THEN changed \cup {s} ELSE changed
    /\ unseen' = IF s \in Recording THEN unseen \ {s} ELSE unseen \cup {s}

Logon(s) ==
    /\ s \in accounts \ loaded /\ logons < MaxLogons
    /\ loaded' = loaded \cup {s} /\ logons' = logons + 1
    /\ UNCHANGED <<accounts, port, tampers, values, mon, entry, told, scnr, lock, stp, failures, unseen>>

\* The hive is unloaded: the pending notification fires, the handle is dead.
Logoff(s) ==
    /\ s \in loaded
    /\ loaded' = loaded \ {s}
    /\ dead' = IF watch[s] \in {"none", "opening", "ended"} THEN dead ELSE dead \cup {s}
    /\ changed' = IF s \in Recording THEN changed \cup {s} ELSE changed
    /\ UNCHANGED <<accounts, port, logons, tampers, values, watch, seen, entry, told, scnr, lock, stp,
                   failures, unseen>>

AccountRemoved(s) ==
    /\ s \in accounts \ loaded
    /\ accounts' = accounts \ {s}
    /\ UNCHANGED <<loaded, port, logons, tampers, values, mon, entry, told, scnr, lock, stp, failures, unseen>>

Tampered(v) == {[v EXCEPT !.on = ~@], [v EXCEPT !.to = Other]} \ {v}

Tamper(s, v) ==
    /\ s \in loaded /\ tampers < MaxTampers
    /\ tampers' = tampers + 1
    /\ Written(s, v)
    /\ UNCHANGED <<accounts, loaded, port, logons, watch, dead, seen, entry, told, scnr, lock, stp, failures>>

\* The configuration tool saves another port; no user's values change.
PortMoves ==
    /\ port < MaxPort /\ port' = port + 1
    /\ unseen' = Users
    /\ UNCHANGED <<accounts, loaded, logons, tampers, values, mon, entry, told, scnr, lock, stp, failures>>

-----------------------------------------------------------------------------
(* The scanner                                                             *)

Running == halt = "no"

\* What NetUserEnum and LookupAccountName yield: an error leaves accounts out.
Listings == {accounts} \cup IF failures < MaxFailures THEN SUBSET accounts ELSE {}

\* Mutant: a user who logs on is not looked for.
MonitoredUsers(listed) == listed \cap entry

\* _scan_users_internet_settings: a user who is monitored counts as current,
\* with or without a hive.
CurrentUsers(listed) == listed \cap (entry \cup loaded)

ScanBegins ==
    /\ scan = "sleep" /\ Running
    /\ scan' = "list"
    /\ UNCHANGED <<sys, values, mon, entry, told, todo, gone, cur, lock, stp, failures, unseen>>

ScanLists ==
    /\ scan = "list" /\ lock = NoOne
    /\ \E listed \in Listings :
        /\ todo' = CurrentUsers(listed)
        /\ failures' = IF listed = accounts THEN failures ELSE failures + 1
    /\ scan' = "compare"
    /\ UNCHANGED <<sys, values, mon, entry, told, gone, cur, lock, stp, unseen>>

\* The list is read again: stop() may have emptied it since.
ScanCompares ==
    /\ scan = "compare" /\ lock = NoOne
    /\ todo' = todo \ entry /\ gone' = entry \ todo
    /\ scan' = "work"
    /\ UNCHANGED <<sys, values, mon, entry, told, cur, lock, stp, failures, unseen>>

\* _set_windows_proxy, whose result is not looked at.
AddSet(s) ==
    /\ scan = "work" /\ s \in todo
    /\ \/ s \in loaded /\ Written(s, [on |-> TRUE, to |-> port]) /\ failures' = failures
       \/ s \notin loaded /\ UNCHANGED <<values, changed, unseen, failures>>
       \/ failures < MaxFailures /\ failures' = failures + 1 /\ UNCHANGED <<values, changed, unseen>>
    /\ scan' = "start" /\ cur' = s
    /\ UNCHANGED <<sys, watch, dead, seen, entry, told, todo, gone, lock, stp>>

\* A new monitor, with a stop_event and a handle of its own.  A thread that
\* outlived the join of its removal was told to end, and is not followed further.
AddStart ==
    /\ scan = "start"
    /\ Goto(cur, "opening")
    /\ dead' = dead \ {cur} /\ changed' = changed \ {cur} /\ told' = told \ {cur}
    /\ unseen' = unseen \cup {cur}
    /\ scan' = "register"
    /\ UNCHANGED <<sys, values, seen, entry, todo, gone, cur, lock, stp, failures>>

\* Mutant: the entry is made whether or not a monitor was started.
AddRegisterAnyway ==
    /\ scan \in {"work", "register"} /\ lock = NoOne
    /\ entry' = entry \cup {cur} /\ todo' = todo \ {cur}
    /\ scan' = "work" /\ cur' = NoOne
    /\ UNCHANGED <<sys, values, mon, told, gone, lock, stp, failures, unseen>>

AddRegister ==
    /\ scan = "register" /\ lock = NoOne
    /\ entry' = entry \cup {cur} /\ todo' = todo \ {cur}
    /\ scan' = "work" /\ cur' = NoOne
    /\ UNCHANGED <<sys, values, mon, told, gone, lock, stp, failures, unseen>>

\* The user is not listed any more: the monitor is told to stop, under the lock.
RemoveBegins(s) ==
    /\ scan = "work" /\ todo = {} /\ s \in gone /\ s \in entry /\ lock = NoOne
    /\ lock' = "scanner" /\ told' = told \cup {s}
    /\ scan' = "join" /\ cur' = s
    /\ UNCHANGED <<sys, values, mon, entry, todo, gone, stp, failures, unseen>>

\* stop() has emptied the list, or the event was closed: the entry is left as it is.
RemoveSkips(s) ==
    /\ scan = "work" /\ todo = {} /\ s \in gone /\ lock = NoOne
    /\ s \notin entry \/ watch[s] = "ended"
    /\ gone' = gone \ {s}
    /\ UNCHANGED <<sys, values, mon, entry, told, scan, todo, cur, lock, stp, failures, unseen>>

\* Mutant: the monitor is joined without a timeout.
RemoveEndsWhenJoined ==
    /\ scan = "join" /\ watch[cur] = "ended"
    /\ entry' = entry \ {cur} /\ gone' = gone \ {cur}
    /\ lock' = NoOne /\ scan' = "work" /\ cur' = NoOne
    /\ UNCHANGED <<sys, values, mon, told, todo, stp, failures, unseen>>

\* The thread has ended, or the join has lasted its 10 s.
RemoveEnds ==
    /\ scan = "join"
    /\ entry' = entry \ {cur} /\ gone' = gone \ {cur}
    /\ lock' = NoOne /\ scan' = "work" /\ cur' = NoOne
    /\ UNCHANGED <<sys, values, mon, told, todo, stp, failures, unseen>>

ScanDone ==
    /\ scan = "work" /\ todo = {} /\ gone = {}
    /\ scan' = "sleep"
    /\ UNCHANGED <<sys, values, mon, entry, told, todo, gone, cur, lock, stp, failures, unseen>>

ScannerEnds ==
    /\ scan = "sleep" /\ ~Running
    /\ scan' = "ended"
    /\ UNCHANGED <<sys, values, mon, entry, told, todo, gone, cur, lock, stp, failures, unseen>>

-----------------------------------------------------------------------------
(* The monitor thread of a user                                            *)

\* _open_registry_key, tried every 5 s without a look at stop_event.
Open(s) ==
    /\ watch[s] = "opening" /\ s \in loaded
    /\ Goto(s, "arm")
    /\ UNCHANGED <<sys, values, dead, changed, seen, entry, told, scnr, lock, stp, failures, unseen>>

\* Mutant: what changed while the last change was handled is dropped.
ArmForgets(s) ==
    /\ watch[s] \in {"arm", "again"}
    /\ Goto(s, IF s \in dead THEN "ended" ELSE "wait")
    /\ changed' = changed \ {s}
    /\ UNCHANGED <<sys, values, dead, seen, entry, told, scnr, lock, stp, failures, unseen>>

\* RegNotifyChangeKeyValue; on a dead handle it fails and the thread ends.
Arm(s) ==
    /\ watch[s] \in {"arm", "again"}
    /\ Goto(s, IF s \in dead THEN "ended" ELSE "wait")
    /\ UNCHANGED <<sys, values, dead, changed, seen, entry, told, scnr, lock, stp, failures, unseen>>

\* The notification is taken and the values are read; a deleted key reads as None.
Look(s) ==
    /\ watch[s] = "wait" /\ s \in changed
    /\ changed' = changed \ {s}
    /\ seen' = [seen EXCEPT ![s] = values[s]]
    /\ Goto(s, IF s \in dead THEN "again" ELSE "check")
    /\ UNCHANGED <<sys, values, dead, entry, told, scnr, lock, stp, failures, unseen>>

Mismatches(v, p) == (IF v.on THEN 0 ELSE 1) + (IF v.to = p THEN 0 ELSE 1)
Tries(n) == <<"again", "fix", "fix2">>[n + 1]

\* on_registry_change: the values read against the port as it is now.  Each
\* value that differs is a try to set both; without a port the server differs.
Check(s) ==
    /\ watch[s] = "check"
    /\ \/ Goto(s, Tries(Mismatches(seen[s], port))) /\ failures' = failures
       \/ /\ failures < MaxFailures /\ failures' = failures + 1
          /\ Goto(s, Tries(Mismatches(seen[s], NoPort)))
    /\ UNCHANGED <<sys, values, dead, changed, seen, entry, told, scnr, lock, stp, unseen>>

\* Mutant: only the value that differs first is set.
FixEnableOnly(s) ==
    /\ watch[s] \in {"fix", "fix2"} /\ s \in loaded
    /\ Written(s, [values[s] EXCEPT !.on = TRUE])
    /\ Goto(s, "again")
    /\ UNCHANGED <<sys, dead, seen, entry, told, scnr, lock, stp, failures>>

\* _set_windows_proxy reads the port again, sets ProxyEnable ...
FixEnable(s) ==
    /\ watch[s] \in {"fix", "fix2"} /\ s \in loaded
    /\ seen' = [seen EXCEPT ![s] = [on |-> TRUE, to |-> port]]
    /\ Written(s, [values[s] EXCEPT !.on = TRUE])
    /\ Goto(s, "server")
    /\ UNCHANGED <<sys, dead, entry, told, scnr, lock, stp, failures>>

\* ... and then ProxyServer, unless the hive has gone in between.
FixServer(s) ==
    /\ watch[s] = "server"
    /\ \/ s \in loaded /\ Written(s, [values[s] EXCEPT !.to = seen[s].to])
       \/ s \in dead /\ UNCHANGED <<values, changed, unseen>>
    /\ Goto(s, "again")
    /\ UNCHANGED <<sys, dead, seen, entry, told, scnr, lock, stp, failures>>

\* A try fails; after the last one nothing is tried until the next change.
FixFails(s) ==
    /\ watch[s] \in {"fix", "fix2"}
    /\ IF s \in loaded THEN failures < MaxFailures /\ failures' = failures + 1
       ELSE failures' = failures
    /\ Goto(s, IF watch[s] = "fix2" THEN "fix" ELSE "again")
    /\ unseen' = IF watch[s] = "fix2" \/ s \in changed THEN unseen ELSE unseen \cup {s}
    /\ UNCHANGED <<sys, values, dead, changed, seen, entry, told, scnr, lock, stp>>

\* stop_event counts only while no change is pending.
StopSeen(s) ==
    /\ watch[s] = "wait" /\ s \in told /\ s \notin changed
    /\ Goto(s, "ended")
    /\ UNCHANGED <<sys, values, dead, changed, seen, entry, told, scnr, lock, stp, failures, unseen>>

-----------------------------------------------------------------------------
(* stop()                                                                  *)

StopBegins ==
    /\ halt = "no" /\ halt' = "join"
    /\ UNCHANGED <<sys, values, mon, entry, told, scnr, lock, left, failures, unseen>>

\* The scanner has ended, or it is busy for longer than the 10 s of the join.
StopJoined ==
    /\ halt = "join" /\ scan # "sleep" /\ lock = NoOne
    /\ lock' = "stop" /\ left' = entry /\ halt' = "stop"
    /\ UNCHANGED <<sys, values, mon, entry, told, scnr, failures, unseen>>

StopOne(s) ==
    /\ halt = "stop" /\ s \in left /\ left \cap told = {}
    /\ told' = told \cup {s}
    /\ UNCHANGED <<sys, values, mon, entry, scnr, lock, stp, failures, unseen>>

\* The thread has ended, or the join has lasted its 10 s, or its event is closed.
StopOneEnds(s) ==
    /\ halt = "stop" /\ s \in left
    /\ s \in told \/ watch[s] = "ended"
    /\ left' = left \ {s}
    /\ UNCHANGED <<sys, values, mon, entry, told, scnr, lock, halt, failures, unseen>>

\* Mutant: the list is emptied while monitors have not been told.
StopClearsEarly ==
    /\ halt = "stop"
    /\ entry' = {} /\ lock' = NoOne /\ halt' = "done"
    /\ UNCHANGED <<sys, values, mon, told, scnr, left, failures, unseen>>

StopClears ==
    /\ halt = "stop" /\ left = {}
    /\ entry' = {} /\ lock' = NoOne /\ halt' = "done"
    /\ UNCHANGED <<sys, values, mon, told, scnr, left, failures, unseen>>

-----------------------------------------------------------------------------

Scanner ==
    \/ ScanBegins \/ ScanLists \/ ScanCompares \/ AddStart \/ AddRegister \/ RemoveEnds \/ ScanDone \/ ScannerEnds
    \/ \E s \in Users : AddSet(s) \/ RemoveBegins(s) \/ RemoveSkips(s)
Monitor(s) ==
    \/ Open(s) \/ Arm(s) \/ Look(s) \/ Check(s)
    \/ FixEnable(s) \/ FixServer(s) \/ FixFails(s) \/ StopSeen(s)
Stop == StopJoined \/ StopClears \/ \E s \in Users : StopOne(s) \/ StopOneEnds(s)
World ==
    \/ \E s \in Users : Logon(s) \/ Logoff(s) \/ AccountRemoved(s) \/ \E v \in Tampered(values[s]) : Tamper(s, v)
    \/ PortMoves \/ StopBegins

Next == Scanner \/ Stop \/ World \/ \E s \in Users : Monitor(s)

Spec == Init /\ [][Next]_vars

\* The threads run; nobody has to log on, to tamper or to stop the service.
Fairness == WF_vars(Scanner) /\ WF_vars(Stop) /\ \A s \in Users : WF_vars(Monitor(s))
FairSpec == Spec /\ Fairness

-----------------------------------------------------------------------------
(* Properties                                                              *)

TypeOK ==
    /\ accounts \subseteq Users /\ loaded \subseteq Users
    /\ values \in [Users -> Settings] /\ seen \in [Users -> Settings]
    /\ port \in Ports
    /\ entry \subseteq Users /\ dead \subseteq Users /\ changed \subseteq Users
    /\ told \subseteq Users /\ unseen \subseteq Users
    /\ watch \in [Users -> {"none", "opening", "arm", "wait", "check", "fix", "fix2",
                            "server", "again", "ended"}]
    /\ scan \in {"sleep", "list", "compare", "work", "start", "register", "join", "ended"}
    /\ todo \subseteq Users /\ gone \subseteq Users /\ cur \in Users \cup {NoOne}
    /\ scan \in {"start", "register", "join"} => cur \in Users
    /\ left \subseteq Users
    /\ lock \in {NoOne, "scanner", "stop"} /\ halt \in {"no", "join", "stop", "done"}
    /\ logons \in 0 .. MaxLogons /\ tampers \in 0 .. MaxTampers
    /\ failures \in 0 .. MaxFailures

\* While a monitor waits and nothing is pending, its user's settings are right,
\* unless the last change came before it listened, the port has moved since, or
\* the correction failed: a change made while another one is handled, or in the
\* middle of a correction, is never lost (registry_monitor.py:75-108).
NothingMissed ==
    \A s \in Recording \ unseen :
        watch[s] = "wait" /\ s \notin changed => Right(s)

\* Threads that run and have not been told to end.
Untold == {s \in Users : watch[s] \notin {"none", "ended"}} \ told

\* Once stop() is through, a monitor that was not told to end is one the scanner
\* has started, or put in the emptied list, after stop() stopped waiting for it
\* (lines 142-153, 455-466).
NobodyForgotten ==
    halt = "done" => Untold \subseteq entry \cup IF scan = "register" THEN {cur} ELSE {}

\* The scanner finds a user who logs on for the first time (line 299).
Found == \A s \in Users :
    s \in accounts \cap loaded ~> s \in entry \/ s \notin loaded \/ ~Running

\* A change that a monitor hears of is corrected, or it turns into one of the
\* cases of NothingMissed.
Corrected == \A s \in Users :
    s \in Recording /\ ~Right(s)
        ~> Right(s) \/ s \in unseen \/ s \notin Recording

\* stop() returns, whatever the scanner and the monitors wait for.
StopReturns == halt = "join" ~> halt = "done"

\* Fails: "scan the users regularly and manage the monitor threads" (line 299),
\* so that a user who stays logged on has a monitor in the end.
Guarded == \A s \in Users : s \in loaded ~> s \in Recording \/ s \notin loaded \/ ~Running
=============================================================================
