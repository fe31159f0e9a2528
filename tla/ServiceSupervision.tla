------------------------- MODULE ServiceSupervision -------------------------
(***************************************************************************)
(* Who keeps whom running: the main service (main_service.py), the daemon  *)
(* service (daemon_service.py) and the watchdogs (watchdog.py) that both   *)
(* services create and that start either service when it is down.  A setup *)
(* (setup.iss, uninstaller.py) may stop them all: it writes a token        *)
(* (security.py), and while the token is valid a service obeys a request   *)
(* to stop and creates no watchdogs.                                       *)
(*                                                                         *)
(* A service has two parts that overlap: the manager of its watchdogs and  *)
(* stop().  stop() asks the manager to end, and main waits a while for it, *)
(* daemon does not.                                                        *)
(*                                                                         *)
(* A new process of a service takes longer to start than the old one needs *)
(* to end its manager; main could not even bind its socket before.  So a   *)
(* service that is started while its manager ends is up when it has.       *)
(***************************************************************************)
EXTENDS Naturals, FiniteSets

CONSTANTS
    MainDogs, DaemonDogs,  \* the watchdog ids of each service (five each)
    TokenLife,             \* clock units a token is valid (five minutes)
    MaxFaults,             \* bound on the processes killed and the exceptions
    MaxSetups,             \* bound on the setups that are run
    Apart                  \* bound: a behaviour has faults or setups, not both

ASSUME SupervisionAssumption ==
    /\ MainDogs \subseteq Nat /\ DaemonDogs \subseteq Nat
    /\ MainDogs \cap DaemonDogs = {}
    /\ TokenLife \in Nat \ {0} /\ MaxFaults \in Nat /\ MaxSetups \in Nat
    /\ Apart \in BOOLEAN

Services == {"main", "daemon"}
Dogs     == MainDogs \cup DaemonDogs
DogsOf(s) == IF s = "main" THEN MainDogs ELSE DaemonDogs   \* my_watchdog_ids

VARIABLES
    status,  \* of each service: "stopped", "running", "stopping", and "ending"
             \* when stop() has killed the watchdogs
    pc,      \* the next step of the manager of each service, or "off"
    known,   \* watchdog_processes of each service
    alive,   \* the watchdogs that run
    look,    \* the service each watchdog looks at, and its step
    token,   \* what the uninstall token has left; 0 for none or an old one
    setup,   \* the next step of the setup
    calm,    \* history: the setup found both services settled and wrote a
             \* token, and nothing has failed or expired too early since
    faults,  \* processes killed and exceptions
    setups   \* setups run

vars == <<status, pc, known, alive, look, token, setup, calm, faults, setups>>

Valid   == token > 0     \* verify_uninstall_token
Running(s) == status[s] = "running"
Missing(s) == DogsOf(s) \ known[s]
InstallSteps == {"installing", "removing", "registering"}
Installing == setup \in InstallSteps
Step(s, from, to) == pc[s] = from /\ pc' = [pc EXCEPT ![s] = to]

Other(s) == IF s = "main" THEN "daemon" ELSE "main"
AtLook(s) == <<s, "look">>

Init ==
    /\ status = [s \in Services |-> "running"]
    /\ pc = [s \in Services |-> IF s = "daemon" THEN "boot" ELSE "scan"]
    /\ known = [s \in Services |-> {}]
    /\ alive = {} /\ look = [d \in Dogs |-> AtLook("main")]
    /\ token = 0 /\ setup = "idle" /\ calm = FALSE /\ faults = 0 /\ setups = 0

-----------------------------------------------------------------------------
(* A service starts: StartService by a watchdog or by the setup.           *)

\* Those services of S are started that are stopped.
Start(S) ==
    LET started == {s \in S : status[s] = "stopped"}
    IN  /\ \A s \in started : pc[s] = "off"
        /\ status' = [s \in Services |-> IF s \in started THEN "running" ELSE status[s]]
        /\ pc' = [s \in Services |-> IF s \notin started THEN pc[s] ELSE
                                     IF s = "daemon" THEN "boot" ELSE "scan"]
        /\ known' = [s \in Services |-> IF s \in started THEN {} ELSE known[s]]

\* _initialize_service of the daemon deletes the token.
DeleteToken ==
    /\ Step("daemon", "boot", "scan")
    /\ token' = 0
    /\ calm' = (calm /\ Installing)
    /\ UNCHANGED <<status, known, alive, look, setup, faults, setups>>

\* Mutant: the watchdogs of an earlier process are not looked for.
ScanNone(s) ==
    /\ Step(s, "scan", "loop")
    /\ UNCHANGED <<status, known, alive, look, token, setup, calm, faults, setups>>

\* scan_existing_watchdogs
Scan(s) ==
    /\ Step(s, "scan", "loop")
    /\ known' = [known EXCEPT ![s] = alive \cap DogsOf(s)]
    /\ UNCHANGED <<status, alive, look, token, setup, calm, faults, setups>>

-----------------------------------------------------------------------------
(* watchdog_manager                                                        *)

\* Mutant: a watchdog that has died stays known.
CheckNone(s) ==
    /\ Running(s) /\ (s = "daemon" => ~Valid)
    /\ Step(s, "loop", "verify")
    /\ UNCHANGED <<status, known, alive, look, token, setup, calm, faults, setups>>

\* check_watchdog_processes; the daemon spins while the token is valid.
Check(s) ==
    /\ Running(s) /\ (s = "daemon" => ~Valid)
    /\ Step(s, "loop", "verify")
    /\ known' = [known EXCEPT ![s] = @ \cap alive]
    /\ UNCHANGED <<status, alive, look, token, setup, calm, faults, setups>>

EndManager(s) ==
    /\ ~Running(s)
    /\ Step(s, "loop", "off")
    /\ UNCHANGED <<status, known, alive, look, token, setup, calm, faults, setups>>

\* Mutant: the token is not asked for.
VerifyNever(s) ==
    /\ Step(s, "verify", IF Missing(s) # {} THEN "create" ELSE "loop")
    /\ UNCHANGED <<status, known, alive, look, token, setup, calm, faults, setups>>

\* create_missing_watchdogs asks once for the token ...
Verify(s) ==
    /\ Step(s, "verify", IF Missing(s) # {} /\ ~Valid THEN "create" ELSE "loop")
    /\ UNCHANGED <<status, known, alive, look, token, setup, calm, faults, setups>>

\* ... and then creates the missing watchdogs one by one.
Create(s) ==
    \E d \in Missing(s) :
        /\ \A e \in Missing(s) : d <= e
        /\ Step(s, "create", IF Missing(s) = {d} THEN "loop" ELSE "create")
        /\ known' = [known EXCEPT ![s] = @ \cup {d}]
        /\ alive' = alive \cup {d}
        /\ look' = [look EXCEPT ![d] = AtLook("main")]
        /\ UNCHANGED <<status, token, setup, calm, faults, setups>>

-----------------------------------------------------------------------------
(* stop()                                                                  *)

\* Mutant: a service kills its own watchdogs only.
KillOwnDogs(s) ==
    /\ status[s] = "stopping"
    /\ status' = [status EXCEPT ![s] = "ending"]
    /\ alive' = alive \ DogsOf(s)
    /\ UNCHANGED <<pc, known, look, token, setup, calm, faults, setups>>

\* stop_all_watchdogs kills those of both services.
KillDogs(s) ==
    /\ status[s] = "stopping"
    /\ status' = [status EXCEPT ![s] = "ending"]
    /\ alive' = {}
    /\ UNCHANGED <<pc, known, look, token, setup, calm, faults, setups>>

Stopped(s) ==
    /\ status[s] = "ending"
    /\ status' = [status EXCEPT ![s] = "stopped"]
    /\ UNCHANGED <<pc, known, alive, look, token, setup, calm, faults, setups>>

-----------------------------------------------------------------------------
(* The watchdogs: main, daemon, main, ...                                  *)

\* check_and_restart_service asks for the state of the service.
DogLooks(d) ==
    \E s \in Services :
        /\ d \in alive /\ look[d] = AtLook(s)
        /\ look' = [look EXCEPT ![d] = IF Running(s) THEN AtLook(Other(s)) ELSE <<s, "lock">>]
        /\ UNCHANGED <<status, pc, known, alive, token, setup, calm, faults, setups>>

\* The lock of the service is a file that the system closes with its process.
DogLocks(d) ==
    \E s \in Services :
        /\ d \in alive /\ look[d] = <<s, "lock">>
        /\ look' = [look EXCEPT ![d] = IF \E e \in alive : look[e] = <<s, "start">>
                                       THEN AtLook(Other(s)) ELSE <<s, "start">>]
        /\ UNCHANGED <<status, pc, known, alive, token, setup, calm, faults, setups>>

\* StartService raises if the service is not stopped, and nothing is lost.
DogStarts(d) ==
    \E s \in Services :
        /\ d \in alive /\ look[d] = <<s, "start">>
        /\ Start({s})
        /\ look' = [look EXCEPT ![d] = AtLook(Other(s))]
        /\ UNCHANGED <<alive, token, setup, calm, faults, setups>>

-----------------------------------------------------------------------------
(* Faults: a process is killed, or an exception leaves SvcDoRun or stop(). *)

Fault ==
    /\ faults < MaxFaults /\ (Apart => setups = 0) /\ faults' = faults + 1
    /\ calm' = FALSE

Crash(s) ==
    /\ status[s] # "stopped" \/ pc[s] # "off"
    /\ Fault
    /\ status' = [status EXCEPT ![s] = "stopped"]
    /\ pc' = [pc EXCEPT ![s] = "off"]
    /\ UNCHANGED <<known, alive, look, token, setup, setups>>

DogDies(d) ==
    /\ d \in alive
    /\ Fault
    /\ alive' = alive \ {d}
    /\ UNCHANGED <<status, pc, known, look, token, setup, setups>>

\* SvcDoRun of the main service ends by an exception and runs stop().
MainFails ==
    /\ Running("main")
    /\ Fault
    /\ status' = [status EXCEPT !["main"] = "stopping"]
    /\ pc' = [pc EXCEPT !["main"] = IF @ = "scan" THEN "off" ELSE @]
    /\ UNCHANGED <<known, alive, look, token, setup, setups>>

\* An exception in _stop_all_components skips stop_all_watchdogs.
StopFails ==
    /\ status["main"] = "stopping"
    /\ Fault
    /\ status' = [status EXCEPT !["main"] = "stopped"]
    /\ UNCHANGED <<pc, known, alive, look, token, setup, setups>>

-----------------------------------------------------------------------------
(* The token and the setup.                                                *)

Settled == \A s \in Services : Running(s) /\ pc[s] \in {"loop", "verify"}

\* Mutant: a token is valid for a unit too long.
WriteTokenLonger ==
    /\ setup = "idle" /\ setups < MaxSetups /\ (Apart => faults = 0) /\ setups' = setups + 1
    /\ token' = TokenLife + 1 /\ calm' = Settled
    /\ setup' = "daemon"
    /\ UNCHANGED <<status, pc, known, alive, look, faults>>

\* generate_uninstall_token, or the setup goes on without it.
WriteToken ==
    /\ setup = "idle" /\ setups < MaxSetups /\ (Apart => faults = 0) /\ setups' = setups + 1
    /\ \/ token' = TokenLife /\ calm' = Settled
       \/ UNCHANGED token /\ calm' = FALSE
    /\ setup' = "daemon"
    /\ UNCHANGED <<status, pc, known, alive, look, faults>>

\* The token grows old; too early if the managers have not ended.
Tick ==
    /\ Valid /\ token' = token - 1
    /\ calm' = (calm /\ (token = 1 => Installing /\ \A s \in Services : pc[s] = "off"))
    /\ UNCHANGED <<status, pc, known, alive, look, setup, faults, setups>>

\* SvcStop obeys if the token is valid.  Nobody waits for the end for ever.
Request(s, step, next) ==
    /\ setup = step /\ setup' = next
    /\ status' = [status EXCEPT ![s] = IF Running(s) /\ Valid THEN "stopping" ELSE @]
    /\ UNCHANGED <<pc, known, alive, look, token, calm, faults, setups>>

\* InitializeSetup: "sc stop" of each.
StopDaemon == Request("daemon", "daemon", "main")
StopMain   == Request("main", "main", "installing")

\* A setup that is cancelled starts the daemon, also if the user then goes on.
Cancel ==
    /\ setup = "installing" /\ setup' \in {"idle", "installing"}
    /\ Start({"daemon"})
    /\ calm' = FALSE
    /\ UNCHANGED <<alive, look, token, faults, setups>>

\* run_installation: remove_service of each asks a service to stop again ...
RemoveDaemon == Request("daemon", "installing", "removing")
RemoveMain   == Request("main", "removing", "registering")

\* ... and the services are registered and started if both could be removed.
Install ==
    /\ setup = "registering" /\ setup' = "idle"
    /\ \/ (\A s \in Services : status[s] = "stopped") /\ Start(Services)
       \/ UNCHANGED <<status, pc, known>>
    /\ UNCHANGED <<alive, look, token, calm, faults, setups>>

-----------------------------------------------------------------------------
Manage(s) == \/ s = "daemon" /\ DeleteToken
             \/ Scan(s) \/ Check(s) \/ EndManager(s) \/ Verify(s) \/ Create(s)
Stop(s)   == KillDogs(s) \/ Stopped(s)
Watch(d)  == DogLooks(d) \/ DogLocks(d) \/ DogStarts(d)

Next ==
    \/ \E s \in Services : Manage(s) \/ Stop(s) \/ Crash(s)
    \/ \E d \in Dogs : Watch(d) \/ DogDies(d)
    \/ MainFails \/ StopFails
    \/ WriteToken \/ Tick \/ StopDaemon \/ StopMain \/ Cancel
    \/ RemoveDaemon \/ RemoveMain \/ Install

Spec == Init /\ [][Next]_vars

\* The threads of the services and the watchdogs run, and a token grows old.
\* The setup may stop at any point.
Fairness ==
    /\ \A s \in Services : WF_vars(Manage(s)) /\ WF_vars(Stop(s))
    /\ \A d \in Dogs : WF_vars(Watch(d))
    /\ WF_vars(Tick)

FairSpec == Spec /\ Fairness

-----------------------------------------------------------------------------
(* Properties.                                                             *)

\* Every variable holds a value of its type.
TypeOK ==
    /\ status \in [Services -> {"stopped", "running", "stopping", "ending"}]
    /\ pc \in [Services -> {"off", "boot", "scan", "loop", "verify", "create"}]
    /\ known \in [Services -> SUBSET Dogs]
    /\ alive \subseteq Dogs
    /\ look \in [Dogs -> Services \X {"look", "lock", "start"}]
    /\ token \in 0 .. TokenLife
    /\ setup \in {"idle", "daemon", "main"} \cup InstallSteps
    /\ calm \in BOOLEAN
    /\ faults \in 0 .. MaxFaults /\ setups \in 0 .. MaxSetups

\* A manager knows every living watchdog with an id of its own, those of an
\* earlier process included, so that it never creates one twice.
KnowsItsDogs ==
    \A s \in Services :
        pc[s] \in {"loop", "verify", "create"} => alive \cap DogsOf(s) \subseteq known[s]

\* Nobody restarts what a calm setup has stopped: both services have stopped
\* or are about to, and once they have, no watchdog is left to start them.
SetupHolds ==
    Installing /\ calm =>
        \A s \in Services : ~Running(s) /\ (status[s] # "stopping" => alive = {})

\* In the same setup both services stop at last.
SetupEnds ==
    Installing /\ calm ~>
        (\A s \in Services : status[s] = "stopped") \/ ~Installing \/ ~calm

AllUp   == (\A s \in Services : Running(s)) /\ alive = Dogs
AllDown == (\A s \in Services : status[s] = "stopped") /\ alive = {}

\* If no setup is at work, no token is valid and something is left that runs,
\* both services and all watchdogs run again at last, whatever was killed.
Heals == <>[](setup = "idle" /\ ~Valid /\ ~AllDown) => <>[]AllUp

=============================================================================
