---------------------- MODULE ServiceSupervision_proofs ----------------------
(***************************************************************************)
(* Proofs about ServiceSupervision, for any watchdogs and bounds: managers *)
(* know their watchdogs, and nobody restarts what a calm setup has stopped. *)
(***************************************************************************)
EXTENDS ServiceSupervision, TLAPS

Creating(s) == pc[s] \in {"loop", "verify", "create"}

\* While a setup is calm the managers create nothing, for the token is valid
\* until they have ended; the setup has asked the services to stop one after
\* the other; and those that have killed the watchdogs have left none.
CalmSetup ==
    setup # "idle" /\ calm =>
        /\ \A s \in Services : pc[s] \in {"loop", "verify", "off"}
        /\ Valid \/ (Installing /\ \A s \in Services : pc[s] = "off")
        /\ setup # "daemon" => ~Running("daemon")
        /\ Installing => ~Running("main")
        /\ \A s \in Services : status[s] \in {"ending", "stopped"} => alive = {}

-----------------------------------------------------------------------------
(* Type correctness.                                                       *)

LEMMA StartTypes ==
    ASSUME TypeOK, NEW S \in SUBSET Services, Start(S)
    PROVE  /\ status' \in [Services -> {"stopped", "running", "stopping", "ending"}]
           /\ pc' \in [Services -> {"off", "boot", "scan", "loop", "verify", "create"}]
           /\ known' \in [Services -> SUBSET Dogs]
BY DEF TypeOK, Start

LEMMA DogLookTypes ==
    ASSUME TypeOK, NEW d \in Dogs, Watch(d)
    PROVE  look' \in [Dogs -> Services \X {"look", "lock", "start"}]
<1> USE DEF TypeOK, AtLook
<1>1. \A s \in Services : Other(s) \in Services
  BY DEF Services, Other
<1>2. CASE DogLooks(d)
  BY <1>1, <1>2 DEF DogLooks
<1>3. CASE DogLocks(d)
  BY <1>1, <1>3 DEF DogLocks
<1>4. CASE DogStarts(d)
  BY <1>1, <1>4 DEF DogStarts
<1> QED
  BY <1>2, <1>3, <1>4 DEF Watch

LEMMA InitTypes == Init => TypeOK
<1> SUFFICES ASSUME Init PROVE TypeOK
  OBVIOUS
<1>1. calm \in BOOLEAN
  BY DEF Init
<1>2. look \in [Dogs -> Services \X {"look", "lock", "start"}]
  BY DEF Init, Services, AtLook
<1>3. token \in 0 .. TokenLife /\ faults \in 0 .. MaxFaults /\ setups \in 0 .. MaxSetups
  BY SupervisionAssumption DEF Init
<1> QED
  BY <1>1, <1>2, <1>3 DEF Init, TypeOK

LEMMA FaultTypes == TypeOK /\ Fault => calm' \in BOOLEAN /\ faults' \in 0 .. MaxFaults
<1> SUFFICES ASSUME TypeOK, Fault PROVE calm' \in BOOLEAN /\ faults' \in 0 .. MaxFaults
  OBVIOUS
<1>1. calm' \in BOOLEAN
  BY DEF Fault
<1>2. faults' \in 0 .. MaxFaults
  BY SupervisionAssumption DEF TypeOK, Fault
<1> QED
  BY <1>1, <1>2

LEMMA StepTypes == TypeOK /\ [Next]_vars => TypeOK'
<1> SUFFICES ASSUME TypeOK, [Next]_vars PROVE TypeOK'
  OBVIOUS
<1> USE DEF TypeOK
<1>1. ASSUME NEW s \in Services, Manage(s) PROVE TypeOK'
  <2>1. CASE s = "daemon" /\ DeleteToken
    BY <2>1, SupervisionAssumption DEF DeleteToken, Step
  <2>2. CASE Scan(s)
    BY <2>2 DEF Scan, Step, Dogs
  <2>3. CASE Check(s) \/ EndManager(s) \/ Verify(s)
    BY <2>3 DEF Check, EndManager, Verify, Step
  <2>4. CASE Create(s)
    <3>1. PICK d \in Dogs :
            /\ Step(s, "create", IF Missing(s) = {d} THEN "loop" ELSE "create")
            /\ known' = [known EXCEPT ![s] = @ \cup {d}]
            /\ alive' = alive \cup {d}
            /\ look' = [look EXCEPT ![d] = AtLook("main")]
      BY <2>4 DEF Create, Missing, DogsOf, Dogs
    <3>2. look' \in [Dogs -> Services \X {"look", "lock", "start"}]
      BY <3>1 DEF AtLook, Services
    <3>3. pc' \in [Services -> {"off", "boot", "scan", "loop", "verify", "create"}]
      BY <3>1 DEF Step
    <3>4. known' \in [Services -> SUBSET Dogs] /\ alive' \subseteq Dogs
      BY <3>1
    <3> QED
      BY <2>4, <3>2, <3>3, <3>4 DEF Create
  <2> QED
    BY <1>1, <2>1, <2>2, <2>3, <2>4 DEF Manage
<1>2. ASSUME NEW s \in Services, Stop(s) PROVE TypeOK'
  BY <1>2 DEF Stop, KillDogs, Stopped
<1>3. ASSUME NEW d \in Dogs, Watch(d) PROVE TypeOK'
  <2>1. CASE DogLooks(d) \/ DogLocks(d)
    BY <1>3, <2>1, DogLookTypes DEF DogLooks, DogLocks
  <2>2. CASE DogStarts(d)
    <3>1. PICK s \in Services : Start({s})
      BY <2>2 DEF DogStarts
    <3> QED
      BY <1>3, <2>2, <3>1, DogLookTypes, StartTypes DEF DogStarts
  <2> QED
    BY <1>3, <2>1, <2>2 DEF Watch
<1>4. ASSUME NEW s \in Services, Crash(s) PROVE TypeOK'
  BY <1>4, FaultTypes DEF Crash
<1>5. ASSUME NEW d \in Dogs, DogDies(d) PROVE TypeOK'
  BY <1>5, FaultTypes DEF DogDies
<1>6. CASE MainFails \/ StopFails
  BY <1>6, FaultTypes DEF MainFails, StopFails, Services
<1>7. CASE WriteToken
  <2>1. calm' \in BOOLEAN
    BY <1>7 DEF WriteToken, Settled
  <2> QED
    BY <1>7, <2>1, SupervisionAssumption DEF WriteToken
<1>8. CASE Tick
  <2>1. calm' \in BOOLEAN
    BY <1>8 DEF Tick
  <2> QED
    BY <1>8, <2>1, SupervisionAssumption DEF Tick, Valid
<1>9. CASE StopDaemon \/ StopMain \/ RemoveDaemon \/ RemoveMain
  BY <1>9 DEF StopDaemon, StopMain, RemoveDaemon, RemoveMain, Request, InstallSteps
<1>10. CASE Cancel
  <2>1. calm' \in BOOLEAN
    BY <1>10 DEF Cancel
  <2>2. Start({"daemon"})
    BY <1>10 DEF Cancel
  <2> QED
    BY <1>10, <2>1, <2>2, StartTypes DEF Cancel, Services, InstallSteps
<1>11. CASE Install
  BY <1>11, StartTypes DEF Install
<1>12. CASE UNCHANGED vars
  BY <1>12 DEF vars
<1> QED
  BY <1>1, <1>2, <1>3, <1>4, <1>5, <1>6, <1>7, <1>8, <1>9, <1>10, <1>12, <1>11
  DEF Next

\* Every variable keeps its type, for any watchdogs of the two services and
\* any bounds.
THEOREM TypeCorrect == Spec => []TypeOK
BY InitTypes, StepTypes, PTL DEF Spec

-----------------------------------------------------------------------------
(* The managers and their watchdogs.                                       *)

\* Starting a service takes its manager out of the loop, or nothing happens.
LEMMA StartKnows ==
    ASSUME TypeOK, KnowsItsDogs, NEW S \in SUBSET Services, Start(S), alive' = alive
    PROVE  KnowsItsDogs'
<1> SUFFICES ASSUME NEW s \in Services, Creating(s)'
             PROVE  (alive \cap DogsOf(s) \subseteq known[s])'
  BY DEF KnowsItsDogs, Creating
<1>1. s \notin {t \in S : status[t] = "stopped"}
  BY DEF Start, Creating, TypeOK
<1>2. pc'[s] = pc[s] /\ known'[s] = known[s]
  BY <1>1 DEF Start
<1> QED
  BY <1>2 DEF KnowsItsDogs, Creating, DogsOf

LEMMA StepKnows == TypeOK /\ KnowsItsDogs /\ [Next]_vars => KnowsItsDogs'
<1> SUFFICES ASSUME TypeOK, KnowsItsDogs, [Next]_vars PROVE KnowsItsDogs'
  OBVIOUS
<1> USE DEF TypeOK, KnowsItsDogs
<1>1. ASSUME NEW s \in Services, Manage(s) PROVE KnowsItsDogs'
  <2>1. CASE s = "daemon" /\ DeleteToken
    BY <2>1 DEF DeleteToken, Step, DogsOf
  <2>2. CASE Scan(s)
    BY <2>2 DEF Scan, Step, DogsOf
  <2>3. CASE Check(s)
    BY <2>3 DEF Check, Step, DogsOf
  <2>4. CASE EndManager(s) \/ Verify(s)
    BY <2>4 DEF EndManager, Verify, Step, DogsOf
  <2>5. CASE Create(s)
    <3>1. PICK d \in Missing(s) :
            /\ pc[s] = "create" /\ \A t \in Services \ {s} : pc'[t] = pc[t]
            /\ known' = [known EXCEPT ![s] = @ \cup {d}]
            /\ alive' = alive \cup {d}
      BY <2>5 DEF Create, Step
    <3>2. \A t \in Services \ {s} : d \notin DogsOf(t)
      BY SupervisionAssumption DEF Missing, DogsOf, Services
    <3> QED
      BY <3>1, <3>2 DEF DogsOf
  <2> QED
    BY <1>1, <2>1, <2>2, <2>3, <2>4, <2>5 DEF Manage
<1>2. ASSUME NEW s \in Services, Stop(s) PROVE KnowsItsDogs'
  BY <1>2 DEF Stop, KillDogs, Stopped, DogsOf
<1>3. ASSUME NEW d \in Dogs, Watch(d) PROVE KnowsItsDogs'
  <2>1. CASE DogLooks(d) \/ DogLocks(d)
    BY <2>1 DEF DogLooks, DogLocks, DogsOf
  <2>2. CASE DogStarts(d)
    <3>1. PICK s \in Services : Start({s}) /\ alive' = alive
      BY <2>2 DEF DogStarts
    <3> QED
      BY <3>1, StartKnows
  <2> QED
    BY <1>3, <2>1, <2>2 DEF Watch
<1>4. ASSUME NEW s \in Services, Crash(s) PROVE KnowsItsDogs'
  BY <1>4 DEF Crash, DogsOf
<1>5. ASSUME NEW d \in Dogs, DogDies(d) PROVE KnowsItsDogs'
  BY <1>5 DEF DogDies, DogsOf
<1>6. CASE MainFails \/ StopFails
  BY <1>6 DEF MainFails, StopFails, DogsOf
<1>7. CASE WriteToken \/ Tick \/ StopDaemon \/ StopMain \/ RemoveDaemon \/ RemoveMain
  BY <1>7 DEF WriteToken, Tick, StopDaemon, StopMain, RemoveDaemon, RemoveMain, Request, DogsOf
<1>8. CASE Cancel \/ Install
  <2>1. CASE UNCHANGED <<pc, known, alive>>
    BY <2>1 DEF DogsOf
  <2>2. CASE Start({"daemon"}) /\ alive' = alive
    BY <2>2, StartKnows DEF Services
  <2>3. CASE Start(Services) /\ alive' = alive
    BY <2>3, StartKnows
  <2> QED
    BY <1>8, <2>1, <2>2, <2>3 DEF Cancel, Install
<1>9. CASE UNCHANGED vars
  BY <1>9 DEF vars, DogsOf
<1> QED
  BY <1>1, <1>2, <1>3, <1>4, <1>5, <1>6, <1>7, <1>8, <1>9 DEF Next

\* A manager knows every living watchdog with an id of its own.
THEOREM ManagersKnow == Spec => []KnowsItsDogs
<1>1. Init => KnowsItsDogs
  BY DEF Init, KnowsItsDogs, Services
<1> QED
  BY <1>1, InitTypes, StepTypes, StepKnows, PTL DEF Spec

-----------------------------------------------------------------------------
(* A calm setup.                                                           *)

\* Nothing is left to start a service while a setup is calm.
LEMMA NothingStarts ==
    ASSUME TypeOK, CalmSetup, setup # "idle", calm, NEW d \in Dogs, DogStarts(d)
    PROVE  UNCHANGED <<status, pc>>
<1>1. PICK s \in Services : d \in alive /\ Start({s})
  BY DEF DogStarts
<1>2. status[s] # "stopped"
  BY <1>1 DEF CalmSetup
<1>3. {t \in {s} : status[t] = "stopped"} = {}
  BY <1>2
<1> QED
  BY <1>1, <1>3 DEF Start, TypeOK

LEMMA StepCalm == TypeOK /\ CalmSetup /\ [Next]_vars => CalmSetup'
<1> SUFFICES ASSUME TypeOK, CalmSetup, [Next]_vars, setup' # "idle", calm'
             PROVE  CalmSetup'
  BY DEF CalmSetup
<1> USE DEF CalmSetup, Running, Installing, InstallSteps
<1>1. ASSUME NEW s \in Services, Manage(s) PROVE CalmSetup'
  <2>1. setup # "idle" /\ calm /\ setup' = setup /\ status' = status
    BY <1>1 DEF Manage, DeleteToken, Scan, Check, EndManager, Verify, Create
  <2>2. pc[s] \in {"loop", "verify", "off"}
    BY <2>1
  <2>3. CASE Check(s) \/ EndManager(s)
    BY <2>1, <2>3 DEF Check, EndManager, Step, TypeOK, Valid
  <2>4. CASE Verify(s)
    <3>1. Valid
      BY <2>1, <2>4 DEF Verify, Step
    <3> QED
      BY <2>1, <2>4, <3>1 DEF Verify, Step, TypeOK, Valid
  <2> QED
    BY <1>1, <2>2, <2>3, <2>4 DEF Manage, DeleteToken, Scan, Create, Step
<1>2. ASSUME NEW s \in Services, Stop(s) PROVE CalmSetup'
  <2>1. setup # "idle" /\ calm /\ UNCHANGED <<setup, pc, token>>
    BY <1>2 DEF Stop, KillDogs, Stopped
  <2>2. /\ \A t \in Services : Running(t)' => Running(t)
        /\ \A t \in Services : (status[t] \in {"ending", "stopped"})' => alive' = {}
    <3>1. CASE KillDogs(s)
      BY <3>1 DEF KillDogs, TypeOK
    <3>2. CASE Stopped(s)
      BY <2>1, <3>2 DEF Stopped, TypeOK
    <3> QED
      BY <1>2, <3>1, <3>2 DEF Stop
  <2> QED
    BY <2>1, <2>2 DEF Valid, Services
<1>3. ASSUME NEW d \in Dogs, Watch(d) PROVE CalmSetup'
  <2>1. setup # "idle" /\ calm /\ UNCHANGED <<setup, token, alive>>
    BY <1>3 DEF Watch, DogLooks, DogLocks, DogStarts
  <2>2. UNCHANGED <<status, pc>>
    BY <1>3, <2>1, NothingStarts DEF Watch, DogLooks, DogLocks
  <2> QED
    BY <2>1, <2>2 DEF Valid
<1>4. ASSUME Fault PROVE FALSE
  BY <1>4 DEF Fault
<1>5. CASE WriteToken
  <2>1. /\ Settled /\ token' = TokenLife /\ setup' = "daemon"
        /\ UNCHANGED <<status, pc>>
    BY <1>5 DEF WriteToken
  <2> QED
    BY <2>1, SupervisionAssumption DEF Settled, Valid
<1>6. CASE Tick
  <2>1. /\ setup # "idle" /\ calm /\ UNCHANGED <<status, pc, alive, setup>>
        /\ token = 1 => Installing /\ \A s \in Services : pc[s] = "off"
    BY <1>6 DEF Tick
  <2>2. Valid' \/ token = 1
    BY <1>6 DEF Tick, Valid, TypeOK
  <2> QED
    BY <2>1, <2>2
<1>7. CASE StopDaemon
  BY <1>7 DEF StopDaemon, Request, Services, TypeOK, Valid
<1>8. CASE StopMain \/ RemoveDaemon \/ RemoveMain
  BY <1>8 DEF StopMain, RemoveDaemon, RemoveMain, Request, Services, TypeOK, Valid
<1>9. CASE UNCHANGED vars
  BY <1>9 DEF vars, Valid
<1> QED
  BY <1>1, <1>2, <1>3, <1>4, <1>5, <1>6, <1>7, <1>8, <1>9
  DEF Next, Crash, DogDies, MainFails, StopFails, Cancel, Install

\* Nobody restarts what a calm setup has stopped, for any number of watchdogs
\* and any life of the token.
THEOREM SetupIsObeyed == Spec => []SetupHolds
<1>1. Init => CalmSetup
  BY DEF Init, CalmSetup
<1>2. TypeOK /\ CalmSetup => SetupHolds
  BY DEF CalmSetup, SetupHolds, Services, Running, TypeOK, Installing, InstallSteps
<1> QED
  BY <1>1, <1>2, InitTypes, StepTypes, StepCalm, PTL DEF Spec

=============================================================================
