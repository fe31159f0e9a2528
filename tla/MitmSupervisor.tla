--------------------------- MODULE MitmSupervisor ---------------------------
(***************************************************************************)
(* How the main service (main_service.py) keeps mitmdump running.          *)
(*                                                                         *)
(* Three threads start and stop it, and no lock orders them:               *)
(*   main     SvcDoRun: starts it, then restarts it when it has ended;     *)
(*   socket   start_socket: stops and starts it for each RESTART;          *)
(*   stopper  SvcStop with a valid token, which stops everything.          *)
(* They share self.mitmproxy_process and read it again and again, so a     *)
(* thread may find None where it saw a process one statement before.  That *)
(* raises AttributeError: in main the service stops, in socket the thread  *)
(* ends, in stopper the rest of the cleaning up is skipped.  The sweeps    *)
(* over all processes raise OSError when a process has ended before it is  *)
(* killed, which socket_listener, and nothing else, survives.              *)
(*                                                                         *)
(* Reading the output of mitmdump is left out.                             *)
(***************************************************************************)
EXTENDS ProxyConfig, FiniteSets

CONSTANTS
    MaxProcs,     \* bound on the processes that exist or are referred to
    MaxEnds,      \* bound on the processes that end by themselves
    MaxRestarts,  \* bound on the RESTARTs that are sent
    StartMayFail  \* whether reading the settings and Popen may raise

ASSUME SupervisorAssumption ==
    /\ MaxProcs \in Nat /\ MaxEnds \in Nat /\ MaxRestarts \in Nat
    /\ StartMayFail \in BOOLEAN

Threads   == {"main", "socket", "stopper"}
Ids       == 1 .. MaxProcs
NoProcess == 0

VARIABLES
    alive,    \* the mitmdump processes that exist
    proc,     \* self.mitmproxy_process: an id, perhaps of a dead process
    running,  \* self.running, which is also ~stop_event
    closing,  \* main runs stop() after an exception
    pending,  \* a RESTART waits in the backlog of the socket
    pc,       \* what each thread does next
    cmd,      \* the command each thread puts together
    found,    \* the processes each thread is about to kill
    cut,      \* history: an exception has cut stop() short
    failed,   \* history: the last Popen, or since then a RESTART, has failed
    raced,    \* history: main had read settings when the last RESTART was taken
    ends,     \* processes that have ended by themselves
    restarts  \* RESTARTs that have been sent

service == <<running, closing, cut, failed>>      \* changed by Raise, with found
others  == <<raced, ends, restarts>>
vars    == <<configVars, alive, proc, pending, pc, cmd, found, service, others>>

Process == [id : Ids, cmd : Command, up : BOOLEAN, late : BOOLEAN]

IdsOf(S)  == {p.id : p \in S}
IsAlive(i) == i \in IdsOf(alive)
Taken     == {p.cmd.port : p \in {q \in alive : q.up}}
At(t, step)   == pc[t] = step
Goto(t, step) == pc' = [pc EXCEPT ![t] = step]
Up        == ~At("main", "down")

\* The thread runs stop().
Closes(t) == t = "stopper" \/ (t = "main" /\ closing)

AfterSweep(t) == IF Closes(t) THEN "stopped" ELSE "port"
AfterStart(t) == IF t = "main" THEN "loop" ELSE "accept"

NoCommand == [port |-> DefaultPort, instead |-> FALSE, enable |-> FALSE, server |-> None]

Init ==
    /\ ConfigInit
    /\ alive = {} /\ proc = NoProcess /\ running = FALSE /\ closing = FALSE
    /\ pending = FALSE
    /\ pc = [t \in Threads |-> "down"]
    /\ cmd = [t \in Threads |-> NoCommand]
    /\ found = [t \in Threads |-> {}]
    /\ cut = FALSE /\ failed = FALSE /\ raced = FALSE
    /\ ends = 0 /\ restarts = 0

-----------------------------------------------------------------------------
(* The service process.                                                    *)

\* SvcDoRun begins with terminate_mitm_processes.
Start ==
    /\ ~Up
    /\ running' = TRUE
    /\ pc' = [t \in Threads |-> IF t = "main" THEN "sweep" ELSE "down"]
    /\ UNCHANGED <<configVars, alive, proc, closing, pending, cmd, found, cut, failed, others>>

\* The process ends after stop(), or is killed; its mitmdump processes stay.
ProcessEnds ==
    /\ Up
    /\ proc' = NoProcess /\ running' = FALSE /\ closing' = FALSE /\ pending' = FALSE
    /\ pc' = [t \in Threads |-> "down"]
    /\ cmd' = [t \in Threads |-> NoCommand]
    /\ found' = [t \in Threads |-> {}]
    /\ cut' = FALSE /\ failed' = FALSE /\ raced' = FALSE
    /\ UNCHANGED <<configVars, alive, ends, restarts>>

\* SvcStop with a valid token: stop() ends the loops and stops mitmdump first.
SvcStop ==
    /\ Up /\ At("stopper", "down")
    /\ running' = FALSE
    /\ Goto("stopper", "stop")
    /\ UNCHANGED <<configVars, alive, proc, closing, pending, cmd, found, cut, failed, others>>

\* Mutant: main logs the exception and goes on with its loop.
RaiseCaught(t, survived) ==
    /\ cut' = (cut \/ Closes(t))
    /\ failed' = (failed \/ t = "socket")
    /\ Goto(t, IF Closes(t) THEN "stopped" ELSE
               IF t = "main" THEN "loop" ELSE
               IF survived /\ running THEN "accept" ELSE "dead")
    /\ found' = [found EXCEPT ![t] = {}]
    /\ UNCHANGED <<running, closing>>

\* An exception leaves stop_mitmproxy or start_mitmproxy.  An OSError passes in
\* socket_listener for an error of its socket, and it goes on listening.
Raise(t, survived) ==
    /\ running' = (running /\ t # "main")
    /\ closing' = (closing \/ t = "main")
    /\ cut' = (cut \/ Closes(t))
    /\ failed' = (failed \/ t = "socket")
    /\ Goto(t, IF Closes(t) THEN "stopped" ELSE
               IF t = "main" THEN "stop" ELSE
               IF survived /\ running THEN "accept" ELSE "dead")
    /\ found' = [found EXCEPT ![t] = {}]

-----------------------------------------------------------------------------
(* stop_mitmproxy                                                          *)

\* Is there a process to stop?
Stop(t) ==
    /\ At(t, "stop")
    /\ Goto(t, IF proc = NoProcess THEN "sweep" ELSE "terminate")
    /\ UNCHANGED <<configVars, alive, proc, pending, cmd, found, service, others>>

\* self.mitmproxy_process is read again by terminate, wait and kill.
Kill(t, next) ==
    IF proc = NoProcess
    THEN Raise(t, FALSE) /\ UNCHANGED alive
    ELSE /\ alive' = {p \in alive : p.id # proc}
         /\ Goto(t, next)
         /\ UNCHANGED <<found, service>>

Terminate(t) ==
    /\ At(t, "terminate")
    /\ Kill(t, "wait")
    /\ UNCHANGED <<configVars, proc, pending, cmd, others>>

\* A process that has not ended after ten seconds (another thread's new one)
\* is killed.
Wait(t) ==
    /\ At(t, "wait")
    /\ IF proc = NoProcess
       THEN Raise(t, FALSE)
       ELSE /\ Goto(t, IF IsAlive(proc) THEN "kill" ELSE "forget")
            /\ UNCHANGED <<found, service>>
    /\ UNCHANGED <<configVars, alive, proc, pending, cmd, others>>

ForceKill(t) ==
    /\ At(t, "kill")
    /\ Kill(t, "forget")
    /\ UNCHANGED <<configVars, proc, pending, cmd, others>>

Forget(t) ==
    /\ At(t, "forget")
    /\ proc' = NoProcess
    /\ Goto(t, "sweep")
    /\ UNCHANGED <<configVars, alive, pending, cmd, found, service, others>>

\* After boot the socket thread is started before mitmdump is.
Swept(t) ==
    pc' = [pc EXCEPT ![t] = AfterSweep(t),
                     !["socket"] = IF t = "main" /\ @ = "down" /\ ~closing THEN "accept" ELSE
                                   IF t = "socket" THEN AfterSweep(t) ELSE @]

\* All mitmdump processes are looked up ...
Sweep(t) ==
    /\ At(t, "sweep")
    /\ IF alive = {}
       THEN Swept(t) /\ UNCHANGED found
       ELSE Goto(t, "killAll") /\ found' = [found EXCEPT ![t] = IdsOf(alive)]
    /\ UNCHANGED <<configVars, alive, proc, pending, cmd, service, others>>

\* Mutant: one of them is left.
KillAllButOne(t) ==
    /\ At(t, "killAll")
    /\ \E p \in alive : alive' = {q \in alive : q.id \notin found[t]} \cup {p}
    /\ Swept(t) /\ found' = [found EXCEPT ![t] = {}]
    /\ UNCHANGED <<configVars, proc, pending, cmd, service, others>>

\* ... and killed.
KillAll(t) ==
    /\ At(t, "killAll") /\ found[t] \subseteq IdsOf(alive)
    /\ alive' = {p \in alive : p.id \notin found[t]}
    /\ Swept(t) /\ found' = [found EXCEPT ![t] = {}]
    /\ UNCHANGED <<configVars, proc, pending, cmd, service, others>>

\* One of them has ended meanwhile: os.kill raises, after some kills.
KillRaises(t) ==
    /\ At(t, "killAll") /\ ~(found[t] \subseteq IdsOf(alive))
    /\ \E killed \in SUBSET found[t] : alive' = {p \in alive : p.id \notin killed}
    /\ Raise(t, TRUE)
    /\ UNCHANGED <<configVars, proc, pending, cmd, others>>

-----------------------------------------------------------------------------
(* start_mitmproxy                                                         *)

\* Mutant: the configured port never passes for a free one.
PortCommandDefault == NoCommand

\* The configured port, or the default one if that is taken: by a mitmdump that
\* another thread has started since this one has swept.
PortCommand ==
    IF conf.port \in Taken /\ conf.port # DefaultPort
    THEN [NoCommand EXCEPT !.instead = TRUE]
    ELSE [NoCommand EXCEPT !.port = conf.port]

ReadPort(t) ==
    /\ At(t, "port")
    /\ cmd' = [cmd EXCEPT ![t] = PortCommand]
    /\ Goto(t, "enable")
    /\ UNCHANGED <<configVars, alive, proc, pending, found, service, others>>

ReadEnable(t) ==
    /\ At(t, "enable")
    /\ cmd' = [cmd EXCEPT ![t].enable = conf.enable]
    /\ Goto(t, IF conf.enable THEN "server" ELSE "popen")
    /\ UNCHANGED <<configVars, alive, proc, pending, found, service, others>>

ReadServer(t) ==
    /\ At(t, "server")
    /\ cmd' = [cmd EXCEPT ![t].server = conf.server]
    /\ Goto(t, "popen")
    /\ UNCHANGED <<configVars, alive, proc, pending, found, service, others>>

\* The reads are outside the "try" of start_mitmproxy.
ReadFails(t) ==
    /\ StartMayFail
    /\ pc[t] \in {"port", "enable", "server"}
    /\ Raise(t, FALSE)
    /\ cmd' = [cmd EXCEPT ![t] = NoCommand]
    /\ UNCHANGED <<configVars, alive, proc, pending, others>>

\* The least id that nothing refers to.
Free  == {i \in Ids : i # proc /\ ~IsAlive(i) /\ \A t \in Threads : i \notin found[t]}

Fresh == CHOOSE i \in Free : \A j \in Free : i <= j

\* The thread then waits five seconds, only to log whether the process still
\* runs.
Popen(t) ==
    /\ At(t, "popen") /\ Free # {}
    /\ alive' = alive \cup {[id |-> Fresh, cmd |-> cmd[t], up |-> FALSE, late |-> ~running]}
    /\ proc' = Fresh
    /\ failed' = FALSE
    /\ cmd' = [cmd EXCEPT ![t] = NoCommand]
    /\ Goto(t, AfterStart(t))
    /\ UNCHANGED <<configVars, pending, found, running, closing, cut, others>>

\* The exception is logged, and the thread goes on.
PopenFails(t) ==
    /\ StartMayFail
    /\ At(t, "popen")
    /\ failed' = TRUE
    /\ cmd' = [cmd EXCEPT ![t] = NoCommand]
    /\ Goto(t, AfterStart(t))
    /\ UNCHANGED <<configVars, alive, proc, pending, found, running, closing, cut, others>>

-----------------------------------------------------------------------------
(* _run_main_loop and socket_listener                                      *)

LoopLook ==
    /\ At("main", "loop") /\ running /\ proc # NoProcess
    /\ Goto("main", "poll")
    /\ UNCHANGED <<configVars, alive, proc, pending, cmd, found, service, others>>

\* Mutant: a process that has ended is taken for one that runs.
PollNever ==
    /\ At("main", "poll")
    /\ IF proc = NoProcess
       THEN Raise("main", FALSE)
       ELSE /\ Goto("main", "loop")
            /\ UNCHANGED <<found, service>>
    /\ UNCHANGED <<configVars, alive, proc, pending, cmd, others>>

Poll ==
    /\ At("main", "poll")
    /\ IF proc = NoProcess
       THEN Raise("main", FALSE)
       ELSE /\ Goto("main", IF IsAlive(proc) THEN "loop" ELSE "stop")
            /\ UNCHANGED <<found, service>>
    /\ UNCHANGED <<configVars, alive, proc, pending, cmd, others>>

\* A RESTART that waits is taken even when the service is stopping.
Accept ==
    /\ At("socket", "accept") /\ pending
    /\ pending' = FALSE
    /\ raced' = (pc["main"] \in {"enable", "server", "popen"})
    /\ Goto("socket", "stop")
    /\ UNCHANGED <<configVars, alive, proc, cmd, found, ends, restarts, service>>

Leave ==
    /\ At("socket", "accept") /\ ~running
    /\ Goto("socket", "dead")
    /\ UNCHANGED <<configVars, alive, proc, pending, cmd, found, service, others>>

-----------------------------------------------------------------------------
(* The tool and mitmdump itself.                                           *)

\* send_restart_command: refused when the service is down or one waits already.
SendRestart ==
    /\ Up /\ ~enabling /\ ~pending
    /\ restarts < MaxRestarts /\ restarts' = restarts + 1
    /\ pending' = TRUE /\ dirty' = FALSE
    /\ UNCHANGED <<conf, enabling, changes, alive, proc, pc, cmd, found, raced, ends, service>>

Configure ==
    /\ ConfigStep(Taken)
    /\ UNCHANGED <<alive, proc, pending, pc, cmd, found, service, others>>

\* mitmdump listens on its port, or ends because the port is taken or its
\* upstream server is "None".
Bind(i) ==
    /\ \E p \in alive :
          /\ p.id = i /\ ~p.up
          /\ alive' = (alive \ {p}) \cup
                        IF p.cmd.port \in Taken \/ (p.cmd.enable /\ p.cmd.server = None)
                        THEN {} ELSE {[p EXCEPT !.up = TRUE]}
    /\ UNCHANGED <<configVars, proc, pending, pc, cmd, found, service, others>>

End(i) ==
    /\ ends < MaxEnds /\ IsAlive(i)
    /\ alive' = {p \in alive : p.id # i}
    /\ ends' = ends + 1
    /\ UNCHANGED <<configVars, proc, pending, pc, cmd, found, raced, restarts, service>>

-----------------------------------------------------------------------------
Stopping(t) == Stop(t) \/ Terminate(t) \/ Wait(t) \/ ForceKill(t) \/ Forget(t)
                 \/ Sweep(t) \/ KillAll(t) \/ KillRaises(t)
Starting(t) == ReadPort(t) \/ ReadEnable(t) \/ ReadServer(t) \/ ReadFails(t)
                 \/ Popen(t) \/ PopenFails(t)
Looping(t)  == \/ t = "main" /\ (LoopLook \/ Poll)
               \/ t = "socket" /\ (Accept \/ Leave)
Step(t)     == Stopping(t) \/ Starting(t) \/ Looping(t)

Next ==
    \/ Start \/ ProcessEnds \/ SvcStop
    \/ \E t \in Threads : Step(t)
    \/ SendRestart \/ Configure
    \/ \E i \in Ids : Bind(i) \/ End(i)

Spec == Init /\ [][Next]_vars

\* The threads of the service run, and mitmdump comes up or ends.  Nothing
\* makes the user, a token or a crash come.
Fairness ==
    /\ \A t \in Threads : WF_vars(Step(t))
    /\ \A i \in Ids : WF_vars(Bind(i))

FairSpec == Spec /\ Fairness

-----------------------------------------------------------------------------
(* Properties.                                                             *)

Steps == {"down", "loop", "poll", "accept", "dead", "stop", "terminate", "wait", "kill",
          "forget", "sweep", "killAll", "port", "enable", "server", "popen", "stopped"}

\* Every variable holds a value of its type.
TypeOK ==
    /\ ConfigTypeOK
    /\ alive \subseteq Process /\ proc \in Ids \cup {NoProcess}
    /\ \A p, q \in alive : p.id = q.id => p = q
    /\ {running, closing, pending, cut, failed, raced} \subseteq BOOLEAN
    /\ pc \in [Threads -> Steps]
    /\ cmd \in [Threads -> Command]
    /\ found \in [Threads -> SUBSET Ids]
    /\ ends \in 0 .. MaxEnds /\ restarts \in 0 .. MaxRestarts

\* The thread will start mitmdump unless an exception stops it.
Coming(t) == ~Closes(t) /\ pc[t] \in {"sweep", "killAll", "port", "enable", "server", "popen"}

\* While the service runs, mitmproxy_process is None only on the way to a new
\* process: the main loop never starts mitmdump again once it is None.  Two
\* things break this, a Popen that fails and an exception in the socket thread
\* after it has set None.
NeverForgotten ==
    running /\ ~failed =>
        proc # NoProcess \/ \E t \in Threads : Coming(t)

ServiceStopped == \E t \in Threads : At(t, "stopped")

\* A stop() that no exception cuts short leaves no mitmdump process that was
\* started before it, however many threads have started and lost one.
StopKillsEarlier ==
    ServiceStopped /\ ~cut => \A p \in alive : p.late

\* SvcStop closes all resources and threads (main_service.py:149): when the
\* service has stopped and no exception has cut stop() short, no mitmdump
\* process is left.
StopsProxy == ServiceStopped /\ ~cut => alive = {}

\* The service stays up, starting mitmdump does not fail, and the settings name
\* the upstream server they enable ("upstream enable" after setopt and before
\* delopt leaves none: mitmdump is then started with "upstream:None" and ends).
Healthy == /\ running /\ ~failed /\ ~At("socket", "dead")
           /\ conf.enable => conf.server # None
OnePerPort == \A p, q \in alive : p.cmd.port = q.cmd.port => p = q
KnownRuns  == \E p \in alive : p.id = proc /\ p.up

\* Although three threads start and stop mitmdump without a lock, overwrite
\* mitmproxy_process and lose processes: if the service at last stays healthy,
\* at last the mitmdump it knows runs, and none competes with another.  A lost
\* one may live beside it, on the port it had before the port was changed, or on
\* the configured one while the known one fell back on the default port.
SettlesOnOne == <>[]Healthy => <>[](KnownRuns /\ OnePerPort)

Served == \E p \in alive : p.up /\ p.id = proc /\ Follows(p.cmd)

\* The last RESTART counts: if the user has sent one after the last change and
\* the service at last stays healthy, the mitmdump it knows at last runs with
\* the settings of the database, on the configured port, or on the default one
\* if another start had taken that.  The exception is a RESTART that is taken
\* while main, with settings it has read before, is about to start mitmdump.
LatestConfigServed == <>[](Healthy /\ ~dirty /\ ~pending /\ ~raced) => <>[]Served

=============================================================================
