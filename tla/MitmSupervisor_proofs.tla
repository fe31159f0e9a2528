----------------------- MODULE MitmSupervisor_proofs -----------------------
(***************************************************************************)
(* Proofs about MitmSupervisor, for any ports, servers and bounds: the     *)
(* main service never forgets mitmdump but in the two ways it can, and a   *)
(* stop() that runs to its end leaves nothing that was started before it.  *)
(* Two mitmdump processes at once take a RESTART.                          *)
(***************************************************************************)
EXTENDS MitmSupervisor, WellFoundedInduction, TLAPS

\* Nobody runs stop() while the service runs, and nobody else ends in it; no
\* thread runs when the process is down.
Phases ==
    /\ running => At("stopper", "down") /\ ~closing
    /\ Up \/ (~closing /\ \A t \in Threads : At(t, "down"))
    /\ \A t \in Threads : At(t, "stopped") => Closes(t)

\* A thread that runs stop() and is about to kill has found all processes that
\* were started before stop().
FoundAll ==
    \A t \in Threads : Closes(t) /\ At(t, "killAll") =>
        \A p \in alive : p.late \/ p.id \in found[t]

-----------------------------------------------------------------------------
(* Type correctness.                                                       *)

RowOK(c) == c.type = "absent" <=> c.server = None

LEMMA ConfigTypes ==
    ASSUME ConfigTypeOK, NEW taken, ConfigStep(taken)
    PROVE  ConfigTypeOK'
<1> USE DEF ConfigTypeOK
<1>1. changes' \in 0 .. MaxChanges
  <2>1. changes' = changes \/ (changes < MaxChanges /\ changes' = changes + 1)
    BY DEF ConfigStep, Write, CmdPort, CmdUpstream, CmdUpstreamSwitch,
       CmdUpstreamEnable, CmdUpstreamDisable, CmdSetopt, CmdDelopt
  <2> QED
    BY <2>1, ConfigAssumption
<1>3. {enabling, dirty}' \subseteq BOOLEAN
  <2>1. enabling' \in {enabling, TRUE, FALSE} /\ dirty' = TRUE
    BY DEF ConfigStep, Write, CmdPort, CmdUpstream, CmdUpstreamSwitch,
       CmdUpstreamEnable, CmdUpstreamDisable, CmdSetopt, CmdDelopt
  <2> QED
    BY <2>1
<1>2. conf' \in Config /\ RowOK(conf')
  <2> USE DEF Config, RowOK
  <2>1. CASE CmdPort(taken)
    BY <2>1 DEF CmdPort, Write
  <2>2. CASE CmdUpstream \/ CmdSetopt
    <3>1. PICK s \in Servers, k \in {"setting", "option"} :
             conf' = [conf EXCEPT !.server = s, !.type = k]
      BY <2>2 DEF CmdUpstream, CmdSetopt, Write
    <3>2. conf' = [port |-> conf.port, enable |-> conf.enable, server |-> s, type |-> k]
      BY <3>1
    <3> QED
      BY <3>2, ConfigAssumption DEF Types
  <2>3. CASE CmdUpstreamSwitch \/ CmdUpstreamEnable \/ CmdUpstreamDisable
    BY <2>3 DEF CmdUpstreamSwitch, CmdUpstreamEnable, CmdUpstreamDisable, Write
  <2>4. CASE CmdDelopt
    <3>1. conf' = [port |-> conf.port, enable |-> conf.enable, server |-> None, type |-> "absent"]
      BY <2>4 DEF CmdDelopt, Write
    <3> QED
      BY <3>1 DEF Types
  <2> QED
    BY <2>1, <2>2, <2>3, <2>4 DEF ConfigStep
<1> QED
  BY <1>1, <1>2, <1>3 DEF RowOK

\* The id of a new process is one that no process has.
LEMMA FreshIsFree ==
    ASSUME Free # {}
    PROVE  Fresh \in Free
<1>1. Free \subseteq Nat
  BY SupervisorAssumption DEF Free, Ids
<1>2. PICK m \in Free : \A k \in Free : <<k, m>> \notin OpToRel(<, Nat)
  BY <1>1, WFMin, NatLessThanWellFounded, Zenon
<1>3. \A k \in Free : ~(k < m)
  BY <1>1, <1>2, Zenon DEF OpToRel
<1>4. \A k \in Free : m <= k
  BY <1>1, <1>3
<1> QED
  BY <1>4 DEF Fresh

\* What concerns the processes, and what concerns the rest.
ProcessTypeOK ==
    /\ alive \subseteq Process
    /\ \A p, q \in alive : p.id = q.id => p = q

ThreadTypeOK ==
    /\ proc \in Ids \cup {NoProcess}
    /\ {running, closing, pending, cut, failed, raced} \subseteq BOOLEAN
    /\ pc \in [Threads -> Steps]
    /\ cmd \in [Threads -> Command]
    /\ found \in [Threads -> SUBSET Ids]
    /\ ends \in 0 .. MaxEnds /\ restarts \in 0 .. MaxRestarts

LEMMA InitTypes == Init => TypeOK
<1> SUFFICES ASSUME Init PROVE TypeOK
  OBVIOUS
<1>1. ConfigTypeOK
  <2>1. changes \in 0 .. MaxChanges
    BY ConfigAssumption DEF Init, ConfigInit
  <2>2. {enabling, dirty} \subseteq BOOLEAN
    BY DEF Init, ConfigInit
  <2> QED
    BY <2>1, <2>2 DEF Init, ConfigInit, ConfigTypeOK
<1>2. NoCommand \in Command
  BY ConfigAssumption DEF NoCommand, Command
<1>3. pc \in [Threads -> Steps] /\ cmd \in [Threads -> Command] /\ found \in [Threads -> SUBSET Ids]
  BY <1>2 DEF Init, Steps
<1>4. {running, closing, pending, cut, failed, raced} \subseteq BOOLEAN
  BY DEF Init
<1>5. ends \in 0 .. MaxEnds /\ restarts \in 0 .. MaxRestarts
  BY SupervisorAssumption DEF Init
<1> QED
  BY <1>1, <1>3, <1>4, <1>5 DEF Init, TypeOK

LEMMA StoppingTypes ==
    ASSUME TypeOK, NEW t \in Threads, Stopping(t)
    PROVE  TypeOK'
<1>1. ConfigTypeOK'
  BY DEF TypeOK, ConfigTypeOK, configVars, Stopping, Stop, Terminate, Wait, ForceKill, Forget,
         Sweep, KillAll, KillRaises
<1>2. alive' \subseteq alive
  BY DEF Stopping, Stop, Terminate, Wait, ForceKill, Kill, Forget, Sweep, KillAll, KillRaises
<1>3. ThreadTypeOK'
  <2>1. pc' \in [Threads -> Steps]
    BY DEF TypeOK, Stopping, Stop, Terminate, Wait, ForceKill, Kill, Raise, Goto, Forget, Sweep,
           Swept, AfterSweep, KillAll, KillRaises, Steps, Threads
  <2>2. found' \in [Threads -> SUBSET Ids]
    BY DEF TypeOK, Stopping, Stop, Terminate, Wait, ForceKill, Kill, Raise, Forget, Sweep,
           KillAll, KillRaises, IdsOf, Process
  <2>3. {running, closing, cut, failed}' \subseteq BOOLEAN
    BY DEF TypeOK, Stopping, Stop, Terminate, Wait, ForceKill, Kill, Raise, Forget, Sweep,
           KillAll, KillRaises, Closes, service
  <2>4. /\ proc' \in {proc, NoProcess}
        /\ cmd' = cmd /\ pending' = pending /\ others' = others
    BY DEF Stopping, Stop, Terminate, Wait, ForceKill, Forget, Sweep, KillAll, KillRaises
  <2> QED
    BY <2>1, <2>2, <2>3, <2>4 DEF TypeOK, ThreadTypeOK, others
<1> QED
  BY <1>1, <1>2, <1>3 DEF TypeOK, ThreadTypeOK

LEMMA StartingTypes ==
    ASSUME TypeOK, NEW t \in Threads, Starting(t)
    PROVE  TypeOK'
<1>1. ConfigTypeOK'
  BY DEF TypeOK, ConfigTypeOK, configVars, Starting, ReadPort, ReadEnable, ReadServer, ReadFails,
         Popen, PopenFails
<1>2. NoCommand \in Command
  BY ConfigAssumption DEF NoCommand, Command
<1>3. CASE Popen(t)
  <2>1. Fresh \in Ids /\ ~IsAlive(Fresh)
    BY <1>3, FreshIsFree DEF Popen, Free
  <2>2. cmd[t] \in Command /\ running \in BOOLEAN
    BY DEF TypeOK
  <2> DEFINE new == [id |-> Fresh, cmd |-> cmd[t], up |-> FALSE, late |-> ~running]
  <2>3. new \in Process
    BY <2>1, <2>2 DEF Process
  <2>4. alive' = alive \cup {new} /\ new.id = Fresh
    BY <1>3 DEF Popen
  <2>5. \A p \in alive : p.id # Fresh
    BY <2>1 DEF IsAlive, IdsOf
  <2>6. ProcessTypeOK'
    <3> HIDE DEF new
    <3> QED
      BY <2>3, <2>4, <2>5 DEF TypeOK, ProcessTypeOK
  <2>7. ThreadTypeOK'
    BY <1>2, <1>3, <2>1
       DEF TypeOK, ThreadTypeOK, Popen, Goto, AfterStart, Steps, others
  <2> QED
    BY <1>1, <2>6, <2>7 DEF TypeOK, ProcessTypeOK, ThreadTypeOK
<1>4. CASE PopenFails(t)
  BY <1>1, <1>2, <1>4 DEF TypeOK, PopenFails, Goto, AfterStart, Steps, others
<1>5. CASE ReadFails(t)
  <2>1. {running, closing, cut, failed}' \subseteq BOOLEAN
    BY <1>5 DEF TypeOK, ReadFails, Raise, Closes
  <2>2. pc' \in [Threads -> Steps]
    BY <1>5 DEF TypeOK, ReadFails, Raise, Goto, Steps
  <2>3. cmd' \in [Threads -> Command] /\ found' \in [Threads -> SUBSET Ids]
    BY <1>2, <1>5 DEF TypeOK, ReadFails, Raise
  <2> QED
    BY <1>1, <1>5, <2>1, <2>2, <2>3 DEF TypeOK, ReadFails, others
<1>6. CASE ReadPort(t) \/ ReadEnable(t) \/ ReadServer(t)
  <2>1. cmd' \in [Threads -> Command]
    <3>1. CASE ReadPort(t)
      BY <1>2, <3>1, ConfigAssumption DEF TypeOK, ConfigTypeOK, Config, ReadPort, PortCommand, NoCommand, Command
    <3>2. CASE ReadEnable(t)
      BY <3>2 DEF TypeOK, ConfigTypeOK, Config, ReadEnable, Command
    <3>3. CASE ReadServer(t)
      BY <3>3 DEF TypeOK, ConfigTypeOK, Config, ReadServer, Command
    <3> QED
      BY <1>6, <3>1, <3>2, <3>3
  <2>2. pc' \in [Threads -> Steps]
    BY <1>6 DEF TypeOK, ReadPort, ReadEnable, ReadServer, Goto, Steps
  <2>3. UNCHANGED <<alive, proc, pending, found, service, others>>
    BY <1>6 DEF ReadPort, ReadEnable, ReadServer
  <2> QED
    BY <1>1, <2>1, <2>2, <2>3 DEF TypeOK, service, others
<1> QED
  BY <1>3, <1>4, <1>5, <1>6 DEF Starting

LEMMA OtherTypes ==
    ASSUME TypeOK,
           \/ Start \/ ProcessEnds \/ SvcStop \/ SendRestart \/ Configure
           \/ \E t \in Threads : Looping(t)
           \/ \E i \in Ids : Bind(i) \/ End(i)
    PROVE  TypeOK'
<1>1. CASE Start \/ ProcessEnds \/ SvcStop
  <2>1. NoCommand \in Command
    BY ConfigAssumption DEF NoCommand, Command
  <2>2. ConfigTypeOK' /\ alive' = alive /\ ends' = ends /\ restarts' = restarts
    BY <1>1 DEF TypeOK, Start, ProcessEnds, SvcStop, ConfigTypeOK, configVars, others
  <2>3. pc' \in [Threads -> Steps]
    BY <1>1 DEF TypeOK, Start, ProcessEnds, SvcStop, Goto, Steps
  <2>4. {running, closing, pending, cut, failed, raced}' \subseteq BOOLEAN
    BY <1>1 DEF TypeOK, Start, ProcessEnds, SvcStop, others
  <2>5. /\ proc' \in Ids \cup {NoProcess}
        /\ cmd' \in [Threads -> Command] /\ found' \in [Threads -> SUBSET Ids]
    BY <1>1, <2>1 DEF TypeOK, Start, ProcessEnds, SvcStop
  <2> QED
    BY <2>2, <2>3, <2>4, <2>5 DEF TypeOK
<1>2. CASE SendRestart
  <2>1. restarts' \in 0 .. MaxRestarts
    BY <1>2, SupervisorAssumption DEF TypeOK, SendRestart
  <2> QED
    BY <1>2, <2>1 DEF TypeOK, SendRestart, ConfigTypeOK, service
<1>3. CASE Configure
  BY <1>3, ConfigTypes DEF TypeOK, Configure, service, others
<1>4. ASSUME NEW t \in Threads, Looping(t)
      PROVE  TypeOK'
  <2>1. ConfigTypeOK' /\ UNCHANGED <<alive, proc, cmd, ends, restarts>>
    BY <1>4 DEF TypeOK, Looping, LoopLook, Poll, Accept, Leave, ConfigTypeOK, configVars, others
  <2>2. pc' \in [Threads -> Steps]
    BY <1>4 DEF TypeOK, Looping, LoopLook, Poll, Accept, Leave, Raise, Goto, Steps
  <2>3. found' \in [Threads -> SUBSET Ids]
    BY <1>4 DEF TypeOK, Looping, LoopLook, Poll, Accept, Leave, Raise
  <2>4. {running, closing, cut, failed}' \subseteq BOOLEAN
    BY <1>4 DEF TypeOK, Looping, LoopLook, Poll, Accept, Leave, Raise, Closes, service
  <2>5. {pending, raced}' \subseteq BOOLEAN
    <3>1. CASE Accept
      <4> DEFINE hasRead == pc["main"] \in {"enable", "server", "popen"}
      <4>1. hasRead \in BOOLEAN
        OBVIOUS
      <4>2. pending' = FALSE /\ raced' = hasRead
        BY <3>1 DEF Accept
      <4> HIDE DEF hasRead
      <4> QED
        BY <4>1, <4>2
    <3>2. CASE LoopLook \/ Poll \/ Leave
      BY <3>2 DEF TypeOK, LoopLook, Poll, Leave, others
    <3> QED
      BY <1>4, <3>1, <3>2 DEF Looping
  <2> QED
    BY <2>1, <2>2, <2>3, <2>4, <2>5 DEF TypeOK
<1>5. ASSUME NEW i \in Ids, Bind(i)
      PROVE  TypeOK'
  <2>1. PICK p \in alive :
           \/ alive' = alive \ {p}
           \/ alive' = (alive \ {p}) \cup {[p EXCEPT !.up = TRUE]}
    BY <1>5 DEF Bind
  <2>2. [p EXCEPT !.up = TRUE] \in Process /\ [p EXCEPT !.up = TRUE].id = p.id
    BY DEF TypeOK, Process
  <2>3. ProcessTypeOK'
    BY <2>1, <2>2 DEF TypeOK, ProcessTypeOK
  <2>4. UNCHANGED <<configVars, proc, pending, pc, cmd, found, service, others>>
    BY <1>5 DEF Bind
  <2> QED
    BY <2>3, <2>4 DEF TypeOK, ProcessTypeOK, ConfigTypeOK, configVars, service, others
<1>6. ASSUME NEW i \in Ids, End(i)
      PROVE  TypeOK'
  <2>1. ends' \in 0 .. MaxEnds
    BY <1>6, SupervisorAssumption DEF TypeOK, End
  <2> QED
    BY <1>6, <2>1 DEF TypeOK, End, ConfigTypeOK, configVars, service
<1>7. (\E t \in Threads : Looping(t)) => TypeOK'
  BY <1>4
<1>8. (\E i \in Ids : Bind(i) \/ End(i)) => TypeOK'
  BY <1>5, <1>6
<1> QED
  BY <1>1, <1>2, <1>3, <1>7, <1>8

LEMMA TypeStep == TypeOK /\ [Next]_vars => TypeOK'
<1> SUFFICES ASSUME TypeOK, [Next]_vars PROVE TypeOK'
  OBVIOUS
<1>1. CASE UNCHANGED vars
  BY <1>1 DEF TypeOK, ConfigTypeOK, vars, configVars, service, others
<1>2. CASE Next
  BY <1>2, StoppingTypes, StartingTypes, OtherTypes DEF Next, Step
<1> QED
  BY <1>1, <1>2

\* Every variable keeps its type, for any ports, servers and bounds.
THEOREM TypeCorrect == Spec => []TypeOK
<1>1. TypeOK /\ [Next]_vars => TypeOK'
  BY TypeStep
<1> QED
  BY InitTypes, <1>1, PTL DEF Spec

-----------------------------------------------------------------------------
(* The phases of the service.                                              *)

LEMMA PhasesStep ==
    ASSUME TypeOK, Phases, Next
    PROVE  Phases'
<1> USE DEF Phases, Closes, Up, At, Goto, TypeOK, Threads
<1>1. CASE Start \/ ProcessEnds \/ SvcStop
  BY <1>1 DEF Start, ProcessEnds, SvcStop
<1>2. CASE SendRestart \/ Configure \/ \E i \in Ids : Bind(i) \/ End(i)
  BY <1>2 DEF SendRestart, Configure, Bind, End, service
<1>3. ASSUME NEW t \in Threads, Stopping(t)
      PROVE  Phases'
  <2>1. CASE Stop(t) \/ Forget(t)
    BY <2>1 DEF Stop, Forget, service
  <2>2. CASE Terminate(t) \/ ForceKill(t) \/ Wait(t) \/ KillRaises(t)
    BY <2>2 DEF Terminate, ForceKill, Kill, Wait, KillRaises, Raise, service
  <2>3. CASE Sweep(t) \/ KillAll(t)
    BY <2>3 DEF Sweep, KillAll, Swept, AfterSweep, service
  <2> QED
    BY <1>3, <2>1, <2>2, <2>3 DEF Stopping
<1>4. ASSUME NEW t \in Threads, Starting(t)
      PROVE  Phases'
  BY <1>4 DEF Starting, ReadPort, ReadEnable, ReadServer, ReadFails, Raise, Popen, PopenFails,
     AfterStart, service
<1>5. ASSUME NEW t \in Threads, Looping(t)
      PROVE  Phases'
  BY <1>5 DEF Looping, LoopLook, Poll, Raise, Accept, Leave, service
<1> QED
  BY <1>1, <1>2, <1>3, <1>4, <1>5 DEF Next, Step

LEMMA InitPhases == Init => Phases
BY DEF Init, Phases, At

-----------------------------------------------------------------------------
(* mitmdump is never forgotten.                                            *)

\* A step of a thread that sets or keeps a process, or is about to start one.
LEMMA ForgottenStep ==
    ASSUME TypeOK, Phases, NeverForgotten, Next
    PROVE  NeverForgotten'
<1>0. /\ DOMAIN pc = Threads /\ pc \in [Threads -> Steps]
      /\ running => closing = FALSE /\ pc["stopper"] = "down"
  BY DEF TypeOK, Phases, At
<1> USE <1>0 DEF NeverForgotten, Coming, Closes, At, Goto
<1>1. CASE Start \/ ProcessEnds \/ SvcStop
  BY <1>1 DEF Start, ProcessEnds, SvcStop, Phases, Up, Threads
<1>2. CASE SendRestart \/ Configure \/ \E i \in Ids : Bind(i) \/ End(i)
  <2>1. UNCHANGED <<running, closing, failed, proc, pc>>
    BY <1>2 DEF SendRestart, Configure, Bind, End, service, others
  <2> QED
    BY <2>1
<1>3. ASSUME NEW t \in Threads, Stopping(t)
      PROVE  NeverForgotten'
  <2>1. CASE Stop(t)
    BY <2>1 DEF Stop, service, others
  <2>2. CASE Forget(t)
    BY <2>2 DEF Forget, service, others, Threads
  <2>3. CASE Terminate(t) \/ ForceKill(t) \/ Wait(t) \/ KillRaises(t)
    <3>1. UNCHANGED proc /\ pc[t] # "down"
      BY <2>3 DEF Terminate, ForceKill, Wait, KillRaises
    <3>2. CASE \E b \in BOOLEAN : Raise(t, b)
      BY <3>1, <3>2 DEF Raise, Threads
    <3>3. CASE ~\E b \in BOOLEAN : Raise(t, b)
      <4>1. proc # NoProcess
        BY <2>3, <3>3 DEF Terminate, ForceKill, Kill, Wait, KillRaises
      <4>2. UNCHANGED <<failed, running>>
        BY <2>3, <3>3 DEF Terminate, ForceKill, Kill, Wait, KillRaises, service
      <4> QED
        BY <3>1, <4>1, <4>2
    <3> QED
      BY <3>2, <3>3
  <2>4. CASE Sweep(t) \/ KillAll(t)
    <3>1. UNCHANGED <<proc, failed, running, closing>>
      BY <2>4 DEF Sweep, KillAll, service, others
    <3>2. running => Coming(t)'
      BY <2>4, <3>1 DEF Sweep, KillAll, Swept, AfterSweep, Threads
    <3> QED
      BY <3>1, <3>2
  <2> QED
    BY <1>3, <2>1, <2>2, <2>3, <2>4 DEF Stopping
<1>4. ASSUME NEW t \in Threads, Starting(t)
      PROVE  NeverForgotten'
  <2>1. CASE ReadPort(t) \/ ReadEnable(t) \/ ReadServer(t)
    <3>1. UNCHANGED <<proc, failed, running, closing>>
      BY <2>1 DEF ReadPort, ReadEnable, ReadServer, service, others
    <3>2. running => Coming(t)'
      BY <2>1, <3>1 DEF ReadPort, ReadEnable, ReadServer, Threads
    <3> QED
      BY <3>1, <3>2
  <2>2. CASE PopenFails(t)
    BY <2>2 DEF PopenFails, service
  <2>3. CASE Popen(t)
    <3>1. Fresh \in Ids
      BY <2>3, FreshIsFree DEF Popen, Free
    <3> QED
      BY <2>3, <3>1, SupervisorAssumption DEF Popen, Ids, NoProcess, service
  <2>4. CASE ReadFails(t)
    BY <2>4 DEF ReadFails, Raise, Threads, others
  <2> QED
    BY <1>4, <2>1, <2>2, <2>3, <2>4 DEF Starting
<1>5. CASE LoopLook
  BY <1>5 DEF LoopLook
<1>6. CASE Poll
  <2>1. CASE Raise("main", FALSE)
    BY <2>1 DEF Raise
  <2>2. CASE ~Raise("main", FALSE)
    BY <1>6, <2>2 DEF Poll
  <2> QED
    BY <2>1, <2>2
<1>7. CASE Accept
  BY <1>7 DEF Accept, service
<1>8. CASE Leave
  BY <1>8 DEF Leave, service
<1> QED
  BY <1>1, <1>2, <1>3, <1>4, <1>5, <1>6, <1>7, <1>8 DEF Next, Step, Looping

\* While the service runs, mitmproxy_process is None only on the way to a new
\* process, but after a failed Popen or the end of the socket thread.
THEOREM MitmdumpIsNotForgotten == Spec => []NeverForgotten
<1>1. Init => TypeOK /\ Phases /\ NeverForgotten
  BY InitTypes, InitPhases DEF Init, NeverForgotten
<1>2. TypeOK /\ Phases /\ NeverForgotten /\ [Next]_vars => (TypeOK /\ Phases /\ NeverForgotten)'
  <2>1. CASE UNCHANGED vars
    BY <2>1, TypeStep DEF Phases, NeverForgotten, Coming, Closes, Up, At, vars, service, others
  <2> QED
    BY <2>1, TypeStep, PhasesStep, ForgottenStep
<1> QED
  BY <1>1, <1>2, PTL DEF Spec

-----------------------------------------------------------------------------
(* stop() leaves nothing that was started before it.                       *)

\* Processes that were there or are late do no harm.
LEMMA NothingNew ==
    ASSUME FoundAll, StopKillsEarlier,
           \A p \in alive' : p.late \/ \E q \in alive : q.id = p.id /\ q.late = p.late,
           \A t \in Threads : Closes(t)' /\ At(t, "killAll")' =>
               Closes(t) /\ At(t, "killAll") /\ found'[t] = found[t],
           ServiceStopped' /\ ~cut' => ServiceStopped /\ ~cut
    PROVE  FoundAll' /\ StopKillsEarlier'
BY DEF FoundAll, StopKillsEarlier

LEMMA StopKillsStep ==
    ASSUME TypeOK, Phases, FoundAll, StopKillsEarlier, Next
    PROVE  FoundAll' /\ StopKillsEarlier'
<1> USE DEF Closes, At, Goto, Threads, ServiceStopped
<1>1. CASE Start \/ ProcessEnds
  BY <1>1 DEF Start, ProcessEnds, FoundAll, StopKillsEarlier
<1>2. CASE SvcStop \/ SendRestart \/ Configure
  <2>1. UNCHANGED <<alive, found, closing, cut>> /\ (pc' = pc \/ pc' = [pc EXCEPT !["stopper"] = "stop"])
    BY <1>2 DEF SvcStop, SendRestart, Configure, service
  <2> QED
    BY <2>1, NothingNew DEF TypeOK
<1>3. ASSUME NEW i \in Ids, Bind(i) \/ End(i)
      PROVE  FoundAll' /\ StopKillsEarlier'
  <2>1. UNCHANGED <<pc, found, closing, cut>>
    BY <1>3 DEF Bind, End, service
  <2>2. \A p \in alive' : \E q \in alive : q.id = p.id /\ q.late = p.late
    <3>1. CASE End(i)
      BY <3>1 DEF End
    <3>2. CASE Bind(i)
      <4>1. PICK p \in alive : alive' \subseteq alive \cup {[p EXCEPT !.up = TRUE]}
        BY <3>2 DEF Bind
      <4>2. [p EXCEPT !.up = TRUE].id = p.id /\ [p EXCEPT !.up = TRUE].late = p.late
        BY DEF TypeOK, Process
      <4> QED
        BY <4>1, <4>2
    <3> QED
      BY <1>3, <3>1, <3>2
  <2> QED
    BY <2>1, <2>2, NothingNew
<1>4. ASSUME NEW t \in Threads, Stopping(t)
      PROVE  FoundAll' /\ StopKillsEarlier'
  <2>1. alive' \subseteq alive
    BY <1>4 DEF Stopping, Stop, Terminate, Wait, ForceKill, Kill, Forget, Sweep, KillAll, KillRaises
  <2>2. CASE Stop(t) \/ Forget(t)
    BY <2>1, <2>2, NothingNew DEF Stop, Forget, TypeOK, service
  <2>3. CASE Terminate(t) \/ ForceKill(t) \/ Wait(t) \/ KillRaises(t)
    BY <2>1, <2>3, NothingNew DEF Terminate, ForceKill, Kill, Wait, KillRaises, Raise, TypeOK, service
  <2>4. CASE Sweep(t)
    BY <2>1, <2>4 DEF Sweep, Swept, AfterSweep, IdsOf, TypeOK, FoundAll, StopKillsEarlier, service
  <2>5. CASE KillAll(t)
    <3>1. CASE Closes(t)
      BY <2>5, <3>1 DEF KillAll, Swept, AfterSweep, TypeOK, FoundAll, StopKillsEarlier, service
    <3>2. CASE ~Closes(t)
      BY <2>1, <2>5, <3>2, NothingNew DEF KillAll, Swept, AfterSweep, TypeOK, service
    <3> QED
      BY <3>1, <3>2
  <2> QED
    BY <1>4, <2>2, <2>3, <2>4, <2>5 DEF Stopping
<1>5. ASSUME NEW t \in Threads, Starting(t)
      PROVE  FoundAll' /\ StopKillsEarlier'
  <2>1. CASE ReadPort(t) \/ ReadEnable(t) \/ ReadServer(t) \/ PopenFails(t)
    <3>1. UNCHANGED <<alive, found, closing, cut>>
      BY <2>1 DEF ReadPort, ReadEnable, ReadServer, PopenFails, service
    <3>2. \E s \in {"enable", "server", "popen", "loop", "accept"} : Goto(t, s)
      BY <2>1 DEF ReadPort, ReadEnable, ReadServer, PopenFails, AfterStart
    <3> QED
      BY <3>1, <3>2, NothingNew DEF TypeOK
  <2>2. CASE Popen(t) /\ running
    <3>1. running' = TRUE /\ closing' = closing /\ \E s \in {"loop", "accept"} : Goto(t, s)
      BY <2>2 DEF Popen, AfterStart, service
    <3>2. \A u \in Threads : Closes(u)' => ~At(u, "killAll")' /\ ~At(u, "stopped")'
      BY <2>2, <3>1 DEF Phases, TypeOK
    <3>3. \A u \in Threads : ~At(u, "stopped")'
      BY <2>2, <3>1 DEF Phases, TypeOK
    <3> QED
      BY <3>2, <3>3 DEF FoundAll, StopKillsEarlier
  <2>3. CASE Popen(t) /\ ~running
    <3> DEFINE new == [id |-> Fresh, cmd |-> cmd[t], up |-> FALSE, late |-> ~running]
    <3>1. alive' = alive \cup {new}
      BY <2>3 DEF Popen
    <3>2. new.late
      BY <2>3
    <3> HIDE DEF new
    <3>3. UNCHANGED <<found, closing, cut>>
      BY <2>3 DEF Popen, service
    <3>4. \E s \in {"loop", "accept"} : pc' = [pc EXCEPT ![t] = s]
      BY <2>3 DEF Popen, AfterStart
    <3>5. \A p \in alive' : p.late \/ \E q \in alive : q.id = p.id /\ q.late = p.late
      BY <3>1, <3>2
    <3>6. \A u \in Threads : Closes(u)' /\ At(u, "killAll")' =>
              Closes(u) /\ At(u, "killAll") /\ found'[u] = found[u]
      BY <3>3, <3>4 DEF TypeOK
    <3>7. ServiceStopped' /\ ~cut' => ServiceStopped /\ ~cut
      BY <3>3, <3>4 DEF TypeOK
    <3> QED
      BY <3>5, <3>6, <3>7, NothingNew
  <2>4. CASE ReadFails(t)
    BY <2>4, NothingNew DEF ReadFails, Raise, TypeOK
  <2> QED
    BY <1>5, <2>1, <2>2, <2>3, <2>4 DEF Starting
<1>6. ASSUME NEW t \in Threads, Looping(t)
      PROVE  FoundAll' /\ StopKillsEarlier'
  BY <1>6, NothingNew DEF Looping, LoopLook, Poll, Raise, Accept, Leave, TypeOK, service
<1> QED
  BY <1>1, <1>2, <1>3, <1>4, <1>5, <1>6 DEF Next, Step

\* A stop() that no exception cuts short leaves no mitmdump process that was
\* started before it.
THEOREM StopLeavesNothingEarlier == Spec => []StopKillsEarlier
<1> DEFINE Inv == TypeOK /\ Phases /\ FoundAll /\ StopKillsEarlier
<1>1. Init => Inv
  BY InitTypes, InitPhases DEF Init, FoundAll, StopKillsEarlier
<1>2. Inv /\ [Next]_vars => Inv'
  <2>1. CASE UNCHANGED vars
    BY <2>1, TypeStep DEF Phases, FoundAll, StopKillsEarlier, ServiceStopped, Closes, Up, At,
       vars, service, others
  <2> QED
    BY <2>1, TypeStep, PhasesStep, StopKillsStep
<1> QED
  BY <1>1, <1>2, PTL DEF Spec

-----------------------------------------------------------------------------
(* Two mitmdump processes at once take a RESTART.                          *)

MainAlone == pc["socket"] \in {"down", "accept", "dead"} /\ ~pending

\* What main knows of the processes, when no other thread starts one.
Accounted ==
    running =>
        /\ pc["main"] \in {"loop", "poll"} => IdsOf(alive) \subseteq {proc}
        /\ pc["main"] \in {"port", "enable", "server", "popen"} => alive = {}
        /\ At("main", "killAll") => IdsOf(alive) \subseteq found["main"]

LEMMA AloneStep ==
    ASSUME MaxRestarts = 0, TypeOK, Phases, MainAlone, Next
    PROVE  MainAlone'
<1> USE DEF MainAlone, At, Goto, TypeOK, Threads
<1>1. CASE Start \/ ProcessEnds \/ SvcStop \/ Configure \/ \E i \in Ids : Bind(i) \/ End(i)
  BY <1>1 DEF Start, ProcessEnds, SvcStop, Configure, Bind, End
<1>2. CASE SendRestart
  BY <1>2 DEF SendRestart
<1>3. ASSUME NEW t \in Threads, Step(t)
      PROVE  MainAlone'
  <2>1. t = "socket" => Leave
    BY <1>3 DEF Step, Stopping, Stop, Terminate, Wait, ForceKill, Forget, Sweep, KillAll, KillRaises,
       Starting, ReadPort, ReadEnable, ReadServer, ReadFails, Popen, PopenFails, Looping, Accept
  <2>2. pending' = pending
    BY <1>3, <2>1 DEF Step, Stopping, Stop, Terminate, Wait, ForceKill, Forget, Sweep, KillAll,
       KillRaises, Starting, ReadPort, ReadEnable, ReadServer, ReadFails, Popen, PopenFails, Looping,
       LoopLook, Poll, Leave
  <2>3. CASE t = "socket"
    BY <2>1, <2>2, <2>3 DEF Leave
  <2>4. CASE t # "socket" /\ (Sweep(t) \/ KillAll(t))
    <3>1. pc'["socket"] \in {pc["socket"], "accept"}
      BY <2>4 DEF Sweep, KillAll, Swept
    <3> QED BY <2>2, <3>1
  <2>5. CASE t # "socket" /\ ~(Sweep(t) \/ KillAll(t))
    <3>1. pc'["socket"] = pc["socket"]
      BY <1>3, <2>5 DEF Step, Stopping, Stop, Terminate, Wait, ForceKill, Kill, Forget, KillRaises,
         Raise, Starting, ReadPort, ReadEnable, ReadServer, ReadFails, Popen, PopenFails, Looping,
         LoopLook, Poll
    <3> QED BY <2>2, <3>1
  <2> QED BY <2>3, <2>4, <2>5
<1> QED BY <1>1, <1>2, <1>3 DEF Next

LEMMA AccountedStep ==
    ASSUME TypeOK, Phases, MainAlone, Accounted, Next
    PROVE  Accounted'
<1> SUFFICES ASSUME running' PROVE Accounted'
  BY DEF Accounted
<1>0. pc \in [Threads -> Steps] /\ found \in [Threads -> SUBSET Ids]
  BY DEF TypeOK
<1> USE <1>0 DEF Accounted, At, Goto, Threads
<1>1. CASE Start \/ ProcessEnds \/ SvcStop
  BY <1>1 DEF Start, ProcessEnds, SvcStop
<1>2. CASE SendRestart \/ Configure
  BY <1>2 DEF SendRestart, Configure, service
<1>3. ASSUME NEW i \in Ids, Bind(i) \/ End(i)
      PROVE  Accounted'
  <2>1. UNCHANGED <<running, pc, found, proc>>
    BY <1>3 DEF Bind, End, service
  <2>2. IdsOf(alive') \subseteq IdsOf(alive) /\ (alive = {} => alive' = {})
    <3>1. CASE End(i)
      BY <3>1 DEF End, IdsOf
    <3>2. CASE Bind(i)
      <4>1. PICK p \in alive : alive' \subseteq alive \cup {[p EXCEPT !.up = TRUE]}
        BY <3>2 DEF Bind
      <4>2. [p EXCEPT !.up = TRUE].id = p.id
        BY DEF TypeOK, Process
      <4> QED BY <4>1, <4>2 DEF IdsOf
    <3> QED BY <1>3, <3>1, <3>2
  <2> QED BY <2>1, <2>2
<1>4. ASSUME NEW t \in Threads, Step(t)
      PROVE  Accounted'
  <2>1. running
    BY <1>4 DEF Step, Stopping, Stop, Terminate, Wait, ForceKill, Kill, Forget, Sweep, KillAll,
       KillRaises, Raise, Starting, ReadPort, ReadEnable, ReadServer, ReadFails, Popen, PopenFails,
       Looping, LoopLook, Poll, Accept, Leave, service, TypeOK
  <2>2. pc["stopper"] = "down" /\ ~closing
    BY <2>1 DEF Phases
  <2>3. CASE t # "main"
    <3>1. Leave
      BY <1>4, <2>2, <2>3 DEF MainAlone, Step, Stopping, Stop, Terminate, Wait, ForceKill, Forget,
         Sweep, KillAll, KillRaises, Starting, ReadPort, ReadEnable, ReadServer, ReadFails, Popen,
         PopenFails, Looping, Accept
    <3> QED BY <2>1, <3>1 DEF Leave
  <2>4. CASE t = "main" /\ Stopping("main")
    <3>1. CASE Sweep("main")
      BY <2>1, <2>2, <3>1 DEF Sweep, Swept, AfterSweep, Closes
    <3>2. CASE KillAll("main")
      <4>1. alive' = {}
        BY <2>1, <3>2 DEF KillAll, IdsOf
      <4>2. pc'["main"] = "port"
        BY <2>2, <3>2 DEF KillAll, Swept, AfterSweep, Closes
      <4> QED BY <4>1, <4>2
    <3>3. CASE ~(Sweep("main") \/ KillAll("main"))
      <4>1. pc'["main"] \in {"sweep", "terminate", "wait", "kill", "forget"}
        BY <2>2, <2>4, <3>3 DEF Stopping, Stop, Terminate, Wait, ForceKill, Kill, Forget, KillRaises,
           Raise
      <4> QED BY <4>1
    <3> QED BY <3>1, <3>2, <3>3
  <2>5. CASE t = "main" /\ Starting("main")
    <3>1. CASE Popen("main")
      <4>1. pc'["main"] = "loop" /\ proc' = Fresh
        BY <3>1 DEF Popen, AfterStart
      <4>2. alive = {}
        BY <2>1, <3>1 DEF Popen
      <4>3. \A p \in alive' : p.id = Fresh
        BY <3>1, <4>2 DEF Popen
      <4> QED BY <4>1, <4>3 DEF IdsOf
    <3>2. CASE ReadFails("main")
      BY <3>2 DEF ReadFails, Raise
    <3>3. CASE ReadPort("main") \/ ReadEnable("main") \/ ReadServer("main") \/ PopenFails("main")
      <4>1. alive' = {} /\ pc'["main"] \in {"enable", "server", "popen", "loop"}
        BY <2>1, <3>3 DEF ReadPort, ReadEnable, ReadServer, PopenFails, AfterStart
      <4> QED BY <4>1 DEF IdsOf
    <3> QED BY <2>5, <3>1, <3>2, <3>3 DEF Starting
  <2>6. CASE t = "main" /\ Looping("main")
    BY <2>1, <2>6 DEF Looping, LoopLook, Poll, Raise
  <2> QED BY <1>4, <2>3, <2>4, <2>5, <2>6 DEF Step
<1> QED BY <1>1, <1>2, <1>3, <1>4 DEF Next

\* If nobody sends a RESTART, a service in its main loop has at most one mitmdump
\* process, the one it knows, and none that an earlier service left behind, however
\* often processes end, starts fail and the service dies (main_service.py:96-143):
\* only a RESTART that overlaps with main starts a second one.
THEOREM OneWithoutRestart ==
    ASSUME MaxRestarts = 0
    PROVE  Spec => [](running /\ pc["main"] \in {"loop", "poll"} => IdsOf(alive) \subseteq {proc})
<1> DEFINE Inv == TypeOK /\ Phases /\ MainAlone /\ Accounted
<1>1. Init => Inv
  BY InitTypes, InitPhases DEF Init, MainAlone, Accounted, Threads
<1>2. Inv /\ [Next]_vars => Inv'
  <2>1. CASE UNCHANGED vars
    BY <2>1, TypeStep DEF Phases, MainAlone, Accounted, Closes, Up, At, vars, service, others
  <2> QED
    BY <2>1, TypeStep, PhasesStep, AloneStep, AccountedStep
<1>3. Inv => (running /\ pc["main"] \in {"loop", "poll"} => IdsOf(alive) \subseteq {proc})
  BY DEF Accounted
<1> QED
  BY <1>1, <1>2, <1>3, PTL DEF Spec
=============================================================================
