------------------------ MODULE ForbidControl_proofs ------------------------
(***************************************************************************)
(* Proofs about ForbidControl, for every set of hosts, every length of the *)
(* bans and every bound on the count.                                      *)
(***************************************************************************)
EXTENDS ForbidControl, TLAPS

\* A thread that moves to one of the steps keeps pc well typed.
LEMMA GotoType ==
    ASSUME pc \in [Threads -> Steps], NEW t \in Threads, NEW step \in Steps, Goto(t, step)
    PROVE  /\ pc' \in [Threads -> Steps]
           /\ pc'[t] = step
           /\ \A u \in Threads \ {t} : pc'[u] = pc[u]
BY DEF Goto

LEMMA NoTimerIsNone == NoTimer.mode = "none" /\ NoTimer.left = 0
BY DEF NoTimer

LEMMA UnexpiredSubset == \A events : Unexpired(events) \subseteq events
BY DEF Unexpired

LEMMA IntervalNat == \A c \in Nat : Interval(c) \in Nat /\ Mode(c) \in Modes
BY BanAssumption DEF Interval, Mode, Modes

LEMMA OlderNat == \A left \in Nat : Older(left) \in Nat
BY DEF Older

-----------------------------------------------------------------------------
\* The initial state, and that of a process that starts or dies, is well typed.
LEMMA InitType == Init => TypeOK
<1> SUFFICES ASSUME Init PROVE TypeOK
  OBVIOUS
<1>1. pc \in [Threads -> Steps]
  BY DEF Init, PcAt, Threads, Steps
<1>2. target \in [host : SUBSET Hosts, ban : BOOLEAN]
  BY DEF Init, NoTarget
<1> QED
  BY <1>1, <1>2 DEF Init, TypeOK, Modes

LEMMA BlankType ==
    ASSUME NEW step \in Steps, Blank(step)
    PROVE  /\ cache' = {} /\ seen' = {} /\ count' \in Nat
           /\ {img', req', paused', overlap', overrun'} \subseteq BOOLEAN
           /\ timer' \in Timer \cup {NoTimer}
           /\ lock' \in Readers \cup {Free}
           /\ pc' \in [Threads -> Steps]
           /\ target' \in [host : SUBSET Hosts, ban : BOOLEAN]
           /\ endMode' \in Modes
BY DEF Blank, NoTarget, PcAt, Threads, Steps, Modes

\* Every step keeps every variable in its type.
LEMMA StepType == TypeOK /\ [Next]_vars => TypeOK'
<1> SUFFICES ASSUME TypeOK, [Next]_vars PROVE TypeOK'
  OBVIOUS
<1> USE DEF TypeOK, durable, flags, fetch, history, vars
<1>1. CASE Loading
  <2>1. CASE Start
    BY <2>1, BlankType DEF Start, Steps
  <2>2. CASE InitCache
    BY <2>2 DEF InitCache, Goto, Threads, Steps
  <2>3. CASE ExpireAtStart
    BY <2>3, UnexpiredSubset DEF ExpireAtStart, Goto, Threads, Steps
  <2>4. CASE Restore
    <3>1. CASE Unexpired(file) = {} /\ UNCHANGED <<cache, flags, timer>> /\ Goto("main", "run")
      BY <2>4, <3>1 DEF Restore, Goto, Threads, Steps
    <3>2. ASSUME NEW e \in Latest(file), RestoreEvent(e), Goto("main", "arm")
          PROVE  TypeOK'
      <4>1. e \in Event
        BY <3>2 DEF Latest, Unexpired
      <4>2. cache' \subseteq Hosts /\ count' \in Nat /\ {img', req', paused'} \subseteq BOOLEAN
        BY <3>2, <4>1 DEF RestoreEvent, Event
      <4>3. timer' \in Timer
        BY <3>2, <4>1 DEF RestoreEvent, Event, Timer
      <4> QED
        BY <2>4, <3>2, <4>2, <4>3 DEF Restore, Goto, Threads, Steps
    <3> QED
      BY <2>4, <3>1, <3>2 DEF Restore
  <2>5. CASE ArmRestored
    BY <2>5 DEF ArmRestored, Goto, Threads, Steps
  <2> QED
    BY <1>1, <2>1, <2>2, <2>3, <2>4, <2>5 DEF Loading
<1>2. ASSUME NEW t \in Readers, Refresh(t) PROVE TypeOK'
  <2> USE DEF Goto, Threads, Readers, Steps, AfterRefresh
  <2>1. CASE RefreshCheck(t)
    BY <2>1 DEF RefreshCheck
  <2>2. CASE RefreshRead(t)
    BY <2>2 DEF RefreshRead
  <2>3. CASE RefreshFails(t)
    BY <2>3 DEF RefreshFails
  <2>4. CASE RefreshSwap(t)
    BY <2>4 DEF RefreshSwap
  <2> QED
    BY <1>2, <2>1, <2>2, <2>3, <2>4 DEF Refresh
<1>3. CASE Verdict
  BY <1>3 DEF Verdict, Goto, Threads, Steps
<1>4. CASE Finalizing
  <2> USE DEF Goto, Threads, Steps, AfterAdd, NoTarget
  <2>1. CASE Insert
    BY <2>1 DEF Insert
  <2>2. CASE InsertFails
    BY <2>2 DEF InsertFails
  <2>3. CASE CacheAdd
    BY <2>3 DEF CacheAdd
  <2>4. CASE Cancel
    BY <2>4 DEF Cancel, At
  <2>5. CASE SetFlag
    BY <2>5 DEF SetFlag
  <2>6. CASE Escalate
    BY <2>6 DEF Escalate
  <2>7. CASE SetTimer
    <3>1. timer' \in Timer
      BY <2>7, IntervalNat DEF SetTimer, Timer
    <3> QED
      BY <2>7, <3>1 DEF SetTimer
  <2>8. CASE Pause
    BY <2>8 DEF Pause
  <2>9. CASE SaveEvent
    <3>1. NewEvent \in Event
      BY IntervalNat DEF NewEvent, Event
    <3>2. file' \subseteq Event
      BY <2>9, <3>1, UnexpiredSubset DEF SaveEvent
    <3> QED
      BY <2>9, <3>2 DEF SaveEvent
  <2>10. CASE SaveFails
    BY <2>10 DEF SaveFails
  <2> QED
    BY <1>4, <2>1, <2>2, <2>3, <2>4, <2>5, <2>6, <2>7, <2>8, <2>9, <2>10 DEF Finalizing
<1>5. CASE Resetting
  <2> USE DEF Goto, Threads, Readers, Steps
  <2>1. CASE Fire
    BY <2>1 DEF Fire, Timer
  <2>2. CASE ClearFlag
    BY <2>2 DEF ClearFlag
  <2>3. CASE Resume
    BY <2>3 DEF Resume
  <2>4. CASE ExpireAtReset
    BY <2>4, UnexpiredSubset DEF ExpireAtReset, Modes
  <2> QED
    BY <1>5, <2>1, <2>2, <2>3, <2>4 DEF Resetting
<1>6. CASE Tick
  <2>1. ASSUME NEW e \in file PROVE [e EXCEPT !.left = Older(@)] \in Event
    BY OlderNat DEF Event
  <2>2. file' \subseteq Event
    BY <1>6, <2>1 DEF Tick
  <2>3. timer' \in Timer \cup {NoTimer}
    BY <1>6, OlderNat, BanAssumption DEF Tick, Timer, NoTimer, Older
  <2> QED
    BY <1>6, <2>2, <2>3 DEF Tick
<1>7. CASE Crash
  <2>1. file' \subseteq Event
    BY <1>7 DEF Crash
  <2> QED
    BY <1>7, <2>1, BlankType DEF Crash, Steps
<1>8. CASE UNCHANGED vars
  BY <1>8
<1> QED
  BY <1>1, <1>2, <1>3, <1>4, <1>5, <1>6, <1>7, <1>8 DEF Next

\* Every variable keeps its type.
THEOREM TypeCorrect == Spec => []TypeOK
BY InitType, StepType, PTL DEF Spec

-----------------------------------------------------------------------------
(***************************************************************************)
(* The blacklist cache.  A thread at "swap" is the one holder of           *)
(* blacklist_lock, what it has fetched is in the database and still covers *)
(* the cache, and no thread but main runs while the addon is loading.      *)
(***************************************************************************)
LockHeld ==
    /\ \A t \in Readers : At(t, "swap") <=> lock = t
    /\ lock # Free => cache \subseteq seen
    /\ seen \subseteq db

AddRecorded == At("finalizer", "add") => target.host \subseteq db

Alone == ~Running => \A t \in Threads \ {"main"} : At(t, "idle")

CacheInv == TypeOK /\ CacheSound /\ LockHeld /\ AddRecorded /\ Alone

LEMMA InitCacheInv == Init => CacheInv
<1> SUFFICES ASSUME Init PROVE CacheInv
  OBVIOUS
<1>1. TypeOK
  BY InitType
<1>2. \A t \in Threads \ {"main"} : At(t, "idle")
  BY DEF Init, PcAt, Threads, At
<1>3. CacheSound
  BY DEF Init, CacheSound
<1>4. LockHeld
  BY <1>2, FreeAssumption DEF Init, LockHeld, At, Readers, Threads
<1>5. AddRecorded
  BY <1>2 DEF AddRecorded, At, Threads
<1> QED
  BY <1>1, <1>2, <1>3, <1>4, <1>5 DEF CacheInv, Alone

\* A process that starts, or has died, keeps the invariant of the cache.
LEMMA BlankCache ==
    ASSUME NEW step \in {"down", "cache"}, Blank(step), db' = db, CacheSound, file' \subseteq file
    PROVE  CacheSound' /\ LockHeld' /\ AddRecorded' /\ Alone'
<1>1. \A t \in Threads \ {"main"} : pc'[t] = "idle"
  BY DEF Blank, PcAt, Threads
<1>2. CacheSound'
  BY DEF Blank, CacheSound
<1>3. LockHeld'
  BY <1>1, FreeAssumption DEF Blank, LockHeld, At, Readers, Threads
<1>4. AddRecorded' /\ Alone'
  BY <1>1 DEF AddRecorded, Alone, At, Threads
<1> QED
  BY <1>2, <1>3, <1>4

\* Every step keeps the invariant of the cache.
LEMMA StepCacheInv == CacheInv /\ [Next]_vars => CacheInv'
<1> SUFFICES ASSUME CacheInv, [Next]_vars PROVE CacheInv'
  OBVIOUS
<1>0. TypeOK'
  BY StepType DEF CacheInv
<1> SUFFICES CacheSound' /\ LockHeld' /\ AddRecorded' /\ Alone'
  BY <1>0 DEF CacheInv
<1> USE DEF CacheInv, TypeOK, CacheSound, LockHeld, AddRecorded, Alone, Running, At, Goto,
            Threads, Readers, durable, flags, fetch, history, vars
<1>1. CASE Loading
  <2>1. CASE Start
    BY <2>1, BlankCache DEF Start
  <2>2. CASE InitCache
    BY <2>2, FreeAssumption DEF InitCache
  <2>3. CASE ExpireAtStart
    BY <2>3, UnexpiredSubset DEF ExpireAtStart
  <2>4. CASE Restore
    <3>1. cache' \subseteq db
      BY <2>4 DEF Restore, RestoreEvent, Latest, Unexpired
    <3>2. lock = Free
      BY <2>4 DEF Restore
    <3> QED
      BY <2>4, <3>1, <3>2 DEF Restore
  <2>5. CASE ArmRestored
    BY <2>5 DEF ArmRestored
  <2> QED
    BY <1>1, <2>1, <2>2, <2>3, <2>4, <2>5 DEF Loading
<1>2. ASSUME NEW t \in Readers, Refresh(t) PROVE CacheSound' /\ LockHeld' /\ AddRecorded' /\ Alone'
  <2> USE FreeAssumption DEF AfterRefresh
  <2>1. CASE RefreshCheck(t)
    BY <2>1 DEF RefreshCheck
  <2>2. CASE RefreshRead(t)
    BY <2>2 DEF RefreshRead
  <2>3. CASE RefreshFails(t)
    BY <2>3 DEF RefreshFails
  <2>4. CASE RefreshSwap(t)
    BY <2>4 DEF RefreshSwap
  <2> QED
    BY <1>2, <2>1, <2>2, <2>3, <2>4 DEF Refresh
<1>3. CASE Verdict
  BY <1>3 DEF Verdict
<1>4. CASE Finalizing
  <2> USE DEF AfterAdd, NoTarget
  <2>1. CASE Insert
    BY <2>1 DEF Insert
  <2>2. CASE InsertFails
    BY <2>2 DEF InsertFails
  <2>3. CASE CacheAdd
    BY <2>3 DEF CacheAdd
  <2>4. CASE Cancel
    BY <2>4 DEF Cancel
  <2>5. CASE SetFlag
    BY <2>5 DEF SetFlag
  <2>6. CASE Escalate
    BY <2>6 DEF Escalate
  <2>7. CASE SetTimer
    BY <2>7 DEF SetTimer
  <2>8. CASE Pause
    BY <2>8 DEF Pause
  <2>9. CASE SaveEvent
    <3>1. NewEvent.snapshot = cache
      BY DEF NewEvent
    <3>2. \A e \in file' : e.snapshot \subseteq db
      BY <2>9, <3>1, UnexpiredSubset DEF SaveEvent
    <3> QED
      BY <2>9, <3>2 DEF SaveEvent
  <2>10. CASE SaveFails
    BY <2>10 DEF SaveFails
  <2> QED
    BY <1>4, <2>1, <2>2, <2>3, <2>4, <2>5, <2>6, <2>7, <2>8, <2>9, <2>10 DEF Finalizing
<1>5. CASE Resetting
  <2>1. CASE Fire
    BY <2>1 DEF Fire
  <2>2. CASE ClearFlag
    BY <2>2 DEF ClearFlag
  <2>3. CASE Resume
    BY <2>3 DEF Resume
  <2>4. CASE ExpireAtReset
    BY <2>4, UnexpiredSubset DEF ExpireAtReset
  <2> QED
    BY <1>5, <2>1, <2>2, <2>3, <2>4 DEF Resetting
<1>6. CASE Tick
  <2>1. \A e \in file' : e.snapshot \subseteq db
    <3>1. ASSUME NEW e \in file PROVE [e EXCEPT !.left = Older(@)].snapshot = e.snapshot
      BY DEF Event
    <3> QED
      BY <1>6, <3>1 DEF Tick
  <2> QED
    BY <1>6, <2>1 DEF Tick
<1>7. CASE Crash
  BY <1>7, BlankCache DEF Crash
<1>8. CASE UNCHANGED vars
  BY <1>8
<1> QED
  BY <1>1, <1>2, <1>3, <1>4, <1>5, <1>6, <1>7, <1>8 DEF Next

\* The addon blocks no host, now or after a restart, that is not in the
\* database.
THEOREM CacheIsSound == Spec => []CacheSound
<1>1. CacheInv => CacheSound
  BY DEF CacheInv
<1> QED
  BY <1>1, InitCacheInv, StepCacheInv, PTL DEF Spec

\* A step of a serving process takes no host out of the cache: only a swap
\* replaces the cache, and what it publishes covers the cache.
LEMMA StepKeepsCache ==
    CacheInv /\ [Next]_vars => [Running /\ Running' => cache \subseteq cache']_vars
<1> SUFFICES ASSUME CacheInv, Next, Running, Running' PROVE cache \subseteq cache'
  BY DEF vars
<1> USE DEF CacheInv, TypeOK, Running, At, Goto, Threads, Readers
<1>1. CASE Loading
  BY <1>1 DEF Loading, Start, Blank, PcAt, InitCache, ExpireAtStart, Restore, ArmRestored
<1>2. ASSUME NEW t \in Readers, Refresh(t) PROVE cache \subseteq cache'
  <2>1. CASE RefreshSwap(t)
    BY <2>1, FreeAssumption DEF RefreshSwap, LockHeld
  <2> QED
    BY <1>2, <2>1 DEF Refresh, RefreshCheck, RefreshRead, RefreshFails
<1>3. CASE Verdict
  BY <1>3 DEF Verdict
<1>4. CASE Finalizing
  BY <1>4 DEF Finalizing, Insert, InsertFails, CacheAdd, Cancel, SetFlag, Escalate,
              SetTimer, Pause, SaveEvent, SaveFails
<1>5. CASE Resetting
  BY <1>5 DEF Resetting, Fire, ClearFlag, Resume, ExpireAtReset
<1>6. CASE Tick
  BY <1>6 DEF Tick
<1>7. CASE Crash
  BY <1>7 DEF Crash, Blank, PcAt
<1> QED
  BY <1>1, <1>2, <1>3, <1>4, <1>5, <1>6, <1>7 DEF Next

\* A host the running addon blocks stays blocked while the addon runs,
\* however refreshes, verdicts and the ends of bans interleave.
THEOREM BlockedStaysBlocked == Spec => NeverUnblocked
BY InitCacheInv, StepCacheInv, StepKeepsCache, PTL DEF Spec, NeverUnblocked

-----------------------------------------------------------------------------
(***************************************************************************)
(* When the blacklist is enforced.  With a database that answers, hosts    *)
(* are let through only while the refresh is paused, and from its          *)
(* resumption until reset_forbid has reloaded the cache.                   *)
(***************************************************************************)
Adding == {h \in target.host : At("finalizer", "add")}

Reloading == pc["reset"] \in {"check", "read", "swap"}

BlacklistHolds ==
    Running /\ ~paused /\ ~Reloading =>
        \A h \in db \ Adding : RequestKilled(h)

\* What has been fetched lacks only a host that waits for the lock.
Fetched == \A t \in Readers : At(t, "swap") => db \subseteq seen \cup Adding

\* The cache read at the start is complete; only a restored event pauses it.
Loaded ==
    /\ pc["main"] \in {"cache", "expire", "restore"} => ~paused
    /\ pc["main"] \in {"expire", "restore"} => db \subseteq cache
    /\ pc["main"] = "arm" => paused

Fresh == Running /\ ~paused /\ ~Reloading => db \subseteq cache \cup Adding

FreshInv == Fetched /\ Loaded /\ Fresh

LEMMA FreshInit == Init => FreshInv
BY DEF Init, PcAt, Threads, Readers, FreshInv, Fetched, Loaded, Fresh, At, Running

LEMMA FreshStep == ASSUME ~DbMayFail PROVE CacheInv /\ FreshInv /\ [Next]_vars => FreshInv'
<1> SUFFICES ASSUME CacheInv, FreshInv, [Next]_vars PROVE FreshInv'
  OBVIOUS
<1> USE DEF CacheInv, TypeOK, Alone, FreshInv, Fetched, Loaded, Fresh, Adding, Reloading, Running,
            At, Goto, Threads, Readers, durable, flags, fetch, history, vars
<1>1. CASE Loading
  <2>1. CASE Start
    BY <2>1 DEF Start, Blank, PcAt
  <2>2. CASE InitCache
    BY <2>2 DEF InitCache
  <2>3. CASE ExpireAtStart
    BY <2>3 DEF ExpireAtStart
  <2>4. CASE Restore
    BY <2>4 DEF Restore, RestoreEvent
  <2>5. CASE ArmRestored
    BY <2>5 DEF ArmRestored
  <2> QED
    BY <1>1, <2>1, <2>2, <2>3, <2>4, <2>5 DEF Loading
<1>2. ASSUME NEW t \in Readers, Refresh(t) PROVE FreshInv'
  <2> USE FreeAssumption DEF AfterRefresh
  <2>1. CASE RefreshCheck(t)
    BY <2>1 DEF RefreshCheck
  <2>2. CASE RefreshRead(t)
    BY <2>2 DEF RefreshRead, LockHeld
  <2>3. CASE RefreshSwap(t)
    BY <2>3 DEF RefreshSwap, LockHeld
  <2> QED
    BY <1>2, <2>1, <2>2, <2>3 DEF Refresh, RefreshFails
<1>3. CASE Verdict
  BY <1>3 DEF Verdict
<1>4. CASE Finalizing
  <2> USE DEF AfterAdd, NoTarget
  <2>1. CASE Insert
    BY <2>1 DEF Insert
  <2>2. CASE CacheAdd
    BY <2>2, FreeAssumption DEF CacheAdd, LockHeld
  <2>3. CASE Cancel
    BY <2>3 DEF Cancel
  <2>4. CASE SetFlag
    BY <2>4 DEF SetFlag
  <2>5. CASE Escalate
    BY <2>5 DEF Escalate
  <2>6. CASE SetTimer
    BY <2>6 DEF SetTimer
  <2>7. CASE Pause
    BY <2>7 DEF Pause
  <2>8. CASE SaveEvent
    BY <2>8 DEF SaveEvent
  <2>9. CASE SaveFails
    BY <2>9 DEF SaveFails
  <2> QED
    BY <1>4, <2>1, <2>2, <2>3, <2>4, <2>5, <2>6, <2>7, <2>8, <2>9 DEF Finalizing, InsertFails
<1>5. CASE Resetting
  BY <1>5 DEF Resetting, Fire, ClearFlag, Resume, ExpireAtReset
<1>6. CASE Tick
  BY <1>6 DEF Tick
<1>7. CASE Crash
  BY <1>7 DEF Crash, Blank, PcAt
<1>8. CASE UNCHANGED vars
  BY <1>8
<1> QED
  BY <1>1, <1>2, <1>3, <1>4, <1>5, <1>6, <1>7, <1>8 DEF Next

\* If the database answers, a blacklisted host gets through only while a ban
\* pauses the refresh, or its end is still reloading the cache (lines 60-142).
THEOREM EnforcedUnlessPaused == ASSUME ~DbMayFail PROVE Spec => []BlacklistHolds
<1>1. FreshInv => BlacklistHolds
  BY DEF FreshInv, Fresh, BlacklistHolds, RequestKilled
<1> QED
  BY <1>1, InitCacheInv, StepCacheInv, FreshInit, FreshStep, PTL DEF Spec

-----------------------------------------------------------------------------
(***************************************************************************)
(* The saved events.  Each still has at most the time of its count, a      *)
(* higher count means a longer time, and a process that serves, or is      *)
(* about to, counts at least as high as any event in force.                *)
(***************************************************************************)
EventsFit == \A e \in file :
    e.count # 0 /\ e.mode = Mode(e.count) /\ e.left <= Interval(e.count)
Ordered == \A e, f \in Unexpired(file) : e.count < f.count => e.left < f.left
Serving == pc["main"] \in {"arm", "run"}
CountedAll == Serving => \A e \in Unexpired(file) : e.count <= count

InBan == pc["finalizer"] \in {"flag", "escalate", "timer", "pause", "save"}

EventInv == EventsFit /\ Ordered /\ CountedAll /\ (InBan => count # 0)

LEMMA Grows == ASSUME NEW u \in Nat \ {0}, NEW c \in Nat, NEW d \in Nat, c < d
    PROVE c * u < d * u /\ c * u \in Nat /\ d * u \in Nat
OBVIOUS

LEMMA GrowsWith == ASSUME NEW u \in Nat \ {0}, NEW v \in Nat, u <= v, NEW d \in Nat
    PROVE d * u <= d * v
OBVIOUS

\* A higher count is a longer ban, and every ban has a length.
LEMMA IntervalUp == \A c, d \in Nat : c < d => Interval(c) < Interval(d)
<1> SUFFICES ASSUME NEW c \in Nat, NEW d \in Nat, c < d PROVE Interval(c) < Interval(d)
  OBVIOUS
<1> USE BanAssumption
<1>1. c * ImageUnit < d * ImageUnit /\ c * ImageUnit \in Nat /\ d * ImageUnit \in Nat
  BY Grows
<1>2. c * RequestUnit < d * RequestUnit /\ d * RequestUnit \in Nat
  BY Grows
<1>3. d * ImageUnit <= d * RequestUnit
  BY GrowsWith
<1> QED BY <1>1, <1>2, <1>3 DEF Interval

LEMMA IntervalFrom == \A c, d \in Nat : c <= d => Interval(c) <= Interval(d) /\ Interval(d) \in Nat
BY IntervalUp, IntervalNat

LEMMA IntervalPositive == \A c \in Nat : c # 0 => Interval(c) > 0
<1>1. Interval(0) \in Nat
  BY IntervalNat
<1> QED BY <1>1, IntervalUp, IntervalNat

\* Fewer events keep what holds of each, or of each two.
LEMMA FewerEvents == ASSUME EventsFit, Ordered, file' \subseteq file
    PROVE EventsFit' /\ Ordered' /\ Unexpired(file') \subseteq Unexpired(file)
BY DEF EventsFit, Ordered, Unexpired

\* A clock unit later they are the same, with less time.
LEMMA OlderEvents == ASSUME TypeOK, EventsFit, Ordered,
                            file' = {[e EXCEPT !.left = Older(@)] : e \in file}
    PROVE /\ EventsFit' /\ Ordered'
          /\ \A f \in Unexpired(file') : \E e \in Unexpired(file) :
                f.count = e.count /\ f.mode = e.mode /\ f.left = e.left - 1
<1>1. \A f \in file' : \E e \in file : f.count = e.count /\ f.mode = e.mode /\ f.left = Older(e.left)
  BY DEF TypeOK, Event
<1>2. \A e \in file : e.left \in Nat /\ e.count \in Nat /\ Interval(e.count) \in Nat
  BY IntervalNat DEF TypeOK, Event
<1>3. EventsFit'
  BY <1>1, <1>2 DEF EventsFit, Older
<1>4. \A f \in Unexpired(file') : \E e \in Unexpired(file) :
         f.count = e.count /\ f.mode = e.mode /\ f.left = e.left - 1
  BY <1>1, <1>2 DEF Unexpired, Older
<1>5. Ordered'
  BY <1>2, <1>4 DEF Ordered, Unexpired
<1> QED BY <1>3, <1>4, <1>5

\* Before the new event is saved, none has a higher count.
LEMMA SavedEvent == ASSUME TypeOK, EventInv, Serving, count # 0, file' = Unexpired(file \cup {NewEvent})
    PROVE /\ EventsFit' /\ Ordered' /\ Unexpired(file') \subseteq Unexpired(file) \cup {NewEvent}
<1>1. /\ NewEvent.count = count /\ NewEvent.mode = Mode(count) /\ NewEvent.left = Interval(count)
      /\ count \in Nat /\ Interval(count) \in Nat
  BY IntervalNat DEF NewEvent, TypeOK
<1>2. \A e \in file : e.left \in Nat /\ e.count \in Nat /\ Interval(e.count) \in Nat
  BY IntervalNat DEF TypeOK, Event
<1>3. EventsFit'
  BY <1>1 DEF EventInv, EventsFit, Unexpired
<1>4. Unexpired(file') \subseteq Unexpired(file) \cup {NewEvent}
  BY DEF Unexpired
<1>5. \A e \in Unexpired(file) : /\ e.count <= count
                                 /\ e.count < count => e.left < Interval(count)
  <2> SUFFICES ASSUME NEW e \in Unexpired(file) PROVE e.count <= count /\ (e.count < count => e.left < Interval(count))
    OBVIOUS
  <2>1. e \in file /\ e.left <= Interval(e.count) /\ e.count <= count
    BY DEF EventInv, EventsFit, CountedAll, Unexpired
  <2>2. e.count < count => Interval(e.count) < Interval(count)
    BY <1>1, <1>2, <2>1, IntervalUp
  <2> QED BY <1>1, <1>2, <2>1, <2>2
<1>6. Ordered'
  <2> SUFFICES ASSUME NEW e \in Unexpired(file'), NEW f \in Unexpired(file'), e.count < f.count
        PROVE e.left < f.left
    BY DEF Ordered
  <2>1. e.count \in Nat /\ f.count \in Nat
    BY <1>1, <1>2, <1>4 DEF Unexpired
  <2>2. e \in Unexpired(file)
    BY <1>1, <1>2, <1>4, <1>5, <2>1
  <2> QED BY <1>1, <1>4, <1>5, <2>1, <2>2 DEF EventInv, Ordered
<1> QED BY <1>3, <1>4, <1>6

\* Every step keeps the invariant of the saved events.
LEMMA EventStep == CacheInv /\ EventInv /\ [Next]_vars => EventInv'
<1> SUFFICES ASSUME CacheInv, EventInv, [Next]_vars PROVE EventInv'
  OBVIOUS
<1> USE DEF EventInv
<1>0. TypeOK /\ Alone
  BY DEF CacheInv
<1>1. CASE file' \subseteq file /\ pc' = PcAt("down")
  BY <1>1, FewerEvents DEF PcAt, CountedAll, Serving, InBan, Threads
<1>2. CASE Loading
  <2> USE <1>0 DEF Serving, Goto, At, Threads, TypeOK, durable, flags, fetch, history
  <2>1. CASE Start
    BY <2>1, FewerEvents DEF Start, Blank, PcAt, CountedAll, InBan
  <2>2. CASE InitCache
    BY <2>2, FewerEvents DEF InitCache, CountedAll, InBan
  <2>3. CASE ExpireAtStart
    BY <2>3, FewerEvents, UnexpiredSubset DEF ExpireAtStart, CountedAll, InBan
  <2>4. CASE Restore
    <3>1. CASE Unexpired(file) = {} /\ Goto("main", "run")
      BY <2>4, <3>1, FewerEvents DEF Restore, CountedAll, InBan, Alone, Running
    <3>2. ASSUME NEW e \in Latest(file), RestoreEvent(e), Goto("main", "arm") PROVE EventInv'
      <4>1. e \in file /\ e.count # 0 /\ e \in Unexpired(file)
        BY DEF Latest, Unexpired, EventsFit
      <4>2. \A f \in Unexpired(file) : /\ f.count \in Nat /\ e.count \in Nat
                                       /\ f.left \in Nat /\ e.left \in Nat
        BY <4>1 DEF Event, Unexpired
      <4>3. \A f \in Unexpired(file) : f.count <= e.count
        BY <4>1, <4>2 DEF Latest, Ordered
      <4>4. file' = file /\ count' = e.count
        BY <2>4, <3>2 DEF Restore, RestoreEvent
      <4>5. EventsFit' /\ Ordered' /\ CountedAll'
        BY <4>3, <4>4, FewerEvents DEF CountedAll
      <4> QED BY <4>1, <4>4, <4>5
    <3> QED
      BY <2>4, <3>1, <3>2 DEF Restore
  <2>5. CASE ArmRestored
    BY <2>5, FewerEvents DEF ArmRestored, CountedAll, InBan
  <2> QED
    BY <1>2, <2>1, <2>2, <2>3, <2>4, <2>5 DEF Loading
<1>3. ASSUME NEW t \in Readers, Refresh(t) PROVE EventInv'
  <2>1. file' = file /\ count' = count /\ (Serving' <=> Serving) /\ (InBan' <=> InBan)
    BY <1>0, <1>3 DEF Refresh, RefreshCheck, RefreshRead, RefreshFails, RefreshSwap, AfterRefresh,
       Goto, Readers, Threads, TypeOK, Serving, InBan, durable, flags
  <2> QED BY <2>1, FewerEvents DEF CountedAll
<1>4. CASE Verdict
  BY <1>0, <1>4, FewerEvents DEF Verdict, Goto, Threads, TypeOK, Serving, InBan, CountedAll, durable, flags
<1>5. CASE Finalizing
  <2> USE <1>0 DEF Serving, InBan, Goto, At, Threads, TypeOK, durable, flags
  <2>1. CASE Insert \/ InsertFails \/ CacheAdd
    <3>1. /\ file' = file /\ count' = count /\ (Serving' <=> Serving) /\ ~InBan'
      BY <2>1 DEF Insert, InsertFails, CacheAdd, AfterAdd
    <3> QED BY <3>1, FewerEvents DEF CountedAll
  <2>2. CASE Cancel
    <3>1. file' = file /\ count' = count + 1 /\ (Serving' <=> Serving)
      BY <2>2 DEF Cancel
    <3>2. \A e \in Unexpired(file) : e.count \in Nat
      BY DEF Unexpired, Event
    <3> QED BY <3>1, <3>2, FewerEvents DEF CountedAll
  <2>3. CASE SetFlag \/ Escalate \/ SetTimer \/ Pause
    <3>1. InBan /\ file' = file /\ count' = count /\ (Serving' <=> Serving) /\ InBan'
      BY <2>3 DEF SetFlag, Escalate, SetTimer, Pause
    <3> QED BY <3>1, FewerEvents DEF CountedAll
  <2>4. CASE SaveEvent
    <3>1. InBan /\ Serving /\ count # 0 /\ count' = count /\ ~InBan'
      BY <2>4 DEF SaveEvent, Alone, Running
    <3>2. EventsFit' /\ Ordered' /\ Unexpired(file') \subseteq Unexpired(file) \cup {NewEvent}
      BY <2>4, <3>1, SavedEvent DEF SaveEvent
    <3>3. NewEvent.count = count
      BY DEF NewEvent
    <3> QED BY <3>1, <3>2, <3>3 DEF CountedAll
  <2>5. CASE SaveFails
    <3>1. file' = file /\ count' = count /\ (Serving' <=> Serving) /\ ~InBan'
      BY <2>5 DEF SaveFails
    <3> QED BY <3>1, FewerEvents DEF CountedAll
  <2> QED
    BY <1>5, <2>1, <2>2, <2>3, <2>4, <2>5 DEF Finalizing
<1>6. CASE Resetting
  <2>1. /\ file' \subseteq file /\ count' = count
        /\ (Serving' <=> Serving) /\ (InBan' <=> InBan)
    BY <1>0, <1>6, UnexpiredSubset DEF Resetting, Fire, ClearFlag, Resume, ExpireAtReset,
       Goto, Threads, TypeOK, Serving, InBan, durable, flags
  <2> QED BY <2>1, FewerEvents DEF CountedAll
<1>7. CASE Tick
  <2>1. /\ count' = count /\ (Serving' <=> Serving) /\ (InBan' <=> InBan)
        /\ file' = {[e EXCEPT !.left = Older(@)] : e \in file}
    BY <1>7 DEF Tick, Serving, InBan, flags
  <2>2. /\ EventsFit' /\ Ordered'
        /\ \A f \in Unexpired(file') : \E e \in Unexpired(file) : f.count = e.count
    BY <1>0, <2>1, OlderEvents
  <2> QED BY <2>1, <2>2 DEF CountedAll
<1>8. CASE Crash
  <2>1. file' \subseteq file /\ pc' = PcAt("down")
    BY <1>8 DEF Crash, Blank
  <2> QED BY <1>1, <2>1
<1>9. CASE UNCHANGED vars
  BY <1>9, FewerEvents DEF vars, CountedAll, Serving, InBan
<1> QED
  BY <1>2, <1>3, <1>4, <1>5, <1>6, <1>7, <1>8, <1>9 DEF Next

LEMMA EventInit == Init => EventInv
BY DEF Init, EventInv, EventsFit, Ordered, Unexpired, CountedAll, Serving, InBan, PcAt, Threads

\* Of two saved bans the one with the higher count ends later, and no saved
\* ban in force has a higher count than the running process: so the latest
\* event is the strictest, restoring it alone is enough
\* (get_active_forbid_event), and the next ban is longer than all of them.
StrictestLast ==
    /\ \A e, f \in Unexpired(file) : e.count < f.count => e.left < f.left
    /\ Running => \A e \in Unexpired(file) : e.count <= count

\* The event that ends last has the highest count, and the process counts at
\* least as high: restoring that one event is enough, after any crash.
THEOREM LatestIsStrictest == Spec => []StrictestLast
<1>1. EventInv => StrictestLast
  BY DEF EventInv, StrictestLast, Ordered, CountedAll, Serving, Running
<1> QED
  BY <1>1, InitCacheInv, StepCacheInv, EventInit, EventStep, PTL DEF Spec

-----------------------------------------------------------------------------
(***************************************************************************)
(* The ladder of the bans.  While a ban is set up the count is above that  *)
(* of every saved event in force.                                          *)
(***************************************************************************)
Rises == InBan => \A e \in Unexpired(file) : e.count < count

LEMMA RisesInit == Init => Rises
BY DEF Init, Rises, InBan, PcAt, Threads

\* Steps that begin no ban and save no event.
LEMMA RisesStays == ASSUME Rises, InBan' => InBan /\ count' = count,
                           \A f \in Unexpired(file') : \E e \in Unexpired(file) : f.count = e.count
    PROVE Rises'
BY DEF Rises

LEMMA RisesStep == CacheInv /\ EventInv /\ Rises /\ [Next]_vars => Rises'
<1> SUFFICES ASSUME CacheInv, EventInv, Rises, [Next]_vars PROVE Rises'
  OBVIOUS
<1>0. TypeOK /\ Alone
  BY DEF CacheInv
<1> USE <1>0 DEF InBan, Goto, At, Threads, TypeOK
<1>1. CASE ~InBan'
  BY <1>1 DEF Rises
<1>2. CASE Loading
  <2>1. pc["finalizer"] = "idle"
    BY <1>2 DEF Loading, Start, InitCache, ExpireAtStart, Restore, ArmRestored, Alone, Running
  <2>2. ~InBan'
    BY <1>2, <2>1 DEF Loading, Start, InitCache, ExpireAtStart, Restore, ArmRestored, Blank, PcAt
  <2> QED BY <1>1, <2>2
<1>3. ASSUME NEW t \in Readers, Refresh(t) PROVE Rises'
  BY <1>3, RisesStays DEF Refresh, RefreshCheck, RefreshRead, RefreshFails, RefreshSwap, AfterRefresh,
     Readers, durable, flags
<1>4. CASE Finalizing
  <2>1. CASE Insert \/ InsertFails \/ CacheAdd \/ SaveEvent \/ SaveFails
    BY <1>1, <2>1 DEF Insert, InsertFails, CacheAdd, SaveEvent, SaveFails, AfterAdd
  <2>2. CASE Cancel
    <3>1. file' = file /\ count' = count + 1 /\ Serving
      BY <2>2 DEF Cancel, Alone, Running, Serving, durable
    <3>2. \A e \in Unexpired(file) : e.count \in Nat /\ e.count <= count
      BY <3>1 DEF EventInv, CountedAll, Unexpired, Event
    <3> QED BY <3>1, <3>2 DEF Rises
  <2>3. CASE SetFlag \/ Escalate \/ SetTimer \/ Pause
    BY <2>3, RisesStays DEF SetFlag, Escalate, SetTimer, Pause, durable, flags
  <2> QED BY <1>4, <2>1, <2>2, <2>3 DEF Finalizing
<1>5. CASE Resetting
  <2>1. /\ file' \subseteq file /\ count' = count /\ (InBan' <=> InBan)
    BY <1>5, UnexpiredSubset DEF Resetting, Fire, ClearFlag, Resume, ExpireAtReset, durable, flags
  <2>2. Unexpired(file') \subseteq Unexpired(file)
    BY <2>1 DEF Unexpired
  <2> QED BY <2>1, <2>2, RisesStays
<1>6. CASE Verdict \/ Tick \/ Crash
  BY <1>1, <1>6 DEF Verdict, Tick, Crash, Blank, PcAt
<1>7. CASE UNCHANGED vars
  BY <1>7, RisesStays DEF vars
<1> QED BY <1>2, <1>3, <1>4, <1>5, <1>6, <1>7 DEF Next

\* What the ladder sees of an event.
Rung(e) == [mode |-> e.mode, count |-> e.count, left |-> e.left]

\* The event that is saved is a rung above all others.
LEMMA SavedBegins == ASSUME TypeOK, EventInv, Rises, InBan, file' = Unexpired(file \cup {NewEvent})
    PROVE B!Begin
<1> DEFINE b == Rung(NewEvent)
<1>1. /\ b.mode = Mode(count) /\ b.count = count /\ b.left = Interval(count)
      /\ NewEvent.left = Interval(count)
      /\ count \in Nat /\ count # 0 /\ Interval(count) \in Nat /\ Interval(count) > 0
  BY IntervalNat, IntervalPositive DEF NewEvent, Rung, TypeOK, EventInv
<1>2. Unexpired(file') = Unexpired(file) \cup {NewEvent}
  BY <1>1 DEF Unexpired
<1>3. bansNow = {Rung(e) : e \in Unexpired(file)} /\ bansNow' = bansNow \cup {b}
  BY <1>2 DEF bansNow, Rung
<1>4. ASSUME NEW e \in Unexpired(file) PROVE B!Outranks(b, Rung(e))
  <2>1. e \in file /\ e.count \in Nat /\ e.left \in Nat /\ e.count < count
    BY <1>4 DEF TypeOK, Event, Unexpired, Rises
  <2>2. e.left <= Interval(e.count) /\ Interval(e.count) < Interval(count) /\ Interval(e.count) \in Nat
    BY <1>1, <2>1, IntervalUp, IntervalNat DEF EventInv, EventsFit
  <2>3. e.mode = Mode(e.count)
    BY <2>1 DEF EventInv, EventsFit
  <2>4. Mode(e.count) = "requests" => Mode(count) = "requests"
    BY <1>1, <2>1, BanAssumption DEF Mode
  <2>5. Rung(e).mode = e.mode /\ Rung(e).count = e.count /\ Rung(e).left = e.left
    BY DEF Rung
  <2> HIDE DEF b
  <2> QED BY <1>1, <2>1, <2>2, <2>3, <2>4, <2>5 DEF B!Outranks
<1> HIDE DEF b
<1> QED BY <1>3, <1>4 DEF B!Begin

\* A clock unit takes as much from every rung, and takes the last ones away.
LEMMA TickPasses == ASSUME TypeOK, file' = {[e EXCEPT !.left = Older(@)] : e \in file}
    PROVE B!Pass
<1> DEFINE later(e) == [e EXCEPT !.left = Older(@)]
           down(a) == [a EXCEPT !.left = @ - 1]
<1>1. ASSUME NEW e \in file
      PROVE /\ e.left \in Nat /\ later(e).left = Older(e.left)
            /\ e.left > 1 => Rung(later(e)) = down(Rung(e))
  <2>1. e \in Event
    BY DEF TypeOK
  <2>2. /\ later(e).left = Older(e.left) /\ later(e).mode = e.mode /\ later(e).count = e.count
        /\ e.left \in Nat
    BY <2>1 DEF Event
  <2>3. down(Rung(e)) = [mode |-> e.mode, count |-> e.count, left |-> e.left - 1]
    BY DEF Rung
  <2>4. e.left > 1 => Older(e.left) = e.left - 1
    BY <2>2 DEF Older
  <2> HIDE DEF later, down
  <2> QED BY <2>2, <2>3, <2>4 DEF Rung
<1>2. file' = {later(e) : e \in file}
  OBVIOUS
<1> HIDE DEF later, down
<1>3. Unexpired(file') = {later(e) : e \in {x \in file : x.left > 1}}
  <2>1. \A e \in file : later(e).left > 0 <=> e.left > 1
    BY <1>1 DEF Older
  <2> QED BY <1>2, <2>1 DEF Unexpired
<1>4. bansNow' = {Rung(f) : f \in Unexpired(file')}
  BY DEF bansNow, Rung
<1>5. bansNow' = {down(Rung(e)) : e \in {x \in file : x.left > 1}}
  BY <1>1, <1>3, <1>4
<1>6. {a \in bansNow : a.left > 1} = {Rung(e) : e \in {x \in file : x.left > 1}}
  <2>1. bansNow = {Rung(e) : e \in Unexpired(file)} /\ \A e : Rung(e).left = e.left
    BY DEF bansNow, Rung
  <2>2. \A e \in file : e.left \in Nat /\ (e.left > 1 => e.left > 0)
    BY <1>1
  <2> HIDE DEF Rung
  <2> QED BY <2>1, <2>2 DEF Unexpired
<1> QED BY <1>5, <1>6 DEF B!Pass, down

LEMMA LadderStep == CacheInv /\ EventInv /\ Rises /\ [Next]_vars => [B!Begin \/ B!Pass \/ B!Lose]_bansNow
<1> SUFFICES ASSUME CacheInv, EventInv, Rises, [Next]_vars
             PROVE B!Begin \/ B!Pass \/ B!Lose \/ bansNow' = bansNow
  OBVIOUS
<1>0. TypeOK
  BY DEF CacheInv
<1>1. CASE file' = file \/ file' = Unexpired(file)
  BY <1>1 DEF bansNow, Unexpired
<1>2. CASE file' = {}
  BY <1>2 DEF bansNow, Unexpired, B!Lose
<1>3. CASE Tick
  BY <1>0, <1>3, TickPasses DEF Tick
<1>4. CASE SaveEvent
  BY <1>0, <1>4, SavedBegins DEF SaveEvent, InBan, At
<1>5. CASE Crash
  BY <1>1, <1>2, <1>5 DEF Crash
<1>6. CASE Loading
  BY <1>1, <1>6 DEF Loading, Start, InitCache, ExpireAtStart, Restore, ArmRestored, durable
<1>7. ASSUME NEW t \in Readers, Refresh(t) PROVE bansNow' = bansNow
  BY <1>1, <1>7 DEF Refresh, RefreshCheck, RefreshRead, RefreshFails, RefreshSwap, durable, bansNow, Unexpired
<1>8. CASE Finalizing \/ Verdict
  BY <1>1, <1>4, <1>8 DEF Finalizing, Verdict, Insert, InsertFails, CacheAdd, Cancel, SetFlag, Escalate,
     SetTimer, Pause, SaveFails, durable
<1>9. CASE Resetting
  BY <1>1, <1>9 DEF Resetting, Fire, ClearFlag, Resume, ExpireAtReset, durable
<1>10. CASE UNCHANGED vars
  BY <1>1, <1>10 DEF vars
<1> QED BY <1>3, <1>5, <1>6, <1>7, <1>8, <1>9, <1>10 DEF Next

\* Every ban outranks all saved ones, across restarts, crashes and failing writes,
\* and none ends early, unless a rewrite of the file is cut off.
THEOREM BansClimb == Spec => BanSpec
<1>1. Init => bansNow = {}
  BY DEF Init, bansNow, Unexpired
<1> QED
  BY <1>1, InitCacheInv, StepCacheInv, EventInit, EventStep, RisesInit, RisesStep, LadderStep, PTL
  DEF Spec, BanSpec, B!Ladder

-----------------------------------------------------------------------------
(***************************************************************************)
(* The bans.  The flags follow the count; the timer covers every saved     *)
(* event; a reset_forbid that is about to clear a flag finds no event left *)
(* in force, unless the last ban overtook it.                              *)
(***************************************************************************)
Setting == pc["finalizer"] \in {"flag", "escalate", "timer"}
Settled == pc["finalizer"] \in {"pause", "save"}
Raised  == pc["finalizer"] \in {"timer", "pause", "save"}

Quiet == ~Serving => ~img /\ ~req /\ ~paused /\ timer = NoTimer

Graded ==
    /\ req => Mode(count) = "requests"
    /\ At("finalizer", "escalate") => Mode(count) = "requests" /\ ~img
    /\ At("finalizer", "timer") => (img => Mode(count) = "images")

TimerFits ==
    /\ Setting => timer = NoTimer
    /\ Settled => timer = [mode |-> Mode(count), left |-> Interval(count)]
    /\ timer # NoTimer => \A e \in Unexpired(file) : e.left <= timer.left

ClearsLast == ~overlap /\ At("reset", "clear") => ~InBan /\ Unexpired(file) = {}

Kept == ~overlap /\ Serving =>
    /\ ~InBan => \A e \in Unexpired(file) : InForce(e.mode)
    /\ Raised => InForce(Mode(count))

Ends == Serving /\ ~overrun =>
    /\ img => EndComing("images") \/ At("finalizer", "flag")
    /\ req => EndComing("requests") \/ At("finalizer", "flag") \/ At("finalizer", "escalate")
    /\ paused => \/ timer # NoTimer
                 \/ At("reset", "clear") \/ At("reset", "resume")
                 \/ At("finalizer", "flag") \/ At("finalizer", "escalate")
                 \/ At("finalizer", "timer")

BanInv == Quiet /\ Graded /\ TimerFits /\ ClearsLast /\ Kept /\ Ends

LEMMA TimerIsSet == \A m \in Modes, left \in Nat :
    [mode |-> m, left |-> left].mode = m /\ [mode |-> m, left |-> left] # NoTimer
<1> SUFFICES ASSUME NEW m \in Modes, NEW left \in Nat
             PROVE  [mode |-> m, left |-> left].mode = m /\ [mode |-> m, left |-> left] # NoTimer
  OBVIOUS
<1>1. NoTimer.mode = "none" /\ [mode |-> m, left |-> left].mode = m
  BY DEF NoTimer
<1>2. m # "none"
  BY DEF Modes
<1> QED BY <1>1, <1>2

LEMMA SetTimerMode == TypeOK => timer = NoTimer \/ (timer \in Timer /\ timer.mode \in Modes /\ timer # NoTimer)
BY NoTimerIsNone DEF TypeOK, Timer, Modes

LEMMA ModeUp == \A c, d \in Nat : c <= d /\ Mode(c) = "requests" => Mode(d) = "requests"
BY BanAssumption DEF Mode

\* A step that leaves the flags, the timer and the events, and does not enter
\* or leave a ban, keeps the invariant.
LEMMA Aside == ASSUME BanInv, UNCHANGED <<flags, timer, history>>,
                      Unexpired(file') \subseteq Unexpired(file), Serving' <=> Serving,
                      pc'["finalizer"] = pc["finalizer"] \/ (~InBan /\ ~InBan'),
                      pc'["reset"] = "clear" <=> pc["reset"] = "clear",
                      pc'["reset"] = "resume" <=> pc["reset"] = "resume",
                      At("reset", "clear") => endMode' = endMode
               PROVE  BanInv'
<1> USE DEF BanInv, flags, history, At, InBan
<1>1. Quiet'
  BY DEF Quiet
<1>2. Graded'
  BY DEF Graded
<1>3. TimerFits'
  BY DEF TimerFits, Setting, Settled
<1>4. ClearsLast'
  BY DEF ClearsLast
<1>5. Kept'
  BY DEF Kept, InForce, MediaKilled, Raised
<1>6. Ends'
  BY DEF Ends, EndComing
<1> QED BY <1>1, <1>2, <1>3, <1>4, <1>5, <1>6

\* A process that starts or dies has no flag, no timer and no ban.
LEMMA BlankBan == ASSUME NEW step \in {"down", "cache"}, Blank(step) PROVE BanInv'
<1>1. /\ ~Serving' /\ pc'["finalizer"] = "idle" /\ pc'["reset"] = "idle"
      /\ ~img' /\ ~req' /\ ~paused' /\ timer' = NoTimer
  BY DEF Blank, PcAt, Threads, Readers, Serving
<1>2. Quiet' /\ Graded'
  BY <1>1 DEF Quiet, Graded, At
<1>3. TimerFits' /\ ClearsLast'
  BY <1>1 DEF TimerFits, ClearsLast, Setting, Settled, At
<1>4. Kept' /\ Ends'
  BY <1>1 DEF Kept, Ends
<1> QED BY <1>2, <1>3, <1>4 DEF BanInv

\* A saved event is of the mode of its count, which a higher count keeps.
LEMMA EventModes == ASSUME TypeOK, EventsFit PROVE
    \A e \in file : /\ e.count \in Nat /\ e.left \in Nat /\ e.mode \in Modes
                    /\ \A c \in Nat : e.count <= c /\ e.mode = "requests" => Mode(c) = "requests"
BY ModeUp DEF TypeOK, EventsFit, Event

\* Whatever is in force of the mode of the count covers all saved events.
CountCovers ==
    EventInv /\ Serving /\ InForce(Mode(count)) => \A e \in Unexpired(file) : InForce(e.mode)

LEMMA CountCoversAll == TypeOK => CountCovers
<1> SUFFICES ASSUME TypeOK, EventInv, Serving, InForce(Mode(count)), NEW e \in Unexpired(file)
             PROVE  InForce(e.mode)
  BY DEF CountCovers
<1>1. e \in file /\ e.count <= count
  BY DEF EventInv, CountedAll, Unexpired
<1>2. count \in Nat /\ Mode(count) \in Modes
  BY IntervalNat DEF TypeOK
<1>3. e.mode \in Modes /\ (e.mode = "requests" => Mode(count) = "requests")
  BY <1>1, <1>2, EventModes DEF EventInv
<1> QED BY <1>2, <1>3 DEF InForce, MediaKilled, Modes

LEMMA CountCoversNext == TypeOK' => CountCovers'
BY CountCoversAll, PTL

LEMMA BanInit == Init => BanInv
<1> SUFFICES ASSUME Init PROVE BanInv
  OBVIOUS
<1>1. /\ ~Serving /\ pc["finalizer"] = "idle" /\ pc["reset"] = "idle"
      /\ ~img /\ ~req /\ ~paused /\ timer = NoTimer
  BY DEF Init, PcAt, Threads, Readers, Serving
<1>2. Quiet /\ Graded
  BY <1>1 DEF Quiet, Graded, At
<1>3. TimerFits /\ ClearsLast
  BY <1>1 DEF TimerFits, ClearsLast, Setting, Settled, At
<1>4. Kept /\ Ends
  BY <1>1 DEF Kept, Ends
<1> QED BY <1>2, <1>3, <1>4 DEF BanInv

\* The steps of loading: the restored flag covers every event, its timer ends
\* no earlier than any of them.
LEMMA BanLoading == CacheInv /\ EventInv /\ BanInv /\ Loading => BanInv'
<1> SUFFICES ASSUME CacheInv, EventInv, BanInv, Loading PROVE BanInv'
  OBVIOUS
<1>0. TypeOK /\ Alone
  BY DEF CacheInv
<1>1. CASE Start
  BY <1>1, BlankBan DEF Start
<1>2. CASE InitCache
  BY <1>0, <1>2, Aside DEF InitCache, Goto, At, Threads, TypeOK, Serving, flags, history, durable
<1>3. CASE ExpireAtStart
  <2>1. Unexpired(file') \subseteq Unexpired(file)
    BY <1>3 DEF ExpireAtStart, Unexpired
  <2> QED
    BY <1>0, <1>3, <2>1, Aside DEF ExpireAtStart, Goto, At, Threads, TypeOK, Serving, flags, history
<1>4. CASE Restore
  <2>1. /\ pc["finalizer"] = "idle" /\ pc["reset"] = "idle" /\ pc["main"] = "restore"
        /\ file' = file /\ ~Serving
    BY <1>0, <1>4 DEF Restore, Alone, Running, At, Threads, Readers, Serving, durable
  <2>2. CASE Unexpired(file) = {} /\ UNCHANGED flags /\ timer' = timer /\ Goto("main", "run")
    <3>1. /\ pc'["finalizer"] = "idle" /\ pc'["reset"] = "idle" /\ Serving'
          /\ ~img' /\ ~req' /\ ~paused' /\ timer' = NoTimer /\ Unexpired(file') = {}
      BY <1>0, <2>1, <2>2 DEF Goto, TypeOK, Threads, BanInv, Quiet, Serving, flags
    <3>2. Quiet' /\ Graded' /\ Ends' /\ ClearsLast' /\ TimerFits'
      BY <3>1 DEF Quiet, Graded, Ends, ClearsLast, TimerFits, Setting, Settled, At
    <3>3. Kept'
      BY <3>1 DEF Kept, Raised
    <3> QED BY <3>2, <3>3 DEF BanInv
  <2>3. ASSUME NEW e \in Latest(file), RestoreEvent(e), Goto("main", "arm") PROVE BanInv'
    <3>1. /\ e \in Unexpired(file) /\ e \in file
          /\ \A f \in Unexpired(file) : f \in file /\ f.left <= e.left
      BY DEF Latest, Unexpired
    <3>2. /\ e.mode \in Modes /\ e.left \in Nat /\ e.count \in Nat /\ Mode(e.count) = e.mode
      BY <1>0, <3>1 DEF TypeOK, Event, EventInv, EventsFit
    <3>3. /\ pc'["finalizer"] = "idle" /\ pc'["reset"] = "idle" /\ Serving'
          /\ img' = (e.mode = "images") /\ req' = (e.mode = "requests") /\ paused'
          /\ timer' = [mode |-> e.mode, left |-> e.left] /\ count' = e.count
      BY <1>0, <2>1, <2>3 DEF Goto, TypeOK, Threads, Readers, Serving, RestoreEvent
    <3>4. timer'.mode = e.mode /\ timer'.left = e.left /\ timer' # NoTimer
      BY <3>2, <3>3, TimerIsSet
    <3>5. Quiet' /\ Graded' /\ ClearsLast'
      BY <3>2, <3>3 DEF Quiet, Graded, ClearsLast, At
    <3>6. TimerFits'
      BY <2>1, <3>1, <3>3, <3>4 DEF TimerFits, Setting, Settled
    <3>7. Ends'
      BY <3>2, <3>3, <3>4 DEF Ends, EndComing
    <3>8. TypeOK' /\ EventInv'
      BY <1>4, StepType, EventStep, <1>0 DEF Next, Loading
    <3>9. InForce(Mode(count))'
      BY <3>2, <3>3 DEF InForce, MediaKilled, Modes
    <3>10. \A f \in Unexpired(file') : InForce(f.mode)'
      BY <3>3, <3>8, <3>9, CountCoversNext DEF CountCovers
    <3>11. Kept'
      BY <3>3, <3>10 DEF Kept, Raised
    <3> QED BY <3>5, <3>6, <3>7, <3>11 DEF BanInv
  <2> QED BY <1>4, <2>2, <2>3 DEF Restore
<1>5. CASE ArmRestored
  <2>1. /\ pc["finalizer"] = "idle" /\ pc["reset"] = "idle" /\ Serving /\ Serving'
        /\ pc'["finalizer"] = "idle" /\ pc'["reset"] = "idle"
        /\ UNCHANGED <<file, img, req, paused, count, overlap>>
    BY <1>0, <1>5 DEF ArmRestored, Alone, Running, Goto, At, TypeOK, Threads, Readers, Serving,
       durable, flags
  <2>2. UNCHANGED <<timer, overrun>> \/ (timer' = NoTimer /\ overrun')
    BY <1>5 DEF ArmRestored
  <2>3. Quiet' /\ Graded' /\ ClearsLast' /\ TimerFits'
    BY <2>1, <2>2 DEF BanInv, Quiet, Graded, ClearsLast, TimerFits, Setting, Settled, At
  <2>4. Kept'
    BY <2>1 DEF BanInv, Kept, Raised, InBan, InForce, MediaKilled
  <2>5. Ends'
    BY <2>1, <2>2 DEF BanInv, Ends, EndComing, At
  <2> QED BY <2>3, <2>4, <2>5 DEF BanInv
<1> QED BY <1>1, <1>2, <1>3, <1>4, <1>5 DEF Loading

\* The steps of set_forbid.
LEMMA BanFinalizing == CacheInv /\ EventInv /\ BanInv /\ Finalizing => BanInv'
<1> SUFFICES ASSUME CacheInv, EventInv, BanInv, Finalizing PROVE BanInv'
  OBVIOUS
<1>0. TypeOK /\ Alone
  BY DEF CacheInv
<1>1. CASE Insert \/ InsertFails \/ CacheAdd
  <2>1. /\ ~InBan /\ ~InBan' /\ (Serving' <=> Serving) /\ pc'["reset"] = pc["reset"]
        /\ UNCHANGED <<flags, timer, history, file, endMode>>
    BY <1>0, <1>1 DEF Insert, InsertFails, CacheAdd, AfterAdd, Goto, At, Threads, Readers, TypeOK,
       Serving, InBan, durable
  <2> QED BY <2>1, Aside
<1>2. CASE Cancel
  <2>1. /\ pc'["finalizer"] = "flag" /\ pc'["reset"] = pc["reset"] /\ Serving /\ Serving'
        /\ count' = count + 1 /\ timer' = NoTimer /\ UNCHANGED <<img, req, paused, file, endMode>>
        /\ overlap' = At("reset", "clear") /\ count \in Nat
    BY <1>0, <1>2 DEF Cancel, Goto, At, Alone, Running, TypeOK, Threads, Readers, Serving, durable
  <2>2. Mode(count) = "requests" => Mode(count') = "requests"
    BY <2>1, ModeUp
  <2>3. Quiet' /\ Graded' /\ TimerFits' /\ ClearsLast'
    BY <2>1, <2>2 DEF BanInv, Quiet, Graded, TimerFits, ClearsLast, Setting, Settled, At
  <2>4. Kept'
    BY <2>1 DEF Kept, InBan, Raised
  <2>5. Ends'
    BY <2>1 DEF Ends, At
  <2> QED BY <2>3, <2>4, <2>5 DEF BanInv
<1>3. CASE SetFlag
  <2>1. /\ pc["finalizer"] = "flag" /\ pc'["reset"] = pc["reset"] /\ Serving /\ Serving'
        /\ pc'["finalizer"] = (IF Mode(count) = "images" THEN "timer" ELSE "escalate")
        /\ UNCHANGED <<req, count, paused, timer, file, endMode, history>>
        /\ img' = (Mode(count) = "images")
        /\ Mode(count) \in {"images", "requests"} /\ timer = NoTimer
    BY <1>0, <1>3, IntervalNat DEF SetFlag, Goto, At, Alone, Running, TypeOK, Threads, Readers, Serving,
       durable, BanInv, TimerFits, Setting, Modes
  <2>2. Quiet' /\ Graded' /\ TimerFits' /\ ClearsLast'
    BY <2>1 DEF BanInv, Quiet, Graded, TimerFits, ClearsLast, Setting, Settled, At, InBan, history
  <2>3. Kept'
    BY <2>1 DEF Kept, InBan, Raised, InForce, MediaKilled
  <2>4. Ends'
    BY <2>1 DEF Ends, EndComing, At, BanInv, Graded, history
  <2> QED BY <2>2, <2>3, <2>4 DEF BanInv
<1>4. CASE Escalate
  <2>1. /\ pc["finalizer"] = "escalate" /\ pc'["reset"] = pc["reset"] /\ Serving /\ Serving'
        /\ pc'["finalizer"] = "timer"
        /\ UNCHANGED <<img, count, paused, timer, file, endMode, history>>
        /\ req' /\ ~img /\ Mode(count) = "requests" /\ timer = NoTimer
    BY <1>0, <1>4 DEF Escalate, Goto, At, Alone, Running, TypeOK, Threads, Readers, Serving,
       durable, BanInv, TimerFits, Graded, Setting
  <2>2. Quiet' /\ Graded' /\ TimerFits' /\ ClearsLast'
    BY <2>1 DEF BanInv, Quiet, Graded, TimerFits, ClearsLast, Setting, Settled, At, InBan, history
  <2>3. Kept'
    BY <2>1 DEF Kept, InBan, Raised, InForce
  <2>4. Ends'
    BY <2>1 DEF Ends, EndComing, At
  <2> QED BY <2>2, <2>3, <2>4 DEF BanInv
<1>5. CASE SetTimer
  <2>1. /\ pc["finalizer"] = "timer" /\ pc'["reset"] = pc["reset"] /\ Serving /\ Serving'
        /\ pc'["finalizer"] = "pause"
        /\ UNCHANGED <<img, req, count, paused, file, endMode, overlap>>
        /\ timer' = [mode |-> Mode(count), left |-> Interval(count)]
        /\ count \in Nat /\ Mode(count) \in Modes /\ Interval(count) \in Nat
    BY <1>0, <1>5, IntervalNat DEF SetTimer, Goto, At, Alone, Running, TypeOK, Threads, Readers, Serving,
       durable, flags
  <2>2. timer'.mode = Mode(count) /\ timer'.left = Interval(count) /\ timer' # NoTimer
    BY <2>1, TimerIsSet
  <2>3. \A e \in Unexpired(file) : e.left <= Interval(count)
    <3> SUFFICES ASSUME NEW e \in Unexpired(file) PROVE e.left <= Interval(count)
      OBVIOUS
    <3>1. e \in file /\ e.count <= count /\ e.left <= Interval(e.count)
      BY <2>1 DEF EventInv, EventsFit, CountedAll, Unexpired
    <3>2. e.count \in Nat /\ e.left \in Nat
      BY <1>0, <3>1 DEF TypeOK, Event
    <3>3. Interval(e.count) <= Interval(count) /\ Interval(e.count) \in Nat
      BY <2>1, <3>1, <3>2, IntervalFrom, IntervalNat
    <3> QED BY <2>1, <3>1, <3>2, <3>3
  <2>4. Quiet' /\ Graded' /\ ClearsLast'
    BY <2>1 DEF BanInv, Quiet, Graded, ClearsLast, At, InBan
  <2>5. TimerFits'
    BY <2>1, <2>2, <2>3 DEF TimerFits, Setting, Settled
  <2>6. Kept'
    BY <2>1 DEF BanInv, Kept, InBan, Raised, InForce, MediaKilled
  <2>7. Ends'
    BY <2>1, <2>2 DEF Ends, EndComing, At, BanInv, Graded
  <2> QED BY <2>4, <2>5, <2>6, <2>7 DEF BanInv
<1>6. CASE Pause
  <2>1. /\ pc["finalizer"] = "pause" /\ pc'["reset"] = pc["reset"] /\ Serving /\ Serving'
        /\ pc'["finalizer"] = "save"
        /\ UNCHANGED <<img, req, count, timer, file, endMode, history>>
        /\ timer # NoTimer
    BY <1>0, <1>6, IntervalNat, TimerIsSet DEF Pause, Goto, At, Alone, Running, TypeOK, Threads,
       Readers, Serving, durable, BanInv, TimerFits, Settled
  <2>2. Quiet' /\ Graded' /\ TimerFits' /\ ClearsLast'
    BY <2>1 DEF BanInv, Quiet, Graded, TimerFits, ClearsLast, Setting, Settled, At, InBan, history
  <2>3. Kept'
    BY <2>1 DEF BanInv, Kept, InBan, Raised, InForce, MediaKilled, history
  <2>4. Ends'
    BY <2>1 DEF Ends, EndComing, At, BanInv, history
  <2> QED BY <2>2, <2>3, <2>4 DEF BanInv
<1>7. CASE SaveEvent \/ SaveFails
  <2>1. /\ pc["finalizer"] = "save" /\ pc'["reset"] = pc["reset"] /\ Serving /\ Serving'
        /\ pc'["finalizer"] = "idle" /\ count \in Nat /\ Interval(count) \in Nat
        /\ UNCHANGED <<img, req, paused, count, timer, endMode, history>>
        /\ timer = [mode |-> Mode(count), left |-> Interval(count)] /\ Mode(count) \in Modes
        /\ count # 0
    BY <1>0, <1>7, IntervalNat DEF SaveEvent, SaveFails, Goto, At, Alone, Running, TypeOK, Threads,
       Readers, Serving, BanInv, TimerFits, Settled, flags, EventInv, InBan
  <2>2. Unexpired(file') \subseteq Unexpired(file) \cup {NewEvent}
    BY <1>7 DEF SaveEvent, SaveFails, Unexpired, durable
  <2>3. /\ timer.mode = Mode(count) /\ timer.left = Interval(count)
        /\ NewEvent.mode = Mode(count) /\ NewEvent.left = Interval(count)
    BY <2>1, TimerIsSet DEF NewEvent
  <2>4. Quiet' /\ Graded' /\ ClearsLast'
    BY <2>1 DEF BanInv, Quiet, Graded, ClearsLast, At, InBan, history
  <2>5. TimerFits'
    BY <2>1, <2>2, <2>3 DEF BanInv, TimerFits, Setting, Settled
  <2>6. Kept'
    <3> SUFFICES ASSUME ~overlap PROVE \A e \in Unexpired(file') : InForce(e.mode)'
      BY <2>1 DEF Kept, Raised, history
    <3>1. InForce(Mode(count))
      BY <2>1 DEF BanInv, Kept, Raised
    <3>2. \A e \in Unexpired(file) : InForce(e.mode)
      BY <1>0, <2>1, <3>1, CountCoversAll DEF CountCovers
    <3>3. \A e \in Unexpired(file') : InForce(e.mode)
      BY <2>2, <2>3, <3>1, <3>2
    <3> QED BY <2>1, <3>3 DEF InForce, MediaKilled
  <2>7. Ends'
    BY <2>1, <2>3 DEF Ends, EndComing, At, BanInv, history
  <2> QED BY <2>4, <2>5, <2>6, <2>7 DEF BanInv
<1> QED BY <1>1, <1>2, <1>3, <1>4, <1>5, <1>6, <1>7 DEF Finalizing

\* The steps of reset_forbid: a timer that fires has outlived every event.
LEMMA BanResetting == CacheInv /\ EventInv /\ BanInv /\ Resetting => BanInv'
<1> SUFFICES ASSUME CacheInv, EventInv, BanInv, Resetting PROVE BanInv'
  OBVIOUS
<1>0. TypeOK /\ Alone
  BY DEF CacheInv
<1>1. CASE Fire
  <2>1. /\ pc["reset"] = "idle" /\ pc'["reset"] = "clear" /\ pc'["finalizer"] = pc["finalizer"]
        /\ Serving /\ Serving' /\ UNCHANGED <<flags, file, history>>
        /\ timer # NoTimer /\ timer.left <= 0 /\ endMode' = timer.mode /\ timer' = NoTimer
    BY <1>0, <1>1 DEF Fire, Goto, At, Running, TypeOK, Threads, Readers, Serving, durable
  <2>2. ~Settled
    <3> SUFFICES ASSUME Settled PROVE FALSE
      OBVIOUS
    <3>1. timer = [mode |-> Mode(count), left |-> Interval(count)] /\ count \in Nat /\ count # 0
      BY <1>0 DEF BanInv, TimerFits, EventInv, InBan, Settled, TypeOK
    <3> QED BY <2>1, <3>1, IntervalPositive, IntervalNat
  <2>3. ~InBan
    BY <2>1, <2>2 DEF BanInv, TimerFits, Settled, Setting, InBan
  <2>4. \A e \in Unexpired(file) : e.left \in Nat /\ e.left > 0 /\ e.left <= timer.left
    BY <1>0, <2>1 DEF BanInv, TimerFits, Unexpired, TypeOK, Event
  <2>5. Unexpired(file) = {}
    <3>1. timer.left \in Nat
      BY <1>0, <2>1 DEF TypeOK, Timer
    <3> QED BY <2>1, <2>4, <3>1
  <2>6. Quiet' /\ Graded' /\ TimerFits' /\ ClearsLast'
    BY <2>1, <2>3, <2>5 DEF BanInv, Quiet, Graded, TimerFits, ClearsLast, Setting, Settled, At,
       InBan, flags
  <2>7. Kept'
    BY <2>1, <2>3, <2>5 DEF Kept, InBan, Raised
  <2>8. Ends'
    BY <2>1 DEF Ends, EndComing, At, BanInv, flags, history
  <2> QED BY <2>6, <2>7, <2>8 DEF BanInv
<1>2. CASE ClearFlag
  <2>1. /\ pc["reset"] = "clear" /\ pc'["reset"] = "resume" /\ pc'["finalizer"] = pc["finalizer"]
        /\ Serving /\ Serving' /\ UNCHANGED <<count, paused, file, history, timer>>
        /\ img' = (img /\ endMode # "images") /\ req' = (req /\ endMode # "requests")
    BY <1>0, <1>2 DEF ClearFlag, Alone, Goto, At, Running, TypeOK, Threads, Readers, Serving, durable
  <2>2. Quiet' /\ Graded' /\ TimerFits' /\ ClearsLast'
    BY <2>1 DEF BanInv, Quiet, Graded, TimerFits, ClearsLast, Setting, Settled, At
  <2>3. Kept'
    BY <2>1 DEF BanInv, Kept, ClearsLast, InBan, Raised, At, history
  <2>4. Ends'
    BY <2>1 DEF Ends, EndComing, At, BanInv, history
  <2> QED BY <2>2, <2>3, <2>4 DEF BanInv
<1>3. CASE Resume
  <2>1. /\ pc["reset"] = "resume" /\ pc'["reset"] = "check" /\ pc'["finalizer"] = pc["finalizer"]
        /\ Serving /\ Serving' /\ UNCHANGED <<count, img, req, file, history, timer>>
        /\ ~paused'
    BY <1>0, <1>3 DEF Resume, Alone, Goto, At, Running, TypeOK, Threads, Readers, Serving, durable
  <2>2. Quiet' /\ Graded' /\ TimerFits' /\ ClearsLast'
    BY <2>1 DEF BanInv, Quiet, Graded, TimerFits, ClearsLast, Setting, Settled, At
  <2>3. Kept'
    BY <2>1 DEF BanInv, Kept, InBan, Raised, InForce, MediaKilled, history
  <2>4. Ends'
    BY <2>1 DEF Ends, EndComing, At, BanInv, history
  <2> QED BY <2>2, <2>3, <2>4 DEF BanInv
<1>4. CASE ExpireAtReset
  <2>1. Unexpired(file') \subseteq Unexpired(file)
    BY <1>4 DEF ExpireAtReset, Unexpired
  <2> QED
    BY <1>0, <1>4, <2>1, Aside DEF ExpireAtReset, Goto, At, Threads, Readers, TypeOK, Serving
<1> QED BY <1>1, <1>2, <1>3, <1>4 DEF Resetting

\* The clock takes as much from the timer as from every event.
LEMMA BanTick == CacheInv /\ EventInv /\ BanInv /\ Tick => BanInv'
<1> SUFFICES ASSUME CacheInv, EventInv, BanInv, Tick PROVE BanInv'
  OBVIOUS
<1>0. TypeOK
  BY DEF CacheInv
<1>1. /\ UNCHANGED <<flags, pc, endMode, history>> /\ ~InBan /\ pc["reset"] = "idle"
      /\ timer' = [timer EXCEPT !.left = Older(@)]
      /\ file' = {[e EXCEPT !.left = Older(@)] : e \in file}
  BY DEF Tick, InBan, At
<1>2. \A f \in Unexpired(file') : \E e \in Unexpired(file) :
         f.count = e.count /\ f.mode = e.mode /\ f.left = e.left - 1
  BY <1>0, <1>1, OlderEvents DEF EventInv
<1>3. timer = NoTimer => timer' = NoTimer
  BY <1>1 DEF NoTimer, Older
<1>4. timer # NoTimer => /\ timer.left \in Nat /\ timer' # NoTimer
                         /\ timer'.mode = timer.mode /\ timer'.left = Older(timer.left)
  BY <1>0, <1>1, SetTimerMode, NoTimerIsNone DEF Timer, Modes
<1>5. Quiet' /\ Graded' /\ ClearsLast'
  BY <1>1, <1>3 DEF BanInv, Quiet, Graded, ClearsLast, At, InBan, Serving, flags, history
<1>6. TimerFits'
  <2>1. ASSUME timer' # NoTimer, NEW f \in Unexpired(file') PROVE f.left <= timer'.left
    <3>1. PICK e \in Unexpired(file) : f.left = e.left - 1
      BY <1>2
    <3>2. e.left \in Nat /\ e.left > 0 /\ e.left <= timer.left
      BY <1>0, <1>3, <2>1 DEF BanInv, TimerFits, Unexpired, TypeOK, Event
    <3> QED BY <1>3, <1>4, <2>1, <3>1, <3>2 DEF Older
  <2> QED BY <1>1, <2>1 DEF TimerFits, Setting, Settled, InBan
<1>7. Kept'
  BY <1>1, <1>2 DEF BanInv, Kept, InBan, Raised, InForce, MediaKilled, Serving, flags, history
<1>8. Ends'
  BY <1>1, <1>3, <1>4 DEF Ends, EndComing, At, BanInv, Serving, flags, history
<1> QED BY <1>5, <1>6, <1>7, <1>8 DEF BanInv

\* Every step keeps the invariant of the bans.
LEMMA BanStep == CacheInv /\ EventInv /\ BanInv /\ [Next]_vars => BanInv'
<1> SUFFICES ASSUME CacheInv, EventInv, BanInv, [Next]_vars PROVE BanInv'
  OBVIOUS
<1>0. TypeOK
  BY DEF CacheInv
<1>1. CASE Loading
  BY <1>1, BanLoading
<1>2. ASSUME NEW t \in Readers, Refresh(t) PROVE BanInv'
  <2>1. /\ UNCHANGED <<flags, timer, history, file, endMode>> /\ (Serving' <=> Serving)
        /\ pc'["finalizer"] = pc["finalizer"]
        /\ pc'["reset"] = "clear" <=> pc["reset"] = "clear"
        /\ pc'["reset"] = "resume" <=> pc["reset"] = "resume"
    BY <1>0, <1>2 DEF Refresh, RefreshCheck, RefreshRead, RefreshFails, RefreshSwap, AfterRefresh,
       Goto, At, Readers, Threads, TypeOK, Serving, durable
  <2> QED BY <2>1, Aside
<1>3. CASE Verdict
  <2>1. /\ UNCHANGED <<flags, timer, history, file, endMode>> /\ (Serving' <=> Serving)
        /\ ~InBan /\ ~InBan' /\ pc'["reset"] = pc["reset"]
    BY <1>0, <1>3 DEF Verdict, Goto, At, Threads, Readers, TypeOK, Serving, InBan, durable
  <2> QED BY <2>1, Aside
<1>4. CASE Finalizing
  BY <1>4, BanFinalizing
<1>5. CASE Resetting
  BY <1>5, BanResetting
<1>6. CASE Tick
  BY <1>6, BanTick
<1>7. CASE Crash
  BY <1>7, BlankBan DEF Crash
<1>8. CASE UNCHANGED vars
  BY <1>8, Aside DEF vars, flags, history, Serving
<1> QED BY <1>1, <1>2, <1>3, <1>4, <1>5, <1>6, <1>7, <1>8 DEF Next

\* Whatever is crashed and restored, the flag of the latest saved event is up,
\* unless the last ban overtook a reset_forbid that was still to clear its flag.
THEOREM BansAreInForce == Spec => []BanInForce
<1>1. BanInv => BanInForce
  BY DEF BanInv, BanInForce, Kept, Serving, Running, InBan, At, Latest
<1> QED
  BY <1>1, InitCacheInv, StepCacheInv, EventInit, EventStep, BanInit, BanStep, PTL DEF Spec

\* No flag stays up, and no refresh stays paused, without a timer or a thread
\* that ends it.
THEOREM BansHaveEnds == Spec => []BanHasEnd
<1>1. BanInv => BanHasEnd
  BY DEF BanInv, BanHasEnd, Ends, Serving, Running
<1> QED
  BY <1>1, InitCacheInv, StepCacheInv, EventInit, EventStep, BanInit, BanStep, PTL DEF Spec
=============================================================================
