-------------------------- MODULE SiteStats_proofs --------------------------
(***************************************************************************)
(* Proofs about SiteStats, for all pages, features and delays.             *)
(***************************************************************************)
EXTENDS SiteStats, FiniteSetTheorems, TLAPS

LEMMA EntryOfType == ASSUME TypeOK, NEW p PROVE EntryOf(p) \in Entry
BY DEF TypeOK, EntryOf, EmptyEntry, Entry

LEMMA CountType ==
    ASSUME NEW e \in Entry, NEW f \in Features
    PROVE  CountClean(e) \in Entry /\ CountProblem(e, f) \in Entry
BY DEF CountClean, CountProblem, Entry

LEMMA CleanOfType == ASSUME TypeOK, NEW p PROVE CleanOf(p) \in Nat
BY DEF TypeOK, CleanOf

\* An image leaves the page with a Timer that is typed, and every other Timer
\* as it was.
LEMMA RestartType ==
    ASSUME TypeOK, NEW p \in Pages, RestartTimer(p)
    PROVE  /\ timers' \in [DOMAIN timers \cup {p} -> Clock]
           /\ \A q \in DOMAIN timers \ {p} : timers'[q] = timers[q]
           /\ \/ timers'[p].waiting
              \/ p \in DOMAIN timers /\ timers'[p] = timers[p]
<1>1. NewTimer(0) \in Clock /\ NewTimer(0).waiting
  BY DelayAssumption DEF NewTimer, Clock
<1>2. ASSUME p \in DOMAIN timers
      PROVE  NewTimer(timers[p].age) \in Clock /\ NewTimer(timers[p].age).waiting
  BY <1>2, DelayAssumption DEF TypeOK, NewTimer, Clock
<1>3. ASSUME NEW c \in Clock, c.waiting, timers' = Put(timers, p, c)
      PROVE  /\ timers' \in [DOMAIN timers \cup {p} -> Clock]
             /\ \A q \in DOMAIN timers \ {p} : timers'[q] = timers[q]
             /\ timers'[p].waiting
  BY <1>3 DEF TypeOK, Put
<1>4. CASE p \notin DOMAIN timers \/ timers[p].age < MaxDelay
  BY <1>1, <1>2, <1>3, <1>4 DEF RestartTimer
<1>5. CASE p \in DOMAIN timers /\ ~(timers[p].age < MaxDelay)
  BY <1>5 DEF RestartTimer, TypeOK
<1> QED
  BY <1>4, <1>5

LEMMA OlderType ==
    ASSUME NEW c \in Clock
    PROVE  Older(c) \in Clock /\ Older(c).waiting = c.waiting
BY DelayAssumption DEF Older, Clock

-----------------------------------------------------------------------------
(***************************************************************************)
(* The invariant: the types, the two dictionaries with the same keys, and  *)
(* for every visit a Timer that waits or a thread on its way.              *)
(***************************************************************************)
VisitInv == TypeOK /\ StatsHaveTimer /\ WillBeFinished

LEMMA InitVisit == Init => VisitInv
BY DEF Init, VisitInv, TypeOK, StatsHaveTimer, WillBeFinished

\* An image keeps the invariant, clean or not.
LEMMA ImageVisit ==
    ASSUME VisitInv, NEW p \in Pages, NEW e \in Entry, NEW n \in Nat,
           stats' = Put(stats, p, e), clean' = Put(clean, p, n), RestartTimer(p),
           UNCHANGED <<late, listed>>
    PROVE  VisitInv'
<1> USE DEF VisitInv, StatsHaveTimer
<1>1. stats' \in [DOMAIN stats \cup {p} -> Entry]
  BY DEF TypeOK, Put
<1>2. clean' \in [DOMAIN clean \cup {p} -> Nat]
  BY DEF TypeOK, Put
<1>3. TypeOK'
  BY <1>1, <1>2, RestartType DEF TypeOK
<1>4. StatsHaveTimer'
  BY <1>1, RestartType
<1>5. WillBeFinished'
  <2> SUFFICES ASSUME NEW q \in DOMAIN stats' PROVE timers'[q].waiting \/ late'[q] > 0
    BY <1>4 DEF WillBeFinished
  <2>1. CASE q = p
    BY <2>1, RestartType DEF WillBeFinished
  <2>2. CASE q # p
    BY <1>1, <2>2, RestartType DEF WillBeFinished
  <2> QED
    BY <2>1, <2>2
<1> QED
  BY <1>3, <1>4, <1>5

\* A thread of a Timer keeps the invariant when it has the lock.
LEMMA FinishVisit == ASSUME VisitInv, NEW p \in Pages, Finish(p) PROVE VisitInv'
<1> USE DEF VisitInv, StatsHaveTimer
<1>1. /\ late' \in [Pages -> Nat]
      /\ \A q \in Pages \ {p} : late'[q] = late[q]
  BY DEF Finish, TypeOK
<1>2. CASE p \in DOMAIN stats
  <2>1. stats' \in [DOMAIN stats \ {p} -> Entry]
    BY <1>2 DEF Finish, TypeOK, Drop
  <2>2. /\ timers' \in [DOMAIN timers \ {p} -> Clock]
        /\ \A q \in DOMAIN timers \ {p} : timers'[q] = timers[q]
    BY <1>2 DEF Finish, TypeOK, Drop
  <2>3. clean' \in [DOMAIN clean \ {p} -> Nat]
    BY <1>2 DEF Finish, TypeOK, Drop
  <2>4. TypeOK'
    BY <1>1, <1>2, <2>1, <2>2, <2>3 DEF Finish, TypeOK
  <2> QED
    BY <1>1, <2>1, <2>2, <2>4 DEF TypeOK, WillBeFinished
<1>3. CASE p \notin DOMAIN stats
  BY <1>1, <1>3 DEF Finish, TypeOK, WillBeFinished
<1> QED
  BY <1>2, <1>3

LEMMA StepVisit == VisitInv /\ [Next]_vars => VisitInv'
<1> SUFFICES ASSUME VisitInv, [Next]_vars PROVE VisitInv'
  OBVIOUS
<1>1. ASSUME NEW p \in Pages, CleanImage(p) PROVE VisitInv'
  <2>1. CountClean(EntryOf(p)) \in Entry
    BY EntryOfType DEF VisitInv, CountClean, Entry
  <2>2. CleanOf(p) + 1 \in Nat
    BY CleanOfType DEF VisitInv
  <2> QED
    BY <1>1, <2>1, <2>2, ImageVisit DEF CleanImage
<1>2. ASSUME NEW p \in Pages, NEW f \in Features, ProblemImage(p, f) PROVE VisitInv'
  BY <1>2, EntryOfType, CountType, CleanOfType, ImageVisit DEF VisitInv, ProblemImage
<1>3. ASSUME NEW p \in Pages, Fire(p) PROVE VisitInv'
  <2>1. /\ timers' \in [DOMAIN timers -> Clock]
        /\ \A q \in DOMAIN timers \ {p} : timers'[q] = timers[q]
    BY <1>3 DEF Fire, VisitInv, TypeOK, Clock
  <2>2. /\ late' \in [Pages -> Nat]
        /\ late'[p] > 0
        /\ \A q \in Pages \ {p} : late'[q] = late[q]
    BY <1>3 DEF Fire, VisitInv, TypeOK
  <2> QED
    BY <1>3, <2>1, <2>2 DEF Fire, VisitInv, TypeOK, StatsHaveTimer, WillBeFinished
<1>4. ASSUME NEW p \in Pages, Finish(p) PROVE VisitInv'
  BY <1>4, FinishVisit
<1>5. CASE Tick
  <2>1. /\ timers' \in [DOMAIN timers -> Clock]
        /\ \A p \in DOMAIN timers : timers'[p].waiting = timers[p].waiting
    BY <1>5, OlderType DEF Tick, VisitInv, TypeOK
  <2> QED
    BY <1>5, <2>1 DEF Tick, VisitInv, TypeOK, StatsHaveTimer, WillBeFinished
<1>6. CASE UNCHANGED vars
  BY <1>6 DEF vars, VisitInv, TypeOK, StatsHaveTimer, WillBeFinished
<1> QED
  BY <1>1, <1>2, <1>3, <1>4, <1>5, <1>6 DEF Next

\* Every variable keeps its type.
THEOREM TypeCorrect == Spec => []TypeOK
<1>1. VisitInv => TypeOK
  BY DEF VisitInv
<1> QED
  BY <1>1, InitVisit, StepVisit, PTL DEF Spec

\* site_stats and site_timers have the same keys, so print_final_stats always
\* finds the Timer it takes.
THEOREM TimerForEveryVisit == Spec => []StatsHaveTimer
<1>1. VisitInv => StatsHaveTimer
  BY DEF VisitInv
<1> QED
  BY <1>1, InitVisit, StepVisit, PTL DEF Spec

\* No visit is left without a Timer that waits or a thread on its way.
THEOREM NoVisitForgotten == Spec => []WillBeFinished
<1>1. VisitInv => WillBeFinished
  BY DEF VisitInv
<1> QED
  BY <1>1, InitVisit, StepVisit, PTL DEF Spec

-----------------------------------------------------------------------------
(***************************************************************************)
(* A Timer that waits runs out before the visit is MaxDelay + Delay old:   *)
(* its age and the time it has left add up to less, and a second moves one *)
(* from the left to the age.                                               *)
(***************************************************************************)
ClockBound ==
    \A p \in DOMAIN timers :
        timers[p].waiting => timers[p].age + timers[p].left < MaxDelay + Delay

LEMMA StepClockBound == VisitInv /\ ClockBound /\ [Next]_vars => ClockBound'
<1> SUFFICES ASSUME VisitInv, ClockBound, [Next]_vars PROVE ClockBound'
  OBVIOUS
<1> USE DelayAssumption DEF VisitInv
<1>1. ASSUME NEW p \in Pages, RestartTimer(p) PROVE ClockBound'
  <2>1. ASSUME NEW c \in Clock, c.age + c.left < MaxDelay + Delay, timers' = Put(timers, p, c)
        PROVE  ClockBound'
    BY <2>1 DEF ClockBound, TypeOK, Put
  <2>2. NewTimer(0) \in Clock /\ NewTimer(0).age + NewTimer(0).left < MaxDelay + Delay
    BY DEF NewTimer, Clock
  <2>3. ASSUME p \in DOMAIN timers, timers[p].age < MaxDelay
        PROVE  LET c == NewTimer(timers[p].age)
               IN  c \in Clock /\ c.age + c.left < MaxDelay + Delay
    BY <2>3 DEF TypeOK, NewTimer, Clock
  <2>4. CASE timers' = timers
    BY <2>4 DEF ClockBound
  <2> QED
    BY <1>1, <2>1, <2>2, <2>3, <2>4 DEF RestartTimer
<1>2. ASSUME NEW p \in Pages, Fire(p) PROVE ClockBound'
  BY <1>2 DEF Fire, ClockBound, TypeOK, Clock
<1>3. ASSUME NEW p \in Pages, Finish(p) PROVE ClockBound'
  BY <1>3 DEF Finish, ClockBound, Drop, TypeOK
<1>4. CASE Tick
  <2> SUFFICES ASSUME NEW p \in DOMAIN timers, timers[p].waiting
               PROVE  Older(timers[p]).age + Older(timers[p]).left < MaxDelay + Delay
    BY <1>4 DEF Tick, ClockBound, Older
  <2>1. timers[p].left > 0
    BY <1>4 DEF Tick
  <2>2. timers[p].age \in Nat /\ timers[p].left \in Nat
    BY DEF TypeOK, Clock
  <2>3. timers[p].age + timers[p].left < MaxDelay + Delay
    BY DEF ClockBound
  <2> QED
    BY <2>1, <2>2, <2>3 DEF Older
<1>5. CASE UNCHANGED vars
  BY <1>5 DEF vars, ClockBound
<1> QED
  BY <1>1, <1>2, <1>3, <1>4, <1>5 DEF Next, CleanImage, ProblemImage

\* A visit whose thread gets the lock at once is judged within MAX_DELAY_TIME
\* and one more delay.
THEOREM VisitIsBounded == Spec => []BoundedVisit
<1>1. Init => ClockBound
  BY DEF Init, ClockBound
<1>2. VisitInv /\ ClockBound => BoundedVisit
  <2> SUFFICES ASSUME VisitInv, ClockBound, NEW p \in DOMAIN timers, late[p] = 0
               PROVE  timers[p].age < MaxDelay + Delay
    BY DEF BoundedVisit
  <2>1. timers[p].waiting
    BY DEF VisitInv, StatsHaveTimer, WillBeFinished
  <2>2. timers[p].age \in Nat /\ timers[p].left \in Nat
    BY DEF VisitInv, TypeOK, Clock
  <2> QED
    BY <2>1, <2>2, DelayAssumption DEF ClockBound
<1> QED
  BY <1>1, <1>2, InitVisit, StepVisit, StepClockBound, PTL DEF Spec

-----------------------------------------------------------------------------
\* What a first and what a repeated problem image does to the counts.
LEMMA CountProblemCounts ==
    ASSUME NEW e \in Entry, NEW n \in Nat, NEW f \in Features,
           e.problematic = Cardinality(e.features), e.total = n + e.problematic
    PROVE  LET d == CountProblem(e, f)
           IN  /\ d.problematic = Cardinality(d.features)
               /\ d.total = n + d.problematic
               /\ d.total > 0
<1>1. IsFiniteSet(e.features)
  BY DelayAssumption, FS_Subset DEF Entry
<1>2. CASE f \in e.features
  <2>1. e.features # {}
    BY <1>2
  <2>2. Cardinality(e.features) \in Nat /\ Cardinality(e.features) # 0
    BY <1>1, <2>1, FS_EmptySet, FS_CardinalityType
  <2>3. CountProblem(e, f) = e
    BY <1>2 DEF CountProblem, Entry
  <2> QED
    BY <2>2, <2>3
<1>3. CASE f \notin e.features
  <2>1. Cardinality(e.features \cup {f}) = Cardinality(e.features) + 1
    BY <1>1, <1>3, FS_AddElement
  <2>2. Cardinality(e.features) \in Nat
    BY <1>1, FS_CardinalityType
  <2> QED
    BY <1>3, <2>1, <2>2 DEF CountProblem
<1> QED
  BY <1>2, <1>3

\* The counts of one visit, of which CountsAgree says that all visits have them.
Counted(e, n) ==
    /\ e.problematic = Cardinality(e.features)
    /\ e.total = n + e.problematic
    /\ e.total > 0

LEMMA StepCounts == VisitInv /\ CountsAgree /\ [Next]_vars => CountsAgree'
<1> SUFFICES ASSUME VisitInv, CountsAgree, [Next]_vars PROVE CountsAgree'
  OBVIOUS
<1> USE DEF VisitInv
<1>0. ASSUME NEW p \in Pages
      PROVE  /\ EntryOf(p) \in Entry /\ CleanOf(p) \in Nat
             /\ EntryOf(p).problematic = Cardinality(EntryOf(p).features)
             /\ EntryOf(p).total = CleanOf(p) + EntryOf(p).problematic
  BY EntryOfType, CleanOfType, FS_EmptySet DEF CountsAgree, TypeOK, EntryOf, EmptyEntry, CleanOf
<1>1. ASSUME NEW p \in Pages, NEW e \in Entry, NEW n \in Nat, Counted(e, n),
             stats' = Put(stats, p, e), clean' = Put(clean, p, n)
      PROVE  CountsAgree'
  <2> SUFFICES ASSUME NEW q \in DOMAIN stats' PROVE Counted(stats'[q], clean'[q])
    BY DEF CountsAgree, Counted
  <2>1. CASE q = p
    BY <1>1, <2>1 DEF Put, TypeOK
  <2>2. CASE q # p
    BY <1>1, <2>2 DEF Put, TypeOK, CountsAgree, Counted
  <2> QED
    BY <2>1, <2>2
<1>2. ASSUME NEW p \in Pages, CleanImage(p) PROVE CountsAgree'
  <2>1. CountClean(EntryOf(p)) \in Entry /\ CleanOf(p) + 1 \in Nat
    BY <1>0 DEF CountClean, Entry
  <2>2. Counted(CountClean(EntryOf(p)), CleanOf(p) + 1)
    BY <1>0 DEF Counted, CountClean, Entry
  <2> QED
    BY <1>1, <1>2, <2>1, <2>2 DEF CleanImage
<1>3. ASSUME NEW p \in Pages, NEW f \in Features, ProblemImage(p, f) PROVE CountsAgree'
  <2>1. CountProblem(EntryOf(p), f) \in Entry
    BY <1>0, CountType
  <2>2. Counted(CountProblem(EntryOf(p), f), CleanOf(p))
    BY <1>0, CountProblemCounts DEF Counted
  <2> QED
    BY <1>0, <1>1, <1>3, <2>1, <2>2 DEF ProblemImage
<1>4. ASSUME NEW p \in Pages, Fire(p) PROVE CountsAgree'
  BY <1>4 DEF Fire, CountsAgree
<1>5. ASSUME NEW p \in Pages, Finish(p) PROVE CountsAgree'
  BY <1>5 DEF Finish, CountsAgree, Drop, TypeOK
<1>6. CASE Tick
  BY <1>6 DEF Tick, CountsAgree
<1>7. CASE UNCHANGED vars
  BY <1>7 DEF vars, CountsAgree
<1> QED
  BY <1>2, <1>3, <1>4, <1>5, <1>6, <1>7 DEF Next

\* Every visit counts each problem image once and each clean image each time,
\* so the ratio that is judged never divides by zero and is at most 1.
THEOREM CountsAreThoseOfTheImages == Spec => []CountsAgree
<1>1. Init => CountsAgree
  BY DEF Init, CountsAgree
<1> QED
  BY <1>1, InitVisit, StepVisit, StepCounts, PTL DEF Spec

-----------------------------------------------------------------------------
(***************************************************************************)
(* The statistics implement PageVisits: an image is seen, the thread that  *)
(* finds counts judges the visit, and every other step, that of a thread   *)
(* that comes after the verdict included, changes nothing.                 *)
(***************************************************************************)
NothingSeen == [clean |-> 0, problems |-> {}]
SeenOn(p) == IF p \in DOMAIN stats
             THEN [clean |-> clean[p], problems |-> stats[p].features]
             ELSE NothingSeen
visitNow == [p \in Pages |-> SeenOn(p)]

\* The images of a visit are in its counts.
LEMMA SeenIsCounted == ASSUME TypeOK, NEW p \in Pages
    PROVE SeenOn(p) = [clean |-> CleanOf(p), problems |-> EntryOf(p).features]
BY DEF TypeOK, SeenOn, NothingSeen, CleanOf, EntryOf, EmptyEntry

\* A page whose counts are replaced shows those; no other page changes.
LEMMA PutShows ==
    ASSUME TypeOK, NEW p \in Pages, NEW e \in Entry, NEW n \in Nat,
           stats' = Put(stats, p, e), clean' = Put(clean, p, n)
    PROVE  visitNow' = [visitNow EXCEPT ![p] = [clean |-> n, problems |-> e.features]]
<1>1. SeenOn(p)' = [clean |-> n, problems |-> e.features]
  BY DEF SeenOn, Put, TypeOK
<1>2. \A q \in Pages \ {p} : SeenOn(q)' = SeenOn(q)
  BY DEF SeenOn, Put, TypeOK
<1> QED BY <1>1, <1>2 DEF visitNow

LEMMA StepVisits ==
    ASSUME VisitInv, CountsAgree, [Next]_vars
    PROVE  V!VisitsNext \/ (visitNow' = visitNow /\ listed' = listed)
<1> USE DEF VisitInv
<1>1. ASSUME NEW p \in Pages, CleanImage(p) PROVE V!SeeClean(p)
  <2>1. CountClean(EntryOf(p)) \in Entry /\ CleanOf(p) + 1 \in Nat
        /\ CountClean(EntryOf(p)).features = EntryOf(p).features
    BY EntryOfType, CleanOfType DEF CountClean, Entry
  <2>2. visitNow' = [visitNow EXCEPT ![p] =
                       [clean |-> CleanOf(p) + 1, problems |-> EntryOf(p).features]]
    BY <1>1, <2>1, PutShows DEF CleanImage
  <2>3. visitNow[p] = [clean |-> CleanOf(p), problems |-> EntryOf(p).features]
    BY SeenIsCounted DEF visitNow
  <2>4. visitNow' = [visitNow EXCEPT ![p].clean = @ + 1]
    <3>1. [visitNow[p] EXCEPT !.clean = visitNow[p].clean + 1]
            = [clean |-> CleanOf(p) + 1, problems |-> EntryOf(p).features]
      BY <2>3
    <3> QED BY <2>2, <3>1
  <2> QED BY <1>1, <2>4 DEF V!SeeClean, visitNow, SeenOn, NothingSeen, CleanImage
<1>2. ASSUME NEW p \in Pages, NEW f \in Features, ProblemImage(p, f) PROVE V!SeeProblem(p, f)
  <2>1. CountProblem(EntryOf(p), f) \in Entry /\ CleanOf(p) \in Nat
        /\ CountProblem(EntryOf(p), f).features = EntryOf(p).features \cup {f}
    BY EntryOfType, CleanOfType, CountType DEF CountProblem, Entry
  <2>2. visitNow' = [visitNow EXCEPT ![p] =
                       [clean |-> CleanOf(p), problems |-> EntryOf(p).features \cup {f}]]
    BY <1>2, <2>1, PutShows DEF ProblemImage
  <2>3. visitNow[p] = [clean |-> CleanOf(p), problems |-> EntryOf(p).features]
    BY SeenIsCounted DEF visitNow
  <2>4. visitNow' = [visitNow EXCEPT ![p].problems = @ \cup {f}]
    <3>1. [visitNow[p] EXCEPT !.problems = visitNow[p].problems \cup {f}]
            = [clean |-> CleanOf(p), problems |-> EntryOf(p).features \cup {f}]
      BY <2>3
    <3> QED BY <2>2, <3>1
  <2> QED BY <1>2, <2>4 DEF V!SeeProblem, visitNow, SeenOn, NothingSeen, ProblemImage
<1>3. ASSUME NEW p \in Pages, Finish(p), p \in DOMAIN stats PROVE V!Judge(p)
  <2> DEFINE e == stats[p]
             v == [clean |-> clean[p], problems |-> stats[p].features]
  <2>1. SeenOn(p) = v /\ visitNow[p] = v
    BY <1>3 DEF SeenOn, visitNow
  <2>2. e.problematic = Cardinality(e.features) /\ e.total = clean[p] + e.problematic /\ e.total > 0
    BY <1>3 DEF CountsAgree
  <2>3. clean[p] \in Nat /\ e \in Entry
    BY <1>3 DEF TypeOK
  <2>4. v # NothingSeen
    <3>1. clean[p] = 0 /\ e.features = {} => e.total = 0
      BY <2>2, <2>3, FS_EmptySet
    <3>2. v.clean = clean[p] /\ v.problems = e.features
          /\ NothingSeen.clean = 0 /\ NothingSeen.problems = {}
      BY DEF NothingSeen
    <3> QED BY <2>2, <2>3, <3>1, <3>2 DEF Entry
  <2>5. Blacklisted(e) => V!MayBeListed(v)
    <3>1. Cardinality(e.features) = V!Cardinality(v.problems)
      BY DEF Cardinality, V!Cardinality
    <3> QED BY <2>2, <2>3, <3>1 DEF Blacklisted, Entry, V!MayBeListed, V!Images
  <2>6. ~Blacklisted(e) => ~V!MustBeListed(v)
    <3>1. Cardinality(e.features) = V!Cardinality(v.problems)
      BY DEF Cardinality, V!Cardinality
    <3> QED BY <2>2, <2>3, <3>1 DEF Blacklisted, Entry, V!MustBeListed, V!Images
  <2>9. listed' = IF Blacklisted(e) THEN listed \cup {p} ELSE listed
    BY <1>3 DEF Finish
  <2>7. SeenOn(p)' = NothingSeen /\ \A q \in Pages \ {p} : SeenOn(q)' = SeenOn(q)
    BY <1>3 DEF Finish, Drop, SeenOn, TypeOK
  <2>8. visitNow' = [visitNow EXCEPT ![p] = NothingSeen]
    BY <2>7 DEF visitNow
  <2> QED BY <2>1, <2>4, <2>5, <2>6, <2>8, <2>9 DEF V!Judge, V!NoImages, visitNow, SeenOn, NothingSeen
<1>4. ASSUME UNCHANGED <<stats, clean, listed>> PROVE visitNow' = visitNow /\ listed' = listed
  BY <1>4 DEF visitNow, SeenOn
<1>5. ASSUME NEW p \in Pages, Fire(p) PROVE UNCHANGED <<stats, clean, listed>>
  BY <1>5 DEF Fire
<1>6. ASSUME NEW p \in Pages, Finish(p), p \notin DOMAIN stats
      PROVE  UNCHANGED <<stats, clean, listed>>
  BY <1>6 DEF Finish
<1>7. Tick \/ UNCHANGED vars => UNCHANGED <<stats, clean, listed>>
  BY DEF Tick, vars
<1> QED BY <1>1, <1>2, <1>3, <1>4, <1>5, <1>6, <1>7 DEF Next, V!VisitsNext

\* One verdict per visit, on the images seen since the verdict before it: the
\* counters, which are also taken back, and the threads of Timers cancelled too
\* late make no difference (proxy_mitm.py:309-356, 363-392).
THEOREM VisitsAreJudged == Spec => VisitSpec
<1>1. Init => V!VisitsInit
  BY DEF Init, V!VisitsInit, V!NoImages
<1>2. Init => CountsAgree
  BY DEF Init, CountsAgree
<1>3. VisitInv /\ CountsAgree /\ [Next]_vars => [V!VisitsNext]_<<visitNow, listed>>
  BY StepVisits
<1> QED
  BY <1>1, <1>2, <1>3, InitVisit, StepVisit, StepCounts, PTL
     DEF Spec, VisitSpec, V!Visits, visitNow, SeenOn, NothingSeen

=============================================================================
