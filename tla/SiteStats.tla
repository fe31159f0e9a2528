----------------------------- MODULE SiteStats -----------------------------
(***************************************************************************)
(* The statistics of the pages a user visits: site_stats and site_timers   *)
(* of InPurityProxy (proxy_mitm.py), which _handle_image_response fills on *)
(* the event loop of mitmproxy and print_final_stats empties on Timer      *)
(* threads.  Both work under stats_lock, so that each is one action.       *)
(*                                                                         *)
(* A Timer that has run out starts a thread that may wait for stats_lock   *)
(* while the page changes: cancel() no longer stops it.                    *)
(***************************************************************************)
EXTENDS Integers, FiniteSets

CONSTANTS
    Pages,      \* referers: scheme, host and path of a page
    Features,   \* signatures of problem images: size and file name
    Delay,      \* DELAY_TIME, 10 seconds in the code
    MaxDelay,   \* MAX_DELAY_TIME, 60 seconds in the code
    MaxImages,  \* bound on the images counted for one visit
    MaxLate     \* bound on the threads of one page that wait for stats_lock

ASSUME DelayAssumption ==
    /\ Delay \in Nat \ {0} /\ MaxDelay \in Nat \ {0}
    /\ MaxImages \in Nat /\ MaxLate \in Nat \ {0}
    /\ IsFiniteSet(Features)

VARIABLES
    stats,   \* site_stats: the counts of each page being visited
    timers,  \* site_timers: the age of the visit and its current Timer
    late,    \* for each page, the threads in print_final_stats without the lock
    listed,  \* pages whose root went to the blacklist
    clean    \* history: the images found clean in each visit

vars == <<stats, timers, late, listed, clean>>

Entry == [total : Nat, problematic : Nat, features : SUBSET Features]
Clock == [age : Nat, left : Nat, waiting : BOOLEAN]

\* A dictionary with the value v at the key p, and one without p.
Put(f, p, v) == [q \in DOMAIN f \cup {p} |-> IF q = p THEN v ELSE f[q]]
Drop(f, p)   == [q \in DOMAIN f \ {p} |-> f[q]]

Init ==
    /\ stats = [p \in {} |-> 0] /\ timers = [p \in {} |-> 0]
    /\ clean = [p \in {} |-> 0]
    /\ late = [p \in Pages |-> 0]
    /\ listed = {}

-----------------------------------------------------------------------------
(* _handle_image_response, once a prediction is there.  A prediction that  *)
(* times out, an image that cannot be read, and a request with no referer  *)
(* change nothing.                                                         *)

EmptyEntry == [total |-> 0, problematic |-> 0, features |-> {}]
EntryOf(p) == IF p \in DOMAIN stats THEN stats[p] ELSE EmptyEntry

CountClean(e) == [e EXCEPT !.total = @ + 1]

\* Mutant: a known problem image is counted again.
CountProblemAgain(e, f) ==
    [total |-> e.total + 1,
     problematic |-> Cardinality(e.features \cup {f}),
     features |-> e.features \cup {f}]

\* Mutant: a known problem image is taken back without having been counted.
CountProblemTakenBack(e, f) ==
    IF f \in e.features
    THEN [e EXCEPT !.total = @ - 1]
    ELSE [total |-> e.total + 1, problematic |-> e.problematic + 1,
          features |-> e.features \cup {f}]

\* A known problem image is counted and taken back.
CountProblem(e, f) ==
    IF f \in e.features
    THEN [e EXCEPT !.total = @ + 1 - 1]
    ELSE [total |-> e.total + 1, problematic |-> e.problematic + 1,
          features |-> e.features \cup {f}]

NewTimer(age) == [age |-> age, left |-> Delay, waiting |-> TRUE]

\* Mutant: each image restarts the delay, however old the visit.
RestartTimerAlways(p) ==
    timers' = Put(timers, p, NewTimer(IF p \in DOMAIN timers THEN timers[p].age ELSE 0))

\* Mutant: the Timer is cancelled before the age of the visit is tested.
RestartTimerLost(p) ==
    timers' = IF p \notin DOMAIN timers
              THEN Put(timers, p, NewTimer(0))
              ELSE IF timers[p].age < MaxDelay
                   THEN Put(timers, p, NewTimer(timers[p].age))
                   ELSE [timers EXCEPT ![p].waiting = FALSE]

\* Each image restarts the delay, until the visit is MAX_DELAY_TIME old.
RestartTimer(p) ==
    timers' = IF p \notin DOMAIN timers
              THEN Put(timers, p, NewTimer(0))
              ELSE IF timers[p].age < MaxDelay
                   THEN Put(timers, p, NewTimer(timers[p].age))
                   ELSE timers

CleanOf(p) == IF p \in DOMAIN clean THEN clean[p] ELSE 0

CleanImage(p) ==
    /\ EntryOf(p).total < MaxImages
    /\ stats' = Put(stats, p, CountClean(EntryOf(p)))
    /\ clean' = Put(clean, p, CleanOf(p) + 1)
    /\ RestartTimer(p)
    /\ UNCHANGED <<late, listed>>

ProblemImage(p, f) ==
    /\ EntryOf(p).total < MaxImages \/ f \in EntryOf(p).features
    /\ stats' = Put(stats, p, CountProblem(EntryOf(p), f))
    /\ clean' = Put(clean, p, CleanOf(p))
    /\ RestartTimer(p)
    /\ UNCHANGED <<late, listed>>

-----------------------------------------------------------------------------
(* print_final_stats                                                       *)

\* The Timer has run out: its thread asks for stats_lock.
Fire(p) ==
    /\ p \in DOMAIN timers /\ timers[p].waiting /\ timers[p].left = 0
    /\ late[p] < MaxLate
    /\ timers' = [timers EXCEPT ![p].waiting = FALSE]
    /\ late' = [late EXCEPT ![p] = @ + 1]
    /\ UNCHANGED <<stats, listed, clean>>

\* Mutant: three images are enough.
BlacklistedFew(e) == e.total >= 3 /\ 10 * e.problematic > 6 * e.total

\* More than three images, more than 60% of them a problem.
Blacklisted(e) == e.total > 3 /\ 10 * e.problematic > 6 * e.total

\* The thread has the lock.  A page that another thread has finished is left
\* alone; otherwise its visit is over and its Timer, if it waits, is cancelled.
Finish(p) ==
    /\ late[p] > 0
    /\ late' = [late EXCEPT ![p] = @ - 1]
    /\ IF p \in DOMAIN stats
       THEN /\ listed' = IF Blacklisted(stats[p]) THEN listed \cup {p} ELSE listed
            /\ stats' = Drop(stats, p)
            /\ timers' = Drop(timers, p)
            /\ clean' = Drop(clean, p)
       ELSE UNCHANGED <<stats, timers, listed, clean>>

-----------------------------------------------------------------------------
Older(c) == [age |-> IF c.age < MaxDelay + Delay THEN c.age + 1 ELSE c.age,
             left |-> IF c.left > 0 THEN c.left - 1 ELSE 0,
             waiting |-> c.waiting]

\* A second passes.  A Timer that waits starts its thread on time; how long
\* that thread waits for stats_lock is open, as set_forbid and the database
\* may hold the lock for seconds.
Tick ==
    /\ \A p \in DOMAIN timers : timers[p].waiting => timers[p].left > 0
    /\ timers' = [p \in DOMAIN timers |-> Older(timers[p])]
    /\ UNCHANGED <<stats, late, listed, clean>>

Next ==
    \/ \E p \in Pages : CleanImage(p)
    \/ \E p \in Pages, f \in Features : ProblemImage(p, f)
    \/ \E p \in Pages : Fire(p)
    \/ \E p \in Pages : Finish(p)
    \/ Tick

Spec == Init /\ [][Next]_vars

\* Timers run out and their threads get the lock at last; images need not come.
Fairness ==
    /\ WF_vars(Tick)
    /\ \A p \in Pages : WF_vars(Fire(p)) /\ WF_vars(Finish(p))

FairSpec == Spec /\ Fairness

-----------------------------------------------------------------------------
(* Properties.                                                             *)

\* Every variable holds a value of its type.
TypeOK ==
    /\ DOMAIN stats \subseteq Pages /\ stats \in [DOMAIN stats -> Entry]
    /\ DOMAIN timers \subseteq Pages /\ timers \in [DOMAIN timers -> Clock]
    /\ DOMAIN clean = DOMAIN stats /\ clean \in [DOMAIN clean -> Nat]
    /\ late \in [Pages -> Nat]
    /\ listed \subseteq Pages

\* No visit is forgotten: a page with counts, and no other, has a Timer, which
\* print_final_stats takes without asking, and that Timer still waits or a
\* thread is on its way, although Timers are cancelled and threads come late.
StatsHaveTimer == DOMAIN stats = DOMAIN timers
WillBeFinished ==
    StatsHaveTimer /\ \A p \in DOMAIN stats : timers[p].waiting \/ late[p] > 0

\* The counts are those of the images: each problem image once, however often
\* it is loaded, and each clean image each time; so the ratio is at most 1 and
\* never has a zero below it.
CountsAgree ==
    \A p \in DOMAIN stats :
        LET e == stats[p]
        IN  /\ e.problematic = Cardinality(e.features)
            /\ e.total = clean[p] + e.problematic
            /\ e.total > 0

\* A visit is judged within MAX_DELAY_TIME and one more delay, whatever images
\* keep coming, once its thread gets the lock.
BoundedVisit ==
    \A p \in DOMAIN timers : late[p] = 0 => timers[p].age < MaxDelay + Delay

\* Each visit gets one verdict, on the images seen since the last one, although
\* the code keeps counters it also takes back, and threads of several Timers
\* of a page may come to judge it: the statistics implement PageVisits, which
\* leaves open what becomes of a page at exactly 60% (see ListedAtSixty).
V == INSTANCE PageVisits WITH
        visit <- [p \in Pages |->
                     IF p \in DOMAIN stats
                     THEN [clean |-> clean[p], problems |-> stats[p].features]
                     ELSE [clean |-> 0, problems |-> {}]]
VisitSpec == V!Visits

\* "If 60% or more of the responses from a particular URL are deemed
\* inappropriate, the URL is added to the blacklist" (README, line 10), of the
\* visits with enough images to be judged.
ListedAtSixty ==
    [][\A p \in DOMAIN stats \ DOMAIN stats' :
          stats[p].total > 3 /\ 10 * stats[p].problematic >= 6 * stats[p].total
              => p \in listed']_vars

\* Every visit is judged in the end, however the user keeps loading images.
EveryVisitFinished == \A p \in Pages : p \in DOMAIN stats ~> p \notin DOMAIN stats

=============================================================================
