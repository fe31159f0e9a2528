----------------------------- MODULE PageVisits -----------------------------
(***************************************************************************)
(* What the statistics of the pages promise: a visit is the set of images  *)
(* seen on a page, every problem image once, every clean one each time it  *)
(* comes, and it ends with one verdict on exactly these images.  Counters, *)
(* Timers and late threads, and when a visit ends, are left open.          *)
(***************************************************************************)
EXTENDS Integers, FiniteSets

CONSTANTS Pages, Features

VARIABLES
    visit,   \* for each page, the images of the visit that is going on
    listed   \* the pages found improper

NoImages == [clean |-> 0, problems |-> {}]

Images(v) == v.clean + Cardinality(v.problems)

\* More than three images, at least or more than 60% of them problem images.
MayBeListed(v)  == Images(v) > 3 /\ 10 * Cardinality(v.problems) >= 6 * Images(v)
MustBeListed(v) == Images(v) > 3 /\ 10 * Cardinality(v.problems) > 6 * Images(v)

VisitsInit == visit = [p \in Pages |-> NoImages] /\ listed = {}

SeeClean(p) ==
    /\ visit' = [visit EXCEPT ![p].clean = @ + 1]
    /\ UNCHANGED listed

SeeProblem(p, f) ==
    /\ visit' = [visit EXCEPT ![p].problems = @ \cup {f}]
    /\ UNCHANGED listed

\* The page of a visit above 60% is listed, that of one below is not, and that
\* of one at exactly 60% may be.
Judge(p) ==
    /\ visit[p] # NoImages
    /\ visit' = [visit EXCEPT ![p] = NoImages]
    /\ \/ MayBeListed(visit[p]) /\ listed' = listed \cup {p}
       \/ ~MustBeListed(visit[p]) /\ listed' = listed

VisitsNext ==
    \/ \E p \in Pages : SeeClean(p) \/ Judge(p)
    \/ \E p \in Pages, f \in Features : SeeProblem(p, f)

Visits == VisitsInit /\ [][VisitsNext]_<<visit, listed>>

=============================================================================
