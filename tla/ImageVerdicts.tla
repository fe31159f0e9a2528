---------------------------- MODULE ImageVerdicts ----------------------------
(***************************************************************************)
(* What the hook of mitmproxy promises for the images it sends to the      *)
(* predictor: one image waits at a time, each gets one outcome that stays, *)
(* only one that is improper or could not be judged in time is replaced by *)
(* a 403, and one that could not be judged is not passed as a clean one.   *)
(* The workers, the cache, the batches and the frames of the GIFs are left *)
(* open.                                                                   *)
(***************************************************************************)
CONSTANTS Pictures, Improper

VARIABLES
    asked,    \* by ticket, the pictures asked about so far
    unjudged  \* the tickets a part of whose picture was not judged in time

Waiting == {i \in DOMAIN asked : asked[i].out = "waiting"}

VerdictsInit == asked = [i \in {} |-> i] /\ unjudged = {}

Ask(p) ==
    /\ Waiting = {}
    /\ \E t \in DOMAIN asked' \ DOMAIN asked :
         asked' = [i \in DOMAIN asked \cup {t} |->
                     IF i = t THEN [pic |-> p, out |-> "waiting"] ELSE asked[i]]
    /\ UNCHANGED unjudged

GiveUp(i) == unjudged' = unjudged \cup {i} /\ UNCHANGED asked

Answer(i, out) ==
    /\ i \in Waiting
    /\ out = "forbidden" => asked[i].pic \in Improper \/ i \in unjudged
    /\ out = "passed" => i \notin unjudged
    /\ asked' = [asked EXCEPT ![i] = [pic |-> asked[i].pic, out |-> out]]
    /\ UNCHANGED unjudged

VerdictsNext ==
    \/ \E p \in Pictures : Ask(p)
    \/ \E i \in DOMAIN asked : GiveUp(i)
    \/ \E i \in Waiting, out \in {"forbidden", "passed", "timeout"} : Answer(i, out)

Verdicts == VerdictsInit /\ [][VerdictsNext]_<<asked, unjudged>>

=============================================================================
