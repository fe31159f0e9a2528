------------------------------ MODULE BanLadder ------------------------------
(***************************************************************************)
(* What the saved bans promise across restarts: each ban outranks all that *)
(* are in force when it begins, all of them end after their time, and none *)
(* goes before, unless all are lost at once.                               *)
(***************************************************************************)
EXTENDS Integers

VARIABLE bans   \* the saved bans that are in force: mode, count, time left

Outranks(b, a) ==
    /\ a.count < b.count /\ a.left < b.left
    /\ a.mode = "requests" => b.mode = "requests"

Begin == \E b \in bans' :
    /\ \A a \in bans : Outranks(b, a)
    /\ bans' = bans \cup {b}

Pass == bans' = {[b EXCEPT !.left = @ - 1] : b \in {a \in bans : a.left > 1}}

\* The file is cut off in the middle of a rewrite.
Lose == bans' = {}

Ladder == bans = {} /\ [][Begin \/ Pass \/ Lose]_bans

=============================================================================
