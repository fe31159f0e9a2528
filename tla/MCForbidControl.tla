-------------------------- MODULE MCForbidControl --------------------------
(***************************************************************************)
(* ForbidControl for TLC.  No host differs from another in the code, so    *)
(* states that differ by a permutation of Hosts are one state for a run    *)
(* that checks safety only.                                                *)
(***************************************************************************)
EXTENDS ForbidControl, TLC

HostSymmetry == Permutations(Hosts)

=============================================================================
