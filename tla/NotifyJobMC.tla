----------------------------- MODULE NotifyJobMC -----------------------------
(***************************************************************************)
(* NotifyJob on small instances.                                           *)
(***************************************************************************)
EXTENDS NotifyJob, TLC

Symmetry == Permutations(Process)

RefusedNone == {}
=============================================================================
