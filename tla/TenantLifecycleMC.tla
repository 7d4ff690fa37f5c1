-------------------------- MODULE TenantLifecycleMC -------------------------
(* A small instance of TenantLifecycle for TLC.                            *)
EXTENDS TenantLifecycle, TLC

Symmetry == Permutations(Worker)
=============================================================================
