----------------------------- MODULE SyncSessionMC -----------------------------
(* Instances of SyncSession for TLC. *)
EXTENDS SyncSession

CONSTANTS n1, n2
OneNetwork  == {n1}
TwoNetworks == {n1, n2}
=============================================================================
