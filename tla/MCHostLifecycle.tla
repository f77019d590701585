-------------------------- MODULE MCHostLifecycle --------------------------
(* A small instance of HostLifecycle for TLC. *)
EXTENDS HostLifecycle, TLC

HostSymmetry == Permutations(Hosts) \cup Permutations(Workers)

=============================================================================
