---------------------------- MODULE MCLifecycle ----------------------------
(* Instances of Lifecycle for TLC: the service, and a process started by
   hand as the same user. *)
EXTENDS Lifecycle, TLC

CONSTANTS root, svc, hand

Interchangeable == Permutations(Procs)

SameUser == [p \in Procs |-> root]
=============================================================================
