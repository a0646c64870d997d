---------------------------- MODULE MCIdempotency ----------------------------
(* Small instances of Idempotency. *)
EXTENDS Idempotency, TLC

EntitySymmetry ==
    Permutations(Requests) \cup Permutations(Instances) \cup Permutations(Bodies)

\* Everything that may happen.
EveryEvent == AllEvents

NoEvents == {}
=============================================================================
