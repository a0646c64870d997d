---------------------------- MODULE MCLeakyBucket ----------------------------
(* Small instances of LeakyBucket. *)
EXTENDS LeakyBucket, TLC

CallerSymmetry == Permutations(Callers)
=============================================================================
