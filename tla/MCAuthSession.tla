---------------------------- MODULE MCAuthSession ----------------------------
(* Small instances of AuthSession. *)
EXTENDS AuthSession, TLC

CallSymmetry == Permutations(Calls)

EveryEvent == AllEvents
=============================================================================
