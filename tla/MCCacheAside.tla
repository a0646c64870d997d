----------------------------- MODULE MCCacheAside -----------------------------
(* Small instances of CacheAside. *)
EXTENDS CacheAside, TLC

CallSymmetry == Permutations(Procs)

\* What may happen to the lock, its answers and its holders.
LockEvents == {"answer_lost", "command_fails", "link_down", "lock_expires",
               "crash", "clear", "factory_throws"}

NoEvents == {}
NoVersions == {}

\* The row's first version is null.
FirstVersion == {0}
=============================================================================
