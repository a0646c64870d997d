---------------------------- MODULE MCCacheTags ----------------------------
(* Small instances of CacheTags. *)
EXTENDS CacheTags, TLC

CONSTANTS k1, k2, t1, t2

\* Two keys share a tag, and one has another.
SharedTag == k1 :> {t1, t2} @@ k2 :> {t1}

\* A namespace of one key.
OneNamespace == {{k2}}

CallSymmetry == Permutations(Calls)
=============================================================================
