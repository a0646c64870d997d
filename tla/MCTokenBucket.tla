---------------------------- MODULE MCTokenBucket ----------------------------
(* Small instances of TokenBucket: one route, or two with their own limits. *)
EXTENDS TokenBucket, TLC

CONSTANTS root, protected

\* One route: 2 tokens, 2/3 of a token a second (RateDen = 3), a window of
\* 4 seconds, in which the bucket refills with time to spare.
OneRoute == {root}
OneCapacity == root :> 2
OneRate == root :> 2
OneWindow == root :> 4

\* app.controller.ts: "/" refills twice as fast as "/protected" and holds
\* twice as many tokens.
TwoRoutes == {root, protected}
TwoCapacity == root :> 6 @@ protected :> 3
TwoRate == root :> 4 @@ protected :> 2
TwoWindow == root :> 3 @@ protected :> 3

CallerSymmetry == Permutations(Callers)
=============================================================================
