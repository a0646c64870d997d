-------------------------- MODULE MCRequestPipeline --------------------------
(* Small instances of RequestPipeline. *)
EXTENDS RequestPipeline

CONSTANTS protected, logout

\* GET /protected is limited and guarded, POST /auth/logout guarded and keyed.
Routes == {protected, logout}
LimitedRoutes == {protected}
GuardedRoutes == {protected, logout}
KeyedRoutes == {logout}
=============================================================================
