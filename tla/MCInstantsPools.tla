--------------------------- MODULE MCInstantsPools ---------------------------
(***************************************************************************)
(* Two scopes for InstantsPools, fewer than the predicate events.          *)
(***************************************************************************)
EXTENDS InstantsPools

TwoScopes == {-1, -2}
=============================================================================
