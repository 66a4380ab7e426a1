---------------------------- MODULE MCTokenStore ----------------------------
(* Two processes share one identity: with one alone nothing is refreshed twice. *)
EXTENDS TokenStore

CONSTANTS p1, p2

MCProcs == {p1, p2}
=============================================================================
