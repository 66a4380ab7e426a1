------------------------------ MODULE MCCockpit -------------------------------
(* Two providers, a source, a candidate, and two runs or logins *)
EXTENDS Cockpit

CONSTANTS p1, p2, c1
=============================================================================
