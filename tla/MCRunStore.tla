------------------------------- MODULE MCRunStore -------------------------------
(* Two candidates under a cap of two dollars, four units of half a dollar: a   *)
(* candidate is free, reaches the cap exactly, or passes it.                   *)
EXTENDS RunStore

MCCosts == {0, 4, 5}
=============================================================================
