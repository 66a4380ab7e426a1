------------------------- MODULE MCProcessCancellation -------------------------
(* A provider process, a gbrain process, and two threads that cancel: every     *)
(* order of two registrations with a signal and a second, early, return.       *)
EXTENDS ProcessCancellation, TLC

CONSTANTS provider, gbrain, c1, c2

MCOps == {provider, gbrain}
MCGroupOps == {provider}
MCCancellers == {c1, c2}
=============================================================================
