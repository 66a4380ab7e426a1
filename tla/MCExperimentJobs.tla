--------------------------- MODULE MCExperimentJobs ---------------------------
(* Two handler threads, and three ids for two slots: one job more than the    *)
(* registry admits, so that create, cancel, rerun and two workers overlap.    *)
EXTENDS ExperimentJobs, TLC

CONSTANTS e1, e2, e3, c1, c2

MCIds == {e1, e2, e3}
MCClients == {c1, c2}
=============================================================================
