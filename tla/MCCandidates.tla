----------------------------- MODULE MCCandidates -----------------------------
(* One candidate, two documents, one or two questions *)
EXTENDS Candidates

=============================================================================
