------------------------------ MODULE MCVerdict -------------------------------
(* Three candidates and four cases: two of them may be close, and the third close *)
(* to the second only                                                             *)
EXTENDS Verdict

=============================================================================
