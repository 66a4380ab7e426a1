------------------------- MODULE ExperimentLifecycle -------------------------
(***************************************************************************)
(* What a client of the local experiment boundary may rely on: the status  *)
(* of an experiment moves only along the transition table of               *)
(* experiment_contracts.py, at most MaxJobs experiments are ever admitted, *)
(* and the answer to "result?" is given once and never changes.            *)
(*                                                                         *)
(* ExperimentJobs implements this specification; nothing here mentions     *)
(* locks, handler threads or workers.                                      *)
(***************************************************************************)
EXTENDS Naturals, FiniteSets

CONSTANTS
    Ids,        \* experiment identifiers
    MaxJobs     \* max_jobs of the boundary

VARIABLES
    status,     \* ExperimentLifecycle.status of each id, "ABSENT" before create
    answer      \* what result(id) replies: "NOT_READY" or a JobResult.status

lifecycleVars == <<status, answer>>

Terminal == {"SUCCEEDED", "FAILED", "CANCELLED"}
Active   == {"CREATED", "VALIDATING", "READY", "RUNNING"}
Statuses == Active \cup Terminal \cup {"ABSENT"}
Answers  == Terminal \cup {"NOT_READY"}

\* _ALLOWED_TRANSITIONS
Allowed ==
    [s \in Statuses |->
        CASE s = "CREATED"    -> {"VALIDATING", "CANCELLED"}
          [] s = "VALIDATING" -> {"READY", "FAILED", "CANCELLED"}
          [] s = "READY"      -> {"RUNNING", "CANCELLED"}
          [] s = "RUNNING"    -> {"SUCCEEDED", "FAILED", "CANCELLED"}
          [] OTHER            -> {}]

\* The answers that may come with a status.  A run that ends FAILED after its
\* report was written is FAILED with the loaded, "SUCCEEDED", JobResult.
AnswersFor(s) ==
    CASE s = "FAILED"               -> {"FAILED", "SUCCEEDED"}
      [] s \in Terminal \ {"FAILED"} -> {s}
      [] OTHER                      -> {"NOT_READY"}

Admitted == {e \in Ids : status[e] # "ABSENT"}
SlotFree == Cardinality(Admitted) < MaxJobs

-----------------------------------------------------------------------------
Init ==
    /\ status = [e \in Ids |-> "ABSENT"]
    /\ answer = [e \in Ids |-> "NOT_READY"]

Admit(e) ==
    /\ status[e] = "ABSENT"
    /\ SlotFree
    /\ status' = [status EXCEPT ![e] = "CREATED"]
    /\ UNCHANGED answer

Move(e, s) ==
    /\ s \in Allowed[status[e]]
    /\ status' = [status EXCEPT ![e] = s]
    /\ \E a \in AnswersFor(s) : answer' = [answer EXCEPT ![e] = a]

Next == \E e \in Ids : Admit(e) \/ \E s \in Statuses : Move(e, s)

Spec == Init /\ [][Next]_lifecycleVars
=============================================================================
