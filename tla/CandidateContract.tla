--------------------------- MODULE CandidateContract ---------------------------
(***************************************************************************)
(* What RunOrchestrator may rely on when it constructs, runs and cleans up *)
(* a native candidate, whichever of the three it is:                       *)
(*                                                                         *)
(*   - a candidate is run once, and its outcome never changes;             *)
(*   - only a candidate that answered every question of the benchmark may  *)
(*     be called eligible for a recommendation, and such a one is OK;      *)
(*   - a complete cleanup receipt is given only when nothing the candidate *)
(*     vouches for is left, and nothing of it comes back;                  *)
(*   - a cleanup that ends, with a receipt or an exception, has closed the *)
(*     candidate's metering proxy, and so has a construction that fails    *)
(*     after all proxies were started.                                     *)
(*                                                                         *)
(* Mem0Run, LlmWikiRun and GBrainRun implement this specification.         *)
(***************************************************************************)
EXTENDS Naturals

CONSTANT Queries    \* number of benchmark questions

VARIABLES
    stage,      \* where the orchestrator is with this candidate
    outcome,    \* the CandidateOutcome, or what an exception is turned into
    receipt,    \* the receipt of the last cleanup()
    residue,    \* native state the candidate vouches for is left
    proxy       \* the candidate's metering proxy is serving

contractVars == <<stage, outcome, receipt, residue, proxy>>

Stages   == {"entering", "constructing", "ready", "running", "ran", "cleaning",
             "cleaned", "abandoned", "leaked"}
Statuses == {"OK", "FAILED", "BUDGET_EXCEEDED", "MISSING_PROVIDER", "CANCELLED"}
Receipts == {"complete", "incomplete", "raised", "interrupted"}

\* The outcome before the candidate has run
NotRun == [status |-> "NONE", answered |-> 0, eligible |-> FALSE]

Outcomes ==
    {o \in [status : Statuses, answered : 0..Queries, eligible : BOOLEAN] :
        o.eligible => o.status = "OK" /\ o.answered = Queries}

-----------------------------------------------------------------------------
Init ==
    /\ stage = "entering"
    /\ outcome = NotRun
    /\ receipt = "none"
    /\ residue \in BOOLEAN
    /\ proxy = FALSE

\* The proxies are started first; one that fails leaves the others serving.
Enter ==
    /\ stage = "entering"
    /\ \/ stage' = "constructing" /\ proxy' = TRUE
       \/ stage' = "leaked" /\ proxy' \in BOOLEAN
    /\ UNCHANGED <<outcome, receipt, residue>>

Construct ==
    /\ stage = "constructing"
    /\ \/ stage' = "ready" /\ UNCHANGED proxy
       \/ stage' = "abandoned" /\ proxy' = FALSE
    /\ residue' \in BOOLEAN
    /\ UNCHANGED <<outcome, receipt>>

Start ==
    /\ stage = "ready"
    /\ stage' = "running"
    /\ UNCHANGED <<outcome, receipt, residue, proxy>>

\* Native state comes and goes while the candidate runs, or is cleaned up.
Work ==
    /\ stage \in {"constructing", "running", "cleaning"}
    /\ residue' \in BOOLEAN
    /\ UNCHANGED <<stage, outcome, receipt, proxy>>

\* run() ends, or raises at once.
Finish ==
    /\ stage \in {"ready", "running"}
    /\ stage' = "ran"
    /\ outcome' \in Outcomes
    /\ residue' \in BOOLEAN
    /\ UNCHANGED <<receipt, proxy>>

\* cleanup(), whether the candidate has run or not, and once more after one
\* that was not complete
BeginCleanup ==
    /\ \/ stage \in {"ready", "ran"}
       \/ stage = "cleaned" /\ receipt # "complete"
    /\ stage' = "cleaning"
    /\ UNCHANGED <<outcome, receipt, residue, proxy>>

EndCleanup ==
    /\ stage = "cleaning"
    /\ stage' = "cleaned"
    /\ receipt' \in Receipts
    /\ residue' \in BOOLEAN
    /\ receipt' = "complete" => ~residue'
    /\ proxy' = FALSE
    /\ UNCHANGED outcome

Next == Enter \/ Construct \/ Start \/ Work \/ Finish \/ BeginCleanup \/ EndCleanup

Spec == Init /\ [][Next]_contractVars
=============================================================================
