----------------------------- MODULE CandidateRun -----------------------------
(***************************************************************************)
(* What the three native candidates of production.py have in common: their *)
(* construction behind a metering proxy, the run with its cancellation and *)
(* budget signals, and the cleanup that closes the proxy.  Mem0Run,        *)
(* LlmWikiRun and GBrainRun extend it, each with its native state and      *)
(* steps; Candidates composes them.                                        *)
(***************************************************************************)
EXTENDS Integers, FiniteSets, Sequences

CONSTANTS
    Docs,       \* number of normalized documents
    Queries,    \* number of benchmark questions
    MaxCleanups \* bound on the calls of cleanup()

ASSUME CandidateAssumption ==
    Docs \in Nat \ {0} /\ Queries \in Nat \ {0} /\ MaxCleanups \in Nat \ {0}

VARIABLES
    stage,      \* see CandidateContract
    token,      \* context.cancellation is set
    exceeded,   \* the shared budget state has passed the cap
    proxy,      \* metering_proxy is serving
    outcome,    \* CandidateOutcome
    observed,   \* questions observed so far, in order
    receipt,    \* how the last cleanup() ended
    cleanups    \* calls of cleanup()

runVars == <<stage, token, exceeded, proxy, outcome, observed, receipt, cleanups>>

DocIds == 1..Docs

NotRun == [status |-> "NONE", answered |-> 0, eligible |-> FALSE]

\* Construction starts with the cap passed or not: the candidates of a run
\* share one budget state.
RunInit ==
    /\ stage = "entering"
    /\ token = FALSE
    /\ exceeded \in BOOLEAN
    /\ proxy = FALSE
    /\ outcome = NotRun
    /\ observed = 0
    /\ receipt = "none"
    /\ cleanups = 0

Over == {"cleaned", "abandoned", "leaked"}

-----------------------------------------------------------------------------
(* The environment *)

\* RunOrchestrator.cancel() from another thread
Signal ==
    /\ ~token /\ stage \notin Over
    /\ token' = TRUE
    /\ UNCHANGED <<stage, exceeded, proxy, outcome, observed, receipt, cleanups>>

\* A provider call is recorded in the budget state, where it may pass the cap;
\* from then on the proxy answers 402.
Charge == exceeded' \in {exceeded, TRUE}

NoCharge == UNCHANGED exceeded

-----------------------------------------------------------------------------
(* build_production_candidates, for the candidate at hand: all proxies are  *)
(* entered before the try block, then the adapters are constructed.         *)

EnterProxy ==
    /\ stage = "entering"
    /\ stage' = "constructing"
    /\ proxy' = TRUE
    /\ UNCHANGED <<token, exceeded, outcome, observed, receipt, cleanups>>

\* A proxy, this or another, fails to start.
EnterFails ==
    /\ stage = "entering"
    /\ stage' = "leaked"
    /\ proxy' \in BOOLEAN
    /\ UNCHANGED <<token, exceeded, outcome, observed, receipt, cleanups>>

Constructed ==
    /\ stage = "constructing"
    /\ stage' = "ready"
    /\ UNCHANGED <<token, exceeded, proxy, outcome, observed, receipt, cleanups>>

\* An adapter, this or another, fails to initialize: the handler closes every
\* proxy and nothing else.
Abandon ==
    /\ stage = "constructing"
    /\ stage' = "abandoned"
    /\ proxy' = FALSE
    /\ UNCHANGED <<token, exceeded, outcome, observed, receipt, cleanups>>

-----------------------------------------------------------------------------
(* run() *)

\* The orchestrator calls run(), which raises a signal that is already there.
Start(cancelled) ==
    /\ stage = "ready"
    /\ IF token
       THEN /\ stage' = "ran"
            /\ outcome' = [NotRun EXCEPT !.status = cancelled]
       ELSE stage' = "running" /\ UNCHANGED outcome
    /\ UNCHANGED <<token, exceeded, proxy, observed, receipt, cleanups>>

\* run() returns, or the orchestrator turns an exception into an outcome.
Ends(status, answered, eligible) ==
    /\ stage' = "ran"
    /\ outcome' = [status |-> status, answered |-> answered, eligible |-> eligible]
    /\ UNCHANGED <<token, proxy, observed, receipt, cleanups>>

\* The outcome has no answers: an exception, a refusal, _budget_outcome.
Stops(status) == Ends(status, 0, FALSE)

\* run() goes on.
Goes == UNCHANGED <<stage, token, proxy, outcome, receipt, cleanups>>

-----------------------------------------------------------------------------
(* cleanup() *)

BeginCleanup ==
    /\ \/ stage \in {"ready", "ran"}
       \/ stage = "cleaned" /\ receipt # "complete"
    /\ cleanups < MaxCleanups
    /\ cleanups' = cleanups + 1
    /\ stage' = "cleaning"
    /\ UNCHANGED <<token, exceeded, proxy, outcome, observed, receipt>>

\* The wrapper's finally closes the proxy, whatever the adapter's cleanup did.
EndCleanup(r) ==
    /\ stage = "cleaning"
    /\ stage' = "cleaned"
    /\ receipt' = r
    /\ proxy' = FALSE
    /\ UNCHANGED <<token, exceeded, outcome, observed, cleanups>>
=============================================================================
