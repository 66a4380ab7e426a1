---------------------------- MODULE RunOrchestrator ----------------------------
(***************************************************************************)
(* One run of RunOrchestrator (orchestration.py) in its own process: the   *)
(* gates, the sequential candidates under the budget cap, their cleanup,   *)
(* the decision, the artifacts, and every way out of the workflow (a gate  *)
(* that refuses, an operator's cancellation or Ctrl-C, an exception, a     *)
(* crash), with the three artifacts the run leaves on disk.                *)
(*                                                                         *)
(* Each step ends where the code persists the manifest or writes a file,   *)
(* so that a crash, and a reader of the directory, meets every state of    *)
(* the disk that two writes of the code can leave between them.            *)
(***************************************************************************)
EXTENDS Integers, FiniteSets, Sequences, RunInspection

CONSTANTS
    N,          \* number of candidates, run in the order 1..N
    Budget,     \* config.budget_usd, in units of half a dollar
    Estimate,   \* max(0.5, 0.05 * questions), in the same unit
    Costs       \* measured costs a candidate may report, 0 for unknown

ASSUME RunAssumption ==
    /\ N \in Nat \ {0}
    /\ Budget \in Nat \ {0}
    /\ Estimate \in Nat \ {0}
    /\ Costs \subseteq Nat /\ 0 \in Costs

VARIABLES
    pc,         \* where run() is
    gate,       \* index into Gates
    token,      \* self.cancellation is set
    built,      \* the candidate adapters exist
    next,       \* candidate the loop of _run_candidates is at
    spent,      \* spent of _run_candidates
    exhausted,  \* budget_exhausted of _run_candidates
    started,    \* per candidate: not started, started, started after a signal
    outcome,    \* per candidate: CandidateOutcome.status
    receipt,    \* per candidate: how its cleanup ended
    cleanups,   \* per candidate: how often cleanup() was called
    memory,     \* self._manifest, as far as an inspector reads it
    manifest,   \* manifest.json
    comparison, \* comparison.json
    report,     \* version of report.html
    writes,     \* versions written so far
    result      \* RunResult: status, and whether it has a report path

vars == <<pc, gate, token, built, next, spent, exhausted, started, outcome,
          receipt, cleanups, memory, manifest, comparison, report, writes, result>>

Candidates == 1..N

\* Verdicts: a candidate, or one of the two that name none.
NoRecommendation == 0
NoDecision       == -1

\* The steps before the first candidate, in order, with the statuses each may
\* refuse the run with.  connectors, probe and construction refuse with one
\* status; probe turns any exception of a connector into it.
Gates == <<"auth", "connectors", "probe", "crawl", "benchmark", "leakage",
           "freeze", "construction">>

Refusals(g) ==
    CASE g = "auth"      -> {"MISSING_PROVIDER", "MCP_AUTH_UNAVAILABLE"}
      [] g \in {"connectors", "probe", "construction"} -> {"CAPABILITY_UNAVAILABLE"}
      [] g = "benchmark" -> {"LEAKAGE_DETECTED", "INSUFFICIENT_BENCHMARK",
                             "MISSING_PROVIDER", "BUDGET_EXCEEDED", "FAILED"}
      [] g = "leakage"   -> {"LEAKAGE_DETECTED"}
      [] OTHER           -> {}

OutcomeStatuses == {"OK", "FAILED", "BUDGET_EXCEEDED", "CANCELLED"}
Receipts == {"complete", "incomplete", "absent", "raised", "interrupted"}

\* Where an exception is caught by the workflow's own try block.
InTry == {"gates", "candidates", "admitted", "running", "collected", "scan", "cleanup",
          "evaluate", "decide", "comparison", "html", "reported", "open"}
\* The rest of run(), after the workflow returned.
InRun == {"settle", "terminalComparison", "terminalHtml", "rewriteComparison",
          "rewriteHtml", "cleanupStage"}
Over  == {"returned", "raised", "dead"}

Attempted == {i \in Candidates : cleanups[i] > 0}
CleanupErrors == {i \in Candidates : receipt[i] \in {"incomplete", "raised"}}
Interruptions == {i \in Candidates : receipt[i] = "interrupted"}

progressVars  == <<gate, built, next, spent, exhausted, started, outcome>>
cleanupVars   == <<receipt, cleanups>>
artifactVars  == <<manifest, comparison, report, writes>>

-----------------------------------------------------------------------------
Init ==
    /\ pc = "new" /\ gate = 1 /\ token = FALSE /\ built = FALSE
    /\ next = 1 /\ spent = 0 /\ exhausted = FALSE
    /\ started  = [i \in Candidates |-> "no"]
    /\ outcome  = [i \in Candidates |-> "NONE"]
    /\ receipt  = [i \in Candidates |-> "none"]
    /\ cleanups = [i \in Candidates |-> 0]
    /\ memory = [status |-> "NO_DECISION", verdict |-> NoDecision,
                 candidates |-> "none", recorded |-> Unrecorded]
    /\ manifest = NoFile /\ comparison = NoFile /\ report = 0 /\ writes = 0
    /\ result = [status |-> "NONE", report |-> FALSE]

\* RunOrchestrator.cancel(), from another thread, at any time
Signal ==
    /\ ~token
    /\ pc \notin Over
    /\ token' = TRUE
    /\ UNCHANGED <<pc, progressVars, cleanupVars, memory, artifactVars, result>>

\* The run directory and the first manifest (status and verdict NO_DECISION)
CreateRunDir ==
    /\ pc = "new"
    /\ pc' = "gates"
    /\ manifest' = memory
    /\ UNCHANGED <<gate, token, built, next, spent, exhausted, started, outcome,
                   cleanupVars, memory, comparison, report, writes, result>>

-----------------------------------------------------------------------------
(* The ways out of the workflow.  Each persists the manifest by _stage.     *)

Leave(status, hasReport) ==
    /\ result' = [status |-> status, report |-> hasReport]
    /\ pc' = "settle"
    /\ manifest' = memory

\* report_path is bound once _write_report returned.
ReportBound == pc \in {"reported", "open"}

\* Ctrl-C anywhere, RunCancelled where the workflow polls the token
CancelWorkflow ==
    /\ pc \in InTry
    /\ Leave("CANCELLED", ReportBound)
    /\ UNCHANGED <<token, progressVars, cleanupVars, memory, comparison, report,
                   writes>>

\* _probe and _crawl poll the token before each connector.
Polls == pc = "gates" /\ Gates[gate] \in {"probe", "crawl"}

PolledCancel == Polls /\ token /\ CancelWorkflow

\* Any other exception: storage, a connector, evaluation, the browser
FailWorkflow ==
    /\ pc \in InTry
    /\ Leave("FAILED", ReportBound)
    /\ UNCHANGED <<token, progressVars, cleanupVars, memory, comparison, report,
                   writes>>

\* An exception that no handler of run() catches: the handler's own _stage
\* cannot persist the manifest (a full disk), or run() fails before the
\* workflow's try block (an occupied run directory) or after it.
Escape ==
    /\ pc \in {"new"} \cup InTry \cup InRun
    /\ pc' = "raised"
    /\ UNCHANGED <<token, progressVars, cleanupVars, memory, artifactVars, result>>

Crash ==
    /\ pc \notin Over
    /\ pc' = "dead"
    /\ UNCHANGED <<token, progressVars, cleanupVars, memory, artifactVars, result>>

-----------------------------------------------------------------------------
(* Gates *)

RefuseGate ==
    /\ pc = "gates"
    /\ \E s \in Refusals(Gates[gate]) : Leave(s, FALSE)
    /\ UNCHANGED <<token, progressVars, cleanupVars, memory, comparison, report,
                   writes>>

PassGate ==
    /\ pc = "gates"
    /\ Polls => ~token
    /\ built' = (built \/ Gates[gate] = "construction")
    /\ IF gate = Len(Gates)
       THEN pc' = "candidates" /\ UNCHANGED gate
       ELSE gate' = gate + 1 /\ UNCHANGED pc
    /\ manifest' = memory
    /\ UNCHANGED <<token, next, spent, exhausted, started, outcome, cleanupVars,
                   memory, comparison, report, writes, result>>

-----------------------------------------------------------------------------
(* _run_candidates: the loop over the candidates *)

\* The signal is seen before a candidate: its outcome is CANCELLED and the
\* loop ends.
StopBeforeCandidate ==
    /\ pc = "candidates" /\ next <= N
    /\ token
    /\ outcome' = [outcome EXCEPT ![next] = "CANCELLED"]
    /\ pc' = "collected"
    /\ UNCHANGED <<gate, token, built, next, spent, exhausted, started,
                   cleanupVars, memory, artifactVars, result>>

\* Variant of OverCap that does not remember an exhausted budget
OverCapUnlatched == spent + Estimate >= Budget

OverCap == exhausted \/ spent + Estimate >= Budget

\* The cap leaves no room for a candidate.
SkipCandidate ==
    /\ pc = "candidates" /\ next <= N
    /\ ~token
    /\ OverCap
    /\ outcome' = [outcome EXCEPT ![next] = "BUDGET_EXCEEDED"]
    /\ exhausted' = TRUE
    /\ next' = next + 1
    /\ manifest' = memory
    /\ UNCHANGED <<pc, gate, token, built, spent, started, cleanupVars, memory,
                   comparison, report, writes, result>>

\* Variant of AdmitCandidate that does not look at the signal
AdmitUnasked ==
    /\ pc = "candidates" /\ next <= N
    /\ ~OverCap
    /\ pc' = "admitted"
    /\ UNCHANGED <<token, progressVars, cleanupVars, memory, artifactVars, result>>

\* The checks passed; candidate.run() follows, and a signal may come between.
AdmitCandidate ==
    /\ pc = "candidates" /\ next <= N
    /\ ~token
    /\ ~OverCap
    /\ pc' = "admitted"
    /\ UNCHANGED <<token, progressVars, cleanupVars, memory, artifactVars, result>>

RunCandidate ==
    /\ pc = "admitted"
    /\ pc' = "running"
    /\ started' = [started EXCEPT ![next] = IF token THEN "late" ELSE "yes"]
    /\ UNCHANGED <<gate, token, built, next, spent, exhausted, outcome,
                   cleanupVars, memory, artifactVars, result>>

\* candidate.run() ended, with its measured cost or an exception.  A cost that
\* exceeds the cap turns the outcome into BUDGET_EXCEEDED, and reaching the cap
\* stops later candidates.
CandidateReturns ==
    /\ pc = "running"
    /\ \E s \in OutcomeStatuses, cost \in Costs :
          LET total == spent + cost
              status == IF total > Budget THEN "BUDGET_EXCEEDED" ELSE s
          IN  /\ s = "CANCELLED" => cost = 0
              /\ outcome' = [outcome EXCEPT ![next] = status]
              /\ spent' = total
              /\ exhausted' = (exhausted \/ status = "BUDGET_EXCEEDED"
                                         \/ total >= Budget)
              /\ pc' = IF status = "CANCELLED" THEN "collected" ELSE "candidates"
    /\ next' = next + 1
    /\ manifest' = memory
    /\ UNCHANGED <<gate, token, built, started, cleanupVars, memory, comparison,
                   report, writes, result>>

\* Variant of CandidatesDone, off by one
CandidatesDoneLate ==
    /\ pc = "candidates" /\ next > N + 1
    /\ pc' = "collected"
    /\ UNCHANGED <<token, progressVars, cleanupVars, memory, artifactVars, result>>

CandidatesDone ==
    /\ pc = "candidates" /\ next > N
    /\ pc' = "collected"
    /\ UNCHANGED <<token, progressVars, cleanupVars, memory, artifactVars, result>>

-----------------------------------------------------------------------------
(* From the outcomes to the report *)

AnyOutcome(s) == \E i \in Candidates : outcome[i] = s

\* final_status of a workflow that reaches its end
FinalStatus == IF AnyOutcome("BUDGET_EXCEEDED") THEN "BUDGET_EXCEEDED" ELSE "OK"

\* A cancelled candidate ends the workflow, without an evaluation.
Collected ==
    /\ pc = "collected"
    /\ IF AnyOutcome("CANCELLED")
       THEN Leave("CANCELLED", FALSE)
       ELSE pc' = "scan" /\ UNCHANGED <<result, manifest>>
    /\ UNCHANGED <<token, progressVars, cleanupVars, memory, comparison, report,
                   writes>>

\* _scan_candidate_outputs
ScanOutputs ==
    /\ pc = "scan"
    /\ \/ Leave("LEAKAGE_DETECTED", FALSE)
       \/ pc' = "cleanup" /\ UNCHANGED <<result, manifest>>
    /\ UNCHANGED <<token, progressVars, cleanupVars, memory, comparison, report,
                   writes>>

CleanUp(i, r) ==
    /\ receipt'  = [receipt EXCEPT ![i] = r]
    /\ cleanups' = [cleanups EXCEPT ![i] = @ + 1]

\* _cleanup_candidates: even Ctrl-C during a cleanup is a cleanup error here.
CleanupCandidate ==
    /\ pc = "cleanup"
    /\ \E i \in Candidates \ Attempted, r \in Receipts \ {"interrupted"} :
          /\ \A j \in Candidates \ Attempted : i <= j
          /\ CleanUp(i, r)
    /\ UNCHANGED <<pc, token, progressVars, memory, artifactVars, result>>

CleanupDone ==
    /\ pc = "cleanup"
    /\ Attempted = Candidates
    /\ pc' = "evaluate"
    /\ manifest' = memory
    /\ UNCHANGED <<token, progressVars, cleanupVars, memory, comparison, report,
                   writes, result>>

\* A candidate that may be recommended: it answered, and its receipt proves
\* that its state was removed (the quality gates are Decision's).
Recommendable == {i \in Candidates : outcome[i] = "OK" /\ receipt[i] = "complete"}

\* The evaluations and the decision go into the manifest ...
Evaluate ==
    /\ pc = "evaluate"
    /\ memory' = [memory EXCEPT !.candidates = "evaluated"]
    /\ manifest' = memory'
    /\ pc' = "decide"
    /\ UNCHANGED <<token, progressVars, cleanupVars, comparison, report, writes,
                   result>>

\* ... and, a stage later, the verdict.
Decide ==
    /\ pc = "decide"
    /\ \E v \in Recommendable \cup {NoRecommendation} :
          memory' = [memory EXCEPT !.verdict = v]
    /\ manifest' = memory'
    /\ pc' = "comparison"
    /\ UNCHANGED <<token, progressVars, cleanupVars, comparison, report, writes,
                   result>>

\* First half of write_artifacts, for the artifact given
WriteComparison(status, verdict, candidates) ==
    /\ writes' = writes + 1
    /\ comparison' = [status |-> status, verdict |-> verdict,
                      candidates |-> candidates, version |-> writes']
    /\ UNCHANGED <<manifest, report>>

\* Second half; both hashes go into the manifest in memory.
WriteHtml ==
    /\ report' = writes
    /\ memory' = [memory EXCEPT !.recorded = writes]
    /\ UNCHANGED <<manifest, comparison, writes>>

ReportComparison ==
    /\ pc = "comparison"
    /\ WriteComparison(FinalStatus, memory.verdict, "evaluated")
    /\ pc' = "html"
    /\ UNCHANGED <<token, progressVars, cleanupVars, memory, result>>

ReportHtml ==
    /\ pc = "html"
    /\ WriteHtml
    /\ pc' = "reported"
    /\ UNCHANGED <<token, progressVars, cleanupVars, result>>

\* Variant of ReportStage that publishes the status before the run has ended
ReportStageEarly ==
    /\ pc = "reported"
    /\ manifest' = [memory EXCEPT !.status = FinalStatus]
    /\ pc' = "open"
    /\ UNCHANGED <<token, progressVars, cleanupVars, memory, comparison, report,
                   writes, result>>

ReportStage ==
    /\ pc = "reported"
    /\ manifest' = memory
    /\ pc' = "open"
    /\ UNCHANGED <<token, progressVars, cleanupVars, memory, comparison, report,
                   writes, result>>

\* The browser opens the report, when asked for, and the workflow returns.
OpenReport ==
    /\ pc = "open"
    /\ Leave(FinalStatus, TRUE)
    /\ UNCHANGED <<token, progressVars, cleanupVars, memory, comparison, report,
                   writes>>

-----------------------------------------------------------------------------
(* run(), after the workflow *)

\* Variant of SettleCandidate that forgets what the workflow cleaned up
SettleCandidateAgain ==
    /\ pc = "settle"
    /\ built
    /\ \E i \in Candidates, r \in Receipts : cleanups[i] < 2 /\ CleanUp(i, r)
    /\ UNCHANGED <<pc, token, progressVars, memory, artifactVars, result>>

\* The candidates the workflow did not clean up; Ctrl-C is an interruption.
SettleCandidate ==
    /\ pc = "settle"
    /\ built
    /\ \E i \in Candidates \ Attempted, r \in Receipts :
          /\ \A j \in Candidates \ Attempted : i <= j
          /\ CleanUp(i, r)
    /\ UNCHANGED <<pc, token, progressVars, memory, artifactVars, result>>

Settled == built => Attempted = Candidates

FinalRunStatus ==
    IF CleanupErrors # {} THEN "FAILED"
    ELSE IF Interruptions # {} THEN "CANCELLED" ELSE result.status

\* Variant of SettleRun that persists the status before the rewrite
SettleRunEarly ==
    /\ pc = "settle"
    /\ Settled
    /\ result' = [result EXCEPT !.status = FinalRunStatus]
    /\ memory' = [memory EXCEPT !.status = FinalRunStatus]
    /\ manifest' = memory'
    /\ pc' = IF CleanupErrors # {} /\ result.report
             THEN "rewriteComparison" ELSE "cleanupStage"
    /\ UNCHANGED <<token, progressVars, cleanupVars, comparison, report, writes>>

\* A cancelled run without a report gets terminal artifacts; a failed cleanup
\* marks an existing comparison FAILED; the status goes into the manifest.
SettleRun ==
    /\ pc = "settle"
    /\ Settled
    /\ result' = [result EXCEPT !.status = FinalRunStatus]
    /\ IF ~result.report /\ FinalRunStatus = "CANCELLED"
       THEN pc' = "terminalComparison" /\ UNCHANGED memory
       ELSE /\ memory' = [memory EXCEPT !.status = FinalRunStatus]
            /\ pc' = IF CleanupErrors # {} /\ result.report
                     THEN "rewriteComparison" ELSE "cleanupStage"
    /\ UNCHANGED <<token, progressVars, cleanupVars, artifactVars>>

TerminalComparison ==
    /\ pc = "terminalComparison"
    /\ WriteComparison("CANCELLED", NoRecommendation, "terminal")
    /\ pc' = "terminalHtml"
    /\ UNCHANGED <<token, progressVars, cleanupVars, memory, result>>

TerminalHtml ==
    /\ pc = "terminalHtml"
    /\ report' = writes
    /\ memory' = [memory EXCEPT !.recorded = writes, !.status = "CANCELLED"]
    /\ result' = [result EXCEPT !.report = TRUE]
    /\ pc' = "cleanupStage"
    /\ UNCHANGED <<token, progressVars, cleanupVars, manifest, comparison, writes>>

RewriteComparison ==
    /\ pc = "rewriteComparison"
    /\ WriteComparison("FAILED", comparison.verdict, comparison.candidates)
    /\ pc' = "rewriteHtml"
    /\ UNCHANGED <<token, progressVars, cleanupVars, memory, result>>

RewriteHtml ==
    /\ pc = "rewriteHtml"
    /\ WriteHtml
    /\ pc' = "cleanupStage"
    /\ UNCHANGED <<token, progressVars, cleanupVars, result>>

\* The cleanup stage and the last persist, which only adds timings
Return ==
    /\ pc = "cleanupStage"
    /\ manifest' = memory
    /\ pc' = "returned"
    /\ UNCHANGED <<token, progressVars, cleanupVars, memory, comparison, report,
                   writes, result>>

-----------------------------------------------------------------------------
Workflow ==
    \/ CreateRunDir
    \/ RefuseGate \/ PassGate \/ PolledCancel
    \/ StopBeforeCandidate \/ SkipCandidate \/ AdmitCandidate \/ RunCandidate
    \/ CandidateReturns \/ CandidatesDone
    \/ Collected \/ ScanOutputs \/ CleanupCandidate \/ CleanupDone
    \/ Evaluate \/ Decide
    \/ ReportComparison \/ ReportHtml \/ ReportStage \/ OpenReport

Settlement ==
    \/ SettleCandidate \/ SettleRun
    \/ TerminalComparison \/ TerminalHtml
    \/ RewriteComparison \/ RewriteHtml
    \/ Return

Mishap == CancelWorkflow \/ FailWorkflow \/ Escape \/ Crash

Next == Workflow \/ Settlement \/ Mishap \/ Signal

\* The thread of run() goes on; candidates are bounded by their timeouts.
Fairness == WF_vars(Workflow \/ Settlement)

Spec == Init /\ [][Next]_vars /\ Fairness

-----------------------------------------------------------------------------
(* Properties *)

Verdicts == Candidates \cup {NoRecommendation, NoDecision}
Statuses == {"NONE", "NO_DECISION", "OK", "MISSING_PROVIDER", "LEAKAGE_DETECTED",
             "MCP_AUTH_UNAVAILABLE", "CAPABILITY_UNAVAILABLE", "FAILED",
             "INSUFFICIENT_BENCHMARK", "BUDGET_EXCEEDED", "CANCELLED"}
Progress == {"none", "evaluated", "terminal"}
Manifests == [status : Statuses, verdict : Verdicts, candidates : Progress,
              recorded : Nat]
Comparisons == [status : Statuses, verdict : Verdicts, candidates : Progress,
                version : Nat]

\* Every variable keeps its type.
TypeOK ==
    /\ pc \in {"new"} \cup InTry \cup InRun \cup Over
    /\ gate \in 1..Len(Gates)
    /\ token \in BOOLEAN /\ built \in BOOLEAN /\ exhausted \in BOOLEAN
    /\ next \in 1..(N + 1)
    /\ spent \in Nat /\ report \in Nat /\ writes \in Nat
    /\ started  \in [Candidates -> {"no", "yes", "late"}]
    /\ outcome  \in [Candidates -> OutcomeStatuses \cup {"NONE"}]
    /\ receipt  \in [Candidates -> Receipts \cup {"none"}]
    /\ cleanups \in [Candidates -> Nat]
    /\ memory \in Manifests
    /\ manifest \in Manifests \cup {NoFile}
    /\ comparison \in Comparisons \cup {NoFile}
    /\ result \in [status : Statuses, report : BOOLEAN]

\* The budget cap of _run_candidates: once a candidate was skipped for, or
\* passed, the cap no later one starts (docs/methodology.md), and what was
\* spent passes the cap by less than the last candidate cost beyond its estimate.
BudgetStopsCandidates ==
    /\ \A i, j \in Candidates :
          i < j /\ outcome[i] = "BUDGET_EXCEEDED" => started[j] = "no"
    /\ spent > Budget =>
          \E cost \in Costs : spent - cost + Estimate < Budget

\* After a cancellation at most one candidate is still started, the one whose
\* check had passed, and no candidate after it ("no later candidate was
\* started", the warning of the workflow).
CancelStopsCandidates ==
    \A i, j \in Candidates :
        started[i] = "late" /\ i < j => started[j] = "no"

\* Cleanup happens once per candidate, over the two loops that perform it, and
\* before anything is published: a comparison on disk, whether a report or the
\* terminal artifacts of a cancelled run, and a run that returned, have every
\* constructed candidate cleaned up.
CleanedUpOnceBeforePublishing ==
    /\ \A i \in Candidates : cleanups[i] <= 1
    /\ built /\ (comparison # NoFile \/ pc = "returned") =>
          \A i \in Candidates : cleanups[i] = 1

Verified ==
    /\ Inspect(manifest, comparison) = "COMPLETE"
    /\ VerifyHashes(manifest, comparison.version, report) = "VALID"

\* Whatever two writes a crash or an escaping exception falls between, and while
\* the run goes on: a manifest and a comparison that agree, which is what
\* _load_run accepts, are the ones whose hashes were recorded, with the report
\* of the same write.  Status, verdict, candidates and hashes are written by
\* different steps, and the cleanup rewrite touches all of them.
AcceptedMeansVerified == Inspect(manifest, comparison) = "COMPLETE" => Verified

\* Every run that starts ends: it returns, raises or dies.
RunEnds == pc # "new" ~> pc \in Over

-----------------------------------------------------------------------------
(* What the documents say of the program *)

=============================================================================
