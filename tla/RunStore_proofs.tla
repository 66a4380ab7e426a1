----------------------------- MODULE RunStore_proofs -----------------------------
(***************************************************************************)
(* Safety of a run and of the inspector of its directory, for any number   *)
(* of candidates, any budget and any costs.                                *)
(***************************************************************************)
EXTENDS RunStore, TLAPS

AllCleaned == \A i \in Candidates : cleanups[i] = 1

\* The loop starts the candidates in order, each at most once.
InOrder ==
    /\ \A i \in Candidates : i > next => started[i] = "no"
    /\ pc \in {"new", "gates", "candidates", "admitted"} =>
          \A i \in Candidates : i >= next => started[i] = "no"
    /\ pc \in {"admitted", "running"} => next \in Candidates

\* An exhausted budget is remembered, and a candidate runs below the cap only.
CapIsKept ==
    /\ \A i \in Candidates : outcome[i] = "BUDGET_EXCEEDED" => exhausted
    /\ pc \in {"admitted", "running"} => ~exhausted /\ spent + Estimate < Budget
    /\ BudgetStopsCandidates

\* A candidate started after the signal had been admitted before it.
SignalIsKept ==
    /\ \A i \in Candidates : started[i] = "late" => token
    /\ pc = "admitted" => \A i \in Candidates : started[i] # "late"
    /\ CancelStopsCandidates

\* The places of run() before the first artifact is written.
Unpublished == {"new", "gates", "candidates", "admitted", "running", "collected",
                "scan", "cleanup", "evaluate", "decide", "comparison"}

\* One cleanup per candidate, over by the time the workflow evaluates and by
\* the time run() has settled.
CleanedBeforeUse ==
    /\ \A i \in Candidates : cleanups[i] \in {0, 1}
    /\ pc \in {"evaluate", "decide", "comparison", "html", "reported", "open"} => AllCleaned
    /\ built /\ pc \in {"cleanupStage", "returned"} \cup (InRun \ {"settle"}) => AllCleaned
    /\ built /\ comparison # NoFile => AllCleaned
    /\ pc \in Unpublished => comparison = NoFile

\* The comparison on disk is the one whose version the manifest in memory
\* records, with the report of the same write.
Recorded ==
    /\ comparison # NoFile
    /\ comparison.version # Unrecorded
    /\ memory.recorded = comparison.version
    /\ report = comparison.version

\* No persisted manifest tells a status before the last one; no comparison
\* tells none; and at the last persist the two agree only when the hashes in
\* memory are those of the artifacts on disk.
PublishedLast ==
    /\ manifest # NoFile /\ pc # "returned" => manifest.status = "NO_DECISION"
    /\ pc \in {"new", "settle", "terminalComparison", "terminalHtml"} \cup InTry =>
          memory.status = "NO_DECISION"
    /\ comparison # NoFile =>
          comparison.status \in {"OK", "BUDGET_EXCEEDED", "CANCELLED", "FAILED"}
    /\ comparison # NoFile /\ pc \in {"html", "reported", "open", "settle"} =>
          comparison.status \in {"OK", "BUDGET_EXCEEDED"}
    /\ pc \in {"html", "terminalHtml", "rewriteHtml"} =>
          comparison # NoFile /\ comparison.version = writes /\ writes # Unrecorded
    /\ pc = "rewriteComparison" => comparison # NoFile
    /\ pc \in {"reported", "open"} \/ (pc = "settle" /\ result.report) => Recorded
    /\ pc = "settle" /\ ~result.report /\ comparison # NoFile =>
          result.status \in {"FAILED", "CANCELLED"}
    /\ pc = "cleanupStage" /\ comparison # NoFile /\ Agree(memory, comparison) => Recorded
    /\ AcceptedMeansVerified

RunInv ==
    /\ TypeOK
    /\ InOrder
    /\ CapIsKept
    /\ SignalIsKept
    /\ CleanedBeforeUse
    /\ PublishedLast

\* The steps of the loop over the candidates, and all the others.
Loop ==
    \/ StopBeforeCandidate \/ SkipCandidate \/ AdmitCandidate \/ RunCandidate
    \/ CandidateReturns \/ CandidatesDone

Elsewhere ==
    \/ Signal \/ CreateRunDir \/ CancelWorkflow \/ FailWorkflow \/ Escape \/ Crash
    \/ RefuseGate \/ PassGate
    \/ Collected \/ ScanOutputs \/ CleanupCandidate \/ CleanupDone
    \/ Evaluate \/ Decide
    \/ ReportComparison \/ ReportHtml \/ ReportStage \/ OpenReport
    \/ Settlement

-----------------------------------------------------------------------------
(* Facts about the operators *)

LEMMA StepKinds == Next => Loop \/ Elsewhere
BY DEF Next, Workflow, Mishap, PolledCancel, Loop, Elsewhere

LEMMA RefusalsAreStatuses == \A g : Refusals(g) \subseteq Statuses
BY DEF Refusals, Statuses

LEMMA SomeStatuses ==
    {"NO_DECISION", "OK", "CANCELLED", "FAILED", "BUDGET_EXCEEDED", "LEAKAGE_DETECTED"}
        \subseteq Statuses
BY DEF Statuses

LEMMA GatesAreMany == Len(Gates) = 8
BY DEF Gates

\* An artifact that exists is no missing file.
LEMMA ArtifactsExist == NoFile \notin Manifests \cup Comparisons
<1>1. \A m \in Manifests \cup Comparisons : m.status \in Statuses
  BY DEF Manifests, Comparisons
<1>2. NoFile.status \notin Statuses
  BY DEF NoFile, Statuses
<1> QED
  BY <1>1, <1>2

\* What may be put into a manifest and a comparison.
LEMMA ManifestUpdates ==
    ASSUME NEW m \in Manifests
    PROVE  /\ \A s \in Statuses : [m EXCEPT !.status = s] \in Manifests
           /\ \A v \in Verdicts : [m EXCEPT !.verdict = v] \in Manifests
           /\ \A c \in Progress : [m EXCEPT !.candidates = c] \in Manifests
           /\ \A n \in Nat : [m EXCEPT !.recorded = n] \in Manifests
BY DEF Manifests

LEMMA ComparisonIsWritten ==
    ASSUME TypeOK, NEW s \in Statuses, NEW v \in Verdicts, NEW c \in Progress,
           WriteComparison(s, v, c)
    PROVE  /\ comparison' \in Comparisons
           /\ comparison'.status = s
           /\ comparison'.version = writes'
           /\ writes' \in Nat /\ writes' # Unrecorded
           /\ UNCHANGED <<manifest, report>>
BY DEF TypeOK, WriteComparison, Comparisons, Unrecorded

\* The status a run settles for is a status.
LEMMA SettledStatus ==
    ASSUME TypeOK
    PROVE  FinalRunStatus \in Statuses
BY DEF TypeOK, FinalRunStatus, Statuses

LEMMA InitInv == Init => RunInv
<1> SUFFICES ASSUME Init PROVE RunInv
  OBVIOUS
<1>1. TypeOK
  <2>1. memory \in Manifests
    <3>1. memory = [status |-> "NO_DECISION", verdict |-> NoDecision,
                    candidates |-> "none", recorded |-> Unrecorded]
      BY DEF Init
    <3>2. "NO_DECISION" \in Statuses /\ NoDecision \in Verdicts /\ "none" \in Progress
      BY SomeStatuses DEF Verdicts, Progress
    <3> QED
      BY <3>1, <3>2 DEF Manifests, Unrecorded
  <2>2. result \in [status : Statuses, report : BOOLEAN]
    BY DEF Init, Statuses
  <2>3. /\ gate \in 1..Len(Gates) /\ next \in 1..(N + 1)
        /\ pc = "new"
        /\ started  \in [Candidates -> {"no", "yes", "late"}]
        /\ outcome  \in [Candidates -> OutcomeStatuses \cup {"NONE"}]
        /\ receipt  \in [Candidates -> Receipts \cup {"none"}]
        /\ cleanups \in [Candidates -> Nat]
    BY RunAssumption, GatesAreMany DEF Init
  <2> QED
    BY <2>1, <2>2, <2>3 DEF Init, TypeOK
<1>2. InOrder /\ CapIsKept /\ SignalIsKept
  BY RunAssumption
     DEF Init, InOrder, CapIsKept, SignalIsKept, BudgetStopsCandidates,
         CancelStopsCandidates
<1>3. CleanedBeforeUse
  BY DEF Init, CleanedBeforeUse, Unpublished, InRun
<1>4. PublishedLast
  BY DEF Init, PublishedLast, AcceptedMeansVerified, Inspect, InTry
<1> QED
  BY <1>1, <1>2, <1>3, <1>4 DEF RunInv

-----------------------------------------------------------------------------
(* The loop over the candidates *)

\* The workflow is left with a status, and with a manifest from memory.
LEMMA LeavingType ==
    ASSUME TypeOK, NEW s \in Statuses, NEW r \in BOOLEAN, Leave(s, r)
    PROVE  /\ result' \in [status : Statuses, report : BOOLEAN]
           /\ pc' = "settle"
           /\ manifest' \in Manifests
BY DEF TypeOK, Leave

\* Every step keeps the types.
LEMMA StepType ==
    ASSUME TypeOK, InOrder, PublishedLast, Next
    PROVE  TypeOK'
<1> USE RunAssumption DEF TypeOK, InTry, InRun, Over, progressVars, cleanupVars, artifactVars
<1>1. CASE StopBeforeCandidate
  BY <1>1 DEF StopBeforeCandidate, OutcomeStatuses, Candidates
<1>2. CASE SkipCandidate
  <2>1. next' \in 1..(N + 1)
    BY <1>2 DEF SkipCandidate
  <2>2. outcome' \in [Candidates -> OutcomeStatuses \cup {"NONE"}]
    BY <1>2 DEF SkipCandidate, OutcomeStatuses
  <2> QED
    BY <1>2, <2>1, <2>2 DEF SkipCandidate
<1>3. CASE AdmitCandidate
  BY <1>3 DEF AdmitCandidate
<1>4. CASE RunCandidate
  BY <1>4 DEF RunCandidate
<1>5. CASE CandidateReturns
  <2>1. PICK s \in OutcomeStatuses, cost \in Costs :
          LET total == spent + cost
              status == IF total > Budget THEN "BUDGET_EXCEEDED" ELSE s
          IN  /\ outcome' = [outcome EXCEPT ![next] = status]
              /\ spent' = total
              /\ exhausted' = (exhausted \/ status = "BUDGET_EXCEEDED"
                                         \/ total >= Budget)
              /\ pc' = IF status = "CANCELLED" THEN "collected" ELSE "candidates"
    BY <1>5 DEF CandidateReturns
  <2>2. next \in Candidates
    BY <1>5 DEF CandidateReturns, InOrder
  <2>3. next' \in 1..(N + 1)
    BY <1>5, <2>2 DEF CandidateReturns, Candidates
  <2>4. outcome' \in [Candidates -> OutcomeStatuses \cup {"NONE"}]
    BY <2>1 DEF OutcomeStatuses
  <2>5. spent' \in Nat /\ exhausted' \in BOOLEAN /\ pc' \in {"collected", "candidates"}
    BY <2>1
  <2> QED
    BY <1>5, <2>3, <2>4, <2>5 DEF CandidateReturns
<1>6. CASE CandidatesDone
  BY <1>6 DEF CandidatesDone
<1>7. CASE Signal
  BY <1>7 DEF Signal
<1>8. CASE CreateRunDir
  BY <1>8 DEF CreateRunDir
<1>9. CASE CancelWorkflow
  <2>1. ReportBound \in BOOLEAN
    BY DEF ReportBound
  <2> QED
    BY <1>9, <2>1, LeavingType, SomeStatuses DEF CancelWorkflow
<1>10. CASE FailWorkflow
  <2>1. ReportBound \in BOOLEAN
    BY DEF ReportBound
  <2> QED
    BY <1>10, <2>1, LeavingType, SomeStatuses DEF FailWorkflow
<1>11. CASE Escape
  BY <1>11 DEF Escape
<1>12. CASE Crash
  BY <1>12 DEF Crash
<1>13. CASE RefuseGate
  BY <1>13, LeavingType, RefusalsAreStatuses DEF RefuseGate
<1>14. CASE PassGate
  BY <1>14 DEF PassGate
<1>15. CASE Collected
  BY <1>15, LeavingType, SomeStatuses DEF Collected
<1>16. CASE ScanOutputs
  BY <1>16, LeavingType, SomeStatuses DEF ScanOutputs
<1>17. CASE CleanupCandidate
  BY <1>17 DEF CleanupCandidate, CleanUp
<1>18. CASE CleanupDone
  BY <1>18 DEF CleanupDone
<1>19. CASE Evaluate
  <2>1. memory' \in Manifests
    BY <1>19, ManifestUpdates DEF Evaluate, Progress
  <2> QED
    BY <1>19, <2>1 DEF Evaluate
<1>20. CASE Decide
  <2>1. Recommendable \cup {NoRecommendation} \subseteq Verdicts
    BY DEF Recommendable, Verdicts
  <2>2. PICK v \in Verdicts : memory' = [memory EXCEPT !.verdict = v]
    BY <1>20, <2>1 DEF Decide
  <2>3. memory' \in Manifests
    BY <2>2, ManifestUpdates
  <2> QED
    BY <1>20, <2>3 DEF Decide
<1>21. CASE ReportComparison
  <2>1. FinalStatus \in Statuses /\ "evaluated" \in Progress
    BY DEF FinalStatus, Statuses, Progress
  <2>2. memory.verdict \in Verdicts
    BY DEF Manifests
  <2> QED
    BY <1>21, <2>1, <2>2, ComparisonIsWritten DEF ReportComparison
<1>22. CASE ReportHtml
  <2>1. memory' \in Manifests
    BY <1>22, ManifestUpdates DEF ReportHtml, WriteHtml
  <2> QED
    BY <1>22, <2>1 DEF ReportHtml, WriteHtml
<1>23. CASE ReportStage
  BY <1>23 DEF ReportStage
<1>24. CASE OpenReport
  <2>1. FinalStatus \in Statuses
    BY DEF FinalStatus, Statuses
  <2> QED
    BY <1>24, <2>1, LeavingType DEF OpenReport
<1>25. CASE SettleCandidate
  BY <1>25 DEF SettleCandidate, CleanUp
<1>26. CASE SettleRun
  <2>1. FinalRunStatus \in Statuses
    BY SettledStatus
  <2>2. memory' \in Manifests
    BY <1>26, <2>1, ManifestUpdates DEF SettleRun
  <2>3. result' \in [status : Statuses, report : BOOLEAN]
    BY <1>26, <2>1 DEF SettleRun
  <2>4. pc' \in InRun
    BY <1>26 DEF SettleRun
  <2> QED
    BY <1>26, <2>2, <2>3, <2>4 DEF SettleRun
<1>27. CASE TerminalComparison
  <2>1. /\ "CANCELLED" \in Statuses
        /\ NoRecommendation \in Verdicts
        /\ "terminal" \in Progress
    BY DEF Statuses, Verdicts, Progress
  <2> QED
    BY <1>27, <2>1, ComparisonIsWritten DEF TerminalComparison
<1>28. CASE TerminalHtml
  <2> DEFINE hashed == [memory EXCEPT !.recorded = writes]
  <2>1. hashed \in Manifests /\ "CANCELLED" \in Statuses
    BY ManifestUpdates DEF Statuses
  <2>2. memory' = [hashed EXCEPT !.status = "CANCELLED"]
    BY <1>28 DEF TerminalHtml
  <2> HIDE DEF hashed
  <2>3. memory' \in Manifests
    BY <2>1, <2>2, ManifestUpdates
  <2>4. result' \in [status : Statuses, report : BOOLEAN]
    BY <1>28 DEF TerminalHtml
  <2> QED
    BY <1>28, <2>3, <2>4 DEF TerminalHtml
<1>29. CASE RewriteComparison
  <2>1. "FAILED" \in Statuses
    BY DEF Statuses
  <2>2. comparison.verdict \in Verdicts /\ comparison.candidates \in Progress
    BY <1>29 DEF RewriteComparison, PublishedLast, Comparisons
  <2> QED
    BY <1>29, <2>1, <2>2, ComparisonIsWritten DEF RewriteComparison
<1>30. CASE RewriteHtml
  <2>1. memory' \in Manifests
    BY <1>30, ManifestUpdates DEF RewriteHtml, WriteHtml
  <2> QED
    BY <1>30, <2>1 DEF RewriteHtml, WriteHtml
<1>31. CASE Return
  BY <1>31 DEF Return
<1> QED
  BY <1>1, <1>2, <1>3, <1>4, <1>5, <1>6, <1>7, <1>8, <1>9, <1>10, <1>11, <1>12, <1>13, <1>14, <1>15, <1>16, <1>17, <1>18, <1>19, <1>20, <1>21, <1>22, <1>23, <1>24, <1>25, <1>26, <1>27, <1>28, <1>29, <1>30, <1>31, StepKinds
     DEF Loop, Elsewhere, Settlement

\* Outside the loop nothing is admitted, started or counted.
LEMMA ElsewhereKeepsTheLoop ==
    ASSUME Elsewhere
    PROVE  /\ UNCHANGED <<next, spent, exhausted, started, outcome>>
           /\ token => token'
           /\ \/ pc' = pc
              \/ pc \in {"new", "gates"} /\ pc' \in {"gates", "candidates"}
              \/ pc' \notin {"new", "gates", "candidates", "admitted", "running"}
<1> USE DEF InTry, InRun, Over, progressVars, cleanupVars, artifactVars
<1>1. CASE Signal
  BY <1>1 DEF Signal
<1>2. CASE CreateRunDir
  BY <1>2 DEF CreateRunDir
<1>3. CASE CancelWorkflow
  BY <1>3 DEF CancelWorkflow, Leave
<1>4. CASE FailWorkflow
  BY <1>4 DEF FailWorkflow, Leave
<1>5. CASE Escape
  BY <1>5 DEF Escape
<1>6. CASE Crash
  BY <1>6 DEF Crash
<1>7. CASE RefuseGate
  BY <1>7 DEF RefuseGate, Leave
<1>8. CASE PassGate
  BY <1>8 DEF PassGate
<1>9. CASE Collected
  BY <1>9 DEF Collected, Leave
<1>10. CASE ScanOutputs
  BY <1>10 DEF ScanOutputs, Leave
<1>11. CASE CleanupCandidate
  BY <1>11 DEF CleanupCandidate, CleanUp
<1>12. CASE CleanupDone
  BY <1>12 DEF CleanupDone
<1>13. CASE Evaluate
  BY <1>13 DEF Evaluate
<1>14. CASE Decide
  BY <1>14 DEF Decide
<1>15. CASE ReportComparison
  BY <1>15 DEF ReportComparison, WriteComparison
<1>16. CASE ReportHtml
  BY <1>16 DEF ReportHtml, WriteHtml
<1>17. CASE ReportStage
  BY <1>17 DEF ReportStage
<1>18. CASE OpenReport
  BY <1>18 DEF OpenReport, Leave
<1>19. CASE SettleCandidate
  BY <1>19 DEF SettleCandidate, CleanUp
<1>20. CASE SettleRun
  BY <1>20 DEF SettleRun
<1>21. CASE TerminalComparison
  BY <1>21 DEF TerminalComparison, WriteComparison
<1>22. CASE TerminalHtml
  BY <1>22 DEF TerminalHtml
<1>23. CASE RewriteComparison
  BY <1>23 DEF RewriteComparison, WriteComparison
<1>24. CASE RewriteHtml
  BY <1>24 DEF RewriteHtml, WriteHtml
<1>25. CASE Return
  BY <1>25 DEF Return
<1> QED
  BY <1>1, <1>2, <1>3, <1>4, <1>5, <1>6, <1>7, <1>8, <1>9, <1>10, <1>11, <1>12, <1>13, <1>14, <1>15, <1>16, <1>17, <1>18, <1>19, <1>20, <1>21, <1>22, <1>23, <1>24, <1>25 DEF Elsewhere, Settlement

\* Candidates start in order.
LEMMA StepInOrder ==
    ASSUME TypeOK, InOrder, Next
    PROVE  InOrder'
<1> USE RunAssumption DEF TypeOK, InOrder, progressVars, Candidates
<1>1. CASE StopBeforeCandidate
  BY <1>1 DEF StopBeforeCandidate
<1>2. CASE SkipCandidate
  BY <1>2 DEF SkipCandidate
<1>3. CASE AdmitCandidate
  BY <1>3 DEF AdmitCandidate
<1>4. CASE RunCandidate
  BY <1>4 DEF RunCandidate
<1>5. CASE CandidateReturns
  BY <1>5 DEF CandidateReturns
<1>6. CASE CandidatesDone
  BY <1>6 DEF CandidatesDone
<1>7. CASE Elsewhere
  BY <1>7, ElsewhereKeepsTheLoop
<1> QED
  BY <1>1, <1>2, <1>3, <1>4, <1>5, <1>6, <1>7, StepKinds DEF Loop

\* The cap is kept.
LEMMA StepCap ==
    ASSUME TypeOK, InOrder, CapIsKept, Next
    PROVE  CapIsKept'
<1> USE RunAssumption DEF TypeOK, InOrder, CapIsKept, BudgetStopsCandidates, progressVars, Candidates
<1>1. CASE StopBeforeCandidate
  BY <1>1 DEF StopBeforeCandidate
<1>2. CASE SkipCandidate
  BY <1>2 DEF SkipCandidate
<1>3. CASE AdmitCandidate
  BY <1>3 DEF AdmitCandidate, OverCap
<1>4. CASE RunCandidate
  BY <1>4 DEF RunCandidate
<1>5. CASE CandidateReturns
  <2>1. PICK r \in OutcomeStatuses, cost \in Costs :
          LET total == spent + cost
              status == IF total > Budget THEN "BUDGET_EXCEEDED" ELSE r
          IN  /\ outcome' = [outcome EXCEPT ![next] = status]
              /\ spent' = total
              /\ exhausted' = (exhausted \/ status = "BUDGET_EXCEEDED"
                                         \/ total >= Budget)
              /\ pc' = IF status = "CANCELLED" THEN "collected" ELSE "candidates"
    BY <1>5 DEF CandidateReturns
  <2>2. /\ next \in Candidates
        /\ spent + Estimate < Budget
        /\ UNCHANGED started
        /\ \A j \in Candidates : next < j => started[j] = "no"
    BY <1>5 DEF CandidateReturns
  <2>3. \A i \in Candidates :
          outcome'[i] = "BUDGET_EXCEEDED" => i = next \/ outcome[i] = "BUDGET_EXCEEDED"
    BY <2>1
  <2>4. outcome'[next] = "BUDGET_EXCEEDED" => exhausted'
    BY <2>1, <2>2
  <2>5. exhausted => exhausted'
    BY <2>1
  <2>6. spent' > Budget => \E c \in Costs : spent' - c + Estimate < Budget
    <3>1. spent' - cost = spent
      BY <2>1
    <3> QED
      BY <2>2, <3>1
  <2>7. pc' \notin {"admitted", "running"}
    BY <2>1
  <2> QED
    BY <2>2, <2>3, <2>4, <2>5, <2>6, <2>7
<1>6. CASE CandidatesDone
  BY <1>6 DEF CandidatesDone
<1>7. CASE Elsewhere
  BY <1>7, ElsewhereKeepsTheLoop
<1> QED
  BY <1>1, <1>2, <1>3, <1>4, <1>5, <1>6, <1>7, StepKinds DEF Loop

\* The signal is kept.
LEMMA StepSignal ==
    ASSUME TypeOK, InOrder, SignalIsKept, Next
    PROVE  SignalIsKept'
<1> USE RunAssumption DEF TypeOK, InOrder, SignalIsKept, CancelStopsCandidates, progressVars, Candidates
<1>1. CASE StopBeforeCandidate
  BY <1>1 DEF StopBeforeCandidate
<1>2. CASE SkipCandidate
  BY <1>2 DEF SkipCandidate
<1>3. CASE AdmitCandidate
  BY <1>3 DEF AdmitCandidate
<1>4. CASE RunCandidate
  BY <1>4 DEF RunCandidate
<1>5. CASE CandidateReturns
  BY <1>5 DEF CandidateReturns
<1>6. CASE CandidatesDone
  BY <1>6 DEF CandidatesDone
<1>7. CASE Elsewhere
  BY <1>7, ElsewhereKeepsTheLoop
<1> QED
  BY <1>1, <1>2, <1>3, <1>4, <1>5, <1>6, <1>7, StepKinds DEF Loop

-----------------------------------------------------------------------------
(* Cleanup and publication *)

\* The loop cleans nothing up and writes no artifact; it persists the manifest.
LEMMA LoopPublishesNothing ==
    ASSUME Loop
    PROVE  /\ UNCHANGED <<built, cleanups, memory, comparison, report, writes, result>>
           /\ manifest' \in {manifest, memory}
           /\ pc \in {"candidates", "admitted", "running"}
           /\ pc' \in {"candidates", "admitted", "running", "collected"}
BY DEF Loop, StopBeforeCandidate, SkipCandidate, AdmitCandidate, RunCandidate,
       CandidateReturns, CandidatesDone, progressVars, cleanupVars, artifactVars

\* The cleanups are done before their results are used.
LEMMA StepCleaned ==
    ASSUME TypeOK, CleanedBeforeUse, PublishedLast, Next
    PROVE  CleanedBeforeUse'
<1> USE DEF TypeOK, CleanedBeforeUse, AllCleaned, Unpublished, InTry, InRun, Over,
            progressVars, cleanupVars, artifactVars
<1>1. CASE Loop
  BY <1>1, LoopPublishesNothing
<1>2. CASE Signal
  BY <1>2 DEF Signal
<1>3. CASE CreateRunDir
  BY <1>3 DEF CreateRunDir
<1>4. CASE CancelWorkflow
  BY <1>4 DEF CancelWorkflow, Leave
<1>5. CASE FailWorkflow
  BY <1>5 DEF FailWorkflow, Leave
<1>6. CASE Escape
  BY <1>6 DEF Escape
<1>7. CASE Crash
  BY <1>7 DEF Crash
<1>8. CASE RefuseGate
  BY <1>8 DEF RefuseGate, Leave
<1>9. CASE PassGate
  BY <1>9 DEF PassGate
<1>10. CASE Collected
  BY <1>10 DEF Collected, Leave
<1>11. CASE ScanOutputs
  BY <1>11 DEF ScanOutputs, Leave
<1>12. CASE CleanupCandidate
  BY <1>12 DEF CleanupCandidate, CleanUp, Attempted
<1>13. CASE CleanupDone
  BY <1>13 DEF CleanupDone, Attempted
<1>14. CASE Evaluate
  BY <1>14 DEF Evaluate
<1>15. CASE Decide
  BY <1>15 DEF Decide
<1>16. CASE ReportComparison
  BY <1>16 DEF ReportComparison, WriteComparison
<1>17. CASE ReportHtml
  BY <1>17 DEF ReportHtml, WriteHtml
<1>18. CASE ReportStage
  BY <1>18 DEF ReportStage
<1>19. CASE OpenReport
  BY <1>19 DEF OpenReport, Leave
<1>20. CASE SettleCandidate
  BY <1>20 DEF SettleCandidate, CleanUp, Attempted
<1>21. CASE SettleRun
  BY <1>21 DEF SettleRun, Settled, Attempted
<1>22. CASE TerminalComparison
  BY <1>22 DEF TerminalComparison, WriteComparison
<1>23. CASE TerminalHtml
  BY <1>23 DEF TerminalHtml
<1>24. CASE RewriteComparison
  BY <1>24 DEF RewriteComparison, WriteComparison
<1>25. CASE RewriteHtml
  BY <1>25 DEF RewriteHtml, WriteHtml
<1>26. CASE Return
  BY <1>26 DEF Return
<1> QED
  BY <1>1, <1>2, <1>3, <1>4, <1>5, <1>6, <1>7, <1>8, <1>9, <1>10, <1>11, <1>12, <1>13, <1>14, <1>15, <1>16, <1>17, <1>18, <1>19, <1>20, <1>21, <1>22, <1>23, <1>24, <1>25, <1>26, StepKinds
     DEF Elsewhere, Settlement

\* What is persisted last is what was written.
LEMMA StepPublished ==
    ASSUME TypeOK, CleanedBeforeUse, PublishedLast, Next
    PROVE  PublishedLast'
<1> USE ArtifactsExist
    DEF TypeOK, CleanedBeforeUse, PublishedLast, Recorded, AcceptedMeansVerified, Verified,
        Inspect, Agree, VerifyHashes, Unrecorded, Unpublished, InTry, InRun, Over,
        progressVars, cleanupVars, artifactVars
<1>1. CASE Loop
  BY <1>1, LoopPublishesNothing
<1>2. CASE Signal
  BY <1>2 DEF Signal
<1>3. CASE CreateRunDir
  BY <1>3 DEF CreateRunDir
<1>4. CASE CancelWorkflow
  BY <1>4 DEF CancelWorkflow, Leave, ReportBound
<1>5. CASE FailWorkflow
  BY <1>5 DEF FailWorkflow, Leave, ReportBound
<1>6. CASE Escape
  BY <1>6 DEF Escape
<1>7. CASE Crash
  BY <1>7 DEF Crash
<1>8. CASE RefuseGate
  BY <1>8 DEF RefuseGate, Leave
<1>9. CASE PassGate
  BY <1>9 DEF PassGate
<1>10. CASE Collected
  BY <1>10 DEF Collected, Leave
<1>11. CASE ScanOutputs
  BY <1>11 DEF ScanOutputs, Leave
<1>12. CASE CleanupCandidate
  BY <1>12 DEF CleanupCandidate, CleanUp
<1>13. CASE CleanupDone
  BY <1>13 DEF CleanupDone
<1>14. CASE Evaluate
  BY <1>14 DEF Evaluate
<1>15. CASE Decide
  BY <1>15 DEF Decide
<1>16. CASE ReportComparison
  <2>1. PICK st \in {"OK", "BUDGET_EXCEEDED"} : st = FinalStatus
    BY DEF FinalStatus
  <2>2. WriteComparison(st, memory.verdict, "evaluated")
    BY <1>16, <2>1 DEF ReportComparison
  <2>3. /\ comparison'.status = st
        /\ comparison'.version = writes' /\ writes' # Unrecorded
        /\ UNCHANGED <<manifest, report>>
    BY <2>2 DEF WriteComparison
  <2>4. comparison' # NoFile
    BY <2>1, <2>3 DEF NoFile
  <2>5. pc = "comparison" /\ pc' = "html" /\ UNCHANGED <<memory, result>>
    BY <1>16 DEF ReportComparison
  <2>6. manifest # NoFile => manifest.status = "NO_DECISION"
    BY <2>5
  <2> QED
    BY <2>1, <2>3, <2>4, <2>5, <2>6
<1>17. CASE ReportHtml
  BY <1>17 DEF ReportHtml, WriteHtml
<1>18. CASE ReportStage
  BY <1>18 DEF ReportStage
<1>19. CASE OpenReport
  BY <1>19 DEF OpenReport, Leave, FinalStatus
<1>20. CASE SettleCandidate
  BY <1>20 DEF SettleCandidate, CleanUp
<1>21. CASE SettleRun
  <2>1. UNCHANGED <<manifest, comparison, report, writes>>
    BY <1>21 DEF SettleRun
  <2>2. manifest # NoFile => manifest.status = "NO_DECISION"
    BY <1>21 DEF SettleRun
  <2>3. CASE ~result.report /\ FinalRunStatus = "CANCELLED"
    BY <1>21, <2>1, <2>2, <2>3 DEF SettleRun
  <2>4. CASE result.report \/ FinalRunStatus # "CANCELLED"
    <3>1. /\ memory' = [memory EXCEPT !.status = FinalRunStatus]
          /\ pc' = IF CleanupErrors # {} /\ result.report
                   THEN "rewriteComparison" ELSE "cleanupStage"
      BY <1>21, <2>4 DEF SettleRun
    <3>2. memory'.recorded = memory.recorded /\ memory'.status = FinalRunStatus
      BY <3>1 DEF Manifests
    <3>3. CASE result.report
      <4>1. Recorded'
        BY <1>21, <2>1, <3>2, <3>3 DEF SettleRun
      <4> QED
        BY <2>1, <2>2, <3>1, <4>1
    <3>4. CASE ~result.report
      <4>1. comparison # NoFile => FinalRunStatus = "FAILED"
        BY <1>21, <2>4, <3>4 DEF SettleRun, FinalRunStatus
      <4>2. comparison # NoFile => comparison.status # "FAILED"
        BY <1>21 DEF SettleRun
      <4>3. pc' = "cleanupStage"
        BY <3>1, <3>4
      <4> QED
        BY <2>1, <2>2, <3>2, <4>1, <4>2, <4>3
    <3> QED
      BY <3>3, <3>4
  <2> QED
    BY <2>3, <2>4
<1>22. CASE TerminalComparison
  <2>1. WriteComparison("CANCELLED", NoRecommendation, "terminal")
    BY <1>22 DEF TerminalComparison
  <2>2. /\ comparison'.status = "CANCELLED"
        /\ comparison'.version = writes' /\ writes' # Unrecorded
        /\ UNCHANGED <<manifest, report>>
    BY <2>1 DEF WriteComparison
  <2>3. comparison' # NoFile
    BY <2>2 DEF NoFile
  <2>4. pc = "terminalComparison" /\ pc' = "terminalHtml" /\ UNCHANGED <<memory, result>>
    BY <1>22 DEF TerminalComparison
  <2>5. manifest # NoFile => manifest.status = "NO_DECISION"
    BY <2>4
  <2> QED
    BY <2>2, <2>3, <2>4, <2>5
<1>23. CASE TerminalHtml
  BY <1>23 DEF TerminalHtml
<1>24. CASE RewriteComparison
  <2>1. WriteComparison("FAILED", comparison.verdict, comparison.candidates)
    BY <1>24 DEF RewriteComparison
  <2>2. /\ comparison'.status = "FAILED"
        /\ comparison'.version = writes' /\ writes' # Unrecorded
        /\ UNCHANGED <<manifest, report>>
    BY <2>1 DEF WriteComparison
  <2>3. comparison' # NoFile
    BY <2>2 DEF NoFile
  <2>4. pc = "rewriteComparison" /\ pc' = "rewriteHtml" /\ UNCHANGED <<memory, result>>
    BY <1>24 DEF RewriteComparison
  <2>5. manifest # NoFile => manifest.status = "NO_DECISION"
    BY <2>4
  <2> QED
    BY <2>2, <2>3, <2>4, <2>5
<1>25. CASE RewriteHtml
  BY <1>25 DEF RewriteHtml, WriteHtml
<1>26. CASE Return
  BY <1>26 DEF Return
<1> QED
  BY <1>1, <1>2, <1>3, <1>4, <1>5, <1>6, <1>7, <1>8, <1>9, <1>10, <1>11, <1>12, <1>13, <1>14, <1>15, <1>16, <1>17, <1>18, <1>19, <1>20, <1>21, <1>22, <1>23, <1>24, <1>25, <1>26, StepKinds
     DEF Elsewhere, Settlement

LEMMA NextInv == RunInv /\ [Next]_vars => RunInv'
<1> SUFFICES ASSUME RunInv, [Next]_vars PROVE RunInv'
  OBVIOUS
<1> USE DEF RunInv
<1>1. CASE Next
  BY <1>1, StepType, StepInOrder, StepCap, StepSignal, StepCleaned, StepPublished
<1>2. CASE UNCHANGED vars
  <2>1. /\ UNCHANGED <<pc, gate, token, built, next, spent, exhausted, started, outcome>>
        /\ UNCHANGED <<receipt, cleanups, memory, manifest, comparison, report, writes,
                       result>>
    BY <1>2 DEF vars
  <2>2. TypeOK'
    BY <2>1 DEF TypeOK
  <2>3. InOrder' /\ CapIsKept' /\ SignalIsKept'
    BY <2>1
       DEF InOrder, CapIsKept, SignalIsKept, BudgetStopsCandidates, CancelStopsCandidates
  <2>4. CleanedBeforeUse'
    BY <2>1 DEF CleanedBeforeUse, AllCleaned
  <2>5. PublishedLast'
    BY <2>1 DEF PublishedLast, Recorded, AcceptedMeansVerified, Verified
  <2> QED
    BY <2>2, <2>3, <2>4, <2>5
<1> QED
  BY <1>1, <1>2

THEOREM Invariance == Spec => []RunInv
<1>1. Init => RunInv
  BY InitInv
<1>2. RunInv /\ [Next]_vars => RunInv'
  BY NextInv
<1> QED
  BY <1>1, <1>2, PTL DEF Spec

-----------------------------------------------------------------------------
(* What holds of every run *)

\* The types, for any number of candidates and any costs.
THEOREM RunTypeCorrect == Spec => []TypeOK
<1>1. RunInv => TypeOK
  BY DEF RunInv
<1> QED
  BY <1>1, Invariance, PTL

\* No candidate starts after one that the cap kept out or that passed it, and
\* the cap is passed by one candidate at most.
THEOREM BudgetIsKept == Spec => []BudgetStopsCandidates
<1>1. RunInv => BudgetStopsCandidates
  BY DEF RunInv, CapIsKept
<1> QED
  BY <1>1, Invariance, PTL

\* After the signal only the candidate that was admitted before it starts.
THEOREM CancellationIsKept == Spec => []CancelStopsCandidates
<1>1. RunInv => CancelStopsCandidates
  BY DEF RunInv, SignalIsKept
<1> QED
  BY <1>1, Invariance, PTL

\* Every candidate is cleaned up once, and before anything is published, on
\* whatever way the run leaves its workflow.
THEOREM CleanupPrecedesPublication == Spec => []CleanedUpOnceBeforePublishing
<1>1. RunInv => CleanedUpOnceBeforePublishing
  BY DEF RunInv, CleanedBeforeUse, CleanedUpOnceBeforePublishing, AllCleaned
<1> QED
  BY <1>1, Invariance, PTL

\* Whenever a crash or an exception leaves artifacts that agree, their hashes
\* are the recorded ones.
THEOREM AgreementIsVerified == Spec => []AcceptedMeansVerified
<1>1. RunInv => AcceptedMeansVerified
  BY DEF RunInv, PublishedLast
<1> QED
  BY <1>1, Invariance, PTL

-----------------------------------------------------------------------------
(* The inspector *)

\* The inspector writes nothing: what holds of the run alone holds beside it.
THEOREM InspectorOnlyReads == StoreSpec => Spec
<1>1. StoreInit => Init
  BY DEF StoreInit
<1>2. [StoreNext]_storeVars => [Next]_vars
  BY DEF StoreNext, storeVars, Inspector, ReadManifest, ReadComparison, HashComparison,
         HashReport
<1> QED
  BY <1>1, <1>2, PTL DEF StoreSpec, Spec

InspectorType ==
    inspector \in
        [at : {"idle", "comparison", "comparisonHash", "reportHash"},
         manifest : Manifests \cup {NoFile},
         comparison : Comparisons \cup {NoFile},
         version : Nat,
         reply : {"NONE", "VALID", "CORRUPT", "INCOMPLETE", "UNVERIFIABLE"}]

\* A manifest that tells a status was read after the run had returned.
ReadLast ==
    /\ \/ inspector.manifest = NoFile
       \/ inspector.manifest.status = "NO_DECISION"
       \/ pc = "returned" /\ inspector.manifest = manifest
    /\ inspector.at \in {"comparisonHash", "reportHash"} \/ inspector.reply = "VALID" =>
          /\ pc = "returned"
          /\ inspector.manifest = manifest
          /\ Inspect(manifest, comparison) = "COMPLETE"

StoreInv ==
    /\ RunInv
    /\ InspectorType
    /\ ReadLast

\* A run that has returned writes nothing any more.
LEMMA ReturnedIsFinal ==
    ASSUME pc = "returned", [Next]_vars
    PROVE  UNCHANGED <<pc, manifest, comparison, report>>
BY DEF Next, Workflow, Settlement, Mishap, PolledCancel, Signal, CreateRunDir, CancelWorkflow,
       FailWorkflow, Escape, Crash, RefuseGate, PassGate, StopBeforeCandidate,
       SkipCandidate, AdmitCandidate, RunCandidate, CandidateReturns, CandidatesDone,
       Collected, ScanOutputs, CleanupCandidate, CleanupDone, Evaluate, Decide,
       ReportComparison, ReportHtml, ReportStage, OpenReport, SettleCandidate,
       SettleRun, TerminalComparison, TerminalHtml, RewriteComparison, RewriteHtml,
       Return, InTry, InRun, Over, vars

\* The verdicts of the two checks.
LEMMA InspectVerdicts ==
    \A m, c : Inspect(m, c) \in {"CORRUPT", "INCOMPLETE", "COMPLETE"}
BY DEF Inspect

LEMMA HashVerdicts ==
    \A m, v, r : VerifyHashes(m, v, r) \in {"UNVERIFIABLE", "VALID", "CORRUPT"}
BY DEF VerifyHashes

LEMMA StoreNextInv == StoreInv /\ [StoreNext]_storeVars => StoreInv'
<1> SUFFICES ASSUME StoreInv, [StoreNext]_storeVars PROVE StoreInv'
  OBVIOUS
<1>1. RunInv'
  <2>1. [Next]_vars
    BY DEF StoreNext, storeVars, Inspector, ReadManifest, ReadComparison, HashComparison,
           HashReport
  <2> QED
    BY <2>1, NextInv DEF StoreInv
<1> USE DEF StoreInv, InspectorType
<1>2. CASE [Next]_vars /\ UNCHANGED inspector
  <2>1. pc = "returned" => UNCHANGED <<pc, manifest, comparison>>
    BY <1>2, ReturnedIsFinal
  <2>2. ReadLast'
    BY <1>2, <2>1 DEF ReadLast
  <2> QED
    BY <1>1, <1>2, <2>2
<1>3. CASE ReadManifest
  <2>1. UNCHANGED <<pc, manifest, comparison>>
    BY <1>3 DEF ReadManifest, vars
  <2>2. manifest \in Manifests \cup {NoFile}
    BY DEF RunInv, TypeOK
  <2>3. InspectorType'
    BY <1>3, <2>2 DEF ReadManifest, NotRead
  <2>4. inspector'.manifest \in {NoFile, manifest} /\ inspector'.at \in {"idle", "comparison"}
        /\ inspector'.reply # "VALID"
    BY <1>3 DEF ReadManifest, NotRead
  <2>5. manifest = NoFile \/ manifest.status = "NO_DECISION" \/ pc = "returned"
    BY DEF RunInv, PublishedLast
  <2>6. ReadLast'
    BY <2>1, <2>4, <2>5 DEF ReadLast
  <2> QED
    BY <1>1, <2>3, <2>6
<1>4. CASE ReadComparison
  <2>1. UNCHANGED <<pc, manifest, comparison>>
    BY <1>4 DEF ReadComparison, vars
  <2>2. comparison \in Comparisons \cup {NoFile}
    BY DEF RunInv, TypeOK
  <2> DEFINE verdict == Inspect(inspector.manifest, comparison)
  <2>3. CASE verdict = "COMPLETE"
    <3>1. inspector' = [inspector EXCEPT !.at = "comparisonHash", !.comparison = comparison]
      BY <1>4, <2>3 DEF ReadComparison
    <3>2. InspectorType'
      BY <2>2, <3>1
    <3>3. /\ inspector.manifest # NoFile
          /\ comparison # NoFile
          /\ inspector.manifest.status = comparison.status
      BY <2>3 DEF Inspect, Agree
    <3>4. comparison.status # "NO_DECISION"
      BY <3>3 DEF RunInv, PublishedLast
    <3>5. pc = "returned" /\ inspector.manifest = manifest
      BY <3>3, <3>4 DEF ReadLast
    <3>6. inspector'.manifest = inspector.manifest
      BY <3>1
    <3>7. ReadLast'
      BY <2>1, <2>3, <3>5, <3>6 DEF ReadLast
    <3> QED
      BY <1>1, <3>2, <3>7
  <2>4. CASE verdict # "COMPLETE"
    <3>1. inspector' = [inspector EXCEPT !.at = "idle", !.reply = verdict]
      BY <1>4, <2>4 DEF ReadComparison
    <3>2. verdict \in {"CORRUPT", "INCOMPLETE"}
      BY <2>4, InspectVerdicts
    <3> HIDE DEF verdict
    <3>3. InspectorType'
      BY <3>1, <3>2
    <3>4. /\ inspector'.manifest = inspector.manifest
          /\ inspector'.at = "idle" /\ inspector'.reply # "VALID"
      BY <3>1, <3>2
    <3>5. ReadLast'
      BY <2>1, <3>4 DEF ReadLast
    <3> QED
      BY <1>1, <3>3, <3>5
  <2> QED
    BY <2>3, <2>4
<1>5. CASE HashComparison
  <2>1. UNCHANGED <<pc, manifest, comparison>>
    BY <1>5 DEF HashComparison, vars
  <2>2. comparison \in Comparisons
    <3>1. Inspect(manifest, comparison) = "COMPLETE"
      BY <1>5 DEF HashComparison, ReadLast
    <3>2. comparison # NoFile
      BY <3>1 DEF Inspect
    <3> QED
      BY <3>2 DEF RunInv, TypeOK
  <2>3. comparison.version \in Nat
    BY <2>2 DEF Comparisons
  <2>4. inspector' = [inspector EXCEPT !.at = "reportHash", !.version = comparison.version]
    BY <1>5 DEF HashComparison
  <2>5. InspectorType'
    BY <2>3, <2>4
  <2>6. inspector'.manifest = inspector.manifest /\ inspector.at = "comparisonHash"
    BY <1>5, <2>4 DEF HashComparison
  <2>7. ReadLast'
    BY <2>1, <2>6 DEF ReadLast
  <2> QED
    BY <1>1, <2>5, <2>7
<1>6. CASE HashReport
  <2>1. UNCHANGED <<pc, manifest, comparison>>
    BY <1>6 DEF HashReport, vars
  <2> DEFINE verdict == VerifyHashes(inspector.manifest, inspector.version, report)
  <2>2. inspector' = [inspector EXCEPT !.at = "idle", !.reply = verdict]
    BY <1>6 DEF HashReport
  <2>3. verdict \in {"UNVERIFIABLE", "VALID", "CORRUPT"}
    BY HashVerdicts
  <2> HIDE DEF verdict
  <2>4. InspectorType'
    BY <2>2, <2>3
  <2>5. inspector'.manifest = inspector.manifest /\ inspector.at = "reportHash"
    BY <1>6, <2>2 DEF HashReport
  <2>6. ReadLast'
    BY <2>1, <2>5 DEF ReadLast
  <2> QED
    BY <1>1, <2>4, <2>6
<1> QED
  BY <1>2, <1>3, <1>4, <1>5, <1>6 DEF StoreNext, Inspector, storeVars

THEOREM StoreInvariance == StoreSpec => []StoreInv
<1>1. StoreInit => StoreInv
  <2> SUFFICES ASSUME StoreInit PROVE StoreInv
    OBVIOUS
  <2>1. RunInv
    BY InitInv DEF StoreInit
  <2>2. InspectorType /\ ReadLast
    BY DEF StoreInit, NotRead, InspectorType, ReadLast
  <2> QED
    BY <2>1, <2>2 DEF StoreInv
<1>2. StoreInv /\ [StoreNext]_storeVars => StoreInv'
  BY StoreNextInv
<1> QED
  BY <1>1, <1>2, PTL DEF StoreSpec

\* The types of the run and of what the inspector has read of it.
THEOREM StoreTypeCorrect == StoreSpec => []StoreTypeOK
<1>1. StoreInv => StoreTypeOK
  BY DEF StoreInv, RunInv, InspectorType, StoreTypeOK
<1> QED
  BY <1>1, StoreInvariance, PTL

\* VALID is the last word on a run, although verify_run reads three files one
\* after the other while another process writes them.
THEOREM ValidVerdictIsFinal == StoreSpec => ValidIsFinal
<1>1. StoreInv /\ [StoreNext]_storeVars =>
        [inspector.reply = "VALID" /\ UNCHANGED inspector =>
            /\ Inspect(inspector.manifest, comparison) = "COMPLETE"
            /\ UNCHANGED <<manifest, comparison, report>>]_storeVars
  <2> SUFFICES ASSUME StoreInv, [StoreNext]_storeVars,
                      inspector.reply = "VALID", UNCHANGED inspector
               PROVE  /\ Inspect(inspector.manifest, comparison) = "COMPLETE"
                      /\ UNCHANGED <<manifest, comparison, report>>
    OBVIOUS
  <2>1. /\ pc = "returned"
        /\ inspector.manifest = manifest
        /\ Inspect(manifest, comparison) = "COMPLETE"
    BY DEF StoreInv, ReadLast
  <2>2. [Next]_vars
    BY DEF StoreNext, storeVars, Inspector, ReadManifest, ReadComparison, HashComparison,
           HashReport
  <2> QED
    BY <2>1, <2>2, ReturnedIsFinal
<1> QED
  BY <1>1, StoreInvariance, PTL DEF StoreSpec, ValidIsFinal
=============================================================================
