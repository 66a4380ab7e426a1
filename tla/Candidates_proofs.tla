--------------------------- MODULE Candidates_proofs ---------------------------
(***************************************************************************)
(* Each native candidate implements CandidateContract, attributes its      *)
(* citations and redacts its workspace, for any number of documents,       *)
(* questions and cleanups.                                                 *)
(***************************************************************************)
EXTENDS Candidates, TLAPS, SequenceTheorems

Kinds == {mem0, llmWiki, gbrain}

\* The variables that decide whether native state is left is a yes or no
Typed == kind \in Kinds /\ home \in BOOLEAN

\* The stages before the first step of run()
Before == {"entering", "constructing", "ready"}

\* A question is answered before it is counted.
Mem0Counts ==
    /\ observed \in 0..Queries
    /\ stage = "running" /\ mpc \in {"answer", "answerRetry"} => observed < Queries

\* Memories are gone for good once delete_all was verified.
Mem0Deletes ==
    /\ mpc = "close" => deleted
    /\ deleted => memories = <<>> /\ stage \in {"cleaning", "cleaned"}
    /\ stage \in Before => mpc = "none" /\ memories = <<>>

Mems == [docs : SUBSET DocIds, last : DocIds, meta : BOOLEAN, named : BOOLEAN,
         passed : BOOLEAN]

\* A memory's source is unknown, or a document that went into it, or else one not
\* before those, when the adapter had passed on and nothing named the memory.  Up to
\* now the documents went to n.
Tracked(m, src, n) ==
    /\ m.last \in m.docs
    /\ \A d \in m.docs : d <= n
    /\ src # 0 => /\ src \in m.docs \/ (m.passed /\ ~m.named)
                  /\ \E d \in m.docs : d <= src

Tracking(mems, srcs, n) ==
    /\ mems \in Seq(Mems) /\ srcs \in Seq(0..Docs)
    /\ Len(srcs) = Len(mems)
    /\ \A i \in 1..Len(mems) : Tracked(mems[i], srcs[i], n)

\* A memory without a source was not named, and was passed on unless get_all comes
\* next, for a document that went into it.
Owed(m, src, pc, d) == src = 0 => ~m.named /\ (m.passed \/ (pc = "map" /\ d \in m.docs))

\* A call that raised may have stored a memory whose name was lost, but then the run
\* is over.
Owing == stage = "running" =>
             \A i \in 1..Len(memories) : Owed(memories[i], sources[i], mpc, doc)

Mem0Attributes ==
    /\ doc \in DocIds
    /\ Tracking(memories, sources, doc)
    /\ Owing

\* How many questions are answered when the operation that comes next is n
AnsweredBefore(n) ==
    IF n <= Docs + 2 THEN 0 ELSE IF n <= Docs + 2 + Queries THEN n - (Docs + 2) ELSE Queries

\* Every native operation up to the next one has returned; all of them have
\* when the loop ends with the adapter's status OK.
WikiCounts ==
    /\ operation \in 1..(W!Operations + 1)
    /\ observed = AnsweredBefore(operation)
    /\ wpc \in {"ready", "called"} => operation <= W!Operations
    /\ nativeOk /\ wpc \in {"home", "redact", "seal", "result"} =>
          operation = W!Operations + 1
    /\ stage \in Before \/ wpc \in {"validate", "cache", "workspace"} => operation = 1

\* A credential is in a text file of the workspace only between a call and a
\* redaction, and in a response only between a call and its return.
WikiRedacts ==
    /\ stage \in Before \/ wpc \in {"validate", "cache", "workspace"} => secrets = {}
    /\ wpc \in {"seal", "result"} => secrets \subseteq W!Undecodable
    /\ wpc \in {"ready", "home", "redact", "seal", "result"} /\ nativeOk =>
          "rawResponse" \notin secrets
    /\ stage # "running" => wpc = "none"
    /\ wpc \in {"redact", "seal", "result"} => ~runHome
    /\ stage \in Before \/ (stage = "running" /\ wpc # "result") => ~sealed
    /\ W!WikiRedactionHolds

\* The questions answered are those whose last surface has returned.
GBrainCounts ==
    /\ mode \in G!Modes
    /\ command \in Nat /\ observed \in 0..Queries
    /\ stage \in Before \/ gpc \in {"checkout", "prepare"} => command = 1 /\ observed = 0
    /\ gpc = "command" =>
          /\ command <= G!Last
          /\ IF G!Asked <= 1 THEN observed = 0
             ELSE /\ Len(G!Surfaces) * observed <= G!Asked - 1
                  /\ G!Asked - 1 < Len(G!Surfaces) * observed + Len(G!Surfaces)

Mem0Inv   == Mem0Counts /\ Mem0Deletes /\ Mem0Attributes
WikiInv   == WikiCounts /\ WikiRedacts
GBrainInv == GBrainCounts

IInv ==
    /\ Typed
    /\ IF kind = mem0 THEN Mem0Inv ELSE memories = <<>>
    /\ IF kind = llmWiki THEN WikiInv ELSE W!WikiRedactionHolds /\ secrets = {} /\ ~sealed
    /\ kind = gbrain => GBrainInv

-----------------------------------------------------------------------------
(* What a step of a candidate is to the orchestrator *)

\* Whether native state is left is a yes or no, for each candidate.
LEMMA ResidueIsBoolean ==
    ASSUME Typed
    PROVE  Residue \in BOOLEAN
<1>1. CASE kind = mem0
    BY <1>1, KindAssumption DEF Residue, M!Mem0Residue
<1>2. CASE kind = llmWiki
    BY <1>2, KindAssumption DEF Residue, W!WikiResidue
<1>3. CASE kind = gbrain
    BY <1>3, KindAssumption DEF Typed, Residue, G!GBrainResidue
<1> QED BY <1>1, <1>2, <1>3 DEF Typed, Kinds

LEMMA NextResidueIsBoolean ==
    ASSUME Typed'
    PROVE  Residue' \in BOOLEAN
<1>1. CASE kind' = mem0
    BY <1>1, KindAssumption DEF Residue, M!Mem0Residue
<1>2. CASE kind' = llmWiki
    BY <1>2, KindAssumption DEF Residue, W!WikiResidue
<1>3. CASE kind' = gbrain
    BY <1>3, KindAssumption DEF Typed, Residue, G!GBrainResidue
<1> QED BY <1>1, <1>2, <1>3 DEF Typed, Kinds

\* Only five variables tell.
LEMMA ResidueStays ==
    ASSUME Typed,
           UNCHANGED <<kind, memories, openHandles, paths, workspace, home>>
    PROVE  Residue' = Residue
BY KindAssumption DEF Typed, Kinds, Residue, M!Mem0Residue, W!WikiResidue, G!GBrainResidue

\* A run may end with this outcome: only one that is OK and answered every
\* question is eligible.
LEMMA OutcomeIsAllowed ==
    ASSUME NEW s \in Contract!Statuses, NEW n \in 0..Queries, NEW e \in BOOLEAN,
           e => s = "OK" /\ n = Queries
    PROVE  [status |-> s, answered |-> n, eligible |-> e] \in Contract!Outcomes
BY DEF Contract!Outcomes

\* A run that ends, or raises before its first step, finishes.
LEMMA EndFinishes ==
    ASSUME Typed', stage \in {"ready", "running"},
           NEW s \in Contract!Statuses, NEW n \in 0..Queries, NEW e \in BOOLEAN,
           e => s = "OK" /\ n = Queries,
           Ends(s, n, e)
    PROVE  Contract!Next
<1>1. outcome' \in Contract!Outcomes
    BY OutcomeIsAllowed DEF Ends
<1>2. Residue' \in BOOLEAN
    BY NextResidueIsBoolean
<1> QED BY <1>1, <1>2 DEF Ends, Contract!Next, Contract!Finish

\* One without answers never is eligible.
LEMMA StopFinishes ==
    ASSUME Typed', stage \in {"ready", "running"},
           NEW s \in Contract!Statuses, Stops(s)
    PROVE  Contract!Next
<1>1. 0 \in 0..Queries
    BY CandidateAssumption
<1> QED BY <1>1, EndFinishes DEF Stops

\* One that goes on changes nothing the orchestrator sees but the native state.
LEMMA GoingIsWork ==
    ASSUME Typed', stage \in {"constructing", "running", "cleaning"}, Goes
    PROVE  Contract!Next
<1>1. Residue' \in BOOLEAN
    BY NextResidueIsBoolean
<1> QED BY <1>1 DEF Goes, Contract!Next, Contract!Work

\* The signal, and what leaves all a receipt vouches for alone, is a stutter.
LEMMA QuietStutters ==
    ASSUME Typed,
           UNCHANGED <<kind, memories, openHandles, paths, workspace, home>>,
           UNCHANGED <<stage, outcome, receipt, proxy>>
    PROVE  UNCHANGED Contract!contractVars
BY ResidueStays DEF Contract!contractVars

\* The proxies start, or one of them fails.
LEMMA EnterEnters ==
    ASSUME Typed,
           UNCHANGED <<kind, memories, openHandles, paths, workspace, home>>,
           EnterProxy \/ EnterFails
    PROVE  Contract!Next
BY ResidueStays DEF EnterProxy, EnterFails, Contract!Next, Contract!Enter

\* The adapters are constructed, or all proxies closed.
LEMMA ConstructionConstructs ==
    ASSUME Typed', Constructed \/ Abandon
    PROVE  Contract!Next
BY NextResidueIsBoolean DEF Constructed, Abandon, Contract!Next, Contract!Construct

LEMMA StartStarts ==
    ASSUME Typed,
           UNCHANGED <<kind, memories, openHandles, paths, workspace, home>>,
           NEW s \in Contract!Statuses, Start(s)
    PROVE  Contract!Next
<1>1. CASE token
    <2>1. outcome' = [status |-> s, answered |-> 0, eligible |-> FALSE]
        BY <1>1 DEF Start, NotRun
    <2>2. 0 \in 0..Queries /\ FALSE \in BOOLEAN
        BY CandidateAssumption
    <2>3. outcome' \in Contract!Outcomes
        BY <2>1, <2>2, OutcomeIsAllowed
    <2>4. Residue' \in BOOLEAN
        BY NextResidueIsBoolean DEF Typed
    <2> QED BY <1>1, <2>3, <2>4 DEF Start, Contract!Next, Contract!Finish
<1>2. CASE ~token
    BY <1>2, ResidueStays DEF Start, Contract!Next, Contract!Start
<1> QED BY <1>1, <1>2

LEMMA CleanupBegins ==
    ASSUME Typed,
           UNCHANGED <<kind, memories, openHandles, paths, workspace, home>>,
           BeginCleanup
    PROVE  Contract!Next
BY ResidueStays DEF BeginCleanup, Contract!Next, Contract!BeginCleanup

\* A complete receipt is given when nothing is left.
LEMMA CleanupEnds ==
    ASSUME Typed',
           NEW r \in Contract!Receipts, EndCleanup(r),
           r = "complete" => ~Residue'
    PROVE  Contract!Next
<1>1. Residue' \in BOOLEAN
    BY NextResidueIsBoolean
<1> QED BY <1>1 DEF EndCleanup, Contract!Next, Contract!EndCleanup

LEMMA StepTyped ==
    ASSUME Typed, [Next]_vars
    PROVE  Typed'
<1>1. CASE GBrainStep
    <2> SUFFICES ASSUME G!GBrainNext PROVE home' \in BOOLEAN
        BY <1>1 DEF GBrainStep, Typed
    <2> USE DEF Typed
    <2>1. CASE G!GBrainEnvironment
        BY <2>1 DEF G!GBrainEnvironment, G!OtherRun, G!gbrainVars
    <2>2. CASE G!GBrainConstructed \/ G!GBrainAbandoned \/ G!GBrainStart
               \/ G!GBrainInterrupt \/ G!GBrainBeginCleanup
        BY <2>2 DEF G!GBrainConstructed, G!GBrainAbandoned, G!GBrainStart,
                    G!GBrainInterrupt, G!GBrainBeginCleanup, G!gbrainVars
    <2>3. CASE G!GBrainWork
        BY <2>3 DEF G!GBrainWork, G!EnsureCheckout, G!CheckoutFails, G!Prepare,
                    G!PrepareFails, G!CommandReturns, G!CommandFails, G!Results,
                    G!GBrainCleaned, G!GBrainCleanupFails
    <2> QED BY <2>1, <2>2, <2>3 DEF G!GBrainNext
<1>2. CASE Mem0Step \/ WikiStep \/ UNCHANGED vars
    BY <1>2 DEF Mem0Step, WikiStep, vars, gbrainVars, Typed
<1> QED BY <1>1, <1>2 DEF Next

-----------------------------------------------------------------------------
(* Mem0Candidate implements the contract. *)

LEMMA Mem0Simulates ==
    ASSUME IInv, Typed', Mem0Step
    PROVE  [Contract!Next]_Contract!contractVars
<1> USE DEF Contract!Statuses
<1>1. Typed /\ kind = mem0 /\ kind' = mem0 /\ M!Mem0Next /\ Mem0Inv
      /\ UNCHANGED <<kind, workspace, home>>
    BY DEF IInv, Mem0Step, gbrainVars, wikiVars
<1>2. observed \in 0..Queries
    BY <1>1 DEF Mem0Inv, Mem0Counts
<1>3. CASE M!Mem0Environment
    <2>1. UNCHANGED <<memories, openHandles, paths>>
          /\ (EnterProxy \/ EnterFails \/ Signal)
        BY <1>3 DEF M!Mem0Environment, M!mem0Vars, M!EnterProxy, EnterProxy,
                    M!EnterFails, EnterFails, M!Signal, Signal, M!Over, Over
    <2>2. CASE EnterProxy \/ EnterFails
        BY <1>1, <2>1, <2>2, EnterEnters
    <2>3. CASE Signal
        BY <1>1, <2>1, <2>3, QuietStutters DEF Signal
    <2> QED BY <2>1, <2>2, <2>3
<1>4. CASE M!Mem0Constructed \/ M!Mem0Abandoned
    <2>1. Constructed \/ Abandon
        BY <1>4 DEF M!Mem0Constructed, M!Mem0Abandoned, M!Constructed, Constructed,
                    M!Abandon, Abandon
    <2> QED BY <2>1, ConstructionConstructs
<1>5. CASE M!Mem0Start
    <2> DEFINE s == IF exceeded THEN "BUDGET_EXCEEDED" ELSE "CANCELLED"
    <2>1. UNCHANGED <<memories, openHandles, paths>> /\ Start(s)
        BY <1>5 DEF M!Mem0Start, M!Start, Start, M!NotRun, NotRun
    <2>2. s \in Contract!Statuses
        OBVIOUS
    <2> HIDE DEF s
    <2> QED BY <1>1, <2>1, <2>2, StartStarts
<1>6. CASE M!Mem0Interrupt
    BY <1>6, StopFinishes DEF M!Mem0Interrupt, M!Stops, M!Ends, Stops, Ends
<1>7. CASE M!Mem0BeginCleanup
    <2>1. UNCHANGED <<memories, openHandles, paths>> /\ BeginCleanup
        BY <1>7 DEF M!Mem0BeginCleanup, M!BeginCleanup, BeginCleanup
    <2> QED BY <1>1, <2>1, CleanupBegins
<1>8. ASSUME NEW s \in {"FAILED", "CANCELLED"}, M!Mem0Raises(s), stage = "running"
      PROVE  Contract!Next
    BY <1>8, StopFinishes DEF M!Mem0Raises, M!Stops, M!Ends, Stops, Ends
<1>9. CASE M!Mem0Ingest
    <2>1. CASE M!AddReturns \/ M!MapUnattributed \/ M!MapLost
        BY <2>1, GoingIsWork DEF M!AddReturns, M!MapUnattributed, M!MapLost, M!Goes, Goes
    <2>2. CASE M!AddRaises
        BY <1>8, <2>2 DEF M!AddRaises, M!Wrapped
    <2> QED BY <1>9, <2>1, <2>2 DEF M!Mem0Ingest
<1>10. CASE M!Mem0Query
    <2>1. CASE M!Search \/ M!Answer \/ M!AnswerRetry
        BY <2>1, GoingIsWork DEF M!Search, M!Answer, M!AnswerRetry, M!Goes, Goes
    <2>2. CASE M!QueryCancelled \/ M!SearchRaises \/ M!AnswerRaises
        BY <1>8, <2>2 DEF M!QueryCancelled, M!SearchRaises, M!AnswerRaises,
                          M!Mem0Fails, M!Wrapped
    <2>3. CASE M!AllAnswered
        <3>1. stage = "running" /\ observed = Queries
              /\ (Stops("BUDGET_EXCEEDED") \/ Ends("OK", observed, observed = Queries))
            BY <2>3 DEF M!AllAnswered, M!Stops, M!Ends, Stops, Ends
        <3>2. CASE Stops("BUDGET_EXCEEDED")
            BY <3>1, <3>2, StopFinishes
        <3>3. CASE Ends("OK", observed, observed = Queries)
            <4> DEFINE e == observed = Queries
            <4>1. e \in BOOLEAN /\ Ends("OK", observed, e) /\ (e => observed = Queries)
                BY <3>3
            <4> HIDE DEF e
            <4> QED BY <1>2, <3>1, <4>1, EndFinishes
        <3> QED BY <3>1, <3>2, <3>3
    <2> QED BY <1>10, <2>1, <2>2, <2>3 DEF M!Mem0Query
<1>11. CASE M!Mem0Cleanup
    <2>1. CASE M!DeleteAll \/ M!VerifyDeleted \/ M!CloseHandle \/ M!RemoveStore
        <3>1. stage = "cleaning" /\ Goes
            BY <2>1 DEF M!DeleteAll, M!VerifyDeleted, M!CloseHandle, M!RemoveStore,
                        M!runVars, Goes
        <3> QED BY <3>1, GoingIsWork
    <2>2. CASE M!Mem0Cleaned
        <3>1. EndCleanup("complete") /\ "complete" \in Contract!Receipts
            BY <2>2 DEF M!Mem0Cleaned, M!EndCleanup, EndCleanup, Contract!Receipts
        <3>2. memories' = <<>> /\ openHandles' = {} /\ paths' = {}
            BY <1>1, <2>2 DEF M!Mem0Cleaned, Mem0Inv, Mem0Deletes
        <3>3. ~Residue'
            BY <1>1, <3>2, KindAssumption DEF Residue, M!Mem0Residue
        <3> QED BY <3>1, <3>3, CleanupEnds
    <2>3. CASE M!Mem0CleanupRaises
        <3>1. EndCleanup("raised") /\ "raised" \in Contract!Receipts
            BY <2>3 DEF M!Mem0CleanupRaises, M!EndCleanup, EndCleanup, Contract!Receipts
        <3> QED BY <3>1, CleanupEnds
    <2> QED BY <1>11, <2>1, <2>2, <2>3 DEF M!Mem0Cleanup
<1> QED BY <1>1, <1>3, <1>4, <1>5, <1>6, <1>7, <1>9, <1>10, <1>11
        DEF M!Mem0Next, M!Mem0Work

-----------------------------------------------------------------------------
(* LLMWikiCandidate implements the contract. *)

\* An outcome of the wrapper is eligible only if every question was answered:
\* the operations have all returned when the status is still OK.
LEMMA WikiOutcomeIsAllowed ==
    ASSUME WikiInv, wpc = "result"
    PROVE  /\ observed \in 0..Queries
           /\ nativeOk => observed = Queries
<1>1. /\ operation \in 1..(W!Operations + 1) /\ observed = AnsweredBefore(operation)
      /\ nativeOk => operation = W!Operations + 1
    BY DEF WikiInv, WikiCounts
<1>2. Docs \in Nat /\ Queries \in Nat
    BY CandidateAssumption
<1> QED BY <1>1, <1>2 DEF AnsweredBefore, W!Operations

LEMMA WikiSimulates ==
    ASSUME IInv, Typed', WikiStep
    PROVE  [Contract!Next]_Contract!contractVars
<1> USE DEF Contract!Statuses
<1>1. Typed /\ kind = llmWiki /\ kind' = llmWiki /\ W!WikiNext /\ WikiInv
      /\ UNCHANGED <<kind, memories, openHandles, paths, home>>
    BY KindAssumption DEF IInv, WikiStep, gbrainVars, mem0Vars
<1>2. CASE W!WikiEnvironment
    <2>1. UNCHANGED workspace /\ (EnterProxy \/ EnterFails \/ Signal)
        BY <1>2 DEF W!WikiEnvironment, W!wikiVars, W!EnterProxy, EnterProxy,
                    W!EnterFails, EnterFails, W!Signal, Signal, W!Over, Over
    <2>2. CASE EnterProxy \/ EnterFails
        BY <1>1, <2>1, <2>2, EnterEnters
    <2>3. CASE Signal
        BY <1>1, <2>1, <2>3, QuietStutters DEF Signal
    <2> QED BY <2>1, <2>2, <2>3
<1>3. CASE W!WikiConstructed \/ W!WikiAbandoned
    <2>1. Constructed \/ Abandon
        BY <1>3 DEF W!WikiConstructed, W!WikiAbandoned, W!Constructed, Constructed,
                    W!Abandon, Abandon
    <2> QED BY <2>1, ConstructionConstructs
<1>4. CASE W!WikiStart
    <2>1. UNCHANGED workspace /\ Start("CANCELLED")
        BY <1>4 DEF W!WikiStart, W!Start, Start, W!NotRun, NotRun
    <2> QED BY <1>1, <2>1, StartStarts
<1>5. CASE W!WikiBeginCleanup
    <2>1. UNCHANGED workspace /\ BeginCleanup
        BY <1>5 DEF W!WikiBeginCleanup, W!wikiVars, W!BeginCleanup, BeginCleanup
    <2> QED BY <1>1, <2>1, CleanupBegins
<1>6. ASSUME NEW s \in {"FAILED", "CANCELLED", "BUDGET_EXCEEDED"}, W!Stops(s),
             stage = "running"
      PROVE  Contract!Next
    BY <1>6, StopFinishes DEF W!Stops, W!Ends, Stops, Ends
<1>7. CASE W!Validate \/ W!ToolReady \/ W!PrepareWorkspace \/ W!Invoke
           \/ W!InvokeReturns \/ W!InvokeUnwritten \/ W!RemoveHome \/ W!Redact \/ W!Seal
    <2>1. stage = "running" /\ Goes
        BY <1>7 DEF W!Validate, W!ToolReady, W!PrepareWorkspace, W!Invoke,
                    W!InvokeReturns, W!InvokeUnwritten, W!RemoveHome, W!Redact,
                    W!Seal, W!Goes, Goes
    <2> QED BY <2>1, GoingIsWork
<1>8. CASE W!Refuse \/ W!ToolFails \/ W!PrepareWorkspaceFails \/ W!InvokeRaises \/ W!Mishap
    BY <1>6, <1>8 DEF W!Refuse, W!ToolFails, W!PrepareWorkspaceFails, W!InvokeRaises,
                      W!Mishap, W!WikiEscapes
<1>9. CASE W!WikiResult
    <2>1. stage = "running" /\ wpc = "result"
        BY <1>9 DEF W!WikiResult
    <2>2. CASE token \/ exceeded
        BY <1>6, <1>9, <2>1, <2>2 DEF W!WikiResult
    <2>3. CASE ~token /\ ~exceeded
        <3> DEFINE s == IF nativeOk THEN "OK" ELSE "FAILED"
                   e == observed > 0 /\ nativeOk
        <3>1. Ends(s, observed, e)
            BY <1>9, <2>3 DEF W!WikiResult, W!Ends, Ends
        <3>2. observed \in 0..Queries /\ (nativeOk => observed = Queries)
            BY <1>1, <2>1, WikiOutcomeIsAllowed
        <3>3. s \in Contract!Statuses /\ (e => s = "OK" /\ observed = Queries)
            BY <3>2
        <3>4. e \in BOOLEAN
            OBVIOUS
        <3> HIDE DEF s, e
        <3> QED BY <2>1, <3>1, <3>2, <3>3, <3>4, EndFinishes
    <2> QED BY <2>2, <2>3
<1>10. CASE W!WikiCleaned
    <2>1. EndCleanup("complete") /\ "complete" \in Contract!Receipts
        BY <1>10 DEF W!WikiCleaned, W!EndCleanup, EndCleanup, Contract!Receipts
    <2>2. ~Residue'
        BY <1>1, <1>10, KindAssumption DEF W!WikiCleaned, Residue, W!WikiResidue
    <2> QED BY <2>1, <2>2, CleanupEnds
<1>11. CASE W!WikiCleanupFails
    <2>1. EndCleanup("incomplete") \/ EndCleanup("interrupted")
        BY <1>11 DEF W!WikiCleanupFails, W!EndCleanup, EndCleanup
    <2>2. "incomplete" \in Contract!Receipts /\ "interrupted" \in Contract!Receipts
        BY DEF Contract!Receipts
    <2> QED BY <2>1, <2>2, CleanupEnds
<1> QED BY <1>1, <1>2, <1>3, <1>4, <1>5, <1>7, <1>8, <1>9, <1>10, <1>11
        DEF W!WikiNext, W!WikiWork

-----------------------------------------------------------------------------
(* GBrainCandidate implements the contract. *)

LEMMA GBrainSimulates ==
    ASSUME IInv, Typed', GBrainStep
    PROVE  [Contract!Next]_Contract!contractVars
<1> USE DEF Contract!Statuses
<1>1. Typed /\ kind = gbrain /\ kind' = gbrain /\ G!GBrainNext /\ GBrainInv
      /\ UNCHANGED <<kind, memories, openHandles, paths, workspace>>
    BY DEF IInv, GBrainStep, wikiVars, mem0Vars
<1>2. CASE G!GBrainEnvironment
    <2>1. CASE G!OtherRun
        <3>1. UNCHANGED home /\ UNCHANGED <<stage, outcome, receipt, proxy>>
            BY <2>1 DEF G!OtherRun, G!runVars
        <3> QED BY <1>1, <3>1, QuietStutters
    <2>2. CASE ~G!OtherRun
        <3>1. UNCHANGED home /\ (EnterProxy \/ EnterFails \/ Signal)
            BY <1>2, <2>2 DEF G!GBrainEnvironment, G!gbrainVars, G!EnterProxy, EnterProxy,
                        G!EnterFails, EnterFails, G!Signal, Signal, G!Over, Over
        <3>2. CASE EnterProxy \/ EnterFails
            BY <1>1, <3>1, <3>2, EnterEnters
        <3>3. CASE Signal
            BY <1>1, <3>1, <3>3, QuietStutters DEF Signal
        <3> QED BY <3>1, <3>2, <3>3
    <2> QED BY <2>1, <2>2
<1>3. CASE G!GBrainConstructed \/ G!GBrainAbandoned
    <2>1. Constructed \/ Abandon
        BY <1>3 DEF G!GBrainConstructed, G!GBrainAbandoned, G!Constructed, Constructed,
                    G!Abandon, Abandon
    <2> QED BY <2>1, ConstructionConstructs
<1>4. CASE G!GBrainStart
    <2>1. UNCHANGED home /\ Start("CANCELLED")
        BY <1>4 DEF G!GBrainStart, G!Start, Start, G!NotRun, NotRun
    <2> QED BY <1>1, <2>1, StartStarts
<1>5. CASE G!GBrainBeginCleanup
    <2>1. UNCHANGED home /\ BeginCleanup
        BY <1>5 DEF G!GBrainBeginCleanup, G!gbrainVars, G!BeginCleanup, BeginCleanup
    <2> QED BY <1>1, <2>1, CleanupBegins
<1>6. ASSUME NEW s \in Contract!Statuses, G!Stops(s), stage = "running"
      PROVE  Contract!Next
    BY <1>6, StopFinishes DEF G!Stops, G!Ends, Stops, Ends
<1>7. CASE G!EnsureCheckout \/ G!Prepare \/ G!CommandReturns
    <2>1. stage = "running" /\ Goes
        BY <1>7 DEF G!EnsureCheckout, G!Prepare, G!CommandReturns, G!Goes, Goes
    <2> QED BY <2>1, GoingIsWork
<1>8. CASE G!GBrainInterrupt \/ G!CheckoutFails \/ G!PrepareFails \/ G!CommandFails
    BY <1>6, <1>8 DEF G!GBrainInterrupt, G!CheckoutFails, G!PrepareFails,
                      G!CommandFails, G!GBrainStops, G!Reasons
<1>9. CASE G!Results
    <2>1. stage = "running" /\ observed \in 0..Queries
        BY <1>1, <1>9 DEF G!Results, GBrainInv, GBrainCounts
    <2>2. CASE token \/ exceeded
        BY <1>6, <1>9, <2>1, <2>2 DEF G!Results
    <2>3. CASE ~token /\ ~exceeded
        <3> DEFINE e == mode # "keyword" /\ observed = Queries
        <3>1. Ends("OK", observed, e)
            BY <1>9, <2>3 DEF G!Results, G!Ends, Ends
        <3>2. e \in BOOLEAN /\ (e => observed = Queries)
            OBVIOUS
        <3> HIDE DEF e
        <3> QED BY <2>1, <3>1, <3>2, EndFinishes
    <2> QED BY <2>2, <2>3
<1>10. CASE G!GBrainCleaned
    <2> DEFINE r == IF home' THEN "incomplete" ELSE "complete"
    <2>1. EndCleanup(r)
        BY <1>10 DEF G!GBrainCleaned, G!EndCleanup, EndCleanup
    <2>2. r \in Contract!Receipts
        BY DEF Contract!Receipts
    <2>3. r = "complete" => ~Residue'
        BY <1>1, KindAssumption DEF Typed, Residue, G!GBrainResidue
    <2> HIDE DEF r
    <2> QED BY <2>1, <2>2, <2>3, CleanupEnds
<1>11. CASE G!GBrainCleanupFails
    <2>1. EndCleanup("incomplete") \/ EndCleanup("interrupted")
        BY <1>11 DEF G!GBrainCleanupFails, G!EndCleanup, EndCleanup
    <2>2. "incomplete" \in Contract!Receipts /\ "interrupted" \in Contract!Receipts
        BY DEF Contract!Receipts
    <2> QED BY <2>1, <2>2, CleanupEnds
<1> QED BY <1>1, <1>2, <1>3, <1>4, <1>5, <1>7, <1>8, <1>9, <1>10, <1>11
        DEF G!GBrainNext, G!GBrainWork

\* Whichever candidate is at hand
LEMMA StepSimulates ==
    ASSUME IInv, [Next]_vars
    PROVE  [Contract!Next]_Contract!contractVars
<1>1. Typed /\ Typed'
    BY StepTyped DEF IInv
<1>2. CASE UNCHANGED vars
    <2>1. UNCHANGED <<kind, memories, openHandles, paths, workspace, home>>
          /\ UNCHANGED <<stage, outcome, receipt, proxy>>
        BY <1>2 DEF vars, runVars, mem0Vars, wikiVars, gbrainVars
    <2> QED BY <1>1, <2>1, QuietStutters
<1> QED BY <1>1, <1>2, Mem0Simulates, WikiSimulates, GBrainSimulates DEF Next

LEMMA InitSimulates ==
    ASSUME Init
    PROVE  Contract!Init
<1>1. Typed
    BY DEF Init, G!GBrainInit, Typed, Kinds
<1>2. Residue \in BOOLEAN
    BY <1>1, ResidueIsBoolean
<1> QED BY <1>2 DEF Init, RunInit, NotRun, Contract!Init, Contract!NotRun

-----------------------------------------------------------------------------
(* The invariant of Mem0Candidate *)

\* An answer's document, whichever of the two the result names
LEMMA Mem0Attributed ==
    ASSUME Mem0Attributes
    PROVE  AttributionHolds
<1> SUFFICES ASSUME NEW i \in DOMAIN memories, M!SourceOf(i) # 0
             PROVE  /\ \/ M!SourceOf(i) \in memories[i].docs
                       \/ memories[i].passed /\ ~memories[i].named
                    /\ \E d \in memories[i].docs : d <= M!SourceOf(i)
    BY DEF AttributionHolds, M!Mem0AttributionHolds
<1>1. /\ i \in 1..Len(memories) /\ memories[i] \in Mems
      /\ Tracked(memories[i], sources[i], doc)
    BY DEF Mem0Attributes, Tracking
<1>2. CASE memories[i].meta
    <2>1. M!SourceOf(i) = memories[i].last
        BY <1>2 DEF M!SourceOf
    <2>2. memories[i].last \in memories[i].docs
        BY <1>1 DEF Tracked
    <2>3. memories[i].last <= memories[i].last
        BY <1>1, CandidateAssumption DEF Mems, DocIds
    <2> QED BY <2>1, <2>2, <2>3
<1>3. CASE ~memories[i].meta
    BY <1>1, <1>3 DEF M!SourceOf, Tracked
<1> QED BY <1>2, <1>3

\* A function on 1..n is a sequence of that length.
LEMMA ListIsSequence ==
    ASSUME NEW S, NEW n \in Nat, NEW f, f \in [1..n -> S]
    PROVE  f \in Seq(S) /\ Len(f) = n
<1>1. f \in Seq(S)
    BY SeqDef
<1> QED BY <1>1, LenProperties

\* A memory that has just been made
LEMMA NewIsTracked ==
    ASSUME doc \in DocIds, NEW meta \in BOOLEAN, NEW m, m = M!Memory(doc, meta)
    PROVE  m \in Mems /\ Tracked(m, 0, doc) /\ doc \in m.docs /\ ~m.named
BY CandidateAssumption DEF M!Memory, Mems, Tracked, DocIds

\* A memory that the document went into, too
LEMMA UpdatedIsTracked ==
    ASSUME doc \in DocIds, NEW m \in Mems, NEW src \in 0..Docs, Tracked(m, src, doc),
           NEW u, u = M!Updated(m, doc)
    PROVE  /\ u \in Mems /\ doc \in u.docs
           /\ u.named = m.named /\ u.passed = m.passed /\ Tracked(u, src, doc)
<1>1. /\ u.docs = m.docs \cup {doc} /\ u.last = doc
      /\ u.meta = m.meta /\ u.named = m.named /\ u.passed = m.passed /\ u \in Mems
    BY DEF Mems, M!Updated
<1>2. doc <= doc /\ m.docs \in SUBSET DocIds
    BY CandidateAssumption DEF DocIds, Mems
<1> QED BY <1>1, <1>2 DEF Tracked

\* A document that goes to the next one, or stays
LEMMA StillTracked ==
    ASSUME NEW m \in Mems, NEW n \in Nat, NEW k \in Nat, n <= k, NEW src,
           Tracked(m, src, n)
    PROVE  Tracked(m, src, k)
BY DEF Tracked, Mems, DocIds

LEMMA StillTracking ==
    ASSUME NEW mems, NEW srcs, NEW n \in Nat, NEW k \in Nat, n <= k,
           Tracking(mems, srcs, n)
    PROVE  Tracking(mems, srcs, k)
BY StillTracked DEF Tracking

\* That a response named a memory, or the adapter passed on, changes nothing else
\* of the memory.
LEMMA MarkedIsMemory ==
    ASSUME NEW m \in Mems
    PROVE  /\ M!Named(m) \in Mems /\ M!Named(m).named
           /\ M!Named(m).docs = m.docs /\ M!Named(m).last = m.last
           /\ M!Passed(m) \in Mems /\ M!Passed(m).passed /\ M!Passed(m).named = m.named
           /\ M!Passed(m).docs = m.docs /\ M!Passed(m).last = m.last
BY DEF M!Named, M!Passed, Mems

\* The memory passed on is tracked as it was.
LEMMA PassedIsTracked ==
    ASSUME NEW m \in Mems, NEW src, NEW n, Tracked(m, src, n), src = 0
    PROVE  Tracked(M!Passed(m), src, n)
BY MarkedIsMemory DEF Tracked

\* The number of memories after a call, and what is known of each of them: it has
\* the source it had, and if it had none it was passed on or the document went into
\* it.
LEMMA TouchIsTracked ==
    ASSUME Mem0Attributes, NEW effect \in M!Effects
    PROVE  /\ M!Count(effect) \in Nat
           /\ \A i \in 1..M!Count(effect) :
                 /\ M!Touch(effect, i) \in Mems /\ M!SourceSoFar(i) \in 0..Docs
                 /\ Tracked(M!Touch(effect, i), M!SourceSoFar(i), doc)
                 /\ i \in effect.named => doc \in M!Touch(effect, i).docs
                 /\ stage = "running" /\ mpc # "map" =>
                       Owed(M!Touch(effect, i), M!SourceSoFar(i), "map", doc)
<1> DEFINE n == Len(memories)
<1>1. memories \in Seq(Mems) /\ sources \in Seq(0..Docs) /\ n \in Nat /\ Len(sources) = n
      /\ doc \in DocIds
    BY DEF Mem0Attributes, Tracking
<1>2. \A i \in 1..n : /\ memories[i] \in Mems /\ sources[i] \in 0..Docs
                      /\ Tracked(memories[i], sources[i], doc)
                      /\ M!SourceSoFar(i) = sources[i]
                      /\ stage = "running" => Owed(memories[i], sources[i], mpc, doc)
    <2>1. \A i \in 1..n : memories[i] \in Mems
        BY <1>1
    <2>2. \A i \in 1..n : sources[i] \in 0..Docs
        BY <1>1, ElementOfSeq
    <2>3. \A i \in 1..n : M!SourceSoFar(i) = sources[i]
        BY <1>1 DEF M!SourceSoFar
    <2> QED BY <2>1, <2>2, <2>3 DEF Mem0Attributes, Tracking, Owing
<1>3. PICK k \in 0..(MaxMemories - n) :
        effect.made \in [1..k -> BOOLEAN] /\ effect.updated \in SUBSET (DOMAIN memories)
        /\ effect.named \in SUBSET M!Touched(effect.made, effect.updated)
    BY DEF M!Effects, M!Makings
<1>4. k \in Nat /\ Len(effect.made) = k
    <2>1. k \in Nat
        BY <1>1, <1>3, MemoryAssumption
    <2> QED BY <1>3, <2>1, ListIsSequence
<1>5. M!Count(effect) = n + k
    BY <1>4 DEF M!Count
<1>6. ASSUME NEW i \in 1..(n + k), i > n
      PROVE  /\ M!Touch(effect, i) \in Mems /\ M!SourceSoFar(i) = 0
             /\ Tracked(M!Touch(effect, i), 0, doc)
             /\ doc \in M!Touch(effect, i).docs /\ ~M!Touch(effect, i).named
    <2> DEFINE meta == effect.made[i - n]
    <2>1. meta \in BOOLEAN
        BY <1>1, <1>3, <1>4, <1>6
    <2>2. M!Touch(effect, i) = M!Memory(doc, meta)
        BY <1>6 DEF M!Touch
    <2>3. M!SourceSoFar(i) = 0
        BY <1>1, <1>6 DEF M!SourceSoFar
    <2> HIDE DEF meta
    <2> QED BY <1>1, <2>1, <2>2, <2>3, NewIsTracked
<1>7. ASSUME NEW i \in 1..n, i \in effect.updated
      PROVE  /\ M!Touch(effect, i) \in Mems /\ doc \in M!Touch(effect, i).docs
             /\ M!Touch(effect, i).named = memories[i].named
             /\ Tracked(M!Touch(effect, i), sources[i], doc)
    <2>1. M!Touch(effect, i) = M!Updated(memories[i], doc)
        BY <1>1, <1>7 DEF M!Touch
    <2> QED BY <1>1, <1>2, <2>1, UpdatedIsTracked
<1>8. ASSUME NEW i \in 1..n, i \notin effect.updated
      PROVE  M!Touch(effect, i) = memories[i] /\ i \notin effect.named
    <2>1. M!Touch(effect, i) = memories[i]
        BY <1>1, <1>8 DEF M!Touch
    <2>2. i \notin effect.named
        BY <1>1, <1>3, <1>4, <1>8 DEF M!Touched
    <2> QED BY <2>1, <2>2
<1>9. ASSUME NEW i \in 1..(n + k)
      PROVE  /\ M!Touch(effect, i) \in Mems /\ M!SourceSoFar(i) \in 0..Docs
             /\ Tracked(M!Touch(effect, i), M!SourceSoFar(i), doc)
             /\ i \in effect.named => doc \in M!Touch(effect, i).docs
             /\ stage = "running" /\ mpc # "map" =>
                   Owed(M!Touch(effect, i), M!SourceSoFar(i), "map", doc)
    <2>1. CASE i > n
        BY <1>6, <2>1, CandidateAssumption DEF Owed
    <2>2. CASE i \in 1..n /\ i \in effect.updated
        BY <1>2, <1>7, <2>2 DEF Owed
    <2>3. CASE i \in 1..n /\ i \notin effect.updated
        BY <1>2, <1>8, <2>3 DEF Owed
    <2> QED BY <1>1, <1>4, <2>1, <2>2, <2>3
<1> QED BY <1>1, <1>4, <1>5, <1>9

\* The loop goes to the next document, or to the questions.
LEMMA NextDocIsLater ==
    ASSUME doc \in DocIds, M!NextDoc \/ UNCHANGED doc
    PROVE  doc' \in DocIds /\ doc \in Nat /\ doc' \in Nat /\ doc <= doc'
BY CandidateAssumption DEF DocIds, M!NextDoc

\* The ids the response of add names are attributed to the document.  The memories
\* without a source are passed on, or get_all comes next.
LEMMA AddAttributes ==
    ASSUME Mem0Attributes, stage = "running", mpc # "map", NEW effect \in M!Effects,
           memories' = M!Remembered(effect), sources' = M!Attributed(effect),
           doc' \in DocIds, doc \in Nat, doc' \in Nat, doc <= doc',
           \/ effect.named # {}
           \/ mpc' = "map" /\ UNCHANGED doc
           \/ effect = M!NoEffect /\ UNCHANGED doc
    PROVE  Mem0Attributes'
<1> DEFINE n == M!Count(effect)
           m(i) == M!Touch(effect, i)
           src(i) == M!SourceSoFar(i)
<1>1. /\ n \in Nat
      /\ \A i \in 1..n : /\ m(i) \in Mems /\ src(i) \in 0..Docs
                         /\ Tracked(m(i), src(i), doc)
                         /\ i \in effect.named => doc \in m(i).docs
                         /\ Owed(m(i), src(i), "map", doc)
    BY TouchIsTracked
<1>2. doc \in DocIds /\ doc \in 0..Docs /\ doc # 0
    BY CandidateAssumption DEF Mem0Attributes, DocIds
<1>3. /\ DOMAIN memories' = 1..n
      /\ \A i \in 1..n : memories'[i] = IF i \in effect.named THEN M!Named(m(i))
                                        ELSE IF effect.named # {} /\ src(i) = 0
                                        THEN M!Passed(m(i)) ELSE m(i)
    BY DEF M!Remembered
<1>4. /\ DOMAIN sources' = 1..n
      /\ \A i \in 1..n : sources'[i] = IF i \in effect.named THEN doc ELSE src(i)
    BY DEF M!Attributed
<1>5. \A i \in 1..n : memories'[i] \in Mems /\ sources'[i] \in 0..Docs
    BY <1>1, <1>2, <1>3, <1>4, MarkedIsMemory
<1>6. memories' \in Seq(Mems) /\ Len(memories') = n
    <2>1. memories' \in [1..n -> Mems]
        BY <1>3, <1>5 DEF M!Remembered
    <2> QED BY <1>1, <2>1, ListIsSequence
<1>7. sources' \in Seq(0..Docs) /\ Len(sources') = n
    <2>1. sources' \in [1..n -> 0..Docs]
        BY <1>4, <1>5 DEF M!Attributed
    <2> QED BY <1>1, <2>1, ListIsSequence
<1>8. ASSUME NEW i \in 1..n
      PROVE  Tracked(memories'[i], sources'[i], doc)
    <2>1. CASE i \in effect.named
        <3>1. memories'[i] = M!Named(m(i)) /\ sources'[i] = doc
            BY <1>3, <1>4, <2>1
        <3>2. doc <= doc /\ doc \in m(i).docs
            BY <1>1, <2>1
        <3>3. M!Named(m(i)).docs = m(i).docs /\ M!Named(m(i)).last = m(i).last
            BY <1>1, MarkedIsMemory
        <3>4. m(i).last \in m(i).docs /\ \A d \in m(i).docs : d <= doc
            BY <1>1 DEF Tracked
        <3> HIDE DEF m
        <3> QED BY <3>1, <3>2, <3>3, <3>4 DEF Tracked
    <2>2. CASE i \notin effect.named /\ effect.named # {} /\ src(i) = 0
        <3>1. memories'[i] = M!Passed(m(i)) /\ sources'[i] = src(i)
            BY <1>3, <1>4, <2>2
        <3>2. m(i) \in Mems /\ Tracked(m(i), src(i), doc) /\ src(i) = 0
            BY <1>1, <2>2
        <3> HIDE DEF m, src
        <3> QED BY <3>1, <3>2, PassedIsTracked
    <2>3. CASE i \notin effect.named /\ ~(effect.named # {} /\ src(i) = 0)
        BY <1>1, <1>3, <1>4, <2>3
    <2> QED BY <2>1, <2>2, <2>3
<1>9. Tracking(memories', sources', doc')
    <2>1. Tracking(memories', sources', doc)
        BY <1>6, <1>7, <1>8 DEF Tracking
    <2> QED BY <2>1, StillTracking
<1>10. ASSUME NEW i \in 1..n
       PROVE  Owed(memories'[i], sources'[i], mpc', doc')
    <2>1. CASE i \in effect.named
        BY <1>2, <1>4, <2>1 DEF Owed
    <2>2. CASE i \notin effect.named /\ src(i) # 0
        BY <1>4, <2>2 DEF Owed
    <2>3. CASE i \notin effect.named /\ effect.named # {} /\ src(i) = 0
        <3>1. memories'[i] = M!Passed(m(i)) /\ m(i) \in Mems /\ ~m(i).named
            BY <1>1, <1>3, <2>3 DEF Owed
        <3> HIDE DEF m
        <3> QED BY <3>1, MarkedIsMemory DEF Owed
    <2>4. CASE effect.named = {} /\ src(i) = 0 /\ mpc' = "map" /\ UNCHANGED doc
        BY <1>1, <1>3, <1>4, <2>4 DEF Owed
    <2>5. CASE effect.named = {} /\ src(i) = 0 /\ effect = M!NoEffect
        <3>1. effect.made = <<>> /\ effect.updated = {} /\ effect.named = {}
            BY <2>5 DEF M!NoEffect
        <3>2. n = Len(memories) /\ Len(memories) \in Nat /\ Len(sources) = Len(memories)
              /\ sources \in Seq(0..Docs)
            BY <3>1 DEF M!Count, Mem0Attributes, Tracking
        <3>3. memories'[i] = memories[i] /\ sources'[i] = sources[i]
            BY <1>3, <1>4, <3>1, <3>2 DEF M!Touch, M!SourceSoFar
        <3>4. Owed(memories[i], sources[i], mpc, doc)
            BY <3>2 DEF Mem0Attributes, Owing
        <3> QED BY <3>3, <3>4 DEF Owed
    <2> QED BY <2>1, <2>2, <2>3, <2>4, <2>5
<1> QED BY <1>6, <1>9, <1>10 DEF Mem0Attributes, Owing

\* What a call that raised has stored has no source.
LEMMA RaisedIsTracked ==
    ASSUME Mem0Attributes, NEW mems,
           mems = memories \/ \E effect \in M!Effects : mems = M!Stored(effect),
           NEW srcs, srcs = [i \in DOMAIN mems |-> M!SourceSoFar(i)]
    PROVE  Tracking(mems, srcs, doc)
<1>1. memories \in Seq(Mems) /\ sources \in Seq(0..Docs) /\ Len(memories) \in Nat
      /\ Len(sources) = Len(memories)
    BY DEF Mem0Attributes, Tracking
<1>2. ASSUME NEW effect \in M!Effects, mems = M!Stored(effect)
      PROVE  Tracking(mems, srcs, doc)
    <2> DEFINE n == M!Count(effect)
    <2>1. n \in Nat /\ \A i \in 1..n : /\ M!Touch(effect, i) \in Mems
                                      /\ M!SourceSoFar(i) \in 0..Docs
                                      /\ Tracked(M!Touch(effect, i), M!SourceSoFar(i), doc)
        BY TouchIsTracked
    <2>2. mems \in [1..n -> Mems] /\ \A i \in 1..n : mems[i] = M!Touch(effect, i)
        BY <1>2, <2>1 DEF M!Stored
    <2>3. srcs \in [1..n -> 0..Docs] /\ \A i \in 1..n : srcs[i] = M!SourceSoFar(i)
        BY <2>1, <2>2
    <2>4. /\ mems \in Seq(Mems) /\ Len(mems) = n
          /\ srcs \in Seq(0..Docs) /\ Len(srcs) = n
        BY <2>1, <2>2, <2>3, ListIsSequence
    <2> QED BY <2>1, <2>2, <2>3, <2>4 DEF Tracking
<1>3. CASE mems = memories
    <2>1. \A i \in 1..Len(memories) : sources[i] \in 0..Docs
        BY <1>1, ElementOfSeq
    <2>2. DOMAIN srcs = 1..Len(memories) /\ \A i \in 1..Len(memories) : srcs[i] = sources[i]
        BY <1>1, <1>3 DEF M!SourceSoFar
    <2>3. srcs \in [1..Len(memories) -> 0..Docs]
        BY <2>1, <2>2
    <2>4. srcs \in Seq(0..Docs) /\ Len(srcs) = Len(memories)
        BY <1>1, <2>3, ListIsSequence
    <2> QED BY <1>1, <1>3, <2>2, <2>4 DEF Mem0Attributes, Tracking
<1> QED BY <1>2, <1>3

\* Every memory without a source goes to the document: it was passed on without
\* having been named, or the document went into it.
LEMMA MapAttributes ==
    ASSUME Mem0Attributes, stage = "running", UNCHANGED memories,
           sources' = [i \in DOMAIN sources |-> IF sources[i] = 0 THEN doc ELSE sources[i]],
           doc' \in DocIds, doc <= doc'
    PROVE  Mem0Attributes'
<1> DEFINE n == Len(memories)
<1>1. memories \in Seq(Mems) /\ sources \in Seq(0..Docs) /\ n \in Nat /\ Len(sources) = n
    BY DEF Mem0Attributes, Tracking
<1>2. doc \in 0..Docs /\ doc # 0 /\ doc \in Nat /\ doc' \in Nat
    BY CandidateAssumption DEF Mem0Attributes, DocIds
<1>3. \A i \in 1..n : Owed(memories[i], sources[i], mpc, doc)
    BY DEF Mem0Attributes, Owing
<1>4. \A i \in 1..n : sources[i] \in 0..Docs
    BY <1>1, ElementOfSeq
<1>5. /\ DOMAIN sources' = 1..n
      /\ \A i \in 1..n : sources'[i] = IF sources[i] = 0 THEN doc ELSE sources[i]
    BY <1>1
<1>6. sources' \in Seq(0..Docs) /\ Len(sources') = n
    <2>1. sources' \in [1..n -> 0..Docs]
        BY <1>2, <1>4, <1>5
    <2> QED BY <1>1, <2>1, ListIsSequence
<1>7. ASSUME NEW i \in 1..n PROVE Tracked(memories[i], sources'[i], doc)
    <2>1. Tracked(memories[i], sources[i], doc) /\ memories[i] \in Mems
        BY <1>1 DEF Mem0Attributes, Tracking
    <2>2. CASE sources[i] # 0
        BY <1>5, <1>7, <2>1, <2>2
    <2>3. CASE sources[i] = 0
        <3>1. sources'[i] = doc
            BY <1>5, <1>7, <2>3
        <3>2. doc \in memories[i].docs \/ (memories[i].passed /\ ~memories[i].named)
            BY <1>3, <1>7, <2>3 DEF Owed
        <3>3. memories[i].last \in memories[i].docs /\ memories[i].last <= doc
            BY <2>1 DEF Tracked
        <3> QED BY <2>1, <3>1, <3>2, <3>3 DEF Tracked
    <2> QED BY <2>2, <2>3
<1>8. Tracking(memories', sources', doc)
    BY <1>1, <1>6, <1>7 DEF Tracking
<1>9. Tracking(memories', sources', doc')
    BY <1>2, <1>8, StillTracking
<1>10. \A i \in 1..n : sources'[i] # 0
    BY <1>2, <1>5
<1> QED BY <1>9, <1>10 DEF Mem0Attributes, Owing, Owed

\* Nothing is known of the store: what has no source is passed on.
LEMMA LostAttributes ==
    ASSUME Mem0Attributes, stage = "running", UNCHANGED sources,
           memories' = [i \in DOMAIN memories |->
                           IF sources[i] = 0 THEN M!Passed(memories[i]) ELSE memories[i]],
           doc' \in DocIds, doc \in Nat, doc' \in Nat, doc <= doc'
    PROVE  Mem0Attributes'
<1> DEFINE n == Len(memories)
<1>1. /\ memories \in Seq(Mems) /\ n \in Nat /\ sources \in Seq(0..Docs)
      /\ Len(sources) = n
      /\ \A i \in 1..n : /\ Tracked(memories[i], sources[i], doc)
                         /\ Owed(memories[i], sources[i], mpc, doc)
    BY DEF Mem0Attributes, Tracking, Owing
<1>2. \A i \in 1..n : memories[i] \in Mems
    BY <1>1
<1>3. /\ DOMAIN memories' = 1..n
      /\ \A i \in 1..n : memories'[i] = IF sources[i] = 0 THEN M!Passed(memories[i])
                                        ELSE memories[i]
    BY <1>1
<1>4. memories' \in Seq(Mems) /\ Len(memories') = n
    <2>1. \A i \in 1..n : memories'[i] \in Mems
        BY <1>2, <1>3, MarkedIsMemory
    <2>2. memories' \in [1..n -> Mems]
        BY <1>1, <1>3, <2>1
    <2> QED BY <1>1, <2>2, ListIsSequence
<1>5. ASSUME NEW i \in 1..n
      PROVE  /\ Tracked(memories'[i], sources[i], doc)
             /\ Owed(memories'[i], sources[i], mpc', doc')
    <2>1. CASE sources[i] = 0
        <3>1. memories'[i] = M!Passed(memories[i]) /\ ~memories[i].named
            BY <1>1, <1>3, <2>1 DEF Owed
        <3>2. Tracked(memories'[i], sources[i], doc)
            BY <1>1, <1>2, <2>1, <3>1, PassedIsTracked
        <3>3. memories'[i].passed /\ memories'[i].named = memories[i].named
            BY <1>2, <3>1, MarkedIsMemory
        <3> QED BY <3>1, <3>2, <3>3 DEF Owed
    <2>2. CASE sources[i] # 0
        BY <1>1, <1>3, <2>2 DEF Owed
    <2> QED BY <2>1, <2>2
<1>6. Tracking(memories', sources', doc)
    BY <1>1, <1>4, <1>5 DEF Tracking
<1>7. Tracking(memories', sources', doc')
    BY <1>6, StillTracking
<1> QED BY <1>4, <1>5, <1>7 DEF Mem0Attributes, Owing

\* The steps that leave the store and its sources alone
LEMMA ElsewhereAttributes ==
    ASSUME Mem0Attributes, UNCHANGED <<doc, memories, sources>>,
           stage' = "running" => stage = "running" /\ (UNCHANGED mpc \/ mpc # "map")
    PROVE  Mem0Attributes'
<1>1. doc' \in DocIds /\ Tracking(memories', sources', doc')
    BY DEF Mem0Attributes
<1>2. Owing'
    BY DEF Mem0Attributes, Owing, Owed
<1> QED BY <1>1, <1>2 DEF Mem0Attributes

LEMMA Mem0AttributesStep ==
    ASSUME Mem0Inv, M!Mem0Next
    PROVE  Mem0Attributes'
<1>1. Mem0Attributes /\ doc \in DocIds
    BY DEF Mem0Inv, Mem0Attributes
<1>2. CASE M!Mem0Environment \/ M!Mem0Constructed \/ M!Mem0Abandoned \/ M!Mem0Interrupt
           \/ M!Mem0BeginCleanup
    <2>1. UNCHANGED <<doc, memories, sources>>
        BY <1>2 DEF M!Mem0Environment, M!mem0Vars, M!Mem0Constructed, M!Mem0Abandoned,
                    M!Mem0Interrupt, M!Mem0BeginCleanup
    <2>2. stage' = "running" => stage = "running" /\ UNCHANGED mpc
        BY <1>2 DEF M!Mem0Environment, M!mem0Vars, M!EnterProxy, M!EnterFails, M!Signal,
                    M!Mem0Constructed, M!Constructed, M!Mem0Abandoned, M!Abandon,
                    M!Mem0Interrupt, M!Stops, M!Ends, M!Mem0BeginCleanup,
                    M!BeginCleanup
    <2> QED BY <1>1, <2>1, <2>2, ElsewhereAttributes
<1>3. CASE M!Mem0Start
    <2>1. UNCHANGED <<doc, memories, sources>> /\ stage = "ready"
        BY <1>3 DEF M!Mem0Start, M!Start
    <2>2. memories = <<>>
        BY <2>1 DEF Mem0Inv, Mem0Deletes, Before
    <2> QED BY <1>1, <2>1, <2>2 DEF Mem0Attributes, Owing
<1>4. CASE M!Mem0Query
    <2>1. UNCHANGED <<doc, memories, sources>> /\ stage = "running" /\ mpc # "map"
        BY <1>4 DEF M!Mem0Query, M!QueryCancelled, M!AllAnswered, M!Search, M!SearchRaises,
                    M!Answer, M!AnswerRetry, M!AnswerRaises, M!Mem0Fails
    <2> QED BY <1>1, <2>1, ElsewhereAttributes
<1>5. CASE M!AddReturns
    <2>1. PICK effect \in M!Effects : /\ memories' = M!Remembered(effect)
                                      /\ sources' = M!Attributed(effect)
                                      /\ \/ effect = M!NoEffect /\ UNCHANGED doc
                                         \/ effect.named # {} /\ M!NextDoc
                                         \/ mpc' = "map" /\ UNCHANGED doc
        BY <1>5 DEF M!AddReturns
    <2>2. doc' \in DocIds /\ doc \in Nat /\ doc' \in Nat /\ doc <= doc'
        BY <1>1, <2>1, NextDocIsLater
    <2>3. stage = "running" /\ mpc # "map"
        BY <1>5 DEF M!AddReturns
    <2> QED BY <1>1, <2>1, <2>2, <2>3, AddAttributes
<1>6. CASE M!AddRaises
    <2>1. /\ UNCHANGED doc /\ stage' = "ran"
          /\ sources' = [i \in DOMAIN memories' |-> M!SourceSoFar(i)]
        BY <1>6 DEF M!AddRaises, M!Mem0Raises, M!Stops, M!Ends
    <2>2. memories' = memories \/ \E effect \in M!Effects : memories' = M!Stored(effect)
        BY <1>6 DEF M!AddRaises
    <2>3. Tracking(memories', sources', doc)
        BY <1>1, <2>1, <2>2, RaisedIsTracked
    <2> QED BY <1>1, <2>1, <2>3 DEF Mem0Attributes, Owing
<1>7. CASE M!MapUnattributed
    <2>1. doc' \in DocIds /\ doc <= doc'
        BY <1>1, <1>7, NextDocIsLater DEF M!MapUnattributed
    <2> QED BY <1>1, <1>7, <2>1, MapAttributes DEF M!MapUnattributed
<1>8. CASE M!MapLost
    <2>1. doc' \in DocIds /\ doc \in Nat /\ doc' \in Nat /\ doc <= doc'
        BY <1>1, <1>8, NextDocIsLater DEF M!MapLost
    <2> QED BY <1>1, <1>8, <2>1, LostAttributes DEF M!MapLost
<1>9. CASE M!DeleteAll
    <2>1. UNCHANGED doc /\ stage' = "cleaning"
          /\ (UNCHANGED <<memories, sources>> \/ (memories' = <<>> /\ sources' = <<>>))
        BY <1>9 DEF M!DeleteAll, M!runVars
    <2>2. CASE UNCHANGED <<memories, sources>>
        BY <1>1, <2>1, <2>2, ElsewhereAttributes
    <2>3. CASE memories' = <<>> /\ sources' = <<>>
        <3>1. <<>> \in Seq(Mems) /\ <<>> \in Seq(0..Docs) /\ Len(<<>>) = 0
            BY EmptySeq
        <3> QED BY <1>1, <2>1, <2>3, <3>1 DEF Mem0Attributes, Tracking, Owing
    <2> QED BY <2>1, <2>2, <2>3
<1>10. CASE M!VerifyDeleted \/ M!CloseHandle \/ M!RemoveStore \/ M!Mem0Cleaned
            \/ M!Mem0CleanupRaises
    <2>1. UNCHANGED <<doc, memories, sources>>
        BY <1>10 DEF M!VerifyDeleted, M!CloseHandle, M!RemoveStore, M!Mem0Cleaned,
                     M!Mem0CleanupRaises
    <2>2. stage' # "running"
        BY <1>10 DEF M!VerifyDeleted, M!CloseHandle, M!RemoveStore, M!Mem0Cleaned,
                     M!Mem0CleanupRaises, M!EndCleanup, M!runVars
    <2> QED BY <1>1, <2>1, <2>2, ElsewhereAttributes
<1> QED BY <1>2, <1>3, <1>4, <1>5, <1>6, <1>7, <1>8, <1>9, <1>10
        DEF M!Mem0Next, M!Mem0Work, M!Mem0Ingest, M!Mem0Cleanup

\* Answers are counted one by one, each after the question it is for.
LEMMA Mem0CountsStep ==
    ASSUME Mem0Inv, M!Mem0Next
    PROVE  Mem0Counts'
<1>1. /\ observed \in 0..Queries /\ Queries \in Nat
      /\ stage = "running" /\ mpc \in {"answer", "answerRetry"} => observed < Queries
      /\ stage \in Before => mpc = "none"
    BY CandidateAssumption DEF Mem0Inv, Mem0Counts, Mem0Deletes
<1>2. CASE M!Mem0Environment \/ M!Mem0Constructed \/ M!Mem0Abandoned
           \/ M!Mem0Interrupt \/ M!Mem0BeginCleanup \/ M!Mem0Cleanup
    <2>1. UNCHANGED observed
        BY <1>2 DEF M!Mem0Environment, M!EnterProxy, M!EnterFails, M!Signal,
                    M!Mem0Constructed, M!Constructed, M!Mem0Abandoned, M!Abandon,
                    M!Mem0Interrupt, M!Stops, M!Ends,
                    M!Mem0BeginCleanup, M!BeginCleanup, M!Mem0Cleanup,
                    M!DeleteAll, M!VerifyDeleted, M!CloseHandle, M!RemoveStore,
                    M!Mem0Cleaned, M!Mem0CleanupRaises, M!EndCleanup, M!runVars
    <2>2. stage' # "running" \/ UNCHANGED <<stage, mpc>>
        BY <1>2 DEF M!Mem0Environment, M!EnterProxy, M!EnterFails, M!Signal, M!mem0Vars,
                    M!Mem0Constructed, M!Constructed, M!Mem0Abandoned, M!Abandon,
                    M!Mem0Interrupt, M!Stops, M!Ends,
                    M!Mem0BeginCleanup, M!BeginCleanup, M!Mem0Cleanup,
                    M!DeleteAll, M!VerifyDeleted, M!CloseHandle, M!RemoveStore,
                    M!Mem0Cleaned, M!Mem0CleanupRaises, M!EndCleanup, M!runVars
    <2> QED BY <1>1, <2>1, <2>2 DEF Mem0Counts
<1>3. CASE M!Mem0Start
    BY <1>1, <1>3 DEF M!Mem0Start, M!Start, Mem0Counts
<1>4. CASE M!Mem0Ingest
    <2>1. UNCHANGED observed
        BY <1>4 DEF M!Mem0Ingest, M!AddReturns, M!AddRaises, M!MapUnattributed, M!MapLost,
                    M!Mem0Raises, M!Stops, M!Ends
    <2>2. mpc' \notin {"answer", "answerRetry"}
        BY <1>4 DEF M!Mem0Ingest, M!AddReturns, M!AddRaises, M!MapUnattributed, M!MapLost,
                    M!NextDoc
    <2> QED BY <1>1, <2>1, <2>2 DEF Mem0Counts
<1>5. CASE M!QueryCancelled \/ M!AllAnswered \/ M!SearchRaises \/ M!AnswerRaises
    <2>1. UNCHANGED observed /\ mpc' = "none"
        BY <1>5 DEF M!QueryCancelled, M!AllAnswered, M!SearchRaises, M!AnswerRaises,
                    M!Mem0Fails, M!Mem0Raises, M!Stops, M!Ends
    <2> QED BY <1>1, <2>1 DEF Mem0Counts
<1>6. CASE M!Search \/ M!AnswerRetry
    <2>1. UNCHANGED observed /\ observed < Queries
        BY <1>1, <1>6 DEF M!Search, M!AnswerRetry
    <2> QED BY <1>1, <2>1 DEF Mem0Counts
<1>7. CASE M!Answer
    <2>1. observed < Queries /\ observed' = observed + 1 /\ mpc' = "query"
        BY <1>1, <1>7 DEF M!Answer
    <2> QED BY <1>1, <2>1 DEF Mem0Counts
<1> QED BY <1>2, <1>3, <1>4, <1>5, <1>6, <1>7 DEF M!Mem0Next, M!Mem0Work, M!Mem0Query

\* Only an empty store is taken for deleted, and nothing is added to it any more.
LEMMA Mem0DeletesStep ==
    ASSUME Mem0Inv, M!Mem0Next
    PROVE  Mem0Deletes'
<1>1. /\ mpc = "close" => deleted
      /\ deleted => memories = <<>> /\ stage \in {"cleaning", "cleaned"}
      /\ stage \in Before => mpc = "none" /\ memories = <<>>
    BY DEF Mem0Inv, Mem0Deletes
<1> USE DEF Before
<1>2. CASE M!Mem0Environment \/ M!Mem0Constructed \/ M!Mem0Abandoned
    <2>1. UNCHANGED <<mpc, deleted, memories>>
        BY <1>2 DEF M!Mem0Environment, M!mem0Vars, M!Mem0Constructed, M!Mem0Abandoned
    <2>2. UNCHANGED stage \/ stage \in Before
        BY <1>2 DEF M!Mem0Environment, M!EnterProxy, M!EnterFails, M!Signal,
                    M!Mem0Constructed, M!Constructed, M!Mem0Abandoned, M!Abandon
    <2>3. stage' \in Before => stage \in Before
        BY <1>2 DEF M!Mem0Environment, M!EnterProxy, M!EnterFails, M!Signal,
                    M!Mem0Constructed, M!Constructed, M!Mem0Abandoned, M!Abandon
    <2> QED BY <1>1, <2>1, <2>2, <2>3 DEF Mem0Deletes
<1>3. CASE M!Mem0Start
    BY <1>1, <1>3 DEF M!Mem0Start, M!Start, Mem0Deletes
<1>4. CASE M!Mem0Interrupt \/ M!Mem0Ingest \/ M!Mem0Query
    <2>1. stage = "running" /\ UNCHANGED deleted
        BY <1>4 DEF M!Mem0Interrupt, M!Mem0Ingest, M!Mem0Query, M!AddReturns, M!AddRaises,
                    M!MapUnattributed, M!MapLost, M!QueryCancelled, M!AllAnswered, M!Search,
                    M!SearchRaises, M!Answer, M!AnswerRetry, M!AnswerRaises, M!Mem0Fails
    <2>2. stage' \in {"running", "ran"}
        BY <1>4 DEF M!Mem0Interrupt, M!Mem0Ingest, M!Mem0Query, M!AddReturns, M!AddRaises,
                    M!MapUnattributed, M!MapLost, M!QueryCancelled, M!AllAnswered, M!Search,
                    M!SearchRaises, M!Answer, M!AnswerRetry, M!AnswerRaises, M!Mem0Fails,
                    M!Goes, M!Mem0Raises, M!Stops, M!Ends
    <2>3. mpc' # "close"
        BY <1>4 DEF M!Mem0Interrupt, M!Mem0Ingest, M!Mem0Query, M!AddReturns, M!AddRaises,
                    M!MapUnattributed, M!MapLost, M!QueryCancelled, M!AllAnswered, M!Search,
                    M!SearchRaises, M!Answer, M!AnswerRetry, M!AnswerRaises, M!Mem0Fails,
                    M!NextDoc
    <2> QED BY <1>1, <2>1, <2>2, <2>3 DEF Mem0Deletes
<1>5. CASE M!Mem0BeginCleanup
    BY <1>1, <1>5 DEF M!Mem0BeginCleanup, M!BeginCleanup, Mem0Deletes
<1>6. CASE M!DeleteAll
    BY <1>1, <1>6 DEF M!DeleteAll, M!runVars, Mem0Deletes
<1>7. CASE M!VerifyDeleted
    BY <1>1, <1>7 DEF M!VerifyDeleted, M!runVars, Mem0Deletes
<1>8. CASE M!CloseHandle \/ M!RemoveStore
    BY <1>1, <1>8 DEF M!CloseHandle, M!RemoveStore, M!runVars, Mem0Deletes
<1>9. CASE M!Mem0Cleaned \/ M!Mem0CleanupRaises
    BY <1>1, <1>9 DEF M!Mem0Cleaned, M!Mem0CleanupRaises, M!EndCleanup, Mem0Deletes
<1> QED BY <1>2, <1>3, <1>4, <1>5, <1>6, <1>7, <1>8, <1>9
        DEF M!Mem0Next, M!Mem0Work, M!Mem0Cleanup

-----------------------------------------------------------------------------
(* The invariant of LLMWikiCandidate *)

\* A question is answered when the operation that is its query returns.
LEMMA QueryAnswers ==
    ASSUME NEW n \in 1..W!Operations
    PROVE  /\ AnsweredBefore(n) \in Nat
           /\ AnsweredBefore(n + 1) =
                 IF W!IsQuery(n) THEN AnsweredBefore(n) + 1 ELSE AnsweredBefore(n)
<1>1. Docs \in Nat /\ Queries \in Nat /\ Queries # 0 /\ n \in Nat
    BY CandidateAssumption DEF W!Operations
<1> QED BY <1>1 DEF AnsweredBefore, W!IsQuery, W!Operations

LEMMA WikiCountsStep ==
    ASSUME WikiInv, W!WikiNext
    PROVE  WikiCounts'
<1> DEFINE n == W!Operations
           End == {"home", "redact", "seal", "result"}
           First == {"validate", "cache", "workspace"}
<1>1. /\ operation \in 1..(n + 1) /\ observed = AnsweredBefore(operation)
      /\ wpc \in {"ready", "called"} => operation <= n
      /\ nativeOk /\ wpc \in End => operation = n + 1
      /\ stage \in Before \/ wpc \in First => operation = 1
      /\ stage # "running" => wpc = "none"
    BY DEF WikiInv, WikiCounts, WikiRedacts
<1>2. n \in Nat /\ 1 <= n
    BY CandidateAssumption DEF W!Operations
<1>3. ASSUME UNCHANGED <<operation, nativeOk, observed>>, wpc' = "none",
             stage' \notin Before \/ stage \in Before
      PROVE  WikiCounts'
    BY <1>1, <1>3 DEF WikiCounts, AnsweredBefore, W!Operations
<1>4. CASE W!WikiEnvironment \/ W!WikiConstructed \/ W!WikiAbandoned
    <2>1. UNCHANGED <<operation, nativeOk, observed, wpc>>
        BY <1>4 DEF W!WikiEnvironment, W!EnterProxy, W!EnterFails, W!Signal, W!wikiVars,
                    W!WikiConstructed, W!Constructed, W!WikiAbandoned, W!Abandon
    <2>2. stage' \notin Before \/ stage \in Before
        BY <1>4 DEF W!WikiEnvironment, W!EnterProxy, W!EnterFails, W!Signal, Before,
                    W!WikiConstructed, W!Constructed, W!WikiAbandoned, W!Abandon
    <2> QED BY <1>1, <2>1, <2>2 DEF WikiCounts, AnsweredBefore, W!Operations
<1>5. CASE W!WikiStart
    <2>1. UNCHANGED <<operation, nativeOk, observed>> /\ wpc' \in {"none", "validate"}
          /\ stage \in Before
        BY <1>5 DEF W!WikiStart, W!Start, Before
    <2> QED BY <1>1, <1>2, <2>1 DEF WikiCounts, AnsweredBefore, W!Operations
<1>6. CASE W!WikiBeginCleanup \/ W!WikiCleaned \/ W!WikiCleanupFails
    <2>1. UNCHANGED <<operation, nativeOk, observed, wpc>> /\ stage' \notin Before
          /\ stage # "running"
        BY <1>6 DEF W!WikiBeginCleanup, W!BeginCleanup, W!wikiVars, W!WikiCleaned,
                    W!WikiCleanupFails, W!EndCleanup, Before
    <2> QED BY <1>1, <1>3, <2>1
<1>7. CASE W!Mishap \/ W!Refuse \/ W!ToolFails \/ W!PrepareWorkspaceFails
           \/ W!InvokeRaises \/ W!WikiResult
    <2>1. UNCHANGED <<operation, nativeOk, observed>> /\ wpc' = "none" /\ stage' = "ran"
        BY <1>7 DEF W!Mishap, W!Refuse, W!ToolFails, W!PrepareWorkspaceFails,
                    W!InvokeRaises, W!WikiResult, W!WikiEscapes, W!Stops, W!Ends
    <2> QED BY <1>3, <2>1 DEF Before
<1>8. CASE W!Validate \/ W!ToolReady \/ W!PrepareWorkspace
    <2>1. /\ UNCHANGED <<operation, nativeOk, observed, stage>> /\ stage = "running"
          /\ wpc \in First /\ wpc' \in {"cache", "workspace", "ready"}
        BY <1>8 DEF W!Validate, W!ToolReady, W!PrepareWorkspace, W!Goes, W!Quiet
    <2> QED BY <1>1, <1>2, <2>1 DEF WikiCounts, AnsweredBefore, W!Operations
<1>9. CASE W!Invoke
    <2>1. /\ UNCHANGED <<operation, nativeOk, observed, stage>> /\ stage = "running"
          /\ wpc' = "called" /\ operation <= n
        BY <1>9 DEF W!Invoke, W!Goes, W!Quiet
    <2> QED BY <1>1, <2>1 DEF WikiCounts, AnsweredBefore, W!Operations, Before
<1>10. CASE W!InvokeUnwritten
    <2>1. /\ UNCHANGED <<operation, observed, stage>> /\ stage = "running"
          /\ wpc' = "home" /\ nativeOk' = FALSE
        BY <1>10 DEF W!InvokeUnwritten, W!Goes
    <2> QED BY <1>1, <2>1 DEF WikiCounts, AnsweredBefore, W!Operations, Before
<1>11. CASE W!InvokeReturns
    <2>1. stage = "running" /\ stage' = "running" /\ operation \in 1..n
          /\ wpc' = IF nativeOk' /\ operation' <= n THEN "ready" ELSE "home"
        BY <1>1, <1>2, <1>11 DEF W!InvokeReturns, W!Goes, W!Operations
    <2>2. CASE /\ operation' = operation + 1 /\ UNCHANGED nativeOk
               /\ observed' = IF W!IsQuery(operation) THEN observed + 1 ELSE observed
        <3>1. observed' = AnsweredBefore(operation')
            BY <1>1, <2>1, <2>2, QueryAnswers
        <3>2. operation' \in 1..(n + 1)
            BY <1>2, <2>1, <2>2
        <3>3. wpc' = "ready" => operation' <= n
            BY <2>1
        <3>4. nativeOk' /\ wpc' = "home" => operation' = n + 1
            BY <1>2, <2>1, <3>2
        <3> QED BY <2>1, <3>1, <3>2, <3>3, <3>4
                DEF WikiCounts, AnsweredBefore, W!Operations, Before
    <2>3. CASE nativeOk' = FALSE /\ UNCHANGED <<operation, observed>>
        <3>1. wpc' = "home"
            BY <2>1, <2>3
        <3> QED BY <1>1, <2>1, <2>3, <3>1 DEF WikiCounts, AnsweredBefore, W!Operations, Before
    <2> QED BY <1>11, <2>2, <2>3 DEF W!InvokeReturns
<1>12. CASE W!RemoveHome \/ W!Redact \/ W!Seal
    <2>1. /\ UNCHANGED <<operation, nativeOk, observed, stage>> /\ stage = "running"
          /\ wpc \in End /\ wpc' \in End
        BY <1>12 DEF W!RemoveHome, W!Redact, W!Seal, W!Goes, W!Quiet
    <2> QED BY <1>1, <2>1 DEF WikiCounts, AnsweredBefore, W!Operations, Before
<1> QED BY <1>4, <1>5, <1>6, <1>7, <1>8, <1>9, <1>10, <1>11, <1>12
        DEF W!WikiNext, W!WikiWork

\* What a redaction of the workspace leaves is not text.
LEMMA RedactionLeaves ==
    ASSUME NEW found
    PROVE  /\ W!RedactWorkspace(found) \subseteq W!Undecodable
           /\ W!RedactWorkspace(found) \subseteq found
           /\ "rawResponse" \notin found \ W!CallFiles
BY DEF W!RedactWorkspace, W!CallFiles

LEMMA WikiRedactsStep ==
    ASSUME WikiInv, W!WikiNext
    PROVE  WikiRedacts'
<1> DEFINE First == {"validate", "cache", "workspace"}
           Back  == {"ready", "home", "redact", "seal", "result"}
<1>1. /\ stage \in Before \/ wpc \in First => secrets = {}
      /\ wpc \in {"seal", "result"} => secrets \subseteq W!Undecodable
      /\ wpc \in Back /\ nativeOk => "rawResponse" \notin secrets
      /\ stage # "running" => wpc = "none"
      /\ wpc \in {"redact", "seal", "result"} => ~runHome
      /\ stage \in Before \/ (stage = "running" /\ wpc # "result") => ~sealed
      /\ stage \in {"ran", "cleaning", "cleaned"} /\ ~mishap =>
            secrets \subseteq W!Undecodable /\ (nativeOk => "rawResponse" \notin secrets)
      /\ sealed => secrets \subseteq W!Undecodable /\ ~runHome
    BY DEF WikiInv, WikiRedacts, W!WikiRedactionHolds
<1> USE DEF Before
<1>2. CASE W!WikiEnvironment \/ W!WikiConstructed \/ W!WikiAbandoned
    <2>1. UNCHANGED <<wpc, nativeOk, runHome, secrets, sealed, mishap>>
        BY <1>2 DEF W!WikiEnvironment, W!wikiVars, W!WikiConstructed, W!WikiAbandoned
    <2>2. UNCHANGED stage \/ (stage \in Before /\ stage' \in {"constructing", "ready",
                                                            "abandoned", "leaked"})
        BY <1>2 DEF W!WikiEnvironment, W!EnterProxy, W!EnterFails, W!Signal,
                    W!WikiConstructed, W!Constructed, W!WikiAbandoned, W!Abandon
    <2> QED BY <1>1, <2>1, <2>2 DEF WikiRedacts, W!WikiRedactionHolds
<1>3. CASE W!WikiStart
    <2>1. /\ UNCHANGED <<runHome, secrets, sealed, mishap>> /\ stage \in Before
          /\ \/ stage' = "ran" /\ wpc' = "none"
             \/ stage' = "running" /\ wpc' = "validate"
        BY <1>3 DEF W!WikiStart, W!Start
    <2> QED BY <1>1, <2>1 DEF WikiRedacts, W!WikiRedactionHolds
<1>4. CASE W!WikiBeginCleanup
    <2>1. /\ UNCHANGED <<wpc, nativeOk, runHome, secrets, sealed, mishap>>
          /\ stage \in {"ready", "ran", "cleaned"} /\ stage' = "cleaning"
        BY <1>4 DEF W!WikiBeginCleanup, W!BeginCleanup, W!wikiVars
    <2> QED BY <1>1, <2>1 DEF WikiRedacts, W!WikiRedactionHolds
<1>5. CASE W!WikiCleaned
    <2>1. /\ UNCHANGED <<wpc, mishap>> /\ stage = "cleaning" /\ stage' = "cleaned"
          /\ runHome' = FALSE /\ secrets' = {} /\ sealed' = FALSE
        BY <1>5 DEF W!WikiCleaned, W!EndCleanup
    <2> QED BY <1>1, <2>1 DEF WikiRedacts, W!WikiRedactionHolds
<1>6. CASE W!WikiCleanupFails
    <2>1. /\ UNCHANGED <<wpc, nativeOk, mishap>> /\ stage = "cleaning" /\ stage' = "cleaned"
        BY <1>6 DEF W!WikiCleanupFails, W!EndCleanup
    <2>2. secrets' \subseteq secrets
        BY <1>6 DEF W!WikiCleanupFails
    <2>3. (~sealed => ~sealed') /\ (~runHome => ~runHome')
        <3>1. sealed' = FALSE \/ sealed' = sealed
            BY <1>6 DEF W!WikiCleanupFails
        <3>2. runHome' = FALSE \/ runHome' = runHome
            BY <1>6 DEF W!WikiCleanupFails
        <3> QED BY <3>1, <3>2
    <2> QED BY <1>1, <2>1, <2>2, <2>3 DEF WikiRedacts, W!WikiRedactionHolds
<1>7. CASE W!Refuse \/ W!ToolFails \/ W!PrepareWorkspaceFails
    <2>1. /\ wpc \in First /\ stage = "running"
          /\ stage' = "ran" /\ wpc' = "none" /\ UNCHANGED <<secrets, sealed, mishap>>
        BY <1>7 DEF W!Refuse, W!ToolFails, W!PrepareWorkspaceFails, W!WikiEscapes,
                    W!Stops, W!Ends
    <2> QED BY <1>1, <2>1 DEF WikiRedacts, W!WikiRedactionHolds
<1>8. CASE W!InvokeRaises \/ W!Mishap
    <2>1. /\ wpc # "result" /\ stage = "running"
          /\ stage' = "ran" /\ wpc' = "none" /\ UNCHANGED sealed
          /\ mishap' = TRUE \/ secrets' = W!RedactWorkspace(secrets \ W!CallFiles)
        BY <1>8 DEF W!InvokeRaises, W!Mishap, W!WikiEscapes, W!Stops, W!Ends
    <2>2. mishap' = TRUE \/ (secrets' \subseteq W!Undecodable /\ "rawResponse" \notin secrets')
        BY <2>1, RedactionLeaves
    <2> QED BY <1>1, <2>1, <2>2 DEF WikiRedacts, W!WikiRedactionHolds
<1>9. CASE W!WikiResult
    <2>1. /\ wpc = "result" /\ stage' = "ran" /\ wpc' = "none"
          /\ UNCHANGED <<nativeOk, secrets, sealed, mishap, runHome>>
        BY <1>9 DEF W!WikiResult, W!Stops, W!Ends
    <2> QED BY <1>1, <2>1 DEF WikiRedacts, W!WikiRedactionHolds
<1>10. CASE W!Validate \/ W!ToolReady \/ W!PrepareWorkspace
    <2>1. /\ wpc \in First /\ stage = "running"
          /\ stage' = "running" /\ wpc' \in {"cache", "workspace", "ready"}
          /\ UNCHANGED <<secrets, sealed, mishap>>
        BY <1>10 DEF W!Validate, W!ToolReady, W!PrepareWorkspace, W!Goes
    <2> QED BY <1>1, <2>1 DEF WikiRedacts, W!WikiRedactionHolds
<1>11. CASE W!Invoke \/ W!InvokeReturns \/ W!InvokeUnwritten
    <2>1. /\ wpc \in {"ready", "called"} /\ stage = "running"
          /\ stage' = "running" /\ wpc' \in {"called", "ready", "home"}
          /\ UNCHANGED <<sealed, mishap>>
        BY <1>11 DEF W!Invoke, W!InvokeReturns, W!InvokeUnwritten, W!Goes
    <2>2. \/ wpc' = "called"
          \/ nativeOk' = FALSE
          \/ secrets' = secrets \ W!CallFiles
        BY <1>11 DEF W!Invoke, W!InvokeReturns, W!InvokeUnwritten
    <2>3. wpc' \in Back /\ nativeOk' => "rawResponse" \notin secrets'
        BY <2>2, RedactionLeaves
    <2> QED BY <1>1, <2>1, <2>3 DEF WikiRedacts, W!WikiRedactionHolds
<1>12. CASE W!RemoveHome
    <2>1. /\ wpc = "home" /\ stage = "running" /\ stage' = "running" /\ wpc' = "redact"
          /\ runHome' = FALSE /\ UNCHANGED <<nativeOk, secrets, sealed, mishap>>
        BY <1>12 DEF W!RemoveHome, W!Goes
    <2> QED BY <1>1, <2>1 DEF WikiRedacts, W!WikiRedactionHolds
<1>13. CASE W!Redact
    <2>1. /\ wpc = "redact" /\ stage = "running" /\ stage' = "running" /\ wpc' = "seal"
          /\ secrets' = W!RedactWorkspace(secrets)
          /\ UNCHANGED <<nativeOk, runHome, sealed, mishap>>
        BY <1>13 DEF W!Redact, W!Goes, W!Quiet
    <2>2. secrets' \subseteq W!Undecodable /\ secrets' \subseteq secrets
        BY <2>1, RedactionLeaves
    <2> QED BY <1>1, <2>1, <2>2 DEF WikiRedacts, W!WikiRedactionHolds
<1>14. CASE W!Seal
    <2>1. /\ wpc = "seal" /\ stage = "running" /\ stage' = "running" /\ wpc' = "result"
          /\ sealed' = TRUE /\ UNCHANGED <<nativeOk, runHome, secrets, mishap>>
        BY <1>14 DEF W!Seal, W!Goes, W!Quiet
    <2> QED BY <1>1, <2>1 DEF WikiRedacts, W!WikiRedactionHolds
<1> QED BY <1>2, <1>3, <1>4, <1>5, <1>6, <1>7, <1>8, <1>9, <1>10, <1>11, <1>12, <1>13,
           <1>14 DEF W!WikiNext, W!WikiWork

-----------------------------------------------------------------------------
(* The invariant of GBrainCandidate *)

\* The last surface of a question is a multiple of their number.
LEMMA LastSurface ==
    ASSUME NEW k \in {1, 2, 3}, NEW a \in Nat, NEW o \in Nat,
           k * o <= a - 1, a - 1 < k * o + k
    PROVE  a % k = 0 <=> a = k * o + k
OBVIOUS

LEMMA GBrainCountsStep ==
    ASSUME GBrainInv, G!GBrainNext
    PROVE  GBrainInv'
<1> DEFINE k == Len(G!Surfaces)
<1>1. /\ mode \in G!Modes /\ command \in Nat /\ observed \in 0..Queries
      /\ stage \in Before \/ gpc \in {"checkout", "prepare"} => command = 1 /\ observed = 0
      /\ gpc = "command" =>
            /\ command <= G!Last
            /\ IF G!Asked <= 1 THEN observed = 0
               ELSE k * observed <= G!Asked - 1 /\ G!Asked - 1 < k * observed + k
    BY DEF GBrainInv, GBrainCounts
<1>2. k \in {1, 2, 3} /\ Len(G!Lifecycle) = 5
    BY <1>1 DEF G!Modes, G!Surfaces, G!Lifecycle
<1>3. Queries \in Nat /\ Queries # 0
    BY CandidateAssumption
<1>4. ASSUME UNCHANGED <<mode, command, observed>>,
             gpc' = gpc \/ gpc' \notin {"checkout", "prepare", "command"},
             stage' \notin Before \/ stage \in Before
      PROVE  GBrainInv'
    BY <1>1, <1>4 DEF GBrainInv, GBrainCounts, Before, G!Last, G!Asked, G!Surfaces
<1>5. CASE G!GBrainEnvironment \/ G!GBrainConstructed \/ G!GBrainAbandoned
           \/ G!GBrainBeginCleanup \/ G!GBrainCleaned \/ G!GBrainCleanupFails
    <2>1. UNCHANGED <<mode, command, observed, gpc>>
        BY <1>5 DEF G!GBrainEnvironment, G!EnterProxy, G!EnterFails, G!Signal, G!OtherRun,
                    G!runVars, G!gbrainVars, G!GBrainConstructed, G!Constructed,
                    G!GBrainAbandoned, G!Abandon, G!GBrainBeginCleanup, G!BeginCleanup,
                    G!GBrainCleaned, G!GBrainCleanupFails, G!EndCleanup
    <2>2. stage' \notin Before \/ stage \in Before
        BY <1>5 DEF G!GBrainEnvironment, G!EnterProxy, G!EnterFails, G!Signal, G!OtherRun,
                    G!runVars, G!GBrainConstructed, G!Constructed, Before,
                    G!GBrainAbandoned, G!Abandon, G!GBrainBeginCleanup, G!BeginCleanup,
                    G!GBrainCleaned, G!GBrainCleanupFails, G!EndCleanup
    <2> QED BY <1>4, <2>1, <2>2
<1>6. CASE G!GBrainInterrupt \/ G!CheckoutFails \/ G!PrepareFails \/ G!CommandFails
           \/ G!Results
    <2>1. UNCHANGED <<mode, command, observed>> /\ gpc' = "none" /\ stage' = "ran"
        BY <1>6 DEF G!GBrainInterrupt, G!CheckoutFails, G!PrepareFails, G!CommandFails,
                    G!Results, G!GBrainStops, G!Stops, G!Ends
    <2> QED BY <1>4, <2>1 DEF Before
<1>7. CASE G!GBrainStart \/ G!EnsureCheckout \/ G!Prepare
    <2>1. /\ UNCHANGED <<mode, command, observed>> /\ command = 1 /\ observed = 0
          /\ stage' \notin Before
        BY <1>1, <1>7 DEF G!GBrainStart, G!Start, G!EnsureCheckout, G!Prepare, G!Goes, Before
    <2>2. G!Asked' <= 1 /\ command' <= G!Last'
        <3>1. Queries * k \in Nat
            BY <1>2, <1>3
        <3> HIDE DEF k
        <3>2. G!Last' = 5 + Queries * k
            BY <1>2, <2>1 DEF G!Last, k, G!Surfaces, G!Lifecycle
        <3> QED BY <1>2, <2>1, <3>1, <3>2 DEF G!Asked, G!Lifecycle
    <2> QED BY <1>1, <2>1, <2>2 DEF GBrainInv, GBrainCounts
<1>8. CASE G!CommandReturns
    <2> DEFINE a == G!Asked
    <2>1. /\ stage' \notin Before /\ UNCHANGED mode /\ command' = command + 1
          /\ command <= G!Last /\ (gpc' = "command" => command # G!Last)
          /\ gpc' \in {"results", "command"}
          /\ observed' = IF a > 0 /\ a % k = 0 THEN observed + 1 ELSE observed
          /\ IF a <= 1 THEN observed = 0
             ELSE k * observed <= a - 1 /\ a - 1 < k * observed + k
        BY <1>1, <1>8 DEF G!CommandReturns, G!Concludes, G!Goes, Before
    <2>2. a \in Int /\ a = command - 5 /\ G!Last = 5 + Queries * k
        BY <1>1, <1>2 DEF G!Asked, G!Last
    <2>3. a <= Queries * k
        BY <1>1, <1>2, <1>3, <2>1, <2>2
    <2>4. /\ UNCHANGED G!Surfaces /\ G!Last' = G!Last /\ G!Asked' = a + 1
        BY <1>1, <1>2, <2>1 DEF G!Surfaces, G!Last, G!Asked, G!Lifecycle
    <2>5. /\ observed' \in 0..Queries
          /\ IF a + 1 <= 1 THEN observed' = 0
             ELSE k * observed' <= a /\ a < k * observed' + k
        <3> HIDE DEF k, a
        <3>1. CASE a <= 0
            BY <1>1, <2>1, <2>2, <3>1
        <3>2. CASE a > 0
            <4>1. a \in Nat /\ observed \in Nat
                  /\ k * observed <= a - 1 /\ a - 1 < k * observed + k
                BY <1>1, <1>2, <2>1, <2>2, <3>2
            <4>2. a % k = 0 <=> a = k * observed + k
                BY <1>2, <4>1, LastSurface
            <4>3. CASE a = k * observed + k
                <5>1. observed' = observed + 1
                    BY <2>1, <3>2, <4>2, <4>3
                <5> QED BY <1>1, <1>2, <1>3, <2>3, <3>2, <4>1, <4>3, <5>1
            <4>4. CASE a # k * observed + k
                <5>1. observed' = observed
                    BY <2>1, <3>2, <4>2, <4>4
                <5> QED BY <1>1, <1>2, <1>3, <3>2, <4>1, <4>4, <5>1
            <4> QED BY <4>3, <4>4
        <3> QED BY <2>2, <3>1, <3>2
    <2>6. gpc' = "command" => command' <= G!Last'
        <3>1. G!Last \in Int
            BY <1>2, <1>3, <2>2
        <3> QED BY <1>1, <2>1, <2>4, <3>1
    <2> QED BY <1>1, <2>1, <2>2, <2>4, <2>5, <2>6 DEF GBrainInv, GBrainCounts
<1> QED BY <1>5, <1>6, <1>7, <1>8 DEF G!GBrainNext, G!GBrainWork

-----------------------------------------------------------------------------
(* Theorems *)

LEMMA InitEstablishes ==
    ASSUME Init
    PROVE  IInv
<1>1. Docs \in Nat \ {0} /\ Queries \in Nat \ {0}
    BY CandidateAssumption
<1>2. kind \in Kinds /\ Typed
    BY DEF Init, G!GBrainInit, Typed, Kinds
<1>3. /\ stage = "entering" /\ observed = 0
      /\ mpc = "none" /\ doc = 1 /\ memories = <<>> /\ sources = <<>> /\ deleted = FALSE
      /\ wpc = "none" /\ operation = 1 /\ secrets = {} /\ sealed = FALSE
      /\ mode \in G!Modes /\ gpc = "none" /\ command = 1
    BY DEF Init, RunInit, M!Mem0Init, W!WikiInit, G!GBrainInit
<1>4. Mem0Inv
    <2>1. <<>> \in Seq(Mems) /\ <<>> \in Seq(0..Docs) /\ Len(<<>>) = 0
        BY EmptySeq
    <2>2. Mem0Attributes
        BY <1>1, <1>3, <2>1 DEF Mem0Attributes, Tracking, Owing, DocIds
    <2> QED BY <1>1, <1>3, <2>2 DEF Mem0Inv, Mem0Counts, Mem0Deletes
<1>5. WikiInv
    BY <1>1, <1>3 DEF WikiInv, WikiCounts, WikiRedacts, W!WikiRedactionHolds,
                      AnsweredBefore, W!Operations, Before
<1>6. GBrainInv
    BY <1>1, <1>3 DEF GBrainInv, GBrainCounts, Before
<1> QED BY <1>2, <1>3, <1>4, <1>5, <1>6 DEF IInv, W!WikiRedactionHolds

LEMMA StepPreserves ==
    ASSUME IInv, [Next]_vars
    PROVE  IInv'
<1>1. Typed'
    BY StepTyped DEF IInv
<1>2. CASE Mem0Step
    <2>1. kind = mem0 /\ kind' = mem0 /\ M!Mem0Next /\ Mem0Inv
        BY <1>2 DEF Mem0Step, IInv
    <2>2. Mem0Inv'
        BY <2>1, Mem0CountsStep, Mem0DeletesStep, Mem0AttributesStep DEF Mem0Inv
    <2>3. secrets' = {} /\ ~sealed'
        BY <1>2, <2>1, KindAssumption DEF Mem0Step, wikiVars, IInv
    <2> QED BY <1>1, <2>1, <2>2, <2>3, KindAssumption DEF IInv, W!WikiRedactionHolds
<1>3. CASE WikiStep
    <2>1. kind = llmWiki /\ kind' = llmWiki /\ W!WikiNext /\ WikiInv
        BY <1>3 DEF WikiStep, IInv
    <2>2. WikiInv'
        BY <2>1, WikiCountsStep, WikiRedactsStep DEF WikiInv
    <2>3. memories' = <<>>
        BY <1>3, <2>1, KindAssumption DEF WikiStep, mem0Vars, IInv
    <2> QED BY <1>1, <2>1, <2>2, <2>3, KindAssumption DEF IInv
<1>4. CASE GBrainStep
    <2>1. kind = gbrain /\ kind' = gbrain /\ G!GBrainNext /\ GBrainInv
        BY <1>4 DEF GBrainStep, IInv
    <2>2. GBrainInv'
        BY <2>1, GBrainCountsStep
    <2>3. secrets' = {} /\ ~sealed' /\ memories' = <<>>
        BY <1>4, <2>1, KindAssumption DEF GBrainStep, mem0Vars, wikiVars, IInv
    <2> QED BY <1>1, <2>1, <2>2, <2>3, KindAssumption DEF IInv, W!WikiRedactionHolds
<1>5. CASE UNCHANGED vars
    <2>1. CASE kind = mem0
        BY <1>1, <1>5, <2>1, KindAssumption
        DEF vars, runVars, mem0Vars, wikiVars, IInv, Mem0Inv, Mem0Counts, Mem0Deletes,
            Mem0Attributes, Owing, Owed, W!WikiRedactionHolds
    <2>2. CASE kind = llmWiki
        BY <1>1, <1>5, <2>2, KindAssumption
        DEF vars, runVars, mem0Vars, wikiVars, IInv, WikiInv, WikiCounts, WikiRedacts,
            W!WikiRedactionHolds, AnsweredBefore, W!Operations
    <2>3. CASE kind = gbrain
        BY <1>1, <1>5, <2>3, KindAssumption
        DEF vars, runVars, mem0Vars, wikiVars, gbrainVars, IInv, GBrainInv, GBrainCounts,
            W!WikiRedactionHolds, G!Surfaces, G!Asked, G!Last
    <2> QED BY <2>1, <2>2, <2>3 DEF IInv, Typed, Kinds
<1> QED BY <1>2, <1>3, <1>4, <1>5 DEF Next

\* The inductive invariant: what was counted, deleted, attributed and redacted by
\* each of the three native candidates, of any number of documents and questions
THEOREM Invariance == Spec => []IInv
<1>1. Init => IInv
    BY InitEstablishes
<1>2. IInv /\ [Next]_vars => IInv'
    BY StepPreserves
<1> QED BY <1>1, <1>2, PTL DEF Spec

\* Mem0Candidate, LLMWikiCandidate and GBrainCandidate keep what RunOrchestrator
\* relies on: one outcome, eligible only when every question was answered, a
\* complete receipt only when nothing it vouches for is left, a closed proxy.
THEOREM CandidatesImplementContract == Spec => ImplementsContract
<1>1. Init => Contract!Init
    BY InitSimulates
<1>2. IInv /\ [Next]_vars => [Contract!Next]_Contract!contractVars
    BY StepSimulates
<1> QED BY <1>1, <1>2, Invariance, PTL DEF Spec, ImplementsContract, Contract!Spec

\* A citation of Mem0Candidate names a document that went into the memory cited,
\* whatever add, get_all and their failures do, but for a memory no response named
\* and the adapter passed on without a source; it never names an earlier one.
THEOREM CitationsAreAttributed == Spec => []AttributionHolds
<1>1. IInv => AttributionHolds
    <2> SUFFICES ASSUME IInv PROVE AttributionHolds
        OBVIOUS
    <2>1. CASE kind = mem0
        BY <2>1, Mem0Attributed DEF IInv, Mem0Inv
    <2>2. CASE kind # mem0
        <3>1. DOMAIN memories = {}
            BY <2>2 DEF IInv
        <3> QED BY <3>1 DEF AttributionHolds, M!Mem0AttributionHolds
    <2> QED BY <2>1, <2>2
<1> QED BY <1>1, Invariance, PTL

\* Behind a run of LLMWikiCandidate that nothing cut short, and under every seal, a
\* credential in the clear is only where the redaction cannot read; and not in the
\* responses of a run that is OK.
THEOREM WorkspaceIsRedacted == Spec => []RedactionHolds
<1>1. IInv => RedactionHolds
    BY DEF IInv, WikiInv, WikiRedacts, RedactionHolds
<1> QED BY <1>1, Invariance, PTL
=============================================================================
