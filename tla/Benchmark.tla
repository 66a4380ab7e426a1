------------------------------- MODULE Benchmark -------------------------------
(***************************************************************************)
(* build_benchmark (benchmark.py) and what the run feeds it: Slack threads *)
(* whose root asks a question and whose replies answer it become cases;    *)
(* the last of them are held out altogether, and when there are too few    *)
(* the provider writes questions about the other documents.  The evaluator *)
(* keeps the replies and claims; the candidates get the questions and the  *)
(* rest of the corpus, if the leakage scan finds nothing in it.            *)
(*                                                                         *)
(* A document is known by its source id, and its text by the tokens the    *)
(* scan looks for in it.                                                   *)
(***************************************************************************)
EXTENDS Integers, FiniteSets, Sequences, SequencesExt

CONSTANTS
    Threads,        \* Slack threads, numbered in the order of their source ids
    Pages,          \* the other documents of the crawl
    Questions,      \* what the provider may ask about a document
    MinCases, MaxCases,
    PageKinds,      \* what a page may be related to, or quote
    Settings,       \* BenchmarkBuildConfig: holdout_fraction in percent, and
                    \* max_provider_calls
    Budget,         \* generation_budget_usd
    MaxCost,        \* bound on the cost of one response
    none

ASSUME BenchmarkAssumption ==
    /\ Threads \subseteq Nat /\ IsFiniteSet(Threads)
    /\ MinCases \in Nat \ {0} /\ MaxCases \in Nat /\ MinCases <= MaxCases
    /\ Settings \subseteq [percent : 0..99, maxCalls : Nat]
    /\ Budget \in Nat /\ MaxCost \in Nat

Root(t)  == <<"root", t>>
Reply(t) == <<"reply", t>>
Text(t)  == <<"text", t>>       \* what the reply says
Claim(t) == <<"claim", t>>      \* what the oracle says the reply claims
marker   == <<"marker", 0>>     \* a word that only an evaluator's record uses

Ids(T) == {Root(t) : t \in T} \cup {Reply(t) : t \in T}

VARIABLES
    valid,      \* the threads with a substantive question and answer
    page,       \* the relations and the tokens of each page
    settings,
    provider,   \* an evaluator provider is configured
    pc,
    todo,       \* case threads whose oracle is to be extracted
    turn,       \* documents the generator has not come to in this cycle
    generated,  \* generated cases
    usage,      \* BenchmarkGenerationUsage
    spent,      \* history: the calls made, what the provider charges for them, and
                \* how much of it for answers that came without their usage
    result,     \* BenchmarkBuildResult
    output,     \* settings.output_dir: files written there, or none
    temporary   \* the temporary directory beside it

inputs == <<valid, page, settings, provider>>
bills  == <<usage, spent>>
work   == <<todo, turn, generated, bills>>
disk   == <<output, temporary>>
vars   == <<inputs, pc, work, result, disk>>

-----------------------------------------------------------------------------
(* Documents *)

\* A page may be related to a record of a thread (a file, a canvas), may quote
\* what a reply says or claims, or may have the very text of a reply: identical
\* texts are merged into the document whose id comes first, with the ids of both.
AllPageKinds ==
    {[about |-> {}, tokens |-> {}], [about |-> {}, tokens |-> {marker}]}
    \cup {[about |-> {id}, tokens |-> {}] : id \in Ids(Threads)}
    \cup {[about |-> {}, tokens |-> {q}] :
            q \in {Text(t) : t \in Threads} \cup {Claim(t) : t \in Threads}}
    \cup {[about |-> {}, tokens |-> {Text(t), Reply(t)}] : t \in Threads}

ASSUME PageAssumption == PageKinds \subseteq AllPageKinds

PageId(p) == <<"page", p>>

Documents ==
    {d \in Ids(Threads) : \A p \in Pages : d \notin page[p].tokens}
    \cup {PageId(p) : p \in Pages}

\* parent_source_id and related_source_ids
About(d) ==
    CASE d[1] = "root"  -> {}
      [] d[1] = "reply" -> {Root(d[2])}
      [] d[1] = "page"  -> page[d[2]].about

\* What the scan finds in the serialized document
Tokens(d) ==
    {d} \cup About(d) \cup
    CASE d[1] = "root"  -> {}
      [] d[1] = "reply" -> {Text(d[2])}
      [] d[1] = "page"  -> page[d[2]].tokens

RemoveHoldouts(docs, ids) == {d \in docs : d \notin ids /\ About(d) \cap ids = {}}

-----------------------------------------------------------------------------
(* Holdouts *)

\* The last threads are held out, a share of them, as long as enough stay.
HoldoutTarget ==
    LET n == Cardinality(valid) IN
    IF (n * settings.percent) \div 100 <= n - MinCases
    THEN (n * settings.percent) \div 100 ELSE n - MinCases

Held == {t \in valid : Cardinality({u \in valid : u > t}) < HoldoutTarget}

CaseThreads == valid \ Held

\* The corpus without the held-out threads, and what questions are asked about
OpenDocuments == RemoveHoldouts(Documents, Ids(Held))
Eligible      == {d \in OpenDocuments : marker \notin Tokens(d)}

Missing == MinCases - Cardinality(valid)

NoResult == [status |-> "NONE", cases |-> << >>, holdouts |-> << >>,
             documents |-> {}, usage |-> [calls |-> 0, cost |-> 0]]

\* The work lists are gone when the build has come so far, or ends.
Leave == todo' = {} /\ turn' = {} /\ generated' = << >>

\* Variant of Block: the exception's usage is dropped.
BlockUncharged(status) ==
    /\ result' = [NoResult EXCEPT !.status = status]
    /\ pc' = "done"
    /\ Leave

Block(status) ==
    /\ result' = [NoResult EXCEPT !.status = status, !.usage = usage']
    /\ pc' = "done"
    /\ Leave

Init ==
    /\ valid \in SUBSET Threads
    /\ page \in [Pages -> PageKinds]
    /\ settings \in Settings
    /\ provider \in BOOLEAN
    /\ pc = "mine"
    /\ todo = {} /\ turn = {} /\ generated = << >>
    /\ usage = [calls |-> 0, cost |-> 0]
    /\ spent = [calls |-> 0, cost |-> 0, untold |-> 0]
    /\ result = NoResult
    /\ output = none /\ temporary = none

\* A benchmark of exactly MinCases threads has none to spare for a holdout.
TooFew ==
    \/ settings.percent > 0 /\ Cardinality(valid) = MinCases
    \/ Cardinality(valid) < MinCases /\ Eligible = {}

\* Whatever the number of threads, a provider is needed: for the oracles of
\* some, or to generate what is missing.
Mine ==
    /\ pc = "mine"
    /\ UNCHANGED bills
    /\ IF TooFew THEN Block("INSUFFICIENT_BENCHMARK")
       ELSE IF ~provider THEN Block("MISSING_PROVIDER")
       ELSE pc' = "oracles" /\ todo' = CaseThreads /\ UNCHANGED <<turn, generated, result>>
    /\ UNCHANGED <<inputs, disk>>

-----------------------------------------------------------------------------
(* Provider calls *)

\* The next call is for t's oracle, or for a question.
Calling ==
    /\ usage.calls < settings.maxCalls
    /\ \/ pc = "oracles" /\ todo # {}
       \/ pc = "generate" /\ Len(generated) < Missing

\* A call is counted before it is made, its cost when its answer was parsed: nothing,
\* if the answer does not tell.
Answered(cost, tells) ==
    /\ usage' = [calls |-> usage.calls + 1,
                 cost  |-> usage.cost + IF tells THEN cost ELSE 0]
    /\ spent' = [calls  |-> spent.calls + 1,
                 cost   |-> spent.cost + cost,
                 untold |-> spent.untold + IF tells THEN 0 ELSE cost]

OverBudget ==
    /\ usage'.cost > Budget
    /\ Block("BUDGET_EXCEEDED")

ExtractOracle ==
    /\ pc = "oracles" /\ Calling
    /\ \E t \in todo, cost \in 0..MaxCost, tells \in BOOLEAN :
          /\ Answered(cost, tells)
          /\ \/ OverBudget
             \/ /\ usage'.cost <= Budget
                /\ todo' = todo \ {t}
                /\ UNCHANGED <<pc, turn, generated, result>>
    /\ UNCHANGED <<inputs, disk>>

OracleLimit ==
    /\ pc = "oracles" /\ todo # {} /\ usage.calls >= settings.maxCalls
    /\ UNCHANGED <<inputs, bills, disk>>
    /\ Block("BUDGET_EXCEEDED")

\* The call raises.  Whatever the provider charges for it, and for an answer that
\* could not be parsed, is not in the usage.
CallEnds(status) ==
    /\ Calling
    /\ usage' = [usage EXCEPT !.calls = @ + 1]
    /\ \E cost \in 0..MaxCost :
          spent' = [spent EXCEPT !.calls = @ + 1, !.cost = @ + cost]
    /\ Block(status)
    /\ UNCHANGED <<inputs, disk>>

\* The deadline of the call
CallTimesOut == CallEnds("PROVIDER_TIMEOUT")

\* Ctrl-C
CallInterrupted == CallEnds("PROVIDER_CANCELLED")

\* An exception of the provider, or an answer that is not what was asked for
CallFails == CallEnds("PROVIDER_FAILED")

OraclesDone ==
    /\ pc = "oracles" /\ todo = {}
    /\ IF Cardinality(CaseThreads) < MinCases
       THEN pc' = "generate" /\ turn' = Eligible
       ELSE pc' = "freeze" /\ UNCHANGED turn
    /\ UNCHANGED <<inputs, todo, generated, bills, result, disk>>

\* A question the document does not support, or one asked before, is rejected.
Accepts(question) == \A i \in DOMAIN generated : generated[i].question # question

GenerateCase ==
    /\ pc = "generate" /\ Calling
    /\ \E d \in turn, cost \in 0..MaxCost, tells \in BOOLEAN :
          /\ Answered(cost, tells)
          /\ \/ OverBudget
             \/ /\ usage'.cost <= Budget
                /\ turn' = IF turn = {d} THEN Eligible ELSE turn \ {d}
                /\ \/ UNCHANGED generated
                   \/ \E q \in Questions :
                        /\ Accepts(q)
                        /\ generated' = Append(generated,
                                [source |-> d, question |-> q, generated |-> TRUE])
                /\ UNCHANGED <<pc, todo, result>>
    /\ UNCHANGED <<inputs, disk>>

\* Variant of GenerationDone: the generator goes on until it has all it misses.
GenerationDoneInFull ==
    /\ pc = "generate" /\ Len(generated) >= Missing
    /\ pc' = "freeze" /\ turn' = {}
    /\ UNCHANGED <<inputs, todo, generated, bills, result, disk>>

GenerationDone ==
    /\ pc = "generate"
    /\ Len(generated) >= Missing \/ usage.calls >= settings.maxCalls
    /\ pc' = "freeze" /\ turn' = {}
    /\ UNCHANGED <<inputs, todo, generated, bills, result, disk>>

-----------------------------------------------------------------------------
(* The two sides of the benchmark *)

\* A real case asks its root's question and names the root as its source.
RealCase(t) == [source |-> Root(t), question |-> t, generated |-> FALSE]

\* The case thread with i of them up to it, in the order of their source ids
CaseThread(i) == CHOOSE t \in CaseThreads : Cardinality({u \in CaseThreads : u <= t}) = i

AllCases == [i \in 1..Cardinality(CaseThreads) |-> RealCase(CaseThread(i))] \o generated

\* The evaluator's record of a case: what it must not let a candidate see
Holdout(case) ==
    [source |-> case.source, question |-> case.question,
     secret |-> IF case.generated THEN {}
                ELSE {Reply(case.question), Text(case.question), Claim(case.question)}]

Kept(seq) == SubSeq(seq, 1, IF Len(seq) <= MaxCases THEN Len(seq) ELSE MaxCases)

Holdouts(cases) == [i \in DOMAIN cases |-> Holdout(cases[i])]

\* Every record of a benchmark thread leaves the corpus, used as a case or not.
BenchmarkIds == Ids(valid)

CandidateDocuments == RemoveHoldouts(OpenDocuments, BenchmarkIds)

\* The corpus before, without the replies and what is attached to a thread
SourceBoundary ==
    {d \in OpenDocuments :
        d \notin {Reply(t) : t \in valid} /\ About(d) \cap BenchmarkIds = {}}

\* Variant of Forbidden: the scan looks for the replies of the cases only.
ForbiddenOfCases(holdouts) ==
    {marker} \cup UNION {holdouts[i].secret : i \in DOMAIN holdouts}

Forbidden(holdouts) ==
    {marker} \cup Ids(Held) \cup {Text(t) : t \in Held}
    \cup UNION {holdouts[i].secret : i \in DOMAIN holdouts}

Payload(cases) ==
    (UNION {Tokens(d) : d \in SourceBoundary \cup CandidateDocuments})
    \cup {cases[i].source : i \in DOMAIN cases}

Freeze ==
    /\ pc = "freeze"
    /\ UNCHANGED <<inputs, bills, disk>>
    /\ LET cases    == Kept(AllCases)
           holdouts == Kept(Holdouts(AllCases))
       IN  IF Len(cases) < MinCases THEN Block("INSUFFICIENT_BENCHMARK")
           ELSE IF Payload(cases) \cap Forbidden(holdouts) # {}
                THEN Block("LEAKAGE_DETECTED")
                ELSE /\ result' = [NoResult EXCEPT !.cases = cases,
                                        !.holdouts = holdouts, !.usage = usage,
                                        !.documents = CandidateDocuments]
                     /\ pc' = "write"
                     /\ Leave

-----------------------------------------------------------------------------
(* The artifacts *)

\* The files, by who may read them, in the order they are written
Files == <<"cases", "documents", "evaluator", "manifest">>

Raise == pc' = "raised" /\ UNCHANGED <<inputs, work, result>>

\* What is found at output_dir when the build comes to write there
RefuseOutput ==
    /\ pc = "write"
    /\ output' = {"other"}
    /\ Raise /\ UNCHANGED temporary

MakeTemporary ==
    /\ pc = "write"
    /\ output' \in {none, {}}
    /\ temporary' = {} /\ pc' = "writing"
    /\ UNCHANGED <<inputs, work, result>>

WriteFile ==
    /\ pc = "writing" /\ Cardinality(temporary) < Len(Files)
    /\ temporary' = temporary \cup {Files[Cardinality(temporary) + 1]}
    /\ UNCHANGED <<inputs, pc, work, result, output>>

RemoveEmptyOutput ==
    /\ pc = "writing" /\ temporary = ToSet(Files) /\ output = {}
    /\ output' = none
    /\ UNCHANGED <<inputs, pc, work, result, temporary>>

Publish ==
    /\ pc = "writing" /\ temporary = ToSet(Files) /\ output = none
    /\ output' = temporary /\ temporary' = none
    /\ result' = [result EXCEPT !.status = "OK"]
    /\ pc' = "done"
    /\ UNCHANGED <<inputs, work>>

\* Variant of WriteFails: the temporary directory is left.
WriteFailsInPlace ==
    /\ pc = "writing"
    /\ Raise /\ UNCHANGED disk

\* A full disk, Ctrl-C: the temporary directory is removed, the exception goes on.
WriteFails ==
    /\ pc = "writing"
    /\ temporary' = none
    /\ Raise /\ UNCHANGED output

\* Before that, and after, a process that dies leaves the disk as it is.
Crash ==
    /\ pc = "writing"
    /\ pc' = "crashed"
    /\ UNCHANGED <<inputs, work, result, disk>>

Build ==
    \/ Mine \/ ExtractOracle \/ OracleLimit \/ OraclesDone
    \/ CallTimesOut \/ CallInterrupted \/ CallFails
    \/ GenerateCase \/ GenerationDone \/ Freeze
    \/ RefuseOutput \/ MakeTemporary \/ WriteFile \/ RemoveEmptyOutput \/ Publish
    \/ WriteFails

Next == Build \/ Crash

\* A provider call has a deadline on the main thread, and elsewhere the timeout of
\* its own client; everything else of the build is computation.
Spec == Init /\ [][Next]_vars /\ WF_vars(Build)

-----------------------------------------------------------------------------
(* Properties *)

Succeeded == result.status = "OK"

VisibleTokens ==
    (UNION {Tokens(d) : d \in result.documents})
    \cup {result.cases[i].source : i \in DOMAIN result.cases}

\* The candidates of a run are given nothing that answers its questions: no reply
\* of a case, by id, by text or by claim, no record of a held-out thread and no text of
\* its replies, and no record of, or attached to, any thread that could have been asked
\* about, whether it was dropped by the cap or not (_remove_holdouts,
\* scan_benchmark_leakage).
AnswersStayWithTheEvaluator ==
    Succeeded =>
        /\ VisibleTokens \cap (Ids(Held) \cup {Text(t) : t \in Held}) = {}
        /\ \A i \in DOMAIN result.cases :
              ~result.cases[i].generated =>
                  LET t == result.cases[i].question IN
                  {Reply(t), Text(t), Claim(t)} \cap VisibleTokens = {}
        /\ \A d \in result.documents : ({d} \cup About(d)) \cap Ids(valid) = {}

\* The statuses of a call that raised
Broken == {"PROVIDER_TIMEOUT", "PROVIDER_CANCELLED", "PROVIDER_FAILED"}

\* However the build ends, the usage in its result has every call that was made,
\* oracles and questions together, and the charge for every answer that told its own,
\* except the last one's if that call raised.  What those charges come to passes the
\* budget by no more than one answer, and by nothing in a benchmark that succeeds.
UsageIsTheBill ==
    pc \in {"write", "writing", "done"} =>
        LET told == spent.cost - spent.untold IN
        /\ result.usage.calls = spent.calls /\ spent.calls <= settings.maxCalls
        /\ told - result.usage.cost \in
              0..(IF result.status \in Broken THEN MaxCost ELSE 0)
        /\ told <= Budget + MaxCost
        /\ result.usage.cost > Budget => result.status = "BUDGET_EXCEEDED"

\* Whatever fails, and even if the process dies, output_dir holds all files of the
\* benchmark or none; only a process that died leaves its temporary directory, and
\* only a written benchmark is OK (_write_artifacts).
ArtifactsAreWhole ==
    /\ output \in {none, {}, {"other"}, ToSet(Files)}
    /\ Succeeded => output = ToSet(Files)
    /\ pc \in {"done", "raised"} => temporary = none

\* A build ends: call by call, whatever the provider answers.
BuildEnds == <>(pc \in {"done", "raised", "crashed"})
=============================================================================
