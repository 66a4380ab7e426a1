-------------------------- MODULE Evaluation_proofs ---------------------------
(***************************************************************************)
(* A benchmark that is published whole, with the usage of the calls it was *)
(* built with, whose candidates are shown no answer: for any number of      *)
(* threads, pages, questions and calls, and any pages among AllPageKinds.  *)
(* Then the verdict on those candidates: whoever is recommended is the     *)
(* choice of the policy and has earned it, for any number of candidates,   *)
(* any gates, costs and latencies.                                         *)
(***************************************************************************)
EXTENDS Benchmark, Verdict, TLAPS, SequenceTheorems, FiniteSetTheorems, WellFoundedInduction

Pcs == {"mine", "oracles", "generate", "freeze", "write", "writing", "done", "raised",
        "crashed"}

\* Whatever a case may be about
Records == Ids(Threads) \cup {PageId(p) : p \in Pages}

GeneratedCases == [source : Records, question : Questions, generated : {TRUE}]

\* A record with the fields of BenchmarkBuildResult
IsResult(r) ==
    r = [status |-> r.status, cases |-> r.cases, holdouts |-> r.holdouts,
         documents |-> r.documents, usage |-> r.usage]

Shape ==
    /\ valid \subseteq Threads /\ settings \in Settings
    /\ pc \in Pcs
    /\ usage \in [calls : Nat, cost : Nat]
    /\ spent \in [calls : Nat, cost : Nat, untold : Nat]
    /\ turn \subseteq Records /\ generated \in Seq(GeneratedCases)
    /\ IsResult(result)

\* What was charged for answers that told it, and is not in the usage
Lost == spent.cost - spent.untold - usage.cost

\* Every call is made within both bounds.  What an answer costs is known then, but of a
\* call that raises, which ends the build.
Bill ==
    /\ usage.calls = spent.calls /\ usage.calls <= settings.maxCalls
    /\ Lost \in 0..(IF pc = "done" /\ result.status \in Broken THEN MaxCost ELSE 0)
    /\ usage.cost + Lost <= Budget + MaxCost
    /\ usage.cost > Budget => pc = "done" /\ result.status = "BUDGET_EXCEEDED"
    /\ pc \in {"write", "writing", "done"} => result.usage = usage

\* Files are written beside the output only.
Disk ==
    /\ output \in {none, {}, {"other"}, ToSet(Files)}
    /\ Succeeded => pc = "done" /\ output = ToSet(Files)
    /\ pc \notin {"writing", "crashed"} => temporary = none

\* The result is free of answers
Clean ==
    /\ VisibleTokens \cap (Ids(Held) \cup {Text(t) : t \in Held}) = {}
    /\ \A i \in DOMAIN result.cases :
          ~result.cases[i].generated =>
              LET t == result.cases[i].question IN
              {Reply(t), Text(t), Claim(t)} \cap VisibleTokens = {}
    /\ \A d \in result.documents : ({d} \cup About(d)) \cap Ids(valid) = {}

\* It is, from the scan on.
Scanned == pc \in {"write", "writing"} \/ Succeeded => Clean

IInv == Shape /\ Bill /\ Disk /\ Scanned

-----------------------------------------------------------------------------
(* The two sides *)

LEMMA CasesAreFinite ==
    ASSUME valid \subseteq Threads
    PROVE  Cardinality(CaseThreads) \in Nat
<1>1. CaseThreads \subseteq Threads /\ IsFiniteSet(Threads)
    BY BenchmarkAssumption DEF CaseThreads
<1>2. IsFiniteSet(CaseThreads)
    BY <1>1, FS_Subset
<1> QED BY <1>2, FS_CardinalityType

\* What may be a case
CaseRecords == {RealCase(CaseThread(i)) : i \in 1..Cardinality(CaseThreads)} \cup GeneratedCases

LEMMA CasesAreListed ==
    ASSUME Shape
    PROVE  AllCases \in Seq(CaseRecords)
<1> DEFINE n == Cardinality(CaseThreads)
           real == [i \in 1..n |-> RealCase(CaseThread(i))]
<1>1. n \in Nat
    BY CasesAreFinite DEF Shape
<1>2. real \in Seq(CaseRecords)
    <2>1. \A i \in 1..n : RealCase(CaseThread(i)) \in CaseRecords
        BY DEF CaseRecords
    <2> HIDE DEF n
    <2>2. real \in [1..n -> CaseRecords]
        BY <2>1
    <2> QED BY <1>1, <2>2, SeqDef
<1>3. generated \in Seq(CaseRecords)
    <2>1. generated \in Seq(GeneratedCases) /\ GeneratedCases \subseteq CaseRecords
        BY DEF Shape, CaseRecords
    <2> QED BY <2>1
<1>4. AllCases = real \o generated
    BY DEF AllCases
<1> HIDE DEF real, n
<1> QED BY <1>2, <1>3, <1>4, ConcatProperties

\* The cap keeps the same entries of both lists.
LEMMA KeptEntries ==
    ASSUME NEW S, NEW s \in Seq(S), NEW T, NEW t \in Seq(T), Len(s) = Len(t)
    PROVE  /\ DOMAIN Kept(s) = DOMAIN Kept(t)
           /\ \A i \in DOMAIN Kept(s) :
                 i \in 1..Len(s) /\ Kept(s)[i] = s[i] /\ Kept(t)[i] = t[i]
<1> DEFINE m == IF Len(s) <= MaxCases THEN Len(s) ELSE MaxCases
<1>1. Len(s) \in Nat /\ MaxCases \in Nat
    BY BenchmarkAssumption
<1>2. m \in 0..Len(s) /\ Kept(s) = SubSeq(s, 1, m) /\ Kept(t) = SubSeq(t, 1, m)
    BY <1>1 DEF Kept
<1> HIDE DEF m
<1>3. /\ Len(Kept(s)) = m /\ Kept(s) \in Seq(S)
      /\ Len(Kept(t)) = m /\ Kept(t) \in Seq(T)
      /\ \A i \in 1..m : Kept(s)[i] = s[i] /\ Kept(t)[i] = t[i]
    BY <1>1, <1>2, SubSeqProperties
<1> QED BY <1>1, <1>2, <1>3

\* The evaluator has a record of every case that the candidates are given.
LEMMA HoldoutOfCase ==
    ASSUME Shape, NEW i \in DOMAIN Kept(AllCases)
    PROVE  /\ i \in DOMAIN Kept(Holdouts(AllCases))
           /\ Kept(Holdouts(AllCases))[i] = Holdout(Kept(AllCases)[i])
<1> DEFINE s == AllCases
           t == Holdouts(AllCases)
           T == {Holdout(c) : c \in CaseRecords}
<1>1. s \in Seq(CaseRecords) /\ Len(s) \in Nat /\ DOMAIN s = 1..Len(s)
    BY CasesAreListed
<1>2. DOMAIN t = 1..Len(s) /\ \A j \in 1..Len(s) : t[j] = Holdout(s[j])
    BY <1>1 DEF Holdouts
<1>3. t \in Seq(T) /\ Len(t) = Len(s)
    <2>1. \A j \in 1..Len(s) : s[j] \in CaseRecords
        BY <1>1
    <2>2. \A j \in 1..Len(s) : t[j] \in T
        BY <1>2, <2>1
    <2>3. t \in [1..Len(s) -> T]
        BY <1>2, <2>2 DEF Holdouts
    <2> QED BY <1>1, <1>2, <2>3, SeqDef, LenProperties
<1> HIDE DEF s, t, T
<1>4. i \in DOMAIN Kept(s)
    BY DEF s
<1>5. i \in DOMAIN Kept(t) /\ i \in 1..Len(s) /\ Kept(s)[i] = s[i] /\ Kept(t)[i] = t[i]
    BY <1>1, <1>3, <1>4, KeptEntries
<1> QED BY <1>2, <1>5 DEF s, t

\* What the scan passed is what the candidates see, and what it looked for is all
\* they must not.
LEMMA ScanIsEnough ==
    ASSUME Shape, UNCHANGED inputs,
           result'.cases = Kept(AllCases), result'.documents = CandidateDocuments,
           Payload(Kept(AllCases)) \cap Forbidden(Kept(Holdouts(AllCases))) = {}
    PROVE  Clean'
<1> DEFINE cases == Kept(AllCases)
           holdouts == Kept(Holdouts(AllCases))
<1>1. UNCHANGED <<valid, page, settings>>
    BY DEF inputs
<1>2. Held' = Held
    BY <1>1 DEF Held, HoldoutTarget
<1>3. \A d : Tokens(d)' = Tokens(d) /\ About(d)' = About(d)
    BY <1>1 DEF Tokens, About
<1>4. VisibleTokens' \subseteq Payload(cases)
    <2> SUFFICES ASSUME NEW x \in VisibleTokens'
                 PROVE  x \in Payload(cases)
        OBVIOUS
    <2>1. \/ \E d \in result'.documents : x \in Tokens(d)'
          \/ \E i \in DOMAIN result'.cases : x = result'.cases[i].source
        BY DEF VisibleTokens
    <2>2. CASE \E d \in result'.documents : x \in Tokens(d)'
        <3>1. PICK d \in CandidateDocuments : x \in Tokens(d)
            BY <1>3, <2>2
        <3> QED BY <3>1 DEF Payload
    <2>3. CASE \E i \in DOMAIN result'.cases : x = result'.cases[i].source
        <3> HIDE DEF cases
        <3>1. PICK i \in DOMAIN cases : x = cases[i].source
            BY <2>3 DEF cases
        <3>2. x \in {cases[j].source : j \in DOMAIN cases}
            BY <3>1
        <3> QED BY <3>2, Zenon DEF Payload
    <2> QED BY <2>1, <2>2, <2>3
<1>5. VisibleTokens' \cap Forbidden(holdouts) = {}
    BY <1>4
<1>6. Ids(Held) \cup {Text(t) : t \in Held} \subseteq Forbidden(holdouts)
    BY DEF Forbidden
<1>7. VisibleTokens' \cap (Ids(Held') \cup {Text(t) : t \in Held'}) = {}
    BY <1>2, <1>5, <1>6
<1>8. ASSUME NEW i \in DOMAIN cases, ~cases[i].generated
      PROVE  {Reply(cases[i].question), Text(cases[i].question), Claim(cases[i].question)}
             \cap VisibleTokens' = {}
    <2>1. i \in DOMAIN holdouts /\ holdouts[i] = Holdout(cases[i])
        BY <1>8, HoldoutOfCase
    <2> HIDE DEF cases, holdouts
    <2>2. holdouts[i].secret
          = {Reply(cases[i].question), Text(cases[i].question), Claim(cases[i].question)}
        BY <1>8, <2>1 DEF Holdout
    <2>3. holdouts[i].secret \subseteq Forbidden(holdouts)
        BY <2>1 DEF Forbidden
    <2> QED BY <1>5, <2>2, <2>3
<1>9. \A d \in CandidateDocuments : ({d} \cup About(d)) \cap Ids(valid) = {}
    BY DEF CandidateDocuments, RemoveHoldouts, BenchmarkIds
<1>10. \A d \in CandidateDocuments : ({d} \cup About(d)') \cap Ids(valid') = {}
    BY <1>1, <1>3, <1>9
<1>11. \A i \in DOMAIN result'.cases :
           ~result'.cases[i].generated =>
               {Reply(result'.cases[i].question), Text(result'.cases[i].question),
                Claim(result'.cases[i].question)} \cap VisibleTokens' = {}
    BY <1>8
<1> HIDE DEF cases, holdouts
<1>12. \A d \in result'.documents : ({d} \cup About(d)') \cap Ids(valid') = {}
    BY <1>10
<1> QED BY <1>7, <1>11, <1>12 DEF Clean

\* A result stays free of answers.
LEMMA CleanStays ==
    ASSUME Clean, UNCHANGED inputs,
           result'.cases = result.cases, result'.documents = result.documents
    PROVE  Clean'
<1>1. UNCHANGED <<valid, page, settings>>
    BY DEF inputs
<1>2. Held' = Held
    BY <1>1 DEF Held, HoldoutTarget
<1>3. \A d : Tokens(d)' = Tokens(d) /\ About(d)' = About(d)
    BY <1>1 DEF Tokens, About
<1>4. VisibleTokens' = VisibleTokens
    BY <1>3 DEF VisibleTokens
<1>5. VisibleTokens' \cap (Ids(Held') \cup {Text(t) : t \in Held'}) = {}
    BY <1>2, <1>4 DEF Clean
<1>6. \A i \in DOMAIN result'.cases :
          ~result'.cases[i].generated =>
              {Reply(result'.cases[i].question), Text(result'.cases[i].question),
               Claim(result'.cases[i].question)} \cap VisibleTokens' = {}
    BY <1>4 DEF Clean
<1>7. \A d \in result'.documents : ({d} \cup About(d)') \cap Ids(valid') = {}
    BY <1>1, <1>3 DEF Clean
<1> QED BY <1>5, <1>6, <1>7 DEF Clean

-----------------------------------------------------------------------------
(* The steps *)

\* What a build that is blocked ends with
Blocked == {"INSUFFICIENT_BENCHMARK", "MISSING_PROVIDER", "BUDGET_EXCEEDED",
            "PROVIDER_TIMEOUT", "PROVIDER_CANCELLED", "PROVIDER_FAILED", "LEAKAGE_DETECTED"}

LEMMA BlockEnds ==
    ASSUME NEW s \in Blocked, Block(s)
    PROVE  /\ IsResult(result') /\ result'.status = s /\ result'.usage = usage'
           /\ pc' = "done" /\ turn' = {} /\ generated' = <<>>
BY DEF Block, Leave, NoResult, IsResult

\* Nothing but the end of a write is told by the status.
LEMMA BlockedIsNotOK == "OK" \notin Blocked
BY DEF Blocked

LEMMA EligibleAreRecords ==
    ASSUME valid \subseteq Threads
    PROVE  Eligible \subseteq Records
<1>1. Documents \subseteq Records
    BY DEF Documents, Records
<1> QED BY <1>1 DEF Eligible, OpenDocuments, RemoveHoldouts

BillTypes == usage \in [calls : Nat, cost : Nat]
             /\ spent \in [calls : Nat, cost : Nat, untold : Nat]

\* The charge for an answer is in the usage, or the answer did not tell it.
LEMMA AnswerIsCounted ==
    ASSUME NEW cost \in 0..MaxCost, NEW tells \in BOOLEAN, Answered(cost, tells), Shape
    PROVE  /\ BillTypes' /\ Lost' = Lost
           /\ usage'.calls = usage.calls + 1 /\ spent'.calls = spent.calls + 1
           /\ usage'.cost <= usage.cost + cost
<1>1. MaxCost \in Nat /\ cost \in Nat
    BY BenchmarkAssumption
<1>2. /\ usage.calls \in Nat /\ usage.cost \in Nat
      /\ spent.calls \in Nat /\ spent.cost \in Nat /\ spent.untold \in Nat
    BY DEF Shape
<1> DEFINE told == IF tells THEN cost ELSE 0
           untold == IF tells THEN 0 ELSE cost
<1>3. told \in Nat /\ untold \in Nat /\ told <= cost /\ told + untold = cost
    BY <1>1
<1>4. /\ usage' = [calls |-> usage.calls + 1, cost |-> usage.cost + told]
      /\ spent' = [calls |-> spent.calls + 1, cost |-> spent.cost + cost,
                   untold |-> spent.untold + untold]
    BY Zenon DEF Answered
<1> HIDE DEF told, untold
<1>5. /\ usage'.calls = usage.calls + 1 /\ usage'.cost = usage.cost + told
      /\ spent'.calls = spent.calls + 1 /\ spent'.cost = spent.cost + cost
      /\ spent'.untold = spent.untold + untold
    BY <1>4
<1>6. BillTypes'
    BY <1>1, <1>2, <1>3, <1>4 DEF BillTypes
<1>7. Lost' = Lost
    <2>1. Lost' = (spent.cost + cost) - (spent.untold + untold) - (usage.cost + told)
        BY <1>5 DEF Lost
    <2> QED BY <1>1, <1>2, <1>3, <2>1 DEF Lost
<1> QED BY <1>1, <1>2, <1>3, <1>5, <1>6, <1>7

\* The charge for a call that raises is not.
LEMMA RaisedIsLost ==
    ASSUME NEW s, CallEnds(s), Shape
    PROVE  /\ BillTypes' /\ Lost' \in Lost..(Lost + MaxCost)
           /\ usage'.calls = usage.calls + 1 /\ spent'.calls = spent.calls + 1
           /\ usage'.cost = usage.cost
<1>1. MaxCost \in Nat
    BY BenchmarkAssumption
<1>2. PICK cost \in 0..MaxCost :
        /\ spent' = [spent EXCEPT !.calls = @ + 1, !.cost = @ + cost]
        /\ usage' = [usage EXCEPT !.calls = @ + 1]
    BY DEF CallEnds
<1>3. /\ usage.calls \in Nat /\ usage.cost \in Nat
      /\ spent.calls \in Nat /\ spent.cost \in Nat /\ spent.untold \in Nat
    BY DEF Shape
<1>4. /\ usage'.calls = usage.calls + 1 /\ usage'.cost = usage.cost
      /\ spent'.calls = spent.calls + 1 /\ spent'.cost = spent.cost + cost
      /\ spent'.untold = spent.untold
    BY <1>2 DEF Shape
<1>5. BillTypes'
    <2>1. usage' = [calls |-> usage.calls + 1, cost |-> usage.cost]
        BY <1>2 DEF Shape
    <2>2. spent' = [calls |-> spent.calls + 1, cost |-> spent.cost + cost,
                    untold |-> spent.untold]
        BY <1>2 DEF Shape
    <2> QED BY <1>1, <1>3, <2>1, <2>2 DEF BillTypes
<1>6. Lost' \in Lost..(Lost + MaxCost)
    BY <1>1, <1>2, <1>3, <1>4 DEF Lost
<1> QED BY <1>4, <1>5, <1>6

LEMMA StepShape ==
    ASSUME Shape, [Next]_vars
    PROVE  Shape'
<1>1. /\ valid \subseteq Threads /\ settings \in Settings /\ pc \in Pcs
      /\ BillTypes
      /\ turn \subseteq Records /\ generated \in Seq(GeneratedCases) /\ IsResult(result)
    BY DEF Shape, BillTypes
<1>2. <<>> \in Seq(GeneratedCases) /\ {} \subseteq Records
    BY EmptySeq
<1> USE DEF BillTypes, bills
<1>3. ASSUME NEW s \in Blocked, Block(s), UNCHANGED inputs,
             BillTypes'
      PROVE  Shape'
    <2>1. IsResult(result') /\ pc' = "done" /\ turn' = {} /\ generated' = <<>>
        BY <1>3, BlockEnds
    <2>2. valid' = valid /\ settings' = settings
        BY <1>3 DEF inputs
    <2> QED BY <1>1, <1>2, <1>3, <2>1, <2>2 DEF Shape, Pcs, IsResult
<1>4. CASE UNCHANGED vars
    BY <1>1, <1>4 DEF vars, inputs, work, Shape, IsResult
<1>5. CASE Mine
    <2>1. UNCHANGED inputs /\ BillTypes'
        BY <1>1, <1>5 DEF Mine
    <2>2. CASE Block("INSUFFICIENT_BENCHMARK") \/ Block("MISSING_PROVIDER")
        BY <1>3, <2>1, <2>2 DEF Blocked
    <2>3. CASE pc' = "oracles" /\ UNCHANGED <<turn, generated, result>>
        BY <1>1, <2>1, <2>3 DEF inputs, Shape, Pcs, IsResult
    <2> QED BY <1>5, <2>2, <2>3 DEF Mine
<1>6. CASE ExtractOracle
    <2>1. PICK t \in todo, cost \in 0..MaxCost, tells \in BOOLEAN :
             /\ Answered(cost, tells)
             /\ OverBudget \/ UNCHANGED <<pc, turn, generated, result>>
        BY <1>6 DEF ExtractOracle
    <2>2. UNCHANGED inputs /\ BillTypes'
        BY <1>6, <2>1, AnswerIsCounted DEF ExtractOracle
    <2>3. CASE OverBudget
        BY <1>3, <2>2, <2>3 DEF OverBudget, Blocked
    <2>4. CASE UNCHANGED <<pc, turn, generated, result>>
        BY <1>1, <2>2, <2>4 DEF inputs, Shape, IsResult
    <2> QED BY <2>1, <2>3, <2>4
<1>7. CASE OracleLimit
    BY <1>1, <1>3, <1>7 DEF OracleLimit, Blocked
<1>8. CASE CallTimesOut \/ CallInterrupted \/ CallFails
    <2>1. PICK s \in Blocked : CallEnds(s)
        BY <1>8 DEF CallTimesOut, CallInterrupted, CallFails, Blocked
    <2>2. BillTypes'
        BY <2>1, RaisedIsLost
    <2> QED BY <1>3, <2>1, <2>2 DEF CallEnds
<1>9. CASE OraclesDone
    <2>1. UNCHANGED <<valid, settings, generated, bills, result>>
          /\ pc' \in {"generate", "freeze"} /\ (turn' = Eligible \/ UNCHANGED turn)
        BY <1>9 DEF OraclesDone, inputs
    <2>2. Eligible \subseteq Records
        BY <1>1, EligibleAreRecords
    <2> QED BY <1>1, <2>1, <2>2 DEF Shape, Pcs, IsResult
<1>10. CASE GenerateCase
    <2>1. PICK d \in turn, cost \in 0..MaxCost, tells \in BOOLEAN :
             /\ Answered(cost, tells)
             /\ \/ OverBudget
                \/ /\ turn' = IF turn = {d} THEN Eligible ELSE turn \ {d}
                   /\ \/ UNCHANGED generated
                      \/ \E q \in Questions :
                            generated' = Append(generated,
                                [source |-> d, question |-> q, generated |-> TRUE])
                   /\ UNCHANGED <<pc, todo, result>>
        BY <1>10 DEF GenerateCase
    <2>2. UNCHANGED inputs /\ BillTypes'
        BY <1>10, <2>1, AnswerIsCounted DEF GenerateCase
    <2>3. CASE OverBudget
        BY <1>3, <2>2, <2>3 DEF OverBudget, Blocked
    <2>4. CASE ~OverBudget
        <3>1. turn' \subseteq Records /\ UNCHANGED <<pc, result>>
            BY <1>1, <2>1, <2>4, EligibleAreRecords
        <3>2. generated' \in Seq(GeneratedCases)
            <4>1. CASE UNCHANGED generated
                BY <1>1, <4>1
            <4>2. CASE generated' # generated
                <5>1. PICK q \in Questions :
                         generated' = Append(generated,
                             [source |-> d, question |-> q, generated |-> TRUE])
                    BY <2>1, <2>4, <4>2
                <5>2. [source |-> d, question |-> q, generated |-> TRUE] \in GeneratedCases
                    BY <1>1, <2>1 DEF GeneratedCases
                <5> QED BY <1>1, <5>1, <5>2, AppendProperties
            <4> QED BY <4>1, <4>2
        <3>3. UNCHANGED <<valid, settings>>
            BY <2>2 DEF inputs
        <3> QED BY <1>1, <2>2, <3>1, <3>2, <3>3 DEF Shape, IsResult
    <2> QED BY <2>3, <2>4
<1>11. CASE GenerationDone
    <2>1. UNCHANGED <<valid, settings, generated, bills, result>>
          /\ pc' = "freeze" /\ turn' = {}
        BY <1>11 DEF GenerationDone, inputs
    <2> QED BY <1>1, <2>1 DEF Shape, Pcs, IsResult
<1>12. CASE Freeze
    <2>1. UNCHANGED inputs /\ UNCHANGED bills
        BY <1>12 DEF Freeze
    <2>2. CASE Block("INSUFFICIENT_BENCHMARK") \/ Block("LEAKAGE_DETECTED")
        BY <1>1, <1>3, <2>1, <2>2 DEF Blocked
    <2>3. CASE ~(Block("INSUFFICIENT_BENCHMARK") \/ Block("LEAKAGE_DETECTED"))
        <3>1. /\ pc' = "write" /\ Leave
              /\ \E c, h : result' = [NoResult EXCEPT !.cases = c, !.holdouts = h,
                                         !.usage = usage, !.documents = CandidateDocuments]
            BY <1>12, <2>3 DEF Freeze
        <3>2. IsResult(result')
            BY <3>1 DEF IsResult, NoResult
        <3> QED BY <1>1, <1>2, <2>1, <3>1, <3>2 DEF Leave, inputs, Shape, Pcs, IsResult
    <2> QED BY <2>2, <2>3
<1>13. CASE Publish
    <2>1. UNCHANGED <<valid, settings, turn, generated, bills>> /\ pc' = "done"
          /\ result' = [result EXCEPT !.status = "OK"]
        BY <1>13 DEF Publish, inputs, work
    <2>2. IsResult(result')
        BY <1>1, <2>1 DEF IsResult
    <2> QED BY <1>1, <2>1, <2>2 DEF Shape, Pcs, IsResult
<1>14. CASE RefuseOutput \/ MakeTemporary \/ WriteFile \/ RemoveEmptyOutput \/ WriteFails
            \/ Crash
    <2>1. UNCHANGED <<valid, settings, turn, generated, bills, result>> /\ pc' \in Pcs
        BY <1>1, <1>14 DEF RefuseOutput, MakeTemporary, WriteFile, RemoveEmptyOutput,
           WriteFails, Crash, Raise, inputs, work, Pcs
    <2> QED BY <1>1, <2>1 DEF Shape, IsResult
<1> QED BY <1>4, <1>5, <1>6, <1>7, <1>8, <1>9, <1>10, <1>11, <1>12, <1>13, <1>14
        DEF Next, Build

LEMMA StepBill ==
    ASSUME Shape, Bill, [Next]_vars
    PROVE  Bill'
<1>1. /\ BillTypes /\ settings.maxCalls \in Nat
      /\ Budget \in Nat /\ MaxCost \in Nat /\ IsResult(result)
    BY BenchmarkAssumption DEF Shape, BillTypes
<1>2. /\ usage.calls = spent.calls /\ usage.calls <= settings.maxCalls
      /\ Lost \in 0..(IF pc = "done" /\ result.status \in Broken THEN MaxCost ELSE 0)
      /\ usage.cost + Lost <= Budget + MaxCost
      /\ usage.cost > Budget => pc = "done" /\ result.status = "BUDGET_EXCEEDED"
      /\ pc \in {"write", "writing", "done"} => result.usage = usage
    BY DEF Bill
<1>3. ASSUME pc # "done"
      PROVE  Lost = 0 /\ usage.cost <= Budget
    BY <1>1, <1>2, <1>3 DEF BillTypes
<1>4. ASSUME NEW s \in Blocked, Block(s), UNCHANGED inputs,
             usage'.calls = spent'.calls, usage'.calls <= settings.maxCalls,
             Lost' \in 0..(IF s \in Broken THEN MaxCost ELSE 0),
             usage'.cost + Lost' <= Budget + MaxCost,
             usage'.cost > Budget => s = "BUDGET_EXCEEDED"
      PROVE  Bill'
    <2>1. result'.status = s /\ result'.usage = usage' /\ pc' = "done"
        BY <1>4, BlockEnds
    <2>2. settings' = settings
        BY <1>4 DEF inputs
    <2> QED BY <1>4, <2>1, <2>2 DEF Bill
<1>5. ASSUME pc # "done", UNCHANGED <<settings, usage, spent>>,
             pc' \in {"write", "writing", "done"} => result'.usage = usage,
             pc' = "done" => result'.status \notin Broken
      PROVE  Bill'
    <2>1. Lost' = 0 /\ Lost' \in 0..0
        BY <1>3, <1>5 DEF Lost
    <2>2. ~(usage.cost > Budget)
        BY <1>1, <1>3, <1>5 DEF BillTypes
    <2>3. usage'.cost + Lost' <= Budget + MaxCost
        BY <1>2, <1>3, <1>5, <2>1
    <2> QED BY <1>2, <1>5, <2>1, <2>2, <2>3 DEF Bill
<1>6. ASSUME NEW s \in Blocked, Block(s), UNCHANGED inputs, UNCHANGED bills, pc # "done"
      PROVE  Bill'
    <2>1. Lost' = 0 /\ usage'.cost <= Budget /\ usage' = usage /\ spent' = spent
        BY <1>3, <1>6 DEF bills, Lost
    <2>2. /\ Lost' \in 0..(IF s \in Broken THEN MaxCost ELSE 0)
          /\ usage'.cost + Lost' <= Budget + MaxCost /\ ~(usage'.cost > Budget)
        BY <1>1, <2>1 DEF BillTypes
    <2> QED BY <1>2, <1>4, <1>6, <2>1, <2>2
<1>7. CASE UNCHANGED vars
    BY <1>2, <1>7 DEF vars, inputs, work, bills, Bill, Lost
<1>8. CASE Mine
    <2>1. UNCHANGED inputs /\ UNCHANGED bills /\ pc = "mine"
        BY <1>8 DEF Mine
    <2>2. CASE Block("INSUFFICIENT_BENCHMARK") \/ Block("MISSING_PROVIDER")
        BY <1>6, <2>1, <2>2 DEF Blocked
    <2>3. CASE pc' = "oracles"
        BY <1>5, <2>1, <2>3 DEF inputs, bills
    <2> QED BY <1>8, <2>2, <2>3 DEF Mine
<1>9. CASE ExtractOracle \/ GenerateCase
    <2>1. PICK cost \in 0..MaxCost, tells \in BOOLEAN :
             /\ Answered(cost, tells)
             /\ OverBudget \/ (usage'.cost <= Budget /\ pc' = pc)
        BY <1>9 DEF ExtractOracle, GenerateCase
    <2>2. pc \in {"oracles", "generate"} /\ Calling /\ UNCHANGED inputs
        BY <1>9 DEF ExtractOracle, GenerateCase
    <2>3. /\ BillTypes' /\ Lost' = Lost
          /\ usage'.calls = usage.calls + 1 /\ spent'.calls = spent.calls + 1
          /\ usage'.cost <= usage.cost + cost
        BY <2>1, AnswerIsCounted
    <2>4. usage'.calls <= settings.maxCalls /\ usage'.calls = spent'.calls
        BY <1>1, <1>2, <2>2, <2>3 DEF Calling, BillTypes
    <2>5. Lost' = 0 /\ usage.cost <= Budget
        BY <1>3, <2>2, <2>3
    <2>6. usage'.cost + Lost' <= Budget + MaxCost
        BY <1>1, <2>3, <2>5 DEF BillTypes
    <2>7. CASE OverBudget
        <3>1. Lost' \in 0..(IF "BUDGET_EXCEEDED" \in Broken THEN MaxCost ELSE 0)
            BY <1>1, <2>5
        <3> QED BY <1>4, <2>2, <2>4, <2>6, <2>7, <3>1 DEF OverBudget, Blocked
    <2>8. CASE usage'.cost <= Budget /\ pc' = pc
        <3>1. ~(usage'.cost > Budget)
            BY <1>1, <2>3, <2>8 DEF BillTypes
        <3> QED BY <2>2, <2>4, <2>5, <2>6, <2>8, <3>1 DEF Bill, inputs
    <2> QED BY <2>1, <2>7, <2>8
<1>10. CASE OracleLimit
    <2>1. Block("BUDGET_EXCEEDED") /\ UNCHANGED inputs /\ UNCHANGED bills /\ pc # "done"
        BY <1>10 DEF OracleLimit
    <2> QED BY <1>6, <2>1 DEF Blocked
<1>11. CASE CallTimesOut \/ CallInterrupted \/ CallFails
    <2>1. PICK s \in Broken : CallEnds(s)
        BY <1>11 DEF CallTimesOut, CallInterrupted, CallFails, Broken
    <2>2. Block(s) /\ UNCHANGED inputs /\ Calling /\ pc # "done" /\ s \in Blocked
        BY <2>1 DEF CallEnds, Calling, Broken, Blocked
    <2>3. /\ BillTypes' /\ Lost' \in Lost..(Lost + MaxCost)
          /\ usage'.calls = usage.calls + 1 /\ spent'.calls = spent.calls + 1
          /\ usage'.cost = usage.cost
        BY <2>1, RaisedIsLost
    <2>4. Lost' \in 0..MaxCost /\ usage'.cost <= Budget
        BY <1>1, <1>3, <2>2, <2>3
    <2>5. usage'.calls <= settings.maxCalls /\ usage'.calls = spent'.calls
        BY <1>1, <1>2, <2>2, <2>3 DEF Calling, BillTypes
    <2>6. usage'.cost + Lost' <= Budget + MaxCost /\ ~(usage'.cost > Budget)
        BY <1>1, <2>3, <2>4 DEF BillTypes
    <2> QED BY <1>4, <2>1, <2>2, <2>4, <2>5, <2>6
<1>12. CASE OraclesDone \/ GenerationDone
    <2>1. UNCHANGED inputs /\ UNCHANGED bills /\ pc \in {"oracles", "generate"}
          /\ pc' \in {"generate", "freeze"}
        BY <1>12 DEF OraclesDone, GenerationDone
    <2> QED BY <1>5, <2>1 DEF inputs, bills
<1>13. CASE Freeze
    <2>1. UNCHANGED inputs /\ UNCHANGED bills /\ pc = "freeze"
        BY <1>13 DEF Freeze
    <2>2. CASE Block("INSUFFICIENT_BENCHMARK") \/ Block("LEAKAGE_DETECTED")
        BY <1>6, <2>1, <2>2 DEF Blocked
    <2>3. CASE ~(Block("INSUFFICIENT_BENCHMARK") \/ Block("LEAKAGE_DETECTED"))
        <3>1. result'.usage = usage /\ pc' = "write"
            BY <1>13, <2>3 DEF Freeze, NoResult
        <3> QED BY <1>5, <2>1, <3>1 DEF inputs, bills
    <2> QED BY <2>2, <2>3
<1>14. CASE Publish
    <2>1. UNCHANGED inputs /\ UNCHANGED bills /\ pc = "writing"
          /\ result' = [result EXCEPT !.status = "OK"]
        BY <1>14 DEF Publish, work
    <2>2. result'.usage = usage /\ result'.status \notin Broken
        BY <1>1, <1>2, <2>1 DEF IsResult, Broken
    <2> QED BY <1>5, <2>1, <2>2 DEF inputs, bills
<1>15. CASE RefuseOutput \/ MakeTemporary \/ WriteFile \/ RemoveEmptyOutput \/ WriteFails
            \/ Crash
    <2>1. UNCHANGED <<settings, usage, spent, result>> /\ pc \in {"write", "writing"}
          /\ pc' # "done"
        BY <1>15 DEF RefuseOutput, MakeTemporary, WriteFile, RemoveEmptyOutput,
           WriteFails, Crash, Raise, inputs, work, bills
    <2> QED BY <1>2, <1>5, <2>1
<1> QED BY <1>7, <1>8, <1>9, <1>10, <1>11, <1>12, <1>13, <1>14, <1>15 DEF Next, Build

\* Up to the scan nothing is on the disk, and nothing OK.
LEMMA BuildingIsNotOK ==
    ASSUME Shape, Disk,
           \/ Mine \/ ExtractOracle \/ OracleLimit \/ OraclesDone
           \/ CallTimesOut \/ CallInterrupted \/ CallFails
           \/ GenerateCase \/ GenerationDone \/ Freeze
    PROVE  UNCHANGED disk /\ temporary = none /\ result'.status # "OK"
<1>1. pc \in {"mine", "oracles", "generate", "freeze"} /\ UNCHANGED disk
    BY DEF Mine, ExtractOracle, OracleLimit, OraclesDone, CallTimesOut, CallInterrupted,
           CallFails, CallEnds, Calling, GenerateCase, GenerationDone, Freeze
<1>2. temporary = none /\ result.status # "OK"
    BY <1>1 DEF Disk, Succeeded
<1>3. \/ UNCHANGED result \/ result'.status = NoResult.status
      \/ \E s \in Blocked : Block(s)
    BY DEF Mine, ExtractOracle, OracleLimit, OraclesDone, CallTimesOut, CallInterrupted,
           CallFails, CallEnds, GenerateCase, GenerationDone, Freeze, OverBudget, Blocked,
           NoResult
<1>4. ASSUME NEW s \in Blocked, Block(s) PROVE result'.status # "OK"
    BY <1>4, BlockEnds, BlockedIsNotOK
<1> QED BY <1>1, <1>2, <1>3, <1>4 DEF NoResult

LEMMA StepDisk ==
    ASSUME Shape, Disk, [Next]_vars
    PROVE  Disk'
<1>1. /\ output \in {none, {}, {"other"}, ToSet(Files)}
      /\ result.status = "OK" => pc = "done" /\ output = ToSet(Files)
      /\ pc \notin {"writing", "crashed"} => temporary = none
    BY DEF Disk, Succeeded
<1> USE DEF Disk, Succeeded
<1>2. CASE UNCHANGED vars
    BY <1>1, <1>2 DEF vars, disk
<1>3. CASE \/ Mine \/ ExtractOracle \/ OracleLimit \/ OraclesDone
           \/ CallTimesOut \/ CallInterrupted \/ CallFails
           \/ GenerateCase \/ GenerationDone \/ Freeze
    <2>1. UNCHANGED disk /\ temporary = none /\ result'.status # "OK"
        BY <1>3, BuildingIsNotOK
    <2> QED BY <1>1, <2>1 DEF disk
<1>4. CASE RefuseOutput \/ MakeTemporary
    BY <1>1, <1>4 DEF RefuseOutput, MakeTemporary, Raise
<1>5. CASE WriteFile \/ RemoveEmptyOutput
    BY <1>1, <1>5 DEF WriteFile, RemoveEmptyOutput
<1>6. CASE Publish
    BY <1>6 DEF Publish
<1>7. CASE WriteFails \/ Crash
    BY <1>1, <1>7 DEF WriteFails, Crash, Raise, disk
<1> QED BY <1>2, <1>3, <1>4, <1>5, <1>6, <1>7 DEF Next, Build

LEMMA StepScanned ==
    ASSUME Shape, Disk, Scanned, [Next]_vars
    PROVE  Scanned'
<1>1. CASE \/ Mine \/ ExtractOracle \/ OracleLimit \/ OraclesDone
           \/ CallTimesOut \/ CallInterrupted \/ CallFails
           \/ GenerateCase \/ GenerationDone
    <2>1. result'.status # "OK"
        BY <1>1, BuildingIsNotOK
    <2>2. pc' \notin {"write", "writing"}
        BY <1>1 DEF Mine, ExtractOracle, OracleLimit, OraclesDone, CallTimesOut,
           CallInterrupted, CallFails, CallEnds, GenerateCase, GenerationDone, OverBudget,
           Block
    <2> QED BY <2>1, <2>2 DEF Scanned, Succeeded
<1>2. CASE Freeze
    <2>1. result'.status # "OK"
        BY <1>2, BuildingIsNotOK
    <2>2. CASE Block("INSUFFICIENT_BENCHMARK") \/ Block("LEAKAGE_DETECTED")
        BY <2>1, <2>2 DEF Block, Scanned, Succeeded
    <2>3. CASE ~(Block("INSUFFICIENT_BENCHMARK") \/ Block("LEAKAGE_DETECTED"))
        <3>1. /\ UNCHANGED inputs
              /\ Payload(Kept(AllCases)) \cap Forbidden(Kept(Holdouts(AllCases))) = {}
              /\ result' = [NoResult EXCEPT !.cases = Kept(AllCases),
                                !.holdouts = Kept(Holdouts(AllCases)), !.usage = usage,
                                !.documents = CandidateDocuments]
            BY <1>2, <2>3 DEF Freeze
        <3>2. result'.cases = Kept(AllCases) /\ result'.documents = CandidateDocuments
            BY <3>1 DEF NoResult
        <3>3. Clean'
            BY <3>1, <3>2, ScanIsEnough
        <3> QED BY <3>3 DEF Scanned
    <2> QED BY <2>2, <2>3
<1>3. CASE Publish
    <2>1. /\ UNCHANGED inputs /\ pc = "writing"
          /\ result'.cases = result.cases /\ result'.documents = result.documents
        BY <1>3 DEF Publish, Shape, IsResult
    <2> QED BY <2>1, CleanStays DEF Scanned
<1>4. CASE RefuseOutput \/ MakeTemporary \/ WriteFile \/ RemoveEmptyOutput \/ WriteFails
           \/ Crash \/ UNCHANGED vars
    <2>1. /\ UNCHANGED inputs /\ UNCHANGED result
          /\ pc' \in {"write", "writing"} => pc \in {"write", "writing"}
        BY <1>4 DEF RefuseOutput, MakeTemporary, WriteFile, RemoveEmptyOutput, WriteFails,
           Crash, Raise, vars
    <2>2. pc' \in {"write", "writing"} \/ Succeeded' => Clean
        BY <2>1 DEF Scanned, Succeeded
    <2> QED BY <2>1, <2>2, CleanStays DEF Scanned
<1> QED BY <1>1, <1>2, <1>3, <1>4 DEF Next, Build

-----------------------------------------------------------------------------
(* Theorems *)

LEMMA InitEstablishes ==
    ASSUME Init
    PROVE  IInv
<1>1. Budget \in Nat /\ MaxCost \in Nat
    BY BenchmarkAssumption
<1>2. /\ valid \subseteq Threads /\ settings \in Settings /\ pc = "mine"
      /\ turn = {} /\ generated = <<>> /\ usage = [calls |-> 0, cost |-> 0]
      /\ spent = [calls |-> 0, cost |-> 0, untold |-> 0]
      /\ result = NoResult /\ output = none /\ temporary = none
    BY DEF Init
<1>3. settings.maxCalls \in Nat
    BY <1>2, BenchmarkAssumption
<1>4. Shape
    <2>1. <<>> \in Seq(GeneratedCases)
        BY EmptySeq
    <2> QED BY <1>2, <2>1 DEF Shape, Pcs, IsResult, NoResult
<1>5. result.status = "NONE"
    BY <1>2 DEF NoResult
<1>6. Lost = 0 /\ 0 \in 0..0
    BY <1>2 DEF Lost
<1> QED BY <1>1, <1>2, <1>3, <1>4, <1>5, <1>6 DEF IInv, Bill, Disk, Scanned, Succeeded

\* The inductive invariant: the bill, the disk and what the scan has passed
THEOREM Invariance == Spec => []IInv
<1>1. Init => IInv
    BY InitEstablishes
<1>2. IInv /\ [Next]_vars => IInv'
    BY StepShape, StepBill, StepDisk, StepScanned DEF IInv
<1> QED BY <1>1, <1>2, PTL DEF Spec

\* Of a benchmark that build_benchmark calls OK, the candidates see no reply of a
\* case, and no record of a held-out thread nor the text of a reply in one, for any
\* threads and any page that quotes, is about or merges with one.
THEOREM AnswersAreKept == Spec => []AnswersStayWithTheEvaluator
<1>1. IInv => AnswersStayWithTheEvaluator
    BY DEF IInv, Scanned, Clean, AnswersStayWithTheEvaluator
<1> QED BY <1>1, Invariance, PTL

\* However build_benchmark ends, the usage of its result has all its calls, and what
\* the provider charged for the answers that told it but for a last one that raised;
\* the charges pass the budget by one answer at most, and it is OK within it only.
THEOREM UsageIsCounted == Spec => []UsageIsTheBill
<1>1. IInv => UsageIsTheBill
    <2> SUFFICES ASSUME Shape, Bill, pc \in {"write", "writing", "done"}
                 PROVE  UsageIsTheBill
        BY DEF IInv, UsageIsTheBill
    <2> DEFINE told == spent.cost - spent.untold
    <2>1. MaxCost \in Nat /\ Budget \in Nat
        BY BenchmarkAssumption
    <2>2. told - usage.cost = Lost /\ told = usage.cost + Lost
        BY DEF Shape, Lost
    <2>3. told - usage.cost \in 0..(IF result.status \in Broken THEN MaxCost ELSE 0)
        BY <2>1, <2>2 DEF Bill
    <2>4. told <= Budget + MaxCost /\ result.usage = usage
        BY <2>2 DEF Bill
    <2> QED BY <2>3, <2>4 DEF Bill, UsageIsTheBill
<1> QED BY <1>1, Invariance, PTL

\* _write_artifacts publishes all files or none, and removes what it wrote.
THEOREM OutputIsWhole == Spec => []ArtifactsAreWhole
<1>1. IInv => ArtifactsAreWhole
    BY DEF IInv, Disk, ArtifactsAreWhole
<1> QED BY <1>1, Invariance, PTL

-----------------------------------------------------------------------------
(* The verdict *)

USE VerdictAssumption

\* The natural numbers are well-founded.
LEMMA LeastNatural ==
    ASSUME NEW T \in SUBSET Nat, T # {}
    PROVE  \E x \in T : \A y \in T : x <= y
<1> DEFINE R == OpToRel(<, Nat)
<1>1. IsWellFoundedOn(R, Nat)
    BY NatLessThanWellFounded, Zenon
<1>2. \A x, y \in Nat : y < x => <<y, x>> \in R
    BY DEF OpToRel
<1> HIDE DEF R
<1>3. PICK x \in T : \A y \in T : ~(<<y, x>> \in R)
    BY <1>1, WFMin
<1>4. ASSUME NEW y \in T
      PROVE  x <= y
    <2>1. x \in Nat /\ y \in Nat
        OBVIOUS
    <2>2. ~(y < x)
        BY <1>2, <1>3, <2>1, Zenon
    <2> QED BY <2>1, <2>2
<1> QED BY <1>4

\* So a function to them has a least value.
LEMMA LeastOf ==
    ASSUME NEW S, S # {}, NEW f \in [S -> Nat]
    PROVE  \E i \in S : \A j \in S : f[i] <= f[j]
<1> DEFINE T == {f[i] : i \in S}
<1>1. T \in SUBSET Nat /\ T # {}
    OBVIOUS
<1>2. PICK x \in T : \A y \in T : x <= y
    <2> HIDE DEF T
    <2> QED BY <1>1, LeastNatural
<1> QED BY <1>2

\* What Key is, of a candidate whose cost is known
Triples == Nat \X Nat \X Nat

\* Precedes is the order of Python's tuples.
LEMMA PrecedesIsLexicographic ==
    ASSUME NEW k \in Triples, NEW l \in Triples
    PROVE  Precedes(k, l) <=>
              \/ k[1] < l[1]
              \/ k[1] = l[1] /\ k[2] < l[2]
              \/ k[1] = l[1] /\ k[2] = l[2] /\ k[3] < l[3]
<1>1. DOMAIN k = 1..3
    BY DEF Triples
<1>2. 1..(1 - 1) = {} /\ 1..(2 - 1) = {1} /\ 1..(3 - 1) = {1, 2} /\ 1..3 = {1, 2, 3}
    OBVIOUS
<1>3. Precedes(k, l) <=>
        \E i \in {1, 2, 3} : k[i] < l[i] /\ \A j \in 1..(i - 1) : k[j] = l[j]
    BY <1>1, <1>2 DEF Precedes
<1> QED BY <1>2, <1>3

LEMMA QualityIsAPercentage ==
    ASSUME NEW o, o.hits \in 0..Cases
    PROVE  Quality(o) \in 0..100
<1> DEFINE q == (100 * o.hits) \div Cases
           h == o.hits
<1>1. Cases \in Nat /\ Cases > 0 /\ h \in Nat /\ h <= Cases
    BY DEF VerdictAssumption
<1>2. q \in Int /\ q >= 0 /\ Cases * q <= 100 * h
    BY <1>1
<1>3. q <= 100
    BY <1>1, <1>2
<1>4. Quality(o) = q
    BY DEF Quality
<1> HIDE DEF q
<1> QED BY <1>2, <1>3, <1>4

-----------------------------------------------------------------------------
\* The candidates have been scored
Scored == evaluation = [c \in Candidates |-> Evaluation(outcome[c])]

Wellformed ==
    /\ outcome \in [Candidates -> Outcomes]
    /\ complete \in BOOLEAN /\ semantic \in BOOLEAN
    /\ evaluation = << >> \/ Scored
    /\ verdict # null => evaluation # << >> /\ Scored

LEMMA OutcomeFields ==
    ASSUME NEW o \in Outcomes
    PROVE  /\ o.hits \in 0..Cases /\ o.failed \in Nat /\ o.absent \in Nat
           /\ o.cost \in Nat
           /\ o.p95 \in Latencies \cup {null}
           /\ o.flaw \in Flaws \cup {null}
<1> DEFINE cheapest == CHOOSE c \in Costs : \A d \in Costs : c <= d
<1>1. cheapest \in Costs
    BY LeastNatural DEF VerdictAssumption
<1> HIDE DEF cheapest
<1>2. \/ \E h \in 0..Cases, c \in Costs, l \in Latencies \cup {null} :
            o = [hits |-> h, failed |-> 0, absent |-> 0, cost |-> c,
                 p95 |-> l, flaw |-> null]
      \/ o = [hits |-> Cases - 1, failed |-> 1, absent |-> 0, cost |-> cheapest,
              p95 |-> null, flaw |-> null]
      \/ o = [hits |-> Cases - 1, failed |-> 0, absent |-> 1, cost |-> cheapest,
              p95 |-> null, flaw |-> null]
      \/ \E f \in Flaws :
            o = [hits |-> Cases, failed |-> 0, absent |-> 0, cost |-> cheapest,
                 p95 |-> null, flaw |-> f]
    <2> DEFINE Outcome(h, f, a, c, l, w) ==
            [hits |-> h, failed |-> f, absent |-> a, cost |-> c, p95 |-> l, flaw |-> w]
    <2>1. o \in {Outcome(h, 0, 0, c, l, null) :
                    h \in 0..Cases, c \in Costs, l \in Latencies \cup {null}}
               \cup {Outcome(Cases - 1, 1, 0, cheapest, null, null),
                     Outcome(Cases - 1, 0, 1, cheapest, null, null)}
               \cup {Outcome(Cases, 0, 0, cheapest, null, f) : f \in Flaws}
        BY DEF Outcomes, cheapest
    <2> QED BY <2>1
<1>3. Cases \in 0..Cases /\ Cases - 1 \in 0..Cases /\ Costs \subseteq Nat
    BY DEF VerdictAssumption
<1> QED BY <1>1, <1>2, <1>3

\* The gates together: an eligible candidate has nothing wrong with it.
LEMMA EligibleIsSound ==
    ASSUME Wellformed, Scored,
           NEW c \in Candidates, IsEligible(evaluation[c])
    PROVE  /\ complete /\ semantic
           /\ outcome[c].flaw = null /\ outcome[c].failed = 0 /\ outcome[c].absent = 0
           /\ Quality(outcome[c]) >= QualityFloor
<1> DEFINE o == outcome[c]
<1>1. o \in Outcomes /\ evaluation[c] = Evaluation(o)
    BY DEF Wellformed, Scored
<1>2. /\ o.failed \in Nat /\ o.absent \in Nat
      /\ o.flaw \in Flaws \cup {null}
    BY <1>1, OutcomeFields
<1> HIDE DEF o
<1>3. /\ ~Overridden(o) /\ semantic
      /\ Quality(o) >= QualityFloor
      /\ o.flaw # "pin" /\ o.flaw # "native" /\ o.flaw # "usage" /\ o.flaw # "cost"
      /\ Cases - (Cases - o.failed - o.absent) = 0
    <2>1. /\ Evaluation(o).override = Overridden(o)
          /\ Evaluation(o).quality = Quality(o)
          /\ Evaluation(o).pin = (o.flaw # "pin")
          /\ Evaluation(o).native = (o.flaw # "native")
          /\ Evaluation(o).measured = (o.flaw # "usage")
          /\ Evaluation(o).cost = IF o.flaw \in {"cost", "usage"} THEN null ELSE o.cost
          /\ Evaluation(o).partial = Cases - (Cases - o.failed - o.absent)
        BY DEF Evaluation
    <2> QED BY <1>1, <2>1, Zenon DEF IsEligible
<1>4. complete /\ o.flaw # "status" /\ o.flaw # "keyword" /\ o.flaw # "receipt"
    BY <1>3 DEF Overridden
<1>5. o.failed = 0 /\ o.absent = 0
    BY <1>2, <1>3 DEF VerdictAssumption
<1>6. o.flaw = null
    BY <1>2, <1>3, <1>4 DEF Flaws
<1> QED BY <1>3, <1>4, <1>5, <1>6 DEF o

LEMMA EligibleIsMeasured ==
    ASSUME Wellformed, Scored,
           NEW c \in Candidates, IsEligible(evaluation[c])
    PROVE  Key(c) \in Triples /\ Key(c)[3] = c /\ evaluation[c].quality \in 0..100
<1> DEFINE o == outcome[c]
           e == evaluation[c]
<1>1. o \in Outcomes /\ e = Evaluation(o)
    BY DEF Wellformed, Scored
<1>2. o.hits \in 0..Cases /\ o.cost \in Nat /\ o.p95 \in Latencies \cup {null}
    BY <1>1, OutcomeFields
<1> HIDE DEF o
<1>3. e.cost = o.cost /\ e.p95 = o.p95 /\ e.quality = Quality(o)
    BY <1>1 DEF IsEligible, Evaluation
<1>4. e.cost \in Nat /\ (IF e.p95 = null THEN Infinity ELSE e.p95) \in Nat /\ c \in Nat
    BY <1>2, <1>3 DEF VerdictAssumption
<1> HIDE DEF e
<1>5. Key(c) = <<e.cost, IF e.p95 = null THEN Infinity ELSE e.p95, c>>
    BY DEF Key, e
<1>6. e.quality \in 0..100
    BY <1>2, <1>3, QualityIsAPercentage
<1> QED BY <1>4, <1>5, <1>6 DEF Triples, e
-----------------------------------------------------------------------------
(* select_winner *)

\* Among places whose keys are known, min() has an answer, and null precedes it.
LEMMA LeastExists ==
    ASSUME NEW seq, NEW places \in SUBSET Nat, places # {},
           \A i \in places : Key(seq[i]) \in Triples
    PROVE  /\ Least(seq, places) \in places
           /\ \A j \in places :
                ~Precedes(Key(seq[j]), Key(seq[Least(seq, places)]))
<1> DEFINE key == [i \in places |-> Key(seq[i])]
           A == {i \in places : \A j \in places : key[i][1] <= key[j][1]}
           B == {i \in A : \A j \in A : key[i][2] <= key[j][2]}
           C == {i \in B : \A j \in B : key[i][3] <= key[j][3]}
           isLeast(i) == \A j \in places :
               /\ ~Precedes(Key(seq[j]), Key(seq[i]))
               /\ j < i => Precedes(Key(seq[i]), Key(seq[j]))
<1>1. \A i \in places : key[i] \in Triples /\ key[i] = Key(seq[i])
    OBVIOUS
<1>2. \A i \in places : key[i][1] \in Nat /\ key[i][2] \in Nat /\ key[i][3] \in Nat
    BY <1>1 DEF Triples
<1> HIDE DEF key
<1>3. A # {}
    <2> DEFINE f == [i \in places |-> key[i][1]]
    <2>1. f \in [places -> Nat] BY <1>2
    <2>2. PICK i \in places : \A j \in places : f[i] <= f[j]
        <3> HIDE DEF f
        <3> QED BY <2>1, LeastOf
    <2> QED BY <2>2
<1>4. B # {}
    <2> DEFINE f == [i \in A |-> key[i][2]]
    <2>1. f \in [A -> Nat] BY <1>2
    <2>2. PICK i \in A : \A j \in A : f[i] <= f[j]
        <3> HIDE DEF f, A
        <3> QED BY <1>3, <2>1, LeastOf
    <2> QED BY <2>2
<1>5. C # {}
    <2> DEFINE f == [i \in B |-> key[i][3]]
    <2>1. f \in [B -> Nat] BY <1>2
    <2>2. PICK i \in B : \A j \in B : f[i] <= f[j]
        <3> HIDE DEF f, B
        <3> QED BY <1>4, <2>1, LeastOf
    <2> QED BY <2>2
<1>6. C \in SUBSET Nat
    OBVIOUS
<1>7. PICK i \in C : \A j \in C : i <= j
    <2> HIDE DEF C
    <2> QED BY <1>5, <1>6, LeastNatural
<1>8. ASSUME NEW j \in places
      PROVE  ~Precedes(key[j], key[i]) /\ (j < i => Precedes(key[i], key[j]))
    <2>1. i \in places /\ key[i] \in Triples /\ key[j] \in Triples
        BY <1>1
    <2>2. /\ key[i][1] <= key[j][1]
          /\ key[i][1] = key[j][1] => j \in A /\ key[i][2] <= key[j][2]
        BY <1>2, <2>1
    <2>3. key[i][1] = key[j][1] /\ key[i][2] = key[j][2] =>
            j \in B /\ key[i][3] <= key[j][3]
        BY <1>2, <2>1, <2>2
    <2>4. key[i][1] = key[j][1] /\ key[i][2] = key[j][2] /\ key[i][3] = key[j][3] =>
            j \in C /\ i <= j
        BY <1>2, <1>7, <2>1, <2>3
    <2>5. i \in Nat /\ j \in Nat
        BY <2>1
    <2>6. /\ key[i][1] \in Nat /\ key[i][2] \in Nat /\ key[i][3] \in Nat
          /\ key[j][1] \in Nat /\ key[j][2] \in Nat /\ key[j][3] \in Nat
        BY <1>2, <2>1
    <2> HIDE DEF A, B, C
    <2>7. ~Precedes(key[j], key[i])
        BY <2>1, <2>2, <2>3, <2>6, PrecedesIsLexicographic
    <2>8. j < i => Precedes(key[i], key[j])
        BY <2>1, <2>2, <2>3, <2>4, <2>5, <2>6, PrecedesIsLexicographic
    <2> QED BY <2>7, <2>8
<1>9. i \in places /\ isLeast(i)
    BY <1>1, <1>8
<1>10. Least(seq, places) = CHOOSE m \in places : isLeast(m)
    BY DEF Least
<1>11. Least(seq, places) \in places /\ isLeast(Least(seq, places))
    <2> HIDE DEF isLeast
    <2> QED BY <1>9, <1>10
<1> QED BY <1>11

\* Those who are close: within Epsilon of everyone
LEMMA CloseIsWithinEpsilon ==
    ASSUME NEW seq, NEW places, places # {},
           \A i \in places : QualityAt(seq, i) \in 0..100
    PROVE  /\ Close(seq, places) # {}
           /\ Close(seq, places) =
                {i \in places : \A j \in places :
                    QualityAt(seq, j) <= QualityAt(seq, i) + Epsilon}
<1> DEFINE q == [i \in places |-> QualityAt(seq, i)]
           values == {QualityAt(seq, i) : i \in places}
           highest == CHOOSE x \in values : \A i \in places : QualityAt(seq, i) <= x
<1>1. \A i \in places : q[i] \in 0..100 /\ q[i] = QualityAt(seq, i)
    OBVIOUS
<1>2. PICK m \in places : \A j \in places : 100 - q[m] <= 100 - q[j]
    <2> DEFINE f == [i \in places |-> 100 - q[i]]
    <2>1. f \in [places -> Nat]
        BY <1>1
    <2>2. PICK m \in places : \A j \in places : f[m] <= f[j]
        <3> HIDE DEF f
        <3> QED BY <2>1, LeastOf
    <2> QED BY <2>2
<1>3. \E x \in values : \A i \in places : QualityAt(seq, i) <= x
    <2>1. \A i \in places : QualityAt(seq, i) <= QualityAt(seq, m)
        BY <1>1, <1>2
    <2> QED BY <2>1
<1>4. highest \in values /\ \A i \in places : QualityAt(seq, i) <= highest
    <2> HIDE DEF values
    <2> QED BY <1>3
<1>5. Close(seq, places) = {i \in places : highest - QualityAt(seq, i) <= Epsilon}
    BY DEF Close
<1> HIDE DEF highest
<1>6. PICK h \in places : highest = QualityAt(seq, h)
    BY <1>4
<1>7. highest \in 0..100 /\ Epsilon \in Nat
    BY <1>6 DEF VerdictAssumption
<1>8. h \in Close(seq, places)
    BY <1>5, <1>6, <1>7
<1>9. ASSUME NEW i \in places
      PROVE  highest - QualityAt(seq, i) <= Epsilon <=>
                \A j \in places : QualityAt(seq, j) <= QualityAt(seq, i) + Epsilon
    <2>1. QualityAt(seq, i) \in Int /\ \A j \in places : QualityAt(seq, j) \in Int
        OBVIOUS
    <2> QED BY <2>1, <1>4, <1>6, <1>7
<1> QED BY <1>5, <1>8, <1>9
-----------------------------------------------------------------------------
\* VerdictIsThePolicy, of a winner w
IsThePolicy(w) ==
    LET eligible == {c \in Candidates : IsEligible(evaluation[c])} IN
    /\ w = NoRecommendation <=> eligible = {}
    /\ w \in Candidates =>
          /\ w \in eligible /\ InReach(w)
          /\ \A c \in eligible \ {w} : InReach(c) => Precedes(Key(w), Key(c))

\* select_winner, for the candidates in any order
LEMMA WinnerFollowsThePolicy ==
    ASSUME Wellformed, Scored, NEW seq \in Orders
    PROVE  IsThePolicy(SelectWinner(seq))
<1> DEFINE eligible == {c \in Candidates : IsEligible(evaluation[c])}
           places   == {i \in DOMAIN seq : IsEligible(evaluation[seq[i]])}
           close    == Close(seq, places)
           least    == Least(seq, close)
           w        == SelectWinner(seq)
<1>1. /\ DOMAIN seq \subseteq Nat
      /\ \A i \in DOMAIN seq : seq[i] \in Candidates
      /\ \A c \in Candidates : \E i \in DOMAIN seq : seq[i] = c
    BY DEF Orders
<1>2. /\ \A i \in places : seq[i] \in eligible
      /\ \A c \in eligible : \E i \in places : seq[i] = c
    BY <1>1
<1>3. w = IF places = {} THEN NoRecommendation ELSE seq[least]
    BY DEF SelectWinner
<1>4. NoRecommendation \notin Candidates
    BY DEF VerdictAssumption
<1>5. CASE places = {}
    <2>1. w = NoRecommendation /\ eligible = {}
        BY <1>2, <1>3, <1>5
    <2> QED BY <2>1, <1>4, Zenon DEF IsThePolicy
<1>6. CASE places # {}
    <2>1. \A c \in eligible :
            /\ Key(c) \in Triples /\ Key(c)[3] = c
            /\ evaluation[c].quality \in 0..100
        BY EligibleIsMeasured
    <2>2. /\ \A i \in places : QualityAt(seq, i) = evaluation[seq[i]].quality
          /\ \A i \in places : QualityAt(seq, i) \in 0..100
        BY <1>2, <2>1 DEF QualityAt
    <2> HIDE DEF places, eligible
    <2>3. /\ close # {}
          /\ close = {i \in places : \A j \in places :
                        QualityAt(seq, j) <= QualityAt(seq, i) + Epsilon}
        BY <1>6, <2>2, CloseIsWithinEpsilon
    <2>4. \A i \in places : i \in close <=> InReach(seq[i])
        <3>1. ASSUME NEW i \in places
              PROVE  InReach(seq[i]) <=> \A j \in places :
                        QualityAt(seq, j) <= QualityAt(seq, i) + Epsilon
            <4>1. InReach(seq[i]) <=>
                    \A d \in eligible :
                        evaluation[d].quality <= evaluation[seq[i]].quality + Epsilon
                BY DEF InReach, eligible
            <4> QED BY <1>2, <2>2, <4>1
        <3> QED BY <2>3, <3>1
    <2>5. close \subseteq places
        BY <2>3
    <2>6. close \in SUBSET Nat
        BY <1>1, <2>5 DEF places
    <2>7. \A i \in close : Key(seq[i]) \in Triples
        BY <1>2, <2>1, <2>5
    <2> HIDE DEF close
    <2>8. /\ least \in close
          /\ \A j \in close : ~Precedes(Key(seq[j]), Key(seq[least]))
        BY <2>3, <2>6, <2>7, LeastExists
    <2> HIDE DEF least
    <2>9. w = seq[least] /\ w \in eligible /\ InReach(w)
        BY <1>2, <1>3, <1>6, <2>4, <2>5, <2>8
    <2> HIDE DEF w
    <2>10. w # NoRecommendation /\ eligible # {}
        BY <1>4, <2>9 DEF eligible
    <2>11. ASSUME NEW c \in eligible \ {w}, InReach(c)
           PROVE  Precedes(Key(w), Key(c))
        <3>1. PICK j \in places : seq[j] = c
            BY <1>2
        <3>2. ~Precedes(Key(c), Key(w))
            BY <2>4, <2>8, <2>9, <2>11, <3>1
        <3>3. /\ Key(c) \in Triples /\ Key(c)[3] = c
              /\ Key(w) \in Triples /\ Key(w)[3] = w
            BY <2>1, <2>9
        <3>4. /\ Key(c)[1] \in Nat /\ Key(c)[2] \in Nat /\ Key(c)[3] \in Nat
              /\ Key(w)[1] \in Nat /\ Key(w)[2] \in Nat /\ Key(w)[3] \in Nat
            BY <3>3 DEF Triples
        <3>5. Key(c)[3] # Key(w)[3]
            BY <3>3
        <3> QED BY <3>2, <3>3, <3>4, <3>5, PrecedesIsLexicographic
    <2> QED BY <2>9, <2>10, <2>11 DEF IsThePolicy, eligible, w
<1> QED BY <1>5, <1>6

-----------------------------------------------------------------------------
\* The inductive invariant of the verdict
VerdictInv == Wellformed /\ (verdict # null => IsThePolicy(verdict))

\* Evaluate scores every candidate, and Decide follows the policy on those scores.
THEOREM VerdictInvariance == VerdictSpec => []VerdictInv
<1>1. VerdictInit => VerdictInv
    BY DEF VerdictInit, VerdictInv, Wellformed
<1>2. VerdictInv /\ [VerdictNext]_verdictVars => VerdictInv'
    <2> SUFFICES ASSUME VerdictInv, [VerdictNext]_verdictVars
                 PROVE  VerdictInv'
        OBVIOUS
    <2> USE DEF VerdictInv
    <2>1. CASE Evaluate
        <3>1. verdict' = null
            BY <2>1 DEF Evaluate, Wellformed
        <3>2. Scored'
            BY <2>1 DEF Evaluate, Scored, Evaluation, Overridden, Quality
        <3> QED BY <2>1, <3>1, <3>2 DEF Evaluate, Wellformed
    <2>2. CASE Decide
        <3>1. Scored
            BY <2>2 DEF Decide, Wellformed
        <3>2. PICK seq \in Orders : verdict' = SelectWinner(seq)
            BY <2>2 DEF Decide
        <3>3. IsThePolicy(verdict')
            BY <3>1, <3>2, WinnerFollowsThePolicy
        <3>4. UNCHANGED <<outcome, complete, semantic, evaluation>>
            BY <2>2 DEF Decide
        <3>5. Scored'
            BY <3>1, <3>4 DEF Scored, Evaluation, Overridden, Quality
        <3>6. Wellformed'
            BY <2>2, <3>4, <3>5 DEF Decide, Wellformed
        <3>7. (IsThePolicy(verdict))'
            BY <3>3, <3>4 DEF IsThePolicy, IsEligible, InReach, Key
        <3> QED BY <3>6, <3>7
    <2>3. CASE UNCHANGED verdictVars
        <3>1. UNCHANGED <<outcome, complete, semantic, evaluation, verdict>>
            BY <2>3 DEF verdictVars
        <3>2. Wellformed'
            BY <3>1 DEF Wellformed, Scored, Evaluation, Overridden, Quality
        <3>3. (IsThePolicy(verdict))' <=> IsThePolicy(verdict)
            BY <3>1 DEF IsThePolicy, IsEligible, InReach, Key
        <3> QED BY <3>1, <3>2, <3>3
    <2> QED BY <2>1, <2>2, <2>3 DEF VerdictNext
<1> QED BY <1>1, <1>2, PTL DEF VerdictSpec

\* select_winner, over any candidates in any order, recommends when somebody is
\* eligible, and then one that nobody leads by more than CLOSE_QUALITY_EPSILON and
\* that is the first by cost, latency and id of all that nobody leads so.
THEOREM VerdictFollowsThePolicy == VerdictSpec => []VerdictIsThePolicy
<1>1. VerdictInv => VerdictIsThePolicy
    BY DEF VerdictInv, IsThePolicy, VerdictIsThePolicy, Recommended
<1> QED BY <1>1, VerdictInvariance, PTL

\* Whoever _run_workflow recommends has answered every case with nothing wrong in its
\* status, pin, metering, cost or cleanup, over complete sources, above the floor.
THEOREM WinnersAreJustified == VerdictSpec => []WinnerIsJustified
<1>1. VerdictInv => WinnerIsJustified
    <2> SUFFICES ASSUME VerdictInv, Recommended
                 PROVE  LET o == outcome[verdict] IN
                        /\ complete /\ semantic
                        /\ o.flaw = null /\ o.failed = 0 /\ o.absent = 0
                        /\ Quality(o) >= QualityFloor
        BY DEF WinnerIsJustified
    <2>1. verdict \in Candidates /\ verdict # null
        BY DEF Recommended, VerdictAssumption
    <2>2. Wellformed /\ Scored /\ IsEligible(evaluation[verdict])
        BY <2>1 DEF VerdictInv, Wellformed, IsThePolicy
    <2> QED BY <2>1, <2>2, EligibleIsSound
<1> QED BY <1>1, VerdictInvariance, PTL
=============================================================================
