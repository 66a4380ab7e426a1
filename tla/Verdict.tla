-------------------------------- MODULE Verdict --------------------------------
(***************************************************************************)
(* From the outcomes of the candidates to the verdict of the run:          *)
(* _canonical_evaluations (orchestration.py) scores each candidate by      *)
(* evaluate_candidate (evaluate.py), the gates of decision.py say who may  *)
(* be recommended, and select_winner picks one of those: of all that are   *)
(* close to the best in quality the cheapest, then the fastest.            *)
(***************************************************************************)
EXTENDS Integers, FiniteSets

CONSTANTS
    Candidates,     \* numbered in the order of their ids
    Cases,          \* number of benchmark cases
    MinScoredCases, MinSuccess, MinSupport, QualityFloor, \* the gates; rates in percent
    Epsilon,        \* CLOSE_QUALITY_EPSILON
    Costs, Latencies,
    Infinity,       \* the key of a latency that was not measured
    NoRecommendation, null

ASSUME VerdictAssumption ==
    /\ Candidates \subseteq Nat /\ IsFiniteSet(Candidates) /\ Cases \in Nat \ {0}
    /\ Costs \subseteq Nat /\ Costs # {} /\ Latencies \subseteq Nat
    /\ Infinity \in Nat /\ \A l \in Latencies : l < Infinity
    /\ {MinScoredCases, MinSuccess, MinSupport, QualityFloor, Epsilon} \subseteq Nat
    /\ NoRecommendation \notin Candidates /\ null \notin Nat

\* What can be wrong with a candidate that has answered
Flaws == {"status", "keyword", "pin", "native", "usage", "cost", "receipt"}

\* The observations of the cases: the gold source found or not, the question
\* failed, or nothing observed.  One thing goes wrong at a time.
Outcomes ==
    LET Outcome(hits, failed, absent, cost, p95, flaw) ==
            [hits |-> hits, failed |-> failed, absent |-> absent,
             cost |-> cost, p95 |-> p95, flaw |-> flaw]
        cheapest == CHOOSE c \in Costs : \A d \in Costs : c <= d
    IN  {Outcome(h, 0, 0, c, l, null) :
            h \in 0..Cases, c \in Costs, l \in Latencies \cup {null}}
        \cup {Outcome(Cases - 1, 1, 0, cheapest, null, null),
              Outcome(Cases - 1, 0, 1, cheapest, null, null)}
        \cup {Outcome(Cases, 0, 0, cheapest, null, f) : f \in Flaws}

VARIABLES
    outcome,    \* what each candidate's run, metering and cleanup left
    complete,   \* Slack is among the sources
    semantic,   \* the embedding backend may back a recommendation
    evaluation, \* CandidateEvaluation
    verdict     \* DecisionResult.verdict

verdictVars == <<outcome, complete, semantic, evaluation, verdict>>

-----------------------------------------------------------------------------
(* Scores *)

\* Recall over gold source ids: each case has one.
Quality(o) == (100 * o.hits) \div Cases

\* Variant of Overridden: an incomplete cleanup receipt is not looked at.
OverriddenUnclean(o) == o.flaw \in {"status", "keyword"} \/ o.absent > 0

\* eligible_override: what the run knows of a candidate beside its answers
Overridden(o) ==
    o.flaw \in {"status", "keyword", "receipt"} \/ o.absent > 0 \/ ~complete

Evaluation(o) ==
    LET answered == Cases - o.failed - o.absent IN
    [scored |-> Cases, answered |-> answered,
     quality |-> Quality(o),
     success |-> (100 * answered) \div Cases,
     support |-> Quality(o),
     partial |-> Cases - answered,
     cost    |-> IF o.flaw \in {"cost", "usage"} THEN null ELSE o.cost,
     p95     |-> o.p95,
     measured |-> o.flaw # "usage",
     pin     |-> o.flaw # "pin",
     native  |-> o.flaw # "native",
     ok      |-> o.flaw # "status" /\ o.absent = 0,
     override |-> Overridden(o)]

VerdictInit ==
    /\ outcome \in [Candidates -> Outcomes]
    /\ complete \in BOOLEAN
    /\ semantic \in IF complete THEN BOOLEAN ELSE {TRUE}
    /\ evaluation = << >>
    /\ verdict = null

Evaluate ==
    /\ evaluation = << >>
    /\ evaluation' = [c \in Candidates |-> Evaluation(outcome[c])]
    /\ UNCHANGED <<outcome, complete, semantic, verdict>>

-----------------------------------------------------------------------------
(* The decision *)

\* eligibility_reasons(e) = []
IsEligible(e) ==
    /\ ~e.override
    /\ e.scored >= MinScoredCases
    /\ e.success >= MinSuccess
    /\ e.quality >= QualityFloor
    /\ e.support >= MinSupport
    /\ e.pin /\ e.native
    /\ e.measured /\ e.cost # null
    /\ e.ok
    /\ e.partial = 0
    /\ semantic

\* In a sequence of candidates a candidate is known by its place.
QualityAt(seq, i) == evaluation[seq[i]].quality

\* Variant of Close: a candidate that is close to one that is close is close.
CloseToSome(seq, places) ==
    {i \in places : \A j \in places :
        \/ QualityAt(seq, j) - QualityAt(seq, i) <= Epsilon
        \/ \E m \in places :
              /\ QualityAt(seq, j) - QualityAt(seq, m) <= Epsilon
              /\ QualityAt(seq, m) - QualityAt(seq, i) <= Epsilon}

\* Those within Epsilon of the highest quality
Close(seq, places) ==
    LET highest == CHOOSE q \in {QualityAt(seq, i) : i \in places} :
                      \A i \in places : QualityAt(seq, i) <= q
    IN  {i \in places : highest - QualityAt(seq, i) <= Epsilon}

Key(c) == <<evaluation[c].cost,
            IF evaluation[c].p95 = null THEN Infinity ELSE evaluation[c].p95, c>>

Precedes(k, l) ==
    \E i \in DOMAIN k : k[i] < l[i] /\ \A j \in 1..(i - 1) : k[j] = l[j]

\* min(): the first with the least key
Least(seq, places) ==
    CHOOSE i \in places : \A j \in places :
        /\ ~Precedes(Key(seq[j]), Key(seq[i]))
        /\ j < i => Precedes(Key(seq[i]), Key(seq[j]))

\* select_winner, for the candidates in the order in which they ran
SelectWinner(seq) ==
    LET eligible == {i \in DOMAIN seq : IsEligible(evaluation[seq[i]])} IN
    IF eligible = {} THEN NoRecommendation ELSE seq[Least(seq, Close(seq, eligible))]

Orders ==
    {seq \in [1..Cardinality(Candidates) -> Candidates] :
        {seq[i] : i \in DOMAIN seq} = Candidates}

Decide ==
    /\ evaluation # << >> /\ verdict = null
    /\ \E order \in Orders : verdict' = SelectWinner(order)
    /\ UNCHANGED <<outcome, complete, semantic, evaluation>>

VerdictNext == Evaluate \/ Decide

VerdictSpec == VerdictInit /\ [][VerdictNext]_verdictVars

-----------------------------------------------------------------------------
(* Properties *)

Recommended == verdict \in Candidates

\* Whatever is wrong with a candidate, in its run, its metering, its cleanup or the
\* scope of the run, and however good its answers are, it is not recommended: a
\* winner has observed every case, with its cost and usage measured and its cleanup
\* proved (the gates of _canonical_evaluations and eligibility_reasons together).
WinnerIsJustified ==
    Recommended =>
        LET o == outcome[verdict] IN
        /\ complete /\ semantic
        /\ o.flaw = null /\ o.failed = 0 /\ o.absent = 0
        /\ Quality(o) >= QualityFloor

\* Nobody eligible leads c by more than Epsilon.
InReach(c) ==
    \A d \in Candidates : IsEligible(evaluation[d]) =>
        evaluation[d].quality <= evaluation[c].quality + Epsilon

\* The policy of the comparison (the order of README.md), whatever the order the
\* candidates ran in: an eligible candidate is recommended when there is one, nobody
\* eligible leads it by more than Epsilon, and of those nobody leads it has the lowest
\* cost, then latency, then id; so what is recommended is never dominated.
VerdictIsThePolicy ==
    verdict # null =>
        LET eligible == {c \in Candidates : IsEligible(evaluation[c])} IN
        /\ verdict = NoRecommendation <=> eligible = {}
        /\ Recommended =>
              /\ verdict \in eligible /\ InReach(verdict)
              /\ \A c \in eligible \ {verdict} :
                    InReach(c) => Precedes(Key(verdict), Key(c))

-----------------------------------------------------------------------------
(* What the documents say of the program *)

\* docs/methodology.md: "the highest score wins" among the eligible candidates.
HighestScoreWins ==
    Recommended =>
        \A c \in Candidates :
            IsEligible(evaluation[c]) => evaluation[c].quality <= evaluation[verdict].quality
=============================================================================
