----------------------------- MODULE MeteringBudget -----------------------------
(***************************************************************************)
(* The metering proxies of metering.py: the handler threads of every       *)
(* candidate's LoopbackMeteringProxy forward a request to the provider and *)
(* record its usage in one MeteringBudget, shared by the whole run.        *)
(*                                                                         *)
(* record_event reads budget_exceeded before it takes the lock, and do_POST *)
(* calls the provider before record_event.                                 *)
(***************************************************************************)
EXTENDS Naturals, Sequences, FiniteSets

CONSTANTS
    Threads,     \* handler threads, over all the proxies
    Native,      \* those that serve a candidate's own process, not chat()
    Budget,      \* budget_usd, in some unit of money
    Costs,       \* what a response may cost
    MaxCost,     \* no response costs more
    Unpriced,    \* a response without token counts, or of a model the price
                 \* sheet does not know: its event is recorded, its cost is not
    MaxRequests  \* bound on the requests of one thread (state space only)

ASSUME MeteringAssumption ==
    /\ IsFiniteSet(Threads) /\ Native \subseteq Threads
    /\ Budget \in Nat \ {0}
    /\ MaxCost \in Nat /\ Costs \subseteq 0..MaxCost
    /\ Unpriced \notin Nat
    /\ MaxRequests \in Nat

VARIABLES
    events,     \* MeteringBudget.events: a cost, or Unpriced
    spent,      \* spent_usd
    exceeded,   \* budget_exceeded
    pc,         \* per thread: where do_POST is
    charge,     \* per thread: what the response in hand costs
    requests    \* per thread: requests received

vars == <<events, spent, exceeded, pc, charge, requests>>

Price(c) == IF c = Unpriced THEN 0 ELSE c

Init ==
    /\ events = <<>> /\ spent = 0 /\ exceeded = FALSE
    /\ pc       = [t \in Threads |-> "idle"]
    /\ charge   = [t \in Threads |-> Unpriced]
    /\ requests = [t \in Threads |-> 0]

Goto(t, here) == pc' = [pc EXCEPT ![t] = here]

\* chat() refuses at once when the budget is exceeded; a native process posts
\* to the proxy itself.
Post(t) ==
    /\ pc[t] = "idle"
    /\ requests[t] < MaxRequests
    /\ t \in Native \/ ~exceeded
    /\ Goto(t, "upstream")
    /\ requests' = [requests EXCEPT ![t] = @ + 1]
    /\ UNCHANGED <<events, spent, exceeded, charge>>

UpstreamReturns(t) ==
    /\ pc[t] = "upstream"
    /\ \E c \in Costs \cup {Unpriced} : charge' = [charge EXCEPT ![t] = c]
    /\ Goto(t, "charged")
    /\ UNCHANGED <<events, spent, exceeded, requests>>

\* The provider call raised: the connection is dropped without a record.
UpstreamRaises(t) ==
    /\ pc[t] = "upstream"
    /\ Goto(t, "idle")
    /\ UNCHANGED <<events, spent, exceeded, charge, requests>>

\* Variant of CheckBudget that never refuses
CheckBudgetNever(t) ==
    /\ pc[t] = "charged"
    /\ Goto(t, "recording")
    /\ UNCHANGED <<events, spent, exceeded, charge, requests>>

\* record_event, before the lock: a budget exceeded meanwhile raises, the
\* reply is 402 and the event is dropped.
CheckBudget(t) ==
    /\ pc[t] = "charged"
    /\ IF exceeded
       THEN Goto(t, "idle") /\ charge' = [charge EXCEPT ![t] = Unpriced]
       ELSE Goto(t, "recording") /\ UNCHANGED charge
    /\ UNCHANGED <<events, spent, exceeded, requests>>

\* record_event, under the lock: the event that crosses the budget is kept and
\* its reply is 402 too.
Record(t) ==
    /\ pc[t] = "recording"
    /\ events' = Append(events, charge[t])
    /\ spent' = spent + Price(charge[t])
    /\ exceeded' = (exceeded \/ (charge[t] # Unpriced /\ spent' > Budget))
    /\ Goto(t, "idle")
    /\ charge' = [charge EXCEPT ![t] = Unpriced]
    /\ UNCHANGED requests

Next ==
    \E t \in Threads :
        \/ Post(t) \/ UpstreamReturns(t) \/ UpstreamRaises(t)
        \/ CheckBudget(t) \/ Record(t)

Spec == Init /\ [][Next]_vars

-----------------------------------------------------------------------------
(* Properties *)

\* Every variable keeps its type.
TypeOK ==
    /\ events \in Seq(Costs \cup {Unpriced})
    /\ spent \in Nat /\ exceeded \in BOOLEAN
    /\ pc \in [Threads -> {"idle", "upstream", "charged", "recording"}]
    /\ charge \in [Threads -> Costs \cup {Unpriced}]
    /\ requests \in [Threads -> 0..MaxRequests]

\* The unlocked check lets a late event through, but no thread twice: however
\* many requests race with the one that crosses the cap, the ledger passes the
\* cap by one response of each thread at most.
OvershootIsBounded ==
    spent <= Budget + Cardinality(Threads) * MaxCost
=============================================================================
