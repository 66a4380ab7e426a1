--------------------------- MODULE MeteredRun_proofs ---------------------------
(***************************************************************************)
(* What holds of a run for any number of handler threads, candidates,      *)
(* probes and requests, any budget and any costs: the overshoot bound of   *)
(* MeteringBudget first, then that the run implements MeteringBudget, so   *)
(* that the bound carries over, and that the answer a handler records is   *)
(* its own.                                                                *)
(*                                                                         *)
(* OvershootIsBounded is not inductive: what keeps it is that a thread     *)
(* between the unlocked check and the lock still has its one response to   *)
(* record, and that nobody joins those threads once the cap is exceeded.   *)
(*                                                                         *)
(* AnswerIsOwn is not inductive: it needs that a thread inside answer() of *)
(* the shared client is still waiting for its upstream, so that what its   *)
(* CLI answers meanwhile changes no response that is about to be recorded. *)
(*                                                                         *)
(* CompleteCostIsTheBill needs the balance of a candidate while its        *)
(* requests run: what it was billed is in its events and in the responses  *)
(* its threads have in hand, until an event is dropped for the budget.     *)
(***************************************************************************)
EXTENDS MeteredRun, FiniteSetTheorems, SequenceTheorems, WellFoundedInduction, TLAPS

-----------------------------------------------------------------------------
(* The shared budget *)

Recording == {t \in Threads : pc[t] = "recording"}

\* What the ledger may still get to is within the bound.
Reserve ==
    IF exceeded
    THEN spent + Cardinality(Recording) * MaxCost
            <= Budget + Cardinality(Threads) * MaxCost
    ELSE spent <= Budget

IInv == TypeOK /\ Reserve

\* A product grows with its first factor, by the second factor for each step.
LEMMA Products ==
    ASSUME NEW m \in Nat, NEW n \in Nat, NEW k \in Nat, m + 1 <= n
    PROVE  m * k + k <= n * k /\ m * k \in Nat /\ n * k \in Nat
<1>1. PICK d \in Nat : n = m + 1 + d
  <2>1. n - (m + 1) \in Nat /\ n = m + 1 + (n - (m + 1))
    OBVIOUS
  <2> QED BY <2>1
<1>2. n * k = m * k + k + d * k
  BY <1>1
<1>3. d * k \in Nat /\ m * k \in Nat
  OBVIOUS
<1> QED BY <1>2, <1>3

\* A response costs a bounded amount, nothing when its price is not known.
LEMMA PriceRange ==
    ASSUME MeteringAssumption, NEW c \in Costs \cup {Unpriced}
    PROVE  Price(c) \in 0..MaxCost
<1>1. CASE c = Unpriced
  BY <1>1 DEF MeteringAssumption, Price
<1>2. CASE c # Unpriced
  BY <1>2 DEF MeteringAssumption, Price
<1> QED BY <1>1, <1>2

\* The set of threads between check and lock, and all threads, are counted.
LEMMA Counted ==
    ASSUME MeteringAssumption
    PROVE  /\ IsFiniteSet(Recording) /\ Cardinality(Recording) \in Nat
           /\ Cardinality(Threads) \in Nat
           /\ Cardinality(Recording) <= Cardinality(Threads)
<1>1. IsFiniteSet(Threads) /\ Recording \subseteq Threads
  BY DEF MeteringAssumption, Recording
<1> QED BY <1>1, FS_Subset, FS_CardinalityType

\* Every step keeps the types.
LEMMA NextType == TypeOK /\ [Next]_vars => TypeOK'
<1> SUFFICES ASSUME TypeOK, [Next]_vars PROVE TypeOK'
  OBVIOUS
<1> USE MeteringAssumption DEF MeteringAssumption, TypeOK, Goto, Price
<1>1. CASE UNCHANGED vars
  BY <1>1 DEF vars
<1>2. ASSUME NEW t \in Threads, Post(t) PROVE TypeOK'
  BY <1>2 DEF Post
<1>3. ASSUME NEW t \in Threads, UpstreamReturns(t) PROVE TypeOK'
  BY <1>3 DEF UpstreamReturns
<1>4. ASSUME NEW t \in Threads, UpstreamRaises(t) PROVE TypeOK'
  BY <1>4 DEF UpstreamRaises
<1>5. ASSUME NEW t \in Threads, CheckBudget(t) PROVE TypeOK'
  BY <1>5 DEF CheckBudget
<1>6. ASSUME NEW t \in Threads, Record(t) PROVE TypeOK'
  <2>1. charge[t] \in Costs \cup {Unpriced}
    OBVIOUS
  <2>2. events' \in Seq(Costs \cup {Unpriced})
    <3>1. events \in Seq(Costs \cup {Unpriced}) /\ events' = Append(events, charge[t])
      BY <1>6 DEF Record
    <3> QED BY <3>1, <2>1
  <2>3. spent' \in Nat
    <3>1. spent \in Nat /\ MaxCost \in Nat /\ Price(charge[t]) \in 0..MaxCost
      BY <2>1, PriceRange
    <3>2. spent' = spent + Price(charge[t])
      BY <1>6 DEF Record
    <3> QED BY <3>1, <3>2
  <2>4. pc' \in [Threads -> {"idle", "upstream", "charged", "recording"}]
    BY <1>6 DEF Record
  <2>5. charge' \in [Threads -> Costs \cup {Unpriced}]
    BY <1>6 DEF Record
  <2>6. requests' \in [Threads -> 0..MaxRequests] /\ exceeded' \in BOOLEAN
    BY <1>6 DEF Record
  <2> QED BY <2>2, <2>3, <2>4, <2>5, <2>6
<1> QED BY <1>1, <1>2, <1>3, <1>4, <1>5, <1>6 DEF Next

\* A step that changes neither the ledger nor, once the cap is exceeded, who is
\* about to record keeps the reserve.
LEMMA ReserveKept ==
    ASSUME IInv, UNCHANGED <<spent, exceeded>>, exceeded => Recording' = Recording
    PROVE  Reserve'
BY DEF IInv, Reserve

\* Recording a response uses up the reserve of the thread that records it.
LEMMA RecordReserve ==
    ASSUME IInv, NEW t \in Threads, Record(t)
    PROVE  Reserve'
<1> USE MeteringAssumption
<1> DEFINE r == Cardinality(Recording)
<1>1. t \in Recording /\ Recording' = Recording \ {t}
  BY DEF Record, Goto, Recording, IInv, TypeOK
<1>2. Cardinality(Recording') = r - 1
  BY <1>1, Counted, FS_RemoveElement
<1>3. r \in Nat /\ Cardinality(Threads) \in Nat /\ r <= Cardinality(Threads) /\ r - 1 \in Nat
  <2>1. Cardinality(Recording \ {t}) \in Nat
    BY <1>1, Counted, FS_RemoveElement, FS_CardinalityType
  <2> QED BY <2>1, <1>1, <1>2, Counted
<1>4. Price(charge[t]) \in 0..MaxCost /\ MaxCost \in Nat /\ Budget \in Nat /\ spent \in Nat
  <2>1. charge[t] \in Costs \cup {Unpriced} /\ spent \in Nat
    BY DEF IInv, TypeOK
  <2>2. MaxCost \in Nat /\ Budget \in Nat
    BY DEF MeteringAssumption
  <2> QED BY <2>1, <2>2, PriceRange
<1>5. spent' = spent + Price(charge[t])
  BY DEF Record
<1>6. CASE exceeded
  <2>1. exceeded'
    BY <1>6 DEF Record
  <2>2. (r - 1) * MaxCost + MaxCost <= r * MaxCost
        /\ (r - 1) * MaxCost \in Nat /\ r * MaxCost \in Nat
    BY <1>3, <1>4, Products
  <2>3. spent + r * MaxCost <= Budget + Cardinality(Threads) * MaxCost
    BY <1>6 DEF IInv, Reserve
  <2>4. Cardinality(Threads) * MaxCost \in Nat
    BY <1>3, <1>4
  <2>5. spent' + (r - 1) * MaxCost <= Budget + Cardinality(Threads) * MaxCost
    BY <2>2, <2>3, <2>4, <1>4, <1>5
  <2> QED BY <2>1, <2>5, <1>2 DEF Reserve
<1>7. CASE ~exceeded
  <2>1. spent <= Budget
    BY <1>7 DEF IInv, Reserve
  <2>2. (r - 1) * MaxCost + MaxCost <= Cardinality(Threads) * MaxCost
        /\ (r - 1) * MaxCost \in Nat /\ Cardinality(Threads) * MaxCost \in Nat
    BY <1>3, <1>4, Products
  <2>3. CASE exceeded'
    <3>1. spent' + (r - 1) * MaxCost <= Budget + Cardinality(Threads) * MaxCost
      BY <2>1, <2>2, <1>4, <1>5
    <3> QED BY <2>3, <3>1, <1>2 DEF Reserve
  <2>4. CASE ~exceeded'
    <3>1. charge[t] = Unpriced \/ ~(spent' > Budget)
      BY <2>4 DEF Record
    <3>2. spent' <= Budget
      BY <3>1, <2>1, <1>4, <1>5 DEF Price
    <3> QED BY <3>2, <2>4 DEF Reserve
  <2> QED BY <2>3, <2>4
<1> QED BY <1>6, <1>7

\* Every step keeps the reserve.
LEMMA NextReserve == IInv /\ [Next]_vars => Reserve'
<1> SUFFICES ASSUME IInv, [Next]_vars PROVE Reserve'
  OBVIOUS
<1>1. CASE UNCHANGED vars
  BY <1>1, ReserveKept DEF vars, Recording
<1>2. ASSUME NEW t \in Threads, Post(t) PROVE Reserve'
  <2>1. Recording' = Recording
    BY <1>2 DEF Post, Goto, Recording, IInv, TypeOK
  <2> QED BY <1>2, <2>1, ReserveKept DEF Post
<1>3. ASSUME NEW t \in Threads, UpstreamReturns(t) PROVE Reserve'
  <2>1. Recording' = Recording
    BY <1>3 DEF UpstreamReturns, Goto, Recording, IInv, TypeOK
  <2> QED BY <1>3, <2>1, ReserveKept DEF UpstreamReturns
<1>4. ASSUME NEW t \in Threads, UpstreamRaises(t) PROVE Reserve'
  <2>1. Recording' = Recording
    BY <1>4 DEF UpstreamRaises, Goto, Recording, IInv, TypeOK
  <2> QED BY <1>4, <2>1, ReserveKept DEF UpstreamRaises
<1>5. ASSUME NEW t \in Threads, CheckBudget(t) PROVE Reserve'
  <2>1. exceeded => Recording' = Recording
    BY <1>5 DEF CheckBudget, Goto, Recording, IInv, TypeOK
  <2> QED BY <1>5, <2>1, ReserveKept DEF CheckBudget
<1>6. ASSUME NEW t \in Threads, Record(t) PROVE Reserve'
  BY <1>6, RecordReserve
<1> QED BY <1>1, <1>2, <1>3, <1>4, <1>5, <1>6 DEF Next

LEMMA InitEstablishes == Init => IInv
<1> SUFFICES ASSUME Init PROVE TypeOK /\ Reserve
  BY DEF IInv
<1>1. TypeOK
  <2>1. charge \in [Threads -> Costs \cup {Unpriced}]
    BY DEF Init
  <2>2. requests \in [Threads -> 0..MaxRequests]
    BY MeteringAssumption DEF Init, MeteringAssumption
  <2>3. events \in Seq(Costs \cup {Unpriced})
    BY DEF Init
  <2>4. pc \in [Threads -> {"idle", "upstream", "charged", "recording"}]
    BY DEF Init
  <2>5. spent \in Nat /\ exceeded \in BOOLEAN
    BY DEF Init
  <2> QED BY <2>1, <2>2, <2>3, <2>4, <2>5 DEF TypeOK
<1>2. ~exceeded /\ spent <= Budget
  BY MeteringAssumption DEF Init, MeteringAssumption
<1> QED BY <1>1, <1>2 DEF Reserve

\* The inductive invariant of the shared budget: the types of its ledger and
\* the reserve that record_event's unlocked check leaves to each thread.
THEOREM Invariance == Spec => []IInv
<1>1. IInv /\ [Next]_vars => IInv'
  BY NextType, NextReserve DEF IInv
<1> QED BY <1>1, InitEstablishes, PTL DEF Spec

\* The recorded spend of a run passes its budget by less than one response of
\* each handler thread, however the threads race with the one that crosses it.
THEOREM OvershootBound == Spec => []OvershootIsBounded
<1>1. IInv => OvershootIsBounded
  <2> SUFFICES ASSUME IInv PROVE OvershootIsBounded
    OBVIOUS
  <2> USE MeteringAssumption
  <2>1. Cardinality(Recording) \in Nat /\ Cardinality(Threads) \in Nat
    BY Counted
  <2>2. spent \in Nat /\ Budget \in Nat /\ MaxCost \in Nat
    BY DEF IInv, TypeOK, MeteringAssumption
  <2>3. Cardinality(Recording) * MaxCost \in Nat /\ Cardinality(Threads) * MaxCost \in Nat
    BY <2>1, <2>2
  <2> QED BY <2>2, <2>3 DEF IInv, Reserve, OvershootIsBounded
<1> QED BY <1>1, Invariance, PTL

-----------------------------------------------------------------------------
(* The answers of the shared client *)

\* The variables of a request: functions of the thread that serves it.
ClientType ==
    /\ call \in [Threads -> {"none", "status", "execute", "remember", "return"}]
    /\ DOMAIN output = Threads /\ output = [t \in Threads |-> output[t]]
    /\ DOMAIN reply = Threads /\ reply = [t \in Threads |-> reply[t]]

Waiting == \A t \in Threads : call[t] # "none" => pc[t] = "upstream"

ClientInv == ClientType /\ Waiting /\ AnswerIsOwn

-----------------------------------------------------------------------------
(* The run implements MeteringBudget *)

\* The gates of local(), the probes and the ends of candidates leave the budget
\* and the requests alone.
LEMMA AloneSteps ==
    ASSUME \/ Local
           \/ \E p \in Probers : BeginProbe(p)
           \/ \E p \in Probers \cup {Run} : ProbeEnds(p)
           \/ \E c \in ToSet(Candidates) : Reconcile(c) \/ Abandon(c)
    PROVE  vars' = vars /\ clientVars' = clientVars
<1>1. CASE Local
  BY <1>1 DEF Local, RefusedUnasked, Built, ProbeInProgress, BeginProbe, Identified
<1>2. ASSUME NEW p \in Probers, BeginProbe(p) PROVE vars' = vars /\ clientVars' = clientVars
  BY <1>2 DEF BeginProbe
<1>3. ASSUME NEW p \in Probers \cup {Run}, ProbeEnds(p)
      PROVE  vars' = vars /\ clientVars' = clientVars
  BY <1>3 DEF ProbeEnds, EndProbe, ProbeRaises
<1>4. ASSUME NEW c, Reconcile(c) \/ Abandon(c) PROVE vars' = vars /\ clientVars' = clientVars
  BY <1>4 DEF Reconcile, Abandon, Ends
<1> QED BY <1>1, <1>2, <1>3, <1>4

\* A step of a handler thread is a step of MeteringBudget, or one inside the
\* shared client.
LEMMA HandlerSteps ==
    ASSUME NEW t \in Threads, Receive(t) \/ Handle(t)
    PROVE  [Next]_vars
<1>1. CASE Receive(t)
  BY <1>1 DEF Receive, Next
<1>2. CASE ProviderAnswers(t)
  BY <1>2 DEF ProviderAnswers, Next
<1>3. CASE StatusIsReady(t) \/ Execute(t) \/ Remember(t)
  BY <1>3 DEF StatusIsReady, Execute, Remember
<1>4. CASE ClientAnswers(t)
  BY <1>4 DEF ClientAnswers, Respond, Next
<1>5. CASE Raises(t)
  BY <1>5 DEF Raises, Next
<1>6. CASE Check(t)
  BY <1>6 DEF Check, Next
<1>7. CASE RecordEvent(t)
  BY <1>7 DEF RecordEvent, Next
<1> QED BY <1>1, <1>2, <1>3, <1>4, <1>5, <1>6, <1>7 DEF Handle

\* Every step of a run is a step of MeteringBudget or leaves its variables alone.
THEOREM RunImplementsBudget == RunSpec => Spec
<1>1. RunInit => Init
  BY DEF RunInit
<1>2. [RunNext]_runVars => [Next]_vars
  <2>1. CASE RunNext
    BY <2>1, AloneSteps, HandlerSteps DEF RunNext
  <2>2. CASE UNCHANGED runVars
    BY <2>2 DEF runVars
  <2> QED BY <2>1, <2>2
<1> QED BY <1>1, <1>2, PTL DEF RunSpec, Spec

\* Whatever candidates and their handlers do, in whatever order they end or are
\* killed, the spend of the run passes its cap by one response of each thread at
\* most.
THEOREM RunOvershootBound == RunSpec => []OvershootIsBounded
  BY RunImplementsBudget, OvershootBound, PTL

-----------------------------------------------------------------------------
(* The answer a handler records is its own *)

\* A step that changes one thread keeps the invariant if it keeps it for that one.
LEMMA OneThread ==
    ASSUME ClientInv, NEW t \in Threads, ClientType',
           \A u \in Threads \ {t} :
              /\ call'[u] = call[u] /\ pc'[u] = pc[u]
              /\ reply'[u] = reply[u] /\ output'[u] = output[u],
           call'[t] # "none" => pc'[t] = "upstream",
           pc'[t] \in {"charged", "recording"} /\ reply'[t].of # Nobody =>
              reply'[t] = [source |-> UsageSource(output'[t]), of |-> t]
    PROVE  ClientInv'
<1>1. Waiting'
  BY DEF ClientInv, Waiting
<1>2. AnswerIsOwn'
  <2> SUFFICES ASSUME NEW u \in Threads,
                      pc'[u] \in {"charged", "recording"}, reply'[u].of # Nobody
               PROVE  reply'[u] = [source |-> UsageSource(output'[u]), of |-> u]
    BY DEF AnswerIsOwn
  <2>1. CASE u = t
    BY <2>1
  <2>2. CASE u # t
    BY <2>2 DEF ClientInv, AnswerIsOwn
  <2> QED BY <2>1, <2>2
<1> QED BY <1>1, <1>2 DEF ClientInv

\* The request that is received, refused or recorded leaves no response in hand.
LEMMA RequestSteps ==
    ASSUME ClientInv, TypeOK, NEW t \in Threads,
           Receive(t) \/ Raises(t) \/ Check(t) \/ RecordEvent(t)
    PROVE  ClientInv'
<1> USE DEF ClientInv, ClientType, TypeOK, Goto
<1>1. CASE Receive(t)
  <2>1. ClientType'
    BY <1>1 DEF Receive, Post
  <2>2. pc' = [pc EXCEPT ![t] = "upstream"] /\ reply' = reply /\ output' = output
    BY <1>1 DEF Receive, Post
  <2>3. \A u \in Threads \ {t} : call'[u] = call[u]
    BY <1>1 DEF Receive
  <2> QED BY <2>1, <2>2, <2>3, OneThread
<1>2. CASE Raises(t)
  <2>1. /\ pc' = [pc EXCEPT ![t] = "idle"] /\ call' = [call EXCEPT ![t] = "none"]
        /\ output' = [output EXCEPT ![t] = NoAnswer] /\ reply' = [reply EXCEPT ![t] = NoReply]
    BY <1>2 DEF Raises, UpstreamRaises, Forget
  <2>2. ClientType'
    BY <2>1
  <2> QED BY <2>1, <2>2, OneThread
<1>3. CASE Check(t)
  <2>1. call' = call /\ call[t] = "none" /\ pc[t] = "charged"
    BY <1>3 DEF Check, CheckBudget, Waiting
  <2>2. CASE pc' = [pc EXCEPT ![t] = "idle"]
    <3>1. /\ output' = [output EXCEPT ![t] = NoAnswer]
          /\ reply' = [reply EXCEPT ![t] = NoReply]
      BY <1>3, <2>2 DEF Check, Forget
    <3>2. ClientType'
      BY <2>1, <3>1
    <3> QED BY <2>1, <2>2, <3>1, <3>2, OneThread
  <2>3. CASE pc' = [pc EXCEPT ![t] = "recording"]
    <3>1. output' = output /\ reply' = reply
      BY <1>3, <2>3 DEF Check
    <3>2. ClientType'
      BY <2>1, <3>1
    <3>3. reply[t].of # Nobody => reply[t] = [source |-> UsageSource(output[t]), of |-> t]
      BY <2>1 DEF AnswerIsOwn
    <3> QED BY <2>1, <2>3, <3>1, <3>2, <3>3, OneThread
  <2> QED BY <1>3, <2>2, <2>3 DEF Check, CheckBudget
<1>4. CASE RecordEvent(t)
  <2>1. /\ pc' = [pc EXCEPT ![t] = "idle"] /\ pc[t] = "recording" /\ call' = call
        /\ output' = [output EXCEPT ![t] = NoAnswer] /\ reply' = [reply EXCEPT ![t] = NoReply]
    BY <1>4 DEF RecordEvent, Record, Forget
  <2>2. call[t] = "none"
    BY <2>1 DEF Waiting
  <2>3. ClientType'
    BY <2>1
  <2> QED BY <2>1, <2>2, <2>3, OneThread
<1> QED BY <1>1, <1>2, <1>3, <1>4

\* An answer is remembered, and returned, by the thread whose CLI gave it.
LEMMA AnswerSteps ==
    ASSUME ClientInv, TypeOK, NEW t \in Threads,
           \/ ProviderAnswers(t) \/ StatusIsReady(t) \/ Execute(t)
           \/ Remember(t) \/ ClientAnswers(t)
    PROVE  ClientInv'
<1> USE DEF ClientInv, ClientType, TypeOK, Goto
<1>1. CASE ProviderAnswers(t)
  <2>1. PICK source : reply' = [reply EXCEPT ![t] = [source |-> source, of |-> Nobody]]
    BY <1>1 DEF ProviderAnswers
  <2>2. /\ pc' = [pc EXCEPT ![t] = "charged"] /\ call[t] = "none"
        /\ call' = call /\ output' = output
    BY <1>1 DEF ProviderAnswers, UpstreamReturns
  <2>3. ClientType'
    BY <2>1, <2>2
  <2> QED BY <2>1, <2>2, <2>3, OneThread
<1>2. CASE StatusIsReady(t)
  <2>1. /\ call' = [call EXCEPT ![t] = "execute"] /\ pc' = pc /\ reply' = reply
        /\ output' = output /\ pc[t] = "upstream"
    BY <1>2 DEF StatusIsReady, vars, Waiting
  <2>2. ClientType'
    BY <2>1
  <2> QED BY <2>1, <2>2, OneThread
<1>3. CASE Execute(t)
  <2>1. PICK usage : output' = [output EXCEPT ![t] = usage]
    BY <1>3 DEF Execute
  <2>2. /\ call' = [call EXCEPT ![t] = "remember"] /\ pc' = pc /\ reply' = reply
        /\ pc[t] = "upstream"
    BY <1>3 DEF Execute, vars, Waiting
  <2>3. ClientType'
    BY <2>1, <2>2
  <2> QED BY <2>1, <2>2, <2>3, OneThread
<1>4. CASE Remember(t)
  <2>1. /\ call' = [call EXCEPT ![t] = "return"] /\ pc' = pc /\ reply' = reply
        /\ output' = output /\ pc[t] = "upstream"
    BY <1>4 DEF Remember, vars, Waiting
  <2>2. ClientType'
    BY <2>1
  <2> QED BY <2>1, <2>2, OneThread
<1>5. CASE ClientAnswers(t)
  <2>1. /\ reply' = [reply EXCEPT ![t] = [source |-> UsageSource(output[t]), of |-> t]]
        /\ call' = [call EXCEPT ![t] = "none"] /\ output' = output
        /\ pc' = [pc EXCEPT ![t] = "charged"]
    BY <1>5 DEF ClientAnswers, Respond, UpstreamReturns
  <2>2. ClientType'
    BY <2>1
  <2> QED BY <2>1, <2>2, OneThread
<1> QED BY <1>1, <1>2, <1>3, <1>4, <1>5

\* The types of the ledger and the client hold throughout a run.
THEOREM ClientInvariance == RunSpec => [](TypeOK /\ ClientInv)
<1>1. RunInit => ClientInv
  BY DEF RunInit, Init, ClientInv, ClientType, Waiting, AnswerIsOwn, NoReply
<1>2. ClientInv /\ TypeOK /\ [RunNext]_runVars => ClientInv'
  <2> SUFFICES ASSUME ClientInv, TypeOK, [RunNext]_runVars PROVE ClientInv'
    OBVIOUS
  <2>1. CASE vars' = vars /\ clientVars' = clientVars
    BY <2>1 DEF vars, clientVars, ClientInv, ClientType, Waiting, AnswerIsOwn
  <2>2. CASE UNCHANGED runVars
    BY <2>1, <2>2 DEF runVars
  <2>3. ASSUME NEW t \in Threads, Receive(t) \/ Handle(t) PROVE ClientInv'
    BY <2>3, RequestSteps, AnswerSteps DEF Handle
  <2> QED BY <2>1, <2>2, <2>3, AloneSteps DEF RunNext
<1>3. RunSpec => []TypeOK
  <2>1. IInv => TypeOK
    BY DEF IInv
  <2> QED BY <2>1, RunImplementsBudget, Invariance, PTL
<1> QED BY <1>1, <1>2, <1>3, PTL DEF RunSpec

\* However the threads interleave inside the one client they share, a response
\* about to be recorded is the answer of the recording thread's own CLI process,
\* measured exactly when that one was.
THEOREM AnswersAreOwn == RunSpec => []AnswerIsOwn
<1>1. ClientInv => AnswerIsOwn
  BY DEF ClientInv
<1> QED BY <1>1, ClientInvariance, PTL

-----------------------------------------------------------------------------
(* Totals *)

\* A set of numbers that has 0, and with a number the next one, has them all.
LEMMA Induction ==
    ASSUME NEW S \in SUBSET Nat, 0 \in S, \A n \in S : n + 1 \in S
    PROVE  S = Nat
<1> DEFINE R == OpToRel(<, Nat)
           T == Nat \ S
<1>1. IsWellFoundedOn(R, Nat)
  BY NatLessThanWellFounded, Zenon
<1>2. \A x, y \in Nat : y < x => <<y, x>> \in R
  BY DEF OpToRel
<1> HIDE DEF R
<1>3. SUFFICES ASSUME T # {} PROVE FALSE
  OBVIOUS
<1>4. PICK x \in T : \A y \in T : ~(<<y, x>> \in R)
  BY <1>1, <1>3, WFMin
<1>5. x \in Nat /\ x # 0 /\ x - 1 \in Nat /\ x - 1 < x /\ (x - 1) + 1 = x
  OBVIOUS
<1>6. <<x - 1, x>> \in R
  BY <1>2, <1>5
<1>7. x - 1 \in S
  BY <1>4, <1>5, <1>6
<1>8. x \in S
  BY <1>5, <1>7
<1> QED BY <1>8

\* Running totals of a sequence of numbers, up to its end
IsSum(sum, seq) ==
    /\ sum \in [0..Len(seq) -> Nat]
    /\ sum[0] = 0
    /\ \A i \in 1..Len(seq) : sum[i] = sum[i - 1] + seq[i]

\* There are some for every sequence.
LEMMA SumExists ==
    ASSUME NEW seq \in Seq(Nat)
    PROVE  \E sum : IsSum(sum, seq)
<1> DEFINE len == Len(seq)
           Up(sum, n) == /\ sum \in [0..n -> Nat] /\ sum[0] = 0
                         /\ \A i \in 1..n : sum[i] = sum[i - 1] + seq[i]
           S == {n \in Nat : n <= len => \E sum : Up(sum, n)}
<1>1. len \in Nat /\ \A i \in 1..len : seq[i] \in Nat
  OBVIOUS
<1>2. 0 \in S
  <2>1. Up([i \in 0..0 |-> 0], 0)
    OBVIOUS
  <2> QED BY <2>1
<1>3. ASSUME NEW n \in S PROVE n + 1 \in S
  <2>1. SUFFICES ASSUME n + 1 <= len PROVE \E sum : Up(sum, n + 1)
    <3>1. n + 1 \in Nat
      OBVIOUS
    <3> HIDE DEF Up
    <3> QED BY <3>1
  <2>2. n \in Nat /\ n <= len
    BY <2>1, <1>1
  <2>3. PICK sum : Up(sum, n)
    BY <2>2
  <2> DEFINE next == [i \in 0..(n + 1) |->
                        IF i = n + 1 THEN sum[n] + seq[n + 1] ELSE sum[i]]
  <2>4. sum[n] \in Nat /\ seq[n + 1] \in Nat
    BY <1>1, <2>1, <2>2, <2>3
  <2>5. next \in [0..(n + 1) -> Nat] /\ next[0] = 0
    BY <2>2, <2>3, <2>4
  <2>6. ASSUME NEW i \in 1..(n + 1) PROVE next[i] = next[i - 1] + seq[i]
    <3>1. CASE i = n + 1
      BY <2>2, <3>1
    <3>2. CASE i # n + 1
      BY <2>2, <2>3, <3>2
    <3> QED BY <3>1, <3>2
  <2> HIDE DEF next
  <2> QED BY <2>5, <2>6
<1>4. S = Nat
  <2> HIDE DEF S
  <2>1. S \in SUBSET Nat
    BY DEF S
  <2> QED BY <1>2, <1>3, <2>1, Induction
<1>5. \E sum : Up(sum, len)
  <2>1. \A n \in S : n <= len => \E sum : Up(sum, n)
    OBVIOUS
  <2> HIDE DEF S, Up
  <2> QED BY <1>1, <1>4, <2>1
<1> QED BY <1>5 DEF IsSum

\* Total is the last of them.
LEMMA TotalIsTheSum ==
    ASSUME NEW seq \in Seq(Nat)
    PROVE  \E sum : IsSum(sum, seq) /\ Total(seq) = sum[Len(seq)]
<1> DEFINE Rec(sum) == sum = [i \in 0..Len(seq) |->
                                 IF i = 0 THEN 0 ELSE sum[i - 1] + seq[i]]
           sum == CHOOSE f : Rec(f)
<1>1. \E f : Rec(f)
  <2>1. PICK f : IsSum(f, seq)
    BY SumExists
  <2>2. Rec(f)
    BY <2>1 DEF IsSum
  <2> QED BY <2>2
<1>2. Rec(sum)
  <2> HIDE DEF Rec
  <2> QED BY <1>1
<1>3. Total(seq) = sum[Len(seq)]
  BY DEF Total
<1>4. IsSum(sum, seq)
  <2> DEFINE len == Len(seq)
             S == {n \in Nat : n <= len => sum[n] \in Nat}
  <2>1. len \in Nat /\ \A i \in 1..len : seq[i] \in Nat
    OBVIOUS
  <2>2. /\ sum = [i \in 0..len |-> sum[i]] /\ sum[0] = 0
        /\ \A i \in 1..len : sum[i] = sum[i - 1] + seq[i]
    <3>1. \A f : f = [i \in 0..len |-> IF i = 0 THEN 0 ELSE f[i - 1] + seq[i]] =>
            /\ f = [i \in 0..len |-> f[i]] /\ f[0] = 0
            /\ \A i \in 1..len : f[i] = f[i - 1] + seq[i]
      BY <2>1
    <3> HIDE DEF sum
    <3> QED BY <1>2, <3>1
  <2> HIDE DEF sum
  <2>3. 0 \in S
    BY <2>2
  <2>4. ASSUME NEW n \in S PROVE n + 1 \in S
    <3>1. n \in Nat /\ (n + 1 <= len => n <= len /\ n + 1 \in 1..len /\ (n + 1) - 1 = n)
      BY <2>1
    <3>2. n + 1 <= len => sum[n] \in Nat /\ sum[n + 1] = sum[n] + seq[n + 1]
      BY <2>2, <3>1
    <3> QED BY <2>1, <3>1, <3>2
  <2>5. S = Nat
    <3>1. S \in SUBSET Nat
      OBVIOUS
    <3> HIDE DEF S
    <3> QED BY <2>3, <2>4, <3>1, Induction
  <2>6. \A n \in 0..len : sum[n] \in Nat
    BY <2>5
  <2> QED BY <2>2, <2>6 DEF IsSum
<1> QED BY <1>3, <1>4

LEMMA TotalIsNatural ==
    ASSUME NEW seq \in Seq(Nat)
    PROVE  Total(seq) \in Nat
<1>1. PICK sum : IsSum(sum, seq) /\ Total(seq) = sum[Len(seq)]
  BY TotalIsTheSum
<1>2. Len(seq) \in Nat
  OBVIOUS
<1> QED BY <1>1, <1>2 DEF IsSum

LEMMA TotalOfNothing == Total(<<>>) = 0
<1>1. PICK sum : IsSum(sum, <<>>) /\ Total(<<>>) = sum[Len(<<>>)]
  <2>1. << >> \in Seq(Nat)
    BY EmptySeq
  <2> QED BY <2>1, TotalIsTheSum
<1>2. Len(<<>>) = 0
  BY EmptySeq
<1> QED BY <1>1, <1>2 DEF IsSum

\* What is added to, or changed in, a sequence is added to its total.
LEMMA TotalOfChange ==
    ASSUME NEW v \in Seq(Nat), NEW w \in Seq(Nat), NEW k \in 1..Len(w),
           Len(w) = Len(v), \A i \in 1..Len(v) : i # k => w[i] = v[i]
    PROVE  /\ Total(w) + v[k] = Total(v) + w[k]
           /\ Total(v) \in Nat /\ Total(w) \in Nat
<1>1. PICK s : IsSum(s, v) /\ Total(v) = s[Len(v)]
  BY TotalIsTheSum
<1>2. PICK t : IsSum(t, w) /\ Total(w) = t[Len(w)]
  BY TotalIsTheSum
<1> DEFINE len == Len(v)
           S == {n \in Nat : n <= len =>
                    IF n < k THEN t[n] = s[n] ELSE t[n] + v[k] = s[n] + w[k]}
<1>3. /\ len \in Nat /\ Len(w) = len /\ k \in 1..len
      /\ \A i \in 1..len : v[i] \in Nat /\ w[i] \in Nat
  OBVIOUS
<1>4. /\ s[0] = 0 /\ t[0] = 0
      /\ \A i \in 0..len : s[i] \in Nat /\ t[i] \in Nat
      /\ \A i \in 1..len : s[i] = s[i - 1] + v[i] /\ t[i] = t[i - 1] + w[i]
  BY <1>1, <1>2, <1>3 DEF IsSum
<1>5. 0 \in S
  BY <1>3, <1>4
<1>6. ASSUME NEW n \in S PROVE n + 1 \in S
  <2>1. SUFFICES ASSUME n + 1 <= len
                 PROVE  IF n + 1 < k THEN t[n + 1] = s[n + 1]
                        ELSE t[n + 1] + v[k] = s[n + 1] + w[k]
    OBVIOUS
  <2>2. /\ n \in Nat /\ n <= len
        /\ IF n < k THEN t[n] = s[n] ELSE t[n] + v[k] = s[n] + w[k]
    BY <2>1, <1>3
  <2>3. s[n + 1] = s[n] + v[n + 1] /\ t[n + 1] = t[n] + w[n + 1]
    BY <1>4, <2>1, <2>2
  <2>4. /\ v[n + 1] \in Nat /\ w[n + 1] \in Nat /\ s[n] \in Nat /\ t[n] \in Nat
        /\ v[k] \in Nat /\ w[k] \in Nat
    BY <1>3, <1>4, <2>1, <2>2
  <2>5. CASE n + 1 = k
    BY <2>2, <2>3, <2>4, <2>5
  <2>6. CASE n + 1 # k
    <3>1. w[n + 1] = v[n + 1] /\ k \in Nat
      BY <2>1, <2>2, <2>6
    <3>2. CASE n < k
      <4>1. n + 1 < k /\ t[n] = s[n]
        BY <2>2, <2>6, <3>1, <3>2
      <4> QED BY <2>3, <3>1, <4>1
    <3>3. CASE ~(n < k)
      <4>1. ~(n + 1 < k) /\ t[n] + v[k] = s[n] + w[k]
        BY <2>2, <3>1, <3>3
      <4> DEFINE a == t[n]
                 b == v[k]
                 c == s[n]
                 d == w[k]
                 e == v[n + 1]
      <4>2. a \in Nat /\ b \in Nat /\ c \in Nat /\ d \in Nat /\ e \in Nat
        BY <2>4
      <4>3. a + b = c + d /\ t[n + 1] = a + e /\ s[n + 1] = c + e
        BY <2>3, <3>1, <4>1
      <4> HIDE DEF a, b, c, d, e
      <4>4. t[n + 1] + b = s[n + 1] + d
        BY <4>2, <4>3
      <4> QED BY <4>1, <4>4 DEF b, d
    <3> QED BY <3>2, <3>3
  <2> QED BY <2>5, <2>6
<1>7. S = Nat
  <2>1. S \in SUBSET Nat
    OBVIOUS
  <2> HIDE DEF S
  <2> QED BY <1>5, <1>6, <2>1, Induction
<1>8. t[len] + v[k] = s[len] + w[k]
  BY <1>3, <1>7
<1> QED BY <1>1, <1>2, <1>3, <1>4, <1>8

LEMMA TotalOfAppend ==
    ASSUME NEW v \in Seq(Nat), NEW x \in Nat
    PROVE  Total(Append(v, x)) = Total(v) + x /\ Total(v) \in Nat
<1> DEFINE w == Append(v, x)
           len == Len(v)
<1>1. w \in Seq(Nat) /\ Len(w) = len + 1 /\ len \in Nat /\ w[len + 1] = x
      /\ \A i \in 1..len : w[i] = v[i]
  BY AppendProperties
<1> HIDE DEF w
<1>2. PICK s : IsSum(s, v) /\ Total(v) = s[Len(v)]
  BY TotalIsTheSum
<1>3. PICK t : IsSum(t, w) /\ Total(w) = t[Len(w)]
  BY <1>1, TotalIsTheSum
<1> DEFINE S == {n \in Nat : n <= len => t[n] = s[n]}
<1>4. /\ s[0] = 0 /\ t[0] = 0
      /\ \A i \in 1..len : s[i] = s[i - 1] + v[i]
      /\ \A i \in 1..(len + 1) : t[i] = t[i - 1] + w[i]
      /\ s[len] \in Nat
  <2>1. Len(w) = len + 1 /\ len \in 0..len
    BY <1>1
  <2> QED BY <1>2, <1>3, <2>1 DEF IsSum
<1>5. 0 \in S
  BY <1>4
<1>6. ASSUME NEW n \in S PROVE n + 1 \in S
  <2>1. n \in Nat /\ (n + 1 <= len => t[n] = s[n] /\ n + 1 \in 1..len)
    BY <1>1
  <2>2. n + 1 <= len => t[n + 1] = s[n + 1]
    BY <1>1, <1>4, <2>1
  <2> QED BY <2>1, <2>2
<1>7. S = Nat
  <2>1. S \in SUBSET Nat
    OBVIOUS
  <2> HIDE DEF S
  <2> QED BY <1>5, <1>6, <2>1, Induction
<1>8. t[len] = s[len]
  BY <1>1, <1>7
<1>9. t[len + 1] = t[len] + x
  BY <1>1, <1>4
<1> QED BY <1>1, <1>2, <1>3, <1>4, <1>8, <1>9 DEF w

LEMMA TotalOfZeros ==
    ASSUME NEW v \in Seq(Nat), \A i \in 1..Len(v) : v[i] = 0
    PROVE  Total(v) = 0
<1>1. PICK s : IsSum(s, v) /\ Total(v) = s[Len(v)]
  BY TotalIsTheSum
<1> DEFINE len == Len(v)
           S == {n \in Nat : n <= len => s[n] = 0}
<1>2. len \in Nat /\ s[0] = 0 /\ \A i \in 1..len : s[i] = s[i - 1] + 0
  BY <1>1 DEF IsSum
<1>3. 0 \in S
  BY <1>2
<1>4. ASSUME NEW n \in S PROVE n + 1 \in S
  BY <1>2
<1>5. S = Nat
  <2>1. S \in SUBSET Nat
    OBVIOUS
  <2> HIDE DEF S
  <2> QED BY <1>3, <1>4, <2>1, Induction
<1>6. s[len] = 0
  BY <1>2, <1>5
<1> QED BY <1>1, <1>6

-----------------------------------------------------------------------------
(* A complete cost is the whole bill *)

\* The handler threads in some order
IsOrder(seq) ==
    /\ seq \in Seq(Threads)
    /\ \A i, j \in DOMAIN seq : seq[i] = seq[j] => i = j
    /\ \A t \in Threads : \E i \in DOMAIN seq : seq[i] = t

Handlers == CHOOSE seq : IsOrder(seq)

InFlight(t) == pc[t] \in {"charged", "recording"}

\* What the responses that are not yet recorded cost c
InHand(c) ==
    [i \in DOMAIN Handlers |->
        IF ServedBy[Handlers[i]] = c /\ InFlight(Handlers[i])
        THEN Price(charge[Handlers[i]]) ELSE 0]

Entries ==
    [candidate : ToSet(Candidates), phase : {"ingest", "query"},
     source : {"measured", "estimated", "unavailable"}, cost : Costs \cup {Unpriced}]

BillType ==
    /\ turn \in Nat \ {0}
    /\ ledger \in Seq(Entries)
    /\ phase \in [Threads -> {"ingest", "query"}]
    /\ \A t \in Threads : reply[t].source \in {"measured", "estimated", "unavailable"}
    /\ DOMAIN reply = Threads
    /\ bill \in [ToSet(Candidates) -> [usd : Nat, known : BOOLEAN]]
    /\ DOMAIN outcome = ToSet(Candidates)

\* A candidate has no outcome before its turn is over.
Ahead ==
    \A i \in DOMAIN Candidates : i >= turn => outcome[Candidates[i]].status = "PENDING"

\* A candidate whose cost is complete has no request left.
Quiet == \A t \in Threads : outcome[ServedBy[t]].status = "COMPLETE" => pc[t] = "idle"

\* What c was billed is in its events and in the responses in hand.
Balanced(c) ==
    /\ bill[c].usd = Total(CostsOf(c)) + Total(InHand(c))
    /\ /\ \A i \in Selected(c) : ledger[i].cost # Unpriced
       /\ \A t \in Threads : ServedBy[t] = c /\ InFlight(t) => charge[t] # Unpriced
       => bill[c].known

\* An event that record_event drops is missing from then on.
Balance == ~exceeded => \A c \in ToSet(Candidates) : Balanced(c)

BillInv == BillType /\ Ahead /\ Quiet /\ Balance /\ CompleteCostIsTheBill

LEMMA HandlersAreOrdered == IsOrder(Handlers)
<1>1. \E n \in Nat : ExistsBijection(1..n, Threads)
  BY MeteringAssumption, FS_NatBijection DEF MeteringAssumption
<1>2. PICK n \in Nat : Bijection(1..n, Threads) # {}
  BY <1>1 DEF ExistsBijection
<1> PICK f \in Bijection(1..n, Threads) : TRUE
  BY <1>2
<1>3. f \in [1..n -> Threads]
  BY DEF Bijection, Injection
<1>4. f \in Seq(Threads)
  BY <1>3
<1>5. \A i, j \in DOMAIN f : f[i] = f[j] => i = j
  BY <1>3 DEF Bijection, Injection, IsInjective
<1>6. \A t \in Threads : \E i \in DOMAIN f : f[i] = t
  BY <1>3 DEF Bijection, Surjection
<1>7. IsOrder(f)
  BY <1>4, <1>5, <1>6 DEF IsOrder
<1> QED BY <1>7 DEF Handlers

LEMMA PriceIsNatural ==
    ASSUME NEW x \in Costs \cup {Unpriced}
    PROVE  Price(x) \in Nat
<1>1. Price(x) \in 0..MaxCost /\ MaxCost \in Nat
  BY MeteringAssumption, PriceRange DEF MeteringAssumption
<1> QED BY <1>1

\* What is added up: natural numbers
Summands ==
    \A c \in ToSet(Candidates) :
        /\ CostsOf(c) \in Seq(Nat) /\ Len(CostsOf(c)) = Len(ledger)
        /\ InHand(c) \in Seq(Nat) /\ Len(InHand(c)) = Len(Handlers)

LEMMA SummandsAreNatural == TypeOK /\ BillType => Summands
<1> SUFFICES ASSUME TypeOK, BillType, NEW c \in ToSet(Candidates)
             PROVE  /\ CostsOf(c) \in Seq(Nat) /\ Len(CostsOf(c)) = Len(ledger)
                    /\ InHand(c) \in Seq(Nat) /\ Len(InHand(c)) = Len(Handlers)
  BY DEF Summands
<1>1. Handlers \in Seq(Threads)
  BY HandlersAreOrdered DEF IsOrder
<1>2. \A i \in DOMAIN ledger : Price(ledger[i].cost) \in Nat
  <2>1. \A i \in DOMAIN ledger : ledger[i] \in Entries
    BY DEF BillType
  <2>2. \A e \in Entries : e.cost \in Costs \cup {Unpriced}
    BY DEF Entries
  <2> QED BY <2>1, <2>2, PriceIsNatural
<1>3. \A t \in Threads : Price(charge[t]) \in Nat
  BY PriceIsNatural DEF TypeOK
<1>4. /\ Len(ledger) \in Nat /\ DOMAIN ledger = 1..Len(ledger)
      /\ Len(Handlers) \in Nat /\ DOMAIN Handlers = 1..Len(Handlers)
      /\ \A i \in DOMAIN Handlers : Handlers[i] \in Threads
  BY <1>1 DEF BillType
<1>5. CostsOf(c) \in [1..Len(ledger) -> Nat]
  BY <1>2, <1>4 DEF CostsOf
<1>6. InHand(c) \in [1..Len(Handlers) -> Nat]
  BY <1>3, <1>4 DEF InHand
<1> QED BY <1>4, <1>5, <1>6

LEMMA SummandsStayNatural == (TypeOK /\ BillType)' => Summands'
  BY SummandsAreNatural, PTL

\* Only what t has in hand changes.
LEMMA OneHand ==
    ASSUME TypeOK, TypeOK', BillType, BillType', NEW t \in Threads,
           NEW c \in ToSet(Candidates),
           \A u \in Threads \ {t} : pc'[u] = pc[u] /\ charge'[u] = charge[u]
    PROVE  /\ Total(InHand(c)) \in Nat /\ Total(InHand(c)') \in Nat
           /\ Total(InHand(c)') + (IF ServedBy[t] = c /\ InFlight(t)
                                   THEN Price(charge[t]) ELSE 0)
                = Total(InHand(c)) + (IF ServedBy[t] = c /\ InFlight(t)'
                                      THEN Price(charge'[t]) ELSE 0)
<1>1. PICK k \in DOMAIN Handlers : Handlers[k] = t
  BY HandlersAreOrdered DEF IsOrder
<1>2. \A i \in DOMAIN Handlers : i # k => Handlers[i] \in Threads \ {t}
  BY <1>1, HandlersAreOrdered DEF IsOrder
<1>3. DOMAIN Handlers = 1..Len(Handlers)
  BY HandlersAreOrdered DEF IsOrder
<1> DEFINE v == InHand(c)
           w == InHand(c)'
<1>4. v \in Seq(Nat) /\ Len(v) = Len(Handlers)
  BY SummandsAreNatural DEF Summands
<1>5. w \in Seq(Nat) /\ Len(w) = Len(Handlers)
  BY SummandsStayNatural DEF Summands
<1>6. \A i \in 1..Len(v) : i # k => w[i] = v[i]
  BY <1>2, <1>3, <1>4 DEF InHand, InFlight
<1>7. /\ v[k] = IF ServedBy[t] = c /\ InFlight(t) THEN Price(charge[t]) ELSE 0
      /\ w[k] = IF ServedBy[t] = c /\ InFlight(t)' THEN Price(charge'[t]) ELSE 0
  BY <1>1 DEF InHand, InFlight
<1> HIDE DEF v, w
<1>8. /\ Total(w) + v[k] = Total(v) + w[k]
      /\ Total(v) \in Nat /\ Total(w) \in Nat
  BY <1>3, <1>4, <1>5, <1>6, TotalOfChange
<1> QED BY <1>7, <1>8 DEF v, w

\* An event is added to the costs of its candidate, and to nobody else's.
LEMMA OneEvent ==
    ASSUME BillType, NEW c \in ToSet(Candidates), NEW e \in Entries,
           ledger' = Append(ledger, e)
    PROVE  /\ CostsOf(c)' = Append(CostsOf(c), IF e.candidate = c THEN Price(e.cost) ELSE 0)
           /\ Selected(c) \subseteq Selected(c)'
           /\ \A i \in Selected(c) : ledger'[i] = ledger[i]
           /\ e.candidate = c => \E i \in Selected(c)' : ledger'[i] = e
<1> DEFINE n == Len(ledger)
<1>1. /\ n \in Nat /\ DOMAIN ledger = 1..n /\ DOMAIN ledger' = 1..(n + 1)
      /\ \A i \in 1..n : ledger'[i] = ledger[i]
      /\ ledger'[n + 1] = e
  BY DEF BillType
<1> HIDE DEF n
<1>2. Selected(c)' = IF e.candidate = c THEN Selected(c) \cup {n + 1} ELSE Selected(c)
  BY <1>1 DEF Selected
<1>3. Selected(c) \subseteq 1..n
  BY <1>1 DEF Selected
<1>4. CostsOf(c)' = [i \in 1..(n + 1) |->
            IF i = n + 1 THEN (IF e.candidate = c THEN Price(e.cost) ELSE 0)
            ELSE CostsOf(c)[i]]
  BY <1>1, <1>2, <1>3 DEF CostsOf, Price
<1>5. CostsOf(c) = [i \in 1..n |-> CostsOf(c)[i]] /\ DOMAIN CostsOf(c) = 1..n
  BY <1>1 DEF CostsOf
<1>6. Len(CostsOf(c)) = n
  BY <1>1, <1>5
<1>7. Append(CostsOf(c), IF e.candidate = c THEN Price(e.cost) ELSE 0)
        = [i \in 1..(n + 1) |->
            IF i = n + 1 THEN (IF e.candidate = c THEN Price(e.cost) ELSE 0)
            ELSE CostsOf(c)[i]]
  BY <1>1, <1>5, <1>6
<1> QED BY <1>1, <1>2, <1>3, <1>4, <1>7

\* A step that adds no event, bills nothing and leaves in flight what was in flight
LEMMA BalanceKept ==
    ASSUME TypeOK, Balance, UNCHANGED <<ledger, bill, exceeded>>,
           \A t \in Threads :
                InFlight(t)' = InFlight(t) /\ (InFlight(t) => charge'[t] = charge[t])
    PROVE  Balance'
<1> SUFFICES ASSUME ~exceeded, NEW c \in ToSet(Candidates)
             PROVE  Balanced(c)'
  BY DEF Balance
<1>1. Balanced(c)
  BY DEF Balance
<1>2. \A i \in DOMAIN Handlers : Handlers[i] \in Threads
  BY HandlersAreOrdered DEF IsOrder
<1>3. InHand(c)' = InHand(c)
  <2>1. \A i \in DOMAIN Handlers :
          /\ InFlight(Handlers[i])' = InFlight(Handlers[i])
          /\ InFlight(Handlers[i]) => charge'[Handlers[i]] = charge[Handlers[i]]
    BY <1>2
  <2> QED BY <2>1 DEF InHand, Price
<1>4. Selected(c)' = Selected(c) /\ CostsOf(c)' = CostsOf(c)
  BY DEF Selected, CostsOf, Price
<1> QED BY <1>1, <1>3, <1>4 DEF Balanced

\* An answer is billed when it comes, and in hand from then on.
LEMMA AnswerIsBilled ==
    ASSUME TypeOK, TypeOK', BillType, BillType', Balance, NEW t \in Threads,
           UpstreamReturns(t), NEW x \in Costs \cup {Unpriced}, charge'[t] = x,
           Billed(t, x), ledger' = ledger
    PROVE  Balance'
<1> SUFFICES ASSUME ~exceeded, NEW c \in ToSet(Candidates)
             PROVE  Balanced(c)'
  BY DEF Balance, UpstreamReturns
<1>1. Balanced(c)
  BY DEF Balance
<1>2. /\ \A u \in Threads \ {t} : pc'[u] = pc[u] /\ charge'[u] = charge[u]
      /\ pc[t] = "upstream" /\ pc'[t] = "charged"
  BY DEF UpstreamReturns, Goto, TypeOK
<1>3. /\ ~InFlight(t) /\ InFlight(t)'
      /\ \A u \in Threads \ {t} : InFlight(u)' = InFlight(u)
  BY <1>2 DEF InFlight
<1>4. /\ Total(InHand(c)) \in Nat /\ Total(InHand(c)') \in Nat
      /\ Total(InHand(c)') + 0
           = Total(InHand(c)) + (IF ServedBy[t] = c THEN Price(x) ELSE 0)
  BY <1>2, <1>3, OneHand
<1>5. Selected(c)' = Selected(c) /\ CostsOf(c)' = CostsOf(c)
  BY DEF Selected, CostsOf, Price
<1>6. Total(CostsOf(c)) \in Nat
  <2>1. CostsOf(c) \in Seq(Nat)
    BY SummandsAreNatural DEF Summands
  <2> QED BY <2>1, TotalIsNatural
<1>7. Price(x) \in Nat
  BY PriceIsNatural
<1>8. bill[c].usd \in Nat /\ bill[c].known \in BOOLEAN
  BY DEF BillType
<1>9. bill'[c].usd = bill[c].usd + (IF ServedBy[t] = c THEN Price(x) ELSE 0)
  BY <1>7, <1>8 DEF Billed, BillType
<1>10. bill'[c].known = IF ServedBy[t] = c THEN bill[c].known /\ x # Unpriced
                        ELSE bill[c].known
  BY <1>8 DEF Billed, BillType
<1>11. (Total(InHand(c)))' = Total(InHand(c)') /\ (Total(CostsOf(c)))' = Total(CostsOf(c)')
  BY DEF Total
<1>12. bill'[c].usd = (Total(CostsOf(c)))' + (Total(InHand(c)))'
  BY <1>1, <1>4, <1>5, <1>6, <1>7, <1>8, <1>9, <1>11 DEF Balanced
<1>13. ASSUME \A i \in Selected(c)' : ledger'[i].cost # Unpriced,
              \A u \in Threads : ServedBy[u] = c /\ InFlight(u)' => charge'[u] # Unpriced
       PROVE  bill'[c].known
  <2>1. \A i \in Selected(c) : ledger[i].cost # Unpriced
    BY <1>5, <1>13
  <2>2. \A u \in Threads : ServedBy[u] = c /\ InFlight(u) => charge[u] # Unpriced
    BY <1>2, <1>3, <1>13
  <2>3. bill[c].known
    BY <1>1, <2>1, <2>2, Zenon DEF Balanced
  <2>4. ServedBy[t] = c => x # Unpriced
    BY <1>3, <1>13
  <2> QED BY <1>10, <2>3, <2>4
<1> QED BY <1>12, <1>13, Zenon DEF Balanced

\* A response that is recorded goes from the hand to the ledger.
LEMMA EventIsCounted ==
    ASSUME TypeOK, TypeOK', BillType, BillType', Balance, NEW t \in Threads, RecordEvent(t)
    PROVE  Balance'
<1> SUFFICES ASSUME ~exceeded', NEW c \in ToSet(Candidates)
             PROVE  Balanced(c)'
  BY DEF Balance
<1> DEFINE e == [candidate |-> ServedBy[t], phase |-> phase[t],
                 source |-> reply[t].source, cost |-> charge[t]]
           own == ServedBy[t] = c
<1>1. Record(t) /\ ledger' = Append(ledger, e) /\ bill' = bill
  BY DEF RecordEvent
<1>2. ~exceeded
  BY <1>1 DEF Record
<1>3. Balanced(c)
  BY <1>2 DEF Balance
<1>4. /\ \A u \in Threads \ {t} : pc'[u] = pc[u] /\ charge'[u] = charge[u]
      /\ pc[t] = "recording" /\ pc'[t] = "idle"
  BY <1>1 DEF Record, Goto, TypeOK
<1>5. /\ InFlight(t) /\ ~InFlight(t)'
      /\ \A u \in Threads \ {t} : InFlight(u)' = InFlight(u)
  BY <1>4 DEF InFlight
<1>6. /\ Total(InHand(c)) \in Nat /\ Total(InHand(c)') \in Nat
      /\ Total(InHand(c)') + (IF own THEN Price(charge[t]) ELSE 0) = Total(InHand(c)) + 0
  BY <1>4, <1>5, OneHand
<1>7. e \in Entries
  <2>1. ServedBy[t] \in ToSet(Candidates)
    BY MeteredAssumption DEF MeteredAssumption
  <2> QED BY <2>1 DEF Entries, BillType, TypeOK
<1>8. e.candidate = ServedBy[t] /\ e.cost = charge[t] /\ charge[t] \in Costs \cup {Unpriced}
  BY DEF TypeOK
<1> HIDE DEF e
<1>9. /\ CostsOf(c)' = Append(CostsOf(c), IF own THEN Price(charge[t]) ELSE 0)
      /\ Selected(c) \subseteq Selected(c)'
      /\ \A i \in Selected(c) : ledger'[i] = ledger[i]
      /\ own => \E i \in Selected(c)' : ledger'[i] = e
  <2>1. /\ CostsOf(c)' = Append(CostsOf(c), IF e.candidate = c THEN Price(e.cost) ELSE 0)
        /\ Selected(c) \subseteq Selected(c)'
        /\ \A i \in Selected(c) : ledger'[i] = ledger[i]
        /\ e.candidate = c => \E i \in Selected(c)' : ledger'[i] = e
    BY <1>1, <1>7, OneEvent
  <2> QED BY <2>1, <1>8
<1>10. Price(charge[t]) \in Nat
  BY <1>8, PriceIsNatural
<1>11. /\ Total(CostsOf(c)') = Total(CostsOf(c)) + (IF own THEN Price(charge[t]) ELSE 0)
       /\ Total(CostsOf(c)) \in Nat
  <2>1. CostsOf(c) \in Seq(Nat)
    BY SummandsAreNatural DEF Summands
  <2>2. (IF own THEN Price(charge[t]) ELSE 0) \in Nat
    BY <1>10
  <2> QED BY <1>9, <2>1, <2>2, TotalOfAppend
<1>12. (Total(InHand(c)))' = Total(InHand(c)') /\ (Total(CostsOf(c)))' = Total(CostsOf(c)')
  BY DEF Total
<1>13. bill'[c].usd = (Total(CostsOf(c)))' + (Total(InHand(c)))'
  <2>1. bill[c].usd = Total(CostsOf(c)) + Total(InHand(c)) /\ bill'[c] = bill[c]
    BY <1>1, <1>3 DEF Balanced
  <2> DEFINE p == IF own THEN Price(charge[t]) ELSE 0
  <2>2. p \in Nat
    BY <1>10
  <2>3. /\ Total(InHand(c)') + p = Total(InHand(c))
        /\ Total(CostsOf(c)') = Total(CostsOf(c)) + p
    BY <1>6, <1>11
  <2> HIDE DEF p
  <2> QED BY <1>6, <1>11, <1>12, <2>1, <2>2, <2>3
<1>14. ASSUME \A i \in Selected(c)' : ledger'[i].cost # Unpriced,
              \A u \in Threads : ServedBy[u] = c /\ InFlight(u)' => charge'[u] # Unpriced
       PROVE  bill'[c].known
  <2>1. \A i \in Selected(c) : ledger[i].cost # Unpriced
    BY <1>9, <1>14
  <2>2. own => charge[t] # Unpriced
    BY <1>8, <1>9, <1>14
  <2>3. \A u \in Threads : ServedBy[u] = c /\ InFlight(u) => charge[u] # Unpriced
    BY <1>4, <1>5, <1>14, <2>2
  <2>4. bill[c].known
    BY <1>3, <2>1, <2>3, Zenon DEF Balanced
  <2> QED BY <1>1, <2>4
<1> QED BY <1>13, <1>14, Zenon DEF Balanced

\* A handler keeps the balance in every step.
LEMMA BalanceSteps ==
    ASSUME TypeOK, TypeOK', BillType, BillType', Balance,
           NEW t \in Threads, Receive(t) \/ Handle(t)
    PROVE  Balance'
<1>1. CASE Receive(t)
  <2>1. /\ pc[t] = "idle" /\ pc' = [pc EXCEPT ![t] = "upstream"] /\ charge' = charge
        /\ UNCHANGED <<ledger, bill, exceeded>>
    BY <1>1 DEF Receive, Post, Goto, costVars
  <2>2. \A u \in Threads : InFlight(u)' = InFlight(u)
    BY <2>1 DEF InFlight, TypeOK
  <2> QED BY <2>1, <2>2, BalanceKept
<1>2. CASE ProviderAnswers(t)
  <2>1. PICK offer \in Offers : charge'[t] = offer[1] /\ Billed(t, offer[1])
    BY <1>2 DEF ProviderAnswers
  <2>2. UpstreamReturns(t) /\ ledger' = ledger
    BY <1>2 DEF ProviderAnswers
  <2>3. charge'[t] \in Costs \cup {Unpriced}
    BY DEF TypeOK
  <2> QED BY <2>1, <2>2, <2>3, AnswerIsBilled
<1>3. CASE StatusIsReady(t) \/ Execute(t) \/ Remember(t)
  <2>1. vars' = vars /\ costVars' = costVars
    BY <1>3 DEF StatusIsReady, Execute, Remember
  <2> QED BY <2>1, BalanceKept DEF vars, costVars, InFlight
<1>4. CASE ClientAnswers(t)
  <2>1. /\ UpstreamReturns(t) /\ charge'[t] = Unpriced /\ Billed(t, Unpriced)
        /\ ledger' = ledger
    BY <1>4 DEF ClientAnswers, Respond
  <2> QED BY <2>1, AnswerIsBilled
<1>5. CASE Raises(t)
  <2>1. /\ pc[t] = "upstream" /\ pc' = [pc EXCEPT ![t] = "idle"] /\ charge' = charge
        /\ UNCHANGED <<ledger, bill, exceeded>>
    BY <1>5 DEF Raises, UpstreamRaises, Goto, costVars
  <2>2. \A u \in Threads : InFlight(u)' = InFlight(u)
    BY <2>1 DEF InFlight, TypeOK
  <2> QED BY <2>1, <2>2, BalanceKept
<1>6. CASE Check(t)
  <2>1. CheckBudget(t) /\ UNCHANGED <<ledger, bill, exceeded>>
    BY <1>6 DEF Check, CheckBudget, costVars
  <2>2. CASE exceeded
    BY <2>1, <2>2 DEF Balance
  <2>3. CASE ~exceeded
    <3>1. pc[t] = "charged" /\ pc' = [pc EXCEPT ![t] = "recording"] /\ charge' = charge
      BY <2>1, <2>3 DEF CheckBudget, Goto
    <3>2. \A u \in Threads : InFlight(u)' = InFlight(u)
      BY <3>1 DEF InFlight, TypeOK
    <3> QED BY <2>1, <3>1, <3>2, BalanceKept
  <2> QED BY <2>2, <2>3
<1>7. CASE RecordEvent(t)
  BY <1>7, EventIsCounted
<1> QED BY <1>1, <1>2, <1>3, <1>4, <1>5, <1>6, <1>7 DEF Handle

LEMMA BillsStayTyped ==
    ASSUME BillType, NEW t \in Threads, NEW x \in Costs \cup {Unpriced}, Billed(t, x)
    PROVE  bill' \in [ToSet(Candidates) -> [usd : Nat, known : BOOLEAN]]
<1>1. ServedBy[t] \in ToSet(Candidates)
  BY MeteredAssumption DEF MeteredAssumption
<1>2. Price(x) \in Nat
  BY PriceIsNatural
<1>3. /\ bill \in [ToSet(Candidates) -> [usd : Nat, known : BOOLEAN]]
      /\ bill[ServedBy[t]].usd \in Nat /\ bill[ServedBy[t]].known \in BOOLEAN
  BY <1>1 DEF BillType
<1>4. [usd |-> bill[ServedBy[t]].usd + Price(x),
       known |-> bill[ServedBy[t]].known /\ x # Unpriced] \in [usd : Nat, known : BOOLEAN]
  BY <1>2, <1>3
<1> QED BY <1>3, <1>4 DEF Billed

\* The types of what a candidate costs
LEMMA BillTypeSteps ==
    ASSUME TypeOK, BillType, NEW t \in Threads, Receive(t) \/ Handle(t)
    PROVE  BillType'
<1> USE DEF BillType
<1>1. CASE Receive(t)
  BY <1>1 DEF Receive, costVars
<1>2. CASE ProviderAnswers(t)
  <2>1. PICK offer \in Offers :
            /\ charge'[t] = offer[1] /\ Billed(t, offer[1])
            /\ reply' = [reply EXCEPT ![t] = [source |-> offer[2], of |-> Nobody]]
    BY <1>2 DEF ProviderAnswers
  <2>2. UNCHANGED <<phase, turn, ledger, outcome>>
    BY <1>2 DEF ProviderAnswers
  <2>3. offer[2] \in {"measured", "estimated", "unavailable"}
    BY DEF Offers, HashEmbeddings, GeminiEmbeddings, ApiResponses
  <2>4. offer[1] \in Costs \cup {Unpriced}
    BY DEF Offers, HashEmbeddings, GeminiEmbeddings, ApiResponses
  <2>5. bill' \in [ToSet(Candidates) -> [usd : Nat, known : BOOLEAN]]
    BY <2>1, <2>4, BillsStayTyped
  <2> QED BY <2>1, <2>2, <2>3, <2>5
<1>3. CASE StatusIsReady(t) \/ Execute(t) \/ Remember(t)
  BY <1>3 DEF StatusIsReady, Execute, Remember, costVars
<1>4. CASE ClientAnswers(t)
  <2>1. /\ Billed(t, Unpriced)
        /\ reply' = [reply EXCEPT ![t] =
                        [source |-> UsageSource(output[t]), of |-> t]]
    BY <1>4 DEF ClientAnswers, Respond
  <2>2. UNCHANGED <<phase, turn, ledger, outcome>>
    BY <1>4 DEF ClientAnswers, Respond
  <2>3. UsageSource(output[t]) \in {"measured", "estimated", "unavailable"}
    BY DEF UsageSource
  <2>4. bill' \in [ToSet(Candidates) -> [usd : Nat, known : BOOLEAN]]
    BY <2>1, BillsStayTyped
  <2> QED BY <2>1, <2>2, <2>3, <2>4
<1>5. CASE Raises(t)
  BY <1>5 DEF Raises, Forget, NoReply, costVars
<1>6. CASE Check(t)
  <2>1. UNCHANGED costVars
    BY <1>6 DEF Check
  <2>2. \/ UNCHANGED <<phase, reply>>
        \/ /\ phase' = [phase EXCEPT ![t] = "ingest"]
           /\ reply' = [reply EXCEPT ![t] = NoReply]
    BY <1>6, Zenon DEF Check, Forget
  <2>3. CASE UNCHANGED <<phase, reply>>
    BY <2>1, <2>3 DEF costVars
  <2>4. CASE /\ phase' = [phase EXCEPT ![t] = "ingest"]
             /\ reply' = [reply EXCEPT ![t] = NoReply]
    BY <2>1, <2>4 DEF NoReply, costVars
  <2> QED BY <2>2, <2>3, <2>4
<1>7. CASE RecordEvent(t)
  <2> DEFINE e == [candidate |-> ServedBy[t], phase |-> phase[t],
                   source |-> reply[t].source, cost |-> charge[t]]
  <2>1. ServedBy[t] \in ToSet(Candidates) /\ charge[t] \in Costs \cup {Unpriced}
    BY MeteredAssumption DEF MeteredAssumption, TypeOK
  <2>2. e \in Entries
    BY <2>1 DEF Entries
  <2> HIDE DEF e
  <2>3. ledger' = Append(ledger, e)
    BY <1>7 DEF RecordEvent, e
  <2>4. ledger' \in Seq(Entries)
    BY <2>2, <2>3
  <2> QED BY <1>7, <2>4 DEF RecordEvent, Forget, NoReply
<1> QED BY <1>1, <1>2, <1>3, <1>4, <1>5, <1>6, <1>7 DEF Handle

\* What a handler does, to candidates that have an outcome or none
LEMMA OutcomeSteps ==
    ASSUME TypeOK, ClientInv, BillType, Ahead, Quiet, CompleteCostIsTheBill,
           NEW t \in Threads, Receive(t) \/ Handle(t)
    PROVE  Ahead' /\ Quiet' /\ CompleteCostIsTheBill'
<1> DEFINE c == ServedBy[t]
<1>1. c \in ToSet(Candidates)
  BY MeteredAssumption DEF MeteredAssumption
<1>2. UNCHANGED <<turn, outcome>>
  BY DEF Receive, Handle, ProviderAnswers, StatusIsReady, Execute, Remember, ClientAnswers,
         Respond, Raises, Check, RecordEvent, costVars
<1>3. Ahead'
  BY <1>2 DEF Ahead
<1>4. outcome[c].status # "COMPLETE"
  <2>1. CASE Receive(t)
    <3>1. c = Candidates[turn] /\ turn <= Len(Candidates) /\ turn \in DOMAIN Candidates
      <4>1. turn \in 1..Len(Candidates) /\ c = Candidates[turn]
        BY <2>1 DEF Receive, Running, BillType
      <4> QED BY <4>1, MeteredAssumption DEF MeteredAssumption
    <3>2. turn >= turn
      BY DEF BillType
    <3> QED BY <3>1, <3>2 DEF Ahead
  <2>2. CASE Handle(t)
    <3>1. pc[t] # "idle"
      BY <2>2 DEF Handle, ProviderAnswers, StatusIsReady, Execute, Remember, ClientAnswers,
                  Respond, Raises, Check, RecordEvent, UpstreamReturns, UpstreamRaises,
                  CheckBudget, Record, ClientInv, Waiting
    <3> QED BY <3>1 DEF Quiet
  <2> QED BY <2>1, <2>2
<1>5. \A u \in Threads \ {t} : pc'[u] = pc[u]
  BY DEF Receive, Handle, ProviderAnswers, StatusIsReady, Execute, Remember, ClientAnswers,
         Respond, Raises, Check, RecordEvent, Post, UpstreamReturns, UpstreamRaises,
         CheckBudget, Record, Goto, vars, TypeOK
<1>6. Quiet'
  BY <1>2, <1>4, <1>5 DEF Quiet
<1>7. \A d \in ToSet(Candidates) \ {c} : bill'[d] = bill[d]
  BY DEF Receive, Handle, ProviderAnswers, StatusIsReady, Execute, Remember, ClientAnswers,
         Respond, Raises, Check, RecordEvent, Billed, costVars, BillType
<1>8. CompleteCostIsTheBill'
  BY <1>2, <1>4, <1>7 DEF CompleteCostIsTheBill
<1> QED BY <1>3, <1>6, <1>8

\* A complete cost is stated over a ledger that has everything.
LEMMA EndSteps ==
    ASSUME TypeOK, BillInv, NEW c \in ToSet(Candidates), Reconcile(c) \/ Abandon(c)
    PROVE  BillInv'
<1>1. PICK cost : Ends(c, cost) /\ (cost.status = "COMPLETE" =>
            /\ ~exceeded /\ \A t \in Threads : ServedBy[t] = c => pc[t] = "idle"
            /\ \A i \in Selected(c) : ledger[i].cost # Unpriced
            /\ cost.usd = Total(CostsOf(c)))
  <2>1. CASE Reconcile(c)
    <3>1. PICK native \in NativeUsage(c) :
            Ends(c, IF exceeded THEN NoTotal("BUDGET_EXCEEDED") ELSE Summary(c, native))
      BY <2>1 DEF Reconcile
    <3> DEFINE cost == IF exceeded THEN NoTotal("BUDGET_EXCEEDED") ELSE Summary(c, native)
    <3>2. \A s : NoTotal(s).status = s
      BY DEF NoTotal
    <3>3. ASSUME cost.status = "COMPLETE"
          PROVE  ~exceeded /\ Complete(c, native) /\ cost.usd = Total(CostsOf(c))
      <4>1. \/ Summary(c, native) \in {NoTotal("UNAVAILABLE"), NoTotal("INCOMPLETE")}
            \/ /\ Complete(c, native)
               /\ Summary(c, native) = [status |-> "COMPLETE", usd |-> Total(CostsOf(c))]
        BY DEF Summary
      <4>2. ~exceeded
        BY <3>2, <3>3
      <4>3. cost = Summary(c, native)
        BY <4>2
      <4> HIDE DEF cost
      <4>4. ~(cost \in {NoTotal("UNAVAILABLE"), NoTotal("INCOMPLETE")})
        BY <3>2, <3>3
      <4> QED BY <4>1, <4>2, <4>3, <4>4
    <3> QED BY <2>1, <3>1, <3>3 DEF Reconcile, Complete
  <2>2. CASE Abandon(c)
    <3>1. PICK status \in {"INCOMPLETE", "BUDGET_EXCEEDED"} : Ends(c, NoTotal(status))
      BY <2>2 DEF Abandon
    <3>2. NoTotal(status).status # "COMPLETE"
      BY DEF NoTotal
    <3> QED BY <3>1, <3>2
  <2> QED BY <2>1, <2>2
<1>2. /\ turn \in DOMAIN Candidates /\ Candidates[turn] = c
      /\ outcome' = [outcome EXCEPT ![c] = cost] /\ turn' = turn + 1
      /\ UNCHANGED <<vars, clientVars, ledger, bill>>
  <2>1. turn \in 1..Len(Candidates)
    BY <1>1 DEF Ends, Running, BillInv, BillType
  <2> QED BY <1>1, <2>1, MeteredAssumption DEF Ends, MeteredAssumption
<1>3. /\ outcome'[c] = cost
      /\ \A d \in ToSet(Candidates) \ {c} : outcome'[d] = outcome[d]
      /\ DOMAIN outcome' = ToSet(Candidates)
  BY <1>2 DEF BillInv, BillType
<1>4. BillType'
  BY <1>2, <1>3 DEF BillInv, BillType, vars, clientVars
<1>5. Ahead'
  <2> SUFFICES ASSUME NEW i \in DOMAIN Candidates, i >= turn'
               PROVE  outcome'[Candidates[i]].status = "PENDING"
    BY DEF Ahead
  <2>1. i \in Nat /\ turn \in Nat
    BY MeteredAssumption DEF MeteredAssumption, BillInv, BillType
  <2>2. i >= turn /\ i # turn
    BY <1>2, <2>1
  <2>3. Candidates[i] # c /\ Candidates[i] \in ToSet(Candidates)
    BY <1>2, <2>2, MeteredAssumption DEF MeteredAssumption, IsInjective, ToSet
  <2> QED BY <1>3, <2>2, <2>3 DEF BillInv, Ahead
<1>6. Quiet'
  <2> SUFFICES ASSUME NEW t \in Threads, outcome'[ServedBy[t]].status = "COMPLETE"
               PROVE  pc[t] = "idle"
    BY <1>2 DEF Quiet, vars
  <2>1. ServedBy[t] \in ToSet(Candidates)
    BY MeteredAssumption DEF MeteredAssumption
  <2> QED BY <1>1, <1>3, <2>1 DEF BillInv, Quiet
<1>7. Balance'
  BY <1>2, BalanceKept DEF BillInv, vars, InFlight
<1>8. ASSUME cost.status = "COMPLETE"
      PROVE  bill[c] = [usd |-> cost.usd, known |-> TRUE]
  <2>1. Balanced(c)
    BY <1>1, <1>8 DEF BillInv, Balance
  <2>2. \A t \in Threads : ServedBy[t] = c => ~InFlight(t)
    BY <1>1, <1>8 DEF InFlight
  <2>3. bill[c].known
    BY <1>1, <1>8, <2>1, <2>2 DEF Balanced
  <2>4. Total(InHand(c)) = 0
    <3>1. /\ InHand(c) \in Seq(Nat)
          /\ \A i \in 1..Len(InHand(c)) : Handlers[i] \in Threads /\ i \in DOMAIN Handlers
      BY SummandsAreNatural, HandlersAreOrdered DEF Summands, IsOrder, BillInv
    <3>2. \A i \in 1..Len(InHand(c)) : InHand(c)[i] = 0
      BY <2>2, <3>1 DEF InHand
    <3> QED BY <3>1, <3>2, TotalOfZeros
  <2>5. bill[c].usd = cost.usd
    <3>1. CostsOf(c) \in Seq(Nat)
      BY SummandsAreNatural DEF Summands, BillInv
    <3> QED BY <1>1, <1>8, <2>1, <2>4, <3>1, TotalIsNatural DEF Balanced
  <2>6. bill[c] \in [usd : Nat, known : BOOLEAN]
    BY DEF BillInv, BillType
  <2> QED BY <2>3, <2>5, <2>6
<1>9. CompleteCostIsTheBill'
  BY <1>2, <1>3, <1>8 DEF BillInv, CompleteCostIsTheBill
<1> QED BY <1>4, <1>5, <1>6, <1>7, <1>9 DEF BillInv

\* The inductive invariant of a run's costs, step by step of every candidate
THEOREM BillInvariance == RunSpec => []BillInv
<1>1. RunInit => BillInv
  <2> SUFFICES ASSUME RunInit PROVE BillInv
    OBVIOUS
  <2> USE DEF RunInit, Init
  <2>1. /\ ledger = <<>> /\ <<>> \in Seq(Entries) /\ <<>> \in Seq(Nat)
        /\ Len(<<>>) = 0
    BY EmptySeq
  <2>2. BillType
    BY <2>1 DEF BillType, NoReply
  <2>3. Ahead /\ Quiet /\ CompleteCostIsTheBill
    <3>1. \A i \in DOMAIN Candidates : Candidates[i] \in ToSet(Candidates)
      BY MeteredAssumption DEF MeteredAssumption, ToSet
    <3>2. \A t \in Threads : ServedBy[t] \in ToSet(Candidates)
      BY MeteredAssumption DEF MeteredAssumption
    <3> QED BY <3>1, <3>2 DEF Ahead, Quiet, CompleteCostIsTheBill, NoTotal
  <2>4. ASSUME NEW c \in ToSet(Candidates) PROVE Balanced(c)
    <3>1. CostsOf(c) = <<>>
      BY <2>1 DEF CostsOf
    <3>2. Total(InHand(c)) = 0
      <4>1. TypeOK
        BY InitEstablishes DEF IInv
      <4>2. InHand(c) \in Seq(Nat) /\ Len(InHand(c)) = Len(Handlers)
        BY <2>2, <4>1, SummandsAreNatural DEF Summands
      <4>3. \A i \in 1..Len(InHand(c)) : Handlers[i] \in Threads /\ i \in DOMAIN Handlers
        BY <4>2, HandlersAreOrdered DEF IsOrder
      <4>4. \A i \in 1..Len(InHand(c)) : InHand(c)[i] = 0
        BY <4>3 DEF InHand, InFlight
      <4> QED BY <4>2, <4>4, TotalOfZeros
    <3> QED BY <3>1, <3>2, TotalOfNothing DEF Balanced
  <2> QED BY <2>2, <2>3, <2>4 DEF BillInv, Balance
<1>2. BillInv /\ TypeOK /\ TypeOK' /\ ClientInv /\ [RunNext]_runVars => BillInv'
  <2> SUFFICES ASSUME BillInv, TypeOK, TypeOK', ClientInv, [RunNext]_runVars
               PROVE  BillInv'
    OBVIOUS
  <2>1. CASE vars' = vars /\ clientVars' = clientVars /\ costVars' = costVars
    <3>1. BillType' /\ Ahead' /\ Quiet' /\ CompleteCostIsTheBill'
      BY <2>1 DEF vars, clientVars, costVars, BillInv, BillType, Ahead, Quiet,
                  CompleteCostIsTheBill
    <3>2. Balance'
      BY <2>1, BalanceKept DEF vars, costVars, BillInv, InFlight
    <3> QED BY <3>1, <3>2 DEF BillInv
  <2>2. CASE UNCHANGED runVars
    BY <2>1, <2>2 DEF runVars
  <2>3. ASSUME NEW t \in Threads, Receive(t) \/ Handle(t) PROVE BillInv'
    <3>1. BillType'
      BY <2>3, BillTypeSteps DEF BillInv
    <3>2. Balance'
      BY <2>3, <3>1, BalanceSteps DEF BillInv
    <3>3. Ahead' /\ Quiet' /\ CompleteCostIsTheBill'
      BY <2>3, OutcomeSteps DEF BillInv
    <3> QED BY <3>1, <3>2, <3>3 DEF BillInv
  <2>4. ASSUME NEW c \in ToSet(Candidates), Reconcile(c) \/ Abandon(c) PROVE BillInv'
    BY <2>4, EndSteps
  <2>5. CASE Local
    BY <2>1, <2>5 DEF Local, RefusedUnasked, Built, ProbeInProgress, BeginProbe, Identified
  <2>6. ASSUME NEW p, BeginProbe(p) \/ ProbeEnds(p) PROVE BillInv'
    BY <2>1, <2>6 DEF BeginProbe, ProbeEnds, EndProbe, ProbeRaises
  <2> QED BY <2>2, <2>3, <2>4, <2>5, <2>6 DEF RunNext
<1> QED BY <1>1, <1>2, ClientInvariance, PTL DEF RunSpec

\* For any candidates, handler threads, budgets and prices: a cost that reconcile_usage
\* calls complete is the sum of every answer the candidate got, each of them priced.
THEOREM CompleteCosts == RunSpec => []CompleteCostIsTheBill
<1>1. BillInv => CompleteCostIsTheBill
  BY DEF BillInv
<1> QED BY <1>1, BillInvariance, PTL
=============================================================================
