------------------------------- MODULE MeteredRun -------------------------------
(***************************************************************************)
(* A run from its provider gate to its costs: RunOrchestrator.local decides  *)
(* whether there is a provider, one candidate after the other sends its      *)
(* requests through its metering proxy to the one upstream of the run, an    *)
(* API or the subscription client all handler threads share, and a candidate *)
(* that is done has its usage reconciled into a cost.  The terminal UI       *)
(* probes the same vendor CLI in the same process.                           *)
(*                                                                           *)
(* Every step is a step of MeteringBudget or leaves its variables alone.     *)
(***************************************************************************)
EXTENDS MeteringBudget, SubscriptionClient

CONSTANTS
    Candidates,  \* the selected candidates, in the order they run
    ServedBy,    \* the candidate whose proxy a handler thread belongs to
    GBrain,      \* the candidate that reports native usage
    Configs,     \* the configurations runs may have
    Probers,     \* connection probes of the terminal UI
    Nobody       \* no thread

\* RunConfig accepts the openai embeddings only for the api provider.
AllConfigs ==
    [chat : {"api"}, embed : {"openai"}]
    \cup [chat : {"codex", "claude", "kimi"}, embed : {"openai", "gemini", "local"}]

Run == "run"  \* the probe local() makes, by its name among the probers

ASSUME MeteredAssumption ==
    /\ Configs \subseteq AllConfigs
    /\ Candidates \in Seq(STRING) /\ Candidates # <<>> /\ IsInjective(Candidates)
    /\ ServedBy \in [Threads -> ToSet(Candidates)]
    /\ Run \notin Probers /\ Nobody \notin Threads

VARIABLES
    config,     \* RunConfig: the chat provider and the embedding backend
    stage,      \* how far local() got, then the run
    marked,     \* _ACTIVE_PROVIDERS has the provider
    probe,      \* per prober: is it waiting for the status command
    turn,       \* index of the candidate that runs
    phase,      \* per thread: phase of the request, by its path
    call,       \* per thread: where answer() of the shared client is
    output,     \* per thread: what its own CLI process answered
    reply,      \* per thread: the response the handler got from upstream
    lastAnswer, \* client.last_answer: whose answer, and its usage
    ledger,     \* MeteringBudget.events, with what reconcile_usage looks at
    bill,       \* per candidate: what its answers cost; some may be unknown
    outcome     \* per candidate: the cost of its outcome

localVars  == <<config, stage, marked, probe>>
clientVars == <<phase, call, output, reply, lastAnswer>>
costVars   == <<turn, ledger, bill, outcome>>
runVars    == <<vars, localVars, clientVars, costVars>>

Subscription == config.chat # "api"

Forgotten == [of |-> Nobody, usage |-> NoAnswer]
NoReply == [source |-> "unavailable", of |-> Nobody]
NoTotal(status) == [status |-> status, usd |-> 0]

RunInit ==
    /\ Init
    /\ config \in Configs
    /\ stage = "building"
    /\ marked = FALSE
    /\ probe = [p \in Probers \cup {Run} |-> "idle"]
    /\ turn = 1
    /\ phase  = [t \in Threads |-> "ingest"]
    /\ call   = [t \in Threads |-> "none"]
    /\ output = [t \in Threads |-> NoAnswer]
    /\ reply  = [t \in Threads |-> NoReply]
    /\ lastAnswer = Forgotten
    /\ ledger = <<>>
    /\ bill    = [c \in ToSet(Candidates) |-> [usd |-> 0, known |-> TRUE]]
    /\ outcome = [c \in ToSet(Candidates) |-> NoTotal("PENDING")]

-----------------------------------------------------------------------------
(* RunOrchestrator.local *)

\* A selected source is not connected, the embedding backend lacks its key, or
\* a connector cannot be built: there is no provider, and none is asked.
RefusedUnasked ==
    /\ stage = "building"
    /\ stage' = "refused"
    /\ UNCHANGED <<vars, config, marked, probe, clientVars, costVars>>

Built ==
    /\ stage = "building"
    /\ stage' = IF Subscription THEN "probing" ELSE "open"
    /\ UNCHANGED <<vars, config, marked, probe, clientVars, costVars>>

\* Once the run is open nobody looks at the mark any more; the probes of the UI
\* stop there (state space only).
MayProbe(p) ==
    IF p = Run THEN stage = "probing" ELSE Subscription /\ stage # "open"

\* registry.probe.  Each registry is new, so its cache has nothing to return; a
\* probe that finds the mark of another is refused at once.
BeginProbe(p) ==
    /\ probe[p] = "idle" /\ MayProbe(p) /\ ~marked
    /\ marked' = TRUE
    /\ probe' = [probe EXCEPT ![p] = "asking"]
    /\ UNCHANGED <<vars, config, stage, clientVars, costVars>>

\* A refused probe of the UI changes nothing; that of the run refuses the run.
ProbeInProgress ==
    /\ stage = "probing" /\ probe[Run] = "idle" /\ marked
    /\ stage' = "refused"
    /\ UNCHANGED <<vars, config, marked, probe, clientVars, costVars>>

\* What the probe of p found; only the run's decides about the run.  The command
\* of a cancelled run reports EXECUTION_UNAVAILABLE, as a failing one does.
ProbeFound(p, status) ==
    IF p = Run
    THEN stage' = IF status = "READY" THEN "identifying" ELSE "refused"
    ELSE UNCHANGED stage

EndProbe(p) ==
    /\ probe[p] = "asking"
    /\ \E status \in Reports(config.chat) : ProbeFound(p, status)
    /\ probe' = [probe EXCEPT ![p] = "idle"]
    /\ marked' = FALSE
    /\ UNCHANGED <<vars, config, clientVars, costVars>>

\* Variant of ProbeRaises without the finally
ProbeRaisesMarked(p) ==
    /\ probe[p] = "asking"
    /\ stage' = IF p = Run THEN "refused" ELSE stage
    /\ probe' = [probe EXCEPT ![p] = "idle"]
    /\ UNCHANGED <<vars, config, marked, clientVars, costVars>>

\* An OSError is no report: it leaves probe() and, in the run, local().
ProbeRaises(p) ==
    /\ probe[p] = "asking"
    /\ stage' = IF p = Run THEN "refused" ELSE stage
    /\ probe' = [probe EXCEPT ![p] = "idle"]
    /\ marked' = FALSE
    /\ UNCHANGED <<vars, config, clientVars, costVars>>

\* probe_identity fails silently; then the candidates are built.
Identified ==
    /\ stage = "identifying"
    /\ stage' = "open"
    /\ UNCHANGED <<vars, config, marked, probe, clientVars, costVars>>

-----------------------------------------------------------------------------
(* One request: LoopbackMeteringProxy and the upstream behind it *)

\* A candidate runs; after one that exceeded the budget none is started.
Running ==
    /\ stage = "open" /\ turn <= Len(Candidates)
    /\ \A c \in ToSet(Candidates) : outcome[c].status # "BUDGET_EXCEEDED"

\* The upstream sends a chat to the client, which forgets its last answer first.
Receive(t) ==
    /\ Running /\ ServedBy[t] = Candidates[turn]
    /\ Post(t)
    /\ \E ph \in {"ingest", "query"} :
          /\ phase' = [phase EXCEPT ![t] = ph]
          /\ IF Subscription /\ ph = "query"
             THEN /\ call' = [call EXCEPT ![t] = "status"]
                  /\ lastAnswer' = Forgotten
             ELSE UNCHANGED <<call, lastAnswer>>
    /\ UNCHANGED <<localVars, output, reply, costVars>>

\* The charges and usage sources of a response that does not come from the CLI.
\* Hash embeddings are estimated and free; Gemini's are counted as no tokens, of
\* a model without a price; an API's response is measured or lacks its counts,
\* and its model may have no price.
HashEmbeddings   == {<<Unpriced, "estimated">>}
GeminiEmbeddings == {<<Unpriced, "measured">>}
ApiResponses ==
    (Costs \X {"measured"}) \cup ({Unpriced} \X {"measured", "unavailable"})

Offers ==
    CASE Subscription /\ config.embed = "local"  -> HashEmbeddings
      [] Subscription /\ config.embed = "gemini" -> GeminiEmbeddings
      [] OTHER                                   -> ApiResponses

\* The response reaches the handler, and the candidate is billed for it.
Billed(t, cost) ==
    bill' = [bill EXCEPT ![ServedBy[t]] =
                [usd |-> @.usd + Price(cost), known |-> @.known /\ cost # Unpriced]]

ProviderAnswers(t) ==
    /\ call[t] = "none" /\ UpstreamReturns(t)
    /\ \E offer \in Offers :
          /\ charge'[t] = offer[1]
          /\ reply' = [reply EXCEPT ![t] = [source |-> offer[2], of |-> Nobody]]
          /\ Billed(t, offer[1])
    /\ UNCHANGED <<localVars, phase, call, output, lastAnswer,
                   turn, ledger, outcome>>

\* answer() asks the CLI for its status itself, without the registry.
StatusIsReady(t) ==
    /\ call[t] = "status"
    /\ "READY" \in Reports(config.chat)
    /\ call' = [call EXCEPT ![t] = "execute"]
    /\ UNCHANGED <<vars, localVars, phase, output, reply, lastAnswer, costVars>>

Execute(t) ==
    /\ call[t] = "execute"
    /\ \E usage \in AnswersOf(config.chat) \ {NoAnswer} :
          output' = [output EXCEPT ![t] = usage]
    /\ call' = [call EXCEPT ![t] = "remember"]
    /\ UNCHANGED <<vars, localVars, phase, reply, lastAnswer, costVars>>

Remember(t) ==
    /\ call[t] = "remember"
    /\ lastAnswer' = [of |-> t, usage |-> output[t]]
    /\ call' = [call EXCEPT ![t] = "return"]
    /\ UNCHANGED <<vars, localVars, phase, output, reply, costVars>>

UsageSource(usage) == IF usage = "native" THEN "measured" ELSE "unavailable"

\* An answer becomes the response of the upstream; the price sheet knows no model
\* of a subscription.
Respond(t, answer) ==
    /\ call[t] = "return" /\ UpstreamReturns(t) /\ charge'[t] = Unpriced
    /\ reply' = [reply EXCEPT ![t] =
                    [source |-> UsageSource(answer.usage), of |-> answer.of]]
    /\ call' = [call EXCEPT ![t] = "none"]
    /\ Billed(t, Unpriced)
    /\ UNCHANGED <<localVars, phase, output, lastAnswer, turn, ledger, outcome>>

\* Variant of ClientAnswers whose upstream reads last_answer
ClientAnswersLast(t) == Respond(t, lastAnswer)

\* The upstream takes what answer() returned, not what the client remembers.
ClientAnswers(t) == Respond(t, [of |-> t, usage |-> output[t]])

\* The request is over, and with it what its thread held.
Forget(t) ==
    /\ phase' = [phase EXCEPT ![t] = "ingest"]
    /\ output' = [output EXCEPT ![t] = NoAnswer]
    /\ reply' = [reply EXCEPT ![t] = NoReply]

\* The status is not READY, the execution failed, timed out or was
\* cancelled, or the API did not answer: the handler drops the connection.
Raises(t) ==
    /\ call[t] \in {"none", "status", "execute"}
    /\ UpstreamRaises(t)
    /\ call' = [call EXCEPT ![t] = "none"]
    /\ Forget(t)
    /\ UNCHANGED <<localVars, lastAnswer, costVars>>

\* record_event; the usage of a response it drops is lost.
Check(t) ==
    /\ CheckBudget(t)
    /\ IF pc'[t] = "idle" THEN Forget(t) ELSE UNCHANGED <<phase, output, reply>>
    /\ UNCHANGED <<localVars, call, lastAnswer, costVars>>

RecordEvent(t) ==
    /\ Record(t)
    /\ ledger' = Append(ledger, [candidate |-> ServedBy[t], phase |-> phase[t],
                                source |-> reply[t].source, cost |-> charge[t]])
    /\ Forget(t)
    /\ UNCHANGED <<localVars, call, lastAnswer, turn, bill, outcome>>

-----------------------------------------------------------------------------
(* What a candidate cost: reconcile_usage *)

\* Variant of Selected without the filter
SelectedOfRun(c) == DOMAIN ledger

\* filter_events, by their places
Selected(c) == {i \in DOMAIN ledger : ledger[i].candidate = c}

\* What GBrain counted itself agrees with the events of its queries, differs, or
\* is not there; the others count nothing.
NativeUsage(c) == IF c = GBrain THEN {"agrees", "differs", "none"} ELSE {"none"}

\* COMPLETE wants every event measured and priced, both phases, and, of GBrain,
\* native usage that agrees.
Complete(c, native) ==
    /\ \A i \in Selected(c) : ledger[i].source = "measured" /\ ledger[i].cost # Unpriced
    /\ {"ingest", "query"} \subseteq {ledger[i].phase : i \in Selected(c)}
    /\ IF c = GBrain THEN native = "agrees" ELSE native # "differs"

\* What each event of the ledger costs c
CostsOf(c) ==
    [i \in DOMAIN ledger |-> IF i \in Selected(c) THEN Price(ledger[i].cost) ELSE 0]

Total(seq) ==
    LET sum[i \in 0..Len(seq)] == IF i = 0 THEN 0 ELSE sum[i - 1] + seq[i]
    IN  sum[Len(seq)]

Summary(c, native) ==
    CASE Selected(c) = {}    -> NoTotal("UNAVAILABLE")
      [] Complete(c, native) -> [status |-> "COMPLETE", usd |-> Total(CostsOf(c))]
      [] \A i \in Selected(c) : ledger[i].source = "unavailable" ->
            NoTotal("UNAVAILABLE")
      [] OTHER -> NoTotal("INCOMPLETE")

Ends(c, cost) ==
    /\ Running /\ Candidates[turn] = c
    /\ outcome' = [outcome EXCEPT ![c] = cost]
    /\ turn' = turn + 1
    /\ UNCHANGED <<vars, localVars, clientVars, ledger, bill>>

\* The candidate has all its answers; its requests have been replied to.
Reconcile(c) ==
    /\ \A t \in Threads : ServedBy[t] = c => pc[t] = "idle"
    /\ \E native \in NativeUsage(c) :
          Ends(c, IF exceeded THEN NoTotal("BUDGET_EXCEEDED") ELSE Summary(c, native))

\* It failed or was cancelled, its process was killed: its handlers go on.
Abandon(c) ==
    \E status \in {"INCOMPLETE"} \cup (IF exceeded THEN {"BUDGET_EXCEEDED"} ELSE {}) :
        Ends(c, NoTotal(status))

-----------------------------------------------------------------------------
ProbeEnds(p) == EndProbe(p) \/ ProbeRaises(p)

Handle(t) ==
    \/ ProviderAnswers(t) \/ StatusIsReady(t) \/ Execute(t) \/ Remember(t)
    \/ ClientAnswers(t) \/ Raises(t) \/ Check(t) \/ RecordEvent(t)

Local == RefusedUnasked \/ Built \/ ProbeInProgress \/ BeginProbe(Run) \/ Identified

RunNext ==
    \/ Local
    \/ \E p \in Probers : BeginProbe(p)
    \/ \E p \in Probers \cup {Run} : ProbeEnds(p)
    \/ \E t \in Threads : Receive(t) \/ Handle(t)
    \/ \E c \in ToSet(Candidates) : Reconcile(c) \/ Abandon(c)

\* Every command, execution and API request has a timeout, and a handler thread
\* runs on; the steps of local() follow one another.
RunSpec ==
    /\ RunInit /\ [][RunNext]_runVars
    /\ WF_runVars(Local)
    /\ \A p \in Probers \cup {Run} : WF_runVars(ProbeEnds(p))
    /\ \A t \in Threads : WF_runVars(Handle(t))

-----------------------------------------------------------------------------
(* Properties *)

RunTypeOK ==
    /\ TypeOK
    /\ config \in Configs /\ marked \in BOOLEAN
    /\ stage \in {"building", "probing", "identifying", "open", "refused"}
    /\ probe \in [Probers \cup {Run} -> {"idle", "asking"}]
    /\ turn \in 1..Len(Candidates) + 1
    /\ phase \in [Threads -> {"ingest", "query"}]
    /\ call \in [Threads -> {"none", "status", "execute", "remember", "return"}]
    /\ output \in [Threads -> UsageKinds \cup {NoAnswer}]
    /\ reply \in [Threads -> [source : {"measured", "estimated", "unavailable"},
                              of : Threads \cup {Nobody}]]
    /\ lastAnswer \in [of : Threads \cup {Nobody}, usage : UsageKinds \cup {NoAnswer}]

\* A cost reported as complete is the whole bill: no answer the candidate got is
\* missing from it, none is without a price, and none is another candidate's,
\* whatever handlers of a candidate that was killed still record.
CompleteCostIsTheBill ==
    \A c \in ToSet(Candidates) :
        outcome[c].status = "COMPLETE" => bill[c] = [usd |-> outcome[c].usd, known |-> TRUE]

\* All handler threads share one client, which remembers one answer: yet the
\* response a handler records is the answer to its own prompt, measured exactly
\* when the CLI counted that one.
AnswerIsOwn ==
    \A t \in Threads :
        pc[t] \in {"charged", "recording"} /\ reply[t].of # Nobody =>
            reply[t] = [source |-> UsageSource(output[t]), of |-> t]

\* A request is over at some time, and no probe keeps the provider marked: one
\* that raised would leave every later probe refused.
CallsEnd ==
    /\ \A t \in Threads : pc[t] # "idle" ~> pc[t] = "idle"
    /\ marked ~> ~marked
    /\ <>(stage \in {"open", "refused"})
=============================================================================
