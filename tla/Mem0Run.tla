------------------------------- MODULE Mem0Run -------------------------------
(***************************************************************************)
(* Mem0Candidate (production.py) over Mem0Adapter (candidates/mem0.py):    *)
(* whole documents go into a native memory store that answers with the     *)
(* memories it made, the adapter keeps which document a memory came from,  *)
(* searches and answers one question after the other, and cleans up the    *)
(* native state step by step.  Every native call runs under a deadline     *)
(* that exists on the main thread only.                                    *)
(***************************************************************************)
EXTENDS CandidateRun

CONSTANT MaxMemories \* bound on the memories of the store

VARIABLES
    mainThread, \* run() and cleanup() are called on the main thread
    mpc,        \* the native call that comes next
    doc,        \* document of the loop of ingest()
    memories,   \* the native store: a memory's id is its index
    sources,    \* _ingest_sources: document of each id, 0 for none
    deleted,    \* _native_deleted
    openHandles,\* resources not yet closed
    paths       \* stores on disk

mem0Vars == <<mainThread, mpc, doc, memories, sources, deleted, openHandles, paths>>

\* The resources _native_resources names, in the order they are closed in; the
\* three HTTP clients are one.
HandleOrder == <<"qdrant", "sqlite", "clients">>
Handles == {HandleOrder[i] : i \in DOMAIN HandleOrder}
Stores  == {"qdrant", "history"}

\* A memory remembers the documents that went into it, the last of them, and
\* whether the store keeps the metadata.  Two histories go with it: that a response
\* has named its id, and that the adapter has passed on to the next document while
\* the memory had no source.
Memory(d, meta) ==
    [docs |-> {d}, last |-> d, meta |-> meta, named |-> FALSE, passed |-> FALSE]

\* A document goes into a memory, too.
Updated(m, d) == [m EXCEPT !.docs = @ \cup {d}, !.last = d]

Named(m) == [m EXCEPT !.named = TRUE]

Passed(m) == [m EXCEPT !.passed = TRUE]

Mem0Init ==
    /\ mainThread \in BOOLEAN
    /\ mpc = "none" /\ doc = 1
    /\ memories = <<>> /\ sources = <<>>
    /\ deleted = FALSE /\ openHandles = {} /\ paths = {}

-----------------------------------------------------------------------------
(* Construction *)

Mem0Constructed ==
    /\ Constructed
    /\ openHandles' = Handles /\ paths' = Stores
    /\ UNCHANGED <<mainThread, mpc, doc, memories, sources, deleted>>

\* Dirty or unwritable stores, a factory that raises (what it made is closed),
\* or another candidate that fails after this one was constructed
Mem0Abandoned ==
    /\ Abandon
    /\ openHandles' \in {{}, Handles}
    /\ paths' \in SUBSET Stores
    /\ UNCHANGED <<mainThread, mpc, doc, memories, sources, deleted>>

-----------------------------------------------------------------------------
(* The ways out of run() *)

\* The handler of run(): once the cap is passed every Exception, a cancellation
\* too, becomes the budget outcome; others go to the orchestrator.
Mem0Raises(status) ==
    Stops(IF exceeded' THEN "BUDGET_EXCEEDED" ELSE status)

\* A native call under _bounded: it may fail, run into its deadline, or have none
\* off the main thread.  The signal is raised before and after the call.
Returns == mainThread /\ ~token

\* What is left of a call that did not return
Mem0Fails(status) ==
    /\ Mem0Raises(status)
    /\ mpc' = "none"
    /\ UNCHANGED <<mainThread, doc, sources, deleted, openHandles, paths>>

\* The exception handlers around add, search and answer wrap every Exception but
\* the deadline's, so a cancellation leaves them as a FAILED candidate.
Wrapped == "FAILED"

\* Ctrl-C is no Exception: it passes all handlers but the orchestrator's.
Mem0Interrupt ==
    /\ stage = "running" /\ mainThread
    /\ Stops("CANCELLED")
    /\ NoCharge
    /\ mpc' = "none"
    /\ UNCHANGED <<mainThread, doc, memories, sources, deleted, openHandles, paths>>

Mem0Start ==
    /\ Start(IF exceeded THEN "BUDGET_EXCEEDED" ELSE "CANCELLED")
    /\ mpc' = IF token THEN "none" ELSE "add"
    /\ UNCHANGED <<mainThread, doc, memories, sources, deleted, openHandles, paths>>

-----------------------------------------------------------------------------
(* ingest() *)

NextDoc ==
    /\ mpc' = IF doc = Docs THEN "query" ELSE "add"
    /\ doc' = IF doc = Docs THEN doc ELSE doc + 1

\* What a call of add does to the store: the memories it makes (with or without the
\* metadata), those it updates, and which of either its response names by id.
Makings == UNION {[1..n -> BOOLEAN] : n \in 0..(MaxMemories - Len(memories))}

Touched(made, updated) ==
    updated \cup (Len(memories) + 1)..(Len(memories) + Len(made))

Effects ==
    UNION {UNION {{[made |-> made, updated |-> updated, named |-> named] :
                        named \in SUBSET Touched(made, updated)} :
                  updated \in SUBSET (DOMAIN memories)} :
           made \in Makings}

NoEffect == [made |-> <<>>, updated |-> {}, named |-> {}]

Count(effect) == Len(memories) + Len(effect.made)

\* The memory i after the call
Touch(effect, i) ==
    IF i > Len(memories) THEN Memory(doc, effect.made[i - Len(memories)])
    ELSE IF i \in effect.updated THEN Updated(memories[i], doc)
    ELSE memories[i]

Stored(effect) == [i \in 1..Count(effect) |-> Touch(effect, i)]

SourceSoFar(i) == IF i \in DOMAIN sources THEN sources[i] ELSE 0

\* The ids the response names are attributed to the document.  When it names some,
\* nothing looks for the others.
Attributed(effect) ==
    [i \in 1..Count(effect) |-> IF i \in effect.named THEN doc ELSE SourceSoFar(i)]

Remembered(effect) ==
    [i \in 1..Count(effect) |->
        IF i \in effect.named THEN Named(Touch(effect, i))
        ELSE IF effect.named # {} /\ SourceSoFar(i) = 0 THEN Passed(Touch(effect, i))
        ELSE Touch(effect, i)]

\* add(infer=True), and add(infer=False) when it had no results; only a document
\* whose response names no id takes the memories that have no source yet.
AddReturns ==
    /\ stage = "running" /\ mpc \in {"add", "addPlain"} /\ Returns
    /\ Charge
    /\ \E effect \in Effects :
          /\ memories' = Remembered(effect)
          /\ sources' = Attributed(effect)
          /\ IF effect = NoEffect /\ mpc = "add"
             THEN mpc' = "addPlain" /\ UNCHANGED doc
             ELSE IF effect.named # {}
             THEN NextDoc
             ELSE mpc' = "map" /\ UNCHANGED doc
    /\ Goes /\ UNCHANGED observed
    /\ UNCHANGED <<mainThread, deleted, openHandles, paths>>

\* A call that raises may have been made, and may have changed the store; its
\* response is lost.  The second add is outside the handlers.
AddRaises ==
    /\ stage = "running" /\ mpc \in {"add", "addPlain"}
    /\ IF mainThread
       THEN Charge /\ \E effect \in Effects : memories' = Stored(effect)
       ELSE NoCharge /\ UNCHANGED memories
    /\ \/ Mem0Raises(Wrapped)
       \/ token /\ mpc = "addPlain" /\ Mem0Raises("CANCELLED")
    /\ sources' = [i \in DOMAIN memories' |-> SourceSoFar(i)]
    /\ mpc' = "none"
    /\ UNCHANGED <<mainThread, doc, deleted, openHandles, paths>>

\* Variant of MapUnattributed that gives every memory to the document
MapAll ==
    /\ stage = "running" /\ mpc = "map" /\ mainThread
    /\ sources' = [i \in DOMAIN sources |-> doc]
    /\ NextDoc /\ NoCharge
    /\ Goes /\ UNCHANGED observed
    /\ UNCHANGED <<mainThread, memories, deleted, openHandles, paths>>

\* _map_unattributed_memories: get_all, and every memory without a source
MapUnattributed ==
    /\ stage = "running" /\ mpc = "map" /\ mainThread
    /\ sources' = [i \in DOMAIN sources |-> IF sources[i] = 0 THEN doc ELSE sources[i]]
    /\ NextDoc /\ NoCharge
    /\ Goes /\ UNCHANGED observed
    /\ UNCHANGED <<mainThread, memories, deleted, openHandles, paths>>

\* get_all failed, or ran into its deadline: nothing is attributed, nothing said.
MapLost ==
    /\ stage = "running" /\ mpc = "map"
    /\ memories' = [i \in DOMAIN memories |->
                        IF sources[i] = 0 THEN Passed(memories[i]) ELSE memories[i]]
    /\ NextDoc /\ NoCharge
    /\ Goes /\ UNCHANGED observed
    /\ UNCHANGED <<mainThread, sources, deleted, openHandles, paths>>

-----------------------------------------------------------------------------
(* The questions *)

\* _result_source_id: the metadata of the result, or else _ingest_sources
SourceOf(i) == IF memories[i].meta THEN memories[i].last ELSE sources[i]

\* The head of the loop raises the signal; after the last question the outcome
\* is the budget's or OK, with an observation for every question.
QueryCancelled ==
    /\ stage = "running" /\ mpc = "query" /\ observed < Queries /\ token
    /\ NoCharge
    /\ Mem0Fails("CANCELLED")
    /\ UNCHANGED memories

\* Variant of AllAnswered, off by one
AllAnsweredLate ==
    /\ stage = "running" /\ mpc = "query" /\ observed > Queries
    /\ NoCharge
    /\ IF exceeded
       THEN Stops("BUDGET_EXCEEDED")
       ELSE Ends("OK", observed, observed = Queries)
    /\ mpc' = "none"
    /\ UNCHANGED <<mainThread, doc, memories, sources, deleted, openHandles, paths>>

AllAnswered ==
    /\ stage = "running" /\ mpc = "query" /\ observed = Queries
    /\ NoCharge
    /\ IF exceeded
       THEN Stops("BUDGET_EXCEEDED")
       ELSE Ends("OK", observed, observed = Queries)
    /\ mpc' = "none"
    /\ UNCHANGED <<mainThread, doc, memories, sources, deleted, openHandles, paths>>

\* search_native, and answer() when the results name a source
Search ==
    /\ stage = "running" /\ mpc = "query" /\ observed < Queries /\ Returns
    /\ Charge
    /\ \E i \in DOMAIN memories : SourceOf(i) # 0
    /\ mpc' = "answer"
    /\ Goes /\ UNCHANGED observed
    /\ UNCHANGED <<mainThread, doc, memories, sources, deleted, openHandles, paths>>

\* The search raises, or answer() has no source to cite.
SearchRaises ==
    /\ stage = "running" /\ mpc = "query" /\ observed < Queries
    /\ Charge
    /\ Mem0Fails(Wrapped)
    /\ UNCHANGED memories

\* A structured answer whose sources are among the retrieved ones
Answer ==
    /\ stage = "running" /\ mpc \in {"answer", "answerRetry"} /\ Returns
    /\ Charge
    /\ observed' = observed + 1
    /\ mpc' = "query"
    /\ Goes
    /\ UNCHANGED <<mainThread, doc, memories, sources, deleted, openHandles, paths>>

\* Without evidence ids it is asked for once more, and then refused.
AnswerRetry ==
    /\ stage = "running" /\ mpc = "answer" /\ Returns
    /\ Charge
    /\ mpc' = "answerRetry"
    /\ Goes /\ UNCHANGED observed
    /\ UNCHANGED <<mainThread, doc, memories, sources, deleted, openHandles, paths>>

AnswerRaises ==
    /\ stage = "running" /\ mpc \in {"answer", "answerRetry"}
    /\ Charge
    /\ Mem0Fails(Wrapped)
    /\ UNCHANGED memories

-----------------------------------------------------------------------------
(* cleanup() *)

Mem0BeginCleanup ==
    /\ BeginCleanup
    /\ mpc' = IF deleted THEN "close" ELSE "delete"
    /\ UNCHANGED <<mainThread, doc, memories, sources, deleted, openHandles, paths>>

\* delete_all may leave memories behind.
DeleteAll ==
    /\ stage = "cleaning" /\ mpc = "delete" /\ mainThread
    /\ \E left \in {memories, <<>>} :
          memories' = left /\ sources' = IF left = <<>> THEN <<>> ELSE sources
    /\ mpc' = "verify"
    /\ UNCHANGED <<runVars, mainThread, doc, deleted, openHandles, paths>>

\* Variant of VerifyDeleted that takes delete_all at its word
VerifyNothing ==
    /\ stage = "cleaning" /\ mpc = "verify" /\ mainThread
    /\ deleted' = TRUE
    /\ mpc' = "close"
    /\ UNCHANGED <<runVars, mainThread, doc, memories, sources, openHandles, paths>>

\* get_all finds none of them.
VerifyDeleted ==
    /\ stage = "cleaning" /\ mpc = "verify" /\ mainThread
    /\ memories = <<>>
    /\ deleted' = TRUE
    /\ mpc' = "close"
    /\ UNCHANGED <<runVars, mainThread, doc, memories, sources, openHandles, paths>>

\* A resource that is closed is remembered, and not closed again by a retry.
CloseHandle ==
    /\ stage = "cleaning" /\ mpc = "close" /\ mainThread
    /\ \E i \in DOMAIN HandleOrder :
          /\ HandleOrder[i] \in openHandles
          /\ \A j \in 1..(i - 1) : HandleOrder[j] \notin openHandles
          /\ openHandles' = openHandles \ {HandleOrder[i]}
    /\ UNCHANGED <<runVars, mainThread, mpc, doc, memories, sources, deleted, paths>>

RemoveStore ==
    /\ stage = "cleaning" /\ mpc = "close" /\ openHandles = {}
    /\ \E p \in paths :
          /\ "qdrant" \in paths => p = "qdrant"
          /\ paths' = paths \ {p}
    /\ UNCHANGED <<runVars, mainThread, mpc, doc, memories, sources, deleted,
                   openHandles>>

Mem0Cleaned ==
    /\ mpc = "close" /\ openHandles = {} /\ paths = {}
    /\ EndCleanup("complete")
    /\ mpc' = "none"
    /\ UNCHANGED <<mainThread, doc, memories, sources, deleted, openHandles, paths>>

\* Any step raises, the deadline of the first one off the main thread too; what
\* was done stays done.
Mem0CleanupRaises ==
    /\ EndCleanup("raised")
    /\ mpc' = "none"
    /\ UNCHANGED <<mainThread, doc, memories, sources, deleted, openHandles, paths>>

-----------------------------------------------------------------------------
Mem0Ingest == AddReturns \/ AddRaises \/ MapUnattributed \/ MapLost

Mem0Query == QueryCancelled \/ AllAnswered \/ Search \/ SearchRaises \/ Answer
             \/ AnswerRetry \/ AnswerRaises

Mem0Cleanup == DeleteAll \/ VerifyDeleted \/ CloseHandle \/ RemoveStore
               \/ Mem0Cleaned \/ Mem0CleanupRaises

\* Steps the system takes on its own
Mem0Work == Mem0Ingest \/ Mem0Query \/ Mem0Cleanup

Mem0Environment ==
    /\ EnterProxy \/ EnterFails \/ Signal
    /\ UNCHANGED mem0Vars

Mem0Next ==
    \/ Mem0Environment
    \/ Mem0Constructed \/ Mem0Abandoned \/ Mem0Start \/ Mem0Interrupt
    \/ Mem0BeginCleanup
    \/ Mem0Work

-----------------------------------------------------------------------------
\* What a complete receipt vouches for
Mem0Residue == memories # <<>> \/ openHandles # {} \/ paths # {}

\* An answer's citation comes from SourceOf.  It names a document that went into the
\* memory, unless no response ever named the memory and the adapter passed on while
\* it had no source, because a response named others only or get_all failed; even
\* then it does not name a document before all those that went in.
Mem0AttributionHolds ==
    \A i \in DOMAIN memories :
        SourceOf(i) # 0 =>
            /\ SourceOf(i) \in memories[i].docs \/ (memories[i].passed /\ ~memories[i].named)
            /\ \E d \in memories[i].docs : d <= SourceOf(i)
=============================================================================
