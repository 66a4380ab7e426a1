------------------------------ MODULE Candidates ------------------------------
(***************************************************************************)
(* One native candidate of a run, whichever of the three: each of Mem0Run, *)
(* LlmWikiRun and GBrainRun against CandidateContract.                     *)
(***************************************************************************)
EXTENDS CandidateRun

CONSTANTS
    mem0, llmWiki, gbrain, \* the three candidates
    MaxMemories            \* bound on the memories of a Mem0 store

ASSUME KindAssumption == mem0 # llmWiki /\ mem0 # gbrain /\ llmWiki # gbrain

ASSUME MemoryAssumption == MaxMemories \in Nat

VARIABLES
    kind,       \* the candidate at hand
    mainThread, mpc, doc, memories, sources, deleted, openHandles, paths,
    mode, gpc, command, checkout, home, corpus,
    wpc, operation, nativeOk, cache, toolHome, workspace, runHome, secrets,
    sealed, mishap

M == INSTANCE Mem0Run
W == INSTANCE LlmWikiRun
G == INSTANCE GBrainRun

mem0Vars   == <<mainThread, mpc, doc, memories, sources, deleted, openHandles, paths>>
gbrainVars == <<mode, gpc, command, checkout, home, corpus>>
wikiVars   == <<wpc, operation, nativeOk, cache, toolHome, workspace, runHome,
                secrets, sealed, mishap>>

vars == <<kind, runVars, mem0Vars, gbrainVars, wikiVars>>

\* The variables of the candidates that are not at hand stay at one value.
Init ==
    /\ RunInit
    /\ M!Mem0Init /\ W!WikiInit /\ G!GBrainInit
    /\ \/ kind = mem0    /\ mode = "keyword" /\ checkout = "absent"
                         /\ cache = "absent" /\ workspace = "absent"
       \/ kind = llmWiki /\ mode = "keyword" /\ checkout = "absent" /\ mainThread
       \/ kind = gbrain  /\ cache = "absent" /\ workspace = "absent" /\ mainThread

Mem0Step ==
    /\ kind = mem0 /\ M!Mem0Next
    /\ UNCHANGED <<kind, gbrainVars, wikiVars>>

WikiStep ==
    /\ kind = llmWiki /\ W!WikiNext
    /\ UNCHANGED <<kind, mem0Vars, gbrainVars>>

GBrainStep ==
    /\ kind = gbrain /\ G!GBrainNext
    /\ UNCHANGED <<kind, mem0Vars, wikiVars>>

Next == Mem0Step \/ WikiStep \/ GBrainStep

\* The steps of run() and cleanup() that go on by themselves: every native call
\* has a deadline, or a process with a timeout behind it.
Work ==
    \/ kind = mem0 /\ M!Mem0Work /\ UNCHANGED <<kind, gbrainVars, wikiVars>>
    \/ kind = llmWiki /\ W!WikiWork /\ UNCHANGED <<kind, mem0Vars, gbrainVars>>
    \/ kind = gbrain /\ G!GBrainWork /\ UNCHANGED <<kind, mem0Vars, wikiVars>>

Spec == Init /\ [][Next]_vars /\ WF_vars(Work)

-----------------------------------------------------------------------------
(* Properties *)

\* Native state the candidate's receipt vouches for
Residue ==
    CASE kind = mem0    -> M!Mem0Residue
      [] kind = llmWiki -> W!WikiResidue
      [] kind = gbrain  -> G!GBrainResidue

Contract == INSTANCE CandidateContract WITH residue <- Residue

\* Each candidate, with its wrapper, implements what RunOrchestrator relies on:
\* only one that observed every question is eligible, a complete receipt is given
\* only when nothing it vouches for is left, and the proxy is closed by every
\* cleanup and every failed construction.
ImplementsContract == Contract!Spec

\* A citation names a document that went into the memory cited, or a later one when
\* nothing ever told the adapter whose memory it is; never an earlier one.
AttributionHolds == M!Mem0AttributionHolds

\* No run leaves a credential in a text file of the workspace, or in a response it
\* has read, and no seal covers one there.
RedactionHolds == W!WikiRedactionHolds

\* run() and cleanup() come to an end: each native call has a deadline, and what
\* stops a candidate leaves the loop.
CandidateSettles ==
    /\ stage = "running" ~> stage = "ran"
    /\ stage = "cleaning" ~> stage = "cleaned"
=============================================================================
