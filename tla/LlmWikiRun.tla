------------------------------ MODULE LlmWikiRun ------------------------------
(***************************************************************************)
(* LLMWikiCandidate (production.py) over LLMWikiAdapter (candidates/       *)
(* llm_wiki.py): a tool cache that all runs share and that is trusted only *)
(* when it verifies, a run-local workspace in which one native operation   *)
(* after the other leaves its requests, responses and pages, and at the    *)
(* end the removal of the run home, the redaction of every file and the    *)
(* seal.                                                                   *)
(***************************************************************************)
EXTENDS CandidateRun

VARIABLES
    wpc,        \* where LLMWikiAdapter.run is
    operation,  \* index of the native operation, of Operations
    nativeOk,   \* status of the adapter's run is still OK
    cache,      \* the shared tool cache
    toolHome,   \* the temporary home of the cache's commands exists
    workspace,  \* the run-local workspace
    runHome,    \* workspace/home exists
    secrets,    \* where in the workspace a credential may be in the clear
    sealed,     \* the seal was written
    mishap      \* the removal of the home or a redaction was cut short

wikiVars == <<wpc, operation, nativeOk, cache, toolHome, workspace, runHome,
              secrets, sealed, mishap>>

\* The response of the call at hand, and the files the native tool leaves, are text,
\* or not UTF-8 (a process that was killed may cut a character in two).
Undecodable == {"rawResponse", "rawFiles"}
Places      == {"request", "response", "files"} \cup Undecodable
CallFiles   == {"request", "response", "rawResponse"}

Caches      == {"absent", "incomplete", "altered", "pinned"}
Workspaces  == {"absent", "empty", "dirty", "sealed"}

\* ingest of each document, compile, query of each question, export, lint
Operations == Docs + 1 + Queries + 2
IsQuery(n) == n > Docs + 1 /\ n <= Docs + 1 + Queries

WikiInit ==
    /\ wpc = "none" /\ operation = 1 /\ nativeOk = TRUE
    /\ cache \in Caches /\ toolHome = FALSE
    /\ workspace \in Workspaces
    /\ runHome = FALSE /\ secrets = {} /\ sealed = FALSE /\ mishap = FALSE

-----------------------------------------------------------------------------
WikiConstructed == Constructed /\ UNCHANGED wikiVars
WikiAbandoned   == Abandon /\ UNCHANGED wikiVars

WikiStart ==
    /\ Start("CANCELLED")
    /\ wpc' = IF token THEN "none" ELSE "validate"
    /\ UNCHANGED <<operation, nativeOk, cache, toolHome, workspace, runHome,
                   secrets, sealed, mishap>>

\* An exception leaves run(): the orchestrator's outcome is FAILED, or CANCELLED
\* for a signal or Ctrl-C.
WikiEscapes(status) ==
    /\ Stops(status)
    /\ wpc' = "none"
    /\ UNCHANGED <<operation, nativeOk>>

Quiet == NoCharge /\ UNCHANGED observed

\* Inputs that may not enter, or a workspace that is not empty (and whose seal,
\* if it has one, is checked first)
Refuse ==
    /\ stage = "running" /\ wpc = "validate"
    /\ WikiEscapes("FAILED") /\ NoCharge
    /\ UNCHANGED <<cache, toolHome, workspace, runHome, secrets, sealed, mishap>>

Validate ==
    /\ stage = "running" /\ wpc = "validate"
    /\ workspace \in {"absent", "empty"}
    /\ toolHome' = TRUE
    /\ wpc' = "cache"
    /\ Goes /\ Quiet
    /\ UNCHANGED <<operation, nativeOk, cache, workspace, runHome, secrets, sealed,
                   mishap>>

\* A cache without contents is installed, its marker written last; then, like
\* one that was found, it is verified against the pin.
ToolReady ==
    /\ stage = "running" /\ wpc = "cache" /\ ~token
    /\ cache \in {"absent", "pinned"}
    /\ cache' = "pinned"
    /\ toolHome' = FALSE
    /\ wpc' = "workspace"
    /\ Goes /\ Quiet
    /\ UNCHANGED <<operation, nativeOk, workspace, runHome, secrets, sealed, mishap>>

\* The installation or the verification fails or is cut short; what was
\* installed so far stays, and is refused by every later run.  The temporary
\* home goes, unless its removal fails.
ToolFails ==
    /\ stage = "running" /\ wpc = "cache"
    /\ cache' \in IF cache = "absent" THEN {"absent", "incomplete", "pinned"}
                  ELSE {cache}
    /\ toolHome' \in BOOLEAN
    /\ \E s \in {"FAILED", "CANCELLED"} : WikiEscapes(s)
    /\ NoCharge
    /\ UNCHANGED <<workspace, runHome, secrets, sealed, mishap>>

\* mkdir without exist_ok: an empty directory that is there already is refused.
PrepareWorkspace ==
    /\ stage = "running" /\ wpc = "workspace"
    /\ workspace = "absent"
    /\ workspace' = "dirty"
    /\ runHome' = TRUE
    /\ wpc' = "ready"
    /\ Goes /\ Quiet
    /\ UNCHANGED <<operation, nativeOk, cache, toolHome, secrets, sealed, mishap>>

PrepareWorkspaceFails ==
    /\ stage = "running" /\ wpc = "workspace"
    /\ WikiEscapes("FAILED") /\ NoCharge
    /\ workspace' \in IF workspace = "absent" THEN {"absent", "dirty"} ELSE {workspace}
    /\ runHome' \in {FALSE, workspace' = "dirty"}
    /\ UNCHANGED <<cache, toolHome, secrets, sealed, mishap>>

-----------------------------------------------------------------------------
(* _invoke *)

\* The request is on disk and the process runs, with the credential in its
\* environment.
Invoke ==
    /\ stage = "running" /\ wpc = "ready" /\ operation <= Operations
    /\ \E written \in SUBSET Places : secrets' = secrets \cup written
    /\ wpc' = "called"
    /\ Goes /\ Quiet
    /\ UNCHANGED <<operation, nativeOk, cache, toolHome, workspace, runHome, sealed,
                   mishap>>

\* The process ended.  Its request and response are redacted before anything is
\* read from them, with what is not UTF-8 replaced; the response may be refused, or
\* the process have failed, timed out or been refused by the proxy, which fails the
\* adapter's run.
InvokeReturns ==
    /\ stage = "running" /\ wpc = "called" /\ ~token
    /\ Charge
    /\ secrets' = secrets \ CallFiles
    /\ \/ /\ operation' = operation + 1
          /\ observed' = IF IsQuery(operation) THEN observed + 1 ELSE observed
          /\ UNCHANGED nativeOk
       \/ nativeOk' = FALSE /\ UNCHANGED <<operation, observed>>
    /\ wpc' = IF nativeOk' /\ operation' <= Operations THEN "ready" ELSE "home"
    /\ Goes
    /\ UNCHANGED <<cache, toolHome, workspace, runHome, sealed, mishap>>

\* Writing a log or an artifact failed; the handler of OSError ends the loop.
InvokeUnwritten ==
    /\ stage = "running" /\ wpc = "called"
    /\ Charge
    /\ nativeOk' = FALSE
    /\ wpc' = "home"
    /\ Goes /\ UNCHANGED observed
    /\ UNCHANGED <<operation, cache, toolHome, workspace, runHome, secrets, sealed,
                   mishap>>

\* _redact_workspace: every file is rewritten, but those it cannot decode are passed
\* over.
RedactWorkspace(found) == found \cap Undecodable

\* Variant of InvokeRaises that redacts the operation's files only
InvokeRaisesPartly ==
    /\ stage = "running" /\ wpc = "called"
    /\ Charge
    /\ secrets' = secrets \ CallFiles
    /\ runHome' = FALSE
    /\ WikiEscapes("CANCELLED")
    /\ UNCHANGED <<cache, toolHome, workspace, sealed, mishap>>

\* The signal or Ctrl-C reaches the runner: the group is torn down, request,
\* response and the whole workspace are redacted, the home is removed, and the
\* exception goes on.
InvokeRaises ==
    /\ stage = "running" /\ wpc = "called"
    /\ Charge
    /\ secrets' = RedactWorkspace(secrets \ CallFiles)
    /\ runHome' = FALSE
    /\ WikiEscapes("CANCELLED")
    /\ UNCHANGED <<cache, toolHome, workspace, sealed, mishap>>

\* Ctrl-C anywhere else, a symlink the redaction will not follow, or a home that
\* cannot be removed
Mishap ==
    /\ stage = "running" /\ wpc \in {"called", "ready", "home", "redact", "seal"}
    /\ NoCharge
    /\ mishap' = TRUE
    /\ \E s \in {"FAILED", "CANCELLED"} : WikiEscapes(s)
    /\ runHome' \in {FALSE, runHome}
    /\ secrets' \in SUBSET secrets
    /\ UNCHANGED <<cache, toolHome, workspace, sealed>>

-----------------------------------------------------------------------------
(* The end of run() *)

RemoveHome ==
    /\ stage = "running" /\ wpc = "home"
    /\ runHome' = FALSE
    /\ wpc' = "redact"
    /\ Goes /\ Quiet
    /\ UNCHANGED <<operation, nativeOk, cache, toolHome, workspace, secrets, sealed,
                   mishap>>

\* _read_metering and _redact_workspace, for a failed run too
Redact ==
    /\ stage = "running" /\ wpc = "redact"
    /\ secrets' = RedactWorkspace(secrets)
    /\ wpc' = "seal"
    /\ Goes /\ Quiet
    /\ UNCHANGED <<operation, nativeOk, cache, toolHome, workspace, runHome, sealed,
                   mishap>>

Seal ==
    /\ stage = "running" /\ wpc = "seal"
    /\ sealed' = TRUE /\ workspace' = "sealed"
    /\ wpc' = "result"
    /\ Goes /\ Quiet
    /\ UNCHANGED <<operation, nativeOk, cache, toolHome, runHome, secrets, mishap>>

\* The wrapper: the signal, then the budget, whatever the adapter's status was
WikiResult ==
    /\ stage = "running" /\ wpc = "result"
    /\ NoCharge
    /\ IF token THEN Stops("CANCELLED")
       ELSE IF exceeded THEN Stops("BUDGET_EXCEEDED")
       ELSE Ends(IF nativeOk THEN "OK" ELSE "FAILED", observed,
                 observed > 0 /\ nativeOk)
    /\ wpc' = "none"
    /\ UNCHANGED <<operation, nativeOk, cache, toolHome, workspace, runHome, secrets,
                   sealed, mishap>>

-----------------------------------------------------------------------------
(* cleanup() *)

WikiBeginCleanup == BeginCleanup /\ UNCHANGED wikiVars

\* rmtree of the workspace: gone, or in part there with an error
WikiCleaned ==
    /\ EndCleanup("complete")
    /\ workspace' = "absent"
    /\ runHome' = FALSE /\ secrets' = {} /\ sealed' = FALSE
    /\ UNCHANGED <<wpc, operation, nativeOk, cache, toolHome, mishap>>

WikiCleanupFails ==
    /\ workspace # "absent"
    /\ EndCleanup("incomplete") \/ EndCleanup("interrupted")
    /\ workspace' \in {workspace, "dirty"}
    /\ runHome' \in {FALSE, runHome} /\ secrets' \in SUBSET secrets
    /\ sealed' \in {FALSE, sealed}
    /\ UNCHANGED <<wpc, operation, nativeOk, cache, toolHome, mishap>>

-----------------------------------------------------------------------------
WikiWork == Refuse \/ Validate \/ ToolReady \/ ToolFails \/ PrepareWorkspace
            \/ PrepareWorkspaceFails \/ Invoke \/ InvokeReturns \/ InvokeUnwritten
            \/ InvokeRaises \/ RemoveHome \/ Redact \/ Seal \/ WikiResult
            \/ WikiCleaned \/ WikiCleanupFails

WikiEnvironment == (EnterProxy \/ EnterFails \/ Signal) /\ UNCHANGED wikiVars

WikiNext ==
    \/ WikiEnvironment
    \/ WikiConstructed \/ WikiAbandoned \/ WikiStart
    \/ WikiBeginCleanup \/ Mishap
    \/ WikiWork

-----------------------------------------------------------------------------
\* What a complete receipt vouches for
WikiResidue == workspace # "absent"

\* However a run ends (an answer, a failed or unwritten operation, the budget, a
\* cancellation in the middle of one), no credential is left in a text file of the
\* workspace, nor in any response of a native operation unless writing its log
\* failed, save when Ctrl-C struck outside the runner or the removal or the redaction
\* itself failed; and a seal is never set on a workspace with a home, or with a text
\* file that was not redacted.
WikiRedactionHolds ==
    /\ stage \in {"ran", "cleaning", "cleaned"} /\ ~mishap =>
          /\ secrets \subseteq Undecodable
          /\ nativeOk => "rawResponse" \notin secrets
    /\ sealed => secrets \subseteq Undecodable /\ ~runHome
=============================================================================
