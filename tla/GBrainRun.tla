------------------------------ MODULE GBrainRun ------------------------------
(***************************************************************************)
(* GBrainCandidate (production.py) over GBrainAdapter (candidates/         *)
(* gbrain.py): a pinned checkout that all runs share, a run-local home and *)
(* corpus, and one native command after the other, init, import and sync   *)
(* first, then the surfaces of each question.                              *)
(***************************************************************************)
EXTENDS CandidateRun

VARIABLES
    mode,       \* capability of GBrainExecutionConfig
    gpc,        \* where GBrainAdapter.run is
    command,    \* index into Plan of the native command that comes next
    checkout,   \* the shared checkout of the pinned commit
    home,       \* the run-local GBRAIN_HOME exists
    corpus      \* run_root/sources holds the documents

gbrainVars == <<mode, gpc, command, checkout, home, corpus>>

Modes == {"keyword", "semantic", "chat"}

\* absent; interrupted while cloning; at some commit without dependencies; at
\* the pinned commit with the locked dependencies
Checkouts == {"absent", "partial", "bare", "pinned"}

\* The native commands of a run, in order
Lifecycle == <<"init --help", "init", "import", "sync", "status">>

Surfaces ==
    CASE mode = "keyword"  -> <<"search">>
      [] mode = "semantic" -> <<"search", "query">>
      [] mode = "chat"     -> <<"search", "query", "think">>

Asked == command - Len(Lifecycle)
Last  == Len(Lifecycle) + Queries * Len(Surfaces)
Plan(n) == IF n <= Len(Lifecycle) THEN Lifecycle[n]
           ELSE Surfaces[((n - Len(Lifecycle) - 1) % Len(Surfaces)) + 1]

\* The command is the last surface of its question.
Concludes == Asked > 0 /\ Asked % Len(Surfaces) = 0

GBrainInit ==
    /\ mode \in Modes
    /\ gpc = "none" /\ command = 1
    /\ checkout \in Checkouts
    /\ home = FALSE /\ corpus = FALSE

-----------------------------------------------------------------------------
GBrainConstructed == Constructed /\ UNCHANGED gbrainVars
GBrainAbandoned   == Abandon /\ UNCHANGED gbrainVars

GBrainStart ==
    /\ Start("CANCELLED")
    /\ gpc' = IF token THEN "none" ELSE "checkout"
    /\ UNCHANGED <<mode, command, checkout, home, corpus>>

\* Another run of the same user repairs the shared checkout: git clean takes the
\* installed dependencies away, bun install brings them back.
OtherRun ==
    /\ stage = "running" /\ checkout \in {"bare", "pinned"}
    /\ checkout' = IF checkout = "pinned" THEN "bare" ELSE "pinned"
    /\ UNCHANGED <<runVars, mode, gpc, command, home, corpus>>

\* The ways out of run(): a missing provider and every GBrainProcessError, the
\* timeout, the missing capability, the corrupt output and the termination of
\* this process among them, become outcomes; a signal and what else is raised go
\* to the orchestrator.
GBrainStops(status) ==
    /\ Stops(status)
    /\ gpc' = "none"
    /\ UNCHANGED <<mode, command>>

Reasons == {"FAILED"} \cup (IF token THEN {"CANCELLED"} ELSE {})

GBrainInterrupt ==
    /\ stage = "running" /\ gpc # "none"
    /\ GBrainStops("CANCELLED") /\ NoCharge
    /\ UNCHANGED <<checkout, home, corpus>>

\* ensure_checkout: clone when there is none, then fetch, checkout, reset, clean
\* and install the pinned commit; any command may fail or be killed.
EnsureCheckout ==
    /\ stage = "running" /\ gpc = "checkout" /\ ~token
    /\ checkout' = "pinned"
    /\ gpc' = "prepare"
    /\ Goes /\ NoCharge /\ UNCHANGED observed
    /\ UNCHANGED <<mode, command, home, corpus>>

CheckoutFails ==
    /\ stage = "running" /\ gpc = "checkout"
    /\ checkout' \in IF checkout = "absent" THEN {"absent", "partial", "bare"}
                     ELSE {checkout, "bare"}
    /\ \E s \in Reasons : GBrainStops(s)
    /\ NoCharge
    /\ UNCHANGED <<home, corpus>>

\* The metering URL must be supported; then the home and the documents.
Prepare ==
    /\ stage = "running" /\ gpc = "prepare"
    /\ home' = TRUE /\ corpus' = TRUE
    /\ gpc' = "command"
    /\ Goes /\ NoCharge /\ UNCHANGED observed
    /\ UNCHANGED <<mode, command, checkout>>

PrepareFails ==
    /\ stage = "running" /\ gpc = "prepare"
    /\ home' \in BOOLEAN /\ corpus' \in {FALSE, home'}
    /\ GBrainStops("FAILED")
    /\ NoCharge
    /\ UNCHANGED checkout

\* Only the chat model is reached through the metering proxy.
Bills == IF mode = "chat" THEN Charge ELSE NoCharge

\* A command returns 0 with JSON.  sync may fail for want of a git HEAD.
CommandReturns ==
    /\ stage = "running" /\ gpc = "command" /\ ~token
    /\ checkout = "pinned" \/ Plan(command) = "sync"
    /\ Bills
    /\ command' = command + 1
    /\ observed' = IF Concludes THEN observed + 1 ELSE observed
    /\ gpc' = IF command = Last THEN "results" ELSE "command"
    /\ Goes
    /\ UNCHANGED <<mode, checkout, home, corpus>>

\* It fails, times out or is killed; a call the proxy refuses fails it, too.
CommandFails ==
    /\ stage = "running" /\ gpc = "command"
    /\ Bills
    /\ \E s \in Reasons \cup {"MISSING_PROVIDER"} : GBrainStops(s)
    /\ UNCHANGED <<checkout, home, corpus>>

\* The wrapper looks at the signal, and at the budget, once all is answered.
Results ==
    /\ stage = "running" /\ gpc = "results"
    /\ NoCharge
    /\ IF token THEN Stops("CANCELLED")
       ELSE IF exceeded THEN Stops("BUDGET_EXCEEDED")
       ELSE Ends("OK", observed, mode # "keyword" /\ observed = Queries)
    /\ gpc' = "none"
    /\ UNCHANGED <<mode, command, checkout, home, corpus>>

-----------------------------------------------------------------------------
(* cleanup() *)

GBrainBeginCleanup == BeginCleanup /\ UNCHANGED gbrainVars

\* The home goes file by file; the receipt tells whether it is gone.  The corpus
\* stays in the run directory.
GBrainCleaned ==
    /\ home' \in {FALSE, home}
    /\ EndCleanup(IF home' THEN "incomplete" ELSE "complete")
    /\ UNCHANGED <<mode, gpc, command, checkout, corpus>>

GBrainCleanupFails ==
    /\ home' \in {FALSE, home}
    /\ EndCleanup("interrupted") \/ EndCleanup("incomplete")
    /\ UNCHANGED <<mode, gpc, command, checkout, corpus>>

-----------------------------------------------------------------------------
GBrainWork == EnsureCheckout \/ CheckoutFails \/ Prepare \/ PrepareFails
              \/ CommandReturns \/ CommandFails \/ Results
              \/ GBrainCleaned \/ GBrainCleanupFails

GBrainEnvironment ==
    \/ (EnterProxy \/ EnterFails \/ Signal) /\ UNCHANGED gbrainVars
    \/ OtherRun

GBrainNext ==
    \/ GBrainEnvironment
    \/ GBrainConstructed \/ GBrainAbandoned \/ GBrainStart \/ GBrainInterrupt
    \/ GBrainBeginCleanup
    \/ GBrainWork

-----------------------------------------------------------------------------
\* What a complete receipt vouches for
GBrainResidue == home
=============================================================================
