---------------------------- MODULE ExperimentJobs ----------------------------
(***************************************************************************)
(* ExperimentJobBoundary of experiment_job.py: HTTP handler threads        *)
(* (Clients) call create, validate, start, cancel and rerun on a registry  *)
(* of jobs; every start spawns one worker thread that runs _execute.       *)
(*                                                                         *)
(* A "with self._lock" section is one step.  What the code does between    *)
(* two sections (the factory of validate, runner.cancel(), run() and the   *)
(* result loader of the worker) holds no lock: the thread is in a frame of *)
(* its own meanwhile and every other thread may act.                       *)
(***************************************************************************)
EXTENDS Naturals, FiniteSets

CONSTANTS
    Ids,        \* experiment identifiers
    Clients,    \* handler threads of the ThreadingHTTPServer
    MaxJobs,    \* max_jobs
    MaxEvents   \* bound on published events per job (state space only)

VARIABLES
    status,     \* _Job.lifecycle.status, "ABSENT" when the id has no job
    token,      \* _Job.cancellation is set
    runner,     \* _Job.run is not None
    result,     \* _Job.result.status, "NONE" for None
    events,     \* length of _Job.events
    worker,     \* _Job.thread: "NONE", inside run(), about to lock, or over
    ended,      \* what run() and the loader gave the worker
    frame       \* where each client is inside a call

vars == <<status, token, runner, result, events, worker, ended, frame>>

Answer(e) ==
    IF result[e] # "NONE" THEN result[e]
    ELSE IF status[e] \in {"SUCCEEDED", "FAILED", "CANCELLED"} THEN status[e]
    ELSE "NOT_READY"

Lifecycle == INSTANCE ExperimentLifecycle
                 WITH answer <- [e \in Ids |-> Answer(e)]

Terminal == Lifecycle!Terminal
Allowed  == Lifecycle!Allowed
SlotFree == Lifecycle!SlotFree

ASSUME JobsAssumption ==
    /\ IsFiniteSet(Ids)
    /\ MaxJobs \in Nat \ {0}
    /\ MaxEvents \in Nat

(***************************************************************************)
(* How run() followed by the loader can end.  "OK" and "FAILED" are runs   *)
(* whose comparison was loaded (the loader only makes SUCCEEDED results),  *)
(* "FAILED" those that report FAILED and "OK" those with any other status, *)
(* CANCELLED by Ctrl-C included; "RUN_CANCELLED" is a RunCancelled that    *)
(* escapes run(); "RAISED" is any other exception of either call.          *)
(***************************************************************************)
Ends == {"OK", "FAILED", "RUN_CANCELLED", "RAISED"}

Idle == [at |-> "idle"]
Frames ==
    {Idle}
    \cup [at : {"factory"}, id : Ids, rerun : BOOLEAN]
    \cup [at : {"cancelling"}, id : Ids]
    \cup [at : {"rerun", "starting"}, id : Ids]

\* The id of a rerun is a fresh uuid its client has not been told yet.
Hidden(e) ==
    \E c \in Clients :
        \/ frame[c].at \in {"rerun", "starting"} /\ frame[c].id = e
        \/ frame[c].at = "factory" /\ frame[c].id = e /\ frame[c].rerun

Callable(c, e) ==
    /\ frame[c].at = "idle"
    /\ status[e] # "ABSENT"
    /\ ~Hidden(e)

Init ==
    /\ status = [e \in Ids |-> "ABSENT"]
    /\ token  = [e \in Ids |-> FALSE]
    /\ runner = [e \in Ids |-> FALSE]
    /\ result = [e \in Ids |-> "NONE"]
    /\ events = [e \in Ids |-> 0]
    /\ worker = [e \in Ids |-> "NONE"]
    /\ ended  = [e \in Ids |-> "NONE"]
    /\ frame  = [c \in Clients |-> Idle]

jobVars == <<status, token, runner, result, events, worker, ended>>

-----------------------------------------------------------------------------
(* Client calls *)

\* Variant of Create that forgets max_jobs
CreateUnbounded(c, e) ==
    /\ frame[c].at = "idle"
    /\ status[e] = "ABSENT"
    /\ status' = [status EXCEPT ![e] = "CREATED"]
    /\ UNCHANGED <<token, runner, result, events, worker, ended, frame>>

\* create() of a new id.  For an id already there it changes nothing: it
\* replies the lifecycle (equal request) or INVALID_REQUEST (another one).
Create(c, e) ==
    /\ frame[c].at = "idle"
    /\ status[e] = "ABSENT"
    /\ SlotFree
    /\ status' = [status EXCEPT ![e] = "CREATED"]
    /\ UNCHANGED <<token, runner, result, events, worker, ended, frame>>

\* Variant of EnterFactory that lets a second validate() in
EnterFactoryAgain(c, e, rerun) ==
    /\ status[e] \in {"CREATED", "VALIDATING"}
    /\ status' = [status EXCEPT ![e] = "VALIDATING"]
    /\ frame'  = [frame EXCEPT ![c] =
                    [at |-> "factory", id |-> e, rerun |-> rerun]]
    /\ UNCHANGED <<token, runner, result, events, worker, ended>>

\* validate(), first section; in any other status it only replies.
EnterFactory(c, e, rerun) ==
    /\ status[e] = "CREATED"
    /\ status' = [status EXCEPT ![e] = "VALIDATING"]
    /\ frame'  = [frame EXCEPT ![c] =
                    [at |-> "factory", id |-> e, rerun |-> rerun]]
    /\ UNCHANGED <<token, runner, result, events, worker, ended>>

Validate(c, e) == Callable(c, e) /\ EnterFactory(c, e, FALSE)

\* Where a client goes after validate(): a rerun goes on to start() unless
\* validate() raised.
AfterValidate(c, raised) ==
    frame' = [frame EXCEPT ![c] =
                IF frame[c].rerun /\ ~raised
                THEN [at |-> "starting", id |-> frame[c].id]
                ELSE Idle]

\* The factory returned a runner.  transition() raises when the table does
\* not allow the step: a job cancelled meanwhile is CANCELLED already, and
\* CANCELLED -> CANCELLED is not allowed.
FactoryReturns(c) ==
    /\ frame[c].at = "factory"
    /\ LET e == frame[c].id
           target == IF token[e] THEN "CANCELLED" ELSE "READY"
           raised == target \notin Allowed[status[e]]
       IN  /\ runner' = [runner EXCEPT ![e] = TRUE]
           /\ status' = [status EXCEPT ![e] = IF raised THEN @ ELSE target]
           /\ AfterValidate(c, raised)
    /\ UNCHANGED <<token, result, events, worker, ended>>

\* Variant of FactoryRaises that lets the error out without a transition
FactoryRaisesThrough(c) ==
    /\ frame[c].at = "factory"
    /\ AfterValidate(c, TRUE)
    /\ UNCHANGED jobVars

\* The factory raised: FAILED with its error, unless transition() refuses.
FactoryRaises(c) ==
    /\ frame[c].at = "factory"
    /\ LET e == frame[c].id
           raised == "FAILED" \notin Allowed[status[e]]
       IN  /\ status' = [status EXCEPT ![e] = IF raised THEN @ ELSE "FAILED"]
           /\ result' = [result EXCEPT ![e] = IF raised THEN @ ELSE "FAILED"]
           /\ AfterValidate(c, raised)
    /\ UNCHANGED <<token, runner, events, worker, ended>>

\* start() of a READY job; RUNNING replies, anything else is an error.
Launch(e) ==
    /\ status[e] = "READY"
    /\ runner[e]
    /\ status' = [status EXCEPT ![e] = "RUNNING"]
    /\ worker' = [worker EXCEPT ![e] = "running"]
    /\ UNCHANGED <<token, runner, result, events, ended>>

Start(c, e) ==
    /\ Callable(c, e)
    /\ Launch(e)
    /\ UNCHANGED frame

\* cancel(), locked section; a terminal job only replies.
Cancel(c, e) ==
    /\ Callable(c, e)
    /\ status[e] \notin Terminal
    /\ token'  = [token EXCEPT ![e] = TRUE]
    /\ status' = [status EXCEPT ![e] =
                    IF "CANCELLED" \in Allowed[@] THEN "CANCELLED" ELSE @]
    /\ frame'  = [frame EXCEPT ![c] =
                    IF runner[e] THEN [at |-> "cancelling", id |-> e] ELSE Idle]
    /\ UNCHANGED <<runner, result, events, worker, ended>>

\* cancel(), after the lock: runner.cancel() signals the same token again.
CancelRunner(c) ==
    /\ frame[c].at = "cancelling"
    /\ token' = [token EXCEPT ![frame[c].id] = TRUE]
    /\ frame' = [frame EXCEPT ![c] = Idle]
    /\ UNCHANGED <<status, runner, result, events, worker, ended>>

\* rerun(): create, validate and start of a fresh id, three calls in a row.
Rerun(c, source, e) ==
    /\ Callable(c, source)
    /\ status[e] = "ABSENT"
    /\ SlotFree
    /\ status' = [status EXCEPT ![e] = "CREATED"]
    /\ frame'  = [frame EXCEPT ![c] = [at |-> "rerun", id |-> e]]
    /\ UNCHANGED <<token, runner, result, events, worker, ended>>

RerunValidate(c) ==
    /\ frame[c].at = "rerun"
    /\ EnterFactory(c, frame[c].id, TRUE)

RerunStart(c) ==
    /\ frame[c].at = "starting"
    /\ IF status[frame[c].id] = "READY"
       THEN Launch(frame[c].id)
       ELSE UNCHANGED jobVars
    /\ frame' = [frame EXCEPT ![c] = Idle]

-----------------------------------------------------------------------------
(* The worker thread: _execute *)

\* The sink handed to the factory appends under the lock, whatever the status.
Publish(e) ==
    /\ worker[e] = "running"
    /\ events[e] < MaxEvents
    /\ events' = [events EXCEPT ![e] = @ + 1]
    /\ UNCHANGED <<status, token, runner, result, worker, ended, frame>>

\* run() and the loader end.  Only a signalled run ends as cancelled, but a
\* signalled run may as well finish or fail.
RunEnds(e, end) ==
    /\ worker[e] = "running"
    /\ end = "RUN_CANCELLED" => token[e]
    /\ worker' = [worker EXCEPT ![e] = "finishing"]
    /\ ended'  = [ended EXCEPT ![e] = end]
    /\ UNCHANGED <<status, token, runner, result, events, frame>>

Settle(e, s, r) ==
    /\ status' = [status EXCEPT ![e] = IF @ = "CANCELLED" THEN @ ELSE s]
    /\ result' = [result EXCEPT ![e] = r]

\* Variants of FinishLoaded: without the second look at the token, and with
\* the status of the run as that of the JobResult
FinishLoadedUnchecked(e) ==
    /\ ended[e] \in {"OK", "FAILED"}
    /\ Settle(e, IF ended[e] = "FAILED" THEN "FAILED" ELSE "SUCCEEDED", "SUCCEEDED")

\* The locked section that follows a loaded result.
FinishLoaded(e) ==
    /\ ended[e] \in {"OK", "FAILED"}
    /\ IF token[e] \/ status[e] = "CANCELLED"
       THEN Settle(e, "CANCELLED", "CANCELLED")
       ELSE Settle(e, IF ended[e] = "FAILED" THEN "FAILED" ELSE "SUCCEEDED",
                   "SUCCEEDED")

\* Variant of FinishCancelled that leaves no result
FinishCancelledSilently(e) ==
    /\ ended[e] = "RUN_CANCELLED"
    /\ Settle(e, "CANCELLED", result[e])

FinishCancelled(e) ==
    /\ ended[e] = "RUN_CANCELLED"
    /\ Settle(e, "CANCELLED", "CANCELLED")

FinishRaised(e) ==
    /\ ended[e] = "RAISED"
    /\ LET target == IF token[e] THEN "CANCELLED" ELSE "FAILED"
       IN  Settle(e, target, target)

Finish(e) ==
    /\ worker[e] = "finishing"
    /\ FinishLoaded(e) \/ FinishCancelled(e) \/ FinishRaised(e)
    /\ worker' = [worker EXCEPT ![e] = "over"]
    /\ UNCHANGED <<token, runner, events, ended, frame>>

-----------------------------------------------------------------------------
Continue(c) ==
    \/ FactoryReturns(c)
    \/ FactoryRaises(c)
    \/ CancelRunner(c)
    \/ RerunValidate(c)
    \/ RerunStart(c)

Call(c) ==
    \E e \in Ids :
        \/ Create(c, e)
        \/ Validate(c, e)
        \/ Start(c, e)
        \/ Cancel(c, e)
        \/ \E source \in Ids : Rerun(c, source, e)

Work(e) == (\E end \in Ends : RunEnds(e, end)) \/ Finish(e)

Next ==
    \/ \E c \in Clients : Call(c) \/ Continue(c)
    \/ \E e \in Ids : Publish(e) \/ Work(e)

\* Clients call when they like; a call once entered, and a worker once
\* started, runs on: both are threads that wait for nobody but the lock.
Fairness ==
    /\ \A c \in Clients : WF_vars(Continue(c))
    /\ \A e \in Ids : WF_vars(Work(e))

Spec == Init /\ [][Next]_vars /\ Fairness

-----------------------------------------------------------------------------
(* Properties *)

\* Every variable keeps its type.
TypeOK ==
    /\ status \in [Ids -> Lifecycle!Statuses]
    /\ token  \in [Ids -> BOOLEAN]
    /\ runner \in [Ids -> BOOLEAN]
    /\ result \in [Ids -> Terminal \cup {"NONE"}]
    /\ events \in [Ids -> 0..MaxEvents]
    /\ worker \in [Ids -> {"NONE", "running", "finishing", "over"}]
    /\ ended  \in [Ids -> Ends \cup {"NONE"}]
    /\ frame  \in [Clients -> Frames]

\* A cancellation the boundary accepted wins every race: against the factory
\* of validate, against start, and against a worker that ignores it and comes
\* back with a finished run.  The job stays CANCELLED and result() never shows
\* a success or an error (the order of signal, transition and the re-check
\* under the lock in validate and _execute).
CancelWins ==
    \A e \in Ids : token[e] => status[e] = "CANCELLED" /\ Answer(e) = "CANCELLED"

\* validate() and start() hand a job to exactly one thread: no two threads are
\* in the factory for one id, nobody is there once a runner exists, and a
\* worker exists only for a job whose runner was built.
OneOwner ==
    \A e \in Ids :
        /\ \A c, d \in Clients :
              /\ frame[c].at = "factory" /\ frame[c].id = e
              /\ frame[d].at = "factory" /\ frame[d].id = e
              => c = d
        /\ (\E c \in Clients : frame[c].at = "factory" /\ frame[c].id = e)
              => ~runner[e] /\ worker[e] = "NONE"
        /\ worker[e] # "NONE" => runner[e]

\* No job is stranded: a VALIDATING job has a thread in its factory and a
\* RUNNING one a worker that has still to settle it, so a status that a client
\* polls is never left behind by a call that raised half-way.
NoStrandedJob ==
    \A e \in Ids :
        /\ status[e] = "VALIDATING" =>
              \E c \in Clients : frame[c].at = "factory" /\ frame[c].id = e
        /\ status[e] = "RUNNING" => worker[e] \in {"running", "finishing"}

\* The answer of result() is final: once it was ready, no later step of a
\* client or a worker changes it (a worker settles a job that was already
\* cancelled, and its result then replaces the reply made from the status).
AnswerIsFinal ==
    [][\A e \in Ids : Answer(e) # "NOT_READY" => Answer(e)' = Answer(e)]_vars

\* The boundary implements the abstract lifecycle: transitions of the table
\* only, admission below max_jobs, one final answer.
ImplementsLifecycle == Lifecycle!Spec

\* A job in somebody's hands is settled: validation ends in READY or a
\* terminal status, and a started or cancelled run gets its worker's result.
JobsSettle ==
    \A e \in Ids :
        /\ status[e] = "VALIDATING" ~> status[e] # "VALIDATING"
        /\ worker[e] = "running" ~> worker[e] = "over" /\ result[e] # "NONE"
                                    /\ status[e] \in Terminal
=============================================================================
