-------------------------- MODULE ProcessCancellation --------------------------
(***************************************************************************)
(* One RunCancellation (cancellation.py) and the threads that run native   *)
(* processes under it: ProviderProcessRunner.run, LLMWikiAdapter's          *)
(* _run_captured and gbrain's run_process.  Each registers a callback that  *)
(* terminates its process group, then waits for the process; cancel()       *)
(* signals, and runs the callbacks it found outside the lock.               *)
(*                                                                         *)
(* A process group is its leader and the descendants it leaves behind.  A   *)
(* teardown is two steps, SIGTERM and then SIGKILL after a grace in which   *)
(* anything may happen.                                                    *)
(***************************************************************************)
EXTENDS Naturals, Sequences, FiniteSets, SequencesExt

CONSTANTS
    Ops,        \* threads, each of which runs one process
    GroupOps,   \* those that use terminate_process_group (the rest is gbrain)
    Cancellers  \* threads that call cancel()

ASSUME OpsAssumption == GroupOps \subseteq Ops

VARIABLES
    event,      \* _event is set
    callbacks,  \* _callbacks, in the order of registration
    canceller,  \* per canceller: where it is, callbacks left, SIGTERM sent
    pc,         \* per operation: where run() is
    verdict,    \* per operation: how the body of its try ended
    leader,     \* per operation: its process; "killed" ended after a signal
    children,   \* per operation: descendants are left in the process group
    signalled   \* per operation: the group got SIGTERM

vars == <<event, callbacks, canceller, pc, verdict, leader, children, signalled>>
groupVars == <<leader, children, signalled>>

Quiet == [at |-> "idle", todo |-> <<>>, sent |-> FALSE]

Init ==
    /\ event = FALSE
    /\ callbacks = <<>>
    /\ canceller = [c \in Cancellers |-> Quiet]
    /\ pc        = [o \in Ops |-> "idle"]
    /\ verdict   = [o \in Ops |-> "none"]
    /\ leader    = [o \in Ops |-> "none"]
    /\ children  = [o \in Ops |-> FALSE]
    /\ signalled = [o \in Ops |-> FALSE]

-----------------------------------------------------------------------------
(* The process group *)

LeaderAlive(o) == leader[o] = "alive"
GroupAlive(o)  == LeaderAlive(o) \/ children[o]

\* The leader ends by itself or of a SIGTERM; descendants may stay.
LeaderEnds(o) ==
    /\ LeaderAlive(o)
    /\ leader' = [leader EXCEPT ![o] = IF signalled[o] THEN "killed" ELSE "exited"]
    /\ UNCHANGED <<event, callbacks, canceller, pc, verdict, children, signalled>>

ChildrenEnd(o) ==
    /\ children[o]
    /\ children' = [children EXCEPT ![o] = FALSE]
    /\ UNCHANGED <<event, callbacks, canceller, pc, verdict, leader, signalled>>

\* terminate_process_group stops at a group that is gone,
\* gbrain's _terminate_process_tree at a leader that is.
Worth(o) == IF o \in GroupOps THEN GroupAlive(o) ELSE LeaderAlive(o)

SigTerm(o) ==
    /\ signalled' = [signalled EXCEPT ![o] = @ \/ Worth(o)]
    /\ UNCHANGED <<leader, children>>

\* Variant of SigKill that trusts a group whose leader has ended
SigKillLeader(o) ==
    /\ leader'   = [leader EXCEPT ![o] = IF @ = "alive" THEN "killed" ELSE @]
    /\ children' = [children EXCEPT ![o] = @ /\ ~LeaderAlive(o)]
    /\ UNCHANGED signalled

\* SIGKILL reaches the whole group, but gbrain sends it for a live leader only.
SigKill(o) ==
    /\ leader'   = [leader EXCEPT ![o] = IF @ = "alive" THEN "killed" ELSE @]
    /\ children' = [children EXCEPT ![o] = @ /\ ~Worth(o)]
    /\ UNCHANGED signalled

-----------------------------------------------------------------------------
(* RunCancellation *)

\* Variant of Cancel that signals without the callbacks
CancelSilently(c) ==
    /\ canceller[c].at = "idle"
    /\ canceller' = [canceller EXCEPT ![c] = [Quiet EXCEPT !.at = "delivering"]]
    /\ event' = TRUE
    /\ UNCHANGED <<callbacks, pc, verdict, groupVars>>

\* cancel(), under the lock; only the first call signals.
Cancel(c) ==
    /\ canceller[c].at = "idle"
    /\ canceller' = [canceller EXCEPT ![c] =
                        IF event THEN [Quiet EXCEPT !.at = "skipped"]
                        ELSE [Quiet EXCEPT !.at = "delivering", !.todo = callbacks]]
    /\ event' = TRUE
    /\ UNCHANGED <<callbacks, pc, verdict, groupVars>>

\* cancel(), outside the lock: the callbacks one after the other
DeliverTerm(c) ==
    /\ canceller[c].at = "delivering"
    /\ canceller[c].todo # <<>>
    /\ ~canceller[c].sent
    /\ SigTerm(Head(canceller[c].todo))
    /\ canceller' = [canceller EXCEPT ![c].sent = TRUE]
    /\ UNCHANGED <<event, callbacks, pc, verdict>>

DeliverKill(c) ==
    /\ canceller[c].at = "delivering"
    /\ canceller[c].sent
    /\ SigKill(Head(canceller[c].todo))
    /\ canceller' = [canceller EXCEPT ![c].sent = FALSE, ![c].todo = Tail(@)]
    /\ UNCHANGED <<event, callbacks, pc, verdict>>

Delivered(c) ==
    /\ canceller[c].at = "delivering"
    /\ canceller[c].todo = <<>>
    /\ canceller' = [canceller EXCEPT ![c].at = "delivered"]
    /\ UNCHANGED <<event, callbacks, pc, verdict, groupVars>>

\* Variant of AddCallback that only registers, though the signal was sent
AddCallbackLate(o) ==
    /\ pc[o] = "spawned"
    /\ pc' = [pc EXCEPT ![o] = "entered"]
    /\ callbacks' = Append(callbacks, o)
    /\ UNCHANGED <<event, canceller, verdict, groupVars>>

\* add_callback, under the lock: a late callback is invoked by its own thread.
AddCallback(o) ==
    /\ pc[o] = "spawned"
    /\ IF event
       THEN pc' = [pc EXCEPT ![o] = "inlineTerm"] /\ UNCHANGED callbacks
       ELSE /\ pc' = [pc EXCEPT ![o] = "entered"]
            /\ callbacks' = Append(callbacks, o)
    /\ UNCHANGED <<event, canceller, verdict, groupVars>>

-----------------------------------------------------------------------------
(* One operation *)

Spawn(o) ==
    /\ pc[o] = "idle"
    /\ pc'       = [pc EXCEPT ![o] = "spawned"]
    /\ leader'   = [leader EXCEPT ![o] = "alive"]
    /\ children' = [children EXCEPT ![o] = TRUE]
    /\ UNCHANGED <<event, callbacks, canceller, verdict, signalled>>

Terminate(o, from, between, to) ==
    /\ \/ pc[o] = from /\ pc' = [pc EXCEPT ![o] = between] /\ SigTerm(o)
       \/ pc[o] = between /\ pc' = [pc EXCEPT ![o] = to] /\ SigKill(o)
    /\ UNCHANGED <<event, callbacks, canceller, verdict>>

InlineCallback(o) == Terminate(o, "inlineTerm", "inlineKill", "entered")

\* How the body of the try ends: the handlers of the first two terminate and
\* then remove the callback; gbrain's finally removes it first.
EndBody(o, v) ==
    /\ verdict' = [verdict EXCEPT ![o] = v]
    /\ pc' = [pc EXCEPT ![o] =
                IF v = "result" \/ o \notin GroupOps THEN "removing" ELSE "term"]
    /\ UNCHANGED <<event, callbacks, canceller, groupVars>>

\* raise_if_cancelled, before the wait
Poll(o) ==
    /\ pc[o] = "entered"
    /\ IF event THEN EndBody(o, "cancelled")
       ELSE /\ pc' = [pc EXCEPT ![o] = "waiting"]
            /\ UNCHANGED <<event, callbacks, canceller, verdict, groupVars>>

\* communicate() returns once the leader ended; its output goes to files.
CommunicateReturns(o) ==
    /\ pc[o] = "waiting"
    /\ ~LeaderAlive(o)
    /\ pc' = [pc EXCEPT ![o] = "captured"]
    /\ UNCHANGED <<event, callbacks, canceller, verdict, groupVars>>

TimesOut(o) ==
    /\ pc[o] = "waiting"
    /\ LeaderAlive(o)
    /\ EndBody(o, "timeout")

\* Ctrl-C in the wait, of a run in the main thread
Interrupted(o) ==
    /\ pc[o] = "waiting"
    /\ LeaderAlive(o)
    /\ EndBody(o, "cancelled")

\* Variants of Recheck: no look at the signal, and an outcome of its own
RecheckNever(o) ==
    /\ pc[o] = "captured"
    /\ EndBody(o, "result")

\* raise_if_cancelled, after the wait
Recheck(o) ==
    /\ pc[o] = "captured"
    /\ EndBody(o, IF event THEN "cancelled" ELSE "result")

TearDown(o) ==
    Terminate(o, "term", "kill", IF o \in GroupOps THEN "removing" ELSE "over")

\* remove(): pops the callback if it was registered.
RemoveCallback(o) ==
    /\ pc[o] = "removing"
    /\ \/ o \notin ToSet(callbacks) /\ UNCHANGED callbacks
       \/ \E i \in DOMAIN callbacks :
             callbacks[i] = o /\ callbacks' = RemoveAt(callbacks, i)
    /\ pc' = [pc EXCEPT ![o] =
                IF o \notin GroupOps /\ LeaderAlive(o) THEN "term" ELSE "over"]
    /\ UNCHANGED <<event, canceller, verdict, groupVars>>

-----------------------------------------------------------------------------
Run(o) ==
    \/ AddCallback(o) \/ InlineCallback(o) \/ Poll(o)
    \/ CommunicateReturns(o) \/ Recheck(o)
    \/ TearDown(o) \/ RemoveCallback(o)

Deliver(c) == DeliverTerm(c) \/ DeliverKill(c) \/ Delivered(c)

Environment(o) == Spawn(o) \/ LeaderEnds(o) \/ ChildrenEnd(o) \/ TimesOut(o) \/ Interrupted(o)

Next ==
    \/ \E o \in Ops : Run(o) \/ Environment(o)
    \/ \E c \in Cancellers : Cancel(c) \/ Deliver(c)

\* Threads run on; a native process and its timeout owe nothing.
Fairness ==
    /\ \A o \in Ops : WF_vars(Run(o))
    /\ \A c \in Cancellers : WF_vars(Deliver(c))

Spec == Init /\ [][Next]_vars /\ Fairness

-----------------------------------------------------------------------------
(* Properties *)

\* Every variable keeps its type.
TypeOK ==
    /\ event \in BOOLEAN
    /\ callbacks \in Seq(Ops)
    /\ canceller \in [Cancellers ->
          [at : {"idle", "skipped", "delivering", "delivered"},
           todo : Seq(Ops), sent : BOOLEAN]]
    /\ pc \in [Ops -> {"idle", "spawned", "inlineTerm", "inlineKill", "entered",
                       "waiting", "captured", "term", "kill", "removing", "over"}]
    /\ verdict \in [Ops -> {"none", "result", "cancelled", "timeout"}]
    /\ leader \in [Ops -> {"none", "alive", "exited", "killed"}]
    /\ children \in [Ops -> BOOLEAN]
    /\ signalled \in [Ops -> BOOLEAN]

\* A process that a cancellation killed is never reported as a result, with its
\* signal as the exit code and half of its output: the signal is set before any
\* callback runs, and read again after the wait.
KilledIsNotAResult ==
    \A o \in Ops : verdict[o] = "result" => leader[o] = "exited"

\* No registration is missed: once the cancel() that signalled has delivered
\* its callbacks, nobody waits for a live process, whether its operation
\* registered before the signal, or after it.
NobodyWaitsForTheLiving ==
    (\E c \in Cancellers : canceller[c].at = "delivered") =>
        \A o \in Ops : pc[o] \in {"entered", "waiting", "captured"} => ~LeaderAlive(o)

\* An operation leaves no leader behind, and the group teardown no descendant
\* of a process that was cancelled or timed out ("an inherited provider child
\* cannot outlive cancellation"), whoever terminates it and in whatever order
\* with the canceller's callback.
NothingOutlivesItsRun ==
    \A o \in Ops :
        pc[o] = "over" =>
            /\ ~LeaderAlive(o)
            /\ o \in GroupOps /\ verdict[o] # "result" => ~children[o]

\* An operator's cancellation ends every operation that was entered, without
\* the help of its timeout or of the process.
CancelEndsOperations ==
    \A o \in Ops : event /\ pc[o] # "idle" ~> pc[o] = "over"

-----------------------------------------------------------------------------
=============================================================================
