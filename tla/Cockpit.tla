-------------------------------- MODULE Cockpit --------------------------------
(***************************************************************************)
(* AutoBrainApp of tui_textual.py, the host of UiState: the operator's     *)
(* keys and buttons on each screen, the EffectRegistry, and the worker     *)
(* threads that probe connections, log in and run experiments.             *)
(*                                                                         *)
(* A group of workers is exclusive: a worker that is started cancels the   *)
(* one before, which only sends the event of its end at once; its thread   *)
(* cannot be stopped and goes on to its end.  Probes and stages reach the  *)
(* application from their thread, the ends of workers through its queue.   *)
(*                                                                         *)
(* While the application is suspended for a login it reads no keys; those  *)
(* typed ahead of a login are left out, as is what threads do after the    *)
(* application has exited.                                                 *)
(***************************************************************************)
EXTENDS UiState, Sequences

CONSTANTS
    Providers,
    FirstProvider,  \* the one of the command line
    MaxEffects      \* bound on the runs and logins started

ASSUME CockpitAssumption ==
    /\ Sources \subseteq {"slack", "notion"}
    /\ IsFiniteSet(Candidates) /\ Sources \cap Candidates = {}
    /\ {MinCandidates, MaxEffects} \subseteq Nat
    /\ FirstProvider \in Providers /\ none \notin Nat

VARIABLES
    ui,          \* the UiState
    exited,
    probes,      \* the providers some thread of load_connections probes
    loggingIn,   \* a login process runs in the terminal
    suspended,   \* the registry's logins: each holds the application suspended
    registry,    \* the registry's runs
    threads,     \* the runs whose thread is at work
    worker,      \* the run whose worker has not ended
    cancelled,   \* the runs whose RunCancellation is cancelled
    events       \* queue of ends of workers: [group, outcome]

runVars == <<registry, threads, worker, cancelled>>
loginVars == <<loggingIn, suspended>>
vars == <<ui, exited, probes, loginVars, runVars, events>>

Init ==
    /\ \E screen \in {"home", "connections"} : ui = NewState(screen, FirstProvider)
    /\ probes = {FirstProvider}
    /\ exited = FALSE
    /\ loggingIn = FALSE /\ suspended = {}
    /\ registry = {} /\ threads = {} /\ worker = none /\ cancelled = {}
    /\ events = <<>>

Ended(group, outcome) == [group |-> group, outcome |-> outcome]

-----------------------------------------------------------------------------
(* The operator *)

Awake == ~exited /\ suspended = {}

\* An action without an effect
Reduce(next) ==
    /\ Awake
    /\ ui' = next
    /\ UNCHANGED <<exited, probes, loginVars, runVars, events>>

Screens == [connections |-> "slack", slack |-> "notion", notion |-> "candidates"]

Setup ==
    \/ ui.screen = "home" /\ Reduce(BeginSetup(ui))
    \/ ui.screen \in DOMAIN Screens /\ Reduce(Navigate(ui, Screens[ui.screen]))
    \/ ui.screen \in Sources /\ Reduce(Toggle(ui, ui.screen))
    \/ ui.screen = "candidates" /\ \E c \in Candidates : Reduce(Toggle(ui, c))
    \/ ui.screen = "candidates" /\ Reduce(QuickStart(ui))

\* Escape, or the button Back: every screen has them, the running one too.
Back == Reduce(GoBack(ui))

Load(provider) == probes' = probes \cup {provider}

Select ==
    /\ Awake /\ ui.screen = "connections"
    /\ \E p \in Providers : ui' = SelectProvider(ui, p) /\ Load(p)
    /\ UNCHANGED <<exited, loginVars, runVars, events>>

\* The button Refresh: every screen has it.
Refresh ==
    /\ Awake
    /\ Load(ui.provider)
    /\ UNCHANGED <<ui, exited, loginVars, runVars, events>>

Login ==
    /\ Awake /\ ui.screen \in {"connections", "slack", "notion"}
    /\ ui.seq <= MaxEffects
    /\ ui' = RequestLogin(ui)
    /\ suspended' = suspended \cup {ui.seq}
    /\ loggingIn' = TRUE
    /\ UNCHANGED <<exited, probes, runVars, events>>

\* The button Run of the home screen, and of the review, where it is disabled while
\* a run is running
RunOffered == ui.screen = "home" \/ (ui.screen = "review" /\ ~ui.running)

\* run_experiment cancels the worker of the run before.
Run ==
    /\ Awake /\ RunOffered
    /\ ui.plan # none
    /\ ui.seq <= MaxEffects
    /\ ui' = StartRun(ui)
    /\ registry' = registry \cup {ui.seq}
    /\ threads' = threads \cup {ui.seq}
    /\ worker' = ui.seq
    /\ events' = IF worker # none THEN Append(events, Ended("run", "CANCELLED")) ELSE events
    /\ UNCHANGED <<exited, probes, loginVars, cancelled>>

\* CancelActiveRun
CancelRegistered(handle) ==
    cancelled' = IF handle \in registry THEN cancelled \cup {handle} ELSE cancelled

Cancel ==
    /\ Awake /\ ui.screen = "running"
    /\ ui.running /\ ~ui.cancelling
    /\ ui' = CancelRun(ui)
    /\ CancelRegistered(ui.run)
    /\ UNCHANGED <<exited, probes, loginVars, registry, threads, worker, events>>

Quit ==
    /\ Awake
    /\ IF ui.running /\ ui.run # none
       THEN /\ ui' = QuitLater(ui)
            /\ CancelRegistered(ui.run)
            /\ UNCHANGED exited
       ELSE exited' = TRUE /\ UNCHANGED <<ui, cancelled>>
    /\ UNCHANGED <<probes, loginVars, registry, threads, worker, events>>

Home == ui.screen = "results" /\ Reduce(ResetRun(ui))

Operator ==
    \/ Setup \/ Back \/ Select \/ Refresh \/ Login
    \/ Run \/ Cancel \/ Quit \/ Home

-----------------------------------------------------------------------------
(* The threads *)

ProbeReturns(p) ==
    /\ p \in probes /\ ~exited
    /\ probes' = probes \ {p}
    /\ \E ready \in BOOLEAN, connected \in SUBSET Sources :
          ui' = ConnectionsLoaded(ui, p, ready, connected)
    /\ UNCHANGED <<exited, loginVars, runVars, events>>

ProbeFails(p) ==
    /\ p \in probes /\ ~exited
    /\ probes' = probes \ {p}
    /\ ui' = RunOver(ui)
    /\ UNCHANGED <<exited, loginVars, runVars, events>>

\* execute_plan puts the result of a run or what it raised, and the worker raises it.
Outcomes == {"SUCCESS", "ERROR"}

LoginEnds ==
    /\ loggingIn /\ ~exited
    /\ loggingIn' = FALSE
    /\ \E outcome \in Outcomes : events' = Append(events, Ended("login", outcome))
    /\ UNCHANGED <<ui, exited, probes, suspended, runVars>>

\* The worker of a thread has ended before when another run was started.
ThreadEnds(h) ==
    /\ h \in threads /\ ~exited
    /\ threads' = threads \ {h}
    /\ IF worker = h
       THEN /\ worker' = none
            /\ \E outcome \in Outcomes :
                  events' = Append(events, Ended("run", outcome))
       ELSE UNCHANGED <<worker, events>>
    /\ UNCHANGED <<ui, exited, probes, loginVars, registry, cancelled>>

-----------------------------------------------------------------------------
(* on_worker_state_changed *)

Take(group) ==
    /\ ~exited /\ events # <<>> /\ Head(events).group = group
    /\ events' = Tail(events)

\* The suspension of the active login ends; a login that did not fail is followed
\* by a probe.
LoginEvent ==
    /\ Take("login")
    /\ IF ui.login = none
       THEN UNCHANGED <<ui, suspended, probes>>
       ELSE /\ suspended' = suspended \ {ui.login}
            /\ ui' = LoginSettled(ui, ui.login)
            /\ IF Head(events).outcome = "ERROR" THEN UNCHANGED probes ELSE Load(ui.provider)
    /\ UNCHANGED <<exited, loggingIn, runVars>>

\* Variant of RunEvent: the end of a worker that failed leaves the state as it was.
RunEventOfSuccess ==
    /\ Take("run")
    /\ IF ui.run = none
       THEN UNCHANGED <<ui, registry, exited>>
       ELSE /\ registry' = registry \ {ui.run}
            /\ ui' = IF Head(events).outcome = "SUCCESS" THEN RunOver(ui) ELSE ui
            /\ exited' = ui.quit
    /\ UNCHANGED <<probes, loginVars, threads, worker, cancelled>>

\* Whatever worker has ended, the active run is settled.
RunEvent ==
    /\ Take("run")
    /\ IF ui.run = none
       THEN UNCHANGED <<ui, registry, exited>>
       ELSE /\ registry' = registry \ {ui.run}
            /\ ui' = RunOver(ui)
            /\ exited' = ui.quit
    /\ UNCHANGED <<probes, loginVars, threads, worker, cancelled>>

Host ==
    \/ \E p \in Providers : ProbeReturns(p) \/ ProbeFails(p)
    \/ LoginEnds
    \/ \E h \in 1..MaxEffects : ThreadEnds(h)
    \/ LoginEvent \/ RunEvent

Next == Operator \/ Host

\* The thread of a run ends, as RunOrchestrator shows; a login may last.  The
\* application takes the events of its queue.
Fairness ==
    /\ WF_vars(LoginEvent \/ RunEvent)
    /\ \A h \in 1..MaxEffects : WF_vars(ThreadEnds(h))

Spec == Init /\ [][Next]_vars /\ Fairness

-----------------------------------------------------------------------------
(* Properties *)

\* While the screen says a run is running, its handle is registered, so that a
\* cancel reaches it, and an event of its end is there or to come; and a run that
\* is said to be cancelling has been told so (CancelRun asserts the handle).
RunningIsInReach ==
    ui.running =>
        /\ ui.run \in registry
        /\ worker = ui.run \/ \E i \in DOMAIN events : events[i].group = "run"
        /\ ui.cancelling => ui.run \in cancelled

\* A plan is for what is selected now: the provider of the state, the sources and
\* the candidates, whatever probe or login came late; so execute_plan
\* never meets a plan of another provider.
PlanIsForTheSelection ==
    ui.plan # none =>
        /\ ui.plan.provider = ui.provider
        /\ ui.plan.selected = ui.selected
        /\ ui.plan.selected \cap Sources \subseteq ui.connected

\* A run that is shown as running is shown to be over at some time, and a terminal
\* given to a login is taken back when the login has ended.
UiSettles ==
    /\ ui.running ~> ~ui.running
    /\ suspended # {} /\ ~loggingIn ~> suspended = {} \/ exited

-----------------------------------------------------------------------------
(* What the documents say of the program *)

\* README.md: "While an experiment is running, navigation, toggles, quit, and
\* duplicate-run keys are disabled until the worker returns a result."
OneRunAtATime == Cardinality(threads) <= 1
=============================================================================
