------------------------------- MODULE UiState -------------------------------
(***************************************************************************)
(* The state of the cockpit and its reducer (tui_state.py): an operator    *)
(* per action of tui_actions.py, from a state to the next one.  What the   *)
(* action asks of the host, its effects, is in Cockpit.                    *)
(*                                                                         *)
(* Left out: stages, times, statuses and messages of the screens, and the  *)
(* set-up of a semantic provider for GBrain with its validation.           *)
(***************************************************************************)
EXTENDS Naturals, FiniteSets

CONSTANTS
    Sources,        \* named as the screens that toggle them
    Candidates,
    MinCandidates,  \* a plan compares at least so many
    none

SetupScreens == <<"connections", "slack", "notion", "candidates", "review">>

\* UiState: a plan is [provider, selected] or none.
NewState(screen, provider) ==
    [screen     |-> screen,
     provider   |-> provider,
     selected   |-> Sources \cup Candidates,
     ready      |-> FALSE,   \* subscription_status = READY
     connected  |-> {},      \* the sources that are CONNECTED
     plan       |-> none,
     running    |-> FALSE,
     cancelling |-> FALSE,
     run        |-> none,    \* active_run_handle
     login      |-> none,    \* active_login_handle
     quit       |-> FALSE,   \* quit_after_settlement
     seq        |-> 1,       \* next_effect_sequence
     home       |-> FALSE]   \* return_home

\* build_automatic_plan
Buildable(s) ==
    /\ s.selected \cap Sources # {}
    /\ Cardinality(s.selected \cap Candidates) >= MinCandidates
    /\ s.ready

\* resolve_plan, which the reducer asks with the provider of the state twice: for
\* the snapshot, and for the selection.
ResolvePlan(s) ==
    IF s.selected \cap Sources \subseteq s.connected /\ Buildable(s)
    THEN [provider |-> s.provider, selected |-> s.selected] ELSE none

\* _resolved: the plan for what is selected now, on what was last loaded
Resolved(s) == [s EXCEPT !.plan = ResolvePlan(s)]

-----------------------------------------------------------------------------
(* Setup *)

BeginSetup(s) == [s EXCEPT !.screen = "connections", !.home = TRUE]

Navigate(s, screen) == [s EXCEPT !.screen = screen]

GoBack(s) ==
    LET setup == {i \in DOMAIN SetupScreens : SetupScreens[i] = s.screen} IN
    CASE s.screen = "connections" /\ ~s.home -> s
      [] s.screen # "connections" /\ setup # {} ->
            [s EXCEPT !.screen = SetupScreens[(CHOOSE i \in setup : TRUE) - 1]]
      [] OTHER -> [s EXCEPT !.screen = "home"]

Toggle(s, item) ==
    Resolved([s EXCEPT !.selected = IF item \in @ THEN @ \ {item} ELSE @ \cup {item}])

\* Variant of SelectProvider: the plan of the provider before stays.
SelectProviderOnly(s, provider) == [s EXCEPT !.provider = provider]

SelectProvider(s, provider) == [s EXCEPT !.provider = provider, !.plan = none]

ConnectionsLoaded(s, provider, ready, connected) ==
    Resolved([s EXCEPT !.provider = provider, !.ready = ready, !.connected = connected])

QuickStart(s) == Resolved([s EXCEPT !.screen = "review"])

RequestLogin(s) == [s EXCEPT !.login = s.seq, !.seq = @ + 1]

LoginSettled(s, handle) == IF handle = s.login THEN [s EXCEPT !.login = none] ELSE s

-----------------------------------------------------------------------------
(* Runs *)

\* For a state with a plan
StartRun(s) ==
    [s EXCEPT !.screen = "running", !.running = TRUE, !.cancelling = FALSE,
              !.run = s.seq, !.seq = @ + 1, !.quit = FALSE, !.plan = none]

CancelRun(s) == [s EXCEPT !.cancelling = TRUE]

\* While a run is active; the application exits otherwise.
QuitLater(s) == [s EXCEPT !.cancelling = TRUE, !.quit = TRUE]

\* RunCompleted and RunFailed, which a connection probe that fails sends as well
RunOver(s) ==
    [s EXCEPT !.screen = "results", !.running = FALSE, !.cancelling = FALSE,
              !.run = none]

ResetRun(s) == [s EXCEPT !.screen = "home", !.run = none, !.quit = FALSE]
=============================================================================
