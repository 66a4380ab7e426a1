---------------------------- MODULE Cockpit_proofs ----------------------------
(***************************************************************************)
(* A run that is shown as running can be reached and will be over, and a   *)
(* plan is for what is selected: for any sources, candidates, providers    *)
(* and number of effects, and whatever the operator does in the meantime.  *)
(***************************************************************************)
EXTENDS Cockpit, TLAPS, SequenceTheorems

ScreenNames == {"home", "connections", "slack", "notion", "candidates", "review",
                "running", "results"}

Plans == [provider : Providers, selected : SUBSET (Sources \cup Candidates)]

Handles == Nat \cup {none}

UiStates ==
    [screen : ScreenNames, provider : Providers,
     selected : SUBSET (Sources \cup Candidates), ready : BOOLEAN,
     connected : SUBSET Sources, plan : Plans \cup {none},
     running : BOOLEAN, cancelling : BOOLEAN, run : Handles, login : Handles,
     quit : BOOLEAN, seq : Nat, home : BOOLEAN]

Ends == [group : {"run", "login"}, outcome : Outcomes \cup {"CANCELLED"}]

Typed ==
    /\ ui \in UiStates
    /\ exited \in BOOLEAN /\ loggingIn \in BOOLEAN
    /\ probes \subseteq Providers
    /\ suspended \subseteq Nat /\ registry \subseteq Nat
    /\ threads \subseteq Nat /\ cancelled \subseteq Nat
    /\ worker \in Handles
    /\ events \in Seq(Ends)

\* The results are shown when the run is over, and no key leads there.
ResultsAreOfARunThatIsOver == ui.screen = "results" => ~ui.running

IInv ==
    /\ Typed
    /\ ResultsAreOfARunThatIsOver
    /\ RunningIsInReach
    /\ PlanIsForTheSelection

-----------------------------------------------------------------------------
(* The reducer *)

\* What the operator sees of the run is as it was.
SameRun(s, t) ==
    /\ t.running = s.running /\ t.cancelling = s.cancelling /\ t.run = s.run

\* The plan is gone or is the one there was, and so is what it was made for.
SamePlan(s, t) ==
    /\ t.provider = s.provider /\ t.selected = s.selected /\ t.connected = s.connected
    /\ t.plan = s.plan

PlanFits(s) ==
    s.plan # none =>
        /\ s.plan.provider = s.provider
        /\ s.plan.selected = s.selected
        /\ s.plan.selected \cap Sources \subseteq s.connected

LEMMA InitialState ==
    ASSUME NEW screen \in {"home", "connections"}
    PROVE  /\ NewState(screen, FirstProvider) \in UiStates
           /\ ~NewState(screen, FirstProvider).running
           /\ NewState(screen, FirstProvider).plan = none
BY CockpitAssumption DEF NewState, UiStates, ScreenNames, Handles

\* A resolved plan is for the state it was resolved in.
LEMMA ResolvedPlanFits ==
    ASSUME NEW s \in UiStates
    PROVE  /\ Resolved(s) \in UiStates
           /\ PlanFits(Resolved(s)) /\ SameRun(s, Resolved(s))
           /\ Resolved(s).screen = s.screen
<1>1. ResolvePlan(s) \in Plans \cup {none}
    BY DEF ResolvePlan, Plans, UiStates
<1>2. ResolvePlan(s) # none =>
          /\ ResolvePlan(s).provider = s.provider
          /\ ResolvePlan(s).selected = s.selected
          /\ s.selected \cap Sources \subseteq s.connected
    BY DEF ResolvePlan
<1> DEFINE plan == ResolvePlan(s)
<1>3. Resolved(s) = [s EXCEPT !.plan = plan]
    BY DEF Resolved
<1> HIDE DEF plan
<1>4. [s EXCEPT !.plan = plan] \in UiStates
    BY <1>1 DEF UiStates, plan
<1>5. QED
    BY <1>2, <1>3, <1>4 DEF PlanFits, SameRun, UiStates, plan

LEMMA BackLeadsToAScreen ==
    ASSUME NEW s \in UiStates
    PROVE  \E screen \in ScreenNames :
              /\ GoBack(s) = [s EXCEPT !.screen = screen]
              /\ screen = "results" => s.screen = "results"
<1> DEFINE setup == {i \in DOMAIN SetupScreens : SetupScreens[i] = s.screen}
           i == CHOOSE i \in setup : TRUE
<1>1. CASE s.screen = "connections" /\ ~s.home
    <2>1. GoBack(s) = s
        BY <1>1 DEF GoBack
    <2>2. s = [s EXCEPT !.screen = s.screen] /\ s.screen \in ScreenNames
        BY DEF UiStates
    <2>3. QED
        BY <2>1, <2>2
<1>2. CASE s.screen # "connections" /\ setup # {}
    <2>1. i \in 1..5 /\ SetupScreens[i] = s.screen
        BY <1>2 DEF SetupScreens
    <2>2. i \in 2..5
        BY <1>2, <2>1 DEF SetupScreens
    <2>3. GoBack(s) = [s EXCEPT !.screen = SetupScreens[i - 1]]
        BY <1>2 DEF GoBack
    <2> HIDE DEF i
    <2>4. i = 2 \/ i = 3 \/ i = 4 \/ i = 5
        BY <2>2
    <2>5. SetupScreens[i - 1] \in {"connections", "slack", "notion", "candidates"}
        BY <2>4 DEF SetupScreens
    <2>6. QED
        BY <2>3, <2>5 DEF ScreenNames
<1>3. CASE ~(s.screen = "connections" /\ ~s.home) /\ ~(s.screen # "connections" /\ setup # {})
    <2>1. GoBack(s) = [s EXCEPT !.screen = "home"]
        BY <1>3 DEF GoBack
    <2>2. QED
        BY <2>1 DEF ScreenNames
<1>4. QED
    BY <1>1, <1>2, <1>3

\* A change of the screen is one of the screen only.
LEMMA ScreenOnly ==
    ASSUME NEW s \in UiStates, NEW screen \in ScreenNames
    PROVE  /\ [s EXCEPT !.screen = screen] \in UiStates
           /\ SameRun(s, [s EXCEPT !.screen = screen])
           /\ SamePlan(s, [s EXCEPT !.screen = screen])
           /\ [s EXCEPT !.screen = screen].screen = screen
BY DEF UiStates, SameRun, SamePlan

LEMMA SamePlanFits ==
    ASSUME NEW s \in UiStates, NEW t \in UiStates, SamePlan(s, t), PlanFits(s)
    PROVE  PlanFits(t)
BY DEF SamePlan, PlanFits

LEMMA SetupOfAState ==
    ASSUME NEW s \in UiStates
    PROVE  /\ BeginSetup(s) \in UiStates
           /\ SameRun(s, BeginSetup(s)) /\ SamePlan(s, BeginSetup(s))
           /\ BeginSetup(s).screen = "connections"
           /\ QuickStart(s) \in UiStates
           /\ SameRun(s, QuickStart(s)) /\ PlanFits(QuickStart(s))
           /\ QuickStart(s).screen = "review"
<1>1. /\ BeginSetup(s) \in UiStates
      /\ SameRun(s, BeginSetup(s)) /\ SamePlan(s, BeginSetup(s))
      /\ BeginSetup(s).screen = "connections"
    BY DEF BeginSetup, UiStates, SameRun, SamePlan, ScreenNames
<1> DEFINE t == [s EXCEPT !.screen = "review"]
<1>2. t \in UiStates /\ SameRun(s, t) /\ t.screen = "review"
    BY ScreenOnly DEF ScreenNames
<1>3. QuickStart(s) = Resolved(t)
    BY DEF QuickStart
<1> HIDE DEF t
<1>4. QED
    BY <1>1, <1>2, <1>3, ResolvedPlanFits DEF SameRun

LEMMA ToggleOfAState ==
    ASSUME NEW s \in UiStates, NEW item \in Sources \cup Candidates
    PROVE  /\ Toggle(s, item) \in UiStates
           /\ SameRun(s, Toggle(s, item)) /\ PlanFits(Toggle(s, item))
           /\ Toggle(s, item).screen = s.screen
<1> DEFINE chosen == IF item \in s.selected THEN s.selected \ {item}
                     ELSE s.selected \cup {item}
           t == [s EXCEPT !.selected = chosen]
<1>1. chosen \in SUBSET (Sources \cup Candidates)
    BY DEF UiStates
<1>2. Toggle(s, item) = Resolved(t)
    BY DEF Toggle
<1> HIDE DEF chosen
<1>3. t \in UiStates /\ SameRun(s, t) /\ t.screen = s.screen
    BY <1>1 DEF UiStates, SameRun
<1> HIDE DEF t
<1>4. QED
    BY <1>2, <1>3, ResolvedPlanFits DEF SameRun

LEMMA ProviderOfAState ==
    ASSUME NEW s \in UiStates, NEW p \in Providers, NEW ready \in BOOLEAN,
           NEW connected \in SUBSET Sources
    PROVE  /\ SelectProvider(s, p) \in UiStates
           /\ SameRun(s, SelectProvider(s, p)) /\ PlanFits(SelectProvider(s, p))
           /\ SelectProvider(s, p).screen = s.screen
           /\ ConnectionsLoaded(s, p, ready, connected) \in UiStates
           /\ SameRun(s, ConnectionsLoaded(s, p, ready, connected))
           /\ PlanFits(ConnectionsLoaded(s, p, ready, connected))
           /\ ConnectionsLoaded(s, p, ready, connected).screen = s.screen
<1>1. /\ SelectProvider(s, p) \in UiStates
      /\ SameRun(s, SelectProvider(s, p)) /\ PlanFits(SelectProvider(s, p))
      /\ SelectProvider(s, p).screen = s.screen
    BY DEF SelectProvider, UiStates, SameRun, PlanFits
<1> DEFINE t == [s EXCEPT !.provider = p, !.ready = ready, !.connected = connected]
<1>2. t \in UiStates /\ SameRun(s, t) /\ t.screen = s.screen
    BY DEF UiStates, SameRun
<1>3. ConnectionsLoaded(s, p, ready, connected) = Resolved(t)
    BY DEF ConnectionsLoaded
<1> HIDE DEF t
<1>4. QED
    BY <1>1, <1>2, <1>3, ResolvedPlanFits DEF SameRun

LEMMA LoginOfAState ==
    ASSUME NEW s \in UiStates, NEW handle \in Handles
    PROVE  /\ RequestLogin(s) \in UiStates
           /\ SameRun(s, RequestLogin(s)) /\ SamePlan(s, RequestLogin(s))
           /\ RequestLogin(s).screen = s.screen
           /\ LoginSettled(s, handle) \in UiStates
           /\ SameRun(s, LoginSettled(s, handle)) /\ SamePlan(s, LoginSettled(s, handle))
           /\ LoginSettled(s, handle).screen = s.screen
<1>1. /\ RequestLogin(s) \in UiStates
      /\ SameRun(s, RequestLogin(s)) /\ SamePlan(s, RequestLogin(s))
      /\ RequestLogin(s).screen = s.screen
  <2> DEFINE next == s.seq + 1
  <2>1. s.seq \in Handles /\ next \in Nat
      BY DEF UiStates, Handles
  <2>2. RequestLogin(s) = [s EXCEPT !.login = s.seq, !.seq = next]
      BY DEF RequestLogin
  <2> HIDE DEF next
  <2>3. QED
      BY <2>1, <2>2 DEF UiStates, SameRun, SamePlan
<1>2. CASE handle = s.login
    BY <1>1, <1>2 DEF LoginSettled, UiStates, SameRun, SamePlan, Handles
<1>3. CASE handle # s.login
    BY <1>1, <1>3 DEF LoginSettled, SameRun, SamePlan
<1>4. QED
    BY <1>2, <1>3

LEMMA RunOfAState ==
    ASSUME NEW s \in UiStates
    PROVE  /\ StartRun(s) \in UiStates /\ PlanFits(StartRun(s))
           /\ StartRun(s).run = s.seq /\ StartRun(s).running /\ ~StartRun(s).cancelling
           /\ StartRun(s).screen = "running"
           /\ RunOver(s) \in UiStates /\ SamePlan(s, RunOver(s)) /\ ~RunOver(s).running
           /\ ResetRun(s) \in UiStates /\ SamePlan(s, ResetRun(s))
           /\ ResetRun(s).screen = "home" /\ ResetRun(s).running = s.running
<1>1. /\ StartRun(s) \in UiStates /\ PlanFits(StartRun(s))
      /\ StartRun(s).run = s.seq /\ StartRun(s).running /\ ~StartRun(s).cancelling
      /\ StartRun(s).screen = "running"
  <2> DEFINE next == s.seq + 1
  <2>1. s.seq \in Handles /\ next \in Nat /\ "running" \in ScreenNames
      BY DEF UiStates, Handles, ScreenNames
  <2>2. StartRun(s) =
          [s EXCEPT !.screen = "running", !.running = TRUE, !.cancelling = FALSE,
                    !.run = s.seq, !.seq = next, !.quit = FALSE, !.plan = none]
      BY DEF StartRun
  <2> HIDE DEF next
  <2>3. QED
      BY <2>1, <2>2 DEF UiStates, PlanFits
<1>2. RunOver(s) \in UiStates /\ SamePlan(s, RunOver(s)) /\ ~RunOver(s).running
    BY DEF RunOver, UiStates, SamePlan, Handles, ScreenNames
<1>3. /\ ResetRun(s) \in UiStates /\ SamePlan(s, ResetRun(s))
      /\ ResetRun(s).screen = "home" /\ ResetRun(s).running = s.running
    BY DEF ResetRun, UiStates, SamePlan, Handles, ScreenNames
<1>4. QED
    BY <1>1, <1>2, <1>3

LEMMA CancelOfAState ==
    ASSUME NEW s \in UiStates
    PROVE  /\ CancelRun(s) \in UiStates /\ SamePlan(s, CancelRun(s))
           /\ CancelRun(s).running = s.running /\ CancelRun(s).run = s.run
           /\ CancelRun(s).screen = s.screen
           /\ QuitLater(s) \in UiStates /\ SamePlan(s, QuitLater(s))
           /\ QuitLater(s).running = s.running /\ QuitLater(s).run = s.run
           /\ QuitLater(s).screen = s.screen
BY DEF CancelRun, QuitLater, UiStates, SamePlan

-----------------------------------------------------------------------------
(* The queue *)

Announced(queue) == \E i \in DOMAIN queue : queue[i].group = "run"

LEMMA AppendedEnd ==
    ASSUME NEW queue \in Seq(Ends), NEW end \in Ends
    PROVE  /\ Append(queue, end) \in Seq(Ends)
           /\ Announced(queue) \/ end.group = "run" => Announced(Append(queue, end))
<1>1. /\ Append(queue, end) \in Seq(Ends)
      /\ DOMAIN Append(queue, end) = 1..(Len(queue) + 1)
      /\ \A i \in 1..Len(queue) : Append(queue, end)[i] = queue[i]
      /\ Append(queue, end)[Len(queue) + 1] = end
    BY AppendProperties, LenProperties
<1>2. DOMAIN queue = 1..Len(queue) /\ Len(queue) \in Nat
    BY LenProperties
<1>3. ASSUME end.group = "run"
      PROVE  Announced(Append(queue, end))
    <2>1. Len(queue) + 1 \in DOMAIN Append(queue, end)
        BY <1>1, <1>2
    <2>2. QED
        BY <1>1, <1>3, <2>1 DEF Announced
<1>4. ASSUME NEW i \in DOMAIN queue, queue[i].group = "run"
      PROVE  Announced(Append(queue, end))
    <2>1. i \in DOMAIN Append(queue, end) /\ Append(queue, end)[i] = queue[i]
        BY <1>1, <1>2
    <2>2. QED
        BY <1>4, <2>1 DEF Announced
<1>5. QED
    BY <1>1, <1>3, <1>4 DEF Announced

\* The end of a login at the head of the queue hides no end of a run.
LEMMA TakenEnd ==
    ASSUME NEW queue \in Seq(Ends), queue # <<>>
    PROVE  /\ Tail(queue) \in Seq(Ends)
           /\ Announced(queue) /\ Head(queue).group # "run" => Announced(Tail(queue))
<1>1. /\ Tail(queue) \in Seq(Ends) /\ Len(Tail(queue)) = Len(queue) - 1
      /\ \A i \in 1..Len(Tail(queue)) : Tail(queue)[i] = queue[i + 1]
      /\ Head(queue) = queue[1]
    BY HeadTailProperties
<1>2. /\ DOMAIN queue = 1..Len(queue) /\ Len(queue) \in Nat
      /\ DOMAIN Tail(queue) = 1..Len(Tail(queue))
    BY <1>1, LenProperties
<1>3. ASSUME NEW i \in DOMAIN queue, queue[i].group = "run", Head(queue).group # "run"
      PROVE  Announced(Tail(queue))
    <2>1. i # 1
        BY <1>1, <1>3
    <2>2. i - 1 \in DOMAIN Tail(queue) /\ (i - 1) + 1 = i
        BY <1>1, <1>2, <2>1
    <2>3. Tail(queue)[i - 1] = queue[i]
        BY <1>1, <1>2, <2>2
    <2>4. QED
        BY <1>3, <2>2, <2>3 DEF Announced
<1>4. QED
    BY <1>1, <1>3 DEF Announced

-----------------------------------------------------------------------------
(* The steps *)

TypedBeyondUi ==
    /\ exited \in BOOLEAN /\ loggingIn \in BOOLEAN
    /\ probes \subseteq Providers
    /\ suspended \subseteq Nat /\ registry \subseteq Nat
    /\ threads \subseteq Nat /\ cancelled \subseteq Nat
    /\ worker \in Handles
    /\ events \in Seq(Ends)

\* A step that leaves the run alone, and drops no end of it, keeps the invariant.
LEMMA TheRunIsLeftAlone ==
    ASSUME IInv, ui' \in UiStates, TypedBeyondUi',
           SameRun(ui, ui'), PlanFits(ui'),
           ui'.screen = "results" => ui.screen = "results",
           registry' = registry, cancelled' = cancelled,
           worker' = worker, Announced(events) => Announced(events')
    PROVE  IInv'
<1>1. Typed'
    BY DEF Typed, TypedBeyondUi
<1>2. ResultsAreOfARunThatIsOver'
    BY DEF IInv, ResultsAreOfARunThatIsOver, SameRun
<1>3. RunningIsInReach'
    BY DEF IInv, RunningIsInReach, SameRun, Announced
<1>4. PlanIsForTheSelection'
    BY DEF PlanFits, PlanIsForTheSelection
<1>5. QED
    BY <1>1, <1>2, <1>3, <1>4 DEF IInv

\* A run that is over needs nothing any more.
LEMMA TheRunIsOver ==
    ASSUME IInv, ui' \in UiStates, TypedBeyondUi', ~ui'.running, PlanFits(ui')
    PROVE  IInv'
<1>1. Typed'
    BY DEF Typed, TypedBeyondUi
<1>2. ResultsAreOfARunThatIsOver' /\ RunningIsInReach'
    BY DEF ResultsAreOfARunThatIsOver, RunningIsInReach
<1>3. PlanIsForTheSelection'
    BY DEF PlanFits, PlanIsForTheSelection
<1>4. QED
    BY <1>1, <1>2, <1>3 DEF IInv

LEMMA PlanFitsNow ==
    ASSUME IInv
    PROVE  PlanFits(ui) /\ ui \in UiStates /\ TypedBeyondUi
BY DEF IInv, PlanFits, PlanIsForTheSelection, Typed, TypedBeyondUi

LEMMA ReduceKeeps ==
    ASSUME IInv, NEW next \in UiStates, Reduce(next), SameRun(ui, next), PlanFits(next),
           next.screen = "results" => ui.screen = "results"
    PROVE  IInv'
<1>1. TypedBeyondUi'
    BY PlanFitsNow DEF Reduce, loginVars, runVars, TypedBeyondUi
<1>2. QED
    BY <1>1, TheRunIsLeftAlone DEF Reduce, loginVars, runVars

LEMMA SetupKeeps ==
    ASSUME IInv, Setup
    PROVE  IInv'
<1> USE PlanFitsNow
<1>1. CASE Reduce(BeginSetup(ui))
    <2>1. PlanFits(BeginSetup(ui))
        BY SetupOfAState, SamePlanFits
    <2>2. QED
        BY <1>1, <2>1, SetupOfAState, ReduceKeeps
<1>2. CASE ui.screen \in DOMAIN Screens /\ Reduce(Navigate(ui, Screens[ui.screen]))
    <2> DEFINE screen == Screens[ui.screen]
    <2>1. screen \in {"slack", "notion", "candidates"}
        BY <1>2 DEF Screens
    <2> HIDE DEF screen
    <2>2. screen \in ScreenNames /\ screen # "results"
        BY <2>1 DEF ScreenNames
    <2>3. Navigate(ui, screen) = [ui EXCEPT !.screen = screen]
        BY DEF Navigate
    <2>4. /\ Navigate(ui, screen) \in UiStates /\ SameRun(ui, Navigate(ui, screen))
          /\ PlanFits(Navigate(ui, screen)) /\ Navigate(ui, screen).screen = screen
        BY <2>2, <2>3, ScreenOnly, SamePlanFits
    <2>5. Reduce(Navigate(ui, screen))
        BY <1>2 DEF screen
    <2>6. QED
        BY <2>2, <2>4, <2>5, ReduceKeeps
<1>3. CASE ui.screen \in Sources /\ Reduce(Toggle(ui, ui.screen))
    BY <1>3, ToggleOfAState, ReduceKeeps
<1>4. ASSUME NEW c \in Candidates, Reduce(Toggle(ui, c))
      PROVE  IInv'
    BY <1>4, ToggleOfAState, ReduceKeeps
<1>5. CASE Reduce(QuickStart(ui))
    BY <1>5, SetupOfAState, ReduceKeeps
<1>6. QED
    BY <1>1, <1>2, <1>3, <1>4, <1>5 DEF Setup

LEMMA BackKeeps ==
    ASSUME IInv, Back
    PROVE  IInv'
<1>1. PICK screen \in ScreenNames :
          /\ GoBack(ui) = [ui EXCEPT !.screen = screen]
          /\ screen = "results" => ui.screen = "results"
    BY PlanFitsNow, BackLeadsToAScreen
<1>2. /\ GoBack(ui) \in UiStates /\ SameRun(ui, GoBack(ui)) /\ PlanFits(GoBack(ui))
      /\ GoBack(ui).screen = screen
    BY <1>1, PlanFitsNow, ScreenOnly, SamePlanFits
<1>3. QED
    BY <1>1, <1>2, ReduceKeeps DEF Back

LEMMA SelectKeeps ==
    ASSUME IInv, Select
    PROVE  IInv'
<1>1. PICK p \in Providers : ui' = SelectProvider(ui, p) /\ probes' = probes \cup {p}
    BY DEF Select, Load
<1>2. /\ ui' \in UiStates /\ SameRun(ui, ui') /\ PlanFits(ui') /\ ui'.screen = ui.screen
    <2>1. /\ SelectProvider(ui, p) \in UiStates /\ SameRun(ui, SelectProvider(ui, p))
          /\ PlanFits(SelectProvider(ui, p)) /\ SelectProvider(ui, p).screen = ui.screen
        <3>1. TRUE \in BOOLEAN /\ {} \in SUBSET Sources
            OBVIOUS
        <3>2. QED
            BY <3>1, PlanFitsNow, ProviderOfAState
    <2>2. QED
        BY <1>1, <2>1 DEF SameRun, PlanFits
<1>3. TypedBeyondUi'
    BY <1>1, PlanFitsNow DEF Select, loginVars, runVars, TypedBeyondUi
<1>4. QED
    BY <1>2, <1>3, TheRunIsLeftAlone DEF Select, runVars

LEMMA RefreshKeeps ==
    ASSUME IInv, Refresh
    PROVE  IInv'
<1>1. ui' = ui /\ ui.provider \in Providers
    BY PlanFitsNow DEF Refresh, UiStates
<1>2. ui' \in UiStates /\ SameRun(ui, ui') /\ PlanFits(ui') /\ ui'.screen = ui.screen
    BY <1>1, PlanFitsNow DEF SameRun, PlanFits
<1>3. TypedBeyondUi'
    BY <1>1, PlanFitsNow DEF Refresh, Load, loginVars, runVars, TypedBeyondUi
<1>4. QED
    BY <1>2, <1>3, TheRunIsLeftAlone DEF Refresh, runVars

LEMMA LoginKeeps ==
    ASSUME IInv, Login
    PROVE  IInv'
<1>1. /\ ui' = RequestLogin(ui) /\ suspended' = suspended \cup {ui.seq}
      /\ loggingIn' = TRUE
      /\ UNCHANGED <<exited, probes, registry, threads, worker, cancelled, events>>
    BY DEF Login, runVars
<1>2. /\ RequestLogin(ui) \in UiStates /\ SameRun(ui, RequestLogin(ui))
      /\ PlanFits(RequestLogin(ui)) /\ RequestLogin(ui).screen = ui.screen
    <2>1. none \in Handles
        BY DEF Handles
    <2>2. QED
        BY <2>1, PlanFitsNow, LoginOfAState, SamePlanFits
<1>3. ui' \in UiStates /\ SameRun(ui, ui') /\ PlanFits(ui') /\ ui'.screen = ui.screen
    BY <1>1, <1>2 DEF SameRun, PlanFits
<1>4. ui.seq \in Nat
    BY PlanFitsNow DEF UiStates
<1>5. TypedBeyondUi'
    BY <1>1, <1>4, PlanFitsNow DEF TypedBeyondUi
<1>6. QED
    BY <1>1, <1>3, <1>5, TheRunIsLeftAlone

\* A second run takes the place of the first; what ends the first is announced, but
\* the second has a worker of its own.
LEMMA RunKeeps ==
    ASSUME IInv, Run
    PROVE  IInv'
<1>1. /\ ui' = StartRun(ui)
      /\ registry' = registry \cup {ui.seq} /\ threads' = threads \cup {ui.seq}
      /\ worker' = ui.seq
      /\ events' = events \/ events' = Append(events, Ended("run", "CANCELLED"))
      /\ UNCHANGED <<exited, probes, loggingIn, suspended, cancelled>>
    BY DEF Run, loginVars
<1>2. /\ ui' \in UiStates /\ PlanFits(ui') /\ ui'.run = ui.seq
      /\ ~ui'.cancelling /\ ui'.screen = "running"
    BY <1>1, PlanFitsNow, RunOfAState DEF PlanFits
<1>3. ui.seq \in Nat
    BY PlanFitsNow DEF UiStates
<1>4. Ended("run", "CANCELLED") \in Ends
    BY DEF Ended, Ends
<1>5. events' \in Seq(Ends)
    BY <1>1, <1>4, PlanFitsNow, AppendedEnd DEF TypedBeyondUi
<1>6. Typed'
    BY <1>1, <1>2, <1>3, <1>5, PlanFitsNow DEF TypedBeyondUi, Typed, Handles
<1>7. ResultsAreOfARunThatIsOver'
    BY <1>2 DEF ResultsAreOfARunThatIsOver
<1>8. RunningIsInReach'
    BY <1>1, <1>2 DEF RunningIsInReach
<1>9. PlanIsForTheSelection'
    BY <1>2 DEF PlanFits, PlanIsForTheSelection
<1>10. QED
    BY <1>6, <1>7, <1>8, <1>9 DEF IInv

\* A cancel of the run that is shown, by key or by leaving, reaches it.
LEMMA CancellingKeeps ==
    ASSUME IInv, ui' \in {CancelRun(ui), QuitLater(ui)}, ui.running,
           CancelRegistered(ui.run), exited' = exited,
           UNCHANGED <<probes, loginVars, registry, threads, worker, events>>
    PROVE  IInv'
<1>1. /\ ui' \in UiStates /\ SamePlan(ui, ui')
      /\ ui'.running = ui.running /\ ui'.run = ui.run /\ ui'.screen = ui.screen
    <2>1. PICK next \in {CancelRun(ui), QuitLater(ui)} : ui' = next
        OBVIOUS
    <2>2. /\ next \in UiStates /\ SamePlan(ui, next)
          /\ next.running = ui.running /\ next.run = ui.run /\ next.screen = ui.screen
        <3>1. ui \in UiStates
            BY PlanFitsNow
        <3>2. CASE next = CancelRun(ui)
            BY <3>1, <3>2, CancelOfAState
        <3>3. CASE next = QuitLater(ui)
            BY <3>1, <3>3, CancelOfAState
        <3>4. QED
            BY <3>2, <3>3
    <2>3. QED
        BY <2>1, <2>2 DEF SamePlan
<1>2. PlanFits(ui')
    BY <1>1, PlanFitsNow, SamePlanFits
<1>3. /\ ui.run \in registry
      /\ worker = ui.run \/ Announced(events)
    BY DEF IInv, RunningIsInReach, Announced
<1>4. cancelled' = cancelled \cup {ui.run} /\ ui.run \in Nat
    BY <1>3, PlanFitsNow DEF CancelRegistered, TypedBeyondUi
<1>5. TypedBeyondUi'
    BY <1>4, PlanFitsNow DEF TypedBeyondUi, loginVars
<1>6. Typed'
    BY <1>1, <1>5 DEF Typed, TypedBeyondUi
<1>7. ResultsAreOfARunThatIsOver'
    BY <1>1 DEF IInv, ResultsAreOfARunThatIsOver
<1>8. RunningIsInReach'
    BY <1>1, <1>3, <1>4 DEF RunningIsInReach, Announced
<1>9. PlanIsForTheSelection'
    BY <1>2 DEF PlanFits, PlanIsForTheSelection
<1>10. QED
    BY <1>6, <1>7, <1>8, <1>9 DEF IInv

LEMMA QuitKeeps ==
    ASSUME IInv, Quit
    PROVE  IInv'
<1>1. CASE ui.running /\ ui.run # none
    <2>1. /\ ui' = QuitLater(ui) /\ CancelRegistered(ui.run) /\ exited' = exited
          /\ UNCHANGED <<probes, loginVars, registry, threads, worker, events>>
        BY <1>1 DEF Quit
    <2>2. QED
        BY <1>1, <2>1, CancellingKeeps
<1>2. CASE ~(ui.running /\ ui.run # none)
    <2>1. /\ exited' = TRUE
          /\ UNCHANGED <<ui, cancelled, probes, loggingIn, suspended, registry, threads,
                         worker, events>>
        BY <1>2 DEF Quit, loginVars
    <2>2. TypedBeyondUi'
        BY <2>1, PlanFitsNow DEF TypedBeyondUi
    <2>3. ui' \in UiStates /\ SameRun(ui, ui') /\ PlanFits(ui') /\ ui'.screen = ui.screen
        BY <2>1, PlanFitsNow DEF SameRun, PlanFits
    <2>4. QED
        BY <2>1, <2>2, <2>3, TheRunIsLeftAlone
<1>3. QED
    BY <1>1, <1>2

LEMMA OperatorKeeps ==
    ASSUME IInv, Operator
    PROVE  IInv'
<1>1. ASSUME Cancel
      PROVE  IInv'
    BY <1>1, CancellingKeeps DEF Cancel
<1>2. ASSUME Home
      PROVE  IInv'
    <2>1. Reduce(ResetRun(ui)) /\ ~ui.running
        BY <1>2 DEF Home, IInv, ResultsAreOfARunThatIsOver
    <2>2. TypedBeyondUi' /\ ui' = ResetRun(ui)
        BY <2>1, PlanFitsNow DEF Reduce, loginVars, runVars, TypedBeyondUi
    <2>3. ui' \in UiStates /\ SamePlan(ui, ui') /\ ~ui'.running
        BY <2>1, <2>2, PlanFitsNow, RunOfAState DEF SamePlan
    <2>4. QED
        BY <2>2, <2>3, PlanFitsNow, SamePlanFits, TheRunIsOver
<1>3. QED
    BY <1>1, <1>2, SetupKeeps, BackKeeps, SelectKeeps, RefreshKeeps, LoginKeeps, RunKeeps,
       QuitKeeps DEF Operator

LEMMA ProbeKeeps ==
    ASSUME IInv, NEW p \in Providers, ProbeReturns(p) \/ ProbeFails(p)
    PROVE  IInv'
<1>1. /\ probes' = probes \ {p}
      /\ UNCHANGED <<exited, loggingIn, suspended, registry, threads, worker, cancelled,
                     events>>
    BY DEF ProbeReturns, ProbeFails, loginVars, runVars
<1>2. TypedBeyondUi'
    BY <1>1, PlanFitsNow DEF TypedBeyondUi
<1>3. CASE ProbeReturns(p)
    <2>1. PICK ready \in BOOLEAN, connected \in SUBSET Sources :
              ui' = ConnectionsLoaded(ui, p, ready, connected)
        BY <1>3 DEF ProbeReturns
    <2> DEFINE next == ConnectionsLoaded(ui, p, ready, connected)
    <2>2. /\ next \in UiStates /\ SameRun(ui, next) /\ PlanFits(next)
          /\ next.screen = ui.screen
        BY PlanFitsNow, ProviderOfAState
    <2> HIDE DEF next
    <2>3. ui' = next
        BY <2>1 DEF next
    <2>4. /\ ui' \in UiStates /\ SameRun(ui, ui') /\ PlanFits(ui')
          /\ ui'.screen = ui.screen
        BY <2>2, <2>3 DEF SameRun, PlanFits
    <2>5. QED
        BY <1>1, <1>2, <2>4, TheRunIsLeftAlone
<1>4. CASE ProbeFails(p)
    <2>1. ui' = RunOver(ui)
        BY <1>4 DEF ProbeFails
    <2>2. ui' \in UiStates /\ SamePlan(ui, ui') /\ ~ui'.running
        BY <2>1, PlanFitsNow, RunOfAState DEF SamePlan
    <2>3. QED
        BY <1>2, <2>2, PlanFitsNow, SamePlanFits, TheRunIsOver
<1>5. QED
    BY <1>3, <1>4

LEMMA LoginEndsKeeps ==
    ASSUME IInv, LoginEnds
    PROVE  IInv'
<1>1. PICK outcome \in Outcomes : events' = Append(events, Ended("login", outcome))
    BY DEF LoginEnds
<1>2. Ended("login", outcome) \in Ends
    BY DEF Ended, Ends
<1>3. events' \in Seq(Ends) /\ (Announced(events) => Announced(events'))
    BY <1>1, <1>2, PlanFitsNow, AppendedEnd DEF TypedBeyondUi
<1>4. /\ loggingIn' = FALSE
      /\ UNCHANGED <<ui, exited, probes, suspended, registry, threads, worker, cancelled>>
    BY DEF LoginEnds, runVars
<1>5. TypedBeyondUi'
    BY <1>3, <1>4, PlanFitsNow DEF TypedBeyondUi
<1>6. ui' \in UiStates /\ SameRun(ui, ui') /\ PlanFits(ui') /\ ui'.screen = ui.screen
    BY <1>4, PlanFitsNow DEF SameRun, PlanFits
<1>7. QED
    BY <1>3, <1>4, <1>5, <1>6, TheRunIsLeftAlone

\* The worker of the run that is shown leaves an announcement of its end.
LEMMA ThreadEndsKeeps ==
    ASSUME IInv, NEW h \in 1..MaxEffects, ThreadEnds(h)
    PROVE  IInv'
<1>1. /\ threads' = threads \ {h}
      /\ UNCHANGED <<ui, exited, probes, loggingIn, suspended, registry, cancelled>>
    BY DEF ThreadEnds, loginVars
<1>2. ui' \in UiStates /\ SameRun(ui, ui') /\ PlanFits(ui') /\ ui'.screen = ui.screen
    BY <1>1, PlanFitsNow DEF SameRun, PlanFits
<1>3. CASE worker # h
    <2>1. worker' = worker /\ events' = events
        BY <1>3 DEF ThreadEnds
    <2>2. TypedBeyondUi'
        BY <1>1, <2>1, PlanFitsNow DEF TypedBeyondUi
    <2>3. QED
        BY <1>1, <1>2, <2>1, <2>2, TheRunIsLeftAlone
<1>4. CASE worker = h
    <2>1. PICK outcome \in Outcomes : events' = Append(events, Ended("run", outcome))
        BY <1>4 DEF ThreadEnds
    <2>2. Ended("run", outcome) \in Ends /\ Ended("run", outcome).group = "run"
        BY DEF Ended, Ends
    <2>3. events' \in Seq(Ends) /\ Announced(events')
        BY <2>1, <2>2, PlanFitsNow, AppendedEnd DEF TypedBeyondUi
    <2>4. worker' = none
        BY <1>4 DEF ThreadEnds
    <2>5. Typed'
        BY <1>1, <1>2, <2>3, <2>4, PlanFitsNow DEF TypedBeyondUi, Typed, Handles
    <2>6. ResultsAreOfARunThatIsOver' /\ PlanIsForTheSelection'
        BY <1>1 DEF IInv, ResultsAreOfARunThatIsOver, PlanIsForTheSelection
    <2>7. RunningIsInReach'
        BY <1>1, <2>3 DEF IInv, RunningIsInReach, Announced
    <2>8. QED
        BY <2>5, <2>6, <2>7 DEF IInv
<1>5. QED
    BY <1>3, <1>4

\* The end of a login at the head of the queue
LEMMA LoginEventKeeps ==
    ASSUME IInv, LoginEvent
    PROVE  IInv'
<1>1. /\ events # <<>> /\ Head(events).group # "run" /\ events' = Tail(events)
      /\ UNCHANGED <<exited, loggingIn, registry, threads, worker, cancelled>>
    BY DEF LoginEvent, Take, runVars
<1>2. events' \in Seq(Ends) /\ (Announced(events) => Announced(events'))
    BY <1>1, PlanFitsNow, TakenEnd DEF TypedBeyondUi
<1>3. CASE ui.login = none
    <2>1. UNCHANGED <<ui, suspended, probes>>
        BY <1>3 DEF LoginEvent
    <2>2. TypedBeyondUi'
        BY <1>1, <1>2, <2>1, PlanFitsNow DEF TypedBeyondUi
    <2>3. /\ ui' \in UiStates /\ SameRun(ui, ui') /\ PlanFits(ui')
          /\ ui'.screen = ui.screen
        BY <2>1, PlanFitsNow DEF SameRun, PlanFits
    <2>4. QED
        BY <1>1, <1>2, <2>2, <2>3, TheRunIsLeftAlone
<1>4. CASE ui.login # none
    <2>1. /\ suspended' = suspended \ {ui.login}
          /\ ui' = LoginSettled(ui, ui.login)
          /\ probes' = probes \/ probes' = probes \cup {ui.provider}
        BY <1>4 DEF LoginEvent, Load
    <2>2. ui.login \in Handles /\ ui.provider \in Providers
        BY PlanFitsNow DEF UiStates
    <2> DEFINE next == LoginSettled(ui, ui.login)
    <2>3. /\ next \in UiStates /\ SameRun(ui, next) /\ SamePlan(ui, next)
          /\ next.screen = ui.screen
        BY <2>2, PlanFitsNow, LoginOfAState
    <2> HIDE DEF next
    <2>4. ui' = next /\ PlanFits(next)
        BY <2>1, <2>3, PlanFitsNow, SamePlanFits DEF next
    <2>5. /\ ui' \in UiStates /\ SameRun(ui, ui') /\ PlanFits(ui')
          /\ ui'.screen = ui.screen
        BY <2>3, <2>4 DEF SameRun, PlanFits
    <2>6. TypedBeyondUi'
        BY <1>1, <1>2, <2>1, <2>2, PlanFitsNow DEF TypedBeyondUi
    <2>7. QED
        BY <1>1, <1>2, <2>5, <2>6, TheRunIsLeftAlone
<1>5. QED
    BY <1>3, <1>4

\* An end of a run settles the run that is shown; when none is, none is shown as
\* running, so that no announcement of its end is lost.
LEMMA RunEventKeeps ==
    ASSUME IInv, RunEvent
    PROVE  IInv'
<1>1. /\ events # <<>> /\ events' = Tail(events)
      /\ UNCHANGED <<probes, loggingIn, suspended, threads, worker, cancelled>>
    BY DEF RunEvent, Take, loginVars
<1>2. events' \in Seq(Ends)
    BY <1>1, PlanFitsNow, TakenEnd DEF TypedBeyondUi
<1>3. CASE ui.run = none
    <2>1. UNCHANGED <<ui, registry, exited>>
        BY <1>3 DEF RunEvent
    <2>2. ~ui.running
        BY <1>3, PlanFitsNow, CockpitAssumption DEF IInv, RunningIsInReach, TypedBeyondUi
    <2>3. TypedBeyondUi'
        BY <1>1, <1>2, <2>1, PlanFitsNow DEF TypedBeyondUi
    <2>4. ui' \in UiStates /\ ~ui'.running /\ PlanFits(ui')
        BY <2>1, <2>2, PlanFitsNow DEF PlanFits
    <2>5. QED
        BY <2>3, <2>4, TheRunIsOver
<1>4. CASE ui.run # none
    <2>1. registry' = registry \ {ui.run} /\ ui' = RunOver(ui) /\ exited' = ui.quit
        BY <1>4 DEF RunEvent
    <2>2. ui.quit \in BOOLEAN
        BY PlanFitsNow DEF UiStates
    <2>3. TypedBeyondUi'
        BY <1>1, <1>2, <2>1, <2>2, PlanFitsNow DEF TypedBeyondUi
    <2>4. ui' \in UiStates /\ SamePlan(ui, ui') /\ ~ui'.running
        BY <2>1, PlanFitsNow, RunOfAState DEF SamePlan
    <2>5. QED
        BY <2>3, <2>4, PlanFitsNow, SamePlanFits, TheRunIsOver
<1>5. QED
    BY <1>3, <1>4

LEMMA StutterKeeps ==
    ASSUME IInv, UNCHANGED vars
    PROVE  IInv'
<1>1. /\ ui' = ui
      /\ UNCHANGED <<exited, probes, loggingIn, suspended, registry, threads, worker,
                     cancelled, events>>
    BY DEF vars, loginVars, runVars
<1>2. TypedBeyondUi'
    BY <1>1, PlanFitsNow DEF TypedBeyondUi
<1>3. ui' \in UiStates /\ SameRun(ui, ui') /\ PlanFits(ui') /\ ui'.screen = ui.screen
    BY <1>1, PlanFitsNow DEF SameRun, PlanFits
<1>4. QED
    BY <1>1, <1>2, <1>3, TheRunIsLeftAlone

-----------------------------------------------------------------------------
(* The theorems *)

LEMMA InitInvariant == Init => IInv
<1> SUFFICES ASSUME Init
             PROVE  IInv
    OBVIOUS
<1>1. PICK screen \in {"home", "connections"} : ui = NewState(screen, FirstProvider)
    BY DEF Init
<1>2. ui \in UiStates /\ ~ui.running /\ ui.plan = none
    BY <1>1, InitialState
<1>3. <<>> \in Seq(Ends)
    BY EmptySeq
<1>4. Typed
    BY <1>2, <1>3, CockpitAssumption DEF Init, Typed, Handles
<1>5. QED
    BY <1>2, <1>4 DEF IInv, ResultsAreOfARunThatIsOver, RunningIsInReach,
       PlanIsForTheSelection

\* Whatever the operator does and in whatever order the threads report, the fields of
\* the reducer, the registry, the workers and the queue of the application fit together.
THEOREM Invariance == Spec => []IInv
<1>1. IInv /\ [Next]_vars => IInv'
    <2> SUFFICES ASSUME IInv, [Next]_vars
                 PROVE  IInv'
        OBVIOUS
    <2>1. ASSUME Host
          PROVE  IInv'
        BY <2>1, ProbeKeeps, LoginEndsKeeps, ThreadEndsKeeps, LoginEventKeeps,
           RunEventKeeps DEF Host
    <2>2. QED
        BY <2>1, OperatorKeeps, StutterKeeps DEF Next
<1>2. QED
    BY <1>1, InitInvariant, PTL DEF Spec

\* A run that is shown as running is registered, so that a cancel reaches it, and its
\* end is announced or its worker still there, however many runs were started over it
\* (tui_textual.py, run_experiment and on_worker_state_changed).
THEOREM ShownRunsAreInReach == Spec => []RunningIsInReach
<1>1. IInv => RunningIsInReach
    BY DEF IInv
<1>2. QED
    BY <1>1, Invariance, PTL

\* No probe or login that answers late leaves a plan that was made for another
\* provider or another selection (tui_state.py, the reducer).
THEOREM PlansFitTheSelection == Spec => []PlanIsForTheSelection
<1>1. IInv => PlanIsForTheSelection
    BY DEF IInv
<1>2. QED
    BY <1>1, Invariance, PTL
=============================================================================
