------------------------- MODULE ExperimentJobs_proofs -------------------------
(***************************************************************************)
(* Safety of the experiment boundary for any set of ids and handler        *)
(* threads and any max_jobs.                                               *)
(***************************************************************************)
EXTENDS ExperimentJobs, TLAPS

InFactory(c, e) == frame[c].at = "factory" /\ frame[c].id = e

\* The signal and the CANCELLED status are two writings of one fact, although
\* the code keeps them in two objects; the re-checks of _execute rest on it.
TokenIsCancelled == \A e \in Ids : token[e] <=> status[e] = "CANCELLED"

\* A thread that is past its locked section still agrees with the status.
ThreadsAgree ==
    /\ \A c \in Clients, e \in Ids :
          InFactory(c, e) => status[e] \in {"VALIDATING", "CANCELLED"}
    /\ \A c \in Clients : frame[c].at = "cancelling" => token[frame[c].id]
    /\ \A e \in Ids :
          worker[e] \in {"running", "finishing"} =>
              status[e] \in {"RUNNING", "CANCELLED"}
    /\ \A e \in Ids : ended[e] = "RUN_CANCELLED" => token[e]
    /\ \A e \in Ids :
          status[e] \in {"ABSENT", "CREATED"} => ~runner[e] /\ worker[e] = "NONE"

\* A stored result belongs to the status it was stored with.
ResultFits ==
    \A e \in Ids :
        \/ result[e] = "NONE" /\ status[e] \notin {"SUCCEEDED", "FAILED"}
        \/ result[e] \in Lifecycle!AnswersFor(status[e])

IInv ==
    /\ TypeOK
    /\ TokenIsCancelled
    /\ OneOwner
    /\ NoStrandedJob
    /\ ThreadsAgree
    /\ ResultFits

-----------------------------------------------------------------------------
\* The transition table of experiment_contracts.py, entry by entry.
LEMMA AllowedTable ==
    /\ Allowed["ABSENT"] = {}
    /\ Allowed["CREATED"] = {"VALIDATING", "CANCELLED"}
    /\ Allowed["VALIDATING"] = {"READY", "FAILED", "CANCELLED"}
    /\ Allowed["READY"] = {"RUNNING", "CANCELLED"}
    /\ Allowed["RUNNING"] = {"SUCCEEDED", "FAILED", "CANCELLED"}
    /\ \A s \in Terminal : Allowed[s] = {}
  BY DEF Allowed, Terminal, Lifecycle!Allowed, Lifecycle!Statuses,
         Lifecycle!Active, Lifecycle!Terminal

\* The answers that may come with each status.
LEMMA AnswersTable ==
    /\ Lifecycle!AnswersFor("FAILED") = {"FAILED", "SUCCEEDED"}
    /\ Lifecycle!AnswersFor("SUCCEEDED") = {"SUCCEEDED"}
    /\ Lifecycle!AnswersFor("CANCELLED") = {"CANCELLED"}
    /\ \A s \in {"ABSENT", "CREATED", "VALIDATING", "READY", "RUNNING"} :
          Lifecycle!AnswersFor(s) = {"NOT_READY"}
  BY DEF Lifecycle!AnswersFor, Lifecycle!Terminal

USE DEF Idle

LEMMA InitInv == Init => IInv
<1> SUFFICES ASSUME Init PROVE IInv
  OBVIOUS
<1>1. TypeOK
  BY JobsAssumption
     DEF Init, TypeOK, Lifecycle!Statuses, Terminal, Frames
<1>2. TokenIsCancelled
  BY DEF Init, TokenIsCancelled
<1>3. OneOwner
  BY DEF Init, OneOwner
<1>4. NoStrandedJob
  BY DEF Init, NoStrandedJob
<1>5. ThreadsAgree
  BY DEF Init, ThreadsAgree, InFactory
<1>6. ResultFits
  BY DEF Init, ResultFits
<1> QED
  BY <1>1, <1>2, <1>3, <1>4, <1>5, <1>6 DEF IInv

\* The parts beside the type invariant.
Parts == TokenIsCancelled /\ OneOwner /\ NoStrandedJob /\ ThreadsAgree /\ ResultFits

\* The type invariant is inductive by itself.
LEMMA NextType == TypeOK /\ [Next]_vars => TypeOK'
<1> SUFFICES ASSUME TypeOK, [Next]_vars PROVE TypeOK'
  OBVIOUS
<1> USE JobsAssumption
    DEF TypeOK, Terminal, Lifecycle!Terminal, Lifecycle!Statuses,
        Lifecycle!Active, Frames, Callable
<1>1. ASSUME NEW c \in Clients, NEW e \in Ids, Create(c, e) PROVE TypeOK'
  BY <1>1 DEF Create
<1>2. ASSUME NEW c \in Clients, NEW e \in Ids, Validate(c, e) PROVE TypeOK'
  BY <1>2 DEF Validate, EnterFactory
<1>3. ASSUME NEW c \in Clients, NEW e \in Ids, Start(c, e) PROVE TypeOK'
  BY <1>3 DEF Start, Launch
<1>4. ASSUME NEW c \in Clients, NEW e \in Ids, Cancel(c, e) PROVE TypeOK'
  BY <1>4 DEF Cancel
<1>5. ASSUME NEW c \in Clients, NEW source \in Ids, NEW e \in Ids,
             Rerun(c, source, e)
      PROVE TypeOK'
  BY <1>5 DEF Rerun
<1>6. ASSUME NEW c \in Clients, FactoryReturns(c) PROVE TypeOK'
  BY <1>6 DEF FactoryReturns, AfterValidate
<1>7. ASSUME NEW c \in Clients, FactoryRaises(c) PROVE TypeOK'
  BY <1>7 DEF FactoryRaises, AfterValidate
<1>8. ASSUME NEW c \in Clients, CancelRunner(c) PROVE TypeOK'
  BY <1>8 DEF CancelRunner
<1>9. ASSUME NEW c \in Clients, RerunValidate(c) PROVE TypeOK'
  BY <1>9 DEF RerunValidate, EnterFactory
<1>10. ASSUME NEW c \in Clients, RerunStart(c) PROVE TypeOK'
  BY <1>10 DEF RerunStart, Launch, jobVars
<1>11. ASSUME NEW e \in Ids, Publish(e) PROVE TypeOK'
  BY <1>11 DEF Publish
<1>12. ASSUME NEW e \in Ids, NEW end \in Ends, RunEnds(e, end) PROVE TypeOK'
  BY <1>12 DEF RunEnds
<1>13. ASSUME NEW e \in Ids, Finish(e) PROVE TypeOK'
  BY <1>13 DEF Finish, FinishLoaded, FinishCancelled, FinishRaised, Settle
<1>14. CASE UNCHANGED vars
  BY <1>14 DEF vars
<1> QED
  BY <1>1, <1>2, <1>3, <1>4, <1>5, <1>6, <1>7, <1>8, <1>9, <1>10, <1>11,
     <1>12, <1>13, <1>14
     DEF Next, Call, Continue, Work

\* validate(), entered by a client or by a rerun, keeps the parts.
LEMMA EnterFactoryInv ==
  ASSUME IInv, TypeOK', NEW c \in Clients, NEW e \in Ids, NEW rerun \in BOOLEAN,
         frame[c].at \in {"idle", "rerun"}, EnterFactory(c, e, rerun)
  PROVE  Parts'
<1> USE DEF IInv, EnterFactory
<1> USE AllowedTable, AnswersTable
    DEF TypeOK, TokenIsCancelled, OneOwner, NoStrandedJob, ThreadsAgree,
        ResultFits, InFactory, Terminal, Lifecycle!Terminal, Frames
<1>1. TokenIsCancelled'
  OBVIOUS
<1>2. OneOwner'
  OBVIOUS
<1>3. NoStrandedJob'
  OBVIOUS
<1>4. ThreadsAgree'
  OBVIOUS
<1>5. ResultFits'
  OBVIOUS
<1> QED
  BY <1>1, <1>2, <1>3, <1>4, <1>5 DEF Parts

\* start(), by a client or at the end of a rerun, keeps the parts.
LEMMA LaunchInv ==
  ASSUME IInv, TypeOK', NEW c \in Clients, NEW e \in Ids, Launch(e),
         frame' = frame \/ (frame[c].at = "starting"
                            /\ frame' = [frame EXCEPT ![c] = Idle])
  PROVE  Parts'
<1>a. \A d \in Clients :
         frame'[d] = frame[d] \/ (frame[d].at = "starting" /\ frame'[d] = Idle)
  BY DEF IInv, TypeOK
<1>0. \A d \in Clients :
         /\ \A x \in Ids : InFactory(d, x)' <=> InFactory(d, x)
         /\ frame'[d].at = "cancelling" => frame'[d] = frame[d]
  BY <1>a DEF InFactory
<1> USE DEF IInv, Launch
<1> USE AllowedTable, AnswersTable
    DEF TypeOK, TokenIsCancelled, OneOwner, NoStrandedJob, ThreadsAgree,
        ResultFits, InFactory, Terminal, Lifecycle!Terminal, Frames
<1>1. TokenIsCancelled'
  OBVIOUS
<1>2. OneOwner'
  BY <1>0
<1>3. NoStrandedJob'
  BY <1>0
<1>4. ThreadsAgree'
  <2>1. \A d \in Clients, x \in Ids :
           InFactory(d, x)' => status'[x] \in {"VALIDATING", "CANCELLED"}
    BY <1>0
  <2>2. \A d \in Clients : frame'[d].at = "cancelling" => token'[frame'[d].id]
    BY <1>0
  <2>3. \A x \in Ids : worker'[x] \in {"running", "finishing"} =>
              status'[x] \in {"RUNNING", "CANCELLED"}
    OBVIOUS
  <2>4. \A x \in Ids : ended'[x] = "RUN_CANCELLED" => token'[x]
    OBVIOUS
  <2>5. \A x \in Ids : status'[x] \in {"ABSENT", "CREATED"} =>
              ~runner'[x] /\ worker'[x] = "NONE"
    OBVIOUS
  <2> QED
    BY <2>1, <2>2, <2>3, <2>4, <2>5
<1>5. ResultFits'
  OBVIOUS
<1> QED
  BY <1>1, <1>2, <1>3, <1>4, <1>5 DEF Parts

\* Every action keeps every part of the invariant.
LEMMA NextInv == IInv /\ [Next]_vars => IInv'
<1> SUFFICES ASSUME IInv, [Next]_vars PROVE Parts'
  BY NextType DEF IInv, Parts
<1>0. TypeOK'
  BY NextType DEF IInv
<1>2. ASSUME NEW c \in Clients, NEW e \in Ids, Validate(c, e) PROVE Parts'
  BY <1>0, <1>2, EnterFactoryInv DEF Validate, Callable
<1>3. ASSUME NEW c \in Clients, NEW e \in Ids, Start(c, e) PROVE Parts'
  BY <1>0, <1>3, LaunchInv DEF Start
<1>9. ASSUME NEW c \in Clients, RerunValidate(c) PROVE Parts'
  <2>1. frame[c].id \in Ids
    BY <1>9 DEF RerunValidate, IInv, TypeOK, Frames
  <2> QED
    BY <1>0, <1>9, <2>1, EnterFactoryInv DEF RerunValidate
<1>10. ASSUME NEW c \in Clients, RerunStart(c) PROVE Parts'
  <2>1. frame[c].id \in Ids
    BY <1>10 DEF RerunStart, IInv, TypeOK, Frames
  <2>2. CASE Launch(frame[c].id)
    BY <1>0, <1>10, <2>1, <2>2, LaunchInv DEF RerunStart
  <2>3. CASE UNCHANGED jobVars
    BY <1>10, <2>3
       DEF RerunStart, jobVars, IInv, Parts, TypeOK, TokenIsCancelled, OneOwner,
           NoStrandedJob, ThreadsAgree, ResultFits, InFactory
  <2> QED
    BY <1>10, <2>2, <2>3 DEF RerunStart
<1> USE <1>0, AllowedTable, AnswersTable
    DEF IInv, TypeOK, TokenIsCancelled, OneOwner, NoStrandedJob, ThreadsAgree,
        ResultFits, InFactory, Terminal, Lifecycle!Terminal, Frames, Callable
<1>1. ASSUME NEW c \in Clients, NEW e \in Ids, Create(c, e) PROVE Parts'
  BY <1>1 DEF Create, Parts
<1>4. ASSUME NEW c \in Clients, NEW e \in Ids, Cancel(c, e) PROVE Parts'
  <2>0. /\ status[e] \in {"CREATED", "VALIDATING", "READY", "RUNNING"}
        /\ status' = [status EXCEPT ![e] = "CANCELLED"]
    <3>1. status[e] \in {"CREATED", "VALIDATING", "READY", "RUNNING"}
      BY <1>4 DEF Cancel, Lifecycle!Statuses, Lifecycle!Active
    <3>2. "CANCELLED" \in Allowed[status[e]]
      BY <3>1
    <3> QED
      BY <1>4, <3>1, <3>2 DEF Cancel
  <2>1. TokenIsCancelled'
    BY <1>4, <2>0 DEF Cancel
  <2>2. OneOwner'
    BY <1>4, <2>0 DEF Cancel
  <2>3. NoStrandedJob'
    BY <1>4, <2>0 DEF Cancel
  <2>4. ThreadsAgree'
    BY <1>4, <2>0 DEF Cancel
  <2>5. ResultFits'
    BY <1>4, <2>0 DEF Cancel
  <2> QED
    BY <2>1, <2>2, <2>3, <2>4, <2>5 DEF Parts
<1>5. ASSUME NEW c \in Clients, NEW source \in Ids, NEW e \in Ids,
             Rerun(c, source, e)
      PROVE Parts'
  BY <1>5 DEF Rerun, Parts
<1>6. ASSUME NEW c \in Clients, FactoryReturns(c) PROVE Parts'
  <2>1. TokenIsCancelled'
    BY <1>6 DEF FactoryReturns, AfterValidate
  <2>2. OneOwner'
    BY <1>6 DEF FactoryReturns, AfterValidate
  <2>3. NoStrandedJob'
    BY <1>6 DEF FactoryReturns, AfterValidate
  <2>4. ThreadsAgree'
    BY <1>6 DEF FactoryReturns, AfterValidate
  <2>5. ResultFits'
    BY <1>6 DEF FactoryReturns, AfterValidate
  <2> QED
    BY <2>1, <2>2, <2>3, <2>4, <2>5 DEF Parts
<1>7. ASSUME NEW c \in Clients, FactoryRaises(c) PROVE Parts'
  <2>1. TokenIsCancelled'
    BY <1>7 DEF FactoryRaises, AfterValidate
  <2>2. OneOwner'
    BY <1>7 DEF FactoryRaises, AfterValidate
  <2>3. NoStrandedJob'
    BY <1>7 DEF FactoryRaises, AfterValidate
  <2>4. ThreadsAgree'
    BY <1>7 DEF FactoryRaises, AfterValidate
  <2>5. ResultFits'
    BY <1>7 DEF FactoryRaises, AfterValidate
  <2> QED
    BY <2>1, <2>2, <2>3, <2>4, <2>5 DEF Parts
<1>8. ASSUME NEW c \in Clients, CancelRunner(c) PROVE Parts'
  BY <1>8 DEF CancelRunner, Parts
<1>11. ASSUME NEW e \in Ids, Publish(e) PROVE Parts'
  BY <1>11 DEF Publish, Parts
<1>12. ASSUME NEW e \in Ids, NEW end \in Ends, RunEnds(e, end) PROVE Parts'
  <2>1. TokenIsCancelled'
    BY <1>12 DEF RunEnds, Ends
  <2>2. OneOwner'
    BY <1>12 DEF RunEnds, Ends
  <2>3. NoStrandedJob'
    BY <1>12 DEF RunEnds, Ends
  <2>4. ThreadsAgree'
    BY <1>12 DEF RunEnds, Ends
  <2>5. ResultFits'
    BY <1>12 DEF RunEnds, Ends
  <2> QED
    BY <2>1, <2>2, <2>3, <2>4, <2>5 DEF Parts
<1>13. ASSUME NEW e \in Ids, Finish(e) PROVE Parts'
  <2>1. TokenIsCancelled'
    BY <1>13 DEF Finish, FinishLoaded, FinishCancelled, FinishRaised,
               Settle
  <2>2. OneOwner'
    BY <1>13 DEF Finish, FinishLoaded, FinishCancelled, FinishRaised,
               Settle
  <2>3. NoStrandedJob'
    BY <1>13 DEF Finish, FinishLoaded, FinishCancelled, FinishRaised,
               Settle
  <2>4. ThreadsAgree'
    BY <1>13 DEF Finish, FinishLoaded, FinishCancelled, FinishRaised,
               Settle
  <2>5. ResultFits'
    BY <1>13 DEF Finish, FinishLoaded, FinishCancelled, FinishRaised,
               Settle
  <2> QED
    BY <2>1, <2>2, <2>3, <2>4, <2>5 DEF Parts
<1>14. CASE UNCHANGED vars
  BY <1>14 DEF vars, Parts
<1> QED
  BY <1>1, <1>2, <1>3, <1>4, <1>5, <1>6, <1>7, <1>8, <1>9, <1>10, <1>11,
     <1>12, <1>13, <1>14
     DEF Next, Call, Continue, Work

-----------------------------------------------------------------------------
\* The inductive invariant holds in every reachable state.
THEOREM Invariance == Spec => []IInv
<1> QED
  BY InitInv, NextInv, PTL DEF Spec

\* Type correctness of the boundary, for any ids, clients and max_jobs.
THEOREM TypeCorrect == Spec => []TypeOK
<1>1. IInv => TypeOK
  BY DEF IInv
<1> QED
  BY <1>1, Invariance, PTL

\* An accepted cancellation wins every race, for any number of threads.
THEOREM CancelAlwaysWins == Spec => []CancelWins
<1>1. IInv => CancelWins
  BY AnswersTable
     DEF IInv, CancelWins, TokenIsCancelled, ResultFits, Answer, TypeOK, Terminal
<1> QED
  BY <1>1, Invariance, PTL

\* One factory call and one worker per job, whatever the threads of start().
THEOREM JobsAreOwned == Spec => []OneOwner
<1>1. IInv => OneOwner
  BY DEF IInv
<1> QED
  BY <1>1, Invariance, PTL

\* No status is left behind by the thread that was to set it.
THEOREM NoJobIsStranded == Spec => []NoStrandedJob
<1>1. IInv => NoStrandedJob
  BY DEF IInv
<1> QED
  BY <1>1, Invariance, PTL

-----------------------------------------------------------------------------
(* Refinement: every step is a step of the abstract lifecycle or a stutter *)

Answering == [e \in Ids |-> Answer(e)]

\* A step that moves one job along the table, and gives an answer that may
\* come with the new status, is an abstract move.
LEMMA MoveStep ==
  ASSUME TypeOK, TypeOK', NEW e \in Ids, NEW s \in Allowed[status[e]],
         status' = [status EXCEPT ![e] = s],
         \A x \in Ids \ {e} : result'[x] = result[x],
         Answer(e)' \in Lifecycle!AnswersFor(s)
  PROVE  Lifecycle!Move(e, s)
<1>1. \A x \in Ids \ {e} : Answer(x)' = Answer(x)
  BY DEF Answer, TypeOK
<1>2. Answering' = [Answering EXCEPT ![e] = Answer(e)']
  BY <1>1 DEF Answering
<1> QED
  BY <1>2 DEF Lifecycle!Move, Allowed, Answering

\* A step that changes neither statuses nor results is an abstract stutter.
LEMMA StutterStep ==
  ASSUME status' = status, result' = result
  PROVE  UNCHANGED Lifecycle!lifecycleVars
  BY DEF Lifecycle!lifecycleVars, Answer

\* create() and rerun() of a fresh id are abstract admissions.
LEMMA AdmitStep ==
  ASSUME TypeOK, NEW e \in Ids, status[e] = "ABSENT", result' = result,
         SlotFree, status' = [status EXCEPT ![e] = "CREATED"], result[e] = "NONE"
  PROVE  Lifecycle!Admit(e)
<1>1. \A x \in Ids : Answer(x)' = Answer(x)
  BY DEF Answer, TypeOK
<1> QED
  BY <1>1 DEF Lifecycle!Admit, SlotFree

\* Every step of the boundary, from a state of the invariant, is a step of
\* the abstract lifecycle.
LEMMA StepSimulation == IInv /\ [Next]_vars => [Lifecycle!Next]_(Lifecycle!lifecycleVars)
<1> DEFINE Simulated ==
      \/ \E e \in Ids : \/ Lifecycle!Admit(e)
                        \/ \E s \in Lifecycle!Statuses : Lifecycle!Move(e, s)
      \/ UNCHANGED Lifecycle!lifecycleVars
<1> SUFFICES ASSUME IInv, [Next]_vars PROVE Simulated
  BY DEF Lifecycle!Next
<1>0. TypeOK /\ TypeOK' /\ IInv'
  BY NextType, NextInv DEF IInv
<1>a. ASSUME NEW e \in Ids, NEW s \in Allowed[status[e]],
             status' = [status EXCEPT ![e] = s],
             \A x \in Ids \ {e} : result'[x] = result[x]
      PROVE  Simulated
  <2>1. Answer(e)' \in Lifecycle!AnswersFor(s)
    BY <1>0, <1>a, AnswersTable, AllowedTable
       DEF IInv, ResultFits, Answer, TypeOK, Terminal, Lifecycle!Terminal,
           Lifecycle!Statuses, Lifecycle!Active
  <2>2. s \in Lifecycle!Statuses
    BY <1>0, <1>a DEF TypeOK
  <2>3. Lifecycle!Move(e, s)
    BY <1>0, <1>a, <2>1, MoveStep
  <2> QED
    BY <2>2, <2>3
<1>b. ASSUME status' = status, result' = result PROVE Simulated
  BY <1>b, StutterStep
<1>c. ASSUME NEW e \in Ids, status[e] = "ABSENT", SlotFree, result' = result,
             status' = [status EXCEPT ![e] = "CREATED"]
      PROVE  Simulated
  <2>1. result[e] = "NONE"
    BY <1>0, <1>c, AnswersTable DEF IInv, ResultFits, TypeOK, Terminal, Lifecycle!Terminal
  <2> QED
    BY <1>0, <1>c, <2>1, AdmitStep
<1>1. ASSUME NEW c \in Clients, NEW e \in Ids, Create(c, e) PROVE Simulated
  BY <1>1, <1>c DEF Create
<1>2. ASSUME NEW c \in Clients, NEW e \in Ids, NEW rerun, EnterFactory(c, e, rerun)
      PROVE  Simulated
  BY <1>2, <1>a, AllowedTable DEF EnterFactory
<1>3. ASSUME NEW e \in Ids, Launch(e) PROVE Simulated
  BY <1>3, <1>a, AllowedTable DEF Launch
<1>4. ASSUME NEW c \in Clients, NEW e \in Ids, Cancel(c, e) PROVE Simulated
  <2>1. status[e] \in {"CREATED", "VALIDATING", "READY", "RUNNING"}
    <3>1. status[e] \in Lifecycle!Statuses /\ status[e] \notin Terminal
      BY <1>0, <1>4 DEF Cancel, Callable, TypeOK
    <3>2. status[e] # "ABSENT"
      BY <1>4 DEF Cancel, Callable
    <3> QED
      BY <3>1, <3>2 DEF Terminal, Lifecycle!Statuses, Lifecycle!Active
  <2>2. "CANCELLED" \in Allowed[status[e]]
    BY <2>1, AllowedTable
  <2> QED
    BY <1>4, <2>2, <1>a DEF Cancel
<1>5. ASSUME NEW c \in Clients, NEW source \in Ids, NEW e \in Ids,
             Rerun(c, source, e)
      PROVE  Simulated
  BY <1>5, <1>c DEF Rerun
<1>6. ASSUME NEW c \in Clients, FactoryReturns(c) PROVE Simulated
  <2> DEFINE e == frame[c].id
             target == IF token[e] THEN "CANCELLED" ELSE "READY"
  <2>1. e \in Ids
    BY <1>0, <1>6 DEF FactoryReturns, TypeOK, Frames
  <2>2. CASE target \in Allowed[status[e]]
    BY <1>6, <2>1, <2>2, <1>a DEF FactoryReturns
  <2>3. CASE target \notin Allowed[status[e]]
    BY <1>0, <1>6, <2>1, <2>3, <1>b DEF FactoryReturns, TypeOK
  <2> QED
    BY <2>2, <2>3
<1>7. ASSUME NEW c \in Clients, FactoryRaises(c) PROVE Simulated
  <2> DEFINE e == frame[c].id
  <2>1. e \in Ids
    BY <1>0, <1>7 DEF FactoryRaises, TypeOK, Frames
  <2>2. CASE "FAILED" \in Allowed[status[e]]
    <3>1. /\ status' = [status EXCEPT ![e] = "FAILED"]
          /\ \A x \in Ids \ {e} : result'[x] = result[x]
      BY <1>0, <1>7, <2>1, <2>2 DEF FactoryRaises, TypeOK
    <3> QED
      BY <2>1, <2>2, <3>1, <1>a
  <2>3. CASE "FAILED" \notin Allowed[status[e]]
    BY <1>0, <1>7, <2>1, <2>3, <1>b DEF FactoryRaises, TypeOK
  <2> QED
    BY <2>2, <2>3
<1>8. ASSUME NEW c \in Clients, CancelRunner(c) PROVE Simulated
  BY <1>8, <1>b DEF CancelRunner
<1>10. ASSUME NEW c \in Clients, RerunStart(c) PROVE Simulated
  <2>1. frame[c].id \in Ids
    BY <1>0, <1>10 DEF RerunStart, TypeOK, Frames
  <2> QED
    BY <1>10, <2>1, <1>3, <1>b DEF RerunStart, jobVars
<1>11. ASSUME NEW e \in Ids, Publish(e) PROVE Simulated
  BY <1>11, <1>b DEF Publish
<1>12. ASSUME NEW e \in Ids, NEW end \in Ends, RunEnds(e, end) PROVE Simulated
  BY <1>12, <1>b DEF RunEnds
<1>13. ASSUME NEW e \in Ids, Finish(e) PROVE Simulated
  <2>1. /\ status[e] \in {"RUNNING", "CANCELLED"}
        /\ \A x \in Ids \ {e} : result'[x] = result[x]
        /\ result'[e] \in Terminal
    BY <1>0, <1>13
       DEF Finish, FinishLoaded, FinishCancelled, FinishRaised, Settle, IInv,
           ThreadsAgree, TypeOK, Terminal, Lifecycle!Terminal
  <2>2. CASE status[e] = "RUNNING"
    <3>1. PICK s \in Terminal : status' = [status EXCEPT ![e] = s]
      BY <1>0, <1>13, <2>2
         DEF Finish, FinishLoaded, FinishCancelled, FinishRaised, Settle,
             Terminal, Lifecycle!Terminal, TypeOK
    <3>2. s \in Allowed[status[e]]
      BY <2>2, AllowedTable DEF Terminal, Lifecycle!Terminal
    <3> QED
      BY <2>1, <3>1, <3>2, <1>a
  <2>3. CASE status[e] = "CANCELLED"
    <3>1. status' = status
      BY <1>0, <1>13, <2>3
         DEF Finish, FinishLoaded, FinishCancelled, FinishRaised, Settle, TypeOK
    <3>2. \A x \in Ids : Answer(x)' = Answer(x)
      <4>1. Answer(e) = "CANCELLED" /\ Answer(e)' = "CANCELLED"
        BY <1>0, <2>3, <3>1, AnswersTable
           DEF IInv, ResultFits, Answer, TypeOK, Terminal, Lifecycle!Terminal
      <4> QED
        BY <2>1, <3>1, <4>1 DEF Answer
    <3> QED
      BY <3>1, <3>2 DEF Lifecycle!lifecycleVars
  <2> QED
    BY <2>1, <2>2, <2>3
<1>14. CASE UNCHANGED vars
  BY <1>14, <1>b DEF vars
<1>15. ASSUME NEW c \in Clients, RerunValidate(c) PROVE Simulated
  <2>1. frame[c].id \in Ids
    BY <1>0, <1>15 DEF RerunValidate, TypeOK, Frames
  <2> QED
    BY <1>15, <2>1, <1>2 DEF RerunValidate
<1> QED
  <2> HIDE DEF Simulated
  <2> QED
    BY <1>1, <1>2, <1>3, <1>4, <1>5, <1>6, <1>7, <1>8, <1>10, <1>11, <1>12,
       <1>13, <1>14, <1>15
       DEF Next, Call, Continue, Work, Validate, Start

\* The boundary implements the abstract lifecycle, for any number of threads.
THEOREM Refinement == Spec => ImplementsLifecycle
<1>1. Init => Lifecycle!Init
  BY DEF Init, Lifecycle!Init, Answer
<1> QED
  BY <1>1, Invariance, StepSimulation, PTL
     DEF Spec, ImplementsLifecycle, Lifecycle!Spec

\* What result() once answered it answers for ever.
THEOREM AnswersAreFinal == Spec => AnswerIsFinal
<1>1. IInv /\ [Next]_vars =>
         [\A e \in Ids : Answer(e) # "NOT_READY" => Answer(e)' = Answer(e)]_vars
  <2> SUFFICES ASSUME IInv, [Next]_vars, NEW e \in Ids, Answer(e) # "NOT_READY"
               PROVE  Answer(e)' = Answer(e)
    OBVIOUS
  <2>1. Answering[e] = Answer(e) /\ Answering'[e] = Answer(e)'
    BY DEF Answering
  <2>2. CASE UNCHANGED Lifecycle!lifecycleVars
    BY <2>1, <2>2 DEF Lifecycle!lifecycleVars, Answering
  <2>3. ASSUME NEW x \in Ids, Lifecycle!Admit(x) PROVE Answer(e)' = Answer(e)
    BY <2>1, <2>3 DEF Lifecycle!Admit, Answering
  <2>4. ASSUME NEW x \in Ids, NEW s, Lifecycle!Move(x, s)
        PROVE  Answer(e)' = Answer(e)
    <3>1. CASE x = e
      <4>1. status[e] \in {"CREATED", "VALIDATING", "READY", "RUNNING"}
        BY <2>4, <3>1, AllowedTable
           DEF Lifecycle!Move, IInv, TypeOK, Lifecycle!Statuses,
               Lifecycle!Active, Terminal, Allowed
      <4> QED
        BY <4>1, AnswersTable DEF IInv, ResultFits, TypeOK, Answer, Terminal,
                                  Lifecycle!Terminal
    <3>2. CASE x # e
      BY <2>1, <2>4, <3>2 DEF Lifecycle!Move, Answering
    <3> QED
      BY <3>1, <3>2
  <2> QED
    BY <2>2, <2>3, <2>4, StepSimulation DEF Lifecycle!Next
<1> QED
  BY <1>1, Invariance, PTL DEF Spec, AnswerIsFinal
=============================================================================
