---------------------- MODULE ProcessCancellation_proofs ----------------------
(***************************************************************************)
(* Safety of a cancellation for any number of operations of either kind    *)
(* and of cancelling threads.                                              *)
(***************************************************************************)
EXTENDS ProcessCancellation, TLAPS, SequenceTheorems

\* Where an operation is before the body of its try has ended.
Body == {"idle", "spawned", "inlineTerm", "inlineKill", "entered", "waiting", "captured"}

\* Between the registration of its callback and the end of the body.
Watched == {"entered", "waiting", "captured"}

\* Callbacks run only after the signal is set, and only the first cancel() runs
\* any; a SIGTERM that was sent belongs to a callback that is still to be killed.
OneDeliverer ==
    /\ \A c \in Cancellers :
          /\ canceller[c].at # "idle" => event
          /\ canceller[c].sent => canceller[c].at = "delivering" /\ canceller[c].todo # <<>>
    /\ \A c, d \in Cancellers :
          /\ canceller[c].at \in {"delivering", "delivered"}
          /\ canceller[d].at \in {"delivering", "delivered"}
          => c = d

\* What an operation's place says of its process and its verdict.
PlaceOfProcess ==
    \A o \in Ops :
        /\ pc[o] # "idle" => leader[o] # "none"
        /\ pc[o] \in Body => verdict[o] = "none"
        /\ pc[o] \in {"inlineTerm", "inlineKill"} => event
        /\ pc[o] = "captured" => ~LeaderAlive(o)

\* Nobody terminates a process while the signal is not set and its own
\* operation has not ended its body.
UntouchedBeforeSignal ==
    ~event => \A o \in Ops : pc[o] \in Body => ~signalled[o] /\ leader[o] # "killed"

\* Before the signal, whoever waits is registered; after it, whoever waits for a
\* live process is still to be called.
Registered ==
    ~event => \A o \in Ops : pc[o] \in Watched => o \in ToSet(callbacks)

ToBeCalled(o) ==
    \E c \in Cancellers :
        canceller[c].at = "delivering" /\ o \in ToSet(canceller[c].todo)

WaitersAreCalled ==
    event => \A o \in Ops : pc[o] \in Watched /\ LeaderAlive(o) => ToBeCalled(o)

\* The group teardown is over before the callback is removed.
TornDown ==
    \A o \in GroupOps :
        pc[o] \in {"removing", "over"} =>
            ~LeaderAlive(o) /\ (verdict[o] # "result" => ~children[o])

IInv ==
    /\ TypeOK
    /\ OneDeliverer
    /\ PlaceOfProcess
    /\ UntouchedBeforeSignal
    /\ Registered
    /\ WaitersAreCalled
    /\ TornDown
    /\ KilledIsNotAResult
    /\ NothingOutlivesItsRun

-----------------------------------------------------------------------------
(* Sequences of callbacks *)

LEMMA AppendRange ==
    ASSUME NEW S, NEW s \in Seq(S), NEW e \in S
    PROVE  ToSet(s) \cup {e} \subseteq ToSet(Append(s, e))
<1>1. /\ Append(s, e) \in Seq(S)
      /\ DOMAIN Append(s, e) = 1..(Len(s) + 1)
      /\ \A i \in 1..Len(s) : Append(s, e)[i] = s[i]
      /\ Append(s, e)[Len(s) + 1] = e
      /\ Len(s) \in Nat /\ DOMAIN s = 1..Len(s)
  BY AppendProperties, LenProperties
<1> QED
  BY <1>1 DEF ToSet

LEMMA TailRange ==
    ASSUME NEW S, NEW s \in Seq(S), s # <<>>
    PROVE  /\ Head(s) \in S /\ Tail(s) \in Seq(S)
           /\ ToSet(s) \subseteq {Head(s)} \cup ToSet(Tail(s))
<1>1. /\ Head(s) \in S /\ Tail(s) \in Seq(S)
      /\ Len(Tail(s)) = Len(s) - 1
      /\ \A i \in 1..Len(Tail(s)) : Tail(s)[i] = s[i + 1]
      /\ Head(s) = s[1]
  BY HeadTailProperties
<1>2. /\ DOMAIN s = 1..Len(s) /\ Len(s) \in Nat
      /\ DOMAIN Tail(s) = 1..Len(Tail(s))
  BY <1>1, LenProperties
<1>3. ASSUME NEW i \in DOMAIN s
      PROVE  s[i] = Head(s) \/ s[i] \in ToSet(Tail(s))
  <2>1. CASE i = 1
    BY <2>1, <1>1
  <2>2. CASE i # 1
    <3>1. i - 1 \in 1..Len(Tail(s)) /\ Tail(s)[i - 1] = s[i]
      BY <2>2, <1>1, <1>2
    <3> QED
      BY <3>1, <1>2 DEF ToSet
  <2> QED BY <2>1, <2>2
<1> QED
  BY <1>1, <1>3 DEF ToSet

LEMMA RemoveAtRange ==
    ASSUME NEW S, NEW s \in Seq(S), NEW i \in DOMAIN s
    PROVE  /\ RemoveAt(s, i) \in Seq(S)
           /\ ToSet(s) \ {s[i]} \subseteq ToSet(RemoveAt(s, i))
<1> DEFINE n == Len(s)
           front == SubSeq(s, 1, i - 1)
           back  == SubSeq(s, i + 1, n)
<1>1. n \in Nat /\ DOMAIN s = 1..n /\ i \in 1..n
  BY LenProperties
<1>2. /\ front \in Seq(S) /\ Len(front) = i - 1
      /\ \A j \in 1..(i - 1) : front[j] = s[j]
  <2>1. \A j \in 1..(i - 1) : j \in 1..Len(s)
    BY <1>1
  <2> QED BY <2>1, <1>1, SubSeqProperties
<1>3. /\ back \in Seq(S) /\ Len(back) = n - i
      /\ \A j \in 1..(n - i) : back[j] = s[i + j]
  <2>1. \A j \in (i + 1)..n : j \in 1..Len(s)
    BY <1>1
  <2> QED BY <2>1, <1>1, SubSeqProperties
<1>4. /\ front \o back \in Seq(S)
      /\ DOMAIN (front \o back) = 1..(n - 1)
      /\ \A j \in 1..(i - 1) : (front \o back)[j] = s[j]
      /\ \A j \in i..(n - 1) : (front \o back)[j] = s[j + 1]
  <2>1. /\ front \o back \in Seq(S)
        /\ Len(front \o back) = Len(front) + Len(back)
        /\ \A j \in 1..(Len(front) + Len(back)) : (front \o back)[j] =
               IF j <= Len(front) THEN front[j] ELSE back[j - Len(front)]
    BY <1>2, <1>3, ConcatProperties
  <2>2. DOMAIN (front \o back) = 1..(n - 1)
    BY <2>1, <1>1, <1>2, <1>3, LenProperties
  <2>3. ASSUME NEW j \in i..(n - 1)
        PROVE  (front \o back)[j] = s[j + 1]
    <3>1. j \in 1..(Len(front) + Len(back)) /\ ~(j <= Len(front))
      BY <1>1, <1>2, <1>3
    <3>2. j - (i - 1) \in 1..(n - i) /\ i + (j - (i - 1)) = j + 1
      BY <1>1
    <3>3. (front \o back)[j] = back[j - Len(front)]
      BY <3>1, <2>1
    <3>4. back[j - (i - 1)] = s[i + (j - (i - 1))]
      BY <3>2, <1>3
    <3> QED BY <3>2, <3>3, <3>4, <1>2
  <2>4. ASSUME NEW j \in 1..(i - 1)
        PROVE  (front \o back)[j] = s[j]
    <3>1. j \in 1..(Len(front) + Len(back)) /\ j <= Len(front)
      BY <1>1, <1>2, <1>3
    <3> QED BY <3>1, <2>1, <1>2
  <2> QED BY <2>1, <2>2, <2>3, <2>4
<1>5. ASSUME NEW j \in 1..n, s[j] # s[i]
      PROVE  s[j] \in ToSet(front \o back)
  <2>1. CASE j < i
    <3>1. j \in 1..(i - 1) /\ j \in 1..(n - 1)
      BY <2>1, <1>1
    <3> QED BY <3>1, <1>4 DEF ToSet
  <2>2. CASE j > i
    <3>1. j - 1 \in i..(n - 1) /\ j - 1 \in 1..(n - 1) /\ (j - 1) + 1 = j
      BY <2>2, <1>1
    <3> QED BY <3>1, <1>4 DEF ToSet
  <2> QED BY <2>1, <2>2, <1>1, <1>5
<1> HIDE DEF front, back, n
<1>6. ToSet(s) \ {s[i]} \subseteq ToSet(front \o back)
  BY <1>1, <1>5 DEF ToSet
<1> QED BY <1>4, <1>6 DEF RemoveAt, front, back, n

-----------------------------------------------------------------------------
(* The steps *)

LEMMA InitInv == Init => IInv
<1> SUFFICES ASSUME Init PROVE IInv
  OBVIOUS
<1> USE DEF Init
<1>1. TypeOK
  <2>1. Quiet \in [at : {"idle", "skipped", "delivering", "delivered"},
                   todo : Seq(Ops), sent : BOOLEAN]
    BY EmptySeq DEF Quiet
  <2> QED BY <2>1, EmptySeq DEF TypeOK
<1>2. OneDeliverer
  BY DEF OneDeliverer, Quiet
<1>3. PlaceOfProcess /\ UntouchedBeforeSignal /\ Registered /\ WaitersAreCalled
  BY DEF PlaceOfProcess, UntouchedBeforeSignal, Registered, WaitersAreCalled,
         Body, Watched, LeaderAlive
<1>4. TornDown /\ KilledIsNotAResult /\ NothingOutlivesItsRun
  BY OpsAssumption DEF TornDown, KilledIsNotAResult, NothingOutlivesItsRun
<1> QED BY <1>1, <1>2, <1>3, <1>4 DEF IInv

LEMMA CancelStep ==
    ASSUME IInv, NEW c \in Cancellers, Cancel(c)
    PROVE  IInv'
<1> USE DEF Cancel, IInv, TypeOK, Quiet, groupVars, LeaderAlive
<1>1. TypeOK'
  <2>1. canceller'[c] \in [at : {"idle", "skipped", "delivering", "delivered"},
                          todo : Seq(Ops), sent : BOOLEAN]
    BY EmptySeq
  <2>2. \A d \in Cancellers \ {c} : canceller'[d] = canceller[d]
    OBVIOUS
  <2>3. canceller' \in [Cancellers ->
            [at : {"idle", "skipped", "delivering", "delivered"},
             todo : Seq(Ops), sent : BOOLEAN]]
    BY <2>1, <2>2
  <2> QED BY <2>3
<1>2. OneDeliverer'
  BY DEF OneDeliverer
<1>3. (PlaceOfProcess /\ UntouchedBeforeSignal /\ Registered)'
  BY DEF PlaceOfProcess, UntouchedBeforeSignal, Registered
<1>4. WaitersAreCalled'
  <2>1. CASE event
    <3>1. \A o \in Ops : ToBeCalled(o) => ToBeCalled(o)'
      BY <2>1 DEF ToBeCalled, OneDeliverer
    <3> QED BY <2>1, <3>1 DEF WaitersAreCalled
  <2>2. CASE ~event
    <3>1. canceller'[c].at = "delivering" /\ canceller'[c].todo = callbacks
      BY <2>2
    <3> QED BY <2>2, <3>1 DEF WaitersAreCalled, Registered, ToBeCalled
  <2> QED BY <2>1, <2>2
<1>5. (TornDown /\ KilledIsNotAResult /\ NothingOutlivesItsRun)'
  BY DEF TornDown, KilledIsNotAResult, NothingOutlivesItsRun
<1> QED BY <1>1, <1>2, <1>3, <1>4, <1>5

\* A signal to a process group touches the flags of no other operation, and
\* SIGKILL leaves no live leader.
LEMMA SigTermEffect ==
    ASSUME TypeOK, NEW o \in Ops, SigTerm(o)
    PROVE  /\ signalled' \in [Ops -> BOOLEAN]
           /\ \A p \in Ops \ {o} : signalled'[p] = signalled[p]
           /\ leader' = leader /\ children' = children
  BY DEF SigTerm, TypeOK, Worth, GroupAlive, LeaderAlive

LEMMA SigKillEffect ==
    ASSUME TypeOK, NEW o \in Ops, SigKill(o)
    PROVE  /\ leader' \in [Ops -> {"none", "alive", "exited", "killed"}]
           /\ children' \in [Ops -> BOOLEAN]
           /\ signalled' = signalled
           /\ \A p \in Ops \ {o} : leader'[p] = leader[p] /\ children'[p] = children[p]
           /\ leader[o] # "alive" => leader'[o] = leader[o]
           /\ leader[o] = "alive" => leader'[o] = "killed"
           /\ leader'[o] # "alive"
           /\ children'[o] => children[o]
           /\ o \in GroupOps => ~children'[o]
  BY DEF SigKill, TypeOK, Worth, GroupAlive, LeaderAlive

LEMMA DeliverStep ==
    ASSUME IInv, NEW c \in Cancellers, Deliver(c)
    PROVE  IInv'
<1> USE DEF IInv, TypeOK
<1>1. CASE DeliverTerm(c)
  <2> DEFINE h == Head(canceller[c].todo)
  <2>1. h \in Ops /\ event
    BY <1>1, TailRange DEF DeliverTerm, OneDeliverer
  <2>2. /\ signalled' \in [Ops -> BOOLEAN]
        /\ leader' = leader /\ children' = children
    BY <1>1, <2>1, SigTermEffect DEF DeliverTerm
  <2> HIDE DEF h
  <2>3. UNCHANGED <<event, callbacks, pc, verdict>>
    BY <1>1 DEF DeliverTerm
  <2>4. canceller' = [canceller EXCEPT ![c].sent = TRUE]
    BY <1>1 DEF DeliverTerm
  <2>5. TypeOK'
    BY <2>2, <2>3, <2>4
  <2>6. OneDeliverer'
    BY <1>1, <2>3, <2>4 DEF OneDeliverer, DeliverTerm
  <2>7. (PlaceOfProcess /\ UntouchedBeforeSignal /\ Registered)'
    BY <2>1, <2>2, <2>3 DEF PlaceOfProcess, UntouchedBeforeSignal, Registered, LeaderAlive
  <2>8. WaitersAreCalled'
    BY <2>1, <2>2, <2>3, <2>4 DEF WaitersAreCalled, ToBeCalled, LeaderAlive
  <2>9. (TornDown /\ KilledIsNotAResult /\ NothingOutlivesItsRun)'
    BY <2>2, <2>3 DEF TornDown, KilledIsNotAResult, NothingOutlivesItsRun, LeaderAlive
  <2> QED BY <2>5, <2>6, <2>7, <2>8, <2>9
<1>2. CASE DeliverKill(c)
  <2> DEFINE h == Head(canceller[c].todo)
  <2>1. /\ h \in Ops /\ event
        /\ Tail(canceller[c].todo) \in Seq(Ops)
        /\ ToSet(canceller[c].todo) \subseteq {h} \cup ToSet(Tail(canceller[c].todo))
    BY <1>2, TailRange DEF DeliverKill, OneDeliverer
  <2>2. SigKill(h)
    BY <1>2 DEF DeliverKill
  <2> HIDE DEF h
  <2>3. /\ leader' \in [Ops -> {"none", "alive", "exited", "killed"}]
        /\ children' \in [Ops -> BOOLEAN]
        /\ signalled' = signalled
        /\ \A p \in Ops \ {h} : leader'[p] = leader[p] /\ children'[p] = children[p]
        /\ leader[h] # "alive" => leader'[h] = leader[h]
        /\ leader[h] = "alive" => leader'[h] = "killed"
        /\ leader'[h] # "alive"
        /\ children'[h] => children[h]
    BY <2>1, <2>2, SigKillEffect
  <2>4. UNCHANGED <<event, callbacks, pc, verdict>>
    BY <1>2 DEF DeliverKill
  <2>5. /\ canceller' = [canceller EXCEPT ![c].sent = FALSE, ![c].todo = Tail(@)]
        /\ canceller[c].at = "delivering"
    BY <1>2 DEF DeliverKill
  <2>6. TypeOK'
    BY <2>1, <2>3, <2>4, <2>5
  <2>7. OneDeliverer'
    BY <2>4, <2>5 DEF OneDeliverer
  <2>8. \A o \in Ops : LeaderAlive(o)' => LeaderAlive(o) /\ o # h
    BY <2>3 DEF LeaderAlive
  <2>9. PlaceOfProcess'
    BY <2>3, <2>4, <2>8 DEF PlaceOfProcess
  <2>10. (UntouchedBeforeSignal /\ Registered)'
    BY <2>1, <2>4 DEF UntouchedBeforeSignal, Registered
  <2>11. \A o \in Ops \ {h} : ToBeCalled(o) => ToBeCalled(o)'
    <3> SUFFICES ASSUME NEW o \in Ops \ {h}, NEW d \in Cancellers,
                        canceller[d].at = "delivering", o \in ToSet(canceller[d].todo)
                 PROVE  canceller'[d].at = "delivering" /\ o \in ToSet(canceller'[d].todo)
      BY DEF ToBeCalled
    <3>1. CASE d = c
      BY <3>1, <2>1, <2>5
    <3>2. CASE d # c
      BY <3>2, <2>5
    <3> QED BY <3>1, <3>2
  <2>12. WaitersAreCalled'
    BY <2>4, <2>8, <2>11 DEF WaitersAreCalled
  <2>13. TornDown' /\ NothingOutlivesItsRun'
    BY <2>3, <2>4, <2>8, OpsAssumption DEF TornDown, NothingOutlivesItsRun
  <2>14. KilledIsNotAResult'
    BY <2>3, <2>4 DEF KilledIsNotAResult
  <2> QED BY <2>6, <2>7, <2>9, <2>10, <2>12, <2>13, <2>14
<1>3. CASE Delivered(c)
  <2>1. /\ UNCHANGED <<event, callbacks, pc, verdict, leader, children, signalled>>
        /\ canceller' = [canceller EXCEPT ![c].at = "delivered"]
        /\ canceller[c].at = "delivering" /\ canceller[c].todo = <<>>
    BY <1>3 DEF Delivered, groupVars
  <2>2. TypeOK'
    BY <2>1
  <2>3. OneDeliverer'
    BY <2>1 DEF OneDeliverer
  <2>4. (PlaceOfProcess /\ UntouchedBeforeSignal /\ Registered)'
    BY <2>1 DEF PlaceOfProcess, UntouchedBeforeSignal, Registered, LeaderAlive
  <2>5. WaitersAreCalled'
    <3>1. ToSet(canceller[c].todo) = {}
      BY <2>1 DEF ToSet
    <3>2. \A o \in Ops : ToBeCalled(o) => ToBeCalled(o)'
      BY <2>1, <3>1 DEF ToBeCalled
    <3> QED BY <2>1, <3>2 DEF WaitersAreCalled, LeaderAlive
  <2>6. (TornDown /\ KilledIsNotAResult /\ NothingOutlivesItsRun)'
    BY <2>1 DEF TornDown, KilledIsNotAResult, NothingOutlivesItsRun, LeaderAlive
  <2> QED BY <2>2, <2>3, <2>4, <2>5, <2>6
<1> QED BY <1>1, <1>2, <1>3 DEF Deliver

\* What the invariant says of one operation.
OperationInv(o) ==
    /\ pc[o] # "idle" => leader[o] # "none"
    /\ pc[o] \in Body => verdict[o] = "none"
    /\ pc[o] \in {"inlineTerm", "inlineKill"} => event
    /\ pc[o] = "captured" => ~LeaderAlive(o)
    /\ ~event /\ pc[o] \in Body => ~signalled[o] /\ leader[o] # "killed"
    /\ ~event /\ pc[o] \in Watched => o \in ToSet(callbacks)
    /\ event /\ pc[o] \in Watched /\ LeaderAlive(o) => ToBeCalled(o)
    /\ o \in GroupOps /\ pc[o] \in {"removing", "over"} =>
          ~LeaderAlive(o) /\ (verdict[o] # "result" => ~children[o])
    /\ verdict[o] = "result" => leader[o] = "exited"
    /\ pc[o] = "over" => ~LeaderAlive(o)

LEMMA InvIsLocal ==
    IInv <=> TypeOK /\ OneDeliverer /\ \A o \in Ops : OperationInv(o)
<1>1. IInv => \A o \in Ops : OperationInv(o)
  BY DEF IInv, PlaceOfProcess, UntouchedBeforeSignal, Registered, WaitersAreCalled,
         TornDown, KilledIsNotAResult, NothingOutlivesItsRun, OperationInv
<1>2. ASSUME \A o \in Ops : OperationInv(o)
      PROVE  /\ PlaceOfProcess /\ UntouchedBeforeSignal /\ Registered
             /\ WaitersAreCalled /\ KilledIsNotAResult
  BY <1>2 DEF PlaceOfProcess, UntouchedBeforeSignal, Registered, WaitersAreCalled,
              KilledIsNotAResult, OperationInv
<1>3. ASSUME \A o \in Ops : OperationInv(o)
      PROVE  TornDown /\ NothingOutlivesItsRun
  BY <1>3, OpsAssumption DEF TornDown, NothingOutlivesItsRun, OperationInv
<1> QED BY <1>1, <1>2, <1>3 DEF IInv

\* A step of one operation, or of its process, leaves the cancellers, the signal
\* and the other operations alone, and takes no other callback away.
LEMMA OwnStep ==
    ASSUME IInv, NEW o \in Ops, UNCHANGED <<event, canceller>>,
           TypeOK', OperationInv(o)',
           \A p \in Ops \ {o} :
              /\ pc'[p] = pc[p] /\ verdict'[p] = verdict[p] /\ leader'[p] = leader[p]
              /\ children'[p] = children[p] /\ signalled'[p] = signalled[p]
              /\ p \in ToSet(callbacks) => p \in ToSet(callbacks')
    PROVE  IInv'
<1>1. OneDeliverer'
  BY DEF IInv, OneDeliverer
<1>2. ASSUME NEW p \in Ops \ {o}
      PROVE  OperationInv(p)'
  <2>1. OperationInv(p)
    BY InvIsLocal
  <2>2. ToBeCalled(p)' <=> ToBeCalled(p)
    BY DEF ToBeCalled
  <2> QED BY <2>1, <2>2 DEF OperationInv, LeaderAlive
<1>3. \A p \in Ops : OperationInv(p)'
  BY <1>2
<1>4. (PlaceOfProcess /\ UntouchedBeforeSignal /\ Registered
         /\ WaitersAreCalled /\ KilledIsNotAResult)'
  BY <1>3 DEF PlaceOfProcess, UntouchedBeforeSignal, Registered, WaitersAreCalled,
              KilledIsNotAResult, OperationInv
<1>5. (TornDown /\ NothingOutlivesItsRun)'
  BY <1>3, OpsAssumption DEF TornDown, NothingOutlivesItsRun, OperationInv
<1> QED
  BY <1>1, <1>4, <1>5 DEF IInv

\* The process of an operation: it starts, and it ends by itself.
LEMMA EnvironmentStep ==
    ASSUME IInv, NEW o \in Ops, Environment(o)
    PROVE  IInv'
<1> USE DEF groupVars
<1>1. TypeOK /\ OperationInv(o) /\ (ToBeCalled(o)' <=> ToBeCalled(o))
  <2>1. canceller' = canceller
    BY DEF Environment, Spawn, LeaderEnds, ChildrenEnd, TimesOut, Interrupted, EndBody
  <2> QED BY <2>1, InvIsLocal DEF ToBeCalled
<1> USE <1>1 DEF TypeOK, OperationInv, LeaderAlive, Body, Watched
<1>2. CASE Spawn(o)
  <2>1. TypeOK' /\ OperationInv(o)'
    BY <1>2 DEF Spawn
  <2> QED BY <2>1, <1>2, OwnStep DEF Spawn
<1>3. CASE LeaderEnds(o)
  <2>1. TypeOK' /\ OperationInv(o)'
    BY <1>3 DEF LeaderEnds
  <2> QED BY <2>1, <1>3, OwnStep DEF LeaderEnds
<1>4. CASE ChildrenEnd(o)
  <2>1. TypeOK' /\ OperationInv(o)'
    BY <1>4 DEF ChildrenEnd
  <2> QED BY <2>1, <1>4, OwnStep DEF ChildrenEnd
<1>5. CASE TimesOut(o) \/ Interrupted(o)
  <2>1. TypeOK' /\ OperationInv(o)'
    BY <1>5 DEF TimesOut, Interrupted, EndBody
  <2> QED BY <2>1, <1>5, OwnStep DEF TimesOut, Interrupted, EndBody
<1> QED BY <1>2, <1>3, <1>4, <1>5 DEF Environment

\* The thread of an operation.
LEMMA RunStep ==
    ASSUME IInv, NEW o \in Ops, Run(o)
    PROVE  IInv'
<1> USE DEF groupVars
<1>1. TypeOK /\ OperationInv(o) /\ (ToBeCalled(o)' <=> ToBeCalled(o))
  <2>1. canceller' = canceller
    BY DEF Run, AddCallback, InlineCallback, Poll, CommunicateReturns, Recheck, TearDown,
           RemoveCallback, Terminate, EndBody
  <2> QED BY <2>1, InvIsLocal DEF ToBeCalled
<1> USE <1>1 DEF TypeOK, OperationInv, LeaderAlive, Body, Watched
<1>2. CASE AddCallback(o)
  <2>1. CASE event
    <3>1. TypeOK' /\ OperationInv(o)'
      BY <1>2, <2>1 DEF AddCallback
    <3> QED BY <2>1, <3>1, <1>2, OwnStep DEF AddCallback
  <2>2. CASE ~event
    <3>1. callbacks' = Append(callbacks, o) /\ callbacks' \in Seq(Ops)
      <4>1. callbacks' = Append(callbacks, o)
        BY <1>2, <2>2 DEF AddCallback
      <4>2. callbacks \in Seq(Ops)
        OBVIOUS
      <4> QED BY <4>1, <4>2, AppendProperties
    <3>2. ToSet(callbacks) \cup {o} \subseteq ToSet(callbacks')
      BY <3>1, AppendRange
    <3>3. /\ pc' = [pc EXCEPT ![o] = "entered"] /\ pc[o] = "spawned"
          /\ UNCHANGED <<event, canceller, verdict, leader, children, signalled>>
      BY <1>2, <2>2 DEF AddCallback
    <3>4. TypeOK' /\ OperationInv(o)'
      BY <2>2, <3>1, <3>2, <3>3
    <3> QED BY <3>2, <3>3, <3>4, OwnStep
  <2> QED BY <2>1, <2>2
<1>3. CASE InlineCallback(o) \/ TearDown(o)
  <2>1. CASE SigTerm(o) /\ \/ pc[o] = "inlineTerm" /\ pc' = [pc EXCEPT ![o] = "inlineKill"]
                           \/ pc[o] = "term" /\ pc' = [pc EXCEPT ![o] = "kill"]
    <3>1. /\ signalled' \in [Ops -> BOOLEAN]
          /\ \A p \in Ops \ {o} : signalled'[p] = signalled[p]
          /\ leader' = leader /\ children' = children
      BY <2>1, SigTermEffect
    <3>2. UNCHANGED <<event, callbacks, canceller, verdict>>
      BY <1>3 DEF InlineCallback, TearDown, Terminate
    <3>3. TypeOK' /\ OperationInv(o)'
      BY <2>1, <3>1, <3>2
    <3> QED BY <2>1, <3>1, <3>2, <3>3, OwnStep
  <2>2. CASE SigKill(o) /\
             \/ pc[o] = "inlineKill" /\ pc' = [pc EXCEPT ![o] = "entered"]
             \/ pc[o] = "kill" /\ pc' = [pc EXCEPT ![o] =
                                            IF o \in GroupOps THEN "removing" ELSE "over"]
    <3>1. /\ leader' \in [Ops -> {"none", "alive", "exited", "killed"}]
          /\ children' \in [Ops -> BOOLEAN]
          /\ signalled' = signalled
          /\ \A p \in Ops \ {o} : leader'[p] = leader[p] /\ children'[p] = children[p]
          /\ leader[o] # "alive" => leader'[o] = leader[o]
          /\ leader[o] = "alive" => leader'[o] = "killed"
          /\ leader'[o] # "alive"
          /\ o \in GroupOps => ~children'[o]
      BY <2>2, SigKillEffect
    <3>2. UNCHANGED <<event, callbacks, canceller, verdict>>
      BY <1>3 DEF InlineCallback, TearDown, Terminate
    <3>3. TypeOK' /\ OperationInv(o)'
      BY <2>2, <3>1, <3>2
    <3> QED BY <2>2, <3>1, <3>2, <3>3, OwnStep
  <2> QED BY <1>3, <2>1, <2>2 DEF InlineCallback, TearDown, Terminate
<1>4. CASE Poll(o)
  <2>1. TypeOK' /\ OperationInv(o)'
    BY <1>4 DEF Poll, EndBody
  <2> QED BY <2>1, <1>4, OwnStep DEF Poll, EndBody
<1>5. CASE CommunicateReturns(o)
  <2>1. TypeOK' /\ OperationInv(o)'
    BY <1>5 DEF CommunicateReturns
  <2> QED BY <2>1, <1>5, OwnStep DEF CommunicateReturns
<1>6. CASE Recheck(o)
  <2>1. TypeOK' /\ OperationInv(o)'
    BY <1>6 DEF Recheck, EndBody
  <2> QED BY <2>1, <1>6, OwnStep DEF Recheck, EndBody
<1>7. CASE RemoveCallback(o)
  <2>1. /\ callbacks' \in Seq(Ops)
        /\ ToSet(callbacks) \ {o} \subseteq ToSet(callbacks')
    BY <1>7, RemoveAtRange DEF RemoveCallback
  <2>2. /\ pc[o] = "removing"
        /\ pc' = [pc EXCEPT ![o] =
                     IF o \notin GroupOps /\ LeaderAlive(o) THEN "term" ELSE "over"]
        /\ UNCHANGED <<event, canceller, verdict, leader, children, signalled>>
    BY <1>7 DEF RemoveCallback
  <2>3. TypeOK' /\ OperationInv(o)'
    BY <2>1, <2>2
  <2> QED BY <2>1, <2>2, <2>3, OwnStep
<1> QED BY <1>2, <1>3, <1>4, <1>5, <1>6, <1>7 DEF Run

LEMMA StepInv == IInv /\ [Next]_vars => IInv'
<1> SUFFICES ASSUME IInv, [Next]_vars PROVE IInv'
  OBVIOUS
<1>1. CASE Next
  BY <1>1, RunStep, EnvironmentStep, CancelStep, DeliverStep DEF Next
<1>2. CASE UNCHANGED vars
  BY <1>2 DEF vars, IInv, TypeOK, OneDeliverer, PlaceOfProcess, UntouchedBeforeSignal,
              Registered, WaitersAreCalled, ToBeCalled, TornDown, KilledIsNotAResult,
              NothingOutlivesItsRun, LeaderAlive
<1> QED BY <1>1, <1>2

LEMMA Invariance == Spec => []IInv
  BY InitInv, StepInv, PTL DEF Spec

-----------------------------------------------------------------------------
(* Theorems *)

\* Every variable keeps its type.
THEOREM TypeCorrect == Spec => []TypeOK
<1>1. IInv => TypeOK
  BY DEF IInv
<1> QED BY <1>1, Invariance, PTL

\* A process that a cancellation killed is never reported as a result: run()
\* reads the signal again after its wait (subscription_process.py).
THEOREM KilledIsNeverAResult == Spec => []KilledIsNotAResult
<1>1. IInv => KilledIsNotAResult
  BY DEF IInv
<1> QED BY <1>1, Invariance, PTL

\* No registration is missed: when cancel() has delivered its callbacks nobody
\* waits for a live process, however many threads register and cancel beside it.
THEOREM NoRegistrationIsMissed == Spec => []NobodyWaitsForTheLiving
<1>1. IInv => NobodyWaitsForTheLiving
  <2> SUFFICES ASSUME IInv, NEW c \in Cancellers, canceller[c].at = "delivered",
                      NEW o \in Ops, pc[o] \in Watched, LeaderAlive(o)
               PROVE  FALSE
    BY DEF NobodyWaitsForTheLiving, Watched
  <2>1. event
    BY DEF IInv, OneDeliverer
  <2>2. PICK d \in Cancellers : canceller[d].at = "delivering"
    BY <2>1 DEF IInv, WaitersAreCalled, ToBeCalled
  <2> QED BY <2>2 DEF IInv, OneDeliverer
<1> QED BY <1>1, Invariance, PTL

\* Whoever tears a group down, and in whatever order with the callback of a
\* canceller, an operation that is over leaves no leader, and a cancelled one of
\* a provider or of llm-wiki no descendant.
THEOREM NothingIsLeftBehind == Spec => []NothingOutlivesItsRun
<1>1. IInv => NothingOutlivesItsRun
  BY DEF IInv
<1> QED BY <1>1, Invariance, PTL
=============================================================================
