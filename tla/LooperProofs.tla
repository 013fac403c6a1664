---------------------------- MODULE LooperProofs ----------------------------
(***************************************************************************)
(* Proofs about Looper: its types, that libevent calls back living events  *)
(* only, and that it implements StoppableLoop.                             *)
(***************************************************************************)
EXTENDS Looper, SequenceLemmas, FiniteSetTheorems

(* What libevent may call back, or calls, has its ev_. *)
Alive == \A e \in Event : e \in pending \/ e = cur => obj[e] = "made"

(* An event waits in the queue once, and only while it is added; a loop that
   took the exit and looks for it has emptied the queue; callbacks run in a
   round. *)
Queued ==
  /\ OnceIn(active, Event)
  /\ Elements(active) \subseteq pending \cup {Exit}
  /\ loop = "check" /\ gotterm => active = <<>>
  /\ cur # None => loop = "round"

IInv == TypeOK /\ Alive /\ Queued

(* The two marks are no events. *)
LEMMA Separate == Exit \notin Event /\ None \notin Event
  BY LooperAssumption DEF Exit, None

-----------------------------------------------------------------------------
(* What the operations make of the queue. *)

(* libevent unlinks an event, and nothing else. *)
LEMMA WithoutProperties ==
  ASSUME NEW e \in Event, active \in Seq(Event \cup {Exit}), OnceIn(active, Event)
  PROVE  /\ Without(e) \in Seq(Event \cup {Exit})
         /\ OnceIn(Without(e), Event)
         /\ Elements(Without(e)) = Elements(active) \ {e}
<1>1. CASE e \in ToSet(active)
  <2> DEFINE j == At(e)
  <2>1. j \in DOMAIN active /\ active[j] = e
    BY <1>1 DEF At, ToSet
  <2> HIDE DEF j
  <2>2. j \in 1..Len(active)
    BY <2>1, LenProperties
  <2>3. Without(e) = SubSeq(active, 1, j - 1) \o SubSeq(active, j + 1, Len(active))
    BY <1>1 DEF Without, RemoveAt, j
  <2>4. /\ Without(e) \in Seq(Event \cup {Exit}) /\ OnceIn(Without(e), Event)
        /\ Elements(active) = Elements(Without(e)) \cup {active[j]}
        /\ active[j] \in Event => active[j] \notin Elements(Without(e))
    BY <2>2, <2>3, Unlinked
  <2> QED BY <2>1, <2>4
<1>2. CASE e \notin ToSet(active)
  BY <1>2 DEF Without, ToSet, Elements
<1> QED BY <1>1, <1>2

(* The events that become ready join the queue in some order. *)
LEMMA ReadyJoin ==
  ASSUME NEW S, S \subseteq Event \ Elements(active), NEW ready \in SetToSeqs(S),
         active \in Seq(Event \cup {Exit}), OnceIn(active, Event)
  PROVE  /\ active \o ready \in Seq(Event \cup {Exit})
         /\ OnceIn(active \o ready, Event)
         /\ Elements(active) \subseteq Elements(active \o ready)
         /\ Elements(active \o ready) \subseteq Elements(active) \cup S
<1> DEFINE n == Cardinality(S)
<1>1. ready \in [1..n -> S] /\ \A i, j \in 1..n : i # j => ready[i] # ready[j]
  BY DEF SetToSeqs
<1>2. n \in Nat
  BY LooperAssumption, FS_Subset, FS_CardinalityType DEF n
<1> HIDE DEF n
<1>3. ready \in Seq(S)
  BY <1>1, <1>2
<1>4. ready \in Seq(Event \cup {Exit}) /\ DOMAIN ready = 1..n
  BY <1>1, <1>3
<1>5. OnceIn(ready, Event) /\ Elements(ready) \subseteq S
  BY <1>1, <1>4 DEF OnceIn, Elements
<1>6. Elements(active) \cap Elements(ready) \cap Event = {}
  BY <1>5
<1>7. /\ active \o ready \in Seq(Event \cup {Exit}) /\ OnceIn(active \o ready, Event)
      /\ Elements(active \o ready) = Elements(active) \cup Elements(ready)
  BY <1>4, <1>5, <1>6, Joined
<1> QED BY <1>5, <1>7
-----------------------------------------------------------------------------
(* The invariant is inductive. *)

(* What an operation answers. *)
LEMMA Answered ==
  ASSUME NEW op, NEW ok, Answers(op, ok)
  PROVE  answer'.op = op /\ answer'.ok = ok
  BY DEF Answers

(* The invariant holds at first. *)
LEMMA InitInv == Init => IInv
<1> SUFFICES ASSUME Init PROVE IInv
  OBVIOUS
<1>1. answer.op = "none" /\ answer.ok = FALSE
  BY DEF Init
<1>2. OnceIn(active, Event) /\ Elements(active) = {} /\ active \in Seq(Event \cup {Exit})
  BY DEF Init, OnceIn, Elements
<1> QED BY <1>1, <1>2, Separate DEF Init, IInv, TypeOK, Alive, Queued, None

(* What the operations of the thread on loopers and events do to it. *)
LEMMA OperationKeeps == IInv /\ Operation => IInv'
<1> SUFFICES ASSUME IInv, Operation PROVE IInv'
  OBVIOUS
<1> USE DEF IInv, TypeOK, Alive, Queued, libevent
<1>1. crashed' \in BOOLEAN
  BY DEF Operation
<1>2. CASE NewLooper
  BY <1>1, <1>2, Separate DEF NewLooper
<1>3. CASE DestroyLooper
  <2>1. pending = {}
    BY <1>3 DEF DestroyLooper
  <2>2. OnceIn(<<>>, Event) /\ Elements(<<>>) = {} /\ <<>> \in Seq(Event \cup {Exit})
    BY DEF OnceIn, Elements
  <2> QED BY <1>1, <1>3, <2>1, <2>2 DEF DestroyLooper
<1>4. CASE StartLoop
  BY <1>1, <1>4, Separate, Answered DEF StartLoop, MayAct
<1>5. CASE StopLoop
  <2>1. CASE active' = Append(active, Exit)
    <3>1. /\ active' \in Seq(Event \cup {Exit}) /\ OnceIn(active', Event)
          /\ Elements(active') = Elements(active) \cup {Exit}
      BY <2>1, Separate, Appended
    <3> QED BY <1>1, <1>5, <2>1, <3>1, Answered DEF StopLoop, MayAct
  <2>2. CASE active' = active
    BY <1>1, <1>5, <2>2, Answered DEF StopLoop
  <2> QED BY <1>5, <2>1, <2>2 DEF StopLoop
<1>6. ASSUME NEW e \in Event, make_CallableEvent(e) PROVE IInv'
  BY <1>1, <1>6 DEF make_CallableEvent
<1>7. ASSUME NEW e \in Event, DropEvent(e) PROVE IInv'
  <2>1. /\ active' \in Seq(Event \cup {Exit}) /\ OnceIn(active', Event)
        /\ Elements(active') = Elements(active) \ {e}
    BY <1>7, WithoutProperties DEF DropEvent
  <2> QED BY <1>1, <1>7, <2>1 DEF DropEvent, MayAct
<1>8. ASSUME NEW e \in Event, Enable(e) PROVE IInv'
  BY <1>1, <1>8, Answered DEF Enable
<1>9. ASSUME NEW e \in Event, Disable(e) PROVE IInv'
  <2>1. /\ active' \in Seq(Event \cup {Exit}) /\ OnceIn(active', Event)
        /\ Elements(active') = Elements(active) \ {e}
    BY <1>9, WithoutProperties DEF Disable
  <2> QED BY <1>1, <1>9, <2>1, Answered DEF Disable, MayAct
<1> QED BY <1>2, <1>3, <1>4, <1>5, <1>6, <1>7, <1>8, <1>9 DEF Operation

(* What the loop of libevent does to it. *)
LEMMA StepKeeps == IInv /\ Step => IInv'
<1> SUFFICES ASSUME IInv, Step PROVE IInv'
  OBVIOUS
<1> USE DEF IInv, TypeOK, Alive, Queued, libevent
<1>1. crashed' \in BOOLEAN
  BY DEF Step
<1>2. CASE Poll
  <2>1. PICK S \in SUBSET (pending \ ToSet(active)) :
          \E ready \in SetToSeqs(S) : active' = active \o ready
    BY <1>2 DEF Poll
  <2>2. S \subseteq Event \ Elements(active) /\ S \subseteq pending
    BY <2>1 DEF ToSet, Elements
  <2>3. /\ active' \in Seq(Event \cup {Exit}) /\ OnceIn(active', Event)
        /\ Elements(active') \subseteq Elements(active) \cup S
    BY <2>1, <2>2, ReadyJoin
  <2> QED BY <1>1, <1>2, <2>2, <2>3 DEF Poll
<1>3. CASE TakeExit
  <2>1. /\ active' \in Seq(Event \cup {Exit}) /\ OnceIn(active', Event)
        /\ Elements(active') \subseteq Elements(active)
    BY <1>3, FirstTaken DEF TakeExit
  <2> QED BY <1>1, <1>3, <2>1 DEF TakeExit
<1>4. CASE LibeventCallback
  <2> DEFINE e == Head(active)
  <2>1. /\ active' \in Seq(Event \cup {Exit}) /\ OnceIn(active', Event)
        /\ e \in Event \cup {Exit} /\ Elements(active) = Elements(active') \cup {e}
        /\ e \in Event => e \notin Elements(active')
    BY <1>4, FirstTaken DEF LibeventCallback
  <2>2. e \in Event /\ e \in pending
    BY <1>4, <2>1 DEF LibeventCallback
  <2> QED BY <1>1, <1>4, <2>1, <2>2, Separate DEF LibeventCallback
<1>5. CASE CallbackReturns
  BY <1>1, <1>5, Separate DEF CallbackReturns
<1>6. CASE RoundEnds
  BY <1>1, <1>6 DEF RoundEnds
<1>7. CASE DispatchReturns
  BY <1>1, <1>7, Separate, Answered DEF DispatchReturns, Succeeded
<1> QED BY <1>2, <1>3, <1>4, <1>5, <1>6, <1>7 DEF Step

(* A step that leaves the looper and libevent alone keeps it. *)
LEMMA Stutters == IInv /\ UNCHANGED looper => (crashed' \in BOOLEAN => IInv')
  BY DEF looper, libevent, IInv, TypeOK, Alive, Queued

(* In every state the invariant holds. *)
LEMMA Invariance == Spec => []IInv
<1>1. IInv /\ [Next]_vars => IInv'
  <2> SUFFICES ASSUME IInv, [Next]_vars PROVE IInv'
    OBVIOUS
  <2>1. CASE Step
    BY <2>1, StepKeeps
  <2>2. CASE Operation
    BY <2>2, OperationKeeps
  <2>3. ASSUME NEW e \in Event, UseNull(e) PROVE IInv'
    BY <2>3, Stutters DEF UseNull
  <2>4. CASE UNCHANGED vars
    BY <2>4, Stutters DEF vars, IInv, TypeOK
  <2> QED BY <2>1, <2>2, <2>3, <2>4 DEF Next
<1> QED BY <1>1, InitInv, PTL DEF Spec

(***************************************************************************)
(* Every variable has its type, and an event is made on a live base only   *)
(* (looper.hpp, line 192).                                                 *)
(***************************************************************************)
THEOREM TypeCorrect == Spec => []TypeOK
<1>1. IInv => TypeOK
  BY DEF IInv
<1> QED BY <1>1, Invariance, PTL

(***************************************************************************)
(* libevent holds the raw this of an event (looper.hpp, lines 28-29), and  *)
(* what it may call back, or calls, is alive, and so is its base.          *)
(***************************************************************************)
THEOREM NeverDangling == Spec => []NoDangling
<1>1. IInv => NoDangling
  <2> SUFFICES ASSUME IInv,
                      NEW e \in pending \cup (ToSet(active) \ {Exit}) \cup ({cur} \ {None})
               PROVE  obj[e] = "made" /\ base = "live"
    BY DEF NoDangling
  <2>1. e \in Event /\ (e \in pending \/ e = cur)
    BY DEF IInv, TypeOK, Queued, ToSet, Elements
  <2> QED BY <2>1 DEF IInv, TypeOK, Alive
<1> QED BY <1>1, Invariance, PTL
-----------------------------------------------------------------------------
(* The looper is a loop that can be stopped. *)

(* What StoppableLoop sees of an operation that leaves its variables alone. *)
Unseen == UNCHANGED <<loop # "out", Requested, pending, cur, answer>>

(* What StoppableLoop does not see is a stuttering step of it. *)
LEMMA UnseenStutters == Unseen => UNCHANGED Abstract!loopVars
  BY DEF Unseen, Abstract!loopVars

(* Whether the loop was asked to stop is seen in the queue and gotterm. *)
LEMMA RequestedIs == Requested <=> Exit \in Elements(active) \/ (gotterm /\ loop # "out")
  BY DEF Requested, ToSet, Elements

(* What is requested after a step. *)
LEMMA RequestedNext ==
  Requested' <=> Exit \in Elements(active') \/ (gotterm' /\ loop' # "out")
  BY DEF Requested, ToSet, Elements

AbstractStep == Abstract!Next \/ UNCHANGED Abstract!loopVars

(* Every operation of the looper is a step of StoppableLoop or is not seen by
   it, ... *)
LEMMA OperationRefines == IInv /\ Operation => AbstractStep
<1> SUFFICES ASSUME IInv, Operation PROVE AbstractStep
  OBVIOUS
<1> USE RequestedIs, RequestedNext DEF libevent, MayAct, Abstract!MayAct
<1>1. CASE NewLooper
  <2>1. Unseen
    BY <1>1 DEF NewLooper, Unseen
  <2> QED BY <2>1, UnseenStutters DEF AbstractStep
<1>2. CASE DestroyLooper
  <2>1. pending = {}
    BY <1>2 DEF DestroyLooper, IInv, TypeOK, Alive
  <2>2. Elements(<<>>) = {}
    BY DEF Elements
  <2>3. Abstract!Destroy
    BY <1>2, <2>1, <2>2 DEF DestroyLooper, Abstract!Destroy
  <2> QED BY <2>3 DEF Abstract!Next, AbstractStep
<1>3. CASE StartLoop
  <2>1. CASE base = "live" /\ loop = "out"
    <3>1. Abstract!Start
      BY <1>3, <2>1 DEF StartLoop, Abstract!Start
    <3> QED BY <3>1 DEF Abstract!Next, AbstractStep
  <2>2. CASE ~(base = "live" /\ loop = "out")
    <3>1. Abstract!Refuse("start")
      BY <1>3, <2>2 DEF StartLoop, Answers, Abstract!Refuse, Abstract!Answers
    <3> QED BY <3>1 DEF Abstract!Next, AbstractStep
  <2> QED BY <2>1, <2>2
<1>4. CASE StopLoop
  <2>1. CASE active' = Append(active, Exit) /\ Answers("stop", TRUE)
    <3>1. Exit \in Elements(active')
      BY <2>1, Appended, Separate DEF IInv, TypeOK, Queued
    <3>2. Abstract!Stop
      BY <1>4, <2>1, <3>1 DEF StopLoop, Answers, Abstract!Stop, Abstract!Answers
    <3> QED BY <3>2 DEF Abstract!Next, AbstractStep
  <2>2. CASE Answers("stop", FALSE) /\ UNCHANGED active
    <3>1. Abstract!Refuse("stop")
      BY <1>4, <2>2 DEF StopLoop, Answers, Abstract!Refuse, Abstract!Answers
    <3> QED BY <3>1 DEF Abstract!Next, AbstractStep
  <2> QED BY <1>4, <2>1, <2>2 DEF StopLoop
<1>5. ASSUME NEW e \in Event, make_CallableEvent(e) PROVE AbstractStep
  <2>1. Unseen
    BY <1>5 DEF make_CallableEvent, Unseen
  <2> QED BY <2>1, UnseenStutters DEF AbstractStep
<1>6. ASSUME NEW e \in Event, DropEvent(e) PROVE AbstractStep
  <2>1. Elements(active') = Elements(active) \ {e}
    BY <1>6, WithoutProperties DEF DropEvent, IInv, TypeOK, Queued
  <2>2. Abstract!Drop(e)
    BY <1>6, <2>1, Separate DEF DropEvent, Abstract!Drop
  <2> QED BY <2>2 DEF Abstract!Next, AbstractStep
<1>7. ASSUME NEW e \in Event, Enable(e) PROVE AbstractStep
  <2>1. CASE Answers("enable", TRUE)
    <3>1. Abstract!Enable(e)
      BY <1>7, <2>1 DEF Enable, Answers, Abstract!Enable, Abstract!Answers
    <3> QED BY <3>1 DEF Abstract!Next, AbstractStep
  <2>2. CASE Answers("enable", FALSE)
    <3>1. Abstract!Refuse("enable")
      BY <1>7, <2>2 DEF Enable, Answers, Abstract!Refuse, Abstract!Answers
    <3> QED BY <3>1 DEF Abstract!Next, AbstractStep
  <2> QED BY <1>7, <2>1, <2>2 DEF Enable
<1>8. ASSUME NEW e \in Event, Disable(e) PROVE AbstractStep
  <2>1. Elements(active') = Elements(active) \ {e}
    BY <1>8, WithoutProperties DEF Disable, IInv, TypeOK, Queued
  <2>2. Abstract!Disable(e)
    BY <1>8, <2>1, Separate DEF Disable, Answers, Abstract!Disable, Abstract!Answers
  <2> QED BY <2>2 DEF Abstract!Next, AbstractStep
<1> QED BY <1>1, <1>2, <1>3, <1>4, <1>5, <1>6, <1>7, <1>8 DEF Operation

(* ... and so is every step of the loop. *)
LEMMA StepRefines == IInv /\ Step => AbstractStep
<1> SUFFICES ASSUME IInv, Step PROVE AbstractStep
  OBVIOUS
<1> USE RequestedIs, RequestedNext DEF libevent
<1>1. CASE Poll
  <2>1. PICK S \in SUBSET (pending \ ToSet(active)) :
          \E ready \in SetToSeqs(S) : active' = active \o ready
    BY <1>1 DEF Poll
  <2>2. S \subseteq Event \ Elements(active)
    BY <2>1 DEF ToSet, Elements, IInv, TypeOK
  <2>3. Exit \in Elements(active') <=> Exit \in Elements(active)
    BY <2>1, <2>2, ReadyJoin, Separate DEF IInv, TypeOK, Queued
  <2>4. Unseen
    BY <1>1, <2>3 DEF Poll, Unseen
  <2> QED BY <2>4, UnseenStutters DEF AbstractStep
<1>2. CASE TakeExit
  <2>1. Exit \in Elements(active)
    BY <1>2, FirstTaken DEF TakeExit, IInv, TypeOK, Queued
  <2>2. Unseen
    BY <1>2, <2>1 DEF TakeExit, Unseen
  <2> QED BY <2>2, UnseenStutters DEF AbstractStep
<1>3. CASE LibeventCallback
  <2> DEFINE e == Head(active)
  <2>1. Elements(active) = Elements(active') \cup {e} /\ e # Exit /\ e \in Event \cup {Exit}
    BY <1>3, FirstTaken DEF LibeventCallback, IInv, TypeOK, Queued
  <2>2. e \in Event /\ e \in pending
    BY <2>1 DEF IInv, Queued
  <2>3. Abstract!CallBack(e)
    BY <1>3, <2>1, <2>2 DEF LibeventCallback, Abstract!CallBack
  <2> QED BY <2>2, <2>3 DEF Abstract!Next, AbstractStep
<1>4. CASE CallbackReturns
  <2>1. Abstract!CallbackReturns
    BY <1>4 DEF CallbackReturns, Abstract!CallbackReturns
  <2> QED BY <2>1 DEF Abstract!Next, AbstractStep
<1>5. CASE RoundEnds
  <2>1. Unseen
    BY <1>5 DEF RoundEnds, Unseen
  <2> QED BY <2>1, UnseenStutters DEF AbstractStep
<1>6. CASE DispatchReturns
  <2>1. cur = None
    BY <1>6 DEF DispatchReturns, IInv, Queued
  <2>2. Elements(<<>>) = {}
    BY DEF Elements
  <2>3. CASE gotterm
    <3>1. active = <<>> /\ Answers("start", TRUE)
      BY <1>6, <2>3 DEF DispatchReturns, Succeeded, IInv, Queued
    <3>2. Abstract!Stopped
      BY <1>6, <2>1, <2>2, <2>3, <3>1
      DEF DispatchReturns, Answers, Abstract!Stopped, Abstract!Answers
    <3> QED BY <3>2 DEF Abstract!Next, AbstractStep
  <2>4. CASE ~gotterm
    <3>1. active = <<>> /\ pending = {} /\ Answers("start", FALSE)
      BY <1>6, <2>4 DEF DispatchReturns, Succeeded
    <3>2. Abstract!RunsDry
      BY <1>6, <2>1, <2>2, <2>4, <3>1
      DEF DispatchReturns, Answers, Abstract!RunsDry, Abstract!Answers
    <3> QED BY <3>2 DEF Abstract!Next, AbstractStep
  <2> QED BY <2>3, <2>4
<1> QED BY <1>1, <1>2, <1>3, <1>4, <1>5, <1>6 DEF Step

(***************************************************************************)
(* Whatever events and operations there are, TRUE from StartLoop means     *)
(* that the loop was asked to stop, FALSE that no event is left or that it *)
(* runs already, and no request to stop is lost (looper.hpp, 163-187).     *)
(***************************************************************************)
THEOREM LooperImplementsLoop == Spec => ImplementsLoop
<1>1. Init => Abstract!Init
  BY DEF Init, Abstract!Init, Requested, ToSet
<1>2. IInv /\ [Next]_vars => [Abstract!Next]_(Abstract!loopVars)
  <2> SUFFICES ASSUME IInv, [Next]_vars PROVE AbstractStep
    BY DEF AbstractStep
  <2>1. CASE Step
    BY <2>1, StepRefines
  <2>2. CASE Operation
    BY <2>2, OperationRefines
  <2>3. CASE UNCHANGED looper
    BY <2>3, UnseenStutters DEF looper, libevent, Unseen, Requested, AbstractStep
  <2> QED BY <2>1, <2>2, <2>3 DEF Next, UseNull, vars
<1> QED BY <1>1, <1>2, Invariance, PTL DEF Spec, ImplementsLoop, Abstract!Spec
=============================================================================
