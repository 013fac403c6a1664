------------------------------- MODULE Looper -------------------------------
(***************************************************************************)
(* The Looper and the CallableEvents of include/looper.hpp, over libevent. *)
(* All of it runs in one thread: the thread acts outside the loop and in   *)
(* the callbacks.  What libevent does between two callbacks is external:   *)
(* a round moves the events whose descriptor is ready to a queue and calls *)
(* them back in turn; a request to exit travels in the same queue.         *)
(***************************************************************************)
EXTENDS Integers, SequencesExt

CONSTANTS
  Event,      (* the events, by the objects that own them                  *)
  Persistent, (* those made with EV_PERSIST                                *)
  MaxExits    (* bound of the model: how many exits wait in the queue      *)

ASSUME LooperAssumption ==
  /\ IsFiniteSet(Event) /\ Persistent \subseteq Event
  /\ {"none", "exit"} \cap Event = {}
  /\ MaxExits \in Nat

None == "none"
Exit == "exit"   \* the one-shot event of event_base_loopexit

VARIABLES
  base,    (* ev_base_ of the looper: "none" if there is no looper, "null" *)
  obj,     (* the ev_ of every event: "none" if it has no owner, "null"    *)
  pending, (* the events added to the base                                 *)
  active,  (* the queue of what the round calls                            *)
  gotterm, (* the exit was taken from the queue                            *)
  loop,    (* where the loop is                                            *)
  cur,     (* the event whose callback runs, or None                       *)
  crashed, (* the process used a null pointer                              *)
  answer   (* of the last operation that ended: its name and result        *)

libevent == <<pending, active, gotterm>>
looper == <<base, obj, libevent, loop, cur, answer>>
vars == <<looper, crashed>>

Init ==
  /\ base = "none"
  /\ obj = [e \in Event |-> "none"]
  /\ pending = {}
  /\ active = <<>>
  /\ gotterm = FALSE
  /\ loop = "out"
  /\ cur = None
  /\ crashed = FALSE
  /\ answer = [op |-> "none", ok |-> FALSE]

MayAct == loop = "out" \/ cur # None

Answers(op, ok) == answer' = [op |-> op, ok |-> ok]

(* libevent unlinks the one entry of an event that waits in the queue. *)
At(e) == CHOOSE i \in DOMAIN active : active[i] = e
Without(e) == IF e \in ToSet(active) THEN RemoveAt(active, At(e)) ELSE active

-----------------------------------------------------------------------------
(* Making and dropping loopers and events. *)

NewLooper ==
  /\ base = "none"
  /\ base' \in {"live", "null"}
  /\ UNCHANGED <<obj, libevent, loop, cur, answer>>

(* An event keeps a pointer to the base, so its owners let the looper go
   last, as the looper test does. *)
DestroyLooper ==
  /\ base # "none" /\ loop = "out"
  /\ \A e \in Event : obj[e] = "none"
  /\ base' = "none"
  /\ active' = <<>> /\ gotterm' = FALSE
  /\ UNCHANGED <<obj, pending, loop, cur, answer>>

(* make_CallableEvent answers nullptr for a looper without a base;
   event_new may fail. *)
make_CallableEvent_unchecked(e) ==
  /\ MayAct
  /\ obj[e] = "none" /\ base # "none"
  /\ \E ev \in {"made", "null"} : obj' = [obj EXCEPT ![e] = ev]
  /\ UNCHANGED <<base, libevent, loop, cur, answer>>
make_CallableEvent(e) ==
  /\ MayAct
  /\ obj[e] = "none" /\ base = "live"
  /\ \E ev \in {"made", "null"} : obj' = [obj EXCEPT ![e] = ev]
  /\ UNCHANGED <<base, libevent, loop, cur, answer>>

(* The last owner drops the event, though not inside its own callback:
   event_free, if there is an ev_. *)
DropEvent_leaks(e) ==
  /\ MayAct
  /\ obj[e] # "none" /\ e # cur
  /\ obj' = [obj EXCEPT ![e] = "none"]
  /\ UNCHANGED <<base, libevent, loop, cur, answer>>
DropEvent(e) ==
  /\ MayAct
  /\ obj[e] # "none" /\ e # cur
  /\ obj' = [obj EXCEPT ![e] = "none"]
  /\ pending' = pending \ {e}
  /\ active' = Without(e)
  /\ UNCHANGED <<base, gotterm, loop, cur, answer>>

-----------------------------------------------------------------------------
(* The operations of an event. *)

(* event_add of a null ev_ takes the process down. *)
Enable(e) ==
  /\ MayAct
  /\ obj[e] = "made"
  /\ \/ pending' = pending \cup {e} /\ Answers("enable", TRUE)
     \/ e \notin pending /\ Answers("enable", FALSE) /\ UNCHANGED pending
  /\ UNCHANGED <<base, obj, active, gotterm, loop, cur>>

(* So does event_del. *)
Disable(e) ==
  /\ MayAct
  /\ obj[e] = "made"
  /\ pending' = pending \ {e}
  /\ active' = Without(e)
  /\ Answers("disable", TRUE)
  /\ UNCHANGED <<base, obj, gotterm, loop, cur>>

UseNull(e) ==
  /\ MayAct
  /\ obj[e] = "null"
  /\ crashed' = TRUE
  /\ UNCHANGED looper

-----------------------------------------------------------------------------
(* The operations of a looper. *)

(* event_base_dispatch clears an old exit and loops; inside a callback it
   refuses. *)
StartLoop ==
  /\ base # "none" /\ MayAct
  /\ IF base = "live" /\ loop = "out"
     THEN loop' = "check" /\ gotterm' = FALSE /\ UNCHANGED answer
     ELSE Answers("start", FALSE) /\ UNCHANGED <<loop, gotterm>>
  /\ UNCHANGED <<base, obj, pending, active, cur>>

(* event_base_loopexit without a time queues the exit at once, also before
   the loop is started; event_base_loopbreak would only raise a flag. *)
StopLoop_break ==
  /\ base = "live" /\ MayAct
  /\ gotterm' = TRUE
  /\ Answers("stop", TRUE)
  /\ UNCHANGED <<base, obj, pending, active, loop, cur>>
StopLoop ==
  /\ base # "none" /\ MayAct
  /\ \/ /\ base = "live"
        /\ Len(SelectSeq(active, LAMBDA x : x = Exit)) < MaxExits
        /\ active' = Append(active, Exit)
        /\ Answers("stop", TRUE)
     \/ Answers("stop", FALSE) /\ UNCHANGED active
  /\ UNCHANGED <<base, obj, pending, gotterm, loop, cur>>

-----------------------------------------------------------------------------
(* The loop of libevent. *)

(* A round: ready events join the queue, in any order.  It waits for one
   while the queue is empty. *)
Poll ==
  /\ loop = "check" /\ ~gotterm
  /\ \E S \in SUBSET (pending \ ToSet(active)) :
       /\ active = <<>> => S # {}
       /\ \E ready \in SetToSeqs(S) : active' = active \o ready
  /\ loop' = "round"
  /\ UNCHANGED <<base, obj, pending, gotterm, cur, answer>>

TakeExit ==
  /\ loop = "round" /\ cur = None
  /\ active # <<>> /\ Head(active) = Exit
  /\ active' = Tail(active)
  /\ gotterm' = TRUE
  /\ UNCHANGED <<base, obj, pending, loop, cur, answer>>

(* LibeventCallback casts its argument to the event and triggers it. *)
LibeventCallback ==
  /\ loop = "round" /\ cur = None
  /\ active # <<>> /\ Head(active) # Exit
  /\ active' = Tail(active)
  /\ pending' = pending \ ({Head(active)} \ Persistent)
  /\ cur' = Head(active)
  /\ UNCHANGED <<base, obj, gotterm, loop, answer>>

CallbackReturns ==
  /\ cur # None
  /\ cur' = None
  /\ UNCHANGED <<base, obj, libevent, loop, answer>>

RoundEnds ==
  /\ loop = "round" /\ cur = None /\ active = <<>>
  /\ loop' = "check"
  /\ UNCHANGED <<base, obj, libevent, cur, answer>>

(* event_base_dispatch returns 0 after an exit, 1 without any event, and
   StartLoop tests it for 0. *)
Succeeded(rc) == rc = 0

DispatchReturns_again ==
  /\ loop = "check"
  /\ \/ gotterm /\ gotterm' = FALSE /\ UNCHANGED <<loop, answer>>
     \/ /\ ~gotterm /\ pending = {} /\ active = <<>>
        /\ Answers("start", Succeeded(1)) /\ loop' = "out" /\ UNCHANGED gotterm
  /\ UNCHANGED <<base, obj, pending, active, cur>>
DispatchReturns ==
  /\ loop = "check"
  /\ \E rc \in {0, 1} :
       /\ rc = 0 => gotterm
       /\ rc = 1 => ~gotterm /\ pending = {} /\ active = <<>>
       /\ Answers("start", Succeeded(rc))
  /\ loop' = "out"
  /\ UNCHANGED <<base, obj, libevent, cur>>

Step ==
  /\ ~crashed
  /\ \/ Poll \/ TakeExit \/ LibeventCallback \/ RoundEnds \/ DispatchReturns
     \/ CallbackReturns
  /\ UNCHANGED crashed

Operation ==
  /\ ~crashed
  /\ \/ NewLooper \/ DestroyLooper \/ StartLoop \/ StopLoop
     \/ \E e \in Event : make_CallableEvent(e) \/ DropEvent(e) \/ Enable(e) \/ Disable(e)
  /\ UNCHANGED crashed

Next == Step \/ Operation \/ (~crashed /\ \E e \in Event : UseNull(e))

(* The thread keeps running libevent, and its callbacks return. *)
Spec == Init /\ [][Next]_vars /\ WF_vars(Step)
-----------------------------------------------------------------------------
(* Properties *)

(* Every variable has its type, and an event is made on a live base only
   (make_CallableEvent, line 192). *)
TypeOK ==
  /\ base \in {"none", "null", "live"}
  /\ obj \in [Event -> {"none", "null", "made"}]
  /\ \A e \in Event : obj[e] # "none" => base = "live"
  /\ pending \subseteq Event
  /\ active \in Seq(Event \cup {Exit})
  /\ gotterm \in BOOLEAN
  /\ loop \in {"out", "check", "round"}
  /\ cur \in Event \cup {None}
  /\ crashed \in BOOLEAN
  /\ answer.op \in {"none", "start", "stop", "enable", "disable"}
  /\ answer.ok \in BOOLEAN

(***************************************************************************)
(* libevent holds the raw this of an event (looper.hpp, lines 28-29): what *)
(* it may call back, or calls, is alive, and so is the base of the event.  *)
(***************************************************************************)
NoDangling ==
  \A e \in pending \cup (ToSet(active) \ {Exit}) \cup ({cur} \ {None}) :
    obj[e] = "made" /\ base = "live"

(***************************************************************************)
(* A request to stop, made before the loop is started or in a callback,    *)
(* ends the loop (StopLoop, lines 175-187).                                *)
(***************************************************************************)
Requested == Exit \in ToSet(active) \/ (gotterm /\ loop # "out")

StopEndsLoop ==
  (Requested /\ loop # "out") ~> (loop = "out" \/ crashed)

(* Seen from the outside, the looper is the loop of StoppableLoop. *)
Abstract == INSTANCE StoppableLoop WITH
  running <- loop # "out",
  stop <- Requested,
  on <- pending,
  calling <- cur

ImplementsLoop == Abstract!Spec
=============================================================================
