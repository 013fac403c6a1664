--------------------------- MODULE StoppableLoop ----------------------------
(***************************************************************************)
(* What a Looper promises the one thread that uses it.  A running loop     *)
(* calls back the events that are switched on, one at a time; it ends with *)
(* TRUE only because it was asked to stop, which uses up every request     *)
(* made so far, and with FALSE only because it has no event left and was   *)
(* not asked to stop.  A loop cannot be started from a callback.           *)
(***************************************************************************)
CONSTANTS
  Event,      (* the events                                                *)
  Persistent, (* those that stay switched on when they are called back     *)
  None        (* no event                                                  *)

VARIABLES
  running, (* whether the loop runs                                        *)
  stop,    (* whether it was asked to stop since it last ended             *)
  on,      (* the events that are switched on                              *)
  calling, (* the event whose callback runs, or None                       *)
  answer   (* of the last operation that ended: its name and result        *)

loopVars == <<running, stop, on, calling, answer>>

Init ==
  /\ running = FALSE
  /\ stop = FALSE
  /\ on = {}
  /\ calling = None
  /\ answer = [op |-> "none", ok |-> FALSE]

(* The thread can act outside the loop and in a callback. *)
MayAct == ~running \/ calling # None

Answers(op, ok) == answer' = [op |-> op, ok |-> ok]

Start ==
  /\ ~running
  /\ running' = TRUE
  /\ UNCHANGED <<stop, on, calling, answer>>

Refuse(op) ==
  /\ MayAct
  /\ Answers(op, FALSE)
  /\ UNCHANGED <<running, stop, on, calling>>

Stop ==
  /\ MayAct
  /\ stop' = TRUE
  /\ Answers("stop", TRUE)
  /\ UNCHANGED <<running, on, calling>>

Enable(e) ==
  /\ MayAct
  /\ on' = on \cup {e}
  /\ Answers("enable", TRUE)
  /\ UNCHANGED <<running, stop, calling>>

Disable(e) ==
  /\ MayAct
  /\ on' = on \ {e}
  /\ Answers("disable", TRUE)
  /\ UNCHANGED <<running, stop, calling>>

Drop(e) ==
  /\ MayAct /\ e # calling
  /\ on' = on \ {e}
  /\ UNCHANGED <<running, stop, calling, answer>>

(* A callback; an event that is not persistent is switched off by it. *)
CallBack(e) ==
  /\ running /\ calling = None
  /\ e \in on
  /\ calling' = e
  /\ on' = on \ ({e} \ Persistent)
  /\ UNCHANGED <<running, stop, answer>>

CallbackReturns ==
  /\ calling # None
  /\ calling' = None
  /\ UNCHANGED <<running, stop, on, answer>>

Stopped ==
  /\ running /\ calling = None /\ stop
  /\ running' = FALSE
  /\ stop' = FALSE
  /\ Answers("start", TRUE)
  /\ UNCHANGED <<on, calling>>

RunsDry ==
  /\ running /\ calling = None /\ ~stop /\ on = {}
  /\ running' = FALSE
  /\ Answers("start", FALSE)
  /\ UNCHANGED <<stop, on, calling>>

(* A looper that is destroyed forgets what it was asked. *)
Destroy ==
  /\ ~running /\ on = {}
  /\ stop' = FALSE
  /\ UNCHANGED <<running, on, calling, answer>>

Next ==
  \/ Start \/ Stop \/ Stopped \/ RunsDry \/ CallbackReturns \/ Destroy
  \/ \E op \in {"start", "stop", "enable"} : Refuse(op)
  \/ \E e \in Event : Enable(e) \/ Disable(e) \/ Drop(e) \/ CallBack(e)

Spec == Init /\ [][Next]_loopVars
=============================================================================
