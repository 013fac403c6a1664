------------------------------ MODULE Reactor -------------------------------
(***************************************************************************)
(* The reactor of folly-example/test_simple_future.cc: a detached thread   *)
(* takes requests from a bounded queue and fulfils their promises; the     *)
(* test that submits them owns the queue, cq, as a local variable.         *)
(***************************************************************************)
EXTENDS SequencesExt, Integers

CONSTANTS
  Operands,     (* the pairs submitted                                     *)
  Slots,        (* capacity of the queue, 100 in the code                  *)
  MaxRequests   (* bound of the model: how many are submitted              *)

Off == <<0, 0>>
None == 0
Pending == -2
Broken == -1

VARIABLES
  asked,   (* every ctx made, in order: its operands                       *)
  future,  (* of every ctx: Pending, Broken or the value                   *)
  queue,   (* the ctxs in cq                                               *)
  c1,      (* the ctx the reactor has, or None                             *)
  reactor, (* "read", "operate", "check", "off" or "undefined"             *)
  test     (* "waits", "leaves" or "left": then cq is destroyed            *)

reactorVars == <<asked, future, queue, c1, reactor, test>>

Init ==
  /\ asked = <<>> /\ future = <<>> /\ queue = <<>>
  /\ c1 = None /\ reactor = "read" /\ test = "waits"

(* A ctx that the full queue refuses dies in Submit, and its promise with it. *)
Room == Len(queue) < Slots
Made == IF Room THEN Pending ELSE Broken

Submit(ab) ==
  /\ Len(asked) < MaxRequests
  /\ asked' = Append(asked, ab)
  /\ future' = Append(future, Made)
  /\ queue' = IF Room THEN Append(queue, Len(asked) + 1) ELSE queue
  /\ UNCHANGED <<c1, reactor>>

(* q.read.  An empty queue is asked again; a destroyed one is undefined. *)
Taken_last == Len(queue)
Taken == 1
Read ==
  /\ reactor = "read"
  /\ \/ test = "left" /\ reactor' = "undefined" /\ UNCHANGED <<queue, c1>>
     \/ test # "left" /\ queue # <<>>
        /\ c1' = queue[Taken] /\ queue' = RemoveAt(queue, Taken) /\ reactor' = "operate"
  /\ UNCHANGED <<asked, future, test>>

operate ==
  /\ reactor = "operate" /\ reactor' = "check"
  /\ future' = [future EXCEPT ![c1] = asked[c1][1] + asked[c1][2]]
  /\ UNCHANGED <<asked, queue, c1, test>>

Check ==
  /\ reactor = "check"
  /\ reactor' = IF asked[c1] = Off THEN "off" ELSE "read"
  /\ c1' = None
  /\ UNCHANGED <<asked, future, queue, test>>

(* The test submits and waits until its futures are ready. *)
Ready == \A r \in DOMAIN future : future[r] # Pending

TestSubmits(ab) == test = "waits" /\ Submit(ab) /\ UNCHANGED test

(* It reads the values, which throws if a promise was broken, and tells the
   reactor to turn off. *)
TurnOff ==
  /\ test = "waits" /\ future # <<>> /\ Ready /\ test' = "leaves"
  /\ IF \E r \in DOMAIN future : future[r] = Broken
     THEN UNCHANGED <<asked, future, queue, c1, reactor>> ELSE Submit(Off)

(* The test returns, and cq goes with the promises in it. *)
Leave ==
  /\ test = "leaves" /\ test' = "left"
  /\ queue' = <<>>
  /\ future' = [r \in DOMAIN future |->
       IF \E i \in DOMAIN queue : queue[i] = r THEN Broken ELSE future[r]]
  /\ UNCHANGED <<asked, c1, reactor>>

ReactorStep == Read \/ operate \/ Check
TestStep == TurnOff \/ Leave
Next == ReactorStep \/ TestStep \/ \E ab \in Operands : TestSubmits(ab)
-----------------------------------------------------------------------------
(* Every variable has its type. *)
TypeOK ==
  /\ Len(future) = Len(asked)
  /\ \A r \in DOMAIN future : future[r] \in Nat \cup {Pending, Broken}
  /\ Len(queue) <= Slots /\ ToSet(queue) \subseteq DOMAIN asked
  /\ c1 \in DOMAIN asked \cup {None}
  /\ reactor \in {"read", "operate", "check", "off", "undefined"}
  /\ test \in {"waits", "leaves", "left"}

(* A promise that is not fulfilled yet is in exactly one pair of hands: in the
   queue, once, or with the reactor (lines 32-58). *)
PromisesHeld ==
  /\ IsInjective(queue)
  /\ \A r \in DOMAIN future :
       future[r] = Pending <=>
         (\E i \in DOMAIN queue : queue[i] = r) # (c1 = r /\ reactor = "operate")

(* Answers come in the order of the requests the queue took (lines 35, 53). *)
InOrder ==
  \A r, s \in DOMAIN future : r < s /\ future[s] \in Nat => future[r] # Pending

(* Every future becomes ready, unless the reactor was turned off before
   (lines 32-47). *)
FuturesReady ==
  \A r \in 1..MaxRequests :
    r \in DOMAIN future ~> reactor = "off" \/ (r \in DOMAIN future /\ future[r] # Pending)

(* A reactor that is told to turn off does (line 75). *)
TurnsOff == test = "leaves" /\ asked # <<>> /\ Last(asked) = Off ~> reactor = "off"
=============================================================================
