----------------------------- MODULE Exercises ------------------------------
(***************************************************************************)
(* The programs of src/tests-edu that keep state.  They share nothing: a   *)
(* behaviour is a run of one of them, chosen at the start.                 *)
(***************************************************************************)
EXTENDS FiniteSets, Integers

CONSTANTS
  Programs,                       (* the ones that may be chosen           *)
  Key, Value, Capacity,           (* of the cache                          *)
  Reader, Writer, Main,           (* the threads of the shared pointer     *)
  MaxLength, Positions,           (* of the node lists                     *)
  Number, Levels, MaxNodes,       (* of the prototype skip list            *)
  Operands, Slots, MaxRequests,   (* of the reactor                        *)
  MaxWord, NumberBits             (* of the algorithms                     *)

ASSUME ExercisesAssumption ==
  /\ Programs \subseteq {"cache", "shared", "list", "skiplist", "reactor", "algorithms"}
  /\ Capacity \in Nat \ {0} /\ Value \subseteq Nat
  /\ Reader \cap Writer = {} /\ Main \notin Reader \cup Writer
  /\ IsFiniteSet(Reader \cup Writer) /\ "free" \notin Reader \cup Writer \cup {Main}
  /\ Operands \subseteq Nat \X Nat /\ MaxLength \in Nat
  /\ MaxNodes \in Nat /\ Levels \in [1..MaxNodes -> Nat \ {0}]
  /\ Slots \in Nat \ {0} /\ NumberBits \in Nat \ {0}

VARIABLES
  program,
  hash, lrulist, answer,
  ap, mtx, local, count, dead, pc,
  nodes, head, run, fate,
  next, key, call, pcurr, plvl, pp, found, state,
  asked, future, queue, c1, reactor, test,
  job, result, solved

cacheVars == <<hash, lrulist, answer>>
sharedVars == <<ap, mtx, local, count, dead, pc>>
listVars == <<nodes, head, run, fate>>
protoVars == <<next, key, call, pcurr, plvl, pp, found, state>>
reactorVars == <<asked, future, queue, c1, reactor, test>>
algorithmVars == <<job, result, solved>>
vars == <<program, cacheVars, sharedVars, listVars, protoVars, reactorVars, algorithmVars>>

Cache == INSTANCE LRUCache
Shared == INSTANCE SharedApp
List == INSTANCE NodeList
Prototype == INSTANCE PrototypeSkiplist WITH Key <- Number
Future == INSTANCE Reactor
Algorithm == INSTANCE Algorithms

Init ==
  /\ program \in Programs
  /\ Cache!Init /\ Shared!Init /\ List!Init /\ Prototype!Init /\ Future!Init
  /\ IF program = "algorithms" THEN Algorithm!Init
     ELSE job = [f |-> "none"] /\ result = <<>> /\ solved = FALSE

(* What the other programs keep does not change. *)
Runs(p) ==
  /\ program = p /\ UNCHANGED program
  /\ p # "cache" => UNCHANGED cacheVars
  /\ p # "shared" => UNCHANGED sharedVars
  /\ p # "list" => UNCHANGED listVars
  /\ p # "skiplist" => UNCHANGED protoVars
  /\ p # "reactor" => UNCHANGED reactorVars
  /\ p # "algorithms" => UNCHANGED algorithmVars

Next ==
  \/ Runs("cache") /\ Cache!Next
  \/ Runs("shared") /\ Shared!Next
  \/ Runs("list") /\ List!Next
  \/ Runs("skiplist") /\ Prototype!Next
  \/ Runs("reactor") /\ Future!Next
  \/ Runs("algorithms") /\ Algorithm!Solve

(* Threads are scheduled: those of the shared pointer, each of which locks the
   mutex once, so that nobody can be passed over for ever; the one that runs a
   loop over a list; the reactor and its test. *)
Spec ==
  /\ Init /\ [][Next]_vars
  /\ WF_vars(Runs("shared") /\ Shared!Join)
  /\ \A t \in Reader \cup Writer : WF_vars(Runs("shared") /\ Shared!Step(t))
  /\ WF_vars(Runs("list") /\ List!Turn)
  /\ WF_vars(Runs("reactor") /\ Future!ReactorStep)
  /\ WF_vars(Runs("reactor") /\ Future!TestStep)
-----------------------------------------------------------------------------
(* Every variable of every program has its type. *)
TypeOK ==
  /\ Cache!TypeOK /\ Shared!TypeOK /\ List!TypeOK /\ Prototype!TypeOK /\ Future!TypeOK

(* The properties of the programs, as their modules state them at the code.

   Every entry of the cache points at the node of its own key (leetcode.cc
   180-232). *)
IteratorsExact == Cache!IteratorsExact

(* An App lives exactly as long as somebody owns it, and nobody uses a dead one
   (shared_ptr.cc 128-167). *)
OwnersCounted == Shared!CountsExact /\ Shared!NoneDangling

(* No App is destroyed inside the critical section (shared_ptr.cc 152). *)
DestroyedOutsideLock == Shared!DestroyedOutsideLock

(* The prototype of the skip list loses no node (leetcode.cc 352-427), but its
   calls may follow a null pointer. *)
NothingLost == Prototype!NothingLost
NeverCrashes == Prototype!NeverCrashes

(* A promise is in exactly one pair of hands until it is kept, and promises are
   kept in order (test_simple_future.cc 32-58). *)
PromisesKept == Future!PromisesHeld /\ Future!InOrder

(* The algorithms answer right (leetcode.cc 28-89 and 262-290, ltweek1.cc
   20-140). *)
AnswersRight == Algorithm!AnswersRight

(* The cache implements RecentCache, and the loops over the nodes implement
   NodeListSpec (leetcode.cc 180-232, DelReverseN.cc 25-90). *)
ImplementsSpecs == Cache!ImplementsCache /\ List!ImplementsList

(* Everything ends: every App is destroyed, every loop over a list is left, and
   every future becomes ready (shared_ptr.cc 133-167, DelReverseN.cc 54-65 and
   76-88, test_simple_future.cc 32-47). *)
EverythingEnds ==
  /\ program = "shared" => Shared!AllDestroyed
  /\ List!LoopsEnd
  /\ Future!FuturesReady

(* The reactor turns off when it is told to (test_simple_future.cc 72). *)
TurnsOff == Future!TurnsOff
=============================================================================
