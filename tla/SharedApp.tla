----------------------------- MODULE SharedApp ------------------------------
(***************************************************************************)
(* The readers and writers of src/tests-edu/shared_ptr.cc: a shared_ptr    *)
(* behind a mutex, one action per access to the pointer, to a use count or *)
(* to the mutex.  Copying a shared_ptr reads the pointer and then raises   *)
(* the count; the count itself is atomic.                                  *)
(***************************************************************************)
EXTENDS Integers, FiniteSets

CONSTANTS
  Reader, Writer,  (* the threads                                          *)
  Main             (* the thread that starts and joins them                *)

Thread == Reader \cup Writer
App == Writer \cup {Main}  \* an App is named after the thread that makes it
Free == "free"

VARIABLES
  ap,     (* the shared pointer                                            *)
  mtx,    (* the thread that has the mutex, or Free                        *)
  local,  (* local of a reader, local_old of a writer; Free before         *)
  count,  (* the use count of every App                                    *)
  dead,   (* the Apps destroyed                                            *)
  pc      (* what each thread does next                                    *)

vars == <<ap, mtx, local, count, dead, pc>>

(* Main has made an App and started the threads. *)
Init ==
  /\ ap = Main
  /\ mtx = Free
  /\ local = [t \in Thread |-> Free]
  /\ count = [a \in App |-> IF a = Main THEN 1 ELSE 0]
  /\ dead = {}
  /\ pc = [t \in Thread \cup {Main} |->
             IF t \in Writer THEN "new" ELSE IF t \in Reader THEN "lock" ELSE "join"]

Move(t, from, to) == pc[t] = from /\ pc' = [pc EXCEPT ![t] = to]

Acquire(a) == count' = [count EXCEPT ![a] = @ + 1] /\ UNCHANGED dead

Release(a) ==
  /\ count' = [count EXCEPT ![a] = @ - 1]
  /\ dead' = IF count[a] = 1 THEN dead \cup {a} ELSE dead

-----------------------------------------------------------------------------
NewApp(w) ==
  /\ Move(w, "new", "lock")
  /\ Acquire(w)
  /\ UNCHANGED <<ap, mtx, local>>

Lock_none(t) == Move(t, "lock", "read") /\ mtx' = t /\ UNCHANGED <<ap, local, count, dead>>
Lock(t) ==
  /\ Move(t, "lock", "read")
  /\ mtx = Free /\ mtx' = t
  /\ UNCHANGED <<ap, local, count, dead>>

(* local = ap, local_old = ap: the pointer, then its count. *)
ReadPointer(t) ==
  /\ Move(t, "read", "count")
  /\ local' = [local EXCEPT ![t] = ap]
  /\ UNCHANGED <<ap, mtx, count, dead>>

KeepsOld_no(t) == t \in Reader
KeepsOld(t) == TRUE

RaiseCount(t) ==
  /\ Move(t, "count", IF t \in Reader THEN "unlock" ELSE "assign")
  /\ IF KeepsOld(t) THEN Acquire(local[t]) ELSE UNCHANGED <<count, dead>>
  /\ UNCHANGED <<ap, mtx, local>>

(* ap = local_new: the new App gains an owner, then the old one loses it. *)
Assign(w) ==
  /\ Move(w, "assign", "release")
  /\ ap' = w /\ Acquire(w)
  /\ UNCHANGED <<mtx, local>>

ReleaseOld(w) ==
  /\ Move(w, "release", "unlock")
  /\ Release(local[w])
  /\ UNCHANGED <<ap, mtx, local>>

Unlock(t) ==
  /\ Move(t, "unlock", IF t \in Reader THEN "use" ELSE "dropnew")
  /\ mtx' = Free
  /\ UNCHANGED <<ap, local, count, dead>>

(* do_something reads the App. *)
Use(r) == Move(r, "use", "drop") /\ UNCHANGED <<ap, mtx, local, count, dead>>

(* The locals die in the reverse order of their declaration. *)
DropNew(w) == Move(w, "dropnew", "drop") /\ Release(w) /\ UNCHANGED <<ap, mtx, local>>

Drop(t) == Move(t, "drop", "done") /\ Release(local[t]) /\ UNCHANGED <<ap, mtx, local>>

(* Main joins both, and its own pointer goes. *)
Join ==
  /\ \A t \in Thread : pc[t] = "done"
  /\ Move(Main, "join", "done")
  /\ Release(ap)
  /\ UNCHANGED <<ap, mtx, local>>

Step(t) ==
  \/ Lock(t) \/ ReadPointer(t) \/ RaiseCount(t) \/ Unlock(t) \/ Drop(t)
  \/ t \in Reader /\ Use(t)
  \/ t \in Writer /\ (NewApp(t) \/ Assign(t) \/ ReleaseOld(t) \/ DropNew(t))

Next == Join \/ \E t \in Thread : Step(t)

(* Threads are scheduled.  Each locks the mutex once, so that nobody can be
   passed over for ever. *)
Spec ==
  Init /\ [][Next]_vars /\ WF_vars(Join) /\ \A t \in Thread : WF_vars(Step(t))
-----------------------------------------------------------------------------
(* Properties *)

(* Every variable has its type; no use count goes below zero. *)
TypeOK ==
  /\ ap \in App
  /\ mtx \in Thread \cup {Free}
  /\ local \in [Thread -> App \cup {Free}]
  /\ count \in [App -> Nat]
  /\ dead \subseteq App
  /\ pc \in [Thread \cup {Main} ->
       {"new", "lock", "read", "count", "assign", "release", "unlock", "use",
        "dropnew", "drop", "join", "done"}]

(* The threads that own a, by pointer: the shared one counts as Main's. *)
Owners(a) ==
  (IF ap = a /\ pc[Main] = "join" THEN {<<Main, "ap">>} ELSE {})
  \cup {<<t, "local">> : t \in {u \in Thread :
          local[u] = a /\ pc[u] \in {"assign", "release", "unlock", "use", "dropnew", "drop"}}}
  \cup {<<w, "ap">> : w \in {u \in Writer : pc[u] = "release" /\ local[u] = a}}
  \cup {<<w, "new">> : w \in {u \in Writer :
          u = a /\ pc[u] \notin {"new", "drop", "done"}}}

(* The use count is the number of owners, whoever copies meanwhile
   (lines 139-140, 151-153). *)
CountsExact == \A a \in App : count[a] = Cardinality(Owners(a))

(* Whoever has a pointer to an App, or is just copying it, finds it alive:
   a reader never uses an App that a writer replaced and destroyed. *)
NoneDangling ==
  /\ pc[Main] = "join" => ap \notin dead
  /\ \A t \in Thread : pc[t] \notin {"done"} => local[t] \notin dead

(* No App is destroyed by a thread inside its critical section: local_old
   (line 152) takes the last reference out of it. *)
DestroyedOutsideLock ==
  [][\A t \in Thread : dead' # dead /\ pc'[t] # pc[t] => mtx # t]_vars

(* Every App made is destroyed in the end, once its threads were joined. *)
AllDestroyed == <>[](dead = App)
=============================================================================
