-------------------------- MODULE ExercisesProofs --------------------------
(***************************************************************************)
(* Proofs about Exercises for any threads, any keys, values and capacity   *)
(* of the cache, any number of requests of the reactor, and lists of any   *)
(* length, levels and number of nodes.                                     *)
(***************************************************************************)
EXTENDS Exercises, SequenceLemmas, FiniteSetTheorems, SequenceTheorems, WellFoundedInduction, TLAPS

Thread == Shared!Thread
App == Shared!App
Free == Shared!Free
Owners(a) == Shared!Owners(a)

-----------------------------------------------------------------------------
(***************************************************************************)
(* The readers and writers of shared_ptr.cc.                               *)
(***************************************************************************)

(* Where each thread can be; Main returns last. *)
Control ==
  /\ \A r \in Reader : pc[r] \in {"lock", "read", "count", "unlock", "use", "drop", "done"}
  /\ \A w \in Writer : pc[w] \in {"new", "lock", "read", "count", "assign", "release",
                                  "unlock", "dropnew", "drop", "done"}
  /\ pc[Main] \in {"join", "done"}
  /\ pc[Main] = "done" => \A t \in Thread : pc[t] = "done"

(* The mutex belongs to the thread inside its critical section. *)
Critical == {"read", "count", "assign", "release", "unlock"}
Exclusion == \A t \in Thread : pc[t] \in Critical <=> mtx = t

(* What the locals point at: the shared pointer as it was read stays what it is
   until the thread assigns it. *)
Before == {"new", "lock", "read"}
Locals ==
  \A t \in Thread :
    /\ pc[t] \in Before => local[t] = Free
    /\ pc[t] \notin Before => local[t] \in App
    /\ pc[t] \in {"count", "assign"} => local[t] = ap

(* Nobody has heard of the App of a writer that has not assigned it yet. *)
Unpublished ==
  \A w \in Writer : pc[w] \in Before \cup {"count", "assign"} =>
    ap # w /\ \A t \in Thread : local[t] # w

(* What is destroyed has been made, and has no owner. *)
DeadUnowned == \A a \in dead : Owners(a) = {} /\ ~(a \in Writer /\ pc[a] = "new")

Places ==
  /\ ap \in App /\ mtx \in Thread \cup {Free}
  /\ local \in [Thread -> App \cup {Free}]
  /\ DOMAIN pc = Thread \cup {Main}
  /\ Control /\ Exclusion /\ Locals /\ Unpublished

(* The use count is the number of owners. *)
Counted == \A a \in App : count[a] = Cardinality(Owners(a))

Counts ==
  /\ count \in [App -> Nat] /\ dead \subseteq App
  /\ Counted /\ DeadUnowned

SharedInv == Places /\ Counts

(* The threads are distinct from one another and from the sentinel. *)
LEMMA Distinct ==
  /\ Reader \cap Writer = {} /\ Main \notin Thread /\ Free \notin Thread /\ Free \notin App
  /\ IsFiniteSet(Thread) /\ Thread = Reader \cup Writer /\ App = Writer \cup {Main}
  BY ExercisesAssumption DEF Thread, App, Free, Shared!Thread, Shared!App, Shared!Free

-----------------------------------------------------------------------------
(* The control of the threads. *)

(* The threads start where they may be. *)
LEMMA InitPlaces == Shared!Init => Places
<1> SUFFICES ASSUME Shared!Init PROVE Places
  OBVIOUS
<1> USE DEF Thread, App, Free
<1>1. /\ ap = Main /\ mtx = Free /\ local = [t \in Thread |-> Free]
      /\ pc = [t \in Thread \cup {Main} |->
                 IF t \in Writer THEN "new" ELSE IF t \in Reader THEN "lock" ELSE "join"]
  BY DEF Shared!Init
<1> HIDE DEF Thread, App, Free
<1>2. \A t \in Thread : local[t] = Free
  BY <1>1
<1>3. /\ \A w \in Writer : pc[w] = "new"
      /\ \A r \in Reader : pc[r] = "lock"
      /\ pc[Main] = "join"
  BY <1>1, Distinct
<1>4. Control
  BY <1>3 DEF Control
<1>5. Exclusion
  BY <1>1, <1>3, Distinct DEF Exclusion, Critical
<1>6. Locals
  BY <1>2, <1>3, Distinct DEF Locals, Before
<1>7. Unpublished
  BY <1>1, <1>2, Distinct DEF Unpublished
<1> QED BY <1>1, <1>4, <1>5, <1>6, <1>7, Distinct DEF Places

(* A step of one thread, by what it does to the control. *)
LEMMA StepPlaces == Places /\ Shared!Next => Places'
<1> SUFFICES ASSUME Places, Shared!Next PROVE Places'
  OBVIOUS
<1> USE Distinct
<1>1. CASE Shared!Join
  <2>1. /\ \A t \in Thread : pc[t] = "done"
        /\ pc' = [pc EXCEPT ![Main] = "done"] /\ UNCHANGED <<ap, mtx, local>>
    BY <1>1 DEF Shared!Join, Shared!Move, Thread, Shared!Thread
  <2>2. pc'[Main] = "done" /\ \A t \in Thread : pc'[t] = pc[t]
    BY <2>1 DEF Places
  <2> QED BY <2>1, <2>2 DEF Places, Control, Exclusion, Locals, Unpublished
<1>2. ASSUME NEW t \in Thread, Shared!Step(t) PROVE Places'
  <2> DEFINE Goes(from, to) ==
        /\ pc[t] = from /\ pc'[t] = to /\ DOMAIN pc' = Thread \cup {Main}
        /\ \A u \in (Thread \cup {Main}) \ {t} : pc'[u] = pc[u]
  <2>0. ASSUME NEW from, NEW to, Shared!Move(t, from, to) PROVE Goes(from, to)
    BY <2>0 DEF Shared!Move, Places
  <2>1. CASE Shared!Lock(t)
    <3>1. Goes("lock", "read") /\ mtx = Free /\ mtx' = t /\ UNCHANGED <<ap, local>>
      BY <2>0, <2>1 DEF Shared!Lock, Free
    <3> QED BY <3>1 DEF Places, Control, Exclusion, Critical, Locals, Before, Unpublished
  <2>2. CASE Shared!ReadPointer(t)
    <3>1. Goes("read", "count") /\ local' = [local EXCEPT ![t] = ap] /\ UNCHANGED <<ap, mtx>>
      BY <2>0, <2>2 DEF Shared!ReadPointer
    <3>2. local'[t] = ap /\ \A u \in Thread \ {t} : local'[u] = local[u]
      BY <3>1 DEF Places
    <3> QED BY <3>1, <3>2 DEF Places, Control, Exclusion, Critical, Locals, Before, Unpublished
  <2>3. CASE Shared!RaiseCount(t)
    <3>1. Goes("count", IF t \in Reader THEN "unlock" ELSE "assign") /\ UNCHANGED <<ap, mtx, local>>
      BY <2>0, <2>3 DEF Shared!RaiseCount
    <3> QED BY <3>1 DEF Places, Control, Exclusion, Critical, Locals, Before, Unpublished
  <2>4. CASE Shared!Unlock(t)
    <3>1. Goes("unlock", IF t \in Reader THEN "use" ELSE "dropnew") /\ mtx' = Free
          /\ UNCHANGED <<ap, local>>
      BY <2>0, <2>4 DEF Shared!Unlock, Free
    <3> QED BY <3>1 DEF Places, Control, Exclusion, Critical, Locals, Before, Unpublished
  <2>5. CASE Shared!Drop(t)
    <3>1. Goes("drop", "done") /\ UNCHANGED <<ap, mtx, local>>
      BY <2>0, <2>5 DEF Shared!Drop
    <3> QED BY <3>1 DEF Places, Control, Exclusion, Critical, Locals, Before, Unpublished
  <2>6. CASE t \in Reader /\ Shared!Use(t)
    <3>1. Goes("use", "drop") /\ UNCHANGED <<ap, mtx, local>>
      BY <2>0, <2>6 DEF Shared!Use
    <3> QED BY <2>6, <3>1 DEF Places, Control, Exclusion, Critical, Locals, Before, Unpublished
  <2>7. CASE t \in Writer /\ Shared!NewApp(t)
    <3>1. Goes("new", "lock") /\ UNCHANGED <<ap, mtx, local>>
      BY <2>0, <2>7 DEF Shared!NewApp
    <3> QED BY <2>7, <3>1 DEF Places, Control, Exclusion, Critical, Locals, Before, Unpublished
  <2>8. CASE t \in Writer /\ Shared!Assign(t)
    <3>1. Goes("assign", "release") /\ ap' = t /\ UNCHANGED <<mtx, local>>
      BY <2>0, <2>8 DEF Shared!Assign
    <3>2. \A u \in Thread \ {t} : pc[u] \notin Critical
      BY <3>1 DEF Places, Exclusion, Critical
    <3> QED BY <2>8, <3>1, <3>2 DEF Places, Control, Exclusion, Critical, Locals, Before, Unpublished
  <2>9. CASE t \in Writer /\ Shared!ReleaseOld(t)
    <3>1. Goes("release", "unlock") /\ UNCHANGED <<ap, mtx, local>>
      BY <2>0, <2>9 DEF Shared!ReleaseOld
    <3> QED BY <2>9, <3>1 DEF Places, Control, Exclusion, Critical, Locals, Before, Unpublished
  <2>10. CASE t \in Writer /\ Shared!DropNew(t)
    <3>1. Goes("dropnew", "drop") /\ UNCHANGED <<ap, mtx, local>>
      BY <2>0, <2>10 DEF Shared!DropNew
    <3> QED BY <2>10, <3>1 DEF Places, Control, Exclusion, Critical, Locals, Before, Unpublished
  <2> QED BY <1>2, <2>1, <2>2, <2>3, <2>4, <2>5, <2>6, <2>7, <2>8, <2>9, <2>10 DEF Shared!Step
<1> QED BY <1>1, <1>2 DEF Shared!Next, Thread, Shared!Thread

-----------------------------------------------------------------------------
(* The owners of an App. *)

Holding == {"assign", "release", "unlock", "use", "dropnew", "drop"}

(* t owns a by its pointer k. *)
Owns(t, k, a) ==
  \/ k = "ap" /\ t = Main /\ ap = a /\ pc[Main] = "join"
  \/ k = "local" /\ t \in Thread /\ local[t] = a /\ pc[t] \in Holding
  \/ k = "ap" /\ t \in Writer /\ local[t] = a /\ pc[t] = "release"
  \/ k = "new" /\ t \in Writer /\ t = a /\ pc[t] \notin {"new", "drop", "done"}

Pointers == (Thread \cup {Main}) \X {"ap", "local", "new"}

(* The owners of an App, pointer by pointer. *)
LEMMA OwnersAre == \A a : Owners(a) = {o \in Pointers : Owns(o[1], o[2], a)}
<1> SUFFICES ASSUME NEW a PROVE Owners(a) = {o \in Pointers : Owns(o[1], o[2], a)}
  OBVIOUS
<1>1. Owners(a) =
        (IF ap = a /\ pc[Main] = "join" THEN {<<Main, "ap">>} ELSE {})
        \cup {<<t, "local">> : t \in {u \in Thread : local[u] = a /\ pc[u] \in Holding}}
        \cup {<<w, "ap">> : w \in {u \in Writer : pc[u] = "release" /\ local[u] = a}}
        \cup {<<w, "new">> : w \in {u \in Writer : u = a /\ pc[u] \notin {"new", "drop", "done"}}}
  BY DEF Owners, Shared!Owners, Thread, Holding
<1>2. ASSUME NEW o \in Owners(a) PROVE o \in Pointers /\ Owns(o[1], o[2], a)
  BY <1>1, Distinct DEF Pointers, Owns
<1>3. ASSUME NEW o \in Pointers, Owns(o[1], o[2], a) PROVE o \in Owners(a)
  <2>1. o = <<o[1], o[2]>>
    BY DEF Pointers
  <2> QED BY <1>1, <1>3, <2>1 DEF Owns
<1> QED BY <1>2, <1>3

(* They are counted by a natural number. *)
LEMMA OwnersFinite == \A a : IsFiniteSet(Owners(a)) /\ Cardinality(Owners(a)) \in Nat
<1> SUFFICES ASSUME NEW a PROVE IsFiniteSet(Owners(a))
  BY FS_CardinalityType
<1>1. IsFiniteSet(Thread \cup {Main})
  BY Distinct, FS_AddElement
<1>2. IsFiniteSet({"ap", "local", "new"})
  <2>1. {"ap", "local", "new"} = ({"ap"} \cup {"local"}) \cup {"new"}
    OBVIOUS
  <2>2. IsFiniteSet({"ap"}) /\ IsFiniteSet({"ap"} \cup {"local"})
    BY FS_Singleton, FS_AddElement
  <2>3. IsFiniteSet(({"ap"} \cup {"local"}) \cup {"new"})
    BY <2>2, FS_AddElement
  <2> QED BY <2>1, <2>3
<1>3. IsFiniteSet(Pointers)
  BY <1>1, <1>2, FS_Product DEF Pointers
<1>4. Owners(a) \subseteq Pointers
  BY OwnersAre
<1> QED BY <1>3, <1>4, FS_Subset

(* What a step does to the owners of a. *)
Gains(a, o) == o \notin Owners(a) /\ Owners(a)' = Owners(a) \cup {o}
Loses(a, o) == o \in Owners(a) /\ Owners(a)' = Owners(a) \ {o}
OthersKeep(a) == \A b \in App \ {a} : Owners(b)' = Owners(b)

(* One more owner, one more count. *)
LEMMA Gained ==
  ASSUME Counts, NEW a \in App, NEW o, Gains(a, o), OthersKeep(a), Shared!Acquire(a),
         a \notin dead, \A w \in Writer : pc'[w] = "new" => pc[w] = "new"
  PROVE  Counts'
<1>1. /\ count \in [App -> Nat] /\ count' = [count EXCEPT ![a] = @ + 1] /\ dead' = dead
      /\ dead \subseteq App
  BY DEF Counts, Shared!Acquire
<1>2. count' \in [App -> Nat] /\ count'[a] = count[a] + 1 /\ \A b \in App \ {a} : count'[b] = count[b]
  BY <1>1
<1>3. Cardinality(Owners(a)') = Cardinality(Owners(a)) + 1
  BY OwnersFinite, FS_AddElement DEF Gains
<1>4. \A b \in App : count[b] = Cardinality(Owners(b))
  BY DEF Counts, Counted
<1>5. \A b \in App : count'[b] = Cardinality(Owners(b)')
  BY <1>2, <1>3, <1>4 DEF OthersKeep
<1>6. Counted'
  BY <1>5, Zenon DEF Counted
<1>7. DeadUnowned'
  BY <1>1 DEF Counts, DeadUnowned, OthersKeep
<1> QED BY <1>1, <1>2, <1>6, <1>7 DEF Counts

(* One owner less, one count less; the last one destroys the App. *)
LEMMA Lost ==
  ASSUME Counts, NEW a \in App, NEW o, Loses(a, o), OthersKeep(a), Shared!Release(a),
         ~(a \in Writer /\ pc'[a] = "new"), \A w \in Writer : pc'[w] = "new" => pc[w] = "new"
  PROVE  Counts'
<1>1. /\ count \in [App -> Nat] /\ count' = [count EXCEPT ![a] = @ - 1]
      /\ dead' = IF count[a] = 1 THEN dead \cup {a} ELSE dead
      /\ dead \subseteq App
  BY DEF Counts, Shared!Release
<1>2. \A b \in App : count[b] = Cardinality(Owners(b))
  BY DEF Counts, Counted
<1>3. Cardinality(Owners(a)') = Cardinality(Owners(a)) - 1 /\ Cardinality(Owners(a)') \in Nat
  <2>1. IsFiniteSet(Owners(a)) /\ IsFiniteSet(Owners(a) \ {o})
    BY OwnersFinite, FS_RemoveElement
  <2> QED BY <2>1, FS_RemoveElement, FS_CardinalityType DEF Loses
<1>4. count'[a] = count[a] - 1 /\ \A b \in App \ {a} : count'[b] = count[b]
  BY <1>1
<1>5. count' \in [App -> Nat]
  <2>1. count[a] - 1 \in Nat
    BY <1>2, <1>3
  <2> QED BY <1>1, <2>1
<1>6. \A b \in App : count'[b] = Cardinality(Owners(b)')
  BY <1>2, <1>3, <1>4 DEF OthersKeep
<1>7. Counted'
  BY <1>6, Zenon DEF Counted
<1>8. count[a] = 1 => Owners(a)' = {}
  <2>1. IsFiniteSet(Owners(a)')
    BY OwnersFinite, FS_RemoveElement DEF Loses
  <2> QED BY <1>2, <1>3, <2>1, FS_EmptySet
<1>9. a \in dead => Owners(a)' = {}
  BY DEF Counts, DeadUnowned, Loses
<1>10. DeadUnowned'
  <2> SUFFICES ASSUME NEW b \in dead' PROVE Owners(b)' = {} /\ ~(b \in Writer /\ pc'[b] = "new")
    BY DEF DeadUnowned
  <2>1. CASE b = a
    BY <1>1, <1>8, <1>9, <2>1
  <2>2. CASE b # a
    <3>1. b \in dead /\ b \in App
      BY <1>1, <2>2
    <3> QED BY <2>2, <3>1 DEF OthersKeep, Counts, DeadUnowned
  <2> QED BY <2>1, <2>2
<1> QED BY <1>1, <1>5, <1>7, <1>10 DEF Counts

(* A step that changes no owner keeps the counts. *)
LEMMA NobodyChanges ==
  ASSUME Counts, \A b \in App : Owners(b)' = Owners(b), UNCHANGED <<count, dead>>,
         \A w \in Writer : pc'[w] = "new" => pc[w] = "new"
  PROVE  Counts'
<1>1. \A b \in App : count[b] = Cardinality(Owners(b))
  BY DEF Counts, Counted
<1>2. \A b \in App : count'[b] = Cardinality(Owners(b)')
  BY <1>1
<1>3. Counted'
  BY <1>2, Zenon DEF Counted
<1> QED BY <1>3 DEF Counts, DeadUnowned

(* CountsExact, as SharedApp states it, is Counted. *)
LEMMA CountedIsExact == Counted <=> Shared!CountsExact
<1>1. \A S : Shared!Cardinality(S) = Cardinality(S)
  BY DEF Cardinality, Shared!Cardinality, IsFiniteSet, Shared!IsFiniteSet
<1> QED BY <1>1 DEF Counted, Shared!CountsExact, Owners, App

(* The changes above, by who owns what. *)
Who == Thread \cup {Main}
What == {"ap", "local", "new"}

(* The same after a step. *)
LEMMA OwnersNext == \A a : Owners(a)' = {o \in Pointers : Owns(o[1], o[2], a)'}
<1>1. (\A a : Owners(a) = {o \in Pointers : Owns(o[1], o[2], a)})'
  BY OwnersAre, PTL
<1> QED BY <1>1

(* Where no pointer changes, the owners stay. *)
LEMMA SameOwners ==
  ASSUME NEW a, \A t \in Who, k \in What : Owns(t, k, a)' <=> Owns(t, k, a)
  PROVE  Owners(a)' = Owners(a)
<1>1. \A o \in Pointers : o[1] \in Who /\ o[2] \in What
  BY DEF Pointers, Who, What
<1> QED BY <1>1, OwnersAre, OwnersNext

(* Where one pointer comes to own an App, it gains that owner. *)
LEMMA OwnerGained ==
  ASSUME NEW a, NEW u \in Who, NEW p \in What, ~Owns(u, p, a), Owns(u, p, a)',
         \A t \in Who, k \in What : t # u \/ k # p => (Owns(t, k, a)' <=> Owns(t, k, a))
  PROVE  Gains(a, <<u, p>>)
<1> DEFINE o == <<u, p>>
<1>1. o \in Pointers /\ o[1] = u /\ o[2] = p
  BY DEF Pointers, Who, What
<1>2. \A q \in Pointers : q[1] \in Who /\ q[2] \in What /\ (q # o => q[1] # u \/ q[2] # p)
  BY DEF Pointers, Who, What
<1> HIDE DEF o
<1>3. o \notin Owners(a) /\ o \in Owners(a)'
  BY <1>1, OwnersAre, OwnersNext
<1>4. \A q \in Pointers : q # o => (q \in Owners(a)' <=> q \in Owners(a))
  BY <1>2, OwnersAre, OwnersNext
<1>5. Owners(a) \subseteq Pointers /\ Owners(a)' \subseteq Pointers
  BY OwnersAre, OwnersNext
<1> QED BY <1>3, <1>4, <1>5 DEF Gains, o

(* Where one pointer gives an App up, it loses that owner. *)
LEMMA OwnerLost ==
  ASSUME NEW a, NEW u \in Who, NEW p \in What, Owns(u, p, a), ~(Owns(u, p, a)'),
         \A t \in Who, k \in What : t # u \/ k # p => (Owns(t, k, a)' <=> Owns(t, k, a))
  PROVE  Loses(a, <<u, p>>)
<1> DEFINE o == <<u, p>>
<1>1. o \in Pointers /\ o[1] = u /\ o[2] = p
  BY DEF Pointers, Who, What
<1>2. \A q \in Pointers : q[1] \in Who /\ q[2] \in What /\ (q # o => q[1] # u \/ q[2] # p)
  BY DEF Pointers, Who, What
<1> HIDE DEF o
<1>3. o \in Owners(a) /\ o \notin Owners(a)'
  BY <1>1, OwnersAre, OwnersNext
<1>4. \A q \in Pointers : q # o => (q \in Owners(a)' <=> q \in Owners(a))
  BY <1>2, OwnersAre, OwnersNext
<1>5. Owners(a) \subseteq Pointers /\ Owners(a)' \subseteq Pointers
  BY OwnersAre, OwnersNext
<1> QED BY <1>3, <1>4, <1>5 DEF Loses, o

(* What a move of thread t does to the control. *)
Goes(t, from, to) ==
  /\ pc[t] = from /\ pc'[t] = to
  /\ \A u \in Who \ {t} : pc'[u] = pc[u]

(* A thread that moves leaves the other threads where they are. *)
LEMMA MoveGoes ==
  ASSUME Places, NEW t \in Who, NEW from, NEW to, Shared!Move(t, from, to)
  PROVE  Goes(t, from, to)
  BY DEF Shared!Move, Places, Goes, Who

(* ap = local_new: the App that was shared is now the writer's to release, and
   the new one is shared. *)
LEMMA AssignCounts ==
  ASSUME SharedInv, NEW w \in Writer, Shared!Assign(w)
  PROVE  Counts'
<1> USE Distinct
<1>0. PICK old : old = ap
  OBVIOUS
<1>1. /\ Goes(w, "assign", "release") /\ ap' = w /\ Shared!Acquire(w) /\ UNCHANGED local
      /\ w \in Who /\ w \in Thread /\ w \in App
  BY MoveGoes DEF SharedInv, Shared!Assign, Who
<1>2. /\ local[w] = old /\ old \in App /\ old # w /\ pc[Main] = "join"
      /\ \A t \in Thread : local[t] # w
  BY <1>0, <1>1 DEF SharedInv, Places, Locals, Unpublished, Goes, Control
<1>3. pc'[Main] = "join" /\ \A t \in Thread \ {w} : pc'[t] = pc[t]
  BY <1>1, <1>2 DEF Goes, Who
<1>4. Gains(w, <<Main, "ap">>)
  <2>1. ~Owns(Main, "ap", w) /\ Owns(Main, "ap", w)'
    BY <1>0, <1>1, <1>2, <1>3 DEF Owns
  <2>2. ASSUME NEW t \in Who, NEW k \in What, t # Main \/ k # "ap"
        PROVE  Owns(t, k, w)' <=> Owns(t, k, w)
    BY <1>0, <1>1, <1>2, <1>3, <2>2 DEF Owns, Goes, Who, What, Holding
  <2>3. Main \in Who /\ "ap" \in What
    BY DEF Who, What
  <2> QED BY <2>1, <2>2, <2>3, OwnerGained
<1>5. ASSUME NEW b \in App, b # w, b # old PROVE Owners(b)' = Owners(b)
  <2>1. ASSUME NEW t \in Who, NEW k \in What PROVE Owns(t, k, b)' <=> Owns(t, k, b)
    BY <1>0, <1>1, <1>2, <1>3, <1>5 DEF Owns, Goes, Who, What, Holding
  <2> QED BY <2>1, SameOwners
<1>6. Owners(old)' = (Owners(old) \ {<<Main, "ap">>}) \cup {<<w, "ap">>}
      /\ <<Main, "ap">> \in Owners(old) /\ <<w, "ap">> \notin Owners(old)
  <2>1. <<Main, "ap">> \in Pointers /\ <<w, "ap">> \in Pointers
    BY <1>1 DEF Pointers
  <2>2. Owns(Main, "ap", old) /\ ~Owns(w, "ap", old)
    BY <1>0, <1>1, <1>2 DEF Owns, Goes
  <2>3. ASSUME NEW q \in Pointers
        PROVE  Owns(q[1], q[2], old)' <=>
                 (Owns(q[1], q[2], old) /\ q # <<Main, "ap">>) \/ q = <<w, "ap">>
    <3> DEFINE t == q[1]
               k == q[2]
    <3>1. t \in Who /\ k \in What /\ q = <<t, k>>
      BY DEF Pointers, Who, What
    <3> HIDE DEF t, k
    <3>2. Owns(t, k, old)' <=> (Owns(t, k, old) /\ ~(t = Main /\ k = "ap")) \/ (t = w /\ k = "ap")
      BY <1>0, <1>1, <1>2, <1>3, <3>1 DEF Owns, Goes, Who, What, Holding
    <3>3. q = <<Main, "ap">> <=> t = Main /\ k = "ap"
      BY <3>1
    <3>4. q = <<w, "ap">> <=> t = w /\ k = "ap"
      BY <3>1
    <3>5. Owns(t, k, old)' <=> (Owns(t, k, old) /\ q # <<Main, "ap">>) \/ q = <<w, "ap">>
      BY <3>2, <3>3, <3>4
    <3> QED BY <3>5 DEF t, k
  <2>4. Owners(old) = {o \in Pointers : Owns(o[1], o[2], old)}
        /\ Owners(old)' = {o \in Pointers : Owns(o[1], o[2], old)'}
    BY OwnersAre, OwnersNext
  <2> QED BY <2>1, <2>2, <2>3, <2>4
<1>7. Cardinality(Owners(old)') = Cardinality(Owners(old))
  <2> DEFINE rest == Owners(old) \ {<<Main, "ap">>}
  <2>1. IsFiniteSet(Owners(old)) /\ Cardinality(Owners(old)) \in Nat
    BY OwnersFinite
  <2>2. IsFiniteSet(rest) /\ Cardinality(rest) = Cardinality(Owners(old)) - 1
    BY <1>6, <2>1, FS_RemoveElement
  <2>3. <<w, "ap">> \notin rest
    BY <1>6
  <2>4. Cardinality(rest \cup {<<w, "ap">>}) = Cardinality(rest) + 1
    BY <2>2, <2>3, FS_AddElement
  <2> HIDE DEF rest
  <2>5. Cardinality(rest \cup {<<w, "ap">>}) = Cardinality(Owners(old))
    BY <2>1, <2>2, <2>4
  <2> QED BY <1>6, <2>5 DEF rest
<1>8. /\ count' = [count EXCEPT ![w] = @ + 1] /\ dead' = dead
      /\ count \in [App -> Nat] /\ dead \subseteq App
      /\ \A b \in App : count[b] = Cardinality(Owners(b))
  BY <1>1 DEF Shared!Acquire, SharedInv, Counts, Counted
<1>9. count' \in [App -> Nat] /\ count'[w] = count[w] + 1 /\ \A b \in App \ {w} : count'[b] = count[b]
  BY <1>1, <1>8
<1>10. Cardinality(Owners(w)') = Cardinality(Owners(w)) + 1
  BY <1>4, OwnersFinite, FS_AddElement DEF Gains
<1>11. Counted'
  <2>1. \A b \in App : count'[b] = Cardinality(Owners(b)')
    BY <1>1, <1>5, <1>7, <1>8, <1>9, <1>10
  <2> QED BY <2>1, Zenon DEF Counted
<1>12. DeadUnowned'
  <2>1. <<w, "new">> \in Owners(w)
    <3>1. Owns(w, "new", w) /\ <<w, "new">> \in Pointers
      BY <1>1 DEF Owns, Goes, Pointers
    <3> QED BY <3>1, OwnersAre
  <2>2. w \notin dead /\ old \notin dead
    BY <1>6, <2>1 DEF SharedInv, Counts, DeadUnowned
  <2>3. \A u \in Writer : pc'[u] = "new" => pc[u] = "new"
    BY <1>1 DEF Goes, Who
  <2>4. ASSUME NEW b \in dead' PROVE Owners(b)' = {} /\ ~(b \in Writer /\ pc'[b] = "new")
    <3>1. b \in dead /\ b \in App /\ b # w /\ b # old
      BY <1>8, <2>2
    <3> QED BY <1>5, <2>3, <3>1 DEF SharedInv, Counts, DeadUnowned
  <2> QED BY <2>4 DEF DeadUnowned
<1> QED BY <1>8, <1>9, <1>11, <1>12 DEF Counts

(* The other steps. *)
LEMMA StepCounts == SharedInv /\ Shared!Next => Counts'
<1> SUFFICES ASSUME SharedInv, Shared!Next PROVE Counts'
  OBVIOUS
<1> USE Distinct
<1>0. Places /\ Counts
  BY DEF SharedInv
<1>1. CASE Shared!Join
  <2>0. PICK a : a = ap
    OBVIOUS
  <2>1. /\ Goes(Main, "join", "done") /\ Shared!Release(a) /\ UNCHANGED <<ap, mtx, local>>
        /\ a \in App /\ \A t \in Thread : pc[t] = "done"
    BY <1>0, <1>1, <2>0, MoveGoes DEF Shared!Join, Who, Places, Thread, Shared!Thread
  <2>2. Loses(a, <<Main, "ap">>)
    <3>1. Owns(Main, "ap", a) /\ ~(Owns(Main, "ap", a)')
      BY <2>0, <2>1 DEF Owns, Goes
    <3>2. ASSUME NEW u \in Who, NEW k \in What, u # Main \/ k # "ap"
          PROVE  Owns(u, k, a)' <=> Owns(u, k, a)
      BY <2>1, <3>2 DEF Owns, Goes, Who, What, Holding
    <3>3. Main \in Who /\ "ap" \in What
      BY DEF Who, What
    <3> QED BY <3>1, <3>2, <3>3, OwnerLost
  <2>3. ASSUME NEW b \in App \ {a} PROVE Owners(b)' = Owners(b)
    <3>1. ASSUME NEW u \in Who, NEW k \in What PROVE Owns(u, k, b)' <=> Owns(u, k, b)
      BY <2>0, <2>1, <2>3 DEF Owns, Goes, Who, What, Holding
    <3> QED BY <3>1, SameOwners
  <2>4. \A w \in Writer : pc'[w] # "new"
    BY <2>1 DEF Goes, Who
  <2> QED BY <1>0, <2>1, <2>2, <2>3, <2>4, Lost DEF OthersKeep
<1>2. ASSUME NEW t \in Thread, Shared!Step(t) PROVE Counts'
  <2> t \in Who
    BY DEF Who
  <2>0. ASSUME NEW from, NEW to, Shared!Move(t, from, to), to # "new"
        PROVE  Goes(t, from, to) /\ \A w \in Writer : pc'[w] = "new" => pc[w] = "new"
    BY <1>0, <2>0, MoveGoes DEF Goes, Who
  (* Steps that change no owner. *)
  <2>1. ASSUME UNCHANGED <<ap, count, dead>>,
               \E from, to : /\ Goes(t, from, to) /\ (from \in Holding <=> to \in Holding)
                             /\ from # "release" /\ to # "release"
                             /\ t \in Writer => (from \in {"new", "drop", "done"} <=>
                                                 to \in {"new", "drop", "done"}),
               \A u \in Thread : local'[u] = local[u] \/ (u = t /\ pc[t] = "read" /\ pc'[t] = "count"),
               \A w \in Writer : pc'[w] = "new" => pc[w] = "new"
        PROVE  Counts'
    <3>1. pc'[Main] = pc[Main]
      BY <2>1 DEF Goes, Who
    <3>2. ASSUME NEW b \in App PROVE Owners(b)' = Owners(b)
      <4>1. ASSUME NEW u \in Who, NEW k \in What PROVE Owns(u, k, b)' <=> Owns(u, k, b)
        <5>1. CASE u = t
          BY <2>1, <3>1, <5>1 DEF Owns, Goes, Who, What, Holding
        <5>2. CASE u # t
          <6>1. pc'[u] = pc[u] /\ (u \in Thread => local'[u] = local[u])
            BY <2>1, <5>2 DEF Goes
          <6> QED BY <2>1, <3>1, <5>2, <6>1 DEF Owns, Who, What
        <5> QED BY <5>1, <5>2
      <4> QED BY <4>1, SameOwners
    <3> QED BY <1>0, <2>1, <3>2, NobodyChanges
  <2>2. CASE Shared!Lock(t)
    <3>1. Goes(t, "lock", "read") /\ UNCHANGED <<ap, local, count, dead>>
          /\ \A w \in Writer : pc'[w] = "new" => pc[w] = "new"
      BY <2>0, <2>2 DEF Shared!Lock
    <3> QED BY <2>1, <3>1 DEF Holding
  <2>3. CASE Shared!ReadPointer(t)
    <3>1. Goes(t, "read", "count") /\ local' = [local EXCEPT ![t] = ap] /\ UNCHANGED <<ap, count, dead>>
          /\ \A w \in Writer : pc'[w] = "new" => pc[w] = "new"
      BY <2>0, <2>3 DEF Shared!ReadPointer
    <3>2. \A u \in Thread : local'[u] = local[u] \/ (u = t /\ pc[t] = "read" /\ pc'[t] = "count")
      BY <1>0, <3>1 DEF Places, Goes
    <3> QED BY <2>1, <3>1, <3>2 DEF Holding
  <2>4. CASE Shared!Unlock(t)
    <3>1. Goes(t, "unlock", IF t \in Reader THEN "use" ELSE "dropnew")
          /\ UNCHANGED <<ap, local, count, dead>>
          /\ \A w \in Writer : pc'[w] = "new" => pc[w] = "new"
      BY <2>0, <2>4 DEF Shared!Unlock
    <3> QED BY <2>1, <3>1 DEF Holding
  <2>5. CASE t \in Reader /\ Shared!Use(t)
    <3>1. Goes(t, "use", "drop") /\ UNCHANGED <<ap, local, count, dead>>
          /\ \A w \in Writer : pc'[w] = "new" => pc[w] = "new"
      BY <2>0, <2>5 DEF Shared!Use
    <3> QED BY <2>1, <2>5, <3>1 DEF Holding
  (* Steps that give t one owning pointer more, or take one from it. *)
  <2>6. ASSUME NEW a \in App, NEW p \in What, ~(Owns(t, p, a) <=> Owns(t, p, a)'), UNCHANGED ap,
               \A k \in What : k # p => (Owns(t, k, a)' <=> Owns(t, k, a)),
               \A b \in App \ {a}, k \in What : Owns(t, k, b)' <=> Owns(t, k, b),
               \E from, to : Goes(t, from, to), UNCHANGED local,
               \A w \in Writer : pc'[w] = "new" => pc[w] = "new",
               IF Owns(t, p, a) THEN Shared!Release(a) /\ ~(a \in Writer /\ pc'[a] = "new")
               ELSE Shared!Acquire(a) /\ a \notin dead
        PROVE  Counts'
    <3>1. ASSUME NEW b \in App, NEW u \in Who, NEW k \in What, u # t
          PROVE  Owns(u, k, b)' <=> Owns(u, k, b)
      <4>1. pc'[u] = pc[u] /\ pc'[Main] = pc[Main]
        BY <2>6, <3>1 DEF Goes, Who
      <4> QED BY <2>6, <3>1, <4>1 DEF Owns, Who, What
    <3>2. ASSUME NEW b \in App \ {a} PROVE Owners(b)' = Owners(b)
      <4>1. ASSUME NEW u \in Who, NEW k \in What PROVE Owns(u, k, b)' <=> Owns(u, k, b)
        BY <2>6, <3>1
      <4> QED BY <4>1, SameOwners
    <3>3. OthersKeep(a)
      BY <3>2 DEF OthersKeep
    <3>4. \A u \in Who, k \in What : u # t \/ k # p => (Owns(u, k, a)' <=> Owns(u, k, a))
      BY <2>6, <3>1
    <3>5. CASE Owns(t, p, a)
      <4>1. Loses(a, <<t, p>>)
        BY <2>6, <3>4, <3>5, OwnerLost
      <4> QED BY <1>0, <2>6, <3>3, <3>5, <4>1, Lost
    <3>6. CASE ~Owns(t, p, a)
      <4>1. Gains(a, <<t, p>>)
        BY <2>6, <3>4, <3>6, OwnerGained
      <4> QED BY <1>0, <2>6, <3>3, <3>6, <4>1, Gained
    <3> QED BY <3>5, <3>6
  <2>7. CASE Shared!RaiseCount(t)
    <3>0. PICK a : a = local[t]
      OBVIOUS
    <3>1. /\ Goes(t, "count", IF t \in Reader THEN "unlock" ELSE "assign")
          /\ UNCHANGED <<ap, local>> /\ Shared!Acquire(a)
          /\ \A w \in Writer : pc'[w] = "new" => pc[w] = "new"
      BY <2>0, <2>7, <3>0 DEF Shared!RaiseCount, Shared!KeepsOld
    <3>2. a \in App /\ a = ap /\ pc[Main] = "join"
      BY <1>0, <3>0, <3>1 DEF Places, Locals, Control, Goes, Before
    <3>3. a \notin dead
      <4>1. Owns(Main, "ap", a) /\ <<Main, "ap">> \in Pointers
        BY <3>2 DEF Owns, Pointers
      <4>2. <<Main, "ap">> \in Owners(a)
        BY <4>1, OwnersAre
      <4> QED BY <1>0, <4>2 DEF Counts, DeadUnowned
    <3>4. ~Owns(t, "local", a) /\ Owns(t, "local", a)'
      BY <3>0, <3>1 DEF Owns, Goes, Holding
    <3>5. \A b \in App, k \in What :
            b # a \/ k # "local" => (Owns(t, k, b)' <=> Owns(t, k, b))
      BY <1>0, <3>0, <3>1 DEF Owns, Goes, What, Places, Control, Holding
    <3> QED BY <2>6, <3>1, <3>2, <3>3, <3>4, <3>5 DEF What
  <2>8. CASE t \in Writer /\ Shared!NewApp(t)
    <3>1. /\ Goes(t, "new", "lock") /\ UNCHANGED <<ap, local>> /\ Shared!Acquire(t)
          /\ \A w \in Writer : pc'[w] = "new" => pc[w] = "new"
      BY <2>0, <2>8 DEF Shared!NewApp
    <3>2. t \in App /\ t \notin dead
      BY <1>0, <2>8, <3>1 DEF Counts, DeadUnowned, Goes
    <3>3. ~Owns(t, "new", t) /\ Owns(t, "new", t)'
      BY <2>8, <3>1 DEF Owns, Goes
    <3>4. \A b \in App, k \in What : b # t \/ k # "new" => (Owns(t, k, b)' <=> Owns(t, k, b))
      BY <3>1 DEF Owns, Goes, What, Holding
    <3> QED BY <2>6, <3>1, <3>2, <3>3, <3>4 DEF What
  <2>9. CASE t \in Writer /\ Shared!Assign(t)
    BY <2>9, AssignCounts
  <2>10. CASE t \in Writer /\ Shared!ReleaseOld(t)
    <3>0. PICK a : a = local[t]
      OBVIOUS
    <3>1. /\ Goes(t, "release", "unlock") /\ UNCHANGED <<ap, local>> /\ Shared!Release(a)
          /\ \A w \in Writer : pc'[w] = "new" => pc[w] = "new"
      BY <2>0, <2>10, <3>0 DEF Shared!ReleaseOld
    <3>2. a \in App /\ ~(a \in Writer /\ pc'[a] = "new")
      BY <1>0, <3>0, <3>1 DEF Places, Locals, Unpublished, Goes, Before
    <3>3. Owns(t, "ap", a) /\ ~(Owns(t, "ap", a)')
      BY <2>10, <3>0, <3>1 DEF Owns, Goes, Holding
    <3>4. \A b \in App, k \in What : b # a \/ k # "ap" => (Owns(t, k, b)' <=> Owns(t, k, b))
      BY <3>0, <3>1 DEF Owns, Goes, What, Holding
    <3> QED BY <2>6, <3>1, <3>2, <3>3, <3>4 DEF What
  <2>11. CASE t \in Writer /\ Shared!DropNew(t)
    <3>1. /\ Goes(t, "dropnew", "drop") /\ UNCHANGED <<ap, local>> /\ Shared!Release(t)
          /\ \A w \in Writer : pc'[w] = "new" => pc[w] = "new"
      BY <2>0, <2>11 DEF Shared!DropNew
    <3>2. t \in App /\ ~(t \in Writer /\ pc'[t] = "new")
      BY <2>11, <3>1 DEF Goes
    <3>3. Owns(t, "new", t) /\ ~(Owns(t, "new", t)')
      BY <2>11, <3>1 DEF Owns, Goes
    <3>4. \A b \in App, k \in What : b # t \/ k # "new" => (Owns(t, k, b)' <=> Owns(t, k, b))
      BY <3>1 DEF Owns, Goes, What, Holding
    <3> QED BY <2>6, <3>1, <3>2, <3>3, <3>4 DEF What
  <2>12. CASE Shared!Drop(t)
    <3>0. PICK a : a = local[t]
      OBVIOUS
    <3>1. /\ Goes(t, "drop", "done") /\ UNCHANGED <<ap, local>> /\ Shared!Release(a)
          /\ \A w \in Writer : pc'[w] = "new" => pc[w] = "new"
      BY <2>0, <2>12, <3>0 DEF Shared!Drop
    <3>2. a \in App /\ ~(a \in Writer /\ pc'[a] = "new")
      BY <1>0, <3>0, <3>1 DEF Places, Locals, Unpublished, Goes, Before
    <3>3. Owns(t, "local", a) /\ ~(Owns(t, "local", a)')
      BY <3>0, <3>1 DEF Owns, Goes, Holding
    <3>4. \A b \in App, k \in What : b # a \/ k # "local" => (Owns(t, k, b)' <=> Owns(t, k, b))
      BY <3>0, <3>1 DEF Owns, Goes, What, Holding
    <3> QED BY <2>6, <3>1, <3>2, <3>3, <3>4 DEF What
  <2> QED BY <1>2, <2>2, <2>3, <2>4, <2>5, <2>7, <2>8, <2>9, <2>10, <2>11, <2>12 DEF Shared!Step
<1> QED BY <1>1, <1>2 DEF Shared!Next, Thread, Shared!Thread

(* The counts are right at first. *)
LEMMA InitCounts == Shared!Init => Counts
<1> SUFFICES ASSUME Shared!Init PROVE Counts
  OBVIOUS
<1> USE Distinct
<1>1. /\ ap = Main /\ local = [t \in Thread |-> Free] /\ dead = {}
      /\ count = [a \in App |-> IF a = Main THEN 1 ELSE 0]
      /\ pc = [t \in Thread \cup {Main} |->
                 IF t \in Writer THEN "new" ELSE IF t \in Reader THEN "lock" ELSE "join"]
  BY DEF Shared!Init, Thread, App, Free, Shared!Thread, Shared!App, Shared!Free
<1>2. /\ \A w \in Writer : pc[w] = "new"
      /\ \A r \in Reader : pc[r] = "lock"
      /\ pc[Main] = "join"
      /\ \A t \in Thread : local[t] = Free
  BY <1>1
<1>3. \A a \in App, t \in Who, k \in What : Owns(t, k, a) <=> a = Main /\ t = Main /\ k = "ap"
  BY <1>1, <1>2 DEF Owns, Who, What, Holding
<1>4. \A a \in App : Owners(a) = IF a = Main THEN {<<Main, "ap">>} ELSE {}
  BY <1>3, OwnersAre DEF Pointers, Who, What
<1>5. Counted
  <2>1. ASSUME NEW a \in App PROVE count[a] = Cardinality(Owners(a))
    BY <1>1, <1>4, FS_EmptySet, FS_Singleton
  <2> QED BY <2>1 DEF Counted
<1>6. count \in [App -> Nat]
  BY <1>1
<1> QED BY <1>1, <1>5, <1>6 DEF Counts, DeadUnowned

(* What the other programs do does not matter. *)
LEMMA SharedInvStutters == SharedInv /\ UNCHANGED sharedVars => SharedInv'
<1> SUFFICES ASSUME SharedInv, UNCHANGED sharedVars PROVE SharedInv'
  OBVIOUS
<1>1. ASSUME NEW b \in App PROVE Owners(b)' = Owners(b)
  BY SameOwners DEF sharedVars, Owns
<1>2. Counts'
  BY <1>1, NobodyChanges DEF SharedInv, sharedVars
<1>3. Places'
  BY DEF SharedInv, Places, sharedVars, Control, Exclusion, Locals, Unpublished
<1> QED BY <1>2, <1>3 DEF SharedInv

(* Whatever program runs. *)
LEMMA SharedInvariance == Spec => []SharedInv
<1>1. Init => SharedInv
  BY InitPlaces, InitCounts DEF Init, SharedInv
<1>2. SharedInv /\ [Next]_vars => SharedInv'
  <2> SUFFICES ASSUME SharedInv, [Next]_vars PROVE SharedInv'
    OBVIOUS
  <2>1. CASE Shared!Next
    BY <2>1, StepPlaces, StepCounts DEF SharedInv
  <2>2. Shared!Next \/ UNCHANGED sharedVars
    BY DEF Next, Runs, vars
  <2> QED BY <2>1, <2>2, SharedInvStutters
<1> QED BY <1>1, <1>2, PTL DEF Spec

(***************************************************************************)
(* The use count of every App is the number of pointers that own it, and   *)
(* no thread has a pointer to a destroyed App (shared_ptr.cc 128-167),     *)
(* for any number of readers and writers.                                  *)
(***************************************************************************)
THEOREM OwnersAlwaysCounted == Spec => []OwnersCounted
<1>1. SharedInv => OwnersCounted
  <2> SUFFICES ASSUME SharedInv PROVE Shared!CountsExact /\ Shared!NoneDangling
    BY DEF OwnersCounted
  <2> USE Distinct
  <2>1. Shared!CountsExact
    BY CountedIsExact DEF SharedInv, Counts
  <2>2. pc[Main] = "join" => ap \notin dead
    <3> SUFFICES ASSUME pc[Main] = "join" PROVE <<Main, "ap">> \in Owners(ap)
      BY DEF SharedInv, Counts, DeadUnowned
    <3>1. Owns(Main, "ap", ap) /\ <<Main, "ap">> \in Pointers
      BY DEF Owns, Pointers
    <3> QED BY <3>1, OwnersAre
  <2>3. ASSUME NEW t \in Thread, pc[t] # "done" PROVE local[t] \notin dead
    <3>1. CASE pc[t] \in Before
      BY <3>1 DEF SharedInv, Places, Locals, Counts
    <3>2. CASE pc[t] = "count"
      BY <2>2, <3>2 DEF SharedInv, Places, Locals, Control
    <3>3. CASE pc[t] \in Holding
      <4>1. Owns(t, "local", local[t]) /\ <<t, "local">> \in Pointers
        BY <3>3 DEF Owns, Pointers
      <4>2. <<t, "local">> \in Owners(local[t])
        BY <4>1, OwnersAre
      <4> QED BY <4>2 DEF SharedInv, Counts, DeadUnowned
    <3> QED BY <2>3, <3>1, <3>2, <3>3 DEF SharedInv, Places, Control, Before, Holding
  <2> QED BY <2>1, <2>2, <2>3 DEF Shared!NoneDangling, Thread, Shared!Thread
<1> QED BY <1>1, SharedInvariance, PTL

(***************************************************************************)
(* No App is destroyed by a thread that has the mutex: the old App has     *)
(* local_old as an owner until the writer returns (shared_ptr.cc 148-155). *)
(***************************************************************************)
THEOREM NeverDestroyedInside == Spec => DestroyedOutsideLock
<1> USE Distinct
<1>1. ASSUME SharedInv, Shared!Next, dead' # dead, NEW t \in Thread, pc'[t] # pc[t]
      PROVE  mtx # t
  <2>1. ~Shared!Join
    BY <1>1 DEF Shared!Join, Shared!Move, SharedInv, Places
  <2>2. PICK u \in Thread : Shared!Step(u)
    BY <1>1, <2>1 DEF Shared!Next, Thread, Shared!Thread
  <2>3. ~Shared!Lock(u) /\ ~Shared!ReadPointer(u) /\ ~Shared!RaiseCount(u) /\ ~Shared!Unlock(u)
        /\ ~Shared!Use(u) /\ ~Shared!NewApp(u) /\ ~Shared!Assign(u)
    BY <1>1 DEF Shared!Lock, Shared!ReadPointer, Shared!RaiseCount, Shared!Unlock, Shared!Use,
                Shared!NewApp, Shared!Assign, Shared!Acquire, Shared!KeepsOld
  <2>4. CASE u \in Writer /\ Shared!ReleaseOld(u)
    <3> DEFINE a == local[u]
    <3>1. pc[u] = "release" /\ Shared!Release(a)
      BY <2>4 DEF Shared!ReleaseOld, Shared!Move
    <3>2. a \in App
      BY <1>1, <3>1 DEF SharedInv, Places, Locals, Before
    <3>3. <<u, "local">> \in Owners(a) /\ <<u, "ap">> \in Owners(a)
      <4>1. Owns(u, "local", a) /\ Owns(u, "ap", a)
            /\ <<u, "local">> \in Pointers /\ <<u, "ap">> \in Pointers
        BY <2>4, <3>1 DEF Owns, Holding, Pointers
      <4> HIDE DEF a
      <4> QED BY <4>1, OwnersAre
    <3>4. count[a] # 1
      <4>1. \A o : Owners(a) # {o}
        BY <3>3
      <4>2. Cardinality(Owners(a)) # 1
        BY <4>1, OwnersFinite, FS_Singleton
      <4> QED BY <1>1, <3>2, <4>2 DEF SharedInv, Counts, Counted
    <3> QED BY <1>1, <3>1, <3>4 DEF Shared!Release
  <2>5. CASE (u \in Writer /\ Shared!DropNew(u)) \/ Shared!Drop(u)
    <3>1. pc[u] \in {"drop", "dropnew"} /\ \A v \in Thread \ {u} : pc'[v] = pc[v]
      BY <1>1, <2>5 DEF Shared!DropNew, Shared!Drop, Shared!Move, SharedInv, Places
    <3>2. t = u
      BY <1>1, <3>1
    <3> QED BY <1>1, <3>1, <3>2 DEF SharedInv, Places, Exclusion, Critical
  <2> QED BY <2>2, <2>3, <2>4, <2>5 DEF Shared!Step
<1> DEFINE Outside == \A t \in Thread : dead' # dead /\ pc'[t] # pc[t] => mtx # t
<1>2. SharedInv /\ [Next]_vars => [Outside]_(Shared!vars)
  <2> SUFFICES ASSUME SharedInv, [Next]_vars PROVE Outside \/ UNCHANGED Shared!vars
    OBVIOUS
  <2>1. Shared!Next \/ UNCHANGED sharedVars
    BY DEF Next, Runs, vars
  <2> QED BY <1>1, <2>1 DEF sharedVars, Shared!vars
<1>3. Outside <=> \A t \in Shared!Thread : dead' # dead /\ pc'[t] # pc[t] => mtx # t
  BY DEF Thread
<1> HIDE DEF Outside
<1> QED BY <1>2, <1>3, SharedInvariance, PTL
        DEF Spec, DestroyedOutsideLock, Shared!DestroyedOutsideLock

-----------------------------------------------------------------------------
(***************************************************************************)
(* The LRU cache of leetcode.cc.                                           *)
(***************************************************************************)

Address == Cache!Address
CacheNode == [at : Address, key : Key]
Entry == [val : Value, pos : Address]

(* Two nodes have two addresses, besides what IteratorsExact says. *)
CacheInv ==
  /\ lrulist \in Seq(CacheNode) /\ Len(lrulist) <= Capacity
  /\ \A i, j \in 1..Len(lrulist) : lrulist[i].at = lrulist[j].at => i = j
  /\ hash \in [DOMAIN hash -> Entry] /\ DOMAIN hash \subseteq Key
  /\ answer \in Value \cup {-1}
  /\ Cache!IteratorsExact

(* An entry's iterator leads to the one node that has its address. *)
LEMMA NodeOf ==
  ASSUME CacheInv, NEW k \in DOMAIN hash
  PROVE  /\ Cache!Node(hash[k].pos) \in 1..Len(lrulist)
         /\ lrulist[Cache!Node(hash[k].pos)] = [at |-> hash[k].pos, key |-> k]
<1>1. PICK j \in 1..Len(lrulist) : lrulist[j] = [at |-> hash[k].pos, key |-> k]
  BY DEF CacheInv, Cache!IteratorsExact
<1>2. \A i \in 1..Len(lrulist) : lrulist[i].at = hash[k].pos => i = j
  BY <1>1 DEF CacheInv
<1>3. Cache!Node(hash[k].pos) = j
  BY <1>1, <1>2 DEF Cache!Node
<1> QED BY <1>1, <1>3

(* A key that is used moves to the front with a new node. *)
MovesKey(k, at, v) ==
  /\ Cache!move_front(hash[k].pos, at)
  /\ hash' = [q \in DOMAIN hash |-> IF q = k THEN [val |-> v, pos |-> at] ELSE hash[q]]
  /\ answer' \in Value \cup {-1}

(* A key that is used moves its node to the front of the list. *)
LEMMA ListMoves ==
  ASSUME CacheInv, NEW k \in DOMAIN hash, NEW at \in Address, NEW v \in Value, MovesKey(k, at, v)
  PROVE  /\ lrulist' \in Seq(CacheNode)
         /\ Moved(lrulist', [at |-> at, key |-> k], lrulist, Cache!Node(hash[k].pos))
<1>a. /\ Cache!move_front(hash[k].pos, at) /\ answer' \in Value \cup {-1}
      /\ hash' = [q \in DOMAIN hash |-> IF q = k THEN [val |-> v, pos |-> at] ELSE hash[q]]
  BY DEF MovesKey
<1>0. PICK j, n, x : j = Cache!Node(hash[k].pos) /\ n = Len(lrulist) /\ x = [at |-> at, key |-> k]
  OBVIOUS
<1>1. /\ n \in Nat /\ n <= Capacity /\ lrulist \in Seq(CacheNode)
      /\ \A m \in 1..n : lrulist[m] \in CacheNode
  BY <1>0, LenProperties DEF CacheInv
<1>2. j \in 1..n /\ lrulist[j].at = hash[k].pos /\ lrulist[j].key = k
  <2>1. /\ Cache!Node(hash[k].pos) \in 1..Len(lrulist)
        /\ lrulist[Cache!Node(hash[k].pos)] = [at |-> hash[k].pos, key |-> k]
    BY NodeOf, Zenon
  <2>2. j \in 1..n /\ lrulist[j] = [at |-> hash[k].pos, key |-> k]
    BY <1>0, <2>1, Zenon
  <2> QED BY <2>2
<1>3. x \in CacheNode /\ x.at = at /\ x.key = k
  BY <1>0 DEF CacheNode, CacheInv
<1>4. at \in Address \ (Cache!Used \ {hash[k].pos})
      /\ lrulist' = <<x>> \o (SubSeq(lrulist, 1, j - 1) \o SubSeq(lrulist, j + 1, n))
  BY <1>a, <1>0, <1>2 DEF Cache!move_front, Cache!RemoveAt, Address
<1>5. lrulist' = InFront(x, lrulist, j)
  BY <1>0, <1>4, Zenon DEF InFront
<1>6. j \in 1..Len(lrulist) /\ lrulist \in Seq(CacheNode)
  BY <1>0, <1>1, <1>2
<1>7. lrulist' \in Seq(CacheNode) /\ Moved(lrulist', x, lrulist, j)
  BY <1>3, <1>5, <1>6, MovedToFront
<1> QED BY <1>0, <1>7

(* Moving a key keeps the invariant of the cache, ... *)
LEMMA MoveKeeps ==
  ASSUME CacheInv, NEW k \in DOMAIN hash, NEW at \in Address, NEW v \in Value, MovesKey(k, at, v)
  PROVE  CacheInv'
<1>a. /\ Cache!move_front(hash[k].pos, at) /\ answer' \in Value \cup {-1}
      /\ hash' = [q \in DOMAIN hash |-> IF q = k THEN [val |-> v, pos |-> at] ELSE hash[q]]
  BY DEF MovesKey
<1>0. PICK j, n, x : j = Cache!Node(hash[k].pos) /\ n = Len(lrulist) /\ x = [at |-> at, key |-> k]
  OBVIOUS
<1>1. /\ n \in Nat /\ n <= Capacity /\ lrulist \in Seq(CacheNode)
      /\ \A m \in 1..n : lrulist[m] \in CacheNode
  BY <1>0, LenProperties DEF CacheInv
<1>2. j \in 1..n /\ lrulist[j].at = hash[k].pos /\ lrulist[j].key = k
  <2>1. /\ Cache!Node(hash[k].pos) \in 1..Len(lrulist)
        /\ lrulist[Cache!Node(hash[k].pos)] = [at |-> hash[k].pos, key |-> k]
    BY NodeOf, Zenon
  <2>2. j \in 1..n /\ lrulist[j] = [at |-> hash[k].pos, key |-> k]
    BY <1>0, <2>1, Zenon
  <2> QED BY <2>2
<1>3. x \in CacheNode /\ x.at = at /\ x.key = k
  BY <1>0 DEF CacheNode, CacheInv
<1>4. at \in Address \ (Cache!Used \ {hash[k].pos})
  BY <1>a DEF Cache!move_front, Address
<1>5. /\ lrulist' \in Seq(CacheNode) /\ Len(lrulist') = n
      /\ \A i \in 1..n :
           lrulist'[i] = IF i = 1 THEN x ELSE IF i <= j THEN lrulist[i - 1] ELSE lrulist[i]
  <2>1. lrulist' \in Seq(CacheNode) /\ Moved(lrulist', x, lrulist, j)
    BY <1>0, ListMoves
  <2> QED BY <1>0, <2>1 DEF Moved
<1>6. \A m \in 1..n : m # j => lrulist[m].at # at /\ lrulist[m].key # k
                               /\ lrulist[m].at = hash[lrulist[m].key].pos
                               /\ lrulist[m].key \in DOMAIN hash
  <2> SUFFICES ASSUME NEW m \in 1..n, m # j
               PROVE  lrulist[m].at # at /\ lrulist[m].key # k
                      /\ lrulist[m].at = hash[lrulist[m].key].pos /\ lrulist[m].key \in DOMAIN hash
    OBVIOUS
  <2>1. lrulist[m].at # hash[k].pos
    BY <1>0, <1>2 DEF CacheInv
  <2>2. lrulist[m].key \in DOMAIN hash /\ hash[lrulist[m].key].pos = lrulist[m].at
    BY <1>0 DEF CacheInv, Cache!IteratorsExact
  <2>3. lrulist[m].at \in Cache!Used
    BY <1>0 DEF Cache!Used
  <2> QED BY <1>4, <2>1, <2>2, <2>3
<1> DEFINE src(i) == IF i <= j THEN i - 1 ELSE i
<1>7. \A i \in 1..n : i # 1 => src(i) \in 1..n /\ src(i) # j /\ lrulist'[i] = lrulist[src(i)]
  <2>1. \A i \in 1..n : i # 1 => src(i) \in 1..n /\ src(i) # j
    BY <1>1, <1>2, SMT
  <2> QED BY <1>5, <2>1
<1>8. \A m \in 1..n : m # j => \E i \in 1..n : i # 1 /\ lrulist'[i] = lrulist[m]
  <2> SUFFICES ASSUME NEW m \in 1..n, m # j PROVE \E i \in 1..n : i # 1 /\ lrulist'[i] = lrulist[m]
    OBVIOUS
  <2>1. PICK i : i = IF m < j THEN m + 1 ELSE m
    OBVIOUS
  <2>2. i \in 1..n /\ i # 1 /\ src(i) = m
    BY <1>1, <1>2, <2>1, SMT
  <2> QED BY <1>7, <2>2
<1>9. \A i, h \in 1..n : i # 1 /\ h # 1 /\ src(i) = src(h) => i = h
  BY <1>1, <1>2, SMT
<1> HIDE DEF src
<1>10. \A i, h \in 1..n : lrulist'[i].at = lrulist'[h].at => i = h
  <2> SUFFICES ASSUME NEW i \in 1..n, NEW h \in 1..n, lrulist'[i].at = lrulist'[h].at PROVE i = h
    OBVIOUS
  <2>1. CASE i # 1 /\ h # 1
    <3>1. lrulist[src(i)].at = lrulist[src(h)].at /\ src(i) \in 1..n /\ src(h) \in 1..n
      BY <1>7, <2>1
    <3>2. src(i) = src(h)
      BY <1>0, <3>1 DEF CacheInv
    <3> QED BY <1>9, <2>1, <3>2
  <2>2. CASE i = 1 \/ h = 1
    <3>1. lrulist'[1] = x /\ \A g \in 1..n : g # 1 => lrulist'[g].at # at
      BY <1>2, <1>5, <1>6, <1>7
    <3> QED BY <1>3, <2>2, <3>1
  <2> QED BY <2>1, <2>2
<1>11. /\ DOMAIN hash' = DOMAIN hash /\ hash' \in [DOMAIN hash -> Entry]
       /\ hash'[k] = [val |-> v, pos |-> at] /\ hash'[k].pos = at
       /\ \A q \in DOMAIN hash : q # k => hash'[q] = hash[q]
  BY <1>a DEF CacheInv, Entry
<1>12. \A q \in DOMAIN hash' : \E i \in 1..n : lrulist'[i] = [at |-> hash'[q].pos, key |-> q]
  <2> SUFFICES ASSUME NEW q \in DOMAIN hash
               PROVE  \E i \in 1..n : lrulist'[i] = [at |-> hash'[q].pos, key |-> q]
    BY <1>11
  <2>1. CASE q = k
    <3>1. 1 \in 1..n /\ lrulist'[1] = x
      BY <1>1, <1>2, <1>5, SMT
    <3> QED BY <1>0, <1>11, <2>1, <3>1
  <2>2. CASE q # k
    <3>1. PICK m \in 1..n : lrulist[m] = [at |-> hash[q].pos, key |-> q]
      BY <1>0 DEF CacheInv, Cache!IteratorsExact
    <3>2. m # j
      BY <1>2, <2>2, <3>1
    <3> QED BY <1>8, <1>11, <2>2, <3>1, <3>2
  <2> QED BY <2>1, <2>2
<1>13. \A i \in 1..n : lrulist'[i].key \in DOMAIN hash' /\ hash'[lrulist'[i].key].pos = lrulist'[i].at
  <2> SUFFICES ASSUME NEW i \in 1..n
               PROVE  lrulist'[i].key \in DOMAIN hash' /\ hash'[lrulist'[i].key].pos = lrulist'[i].at
    OBVIOUS
  <2>1. CASE i = 1
    BY <1>3, <1>5, <1>11, <2>1
  <2>2. CASE i # 1
    BY <1>6, <1>7, <1>11, <2>2
  <2> QED BY <2>1, <2>2
<1>14. Cache!IteratorsExact'
  BY <1>5, <1>12, <1>13 DEF Cache!IteratorsExact
<1>15. DOMAIN hash' \subseteq Key /\ hash' \in [DOMAIN hash' -> Entry]
  BY <1>11 DEF CacheInv
<1> QED BY <1>a, <1>1, <1>5, <1>10, <1>14, <1>15 DEF CacheInv

(* A key that is new goes to the front, and the first p of the others stay. *)
KeysUpTo(p) == {q \in DOMAIN hash : \E m \in 1..p : lrulist[m].key = q}
AddsKey(k, at, v, p) ==
  /\ p <= Len(lrulist) /\ p + 1 <= Capacity
  /\ lrulist' \in Seq(CacheNode) /\ Len(lrulist') = p + 1
  /\ \A i \in 1..(p + 1) : lrulist'[i] = IF i = 1 THEN [at |-> at, key |-> k] ELSE lrulist[i - 1]
  /\ hash' = [q \in KeysUpTo(p) \cup {k} |-> IF q = k THEN [val |-> v, pos |-> at] ELSE hash[q]]
  /\ answer' \in Value \cup {-1}

(* ... and so does adding one in front while the last may go. *)
LEMMA FrontKeeps ==
  ASSUME CacheInv, NEW k \in Key \ DOMAIN hash, NEW at \in Address \ Cache!Used, NEW v \in Value,
         NEW p \in Nat, AddsKey(k, at, v, p)
  PROVE  CacheInv'
<1> SUFFICES ASSUME p <= Len(lrulist), p + 1 <= Capacity,
                    NEW x, x = [at |-> at, key |-> k],
                    lrulist' \in Seq(CacheNode), Len(lrulist') = p + 1,
                    \A i \in 1..(p + 1) : lrulist'[i] = IF i = 1 THEN x ELSE lrulist[i - 1],
                    NEW K, K = {q \in DOMAIN hash : \E m \in 1..p : lrulist[m].key = q},
                    hash' = [q \in K \cup {k} |-> IF q = k THEN [val |-> v, pos |-> at] ELSE hash[q]],
                    answer' \in Value \cup {-1}
             PROVE  CacheInv'
  BY DEF AddsKey, KeysUpTo
<1>0. PICK n : n = Len(lrulist)
  OBVIOUS
<1>1. n \in Nat /\ p <= n /\ x.at = at /\ x.key = k
  BY <1>0, LenProperties DEF CacheInv
<1>2. \A m \in 1..p : m \in 1..n /\ lrulist'[m + 1] = lrulist[m] /\ m + 1 \in 1..(p + 1)
  <2>1. \A m \in 1..p : m \in 1..n /\ m + 1 \in 1..(p + 1) /\ m + 1 # 1 /\ (m + 1) - 1 = m
    BY <1>1, SMT
  <2> QED BY <2>1
<1>3. lrulist'[1] = x /\ 1 \in 1..(p + 1)
  OBVIOUS
<1>4. \A i \in 1..(p + 1) : i = 1 \/ \E m \in 1..p : i = m + 1
  <2>1. \A i \in 1..(p + 1) : i = 1 \/ (i - 1 \in 1..p /\ i = (i - 1) + 1)
    BY SMT
  <2> QED BY <2>1
<1>5. \A m \in 1..p : /\ lrulist[m].key \in K /\ lrulist[m].at = hash[lrulist[m].key].pos
                      /\ lrulist[m].at # at /\ lrulist[m].key # k
  BY <1>0, <1>2 DEF CacheInv, Cache!IteratorsExact, Cache!Used
<1>6. \A i, h \in 1..(p + 1) : lrulist'[i].at = lrulist'[h].at => i = h
  <2> SUFFICES ASSUME NEW i \in 1..(p + 1), NEW h \in 1..(p + 1), lrulist'[i].at = lrulist'[h].at
               PROVE  i = h
    OBVIOUS
  <2>1. CASE i = 1 \/ h = 1
    BY <1>1, <1>2, <1>3, <1>4, <1>5, <2>1
  <2>2. CASE i # 1 /\ h # 1
    <3>1. PICK a \in 1..p, b \in 1..p : i = a + 1 /\ h = b + 1
      BY <1>4, <2>2
    <3>2. a = b
      BY <1>0, <1>2, <3>1 DEF CacheInv
    <3> QED BY <3>1, <3>2
  <2> QED BY <2>1, <2>2
<1>7. /\ DOMAIN hash' = K \cup {k} /\ K \subseteq DOMAIN hash /\ k \notin K
      /\ hash'[k] = [val |-> v, pos |-> at] /\ hash'[k].pos = at
      /\ \A q \in K : hash'[q] = hash[q]
  OBVIOUS
<1>8. hash' \in [DOMAIN hash' -> Entry] /\ DOMAIN hash' \subseteq Key
  <2>1. [val |-> v, pos |-> at] \in Entry /\ \A q \in K : hash[q] \in Entry
    BY <1>7 DEF Entry, CacheInv
  <2> QED BY <1>7, <2>1 DEF CacheInv
<1>9. \A q \in DOMAIN hash' : \E i \in 1..(p + 1) : lrulist'[i] = [at |-> hash'[q].pos, key |-> q]
  <2> SUFFICES ASSUME NEW q \in K \cup {k}
               PROVE  \E i \in 1..(p + 1) : lrulist'[i] = [at |-> hash'[q].pos, key |-> q]
    BY <1>7
  <2>1. CASE q = k
    BY <1>3, <1>7, <2>1
  <2>2. CASE q # k
    <3>1. PICK m \in 1..p : lrulist[m].key = q
      BY <2>2
    <3>2. lrulist[m] = [at |-> hash[q].pos, key |-> q]
      <4>1. lrulist[m] \in CacheNode
        BY <1>0, <1>2, LenProperties DEF CacheInv
      <4> QED BY <1>5, <3>1, <4>1 DEF CacheNode
    <3> QED BY <1>2, <1>7, <2>2, <3>2
  <2> QED BY <2>1, <2>2
<1>10. \A i \in 1..(p + 1) :
         lrulist'[i].key \in DOMAIN hash' /\ hash'[lrulist'[i].key].pos = lrulist'[i].at
  <2> SUFFICES ASSUME NEW i \in 1..(p + 1)
               PROVE  lrulist'[i].key \in DOMAIN hash' /\ hash'[lrulist'[i].key].pos = lrulist'[i].at
    OBVIOUS
  <2>1. CASE i = 1
    BY <1>1, <1>3, <1>7, <2>1
  <2>2. CASE i # 1
    <3>1. PICK m \in 1..p : i = m + 1
      BY <1>4, <2>2
    <3>2. lrulist'[i] = lrulist[m] /\ lrulist[m].key \in K
          /\ hash[lrulist[m].key].pos = lrulist[m].at
      BY <1>2, <1>5, <3>1
    <3>3. hash'[lrulist[m].key] = hash[lrulist[m].key] /\ lrulist[m].key \in DOMAIN hash'
      BY <1>7, <3>2
    <3> QED BY <3>2, <3>3
  <2> QED BY <2>1, <2>2
<1>11. Cache!IteratorsExact'
  BY <1>9, <1>10 DEF Cache!IteratorsExact
<1> QED BY <1>6, <1>8, <1>11 DEF CacheInv

(* The invariant of the cache holds at first. *)
LEMMA InitCache == Cache!Init => CacheInv
<1> SUFFICES ASSUME Cache!Init PROVE CacheInv
  OBVIOUS
<1>1. lrulist \in Seq(CacheNode) /\ Len(lrulist) = 0 /\ DOMAIN hash = {} /\ answer = -1
  BY EmptySeq DEF Cache!Init
<1>2. hash \in [DOMAIN hash -> Entry]
  BY <1>1 DEF Cache!Init
<1>3. \A i \in 1..Len(lrulist) : FALSE
  BY <1>1, SMT
<1> QED BY <1>1, <1>2, <1>3, ExercisesAssumption DEF CacheInv, Cache!IteratorsExact

(* Putting a new key adds it; it drops the last one if they are too many. *)
LEMMA PutNewAdds ==
  ASSUME CacheInv, NEW k \in Key, NEW v \in Value, NEW at \in Address, Cache!put_new(k, v, at)
  PROVE  /\ k \in Key \ DOMAIN hash /\ at \in Address \ Cache!Used
         /\ \E p \in Nat : /\ AddsKey(k, at, v, p)
                           /\ p = Len(lrulist) \/ (p = Len(lrulist) - 1 /\ Len(lrulist) = Capacity)
<1>0. PICK n, x, l : n = Len(lrulist) /\ x = [at |-> at, key |-> k] /\ l = <<x>> \o lrulist
  OBVIOUS
<1>1. /\ n \in Nat /\ n <= Capacity /\ lrulist \in Seq(CacheNode) /\ x \in CacheNode
      /\ Capacity \in Nat /\ Capacity >= 1
  BY <1>0, LenProperties, ExercisesAssumption DEF CacheInv, CacheNode
<1>2. /\ l \in Seq(CacheNode) /\ Len(l) = n + 1
      /\ \A i \in 1..(n + 1) : l[i] = IF i = 1 THEN x ELSE lrulist[i - 1]
  BY <1>0, <1>1, Prepended
<1>3. /\ k \in Key \ DOMAIN hash /\ at \in Address \ Cache!Used /\ answer' \in Value \cup {-1}
  BY DEF Cache!put_new, CacheInv, Address
<1>4. ASSUME NEW q \in DOMAIN hash PROVE \E m \in 1..n : lrulist[m].key = q
  <2>1. PICK m \in 1..n : lrulist[m] = [at |-> hash[q].pos, key |-> q]
    BY <1>0 DEF CacheInv, Cache!IteratorsExact
  <2>2. lrulist[m].key = q
    BY <2>1
  <2> QED BY <2>2
<1>5. CASE ~(Len(l) > Capacity)
  <2>1. lrulist' = l /\ hash' = Cache!Stored(hash, k, v, at)
    BY <1>0, <1>5 DEF Cache!put_new, Cache!Evicts
  <2>2. DOMAIN hash = {q \in DOMAIN hash : \E m \in 1..n : lrulist[m].key = q}
    BY <1>4
  <2>3. hash' = [q \in DOMAIN hash \cup {k} |-> IF q = k THEN [val |-> v, pos |-> at] ELSE hash[q]]
    BY <2>1 DEF Cache!Stored
  <2>4. n <= Len(lrulist) /\ n + 1 <= Capacity
    BY <1>0, <1>1, <1>2, <1>5, SMT
  <2>5. AddsKey(k, at, v, n)
    BY <1>0, <1>2, <1>3, <2>1, <2>2, <2>3, <2>4 DEF AddsKey, KeysUpTo
  <2> QED BY <1>0, <1>1, <1>3, <2>5
<1>6. CASE Len(l) > Capacity
  <2>1. n = Capacity /\ n \in 1..n /\ n + 1 \in 1..Len(l)
    BY <1>1, <1>2, <1>6, SMT
  <2>2. PICK e, K : e = lrulist[n].key /\ K = DOMAIN hash \ {e}
    OBVIOUS
  <2>3. l[n + 1] = lrulist[n]
    <3>1. n + 1 # 1 /\ (n + 1) - 1 = n /\ n + 1 \in 1..(n + 1)
      BY <2>1, SMT
    <3> QED BY <1>2, <3>1
  <2>4. /\ lrulist' = SubSeq(l, 1, (n + 1) - 1) \o SubSeq(l, (n + 1) + 1, Len(l))
        /\ hash' = Cache!Stored([q \in K |-> hash[q]], k, v, at)
    BY <1>0, <1>2, <1>6, <2>2, <2>3
       DEF Cache!put_new, Cache!Evicts, Cache!Victim, Cache!RemoveAt, Cache!Restrict
  <2>5. hash' = [q \in K \cup {k} |-> IF q = k THEN [val |-> v, pos |-> at] ELSE hash[q]]
    BY <2>4 DEF Cache!Stored
  <2>6. /\ lrulist' \in Seq(CacheNode) /\ Len(lrulist') = n
        /\ \A i \in 1..n : lrulist'[i] = l[i]
    <3>1. /\ lrulist' \in Seq(CacheNode) /\ Len(lrulist') = Len(l) - 1
          /\ \A i \in 1..(Len(l) - 1) : lrulist'[i] = IF i < n + 1 THEN l[i] ELSE l[i + 1]
      BY <1>2, <2>1, <2>4, Removed
    <3>2. Len(l) - 1 = n /\ \A i \in 1..n : i < n + 1
      BY <1>1, <1>2, SMT
    <3> QED BY <3>1, <3>2
  <2>7. PICK p : p = n - 1
    OBVIOUS
  <2>8. p \in Nat /\ p <= Len(lrulist) /\ p + 1 <= Capacity /\ p + 1 = n
    BY <1>0, <1>1, <2>1, <2>7, SMT
  <2>9. \A i \in 1..(p + 1) : lrulist'[i] = IF i = 1 THEN x ELSE lrulist[i - 1]
    <3>1. \A i \in 1..n : i \in 1..(n + 1)
      BY <1>1, SMT
    <3> QED BY <1>2, <2>6, <2>8, <3>1
  <2>10. K = {q \in DOMAIN hash : \E m \in 1..p : lrulist[m].key = q}
    <3>1. \A m \in 1..n : m \in 1..p \/ m = n
      BY <1>1, <2>8, SMT
    <3>2. \A q \in K : \E m \in 1..p : lrulist[m].key = q
      BY <1>4, <2>2, <3>1
    <3>3. ASSUME NEW m \in 1..p PROVE lrulist[m].key # e
      <4>1. m \in 1..n /\ m # n
        BY <1>1, <2>8, SMT
      <4>2. lrulist[m].at # lrulist[n].at
        BY <1>0, <2>1, <4>1 DEF CacheInv
      <4>3. lrulist[m].at = hash[lrulist[m].key].pos /\ lrulist[n].at = hash[e].pos
        BY <1>0, <2>1, <2>2, <4>1 DEF CacheInv, Cache!IteratorsExact
      <4> QED BY <4>2, <4>3
    <3> QED BY <2>2, <3>2, <3>3
  <2>11. AddsKey(k, at, v, p)
    BY <1>0, <1>3, <2>5, <2>6, <2>8, <2>9, <2>10 DEF AddsKey, KeysUpTo
  <2> QED BY <1>0, <1>3, <2>1, <2>7, <2>8, <2>11
<1> QED BY <1>5, <1>6

(* Putting a new key keeps the invariant. *)
LEMMA PutNewKeeps ==
  ASSUME CacheInv, NEW k \in Key, NEW v \in Value, NEW at \in Address, Cache!put_new(k, v, at)
  PROVE  CacheInv'
  BY PutNewAdds, FrontKeeps

(* A get and a put of a key that is there both move it. *)
LEMMA GetMoves ==
  ASSUME CacheInv, NEW k \in Key, NEW at \in Address, Cache!get(k, at)
  PROVE  /\ k \in DOMAIN hash /\ hash[k].val \in Value
         /\ MovesKey(k, at, hash[k].val) /\ answer' = hash[k].val
<1>1. k \in DOMAIN hash /\ Cache!move_front(hash[k].pos, at) /\ answer' = hash[k].val
      /\ hash' = [hash EXCEPT ![k].pos = at]
  BY DEF Cache!get
<1>2. hash[k] \in Entry
  BY <1>1 DEF CacheInv
<1>3. hash' = [q \in DOMAIN hash |-> IF q = k THEN [val |-> hash[k].val, pos |-> at] ELSE hash[q]]
  <2>1. [hash[k] EXCEPT !.pos = at] = [val |-> hash[k].val, pos |-> at]
    BY <1>2 DEF Entry
  <2>2. hash' = [hash EXCEPT ![k] = [hash[k] EXCEPT !.pos = at]]
    BY <1>1
  <2>3. hash \in [DOMAIN hash -> Entry]
    BY DEF CacheInv
  <2> HIDE DEF Entry
  <2> QED BY <2>1, <2>2, <2>3
<1>4. hash[k].val \in Value
  BY <1>2 DEF Entry
<1> QED BY <1>1, <1>3, <1>4 DEF MovesKey

(* Putting a key again moves it. *)
LEMMA PutAgainMoves ==
  ASSUME CacheInv, NEW k \in Key, NEW v \in Value, NEW at \in Address, Cache!put_again(k, v, at)
  PROVE  k \in DOMAIN hash /\ MovesKey(k, at, v)
<1>1. k \in DOMAIN hash /\ Cache!move_front(hash[k].pos, at) /\ answer' = answer
      /\ hash' = [q \in DOMAIN hash \cup {k} |-> IF q = k THEN [val |-> v, pos |-> at] ELSE hash[q]]
  BY DEF Cache!put_again, Cache!Stored
<1>2. DOMAIN hash \cup {k} = DOMAIN hash /\ answer' \in Value \cup {-1}
  BY <1>1 DEF CacheInv
<1> QED BY <1>1, <1>2 DEF MovesKey

(* Every step of the cache keeps its invariant. *)
LEMMA CacheStep == CacheInv /\ Cache!Next => CacheInv'
<1> SUFFICES ASSUME CacheInv, Cache!Next PROVE CacheInv'
  OBVIOUS
<1> USE DEF Address
<1>1. ASSUME NEW k \in Key, Cache!get_misses(k) PROVE CacheInv'
  BY <1>1 DEF Cache!get_misses, CacheInv, Cache!IteratorsExact
<1>2. ASSUME NEW k \in Key, NEW at \in Address, Cache!get(k, at) PROVE CacheInv'
  BY <1>2, GetMoves, MoveKeeps
<1>3. ASSUME NEW k \in Key, NEW v \in Value, NEW at \in Address, Cache!put_again(k, v, at) PROVE CacheInv'
  BY <1>3, PutAgainMoves, MoveKeeps
<1> QED BY <1>1, <1>2, <1>3, PutNewKeeps DEF Cache!Next

(* It holds whatever program runs. *)
LEMMA CacheInvariance == Spec => []CacheInv
<1>1. Init => CacheInv
  BY InitCache DEF Init
<1>2. CacheInv /\ [Next]_vars => CacheInv'
  <2>1. CacheInv /\ UNCHANGED cacheVars => CacheInv'
    BY DEF CacheInv, cacheVars, Cache!IteratorsExact
  <2>2. [Next]_vars => Cache!Next \/ UNCHANGED cacheVars
    BY DEF Next, Runs, vars
  <2> QED BY <2>1, <2>2, CacheStep
<1> QED BY <1>1, <1>2, PTL DEF Spec

(***************************************************************************)
(* Every entry of the cache's hash table points at the one node of its own *)
(* key, and every node has its entry, although addresses are used again    *)
(* (leetcode.cc 188-220), for any keys and any capacity.                   *)
(***************************************************************************)
THEOREM IteratorsAlwaysExact == Spec => []IteratorsExact
<1>1. CacheInv => IteratorsExact
  BY DEF CacheInv, IteratorsExact
<1> QED BY <1>1, CacheInvariance, PTL

(* The abstract cache: the list of keys, each with its value. *)
Item(j) == [key |-> lrulist[j].key, val |-> hash[lrulist[j].key].val]
Items == [j \in 1..Len(lrulist) |-> Item(j)]
ItemSet == [key : Key, val : Value]

(* What the cache keeps, as RecentCache sees it. *)
LEMMA ItemsProperties ==
  ASSUME CacheInv
  PROVE  /\ Items \in Seq(ItemSet) /\ Len(Items) = Len(lrulist) /\ Len(lrulist) \in Nat
         /\ DOMAIN Items = 1..Len(lrulist)
         /\ \A j \in 1..Len(lrulist) :
              /\ Items[j] = Item(j) /\ Items[j].key = lrulist[j].key
              /\ lrulist[j].key \in DOMAIN hash
         /\ \A i, j \in 1..Len(lrulist) : lrulist[i].key = lrulist[j].key => i = j
<1>1. Len(lrulist) \in Nat
  BY LenProperties DEF CacheInv
<1>2. \A j \in 1..Len(lrulist) : lrulist[j].key \in DOMAIN hash /\ hash[lrulist[j].key].pos = lrulist[j].at
  BY DEF CacheInv, Cache!IteratorsExact
<1>3. \A j \in 1..Len(lrulist) : Item(j) \in ItemSet
  <2> SUFFICES ASSUME NEW j \in 1..Len(lrulist) PROVE Item(j) \in ItemSet
    OBVIOUS
  <2>1. hash[lrulist[j].key] \in Entry /\ lrulist[j].key \in Key
    BY <1>2 DEF CacheInv
  <2> QED BY <2>1 DEF Item, ItemSet, Entry
<1>4. Items \in [1..Len(lrulist) -> ItemSet]
  BY <1>3 DEF Items
<1>5. Items \in Seq(ItemSet)
  BY <1>1, <1>4, SeqDef
<1>6. DOMAIN Items = 1..Len(lrulist) /\ Len(Items) = Len(lrulist)
  BY <1>1, <1>4, <1>5, LenProperties
<1>7. \A j \in 1..Len(lrulist) : Items[j] = Item(j) /\ Items[j].key = lrulist[j].key
  BY DEF Items, Item
<1>8. ASSUME NEW i \in 1..Len(lrulist), NEW j \in 1..Len(lrulist), lrulist[i].key = lrulist[j].key
      PROVE  i = j
  <2>1. lrulist[i].at = lrulist[j].at
    BY <1>2, <1>8
  <2> QED BY <2>1 DEF CacheInv
<1> QED BY <1>1, <1>2, <1>5, <1>6, <1>7, <1>8

(* Moving a key moves its item, with the value it gets. *)
LEMMA MoveRefines ==
  ASSUME CacheInv, NEW k \in DOMAIN hash, NEW at \in Address, NEW v \in Value, MovesKey(k, at, v)
  PROVE  /\ [key |-> k, val |-> v] \in ItemSet
         /\ Items' = <<[key |-> k, val |-> v]>> \o Cache!Abstract!Others(k)
         /\ Len(Items') <= Capacity
         /\ [key |-> k, val |-> hash[k].val] \in Cache!Abstract!ToSet(Items)
<1>0. PICK j, n, it : j = Cache!Node(hash[k].pos) /\ n = Len(lrulist) /\ it = [key |-> k, val |-> v]
  OBVIOUS
<1>1. /\ Items \in Seq(ItemSet) /\ Len(Items) = n /\ n \in Nat /\ DOMAIN Items = 1..n
      /\ \A i \in 1..n : Items[i] = Item(i) /\ Items[i].key = lrulist[i].key /\ lrulist[i].key \in DOMAIN hash
      /\ \A i, h \in 1..n : lrulist[i].key = lrulist[h].key => i = h
  BY <1>0, ItemsProperties
<1>2. j \in 1..n /\ lrulist[j].key = k
  <2>1. /\ Cache!Node(hash[k].pos) \in 1..Len(lrulist)
        /\ lrulist[Cache!Node(hash[k].pos)] = [at |-> hash[k].pos, key |-> k]
    BY NodeOf, Zenon
  <2>2. j \in 1..n /\ lrulist[j] = [at |-> hash[k].pos, key |-> k]
    BY <1>0, <2>1, Zenon
  <2> QED BY <2>2
<1>3. it \in ItemSet
  BY <1>0 DEF ItemSet, CacheInv
<1>4. Cache!Abstract!Others(k) = SubSeq(Items, 1, j - 1) \o SubSeq(Items, j + 1, Len(Items))
  <2>1. \A i \in DOMAIN Items : Items[i].key = k <=> i = j
    BY <1>1, <1>2
  <2>2. Cache!Abstract!At(k) = j
    BY <1>1, <1>2, <2>1 DEF Cache!Abstract!At, Items, Item
  <2>3. \E i \in DOMAIN Items : Items[i].key = k
    BY <1>1, <1>2
  <2>4. Cache!Abstract!Others(k) = Cache!Abstract!RemoveAt(Items, Cache!Abstract!At(k))
    BY <2>3 DEF Cache!Abstract!Others, Items, Item
  <2> QED BY <2>2, <2>4 DEF Cache!Abstract!RemoveAt
<1>5. InFront(it, Items, j) \in Seq(ItemSet) /\ Moved(InFront(it, Items, j), it, Items, j)
  BY <1>1, <1>2, <1>3, MovedToFront
<1>6. /\ Len(lrulist') = n
      /\ \A i \in 1..n : lrulist'[i] = IF i = 1 THEN [at |-> at, key |-> k]
                                       ELSE IF i <= j THEN lrulist[i - 1] ELSE lrulist[i]
  <2>1. Moved(lrulist', [at |-> at, key |-> k], lrulist, j)
    BY <1>0, ListMoves
  <2> QED BY <1>0, <2>1 DEF Moved
<1>7. hash'[k].val = v /\ \A q \in DOMAIN hash : q # k => hash'[q] = hash[q]
  BY DEF MovesKey
<1>8. Items' = [i \in 1..n |-> [key |-> lrulist'[i].key, val |-> hash'[lrulist'[i].key].val]]
  BY <1>6 DEF Items, Item
<1>9. ASSUME NEW i \in 1..n PROVE Items'[i] = InFront(it, Items, j)[i]
  <2>1. CASE i = 1
    <3>1. lrulist'[i].key = k
      BY <1>6, <2>1
    <3>2. Items'[i] = it
      BY <1>0, <1>7, <1>8, <3>1
    <3> QED BY <1>1, <1>5, <2>1, <3>2 DEF Moved
  <2>2. CASE i # 1
    <3>1. PICK m : m = IF i <= j THEN i - 1 ELSE i
      OBVIOUS
    <3>2. m \in 1..n /\ m # j
      BY <1>1, <1>2, <2>2, <3>1, SMT
    <3>3. lrulist'[i] = lrulist[m] /\ InFront(it, Items, j)[i] = Items[m]
      BY <1>1, <1>5, <1>6, <2>2, <3>1 DEF Moved
    <3>4. lrulist[m].key # k /\ lrulist[m].key \in DOMAIN hash
      BY <1>1, <1>2, <3>2
    <3>5. Items'[i] = [key |-> lrulist[m].key, val |-> hash[lrulist[m].key].val]
      BY <1>7, <1>8, <3>3, <3>4
    <3> QED BY <1>1, <3>2, <3>3, <3>5 DEF Item
  <2> QED BY <2>1, <2>2
<1>10. Items' \in Seq(ItemSet) /\ Len(Items') = n
  <2>1. InFront(it, Items, j) \in [1..n -> ItemSet]
    BY <1>1, <1>5, LenProperties DEF Moved
  <2>2. Items' \in [1..n -> ItemSet]
    BY <1>8, <1>9, <2>1
  <2>3. Items' \in Seq(ItemSet)
    BY <1>1, <2>2, SeqDef
  <2> QED BY <1>1, <2>2, <2>3, LenProperties
<1>11. Items' = InFront(it, Items, j)
  BY <1>1, <1>5, <1>9, <1>10, SeqEqual DEF Moved
<1>12. [key |-> k, val |-> hash[k].val] \in Cache!Abstract!ToSet(Items)
  <2>1. Items[j] = [key |-> k, val |-> hash[k].val] /\ j \in DOMAIN Items
    BY <1>1, <1>2 DEF Item
  <2> QED BY <2>1 DEF Cache!Abstract!ToSet
<1>13. n <= Capacity
  BY <1>0 DEF CacheInv
<1> QED BY <1>0, <1>3, <1>4, <1>10, <1>11, <1>12, <1>13 DEF InFront

(* A new key is put in front of the others, and the last goes if they are too
   many. *)
LEMMA PutNewRefines ==
  ASSUME CacheInv, NEW k \in Key, NEW v \in Value, NEW at \in Address, Cache!put_new(k, v, at)
  PROVE  Cache!Abstract!Put(k, v)
<1>0. PICK n, it : n = Len(lrulist) /\ it = [key |-> k, val |-> v]
  OBVIOUS
<1>1. PICK p \in Nat : AddsKey(k, at, v, p) /\ (p = n \/ (p = n - 1 /\ n = Capacity))
  BY <1>0, PutNewAdds
<1>2. k \notin DOMAIN hash /\ UNCHANGED answer
  BY DEF Cache!put_new
<1>3. /\ Items \in Seq(ItemSet) /\ Len(Items) = n /\ n \in Nat /\ DOMAIN Items = 1..n
      /\ \A i \in 1..n : Items[i] = Item(i) /\ Items[i].key = lrulist[i].key /\ lrulist[i].key \in DOMAIN hash
  BY <1>0, ItemsProperties
<1>4. Cache!Abstract!Others(k) = Items
  <2>1. \A i \in DOMAIN Items : Items[i].key # k
    BY <1>2, <1>3
  <2> QED BY <2>1 DEF Cache!Abstract!Others, Items, Item
<1>5. it \in ItemSet
  BY <1>0 DEF ItemSet
<1>6. PICK used : used = <<it>> \o Items
  OBVIOUS
<1>7. /\ used \in Seq(ItemSet) /\ Len(used) = n + 1
      /\ \A i \in 1..(n + 1) : used[i] = IF i = 1 THEN it ELSE Items[i - 1]
  BY <1>3, <1>5, <1>6, Prepended
<1>8. /\ p + 1 <= Capacity /\ p <= n /\ Len(lrulist') = p + 1
      /\ \A i \in 1..(p + 1) : lrulist'[i] = IF i = 1 THEN [at |-> at, key |-> k] ELSE lrulist[i - 1]
      /\ hash' = [q \in KeysUpTo(p) \cup {k} |-> IF q = k THEN [val |-> v, pos |-> at] ELSE hash[q]]
  BY <1>0, <1>1 DEF AddsKey
<1>9. Items' = [i \in 1..(p + 1) |-> [key |-> lrulist'[i].key, val |-> hash'[lrulist'[i].key].val]]
  BY <1>8 DEF Items, Item
<1>10. ASSUME NEW i \in 1..(p + 1) PROVE Items'[i] = used[i] /\ i \in 1..(n + 1)
  <2>0. i \in 1..(n + 1)
    BY <1>3, <1>8, SMT
  <2>1. CASE i = 1
    <3>1. lrulist'[i].key = k
      BY <1>8, <2>1
    <3>2. hash'[k] = [val |-> v, pos |-> at]
      BY <1>8
    <3>3. Items'[i] = it
      BY <1>0, <1>9, <3>1, <3>2
    <3> QED BY <1>7, <2>0, <2>1, <3>3
  <2>2. CASE i # 1
    <3>1. PICK m : m = i - 1
      OBVIOUS
    <3>2. m \in 1..p /\ m \in 1..n
      BY <1>3, <1>8, <2>2, <3>1, SMT
    <3>3. lrulist'[i] = lrulist[m] /\ used[i] = Items[m]
      BY <1>7, <1>8, <2>0, <2>2, <3>1
    <3>4. lrulist[m].key # k /\ lrulist[m].key \in KeysUpTo(p)
      BY <1>2, <1>3, <3>2 DEF KeysUpTo
    <3>5. hash'[lrulist[m].key] = hash[lrulist[m].key]
      BY <1>8, <3>4
    <3>6. Items'[i] = [key |-> lrulist[m].key, val |-> hash[lrulist[m].key].val]
      BY <1>9, <3>3, <3>5
    <3> QED BY <1>3, <2>0, <3>2, <3>3, <3>6 DEF Item
  <2> QED BY <2>1, <2>2
<1>11. Items' \in Seq(ItemSet) /\ Len(Items') = p + 1
  <2>1. used \in [1..(n + 1) -> ItemSet]
    BY <1>7, LenProperties
  <2>2. Items' \in [1..(p + 1) -> ItemSet]
    BY <1>9, <1>10, <2>1
  <2>3. p + 1 \in Nat
    BY <1>1
  <2>4. Items' \in Seq(ItemSet)
    BY <2>2, <2>3, SeqDef
  <2> QED BY <2>2, <2>3, <2>4, LenProperties
<1>12. Items' = IF Len(used) > Capacity THEN SubSeq(used, 1, Len(used) - 1) ELSE used
  <2>1. CASE p = n
    <3>1. ~(Len(used) > Capacity)
      BY <1>3, <1>7, <1>8, <2>1, ExercisesAssumption, SMT
    <3>2. Items' = used
      BY <1>7, <1>10, <1>11, <2>1, SeqEqual
    <3> QED BY <3>1, <3>2
  <2>2. CASE p = n - 1 /\ n = Capacity
    <3>1. Len(used) > Capacity /\ Len(used) - 1 = n /\ p + 1 = n
      BY <1>3, <1>7, <2>2, SMT
    <3>2. \A i \in 1..n : used[i] \in ItemSet
      <4>1. \A i \in 1..n : i \in 1..(n + 1)
        BY <1>3, SMT
      <4> QED BY <1>7, <4>1, LenProperties
    <3>3. /\ SubSeq(used, 1, n) \in Seq(ItemSet)
          /\ Len(SubSeq(used, 1, n)) = IF 1 <= n THEN n - 1 + 1 ELSE 0
          /\ \A i \in 1..(n - 1 + 1) : SubSeq(used, 1, n)[i] = used[1 + i - 1]
      BY <1>3, <3>2, SubSeqProperties
    <3>4. n - 1 + 1 = n /\ (1 <= n \/ n = 0) /\ \A i \in 1..n : 1 + i - 1 = i
      BY <1>3, SMT
    <3>5. Len(SubSeq(used, 1, n)) = n /\ \A i \in 1..n : SubSeq(used, 1, n)[i] = used[i]
      BY <3>3, <3>4
    <3>6. Items' = SubSeq(used, 1, n)
      BY <1>10, <1>11, <3>1, <3>3, <3>5, SeqEqual
    <3> QED BY <3>1, <3>6
  <2> QED BY <1>1, <2>1, <2>2
<1>13. Items' = IF Len(<<it>> \o Cache!Abstract!Others(k)) > Capacity
                THEN Cache!Abstract!Front(<<it>> \o Cache!Abstract!Others(k))
                ELSE <<it>> \o Cache!Abstract!Others(k)
  BY <1>4, <1>6, <1>12 DEF Cache!Abstract!Front
<1> QED BY <1>0, <1>2, <1>13 DEF Cache!Abstract!Put, Items, Item

(* Every step of the cache is one of RecentCache. *)
LEMMA CacheRefines ==
  ASSUME CacheInv, Cache!Next
  PROVE  Cache!Abstract!Next
<1> USE DEF Address
<1>1. ASSUME NEW k \in Key, Cache!get_misses(k) PROVE Cache!Abstract!Next
  <2>1. /\ k \notin DOMAIN hash /\ answer' = -1 /\ Items' = Items
    BY <1>1 DEF Cache!get_misses, Items, Item
  <2>2. \A it \in Cache!Abstract!ToSet(Items) : it.key # k
    BY <2>1, ItemsProperties DEF Cache!Abstract!ToSet
  <2>3. Cache!Abstract!Miss(k)
    BY <2>1, <2>2 DEF Cache!Abstract!Miss, Items, Item
  <2> QED BY <2>3 DEF Cache!Abstract!Next
<1>2. ASSUME NEW k \in Key, NEW at \in Address, Cache!get(k, at) PROVE Cache!Abstract!Next
  <2>0. PICK v : v = hash[k].val
    OBVIOUS
  <2>1. k \in DOMAIN hash /\ v \in Value /\ MovesKey(k, at, v) /\ answer' = v
    BY <1>2, <2>0, GetMoves
  <2>2. /\ Items' = <<[key |-> k, val |-> v]>> \o Cache!Abstract!Others(k)
        /\ [key |-> k, val |-> v] \in Cache!Abstract!ToSet(Items)
    BY <2>0, <2>1, MoveRefines
  <2>3. Cache!Abstract!Hit([key |-> k, val |-> v])
    BY <2>1, <2>2 DEF Cache!Abstract!Hit, Items, Item
  <2> QED BY <2>1, <2>3 DEF Cache!Abstract!Next
<1>3. ASSUME NEW k \in Key, NEW v \in Value, NEW at \in Address, Cache!put_again(k, v, at)
      PROVE  Cache!Abstract!Next
  <2>1. k \in DOMAIN hash /\ MovesKey(k, at, v) /\ UNCHANGED answer
    BY <1>3, PutAgainMoves DEF Cache!put_again
  <2>2. /\ Items' = <<[key |-> k, val |-> v]>> \o Cache!Abstract!Others(k)
        /\ Len(Items') <= Capacity
    BY <2>1, MoveRefines
  <2>3. ~(Len(Items') > Capacity)
    <3>1. Len(Items') \in Nat
      <4>1. CacheInv'
        BY <2>1, MoveKeeps
      <4>2. Len(lrulist') \in Nat
        BY <4>1, LenProperties DEF CacheInv
      <4>3. Items' = [j \in 1..Len(lrulist') |-> Item(j)']
        BY DEF Items
      <4> QED BY <4>2, <4>3, LenProperties
    <3> QED BY <2>2, <3>1, ExercisesAssumption, SMT
  <2>4. Cache!Abstract!Put(k, v)
    BY <2>1, <2>2, <2>3 DEF Cache!Abstract!Put, Items, Item
  <2> QED BY <2>4 DEF Cache!Abstract!Next
<1>4. ASSUME NEW k \in Key, NEW v \in Value, NEW at \in Address, Cache!put_new(k, v, at)
      PROVE  Cache!Abstract!Next
  BY <1>4, PutNewRefines DEF Cache!Abstract!Next
<1> QED BY <1>1, <1>2, <1>3, <1>4 DEF Cache!Next

(***************************************************************************)
(* The cache keeps the Capacity keys used last, each with the value put    *)
(* last (leetcode.cc 180-232): it implements RecentCache.                  *)
(***************************************************************************)
THEOREM CacheImplementsRecent == Spec => Cache!ImplementsCache
<1>1. Init => Cache!Abstract!Init
  <2> SUFFICES ASSUME Cache!Init PROVE Items = <<>> /\ answer = -1
    BY DEF Init, Cache!Abstract!Init, Items, Item
  <2>1. Len(lrulist) = 0 /\ answer = -1
    BY DEF Cache!Init
  <2>2. CacheInv
    BY InitCache
  <2>3. Items \in Seq(ItemSet) /\ Len(Items) = 0
    BY <2>1, <2>2, ItemsProperties
  <2> QED BY <2>1, <2>3, EmptySeq
<1>2. CacheInv /\ [Next]_vars => [Cache!Abstract!Next]_(Cache!Abstract!cacheVars)
  <2>1. UNCHANGED cacheVars => UNCHANGED Cache!Abstract!cacheVars
    BY DEF cacheVars, Cache!Abstract!cacheVars
  <2>2. [Next]_vars => Cache!Next \/ UNCHANGED cacheVars
    BY DEF Next, Runs, vars
  <2> QED BY <2>1, <2>2, CacheRefines
<1> QED BY <1>1, <1>2, CacheInvariance, PTL
        DEF Spec, Cache!ImplementsCache, Cache!Abstract!Spec

-----------------------------------------------------------------------------
(***************************************************************************)
(* The reactor of test_simple_future.cc.                                   *)
(***************************************************************************)

FutureValue == Nat \cup {Future!Pending, Future!Broken}

(* What marks a promise that is not kept, or is broken, is no result. *)
LEMMA Marks ==
  /\ Future!Pending = -2 /\ Future!Broken = -1 /\ Future!None = 0
  /\ Future!Off = <<0, 0>> /\ Future!Off \in Nat \X Nat
  /\ Future!Pending \notin Nat /\ Future!Broken \notin Nat /\ Future!Pending # Future!Broken
  BY DEF Future!Pending, Future!Broken, Future!None, Future!Off

Waits(r) == \E i \in 1..Len(queue) : queue[i] = r
InHand(r) == c1 = r /\ reactor = "operate"

Requests ==
  /\ asked \in Seq(Nat \X Nat) /\ future \in Seq(FutureValue) /\ Len(asked) = Len(future)
  /\ queue \in Seq(Nat) /\ Len(queue) <= Slots
  /\ \A i \in 1..Len(queue) : queue[i] \in 1..Len(future)
  /\ c1 \in 0..Len(future)
  /\ reactor \in {"read", "operate", "check", "off", "undefined"}
  /\ test \in {"waits", "leaves", "left"}

(* The queue keeps the order of the requests, and the reactor has one that was
   before them all. *)
Ordered ==
  /\ \A i, j \in 1..Len(queue) : i < j => queue[i] < queue[j]
  /\ reactor = "operate" => c1 \in 1..Len(future) /\ \A i \in 1..Len(queue) : c1 < queue[i]
  /\ reactor = "check" => c1 \in 1..Len(future)

Promises ==
  /\ \A r \in 1..Len(future) : future[r] = Future!Pending <=> Waits(r) \/ InHand(r)
  /\ \A r, s \in 1..Len(future) : r < s /\ future[s] \in Nat => future[r] # Future!Pending

ReactorInv == Requests /\ Ordered /\ Promises

(* The invariant of the reactor holds at first. *)
LEMMA InitReactor == Future!Init => ReactorInv
<1> SUFFICES ASSUME Future!Init PROVE ReactorInv
  OBVIOUS
<1>1. asked = <<>> /\ future = <<>> /\ queue = <<>> /\ c1 = 0 /\ reactor = "read" /\ test = "waits"
  BY Marks DEF Future!Init
<1>2. Len(asked) = 0 /\ Len(future) = 0 /\ Len(queue) = 0
  BY <1>1
<1> QED BY <1>1, <1>2, ExercisesAssumption DEF ReactorInv, Requests, Ordered, Promises

(* A request that is submitted joins the end of the queue, or is refused. *)
LEMMA SubmitKeeps ==
  ASSUME ReactorInv, NEW ab \in Nat \X Nat, Future!Submit(ab), test' \in {"waits", "leaves", "left"}
  PROVE  ReactorInv'
<1>1. PICK n, q, v : n = Len(future) /\ q = Len(queue) /\ v = Future!Made
  OBVIOUS
<1>2. /\ n \in Nat /\ q \in Nat /\ Len(asked) = n
      /\ asked \in Seq(Nat \X Nat) /\ future \in Seq(FutureValue) /\ queue \in Seq(Nat)
      /\ \A i \in 1..q : queue[i] \in 1..n
  BY <1>1, LenProperties DEF ReactorInv, Requests
<1>3. /\ asked' = Append(asked, ab) /\ future' = Append(future, v)
      /\ queue' = IF q < Slots THEN Append(queue, n + 1) ELSE queue
      /\ v = IF q < Slots THEN Future!Pending ELSE Future!Broken
      /\ c1' = c1 /\ reactor' = reactor
  BY <1>1, <1>2 DEF Future!Submit, Future!Made, Future!Room
<1>4. v \in FutureValue /\ v \notin Nat
  BY <1>3, Marks DEF FutureValue
<1>5. /\ asked' \in Seq(Nat \X Nat) /\ Len(asked') = n + 1
      /\ future' \in Seq(FutureValue) /\ Len(future') = n + 1 /\ future'[n + 1] = v
      /\ \A r \in 1..n : future'[r] = future[r]
  BY <1>1, <1>2, <1>3, <1>4, AppendProperties
<1>6. /\ queue' \in Seq(Nat) /\ Len(queue') = IF q < Slots THEN q + 1 ELSE q
      /\ \A i \in 1..q : queue'[i] = queue[i]
      /\ q < Slots => queue'[q + 1] = n + 1
  BY <1>1, <1>2, <1>3, AppendProperties
<1>7. \A i \in 1..Len(queue') : i \in 1..q \/ (q < Slots /\ i = q + 1)
  BY <1>2, <1>6
<1>0. /\ \A x \in 1..n : x \in 1..(n + 1) /\ x # n + 1 /\ x < n + 1
      /\ n + 1 \in 1..(n + 1)
  BY <1>2
<1>8. Requests'
  <2>1. \A i \in 1..Len(queue') : queue'[i] \in 1..(n + 1)
    <3> SUFFICES ASSUME NEW i \in 1..Len(queue') PROVE queue'[i] \in 1..(n + 1)
      OBVIOUS
    <3>1. CASE i \in 1..q
      <4>1. queue'[i] \in 1..n
        BY <1>2, <1>6, <3>1, Zenon
      <4> QED BY <1>0, <4>1, Zenon
    <3>2. CASE q < Slots /\ i = q + 1
      BY <1>0, <1>6, <3>2, Zenon
    <3> QED BY <1>7, <3>1, <3>2
  <2>2. Len(queue') <= Slots
    BY <1>1, <1>2, <1>6, ExercisesAssumption DEF ReactorInv, Requests
  <2>3. c1' \in 0..(n + 1)
    BY <1>1, <1>2, <1>3 DEF ReactorInv, Requests
  <2> QED BY <1>3, <1>5, <1>6, <2>1, <2>2, <2>3 DEF ReactorInv, Requests
<1>9. Ordered'
  <2>1. \A i, j \in 1..Len(queue') : i < j => queue'[i] < queue'[j]
    <3> SUFFICES ASSUME NEW i \in 1..Len(queue'), NEW j \in 1..Len(queue'), i < j
                 PROVE  queue'[i] < queue'[j]
      OBVIOUS
    <3>1. i \in 1..q
      BY <1>2, <1>6
    <3>2. queue'[i] = queue[i] /\ queue[i] \in 1..n
      BY <1>2, <1>6, <3>1, Zenon
    <3>3. CASE j \in 1..q
      <4>1. queue'[j] = queue[j]
        BY <1>6, <3>3, Zenon
      <4> QED BY <1>1, <3>1, <3>2, <3>3, <4>1 DEF ReactorInv, Ordered
    <3>4. CASE q < Slots /\ j = q + 1
      <4>1. queue'[j] = n + 1
        BY <1>6, <3>4, Zenon
      <4> QED BY <1>0, <3>2, <4>1, Zenon
    <3> QED BY <1>7, <3>3, <3>4
  <2>2. reactor = "operate" => c1' \in 1..(n + 1) /\ \A i \in 1..Len(queue') : c1' < queue'[i]
    BY <1>1, <1>2, <1>3, <1>6, <1>7 DEF ReactorInv, Ordered
  <2>3. reactor = "check" => c1' \in 1..(n + 1)
    BY <1>1, <1>2, <1>3 DEF ReactorInv, Ordered
  <2> QED BY <1>3, <1>5, <2>1, <2>2, <2>3 DEF Ordered
<1>10. Promises'
  <2>1. ASSUME NEW r \in 1..n PROVE future'[r] = Future!Pending <=> (Waits(r) \/ InHand(r))'
    <3>1. Waits(r)' <=> Waits(r)
      <4>1. \A i \in 1..q : i \in 1..Len(queue')
        BY <1>2, <1>6
      <4>2. r # n + 1
        BY <1>2
      <4> QED BY <1>1, <1>6, <1>7, <4>1, <4>2 DEF Waits
    <3>2. InHand(r)' <=> InHand(r)
      BY <1>3 DEF InHand
    <3> QED BY <1>1, <1>5, <3>1, <3>2 DEF ReactorInv, Promises
  <2>2. future'[n + 1] = Future!Pending <=> (Waits(n + 1) \/ InHand(n + 1))'
    <3>1. ~(InHand(n + 1)')
      BY <1>1, <1>2, <1>3 DEF InHand, ReactorInv, Requests
    <3>2. Waits(n + 1)' <=> q < Slots
      <4>1. q < Slots => q + 1 \in 1..Len(queue')
        BY <1>2, <1>6
      <4>2. \A i \in 1..q : queue'[i] # n + 1
        BY <1>0, <1>2, <1>6, Zenon
      <4> QED BY <1>6, <1>7, <4>1, <4>2 DEF Waits
    <3> QED BY <1>3, <1>5, <3>1, <3>2, Marks
  <2>3. \A r \in 1..(n + 1) : r \in 1..n \/ r = n + 1
    BY <1>2
  <2>4. \A r, s \in 1..(n + 1) : r < s /\ future'[s] \in Nat => future'[r] # Future!Pending
    <3> SUFFICES ASSUME NEW r \in 1..(n + 1), NEW s \in 1..(n + 1), r < s, future'[s] \in Nat
                 PROVE  future'[r] # Future!Pending
      OBVIOUS
    <3>1. s # n + 1
      BY <1>4, <1>5
    <3>2. s \in 1..n /\ r \in 1..n
      BY <1>2, <3>1
    <3> QED BY <1>1, <1>5, <3>2 DEF ReactorInv, Promises
  <2> QED BY <1>5, <2>1, <2>2, <2>3, <2>4 DEF Promises
<1> QED BY <1>8, <1>9, <1>10 DEF ReactorInv

(* The reactor takes the first request into its hand, ... *)
LEMMA ReadKeeps == ASSUME ReactorInv, Future!Read PROVE ReactorInv'
<1>1. PICK n, q : n = Len(future) /\ q = Len(queue)
  OBVIOUS
<1>2. /\ n \in Nat /\ q \in Nat /\ queue \in Seq(Nat) /\ \A i \in 1..q : queue[i] \in 1..n
  BY <1>1, LenProperties DEF ReactorInv, Requests
<1>3. /\ reactor = "read" /\ asked' = asked /\ future' = future /\ test' = test
  BY DEF Future!Read
<1>4. CASE test = "left" /\ reactor' = "undefined" /\ UNCHANGED <<queue, c1>>
  <2>1. Requests' /\ Ordered'
    BY <1>3, <1>4 DEF ReactorInv, Requests, Ordered
  <2>2. Promises'
    BY <1>3, <1>4 DEF ReactorInv, Promises, Waits, InHand
  <2> QED BY <2>1, <2>2 DEF ReactorInv
<1>5. CASE /\ queue # <<>> /\ c1' = queue[1] /\ reactor' = "operate"
           /\ queue' = SubSeq(queue, 1, 1 - 1) \o SubSeq(queue, 1 + 1, Len(queue))
  <2> DEFINE after(i) == i + 1
  <2>1. q >= 1 /\ 1 \in 1..Len(queue)
    BY <1>1, <1>2, <1>5, EmptySeq
  <2>2. /\ queue' \in Seq(Nat) /\ Len(queue') = q - 1
        /\ \A i \in 1..(q - 1) : queue'[i] = IF i < 1 THEN queue[i] ELSE queue[i + 1]
    BY <1>1, <1>2, <1>5, <2>1, Removed
  <2>3. \A i \in 1..(q - 1) : queue'[i] = queue[after(i)] /\ after(i) \in 1..q /\ 1 < after(i)
    BY <1>2, <2>2
  <2>4. \A i \in 2..q : i - 1 \in 1..(q - 1) /\ after(i - 1) = i
    BY <1>2
  <2>5. \A i, j \in 1..(q - 1) : i < j => after(i) < after(j)
    BY <1>2
  <2>6. \A i \in 1..q : i = 1 \/ i \in 2..q
    BY <1>2
  <2> HIDE DEF after
  <2>7. c1' \in 1..n /\ 1 \in 1..q
    BY <1>1, <1>2, <1>5, <2>1
  <2>8. Requests'
    <3>1. \A i \in 1..(q - 1) : queue'[i] \in 1..n
      BY <1>2, <2>3
    <3>2. q - 1 <= Slots
      BY <1>1, <1>2, ExercisesAssumption DEF ReactorInv, Requests
    <3> QED BY <1>1, <1>2, <1>3, <1>5, <2>2, <2>7, <3>1, <3>2 DEF ReactorInv, Requests
  <2>9. Ordered'
    <3>1. \A i, j \in 1..(q - 1) : i < j => queue'[i] < queue'[j]
      BY <1>1, <2>3, <2>5 DEF ReactorInv, Ordered
    <3>2. \A i \in 1..(q - 1) : c1' < queue'[i]
      BY <1>1, <1>5, <2>3, <2>7 DEF ReactorInv, Ordered
    <3> QED BY <1>1, <1>3, <1>5, <2>2, <2>7, <3>1, <3>2 DEF Ordered
  <2>10. Promises'
    <3>1. ASSUME NEW r \in 1..n PROVE (Waits(r) \/ InHand(r))' <=> Waits(r) \/ InHand(r)
      <4>1. Waits(r) <=> queue[1] = r \/ \E i \in 2..q : queue[i] = r
        BY <1>1, <2>6, <2>7 DEF Waits
      <4>2. Waits(r)' <=> \E i \in 2..q : queue[i] = r
        <5>1. \A i \in 1..(q - 1) : after(i) \in 2..q
          BY <1>2 DEF after
        <5> QED BY <2>2, <2>3, <2>4, <5>1 DEF Waits
      <4>3. InHand(r)' <=> queue[1] = r
        BY <1>5 DEF InHand
      <4>4. ~InHand(r)
        BY <1>3 DEF InHand
      <4> QED BY <4>1, <4>2, <4>3, <4>4
    <3> QED BY <1>1, <1>3, <3>1 DEF ReactorInv, Promises
  <2> QED BY <2>8, <2>9, <2>10 DEF ReactorInv
<1> QED BY <1>4, <1>5 DEF Future!Read, Future!Taken, Future!RemoveAt

(* ... keeps its promise ... *)
LEMMA OperateKeeps == ASSUME ReactorInv, Future!operate PROVE ReactorInv'
<1>1. PICK n, v : n = Len(future) /\ v = asked[c1][1] + asked[c1][2]
  OBVIOUS
<1>2. /\ reactor = "operate" /\ reactor' = "check" /\ future' = [future EXCEPT ![c1] = v]
      /\ asked' = asked /\ queue' = queue /\ c1' = c1 /\ test' = test
  BY <1>1 DEF Future!operate
<1>3. n \in Nat /\ c1 \in 1..n /\ Len(asked) = n /\ future \in [1..n -> FutureValue]
  BY <1>1, <1>2, LenProperties DEF ReactorInv, Requests, Ordered
<1>4. v \in Nat
  <2>1. asked[c1] \in Nat \X Nat
    BY <1>3 DEF ReactorInv, Requests
  <2> QED BY <1>1, <2>1
<1>5. /\ future' \in [1..n -> FutureValue] /\ future'[c1] = v
      /\ \A r \in 1..n : r # c1 => future'[r] = future[r]
  BY <1>2, <1>3, <1>4 DEF FutureValue
<1>6. future' \in Seq(FutureValue) /\ Len(future') = n
  <2>1. future' \in Seq(FutureValue)
    BY <1>3, <1>5, SeqDef
  <2> QED BY <1>3, <1>5, <2>1, LenProperties
<1>7. Requests' /\ Ordered'
  BY <1>1, <1>2, <1>3, <1>6 DEF ReactorInv, Requests, Ordered
<1>8. ~Waits(c1)
  <2>1. \A i \in 1..Len(queue) : c1 < queue[i] /\ queue[i] \in Nat
    BY <1>2 DEF ReactorInv, Requests, Ordered
  <2>2. \A x \in Nat : c1 < x => x # c1
    BY <1>3
  <2> QED BY <2>1, <2>2, Zenon DEF Waits
<1>9. ASSUME NEW r \in 1..n PROVE future'[r] = Future!Pending <=> (Waits(r) \/ InHand(r))'
  <2>1. Waits(r)' <=> Waits(r)
    BY <1>2 DEF Waits
  <2>2. ~(InHand(r)') /\ (InHand(r) <=> c1 = r)
    BY <1>2 DEF InHand
  <2>3. CASE r = c1
    BY <1>4, <1>5, <1>8, <2>1, <2>2, <2>3, Marks
  <2>4. CASE r # c1
    BY <1>1, <1>5, <2>1, <2>2, <2>4 DEF ReactorInv, Promises
  <2> QED BY <2>3, <2>4
<1>10. ASSUME NEW r \in 1..n, NEW s \in 1..n, r < s, future'[s] \in Nat
       PROVE  future'[r] # Future!Pending
  <2> SUFFICES ASSUME future'[r] = Future!Pending PROVE FALSE
    OBVIOUS
  <2>1. Waits(r)
    BY <1>2, <1>9 DEF Waits, InHand
  <2>2. c1 < r
    BY <1>2, <2>1 DEF Waits, ReactorInv, Ordered
  <2>3. s # c1 /\ r # c1
    BY <1>3, <1>10, <2>2
  <2> QED BY <1>1, <1>5, <1>10, <2>3 DEF ReactorInv, Promises
<1>11. Promises'
  BY <1>6, <1>9, <1>10 DEF Promises
<1> QED BY <1>7, <1>11 DEF ReactorInv

(* ... and reads on unless it was told to turn off. *)
LEMMA CheckKeeps == ASSUME ReactorInv, Future!Check PROVE ReactorInv'
<1>1. /\ reactor = "check" /\ reactor' \in {"off", "read"} /\ c1' = 0
      /\ asked' = asked /\ future' = future /\ queue' = queue /\ test' = test
  BY Marks DEF Future!Check
<1>2. Len(future) \in Nat
  BY LenProperties DEF ReactorInv, Requests
<1>3. Requests' /\ Ordered'
  BY <1>1, <1>2 DEF ReactorInv, Requests, Ordered
<1>4. \A r : (Waits(r)' <=> Waits(r)) /\ ~InHand(r) /\ ~(InHand(r)')
  BY <1>1 DEF Waits, InHand
<1>5. Promises'
  BY <1>1, <1>4 DEF ReactorInv, Promises
<1> QED BY <1>3, <1>5 DEF ReactorInv

(* Promises in the queue break when the test leaves. *)
LEMMA LeaveKeeps == ASSUME ReactorInv, Future!Leave PROVE ReactorInv'
<1>1. PICK n : n = Len(future)
  OBVIOUS
<1>2. /\ n \in Nat /\ DOMAIN future = 1..n /\ DOMAIN queue = 1..Len(queue)
      /\ \A r \in 1..n : future[r] \in FutureValue
  BY <1>1, LenProperties DEF ReactorInv, Requests
<1>3. /\ test' = "left" /\ queue' = <<>> /\ asked' = asked /\ c1' = c1 /\ reactor' = reactor
      /\ future' = [r \in 1..n |-> IF Waits(r) THEN Future!Broken ELSE future[r]]
  BY <1>2 DEF Future!Leave, Waits
<1>4. \A r \in 1..n : /\ Waits(r) => future'[r] = Future!Broken
                      /\ ~Waits(r) => future'[r] = future[r]
  BY <1>3
<1>5. future' \in [1..n -> FutureValue]
  BY <1>2, <1>3 DEF FutureValue
<1>6. future' \in Seq(FutureValue) /\ Len(future') = n
  <2>1. future' \in Seq(FutureValue)
    BY <1>2, <1>5, SeqDef
  <2> QED BY <1>2, <1>5, <2>1, LenProperties
<1>7. queue' \in Seq(Nat) /\ Len(queue') = 0
  BY <1>3
<1>8. Requests' /\ Ordered'
  BY <1>1, <1>3, <1>6, <1>7, ExercisesAssumption DEF ReactorInv, Requests, Ordered
<1>9. ASSUME NEW r \in 1..n PROVE future'[r] = Future!Pending <=> (Waits(r) \/ InHand(r))'
  <2>1. ~(Waits(r)') /\ (InHand(r)' <=> InHand(r))
    BY <1>3, <1>7 DEF Waits, InHand
  <2>2. CASE Waits(r)
    <3>1. ~InHand(r)
      <4>1. \A i \in 1..Len(queue) : reactor = "operate" => c1 < queue[i] /\ queue[i] \in Nat /\ c1 \in Nat
        BY DEF ReactorInv, Requests, Ordered
      <4>2. \A x \in Nat : ~(x < x)
        OBVIOUS
      <4> QED BY <2>2, <4>1, <4>2, Zenon DEF Waits, InHand
    <3> QED BY <1>4, <2>1, <2>2, <3>1, Marks
  <2>3. CASE ~Waits(r)
    BY <1>1, <1>4, <2>1, <2>3 DEF ReactorInv, Promises
  <2> QED BY <2>2, <2>3
<1>10. ASSUME NEW r \in 1..n, NEW s \in 1..n, r < s, future'[s] \in Nat
       PROVE  future'[r] # Future!Pending
  <2>1. future'[s] = future[s]
    BY <1>4, <1>10, Marks
  <2>2. future[r] # Future!Pending
    BY <1>1, <1>10, <2>1 DEF ReactorInv, Promises
  <2> QED BY <1>4, <2>2, Marks
<1>11. Promises'
  BY <1>6, <1>9, <1>10 DEF Promises
<1> QED BY <1>8, <1>11 DEF ReactorInv

(* What does not touch the reactor keeps its invariant. *)
LEMMA ReactorStutters ==
  ASSUME ReactorInv, UNCHANGED <<asked, future, queue, c1, reactor>>,
         test' \in {"waits", "leaves", "left"}
  PROVE  ReactorInv'
<1>1. Requests' /\ Ordered'
  BY DEF ReactorInv, Requests, Ordered
<1>2. Promises'
  BY DEF ReactorInv, Promises, Waits, InHand
<1> QED BY <1>1, <1>2 DEF ReactorInv

(* It holds whatever program runs. *)
LEMMA ReactorInvariance == Spec => []ReactorInv
<1>1. Init => ReactorInv
  BY InitReactor DEF Init
<1>2. ASSUME ReactorInv, Future!Next PROVE ReactorInv'
  <2>1. CASE Future!Read
    BY <1>2, <2>1, ReadKeeps
  <2>2. CASE Future!operate
    BY <1>2, <2>2, OperateKeeps
  <2>3. CASE Future!Check
    BY <1>2, <2>3, CheckKeeps
  <2>4. CASE Future!Leave
    BY <1>2, <2>4, LeaveKeeps
  <2>5. CASE Future!TurnOff
    <3>1. test' = "leaves"
      BY <2>5 DEF Future!TurnOff
    <3>2. CASE Future!Submit(Future!Off)
      BY <1>2, <3>1, <3>2, Marks, SubmitKeeps
    <3>3. CASE UNCHANGED <<asked, future, queue, c1, reactor>>
      BY <1>2, <3>1, <3>3, ReactorStutters
    <3> QED BY <2>5, <3>2, <3>3 DEF Future!TurnOff
  <2>6. ASSUME NEW ab \in Operands, Future!TestSubmits(ab) PROVE ReactorInv'
    <3>1. ab \in Nat \X Nat /\ Future!Submit(ab) /\ test' = test
      BY <2>6, ExercisesAssumption DEF Future!TestSubmits
    <3>2. test' \in {"waits", "leaves", "left"}
      BY <1>2, <3>1 DEF ReactorInv, Requests
    <3> QED BY <1>2, <3>1, <3>2, SubmitKeeps
  <2> QED BY <1>2, <2>1, <2>2, <2>3, <2>4, <2>5, <2>6
          DEF Future!Next, Future!ReactorStep, Future!TestStep
<1>3. ASSUME ReactorInv, [Next]_vars PROVE ReactorInv'
  <2>1. Future!Next \/ UNCHANGED reactorVars
    BY <1>3 DEF Next, Runs, vars
  <2>2. CASE UNCHANGED reactorVars
    <3>1. UNCHANGED <<asked, future, queue, c1, reactor>> /\ test' = test
      BY <2>2 DEF reactorVars
    <3>2. test' \in {"waits", "leaves", "left"}
      BY <1>3, <3>1 DEF ReactorInv, Requests
    <3> QED BY <1>3, <3>1, <3>2, ReactorStutters
  <2> QED BY <1>2, <1>3, <2>1, <2>2
<1> QED BY <1>1, <1>3, PTL DEF Spec

(***************************************************************************)
(* A promise that is not kept yet is in the queue, once, or with the       *)
(* reactor, and promises are kept in the order of the requests             *)
(* (test_simple_future.cc 32-58), for any operands and any slots.          *)
(***************************************************************************)
THEOREM PromisesAlwaysKept == Spec => []PromisesKept
<1>1. ASSUME ReactorInv PROVE PromisesKept
  <2>1. /\ DOMAIN future = 1..Len(future) /\ DOMAIN queue = 1..Len(queue) /\ Len(queue) \in Nat
        /\ \A i \in 1..Len(queue) : queue[i] \in Nat
    BY <1>1, LenProperties DEF ReactorInv, Requests
  <2>2. Future!IsInjective(queue)
    <3> SUFFICES ASSUME NEW i \in 1..Len(queue), NEW j \in 1..Len(queue), queue[i] = queue[j]
                 PROVE  i = j
      BY <2>1 DEF Future!IsInjective
    <3>1. ~(i < j) /\ ~(j < i)
      BY <1>1, <2>1 DEF ReactorInv, Ordered
    <3> QED BY <2>1, <3>1
  <2>3. \A r \in DOMAIN future :
          future[r] = Future!Pending <=> (\E i \in DOMAIN queue : queue[i] = r) # (c1 = r /\ reactor = "operate")
    <3> SUFFICES ASSUME NEW r \in 1..Len(future)
                 PROVE  future[r] = Future!Pending <=> ~(Waits(r) <=> InHand(r))
      BY <2>1 DEF Waits, InHand
    <3>1. ~(Waits(r) /\ InHand(r))
      <4>1. \A i \in 1..Len(queue) : reactor = "operate" => c1 < queue[i]
        BY <1>1 DEF ReactorInv, Ordered
      <4>2. \A x \in Nat : ~(x < x)
        OBVIOUS
      <4> QED BY <2>1, <4>1, <4>2, Zenon DEF Waits, InHand
    <3> QED BY <1>1, <3>1 DEF ReactorInv, Promises
  <2>4. Future!InOrder
    BY <1>1, <2>1 DEF ReactorInv, Promises, Future!InOrder
  <2> QED BY <2>2, <2>3, <2>4 DEF PromisesKept, Future!PromisesHeld
<1> QED BY <1>1, ReactorInvariance, PTL

-----------------------------------------------------------------------------
(***************************************************************************)
(* The prototype of the skip list in leetcode.cc.                          *)
(***************************************************************************)

(* q is a node, or the head, and has level i. *)
Has(q, i) == q \in 0..Len(key) /\ i <= Len(next[q])
Linked(q, i) == q = -1 \/ (q # 0 /\ Has(q, i))

Nexts ==
  /\ key \in Seq(Number)
  /\ DOMAIN next = 0..Len(key)
  /\ \A p \in 0..Len(key) : next[p] \in Seq(Int)
  /\ \A p \in 0..Len(key) : \A i \in 1..Len(next[p]) : Linked(next[p][i], i)

(* The search has come to a node of the level it is at; the predecessors it has
   found, if not null, have the levels they are for. *)
Searching ==
  /\ pp \in Seq(Int) /\ \A i \in 1..Len(pp) : pp[i] = -1 \/ Has(pp[i], i)
  /\ pcurr = -1 \/ pcurr \in 0..Len(key)
  /\ found = -1 \/ (found # 0 /\ found \in 0..Len(key))
  /\ plvl \in Int
  /\ state \in {"idle", "search", "found", "crashed"}
  /\ state \in {"search", "found"} => Len(pp) = Len(next[0]) /\ call[2] \in Number
  /\ state = "search" /\ plvl >= 0 /\ pcurr # -1 => Has(pcurr, plvl + 1)

ProtoInv == Nexts /\ Searching

(* The names of the prototype. *)
LEMMA Heads ==
  /\ Prototype!Null = -1 /\ Prototype!head_ = 0
  /\ Prototype!curr_lvl = Len(next[0]) /\ Prototype!Nodes = 1..Len(key)
  BY DEF Prototype!Null, Prototype!head_, Prototype!curr_lvl, Prototype!Nodes

(* A function on 1..m is a sequence of length m. *)
LEMMA SeqOf ==
  ASSUME NEW S, NEW m \in Nat, NEW f \in [1..m -> S]
  PROVE  f \in Seq(S) /\ Len(f) = m /\ DOMAIN f = 1..m
<1>1. f \in Seq(S)
  BY SeqDef
<1> QED BY <1>1, LenProperties

(* The invariant of the prototype holds at first, ... *)
LEMMA InitProto == Prototype!Init => ProtoInv
<1> SUFFICES ASSUME Prototype!Init PROVE ProtoInv
  OBVIOUS
<1>1. /\ next = [a \in {0} |-> <<>>] /\ key = <<>> /\ pcurr = 0 /\ plvl = -1 /\ pp = <<>>
      /\ found = -1 /\ state = "idle"
  BY Heads DEF Prototype!Init
<1>2. Len(key) = 0 /\ key \in Seq(Number) /\ Len(pp) = 0 /\ pp \in Seq(Int)
  BY <1>1
<1>3. DOMAIN next = 0..Len(key) /\ \A p \in 0..Len(key) : next[p] = <<>>
  BY <1>1, <1>2
<1>4. Nexts
  <2>1. <<>> \in Seq(Int) /\ Len(<<>>) = 0 /\ 1..0 = {}
    OBVIOUS
  <2> QED BY <1>2, <1>3, <2>1 DEF Nexts
<1>5. Searching
  BY <1>1, <1>2 DEF Searching
<1> QED BY <1>4, <1>5 DEF ProtoInv

(* Where nodes and pointers stay, what has a level keeps it. *)
LEMMA SearchKeeps ==
  ASSUME ProtoInv, UNCHANGED <<next, key>>, Searching'
  PROVE  ProtoInv'
  BY DEF ProtoInv, Nexts, Linked, Has

(* ... a call that begins keeps it, ... *)
LEMMA BeginKeeps ==
  ASSUME ProtoInv, NEW f, NEW k \in Number, Prototype!Begin(f, k)
  PROVE  ProtoInv'
<1>1. PICK h : h = Len(next[0])
  OBVIOUS
<1>2. Len(key) \in Nat /\ 0 \in 0..Len(key) /\ h \in Nat
  BY <1>1, LenProperties DEF ProtoInv, Nexts
<1>3. /\ call' = <<f, k>> /\ state' = "search" /\ pp' = [i \in 1..h |-> 0]
      /\ pcurr' = 0 /\ plvl' = h - 1 /\ found' = -1 /\ next' = next /\ key' = key
  BY <1>1, Heads DEF Prototype!Begin
<1>4. pp' \in [1..h -> Int]
  BY <1>3
<1>5. pp' \in Seq(Int) /\ Len(pp') = h
  BY <1>2, <1>4, SeqOf
<1>6. Searching'
  <2>1. \A i \in 1..h : pp'[i] = 0 /\ i <= Len(next[0])
    BY <1>1, <1>2, <1>3
  <2>2. (\A i \in 1..Len(pp) : pp[i] = -1 \/ Has(pp[i], i))'
    <3>1. \A i \in 1..h : pp'[i] \in 0..Len(key') /\ i <= Len(next'[pp'[i]])
      BY <1>2, <1>3, <2>1
    <3> QED BY <1>5, <3>1, Zenon DEF Has
  <2>3. (state = "search" /\ plvl >= 0 /\ pcurr # -1 => Has(pcurr, plvl + 1))'
    BY <1>1, <1>2, <1>3 DEF Has
  <2>4. call'[2] \in Number /\ Len(pp') = Len(next'[0])
    BY <1>1, <1>3, <1>5
  <2>5. pcurr' \in 0..Len(key') /\ found' = -1 /\ plvl' \in Int /\ pp' \in Seq(Int)
    BY <1>2, <1>3, <1>5
  <2> QED BY <1>3, <2>2, <2>3, <2>4, <2>5, Zenon DEF Searching
<1> QED BY <1>3, <1>6, SearchKeeps

(* The greatest of some numbers that are not above b. *)
LEMMA GreatestOf ==
  ASSUME NEW S, S \subseteq Int, S # {}, NEW b \in Int, \A x \in S : x <= b
  PROVE  Prototype!Max(S) \in S /\ \A y \in S : y <= Prototype!Max(S)
<1>1. \E z \in S : \A y \in S : z >= y
  BY SomeGreatest
<1>2. Prototype!Max(S) \in S /\ \A y \in S : Prototype!Max(S) >= y
  BY <1>1, Zenon DEF Prototype!Max
<1>3. \A z \in S, y \in S : z >= y => y <= z
  OBVIOUS
<1> QED BY <1>2, <1>3

(* ... a turn of internal_search finds predecessors that have the levels, ... *)
LEMMA TurnKeeps == ASSUME ProtoInv, Prototype!Turn PROVE ProtoInv'
<1>1. /\ state = "search" /\ plvl \in Int /\ plvl >= 0 /\ pcurr # -1
      /\ next' = next /\ key' = key /\ call' = call
  BY Heads DEF Prototype!Turn, ProtoInv, Searching
<1>2. /\ pcurr \in 0..Len(key) /\ plvl + 1 <= Len(next[pcurr]) /\ Len(key) \in Nat
      /\ next[pcurr] \in Seq(Int) /\ Len(next[pcurr]) \in Nat
      /\ pp \in Seq(Int) /\ Len(pp) \in Nat /\ DOMAIN pp = 1..Len(pp)
  BY <1>1, LenProperties DEF ProtoInv, Searching, Has, Nexts
<1>3. \A q, i : Has(q, i)' <=> Has(q, i)
  BY <1>1 DEF Has
<1>4. CASE /\ pp' = [i \in DOMAIN pp |-> IF i - 1 <= plvl THEN pcurr ELSE pp[i]]
           /\ found' = pcurr /\ state' = "found" /\ pcurr # 0
           /\ UNCHANGED <<pcurr, plvl>>
  <2>1. \A i \in 1..Len(pp) : pp'[i] = pp[i] \/ (i - 1 <= plvl /\ pp'[i] = pcurr)
    BY <1>2, <1>4
  <2>2. pp' \in [1..Len(pp) -> Int]
    <3>1. \A i \in 1..Len(pp) : pp[i] \in Int
      BY <1>2
    <3> QED BY <1>2, <1>4, <3>1
  <2>3. pp' \in Seq(Int) /\ Len(pp') = Len(pp)
    BY <1>2, <2>2, SeqOf
  <2>4. ASSUME NEW i \in 1..Len(pp) PROVE pp'[i] = -1 \/ Has(pp'[i], i)
    <3>1. CASE pp'[i] = pp[i]
      BY <3>1 DEF ProtoInv, Searching
    <3>2. CASE i - 1 <= plvl /\ pp'[i] = pcurr
      BY <1>1, <1>2, <3>2 DEF Has
    <3> QED BY <2>1, <3>1, <3>2
  <2>5. Searching'
    BY <1>1, <1>2, <1>3, <1>4, <2>3, <2>4 DEF ProtoInv, Searching
  <2> QED BY <1>1, <2>5, SearchKeeps
<1>5. ASSUME NEW down, down = Prototype!Max({l \in 0..plvl : Prototype!Stops(l)} \cup {-1}),
             plvl' = down, pcurr' = IF down = -1 THEN pcurr ELSE next[pcurr][down + 1],
             pp' = IF down = -1 THEN [pp EXCEPT ![1] = pcurr]
                   ELSE [pp EXCEPT ![down + 1] = next[pcurr][down + 1]],
             found' = found, state' = state
      PROVE  ProtoInv'
  <2>1. down = -1 \/ down \in 0..plvl
    <3> DEFINE S == {l \in 0..plvl : Prototype!Stops(l)} \cup {-1}
    <3>1. S \subseteq Int /\ S # {} /\ \A x \in S : x <= plvl
      BY <1>1
    <3>2. \A x \in S : x = -1 \/ x \in 0..plvl
      OBVIOUS
    <3> HIDE DEF S
    <3>3. Prototype!Max(S) \in S
      BY <1>1, <3>1, GreatestOf
    <3>4. down = Prototype!Max(S)
      BY <1>5 DEF S
    <3> QED BY <3>2, <3>3, <3>4
  <2>2. PICK j, q : /\ j \in Int /\ j >= 1 /\ j <= plvl + 1 /\ q \in Int
                    /\ q = -1 \/ Has(q, j)
                    /\ pp' = [pp EXCEPT ![j] = q]
                    /\ pcurr' = -1 \/ pcurr' \in 0..Len(key)
                    /\ down >= 0 /\ pcurr' # -1 => Has(pcurr', down + 1)
    <3>1. CASE down = -1
      <4>1. Has(pcurr, 1) /\ pcurr \in Int /\ 1 <= plvl + 1 /\ ~(down >= 0)
        BY <1>1, <1>2, <3>1 DEF Has
      <4>2. pp' = [pp EXCEPT ![1] = pcurr] /\ pcurr' = pcurr
        BY <1>5, <3>1
      <4> WITNESS 1, pcurr
      <4> QED BY <1>2, <4>1, <4>2
    <3>2. CASE down \in 0..plvl
      <4>1. down + 1 \in 1..Len(next[pcurr]) /\ down # -1 /\ down + 1 <= plvl + 1 /\ down + 1 \in Int
        BY <1>1, <1>2, <3>2
      <4>2. PICK q : q = next[pcurr][down + 1]
        OBVIOUS
      <4>3. q \in Int /\ Linked(q, down + 1)
        BY <1>2, <4>1, <4>2 DEF ProtoInv, Nexts
      <4>4. pp' = [pp EXCEPT ![down + 1] = q] /\ pcurr' = q
        BY <1>5, <4>1, <4>2
      <4>5. q = -1 \/ Has(q, down + 1)
        BY <4>3 DEF Linked
      <4>6. down + 1 >= 1 /\ (q = -1 \/ q \in 0..Len(key))
        BY <4>1, <4>5 DEF Has
      <4> WITNESS down + 1, q
      <4> QED BY <4>1, <4>3, <4>4, <4>5, <4>6
    <3> QED BY <2>1, <3>1, <3>2
  <2>3. pp' \in Seq(Int) /\ Len(pp') = Len(pp) /\ \A i \in 1..Len(pp) : pp'[i] = IF i = j THEN q ELSE pp[i]
    <3>1. pp \in [1..Len(pp) -> Int]
      BY <1>2, LenProperties
    <3>2. pp' \in [1..Len(pp) -> Int] /\ \A i \in 1..Len(pp) : pp'[i] = IF i = j THEN q ELSE pp[i]
      BY <2>2, <3>1
    <3> QED BY <1>2, <3>2, SeqOf
  <2>4. \A i \in 1..Len(pp) : pp'[i] = -1 \/ Has(pp'[i], i)
    BY <2>2, <2>3 DEF ProtoInv, Searching
  <2>5. Searching'
    BY <1>1, <1>2, <1>3, <1>5, <2>1, <2>2, <2>3, <2>4 DEF ProtoInv, Searching
  <2> QED BY <1>1, <2>5, SearchKeeps
<1> QED BY <1>4, <1>5, Heads DEF Prototype!Turn, Prototype!Ahead

(* Where nodes are only added and levels only grow, what has a level keeps it, and
   so do the predecessors a search has found. *)
LEMMA GrownKeeps ==
  ASSUME ProtoInv, Nexts', Len(key) <= Len(key'), UNCHANGED <<pcurr, plvl, pp, found>>,
         \A p \in 0..Len(key) : Len(next[p]) <= Len(next'[p]),
         state' \in {"idle", "crashed"}
  PROVE  ProtoInv'
<1>1. Len(key) \in Nat /\ Len(key') \in Nat
  BY LenProperties DEF ProtoInv, Nexts
<1>2. /\ \A p \in 0..Len(key) : Len(next[p]) \in Nat
      /\ \A p \in 0..Len(key') : Len(next'[p]) \in Nat
  BY LenProperties DEF ProtoInv, Nexts
<1>3. \A q \in 0..Len(key) : q \in 0..Len(key')
  BY <1>1
<1>4. \A i \in 1..Len(pp) : pp[i] = -1 \/ (pp[i] \in 0..Len(key') /\ i <= Len(next'[pp[i]]))
  <2> SUFFICES ASSUME NEW i \in 1..Len(pp), pp[i] # -1
               PROVE  pp[i] \in 0..Len(key') /\ i <= Len(next'[pp[i]])
    OBVIOUS
  <2>1. pp[i] \in 0..Len(key) /\ i <= Len(next[pp[i]])
    BY DEF ProtoInv, Searching, Has
  <2>2. Len(pp) \in Nat
    BY LenProperties DEF ProtoInv, Searching
  <2> QED BY <1>2, <1>3, <2>1, <2>2
<1>5. /\ pp \in Seq(Int) /\ plvl \in Int /\ (pcurr = -1 \/ pcurr \in 0..Len(key))
      /\ (found = -1 \/ (found # 0 /\ found \in 0..Len(key)))
  BY DEF ProtoInv, Searching
<1>6. /\ (\A i \in 1..Len(pp) : pp[i] = -1 \/ Has(pp[i], i))'
      /\ pcurr' = -1 \/ pcurr' \in 0..Len(key')
      /\ found' = -1 \/ (found' # 0 /\ found' \in 0..Len(key'))
  BY <1>3, <1>4, <1>5, Zenon DEF Has
<1>7. pp' \in Seq(Int) /\ plvl' \in Int /\ state' # "search" /\ state' # "found"
  BY <1>5
<1>8. Searching'
  BY <1>6, <1>7 DEF Searching
<1> QED BY <1>8 DEF ProtoInv

(* ... add links the new node at the levels it has only, ... *)
LEMMA AddKeeps ==
  ASSUME ProtoInv, NEW lvl \in Nat \ {0}, Prototype!add(lvl)
  PROVE  ProtoInv'
<1> USE ExercisesAssumption
<1>1. PICK n : n = Len(key)
  OBVIOUS
<1>2. PICK a : a = n + 1
  OBVIOUS
<1>3. PICK h : h = Len(pp)
  OBVIOUS
<1>4. /\ n \in Nat /\ h \in Nat /\ a \in 1..a /\ a \in Nat /\ lvl \in Nat
      /\ state = "found" /\ Len(next[0]) = h /\ key \in Seq(Number) /\ call[2] \in Number
      /\ DOMAIN pp = 1..h /\ a \notin 0..n /\ 0 \in 0..n /\ a # 0
      /\ UNCHANGED <<pcurr, plvl, pp, found>>
  BY <1>1, <1>2, <1>3, LenProperties DEF ProtoInv, Nexts, Searching, Prototype!add, Prototype!search
<1>5. \A p \in 0..n : /\ next[p] \in Seq(Int) /\ Len(next[p]) \in Nat
                      /\ \A i \in 1..Len(next[p]) : next[p][i] \in Int /\ Linked(next[p][i], i)
  BY <1>1, LenProperties DEF ProtoInv, Nexts
<1>6. CASE Prototype!Crash
  <2>1. next' = next /\ key' = key /\ state' = "crashed"
    BY <1>6 DEF Prototype!Crash
  <2>2. Nexts'
    BY <2>1 DEF ProtoInv, Nexts, Linked, Has
  <2> QED BY <1>1, <1>4, <1>5, <2>1, <2>2, GrownKeeps
<1>7. CASE /\ ~\E i \in DOMAIN pp : i <= lvl /\ pp[i] = Prototype!Null
           /\ key' = Append(key, Prototype!Target)
           /\ next' = [p \in Prototype!Nodes \cup {Prototype!head_, a} |->
                         IF p = a THEN Prototype!Behind(a, lvl) ELSE Prototype!Set(p, lvl, a)]
           /\ Prototype!Return
  <2> DEFINE height(p) == IF p = 0 THEN (IF h >= lvl THEN h ELSE lvl) ELSE Len(next[p])
  <2>1. /\ \A i \in 1..h : i <= lvl => pp[i] # -1
        /\ key' = Append(key, call[2]) /\ state' = "idle"
    BY <1>4, <1>7, Heads DEF Prototype!Return, Prototype!Target
  <2>2. key' \in Seq(Number) /\ Len(key') = a
    BY <1>1, <1>2, <1>4, <2>1
  <2>3. DOMAIN next' = 0..a
    <3>1. (1..n) \cup {0, a} = 0..a
      BY <1>2, <1>4
    <3> QED BY <1>1, <1>7, <3>1, Heads
  <2>4. next'[a] = [i \in 1..lvl |-> IF i <= h THEN next[pp[i]][i] ELSE -1]
    BY <1>3, <1>4, <1>7, Heads DEF Prototype!Behind
  <2>5. Prototype!Max({h, lvl}) = IF h >= lvl THEN h ELSE lvl
    <3>1. \A x \in {h, lvl} : x <= h + lvl
      BY <1>4
    <3>2. {h, lvl} \subseteq Int /\ {h, lvl} # {} /\ h + lvl \in Int
      BY <1>4
    <3>3. /\ Prototype!Max({h, lvl}) \in {h, lvl}
          /\ \A y \in {h, lvl} : y <= Prototype!Max({h, lvl})
      BY <3>1, <3>2, GreatestOf
    <3> QED BY <1>4, <3>3
  <2>6. \A p \in 0..n : next'[p] =
          [i \in 1..height(p) |->
             IF i <= lvl /\ (IF i <= h THEN pp[i] = p ELSE p = 0) THEN a ELSE next[p][i]]
    <3> SUFFICES ASSUME NEW p \in 0..n
                 PROVE  next'[p] = [i \in 1..height(p) |->
                   IF i <= lvl /\ (IF i <= h THEN pp[i] = p ELSE p = 0) THEN a ELSE next[p][i]]
      OBVIOUS
    <3>1. p # a /\ p \in (1..n) \cup {0, a}
      BY <1>4
    <3>2. next'[p] = Prototype!Set(p, lvl, a)
      BY <1>1, <1>7, <3>1, Heads
    <3>3. Prototype!Max({Prototype!curr_lvl, lvl}) = IF h >= lvl THEN h ELSE lvl
      BY <1>4, <2>5, Heads
    <3> QED BY <1>3, <3>2, <3>3, Heads DEF Prototype!Set
  <2>7. \A p \in 0..n : height(p) \in Nat /\ Len(next[p]) <= height(p)
    BY <1>4, <1>5
  <2>8. \A p \in 0..n : \A i \in 1..height(p) :
          (next'[p][i] = a /\ i <= lvl) \/ (i \in 1..Len(next[p]) /\ next'[p][i] = next[p][i])
    <3> SUFFICES ASSUME NEW p \in 0..n, NEW i \in 1..height(p)
                 PROVE  (next'[p][i] = a /\ i <= lvl)
                        \/ (i \in 1..Len(next[p]) /\ next'[p][i] = next[p][i])
      OBVIOUS
    <3>1. next'[p][i] = IF i <= lvl /\ (IF i <= h THEN pp[i] = p ELSE p = 0) THEN a ELSE next[p][i]
      <4>1. PICK z : z = height(p)
        OBVIOUS
      <4>2. next'[p] = [j \in 1..z |->
              IF j <= lvl /\ (IF j <= h THEN pp[j] = p ELSE p = 0) THEN a ELSE next[p][j]]
        BY <2>6, <4>1
      <4>3. i \in 1..z
        BY <4>1
      <4> HIDE DEF height
      <4> QED BY <4>2, <4>3
    <3>2. CASE i <= lvl /\ (IF i <= h THEN pp[i] = p ELSE p = 0)
      BY <3>1, <3>2
    <3>3. CASE ~(i <= lvl /\ (IF i <= h THEN pp[i] = p ELSE p = 0))
      <4>1. i \in Int /\ i >= 1 /\ i <= height(p)
        BY <2>7
      <4>2. i <= Len(next[p])
        BY <1>4, <1>5, <3>3, <4>1
      <4>3. i \in 1..Len(next[p]) /\ next'[p][i] = next[p][i]
        BY <1>5, <3>1, <3>3, <4>1, <4>2
      <4> QED BY <4>3
    <3> QED BY <3>2, <3>3
  <2>9. \A i \in 1..lvl : next'[a][i] = -1
          \/ (pp[i] \in 0..n /\ i \in 1..Len(next[pp[i]]) /\ next'[a][i] = next[pp[i]][i])
    <3> SUFFICES ASSUME NEW i \in 1..lvl, i \in 1..h
                 PROVE  pp[i] \in 0..n /\ i \in 1..Len(next[pp[i]])
                        /\ next'[a][i] = next[pp[i]][i]
      BY <1>4, <2>4
    <3>1. pp[i] # -1
      BY <2>1
    <3>2. pp[i] \in 0..n /\ i <= Len(next[pp[i]])
      BY <1>1, <1>3, <3>1 DEF ProtoInv, Searching, Has
    <3> QED BY <1>4, <1>5, <2>4, <3>2
  <2>10. \A p \in 0..n : next'[p] \in Seq(Int) /\ Len(next'[p]) = height(p)
    <3> SUFFICES ASSUME NEW p \in 0..n
                 PROVE  next'[p] \in Seq(Int) /\ Len(next'[p]) = height(p)
      OBVIOUS
    <3>1. \A i \in 1..height(p) : next'[p][i] \in Int
      BY <1>4, <1>5, <2>8
    <3>2. next'[p] \in [1..height(p) -> Int]
      BY <2>6, <3>1
    <3> QED BY <2>7, <3>2, SeqOf
  <2>11. next'[a] \in Seq(Int) /\ Len(next'[a]) = lvl
    <3>1. ASSUME NEW i \in 1..lvl PROVE next'[a][i] \in Int
      <4>1. CASE next'[a][i] = -1
        BY <4>1
      <4>2. CASE /\ pp[i] \in 0..n /\ i \in 1..Len(next[pp[i]])
                 /\ next'[a][i] = next[pp[i]][i]
        <5>1. next[pp[i]][i] \in Int
          BY <1>5, <4>2
        <5> QED BY <4>2, <5>1
      <4> QED BY <2>9, <4>1, <4>2
    <3>2. next'[a] \in [1..lvl -> Int]
      BY <2>4, <3>1
    <3> QED BY <1>4, <3>2, SeqOf
  <2> HIDE DEF height
  <2>12. \A q, i : Linked(q, i) => Linked(q, i)'
    <3> SUFFICES ASSUME NEW q, NEW i, q # -1, q # 0, q \in 0..n, i <= Len(next[q])
                 PROVE  q # 0 /\ q \in 0..a /\ i <= Len(next'[q])
      BY <1>1, <2>2 DEF Linked, Has
    <3>1. q \in 0..a /\ Len(next'[q]) = Len(next[q])
      BY <1>2, <1>4, <2>10 DEF height
    <3> QED BY <3>1
  <2>13. \A i \in 1..lvl : Linked(a, i)'
    BY <1>4, <2>2, <2>11 DEF Linked, Has
  <2>14. \A p \in 0..n : \A i \in 1..Len(next'[p]) : (next'[p][i] = a /\ i \in 1..lvl)
                                                    \/ Linked(next'[p][i], i)
    BY <1>4, <1>5, <2>7, <2>8, <2>10
  <2>15. \A i \in 1..Len(next'[a]) : next'[a][i] = -1 \/ Linked(next'[a][i], i)
    BY <1>5, <2>9, <2>11
  <2>16. Nexts'
    <3>1. \A p \in 0..a : p \in 0..n \/ p = a
      BY <1>2, <1>4
    <3>2. (\A p \in 0..Len(key) : next[p] \in Seq(Int))'
      BY <2>2, <2>10, <2>11, <3>1, Zenon
    <3>3. \A i : Linked(-1, i)'
      BY DEF Linked
    <3>4. (\A p \in 0..Len(key) : \A i \in 1..Len(next[p]) : Linked(next[p][i], i))'
      <4> SUFFICES ASSUME NEW p \in 0..a, NEW i \in 1..Len(next'[p]), NEW q, q = next'[p][i]
                   PROVE  Linked(q, i)'
        BY <2>2 DEF Linked, Has
      <4> QED BY <2>12, <2>13, <2>14, <2>15, <3>1, <3>3, Zenon
    <3> QED BY <2>2, <2>3, <3>2, <3>4, Zenon DEF Nexts
  <2>17. /\ Len(key) <= Len(key')
         /\ \A p \in 0..Len(key) : Len(next[p]) <= Len(next'[p])
    BY <1>1, <1>2, <1>4, <2>2, <2>7, <2>10
  <2> QED BY <1>4, <2>1, <2>16, <2>17, GrownKeeps
<1> QED BY <1>1, <1>2, <1>6, <1>7 DEF Prototype!add

(* ... and erase copies pointers level by level. *)
LEMMA EraseKeeps == ASSUME ProtoInv, Prototype!erase PROVE ProtoInv'
<1>1. /\ state = "found" /\ key' = key /\ state' = "idle" /\ UNCHANGED <<pcurr, plvl, pp, found>>
  BY DEF Prototype!erase, Prototype!Return, Prototype!search
<1>2. PICK n : n = Len(key)
  OBVIOUS
<1>3. /\ n \in Nat /\ DOMAIN next = 0..n
      /\ \A p \in 0..n : next[p] \in Seq(Int) /\ Len(next[p]) \in Nat
           /\ DOMAIN next[p] = 1..Len(next[p])
           /\ \A i \in 1..Len(next[p]) : next[p][i] \in Int /\ Linked(next[p][i], i)
  BY <1>2, LenProperties DEF ProtoInv, Nexts
<1>4. DOMAIN next' = 0..n /\ \A p \in 0..n :
        next'[p] \in Seq(Int) /\ Len(next'[p]) = Len(next[p])
          /\ \A i \in 1..Len(next[p]) : Linked(next'[p][i], i)
  <2>1. CASE found = -1
    BY <1>3, <2>1, Heads DEF Prototype!erase
  <2>2. CASE found # -1
    <3>1. found \in 0..n
      BY <1>2, <2>2 DEF ProtoInv, Searching
    <3>2. next' = [p \in DOMAIN next |-> [i \in DOMAIN next[p] |->
                     IF i <= Len(next[found]) /\ pp[i] = p THEN next[found][i] ELSE next[p][i]]]
      BY <2>2, Heads DEF Prototype!erase
    <3>3. ASSUME NEW p \in 0..n
          PROVE  next'[p] \in Seq(Int) /\ Len(next'[p]) = Len(next[p])
                 /\ \A i \in 1..Len(next[p]) : Linked(next'[p][i], i)
      <4>1. next'[p] = [i \in 1..Len(next[p]) |->
              IF i <= Len(next[found]) /\ pp[i] = p THEN next[found][i] ELSE next[p][i]]
        BY <1>3, <3>2
      <4>2. \A i \in 1..Len(next[p]) :
              next'[p][i] = next[p][i] \/ (i \in 1..Len(next[found]) /\ next'[p][i] = next[found][i])
        BY <1>3, <3>1, <4>1
      <4>3. \A i \in 1..Len(next[p]) : next'[p][i] \in Int /\ Linked(next'[p][i], i)
        BY <1>3, <3>1, <4>2, Zenon
      <4>4. next'[p] \in [1..Len(next[p]) -> Int]
        BY <4>1, <4>3
      <4> QED BY <1>3, <4>3, <4>4, SeqOf
    <3> QED BY <1>3, <3>2, <3>3
  <2> QED BY <2>1, <2>2
<1>5. \A q, i : Linked(q, i) => Linked(q, i)'
  BY <1>1, <1>2, <1>4 DEF Linked, Has
<1>6. Nexts'
  <2>1. (\A p \in 0..Len(key) : next[p] \in Seq(Int))' /\ key' \in Seq(Number)
    BY <1>1, <1>2, <1>4 DEF ProtoInv, Nexts
  <2>2. (\A p \in 0..Len(key) : \A i \in 1..Len(next[p]) : Linked(next[p][i], i))'
    <3> SUFFICES ASSUME NEW p \in 0..n, NEW i \in 1..Len(next'[p]), NEW q, q = next'[p][i]
                 PROVE  Linked(q, i)'
      BY <1>1, <1>2 DEF Linked, Has
    <3> QED BY <1>4, <1>5, Zenon
  <2> QED BY <1>1, <1>2, <1>4, <2>1, <2>2, Zenon DEF Nexts
<1> QED BY <1>1, <1>2, <1>3, <1>4, <1>6, GrownKeeps

(* A call of add found room for one more node when it began. *)
Adding == state \in {"search", "found"} /\ call[1] = "add" => Len(key) < MaxNodes

LEMMA AddingInvariance == Spec => []Adding
<1>1. Init => Adding
  BY DEF Init, Prototype!Init, Adding
<1>2. ASSUME Adding, [Next]_vars PROVE Adding'
  <2>1. Prototype!Next \/ UNCHANGED protoVars
    BY <1>2 DEF Next, Runs, vars
  <2>2. CASE UNCHANGED protoVars
    BY <1>2, <2>2 DEF protoVars, Adding
  <2>3. CASE Prototype!Turn \/ Prototype!NotFound
    <3>1. UNCHANGED <<key, call>> /\ state = "search"
      BY <2>3 DEF Prototype!Turn, Prototype!NotFound
    <3> QED BY <1>2, <3>1 DEF Adding
  <2>4. CASE Prototype!erase \/ Prototype!Searched \/ Prototype!add(Prototype!get_level)
    <3>1. state' \in {"idle", "crashed"}
      BY <2>4 DEF Prototype!erase, Prototype!Searched, Prototype!add, Prototype!Return, Prototype!Crash
    <3> QED BY <3>1 DEF Adding
  <2>5. ASSUME NEW f \in {"search", "add", "erase"}, NEW k \in Number, Prototype!Begin(f, k)
        PROVE  Adding'
    BY <2>5 DEF Prototype!Begin, Adding
  <2> QED BY <2>1, <2>2, <2>3, <2>4, <2>5 DEF Prototype!Next, Prototype!Step
<1> QED BY <1>1, <1>2, PTL DEF Spec

(* So the engine has a level for it. *)
LEMMA LevelDrawn ==
  ASSUME ProtoInv, Adding, Prototype!add(Prototype!get_level)
  PROVE  Prototype!get_level \in Nat \ {0}
<1>1. state = "found" /\ call[1] = "add"
  BY DEF Prototype!add
<1>2. Len(key) \in Nat /\ Len(key) < MaxNodes
  BY <1>1, LenProperties DEF ProtoInv, Nexts, Adding
<1>3. MaxNodes \in Nat /\ Levels \in [1..MaxNodes -> Nat \ {0}]
  BY ExercisesAssumption
<1>4. Len(key) + 1 \in 1..MaxNodes
  BY <1>2, <1>3
<1> QED BY <1>3, <1>4 DEF Prototype!get_level

(* Every step of the prototype keeps its invariant. *)
LEMMA ProtoKeeps == ASSUME ProtoInv, Adding, Prototype!Next PROVE ProtoInv'
<1>1. CASE Prototype!NotFound
  <2>1. UNCHANGED <<next, key, pcurr, plvl, pp, found, call>> /\ state = "search" /\ state' = "found"
    BY <1>1 DEF Prototype!NotFound, Prototype!search
  <2>2. Searching'
    BY <2>1 DEF ProtoInv, Searching, Has
  <2> QED BY <2>1, <2>2, SearchKeeps
<1>2. CASE Prototype!Searched
  <2>1. UNCHANGED <<next, key, pcurr, plvl, pp, found>> /\ state' = "idle"
    BY <1>2 DEF Prototype!Searched, Prototype!search, Prototype!Return
  <2>2. Searching'
    BY <2>1 DEF ProtoInv, Searching, Has
  <2> QED BY <2>1, <2>2, SearchKeeps
<1>3. CASE Prototype!add(Prototype!get_level)
  <2>1. PICK lvl \in Nat \ {0} : lvl = Prototype!get_level
    BY <1>3, LevelDrawn
  <2> QED BY <1>3, <2>1, AddKeeps
<1>4. CASE \E f \in {"search", "add", "erase"}, k \in Number : Prototype!Begin(f, k)
  BY <1>4, BeginKeeps
<1> QED BY <1>1, <1>2, <1>3, <1>4, TurnKeeps, EraseKeeps DEF Prototype!Next, Prototype!Step

(* It implies what the runs check. *)
LEMMA ProtoTypes == ProtoInv => Prototype!TypeOK
<1> SUFFICES ASSUME ProtoInv PROVE Prototype!TypeOK
  OBVIOUS
<1>1. Len(key) \in Nat /\ DOMAIN next = 0..Len(key) /\ (1..Len(key)) \cup {0} = 0..Len(key)
  BY LenProperties DEF ProtoInv, Nexts
<1>2. \A p \in 0..Len(key) : DOMAIN next[p] = 1..Len(next[p])
  BY LenProperties DEF ProtoInv, Nexts
<1>3. \A q \in 0..Len(key) : q # 0 => q \in 1..Len(key)
  BY <1>1
<1>4. \A p \in 0..Len(key) : \A i \in DOMAIN next[p] :
        next[p][i] = -1 \/ (next[p][i] \in 1..Len(key) /\ i <= Len(next[next[p][i]]))
  BY <1>2, <1>3, Zenon DEF ProtoInv, Nexts, Linked, Has
<1>5. /\ pcurr \in (0..Len(key)) \cup {-1} /\ found \in (1..Len(key)) \cup {-1}
      /\ state \in {"idle", "search", "found", "crashed"}
  BY <1>3 DEF ProtoInv, Searching
<1> QED BY <1>1, <1>4, <1>5, Heads, Zenon DEF Prototype!TypeOK

(* It holds whatever program runs. *)
LEMMA ProtoInvariance == Spec => []ProtoInv
<1>1. Init => ProtoInv
  BY InitProto DEF Init
<1>2. ASSUME ProtoInv, Adding, [Next]_vars PROVE ProtoInv'
  <2>1. Prototype!Next \/ UNCHANGED protoVars
    BY <1>2 DEF Next, Runs, vars
  <2>2. CASE UNCHANGED protoVars
    <3>1. UNCHANGED <<next, key>> /\ Searching'
      BY <1>2, <2>2 DEF protoVars, ProtoInv, Searching, Has
    <3> QED BY <1>2, <3>1, SearchKeeps
  <2> QED BY <1>2, <2>1, <2>2, ProtoKeeps
<1> QED BY <1>1, <1>2, AddingInvariance, PTL DEF Spec

(* What follows each node at the lowest level; a head without levels has nothing
   behind it. *)
Lows == [p \in 0..Len(key) |-> IF Len(next[p]) = 0 THEN -1 ELSE next[p][1]]

(* Where low leads from the head, q is all of 0..n in that order. *)
ChainOf(q, low, n) ==
  /\ q \in [0..n -> 0..n] /\ q[0] = 0
  /\ \A i, j \in 0..n : q[i] = q[j] => i = j
  /\ \A a \in 0..n : \E i \in 0..n : q[i] = a
  /\ \A i \in 0..n : low[q[i]] = IF i = n THEN -1 ELSE q[i + 1]

(* One chain has all nodes.  A node that is found is its own predecessor at the
   lowest level, so that erase does not unlink it there. *)
OneChain ==
  /\ \A p \in 1..Len(key) : Len(next[p]) >= 1
  /\ \E q : ChainOf(q, Lows, Len(key))
  /\ state = "search" => found = -1
  /\ state = "found" /\ found # -1 => pp[1] = found

(* A new node behind p takes over what was behind p. *)
LEMMA ChainGrows ==
  ASSUME NEW n \in Nat, NEW low, NEW now, NEW p \in 0..n,
         now[p] = n + 1, now[n + 1] = low[p], \A r \in 0..n : r # p => now[r] = low[r],
         NEW q, ChainOf(q, low, n)
  PROVE  \E c : ChainOf(c, now, n + 1)
<1>1. /\ q \in [0..n -> 0..n] /\ q[0] = 0
      /\ \A i, j \in 0..n : q[i] = q[j] => i = j
      /\ \A a \in 0..n : \E i \in 0..n : q[i] = a
      /\ \A i \in 0..n : low[q[i]] = IF i = n THEN -1 ELSE q[i + 1]
  BY DEF ChainOf
<1>2. PICK j \in 0..n : q[j] = p
  BY <1>1
<1>3. PICK c : c = [i \in 0..(n + 1) |-> IF i <= j THEN q[i] ELSE IF i = j + 1 THEN n + 1 ELSE q[i - 1]]
  OBVIOUS
<1>4. /\ \A i \in 0..j : c[i] = q[i] /\ i \in 0..n
      /\ c[j + 1] = n + 1
      /\ \A i \in (j + 2)..(n + 1) : c[i] = q[i - 1] /\ i - 1 \in 0..n
      /\ \A i \in 0..(n + 1) : i \in 0..j \/ i = j + 1 \/ i \in (j + 2)..(n + 1)
  BY <1>3
<1>5. \A i \in 0..n : q[i] \in 0..n /\ q[i] # n + 1
  <2>1. \A i \in 0..n : q[i] \in 0..n
    BY <1>1
  <2>2. n + 1 \notin 0..n
    OBVIOUS
  <2> QED BY <2>1, <2>2
<1>6. c \in [0..(n + 1) -> 0..(n + 1)] /\ c[0] = 0
  <2>1. \A i \in 0..(n + 1) : c[i] \in 0..(n + 1)
    BY <1>4, <1>5
  <2>2. c \in [0..(n + 1) -> 0..(n + 1)]
    BY <1>3, <2>1
  <2>3. 0 \in 0..j
    OBVIOUS
  <2> QED BY <1>1, <1>4, <2>2, <2>3
<1>7. ASSUME NEW i \in 0..(n + 1), NEW k \in 0..(n + 1), c[i] = c[k] PROVE i = k
  <2>1. CASE i \in 0..j
    <3>1. k \in 0..j => i = k
      BY <1>1, <1>4, <1>7, <2>1
    <3>2. k # j + 1
      BY <1>4, <1>5, <1>7, <2>1
    <3>3. k \notin (j + 2)..(n + 1)
      <4> SUFFICES ASSUME k \in (j + 2)..(n + 1) PROVE FALSE
        OBVIOUS
      <4>1. i = k - 1
        BY <1>1, <1>4, <1>7, <2>1
      <4> QED BY <2>1, <4>1
    <3> QED BY <1>4, <3>1, <3>2, <3>3
  <2>2. CASE i = j + 1
    BY <1>4, <1>5, <1>7, <2>2
  <2>3. CASE i \in (j + 2)..(n + 1)
    <3>1. k \in (j + 2)..(n + 1) => i = k
      <4> SUFFICES ASSUME k \in (j + 2)..(n + 1) PROVE i = k
        OBVIOUS
      <4>1. i - 1 = k - 1
        BY <1>1, <1>4, <1>7, <2>3
      <4> QED BY <2>3, <4>1
    <3>2. k # j + 1
      BY <1>4, <1>5, <1>7, <2>3
    <3>3. k \notin 0..j
      <4> SUFFICES ASSUME k \in 0..j PROVE FALSE
        OBVIOUS
      <4>1. k = i - 1
        BY <1>1, <1>4, <1>7, <2>3
      <4> QED BY <2>3, <4>1
    <3> QED BY <1>4, <3>1, <3>2, <3>3
  <2> QED BY <1>4, <2>1, <2>2, <2>3
<1>8. ASSUME NEW a \in 0..(n + 1) PROVE \E i \in 0..(n + 1) : c[i] = a
  <2>1. CASE a = n + 1
    BY <1>4, <2>1
  <2>2. CASE a \in 0..n
    <3>1. PICK i \in 0..n : q[i] = a
      BY <1>1, <2>2
    <3>2. CASE i <= j
      BY <1>4, <3>1, <3>2
    <3>3. CASE i > j
      <4>1. i + 1 \in (j + 2)..(n + 1) /\ (i + 1) - 1 = i /\ i + 1 \in 0..(n + 1)
        BY <3>3
      <4>2. c[i + 1] = a
        BY <1>4, <3>1, <4>1
      <4> QED BY <4>1, <4>2
    <3> QED BY <3>2, <3>3
  <2> QED BY <2>1, <2>2
<1>9. ASSUME NEW i \in 0..(n + 1) PROVE now[c[i]] = IF i = n + 1 THEN -1 ELSE c[i + 1]
  <2>1. CASE i \in 0..j /\ i # j
    <3>1. i + 1 \in 0..j /\ i # n /\ i # n + 1 /\ i \in 0..n
      BY <2>1
    <3>2. c[i] = q[i] /\ c[i + 1] = q[i + 1] /\ q[i] # p
      BY <1>1, <1>2, <1>4, <2>1, <3>1
    <3>3. now[q[i]] = low[q[i]]
      BY <1>5, <3>1, <3>2
    <3> QED BY <1>1, <3>1, <3>2, <3>3
  <2>2. CASE i = j
    BY <1>2, <1>4, <2>2
  <2>3. CASE i = j + 1
    <3>1. now[c[i]] = low[q[j]]
      BY <1>2, <1>4, <2>3
    <3>2. CASE j = n
      BY <1>1, <2>3, <3>1, <3>2
    <3>3. CASE j # n
      <4>1. i + 1 \in (j + 2)..(n + 1) /\ (i + 1) - 1 = j + 1 /\ i # n + 1
        BY <2>3, <3>3
      <4>2. c[i + 1] = q[j + 1]
        BY <1>4, <4>1
      <4> QED BY <1>1, <3>1, <3>3, <4>1, <4>2
    <3> QED BY <3>2, <3>3
  <2>4. CASE i \in (j + 2)..(n + 1)
    <3>1. c[i] = q[i - 1] /\ i - 1 \in 0..n /\ i - 1 # j
      BY <1>4, <2>4
    <3>2. q[i - 1] # p
      BY <1>1, <1>2, <3>1
    <3>3. now[c[i]] = low[q[i - 1]]
      BY <1>5, <3>1, <3>2
    <3>4. low[q[i - 1]] = IF i - 1 = n THEN -1 ELSE q[(i - 1) + 1]
      BY <1>1, <3>1
    <3>5. CASE i = n + 1
      BY <3>3, <3>4, <3>5
    <3>6. CASE i # n + 1
      <4>1. i + 1 \in (j + 2)..(n + 1) /\ (i + 1) - 1 = i /\ (i - 1) + 1 = i /\ i - 1 # n
        BY <2>4, <3>6
      <4>2. c[i + 1] = q[i]
        BY <1>4, <4>1
      <4> QED BY <3>3, <3>4, <3>6, <4>1, <4>2
    <3> QED BY <3>5, <3>6
  <2> QED BY <1>4, <2>1, <2>2, <2>3, <2>4
<1> HIDE <1>3
<1>10. ChainOf(c, now, n + 1)
  BY <1>6, <1>7, <1>8, <1>9, Zenon DEF ChainOf
<1> QED BY <1>10

(* Where nothing is linked, the chain stays. *)
LEMMA ChainStays ==
  ASSUME OneChain, UNCHANGED <<next, key>>,
         state' = "search" => found' = -1, state' = "found" /\ found' # -1 => pp'[1] = found'
  PROVE  OneChain'
<1>1. Lows' = Lows
  BY DEF Lows
<1> QED BY <1>1 DEF OneChain, ChainOf

(* A search that finds a node has found it at every level it has left to search,
   the lowest one included. *)
LEMMA TurnChains == ASSUME ProtoInv, OneChain, Prototype!Turn PROVE OneChain'
<1>1. /\ state = "search" /\ plvl \in Int /\ plvl >= 0 /\ pcurr # -1 /\ found = -1
      /\ next' = next /\ key' = key
  BY Heads DEF Prototype!Turn, ProtoInv, Searching, OneChain
<1>2. CASE /\ pp' = [i \in DOMAIN pp |-> IF i - 1 <= plvl THEN pcurr ELSE pp[i]]
           /\ found' = pcurr /\ state' = "found" /\ pcurr # 0
  <2>1. pcurr \in 1..Len(key) /\ Len(key) \in Nat
    BY <1>1, <1>2, LenProperties DEF ProtoInv, Searching, Nexts
  <2>2. Len(pp) >= 1
    <3>1. PICK q : ChainOf(q, Lows, Len(key))
      BY DEF OneChain
    <3>2. Lows[0] = q[1] /\ q[1] \in 0..Len(key)
      <4>1. /\ q[0] = 0 /\ \A i \in 0..Len(key) : q[i] \in 0..Len(key)
            /\ \A i \in 0..Len(key) : Lows[q[i]] = IF i = Len(key) THEN -1 ELSE q[i + 1]
        BY <3>1 DEF ChainOf
      <4>2. 0 \in 0..Len(key) /\ 1 \in 0..Len(key) /\ 0 # Len(key) /\ 0 + 1 = 1
        BY <2>1
      <4> QED BY <4>1, <4>2
    <3>3. Lows[0] # -1
      BY <2>1, <3>2
    <3>4. Len(next[0]) # 0
      BY <2>1, <3>3 DEF Lows
    <3>5. Len(pp) = Len(next[0]) /\ Len(pp) \in Nat
      BY <1>1, LenProperties DEF ProtoInv, Searching
    <3> QED BY <3>4, <3>5
  <2>3. 1 \in DOMAIN pp
    BY <2>2, LenProperties DEF ProtoInv, Searching
  <2>4. pp'[1] = pcurr
    BY <1>1, <1>2, <2>3
  <2> QED BY <1>1, <1>2, <2>4, ChainStays
<1>3. CASE found' = found /\ state' = state
  BY <1>1, <1>3, ChainStays
<1> QED BY <1>2, <1>3, Heads DEF Prototype!Turn

(* add puts the new node behind its predecessor at the lowest level. *)
LEMMA AddChains ==
  ASSUME ProtoInv, OneChain, NEW lvl \in Nat \ {0}, Prototype!add(lvl)
  PROVE  OneChain'
<1> USE ExercisesAssumption
<1>1. PICK n : n = Len(key)
  OBVIOUS
<1>2. PICK a : a = n + 1
  OBVIOUS
<1>3. PICK h : h = Len(pp)
  OBVIOUS
<1>4. /\ n \in Nat /\ h \in Nat /\ a \in Nat /\ lvl \in Nat /\ lvl >= 1
      /\ state = "found" /\ Len(next[0]) = h /\ DOMAIN pp = 1..h /\ a \notin 0..n
      /\ 0 \in 0..n /\ a # 0 /\ key \in Seq(Number) /\ call[2] \in Number
  BY <1>1, <1>2, <1>3, LenProperties DEF ProtoInv, Nexts, Searching, Prototype!add
<1>5. \A p \in 0..n : next[p] \in Seq(Int) /\ Len(next[p]) \in Nat
  BY <1>1, LenProperties DEF ProtoInv, Nexts
<1>6. CASE Prototype!Crash
  BY <1>6, ChainStays DEF Prototype!Crash
<1>7. CASE /\ ~\E i \in DOMAIN pp : i <= lvl /\ pp[i] = Prototype!Null
           /\ key' = Append(key, Prototype!Target)
           /\ next' = [p \in Prototype!Nodes \cup {Prototype!head_, a} |->
                         IF p = a THEN Prototype!Behind(a, lvl) ELSE Prototype!Set(p, lvl, a)]
           /\ Prototype!Return
  <2>1. PICK p : p = IF h = 0 THEN 0 ELSE pp[1]
    OBVIOUS
  <2>2. h # 0 => p # -1 /\ 1 \in 1..h
    BY <1>4, <1>7, <2>1, Heads
  <2>3. p \in 0..n /\ (h # 0 => 1 <= Len(next[p]))
    BY <1>1, <1>3, <1>4, <2>1, <2>2 DEF ProtoInv, Searching, Has
  <2>4. Lows[p] = IF h = 0 THEN -1 ELSE next[p][1]
    BY <1>1, <1>4, <1>5, <2>1, <2>3 DEF Lows
  <2>5. key' \in Seq(Number) /\ Len(key') = a /\ state' = "idle"
    BY <1>1, <1>2, <1>4, <1>7 DEF Prototype!Return, Prototype!Target
  <2>6. Prototype!Max({Prototype!curr_lvl, lvl}) = IF h >= lvl THEN h ELSE lvl
    <3>1. {h, lvl} \subseteq Int /\ {h, lvl} # {} /\ h + lvl \in Int /\ \A x \in {h, lvl} : x <= h + lvl
      BY <1>4
    <3>2. /\ Prototype!Max({h, lvl}) \in {h, lvl}
          /\ \A y \in {h, lvl} : y <= Prototype!Max({h, lvl})
      BY <3>1, GreatestOf
    <3> QED BY <1>4, <3>2, Heads
  <2>7. next'[a] = [i \in 1..lvl |-> IF i <= h THEN next[pp[i]][i] ELSE -1]
    BY <1>3, <1>4, <1>7, Heads DEF Prototype!Behind
  <2>8. Len(next'[a]) = lvl /\ next'[a][1] = Lows[p]
    <3>1. Len(next'[a]) = lvl
      BY <1>4, <2>7
    <3>2. next'[a][1] = IF 1 <= h THEN next[pp[1]][1] ELSE -1
      BY <1>4, <2>7
    <3> QED BY <1>4, <2>1, <2>4, <3>1, <3>2
  <2>9. ASSUME NEW r \in 0..n
        PROVE  /\ Len(next'[r]) = IF r = 0 THEN (IF h >= lvl THEN h ELSE lvl) ELSE Len(next[r])
               /\ Len(next'[r]) >= 1 => next'[r][1] = IF r = p THEN a ELSE next[r][1]
    <3>1. r # a /\ r \in (1..n) \cup {0, a}
      BY <1>4
    <3>2. next'[r] = Prototype!Set(r, lvl, a)
      BY <1>1, <1>7, <3>1, Heads
    <3>3. PICK m : m = IF r = 0 THEN (IF h >= lvl THEN h ELSE lvl) ELSE Len(next[r])
      OBVIOUS
    <3>4. next'[r] = [i \in 1..m |->
            IF i <= lvl /\ (IF i <= h THEN pp[i] = r ELSE r = 0) THEN a ELSE next[r][i]]
      BY <1>3, <2>6, <3>2, <3>3, Heads DEF Prototype!Set
    <3>5. m \in Nat
      BY <1>4, <1>5, <3>3
    <3>6. Len(next'[r]) = m
      BY <3>4, <3>5
    <3>7. m >= 1 => next'[r][1] = IF 1 <= lvl /\ (IF 1 <= h THEN pp[1] = r ELSE r = 0) THEN a ELSE next[r][1]
      BY <3>4, <3>5
    <3> QED BY <1>4, <2>1, <3>3, <3>6, <3>7
  <2>10. Lows'[a] = Lows[p] /\ \A r \in 0..n : Lows'[r] = IF r = p THEN a ELSE Lows[r]
    <3>1. \A r \in 0..a : Lows'[r] = IF Len(next'[r]) = 0 THEN -1 ELSE next'[r][1]
      BY <2>5 DEF Lows
    <3>2. \A r \in 0..n : Lows[r] = IF Len(next[r]) = 0 THEN -1 ELSE next[r][1]
      BY <1>1 DEF Lows
    <3>3. a \in 0..a /\ \A r \in 0..n : r \in 0..a
      BY <1>2, <1>4
    <3>4. Lows'[a] = Lows[p]
      BY <1>4, <2>8, <3>1, <3>3
    <3>5. ASSUME NEW r \in 0..n PROVE Lows'[r] = IF r = p THEN a ELSE Lows[r]
      <4>1. CASE Len(next'[r]) >= 1 /\ (r # p => Len(next[r]) >= 1)
        BY <1>5, <2>9, <3>1, <3>2, <3>3, <4>1
      <4>2. CASE ~(Len(next'[r]) >= 1)
        <5>1. Len(next'[r]) = 0 /\ r # 0 /\ Len(next[r]) = 0
          BY <1>4, <1>5, <2>9, <4>2
        <5>2. r # p
          BY <2>1, <2>3, <5>1
        <5> QED BY <3>1, <3>2, <3>3, <5>1, <5>2
      <4>3. CASE r # p /\ ~(Len(next[r]) >= 1) /\ Len(next'[r]) >= 1
        <5>1. r = 0 /\ Len(next[r]) = 0
          BY <1>5, <2>9, <4>3
        <5> QED BY <1>4, <2>1, <4>3, <5>1
      <4> QED BY <4>1, <4>2, <4>3
    <3> QED BY <3>4, <3>5
  <2>11. PICK q : ChainOf(q, Lows, n)
    BY <1>1 DEF OneChain
  <2>12. \E c : ChainOf(c, Lows', a)
    <3>1. /\ Lows'[p] = n + 1 /\ Lows'[n + 1] = Lows[p]
          /\ \A r \in 0..n : r # p => Lows'[r] = Lows[r]
      BY <1>2, <2>3, <2>10
    <3> QED BY <1>2, <1>4, <2>3, <2>11, <3>1, ChainGrows
  <2>13. \A r \in 1..a : Len(next'[r]) >= 1
    <3>1. \A r \in 1..a : r = a \/ (r \in 1..n /\ r \in 0..n /\ r # 0)
      BY <1>2, <1>4
    <3>2. \A r \in 1..n : Len(next[r]) >= 1
      BY <1>1 DEF OneChain
    <3> QED BY <1>4, <2>8, <2>9, <3>1, <3>2
  <2>14. (\E c : ChainOf(c, Lows, Len(key)))'
    BY <2>5, <2>12, Zenon
  <2> QED BY <2>5, <2>13, <2>14 DEF OneChain
<1> QED BY <1>1, <1>2, <1>6, <1>7 DEF Prototype!add

(* erase puts the same pointer back there. *)
LEMMA EraseChains == ASSUME ProtoInv, OneChain, Prototype!erase PROVE OneChain'
<1>1. state = "found" /\ key' = key /\ state' = "idle"
  BY DEF Prototype!erase, Prototype!Return
<1>2. CASE found = -1
  <2>1. next' = next
    BY <1>2, Heads DEF Prototype!erase
  <2> QED BY <1>1, <2>1, ChainStays
<1>3. CASE found # -1
  <2>1. PICK n : n = Len(key)
    OBVIOUS
  <2>2. /\ n \in Nat /\ DOMAIN next = 0..n /\ found \in 0..n /\ pp[1] = found
        /\ \A p \in 0..n : next[p] \in Seq(Int) /\ Len(next[p]) \in Nat /\ DOMAIN next[p] = 1..Len(next[p])
    BY <1>1, <1>3, <2>1, LenProperties DEF ProtoInv, Nexts, Searching, OneChain
  <2>3. next' = [p \in DOMAIN next |-> [i \in DOMAIN next[p] |->
                   IF i <= Len(next[found]) /\ pp[i] = p THEN next[found][i] ELSE next[p][i]]]
    BY <1>3, Heads DEF Prototype!erase
  <2>4. ASSUME NEW p \in 0..n
        PROVE  Len(next'[p]) = Len(next[p]) /\ (Len(next[p]) # 0 => next'[p][1] = next[p][1])
    <3>1. PICK m : m = Len(next[p])
      OBVIOUS
    <3>2. next'[p] = [i \in 1..m |->
            IF i <= Len(next[found]) /\ pp[i] = p THEN next[found][i] ELSE next[p][i]]
      BY <2>2, <2>3, <3>1
    <3>3. m \in Nat
      BY <2>2, <3>1
    <3>4. Len(next'[p]) = m
      BY <3>2, <3>3
    <3>5. m # 0 => next'[p][1] = IF 1 <= Len(next[found]) /\ pp[1] = p THEN next[found][1] ELSE next[p][1]
      BY <3>2, <3>3
    <3> QED BY <2>2, <3>1, <3>4, <3>5
  <2>5. Lows' = Lows
    BY <1>1, <2>1, <2>4 DEF Lows
  <2>6. \A p \in 1..n : Len(next'[p]) >= 1
    <3>1. \A p \in 1..n : p \in 0..n /\ Len(next[p]) >= 1
      BY <2>1, <2>2 DEF OneChain
    <3> QED BY <2>4, <3>1
  <2>7. (\E q : ChainOf(q, Lows, Len(key)))'
    BY <1>1, <2>5, Zenon DEF OneChain
  <2> QED BY <1>1, <2>1, <2>6, <2>7 DEF OneChain
<1> QED BY <1>2, <1>3

(* So there is one chain whatever program runs. *)
LEMMA ChainInvariance == Spec => []OneChain
<1>1. Init => OneChain
  <2> SUFFICES ASSUME Prototype!Init PROVE OneChain
    BY DEF Init
  <2>1. /\ next = [a \in {0} |-> <<>>] /\ key = <<>> /\ found = -1 /\ state = "idle"
    BY Heads DEF Prototype!Init
  <2>2. Len(key) = 0 /\ 0..0 = {0} /\ Lows[0] = -1
    BY <2>1 DEF Lows
  <2>3. PICK q : q = [i \in 0..0 |-> 0]
    OBVIOUS
  <2>4. ChainOf(q, Lows, 0)
    BY <2>2, <2>3 DEF ChainOf
  <2> QED BY <2>1, <2>2, <2>4 DEF OneChain
<1>2. ASSUME ProtoInv, Adding, OneChain, [Next]_vars PROVE OneChain'
  <2>1. Prototype!Next \/ UNCHANGED protoVars
    BY <1>2 DEF Next, Runs, vars
  <2>2. CASE UNCHANGED protoVars
    BY <1>2, <2>2, ChainStays DEF protoVars, OneChain
  <2>3. CASE Prototype!NotFound \/ Prototype!Searched
    BY <1>2, <2>3, ChainStays
       DEF Prototype!NotFound, Prototype!Searched, Prototype!search, Prototype!Return, OneChain
  <2>4. CASE Prototype!add(Prototype!get_level)
    <3>1. PICK lvl \in Nat \ {0} : lvl = Prototype!get_level
      BY <1>2, <2>4, LevelDrawn
    <3> QED BY <1>2, <2>4, <3>1, AddChains
  <2>5. CASE \E f \in {"search", "add", "erase"}, k \in Number : Prototype!Begin(f, k)
    BY <1>2, <2>5, Heads, ChainStays DEF Prototype!Begin
  <2> QED BY <1>2, <2>1, <2>2, <2>3, <2>4, <2>5, TurnChains, EraseChains
          DEF Prototype!Next, Prototype!Step
<1> QED BY <1>1, <1>2, ProtoInvariance, AddingInvariance, PTL DEF Spec

(***************************************************************************)
(* Whatever predecessors internal_search found, wrong ones included, the   *)
(* lowest level of the prototype is one chain with every node ever added,  *)
(* once each (leetcode.cc 352-427), for any keys, levels and calls.        *)
(***************************************************************************)
THEOREM NothingEverLost == Spec => []NothingLost
<1>1. ASSUME ProtoInv, OneChain PROVE NothingLost
  <2>1. PICK n : n = Len(key)
    OBVIOUS
  <2>2. PICK q : ChainOf(q, Lows, n)
    BY <1>1, <2>1 DEF OneChain
  <2>3. /\ n \in Nat /\ q \in [0..n -> 0..n] /\ q[0] = 0
        /\ \A i, j \in 0..n : q[i] = q[j] => i = j
        /\ \A i \in 0..n : Lows[q[i]] = IF i = n THEN -1 ELSE q[i + 1]
        /\ \A p \in 0..n : Lows[p] = IF Len(next[p]) = 0 THEN -1 ELSE next[p][1]
        /\ \A p \in 0..n : Len(next[p]) \in Nat
    BY <1>1, <2>1, <2>2, LenProperties DEF ChainOf, ProtoInv, Nexts, Lows
  <2>4. CASE Len(next[0]) = 0
    <3>1. Lows[0] = -1
      BY <2>3, <2>4
    <3>2. n = 0
      <4> SUFFICES ASSUME n # 0 PROVE FALSE
        OBVIOUS
      <4>1. 0 \in 0..n /\ 1 \in 0..n
        BY <2>3
      <4>2. -1 = q[1] /\ q[1] \in 0..n
        BY <2>3, <3>1, <4>1
      <4> QED BY <2>3, <4>2
    <3>3. 1..0 = {}
      OBVIOUS
    <3> QED BY <2>1, <2>4, <3>2, <3>3, Heads DEF NothingLost, Prototype!NothingLost
  <2>5. CASE Len(next[0]) # 0
    <3>1. PICK s : s = [i \in 1..n |-> q[i]]
      OBVIOUS
    <3>2. \A i \in 1..n : q[i] # 0 /\ q[i] \in 1..n
      BY <2>3
    <3>3. s \in [1..n -> 1..n]
      BY <3>1, <3>2
    <3>4. Prototype!IsInjective(s)
      BY <2>3, <3>1 DEF Prototype!IsInjective
    <3>5. Len(s) = n
      BY <2>3, <3>3, SeqOf
    <3>6. \A p \in 0..n : Len(next[p]) # 0
      BY <1>1, <2>1, <2>3, <2>5 DEF OneChain
    <3>7. ASSUME NEW i \in 0..n
          PROVE  next[IF i = 0 THEN 0 ELSE s[i]][1] = IF i = n THEN -1 ELSE s[i + 1]
      <4>1. (IF i = 0 THEN 0 ELSE s[i]) = q[i]
        BY <2>3, <3>1
      <4>2. next[q[i]][1] = Lows[q[i]]
        BY <2>3, <3>6
      <4>3. i # n => s[i + 1] = q[i + 1]
        BY <2>3, <3>1
      <4> QED BY <2>3, <4>1, <4>2, <4>3
    <3>8. Prototype!Chain(s)
      BY <3>5, <3>7, Heads DEF Prototype!Chain
    <3> QED BY <2>1, <2>5, <3>3, <3>4, <3>8, Heads DEF NothingLost, Prototype!NothingLost
  <2> QED BY <2>4, <2>5
<1> QED BY <1>1, ProtoInvariance, ChainInvariance, PTL

-----------------------------------------------------------------------------
(***************************************************************************)
(* The loops over the nodes in DelReverseN.cc.                             *)
(***************************************************************************)

(* A node's pointer leads to one of m nodes or nowhere, and so does every local
   of a loop. *)
NodeOver(m) == [val : Int, next : 0..m]
RunOver(m) ==
  {List!NoRun}
  \cup [f : {"reverse"}, curr : 0..m, tmp : 0..m, ret : 0..m, next : 0..m]
  \cup [f : {"delete"}, n : Positions, curr : 0..m, prev : 0..m, idx : Int]

ListInv ==
  /\ nodes \in Seq(NodeOver(Len(nodes)))
  /\ head \in 0..Len(nodes) /\ run \in RunOver(Len(nodes))
  /\ fate \in {"idle", "busy", "crashed"}

(* The invariant of the lists holds at first. *)
LEMMA InitList == List!Init => ListInv
<1> SUFFICES ASSUME List!Init PROVE ListInv
  OBVIOUS
<1>1. nodes = <<>> /\ head = 0 /\ run = List!NoRun /\ fate = "idle"
  BY DEF List!Init, List!Null
<1>2. Len(nodes) = 0 /\ 0 \in 0..0 /\ nodes \in Seq(NodeOver(0))
  BY <1>1
<1> QED BY <1>1, <1>2 DEF ListInv, RunOver

(* No turn of a loop leads a pointer anywhere but to a node or nowhere. *)
LEMMA ListKeeps == ListInv /\ List!Next => ListInv'
<1> SUFFICES ASSUME ListInv, List!Next PROVE ListInv'
  OBVIOUS
<1> USE DEF List!Null
<1>1. PICK m : m = Len(nodes)
  OBVIOUS
<1>2. /\ m \in Nat /\ 0 \in 0..m /\ nodes \in [1..m -> NodeOver(m)] /\ nodes \in Seq(NodeOver(m))
      /\ \A i \in 0..m : i # 0 => i \in 1..m
  BY <1>1, LenProperties DEF ListInv
<1>3. /\ head \in 0..m /\ run \in RunOver(m) /\ fate \in {"idle", "busy", "crashed"}
      /\ \A i \in 1..m : nodes[i] \in NodeOver(m) /\ nodes[i].next \in 0..m
  BY <1>1, <1>2 DEF ListInv, NodeOver
<1>4. /\ run.f = "reverse" => run \in [f : {"reverse"}, curr : 0..m, tmp : 0..m, ret : 0..m, next : 0..m]
      /\ run.f = "delete" => run \in [f : {"delete"}, n : Positions, curr : 0..m, prev : 0..m, idx : Int]
  BY <1>3 DEF RunOver, List!NoRun
(* Where the nodes are as many as before. *)
<1>5. ASSUME nodes' \in [1..m -> NodeOver(m)], head' \in 0..m, run' \in RunOver(m),
             fate' \in {"idle", "busy", "crashed"}
      PROVE  ListInv'
  <2>1. nodes' \in Seq(NodeOver(m)) /\ Len(nodes') = m
    BY <1>2, <1>5, SeqOf
  <2> QED BY <1>5, <2>1 DEF ListInv
<1>6. ASSUME NEW a \in 1..m, NEW b \in 0..m, nodes' = [nodes EXCEPT ![a].next = b]
      PROVE  nodes' \in [1..m -> NodeOver(m)]
  <2>1. nodes[a] \in NodeOver(m)
    BY <1>3
  <2>2. [nodes[a] EXCEPT !.next = b] \in NodeOver(m)
    BY <2>1 DEF NodeOver
  <2> QED BY <1>2, <1>6, <2>2
<1>7. List!NoRun \in RunOver(m)
  BY DEF RunOver
<1>8. ASSUME List!Crash PROVE ListInv'
  BY <1>2, <1>3, <1>5, <1>8 DEF List!Crash
<1>9. ASSUME NEW n \in 0..MaxLength, List!ConstructList(n) PROVE ListInv'
  <2>1. n \in Nat /\ 0 \in 0..n /\ (n # 0 => 1 \in 0..n)
    BY ExercisesAssumption
  <2>2. /\ nodes' = [i \in 1..n |-> List!node(i, IF i < n THEN i + 1 ELSE 0)]
        /\ head' = (IF n = 0 THEN 0 ELSE 1) /\ run' = List!NoRun /\ fate' = "idle"
    BY <1>9 DEF List!ConstructList, List!Return
  <2>3. \A i \in 1..n : List!node(i, IF i < n THEN i + 1 ELSE 0) \in NodeOver(n)
    <3> SUFFICES ASSUME NEW i \in 1..n, NEW j, j = IF i < n THEN i + 1 ELSE 0
                 PROVE  List!node(i, j) \in NodeOver(n)
      OBVIOUS
    <3>1. i \in Int /\ j \in 0..n
      BY <2>1
    <3> QED BY <3>1 DEF List!node, NodeOver
  <2>4. nodes' \in [1..n -> NodeOver(n)]
    BY <2>2, <2>3
  <2>5. nodes' \in Seq(NodeOver(n)) /\ Len(nodes') = n
    BY <2>1, <2>4, SeqOf
  <2> QED BY <2>1, <2>2, <2>5 DEF ListInv, RunOver
<1>10. CASE List!doReverse
  <2>1. /\ run' = [f |-> "reverse", curr |-> head, tmp |-> 0, ret |-> 0,
                   next |-> IF head = 0 THEN 0 ELSE nodes[head].next]
        /\ fate' = "busy" /\ nodes' = nodes /\ head' = head
    BY <1>10 DEF List!doReverse
  <2>2. (IF head = 0 THEN 0 ELSE nodes[head].next) \in 0..m
    BY <1>2, <1>3
  <2>3. run' \in RunOver(m)
    BY <1>2, <1>3, <2>1, <2>2 DEF RunOver
  <2> QED BY <1>2, <1>3, <1>5, <2>1, <2>3
<1>11. CASE List!ReverseTurn
  <2>1. /\ run \in [f : {"reverse"}, curr : 0..m, tmp : 0..m, ret : 0..m, next : 0..m]
        /\ fate' = fate /\ head' = head
    BY <1>4, <1>11 DEF List!ReverseTurn
  <2>2. CASE run.next # 0 /\ List!Relink
             /\ run' = [run EXCEPT !.curr = run.next, !.next = List!After, !.tmp = List!After]
    <3>1. run.next \in 1..m /\ run.curr \in 0..m
      BY <1>2, <2>1, <2>2
    <3>2. nodes[run.next].next \in 0..m
      BY <1>3, <3>1
    <3>3. run' \in RunOver(m)
      BY <2>1, <2>2, <3>1, <3>2 DEF RunOver, List!After
    <3>4. nodes' \in [1..m -> NodeOver(m)]
      BY <1>6, <2>2, <3>1 DEF List!Relink
    <3> QED BY <1>3, <1>5, <2>1, <3>3, <3>4
  <2>3. CASE /\ run' = [run EXCEPT !.curr = 0, !.next = run.tmp, !.ret = run.curr]
             /\ UNCHANGED nodes
    <3>1. run' \in RunOver(m)
      BY <1>2, <2>1, <2>3 DEF RunOver
    <3> QED BY <1>2, <1>3, <1>5, <2>1, <2>3, <3>1
  <2> QED BY <1>11, <2>2, <2>3 DEF List!ReverseTurn
<1>12. CASE List!ReverseEnds
  <2>1. run \in [f : {"reverse"}, curr : 0..m, tmp : 0..m, ret : 0..m, next : 0..m]
    BY <1>4, <1>12 DEF List!ReverseEnds
  <2>2. CASE head # 0 /\ nodes' = [nodes EXCEPT ![head].next = 0] /\ List!Return(run.ret)
    <3>1. head \in 1..m
      BY <1>2, <1>3, <2>2
    <3>2. nodes' \in [1..m -> NodeOver(m)]
      BY <1>2, <1>6, <2>2, <3>1
    <3> QED BY <1>5, <1>7, <2>1, <2>2, <3>2 DEF List!Return
  <2> QED BY <1>8, <1>12, <2>2 DEF List!ReverseEnds
<1>13. ASSUME NEW n \in Positions, List!doDelN(n) PROVE ListInv'
  <2>1. /\ run' = [f |-> "delete", n |-> n, curr |-> head, prev |-> 0, idx |-> 1]
        /\ fate' = "busy" /\ nodes' = nodes /\ head' = head
    BY <1>13 DEF List!doDelN
  <2>2. run' \in RunOver(m)
    BY <1>2, <1>3, <2>1 DEF RunOver
  <2> QED BY <1>2, <1>3, <1>5, <2>1, <2>2
<1>14. CASE List!DelNext
  <2>1. run \in [f : {"delete"}, n : Positions, curr : 0..m, prev : 0..m, idx : Int]
    BY <1>4, <1>14 DEF List!DelNext
  <2>2. CASE /\ run.curr # 0
             /\ run' = [run EXCEPT !.prev = run.curr, !.curr = nodes[run.curr].next, !.idx = @ + 1]
             /\ UNCHANGED <<nodes, head, fate>>
    <3>1. nodes[run.curr].next \in 0..m
      BY <1>2, <1>3, <2>1, <2>2
    <3>2. run' \in [f : {"delete"}, n : Positions, curr : 0..m, prev : 0..m, idx : Int]
      <4>1. run.idx + 1 \in Int
        BY <2>1
      <4>2. run' = [run EXCEPT !.prev = run.curr, !.curr = nodes[run.curr].next, !.idx = run.idx + 1]
        BY <2>2
      <4> QED BY <2>1, <3>1, <4>1, <4>2
    <3>3. run' \in RunOver(m)
      BY <3>2 DEF RunOver
    <3> QED BY <1>2, <1>3, <1>5, <2>2, <3>3
  <2> QED BY <1>8, <1>14, <2>2 DEF List!DelNext
<1>15. CASE List!DelEnds
  <2>1. run \in [f : {"delete"}, n : Positions, curr : 0..m, prev : 0..m, idx : Int]
    BY <1>4, <1>15 DEF List!DelEnds
  <2>2. CASE run.curr # 0 /\ ~List!Crash
    <3>1. nodes[run.curr].next \in 0..m
      BY <1>2, <1>3, <2>1, <2>2
    <3>2. CASE List!Return(nodes[run.curr].next) /\ UNCHANGED nodes
      BY <1>2, <1>5, <1>7, <3>1, <3>2 DEF List!Return
    <3>3. CASE /\ run.prev # 0 /\ List!Return(head)
               /\ nodes' = [nodes EXCEPT ![run.prev].next = nodes[run.curr].next]
      <4>1. run.prev \in 1..m
        BY <1>2, <2>1, <3>3
      <4>2. nodes' \in [1..m -> NodeOver(m)]
        BY <1>6, <3>1, <3>3, <4>1
      <4> QED BY <1>3, <1>5, <1>7, <3>3, <4>2 DEF List!Return
    <3> QED BY <1>15, <2>2, <3>2, <3>3 DEF List!DelEnds
  <2> QED BY <1>8, <1>15, <2>2 DEF List!DelEnds
<1> QED BY <1>9, <1>10, <1>11, <1>12, <1>13, <1>14, <1>15 DEF List!Next, List!Turn

(* It holds whatever program runs. *)
LEMMA ListInvariance == Spec => []ListInv
<1>1. Init => ListInv
  BY InitList DEF Init
<1>2. ASSUME ListInv, [Next]_vars PROVE ListInv'
  <2>1. List!Next \/ UNCHANGED listVars
    BY <1>2 DEF Next, Runs, vars
  <2>2. CASE UNCHANGED listVars
    BY <1>2, <2>2 DEF listVars, ListInv
  <2> QED BY <1>2, <2>1, <2>2, ListKeeps
<1> QED BY <1>1, <1>2, PTL DEF Spec

(***************************************************************************)
(* The lists as sequences: s is the nodes of the caller's list, in order.  *)
(***************************************************************************)
Behind(s, i) == IF i < Len(s) THEN s[i + 1] ELSE 0

Row(s) ==
  /\ s \in Seq(1..Len(nodes)) /\ Len(s) <= Len(nodes) /\ Len(s) <= MaxLength
  /\ \A i, j \in 1..Len(s) : s[i] = s[j] => i = j
  /\ head = Behind(s, 0)

Straight(s) == \A i \in 1..Len(s) : nodes[s[i]].next = Behind(s, i)

(* Where doReverse is at the c-th node, the nodes up to it lead backwards, but for
   the old head. *)
Halves(s, c) ==
  /\ c \in 0..Len(s) /\ (c = 0 => Len(s) = 0)
  /\ \A i \in 1..Len(s) : nodes[s[i]].next = IF i \in 2..c THEN s[i - 1] ELSE Behind(s, i)
  /\ run.next = Behind(s, c)
  /\ \/ c # 0 /\ run.curr = s[c] /\ (run.next = 0 => run.tmp = 0)
     \/ run.curr = 0 /\ c = Len(s) /\ run.ret = IF c = 0 THEN 0 ELSE s[c]

(* Where doDelN is, it has passed the places before. *)
Passed(s) ==
  /\ run.f = "delete" /\ run.idx \in 1..(Len(s) + 1)
  /\ run.curr = Behind(s, run.idx - 1)
  /\ run.prev = IF run.idx = 1 THEN 0 ELSE s[run.idx - 1]
  /\ \A j \in 1..(run.idx - 1) : j # run.n

Reversing == fate = "busy" /\ run.f = "reverse"
Listed(s) ==
  /\ Row(s)
  /\ Reversing => \E c : Halves(s, c)
  /\ ~Reversing => Straight(s)
  /\ fate = "busy" /\ ~Reversing => Passed(s)
  /\ fate = "idle" <=> run = List!NoRun

Vals(s) == [i \in 1..Len(s) |-> nodes[s[i]].val]

(* From one node there is one way through the nodes. *)
LEMMA OneWay ==
  ASSUME NEW m \in Nat, NEW s \in Seq(1..m), NEW r \in Seq(1..m), NEW a, NEW z,
         List!Leads(s, a, z), List!Leads(r, a, z)
  PROVE  s = r
<1>1. PICK l : l = Len(s)
  OBVIOUS
<1>2. PICK k : k = Len(r)
  OBVIOUS
<1>3. /\ l \in Nat /\ DOMAIN s = 1..l /\ k \in Nat /\ DOMAIN r = 1..k
      /\ (s = <<>> <=> l = 0) /\ (r = <<>> <=> k = 0)
      /\ \A i \in 1..l : s[i] \in 1..m
      /\ \A i \in 1..k : r[i] \in 1..m
  BY <1>1, <1>2, LenProperties, EmptySeq
<1>4. /\ (l = 0 <=> a = 0) /\ (k = 0 <=> a = 0)
      /\ (l # 0 => s[1] = a) /\ (k # 0 => r[1] = a)
      /\ \A i \in 1..l : IF i < l THEN s[i] # z /\ nodes[s[i]].next = s[i + 1]
                         ELSE s[i] = z \/ nodes[s[i]].next = 0
      /\ \A i \in 1..k : IF i < k THEN r[i] # z /\ nodes[r[i]].next = r[i + 1]
                         ELSE r[i] = z \/ nodes[r[i]].next = 0
  BY <1>1, <1>2, <1>3 DEF List!Leads, List!Null
<1>5. \A i \in Nat : i >= 1 /\ i <= l /\ i <= k => s[i] = r[i]
  <2>1. PICK T : T = {i \in Nat : i >= 1 /\ i <= l /\ i <= k /\ s[i] # r[i]}
    OBVIOUS
  <2>2. ASSUME T # {} PROVE FALSE
    <3>1. PICK i \in T : \A j \in T : i <= j
      BY <2>1, <2>2, LeastNatural
    <3>2. i \in Nat /\ i >= 1 /\ i <= l /\ i <= k /\ s[i] # r[i] /\ i # 1
      BY <1>4, <2>1, <3>1
    <3>3. i - 1 \in Nat /\ i - 1 >= 1 /\ i - 1 < l /\ i - 1 < k /\ ~(i <= i - 1) /\ (i - 1) + 1 = i
          /\ i - 1 \in 1..l /\ i - 1 \in 1..k
      BY <1>3, <3>2
    <3>4. s[i - 1] = r[i - 1]
      BY <2>1, <3>1, <3>3
    <3>5. nodes[s[i - 1]].next = s[i] /\ nodes[r[i - 1]].next = r[i]
      BY <1>4, <3>3
    <3> QED BY <3>2, <3>4, <3>5
  <2> QED BY <2>1, <2>2
<1>6. ~(l < k)
  <2> SUFFICES ASSUME l < k PROVE FALSE
    OBVIOUS
  <2>1. l \in 1..l /\ l \in 1..k /\ l + 1 \in 1..k /\ ~(l < l)
    BY <1>3, <1>4
  <2>2. s[l] = r[l]
    BY <1>3, <1>5, <2>1
  <2>3. r[l] # z /\ nodes[r[l]].next = r[l + 1] /\ (s[l] = z \/ nodes[s[l]].next = 0)
    BY <1>4, <2>1
  <2>4. r[l + 1] # 0
    BY <1>3, <2>1
  <2> QED BY <2>2, <2>3, <2>4
<1>7. ~(k < l)
  <2> SUFFICES ASSUME k < l PROVE FALSE
    OBVIOUS
  <2>1. k \in 1..k /\ k \in 1..l /\ k + 1 \in 1..l /\ ~(k < k)
    BY <1>3, <1>4
  <2>2. s[k] = r[k]
    BY <1>3, <1>5, <2>1
  <2>3. s[k] # z /\ nodes[s[k]].next = s[k + 1] /\ (r[k] = z \/ nodes[r[k]].next = 0)
    BY <1>4, <2>1
  <2>4. s[k + 1] # 0
    BY <1>3, <2>1
  <2> QED BY <2>2, <2>3, <2>4
<1>8. l = k
  BY <1>3, <1>6, <1>7
<1>9. \A i \in 1..l : s[i] = r[i]
  BY <1>3, <1>5, <1>8
<1> QED BY <1>1, <1>2, <1>3, <1>8, <1>9, SeqEqual

(* So printer meets the values of the nodes on it. *)
LEMMA WalkIs ==
  ASSUME NEW m \in Nat, m = Len(nodes), nodes \in Seq(NodeOver(m)), NEW s \in Seq(1..m), Len(s) <= m,
         NEW a, NEW z, List!Leads(s, a, z)
  PROVE  List!Walk(a, z) = Vals(s)
<1>1. PICK k : k = Len(s)
  OBVIOUS
<1>2. k \in 0..m /\ s \in [1..k -> 1..m] /\ DOMAIN nodes = 1..m /\ DOMAIN s = 1..k
  BY <1>1, LenProperties
<1>3. s \in List!Paths
  BY <1>2 DEF List!Paths
<1>4. PICK r : r = CHOOSE p \in List!Paths : List!Leads(p, a, z)
  OBVIOUS
<1>5. r \in List!Paths /\ List!Leads(r, a, z)
  BY <1>3, <1>4, Zenon
<1>6. r \in Seq(1..m)
  BY <1>2, <1>5, SeqDef DEF List!Paths
<1>7. r = s
  BY <1>5, <1>6, OneWay
<1>8. List!Walk(a, z) = List!Values(s)
  BY <1>4, <1>7, Zenon DEF List!Walk
<1> QED BY <1>1, <1>2, <1>8 DEF List!Values, Vals

(* What the caller means is what the nodes hold, in the middle of a loop too. *)
MeantKnown == \A s : ListInv /\ Listed(s) => List!Meant = Vals(s)
LEMMA MeantIs == MeantKnown
<1> SUFFICES ASSUME NEW s, ListInv, Listed(s) PROVE List!Meant = Vals(s)
  BY DEF MeantKnown
<1>1. PICK m : m = Len(nodes)
  OBVIOUS
<1>2. PICK n : n = Len(s)
  OBVIOUS
<1>3. /\ m \in Nat /\ nodes \in Seq(NodeOver(m)) /\ s \in Seq(1..m)
      /\ n \in Nat /\ n <= m /\ DOMAIN s = 1..n /\ \A i \in 1..n : s[i] \in 1..m
      /\ \A i, j \in 1..n : s[i] = s[j] => i = j
      /\ head = IF 0 < n THEN s[1] ELSE 0
  BY <1>1, <1>2, LenProperties DEF ListInv, Listed, Row, Behind
<1>4. CASE ~Reversing
  <2>1. \A i \in 1..n : nodes[s[i]].next = IF i < n THEN s[i + 1] ELSE 0
    BY <1>2, <1>4 DEF Listed, Straight, Behind
  <2>2. /\ head = 0 <=> s = <<>>
        /\ s # <<>> => s[1] = head
    BY <1>2, <1>3, EmptySeq
  <2>3. ASSUME NEW i \in 1..n
        PROVE  IF i < n THEN s[i] # 0 /\ nodes[s[i]].next = s[i + 1] ELSE s[i] = 0 \/ nodes[s[i]].next = 0
    BY <1>3, <2>1
  <2>4. List!Leads(s, head, 0)
    BY <1>2, <1>3, <2>2, <2>3, Zenon DEF List!Leads, List!Null
  <2>5. List!Walk(head, 0) = Vals(s)
    BY <1>1, <1>2, <1>3, <2>4, WalkIs
  <2> QED BY <1>4, <2>5 DEF List!Meant, Reversing, List!printer, List!Null
<1>5. CASE Reversing
  <2>1. PICK c : Halves(s, c)
    BY <1>5 DEF Listed
  <2>2. /\ c \in 0..n /\ (c = 0 => n = 0)
        /\ \A i \in 1..n : nodes[s[i]].next =
             IF i \in 2..c THEN s[i - 1] ELSE IF i < n THEN s[i + 1] ELSE 0
        /\ run.next = IF c < n THEN s[c + 1] ELSE 0
        /\ \/ c # 0 /\ run.curr = s[c]
           \/ run.curr = 0 /\ c = n /\ run.ret = IF c = 0 THEN 0 ELSE s[c]
    BY <1>2, <2>1 DEF Halves, Behind
  <2>3. PICK from : from = IF run.curr = 0 THEN run.ret ELSE run.curr
    OBVIOUS
  <2>4. from = IF c = 0 THEN 0 ELSE s[c]
    <3>1. c # 0 => c \in 1..n /\ s[c] # 0
      BY <1>3, <2>2
    <3> QED BY <2>2, <2>3, <3>1
  <2>5. PICK back : back = [i \in 1..c |-> s[(c - i) + 1]]
    OBVIOUS
  <2>6. /\ \A i \in 1..c : (c - i) + 1 \in 1..c /\ (c - i) + 1 \in 1..n
        /\ \A i \in 1..c : back[i] = s[(c - i) + 1] /\ back[i] \in 1..m
        /\ back \in [1..c -> 1..m] /\ c \in Nat /\ c <= m
    <3>1. \A i \in 1..c : (c - i) + 1 \in 1..c /\ (c - i) + 1 \in 1..n
      BY <1>3, <2>2
    <3>2. \A i \in 1..c : back[i] = s[(c - i) + 1] /\ back[i] \in 1..m
      BY <1>3, <2>5, <3>1
    <3>3. back \in [1..c -> 1..m] /\ c \in Nat /\ c <= m
      BY <1>3, <2>2, <2>5, <3>2
    <3> QED BY <3>1, <3>2, <3>3
  <2>7. back \in Seq(1..m) /\ Len(back) = c /\ DOMAIN back = 1..c
    BY <2>6, SeqOf
  <2>8. List!Leads(back, from, head)
    <3>1. from = 0 <=> back = <<>>
      <4>1. c # 0 => s[c] # 0
        BY <1>3, <2>2
      <4> QED BY <2>4, <2>7, <4>1, EmptySeq
    <3>2. back # <<>> => back[1] = from
      <4>1. back # <<>> => c # 0
        BY <2>7, EmptySeq
      <4>2. c # 0 => 1 \in 1..c /\ (c - 1) + 1 = c
        BY <2>2
      <4> QED BY <2>4, <2>6, <4>1, <4>2
    <3>3. ASSUME NEW i \in 1..c, i < c
          PROVE  back[i] # head /\ nodes[back[i]].next = back[i + 1]
      <4>1. /\ (c - i) + 1 \in 2..c /\ (c - i) + 1 \in 1..n /\ ((c - i) + 1) - 1 = (c - (i + 1)) + 1
            /\ i + 1 \in 1..c /\ 1 \in 1..n /\ (c - i) + 1 # 1 /\ 0 < n
        <5>1. c \in Nat /\ n \in Nat /\ c <= n /\ i \in Nat /\ i >= 1 /\ i < c
          BY <1>3, <2>2, <3>3
        <5> QED BY <5>1
      <4>2. nodes[s[(c - i) + 1]].next = s[(c - (i + 1)) + 1]
        BY <2>2, <4>1
      <4>3. s[(c - i) + 1] # s[1]
        BY <1>3, <4>1
      <4> QED BY <1>3, <2>6, <4>1, <4>2, <4>3
    <3>4. ASSUME NEW i \in 1..c, ~(i < c) PROVE back[i] = head
      <4>1. (c - i) + 1 = 1 /\ 0 < n
        BY <1>3, <2>2, <3>4
      <4> QED BY <1>3, <2>6, <4>1
    <3> QED BY <2>7, <3>1, <3>2, <3>3, <3>4, Zenon DEF List!Leads, List!Null
  <2>9. List!Walk(from, head) = Vals(back)
    BY <1>1, <1>3, <2>6, <2>7, <2>8, WalkIs
  <2>10. PICK rest : rest = [i \in 1..(n - c) |-> s[c + i]]
    OBVIOUS
  <2>11. PICK d : d = n - c
    OBVIOUS
  <2>12. /\ d \in Nat /\ d <= m /\ d <= n
         /\ \A i \in 1..d : c + i \in 1..n /\ rest[i] = s[c + i] /\ rest[i] \in 1..m
         /\ rest \in [1..d -> 1..m]
    <3>1. d \in Nat /\ d <= m /\ d <= n /\ \A i \in 1..d : c + i \in 1..n
      BY <1>3, <2>2, <2>11
    <3>2. \A i \in 1..d : rest[i] = s[c + i] /\ rest[i] \in 1..m
      BY <1>3, <2>10, <2>11, <3>1
    <3> QED BY <2>10, <2>11, <3>1, <3>2
  <2>13. rest \in Seq(1..m) /\ Len(rest) = d /\ DOMAIN rest = 1..d
    BY <2>12, SeqOf
  <2>14. List!Leads(rest, run.next, 0)
    <3>1. /\ run.next = 0 <=> rest = <<>>
          /\ rest # <<>> => rest[1] = run.next
      <4>1. rest = <<>> <=> d = 0
        BY <2>13, EmptySeq
      <4>2. c < n <=> d # 0
        BY <1>3, <2>2, <2>11
      <4>3. d # 0 => 1 \in 1..d /\ c + 1 \in 1..n
        BY <2>12
      <4>4. d # 0 => rest[1] = s[c + 1] /\ s[c + 1] # 0
        BY <1>3, <2>12, <4>3
      <4> QED BY <2>2, <4>1, <4>2, <4>4
    <3>2. ASSUME NEW i \in 1..d
          PROVE  IF i < d THEN rest[i] # 0 /\ nodes[rest[i]].next = rest[i + 1]
                 ELSE rest[i] = 0 \/ nodes[rest[i]].next = 0
      <4>1. /\ c + i \in 1..n /\ (c = 0 => n = 0)
            /\ (i < d <=> c + i < n) /\ (c + i) + 1 = c + (i + 1)
            /\ (i < d => i + 1 \in 1..d) /\ c + i \notin 2..c
        BY <1>3, <2>2, <2>11, <2>12
      <4>2. nodes[s[c + i]].next = IF c + i < n THEN s[c + (i + 1)] ELSE 0
        BY <2>2, <4>1
      <4>3. rest[i] = s[c + i] /\ s[c + i] # 0 /\ (i < d => rest[i + 1] = s[c + (i + 1)])
        BY <1>3, <2>12, <4>1
      <4> QED BY <4>1, <4>2, <4>3
    <3> QED BY <2>13, <3>1, <3>2, Zenon DEF List!Leads, List!Null
  <2>15. List!Walk(run.next, 0) = Vals(rest)
    BY <1>1, <1>3, <2>12, <2>13, <2>14, WalkIs
  <2>16. PICK g : g = List!Reverse(Vals(back))
    OBVIOUS
  <2>17. PICK v : v = Vals(rest)
    OBVIOUS
  <2>18. \A i \in 1..m : nodes[i].val \in Int
    <3>1. \A i \in 1..m : nodes[i] \in NodeOver(m)
      BY <1>1, <1>3, LenProperties
    <3> QED BY <3>1 DEF NodeOver
  <2>19. g \in Seq(Int) /\ Len(g) = c /\ \A i \in 1..c : g[i] = nodes[s[i]].val
    <3>1. PICK w : w = Vals(back)
      OBVIOUS
    <3>2. w = [i \in 1..c |-> nodes[back[i]].val]
      BY <2>7, <3>1 DEF Vals
    <3>3. w \in [1..c -> Int]
      BY <2>6, <2>18, <3>2
    <3>4. w \in Seq(Int) /\ Len(w) = c
      BY <2>6, <3>3, SeqOf
    <3>5. g = [i \in 1..c |-> w[(c - i) + 1]]
      BY <2>16, <3>1, <3>4 DEF List!Reverse
    <3>6. ASSUME NEW i \in 1..c PROVE w[(c - i) + 1] = nodes[s[i]].val
      <4>1. (c - i) + 1 \in 1..c /\ (c - ((c - i) + 1)) + 1 = i
        BY <2>6
      <4>2. w[(c - i) + 1] = nodes[back[(c - i) + 1]].val
        BY <3>2, <4>1
      <4>3. back[(c - i) + 1] = s[(c - ((c - i) + 1)) + 1]
        BY <2>6, <4>1
      <4> QED BY <4>1, <4>2, <4>3
    <3>7. \A i \in 1..c : (c - i) + 1 \in 1..c
      BY <2>6
    <3>8. g \in [1..c -> Int]
      BY <3>3, <3>5, <3>7
    <3> QED BY <2>6, <3>5, <3>6, <3>8, SeqOf
  <2>20. v \in Seq(Int) /\ Len(v) = d /\ \A i \in 1..d : v[i] = nodes[s[c + i]].val
    <3>1. v = [i \in 1..d |-> nodes[rest[i]].val]
      BY <2>13, <2>17 DEF Vals
    <3>2. v \in [1..d -> Int]
      BY <2>12, <2>18, <3>1
    <3> QED BY <2>12, <3>1, <3>2, SeqOf
  <2>21. g \o v = Vals(s)
    <3>1. PICK u : u = Vals(s)
      OBVIOUS
    <3>2. u = [i \in 1..n |-> nodes[s[i]].val]
      BY <1>2, <3>1 DEF Vals
    <3>3. u \in [1..n -> Int]
      BY <1>3, <2>18, <3>2
    <3>4. u \in Seq(Int) /\ Len(u) = n
      BY <1>3, <3>3, SeqOf
    <3>5. /\ g \o v \in Seq(Int) /\ Len(g \o v) = c + d
          /\ \A i \in 1..(c + d) : (g \o v)[i] = IF i <= c THEN g[i] ELSE v[i - c]
      BY <2>19, <2>20, ConcatProperties
    <3>6. c + d = n /\ c \in Nat
      BY <1>3, <2>2, <2>11
    <3>7. ASSUME NEW i \in 1..n PROVE (g \o v)[i] = u[i]
      <4>1. CASE i <= c
        <5>1. i \in 1..c /\ i \in 1..(c + d)
          BY <3>6, <4>1
        <5> QED BY <2>19, <3>2, <3>5, <4>1, <5>1
      <4>2. CASE ~(i <= c)
        <5>1. i - c \in 1..d /\ c + (i - c) = i /\ i \in 1..(c + d)
          BY <1>3, <2>12, <3>6, <4>2
        <5> QED BY <2>20, <3>2, <3>5, <4>2, <5>1
      <4> QED BY <4>1, <4>2
    <3> QED BY <3>1, <3>4, <3>5, <3>6, <3>7, SeqEqual
  <2> QED BY <1>5, <2>3, <2>9, <2>15, <2>16, <2>17, <2>21
          DEF List!Meant, Reversing, List!printer, List!Null
<1> QED BY <1>4, <1>5

(* A pointer that is written changes one node, and no value. *)
LEMMA Relinked ==
  ASSUME ListInv, NEW a \in 1..Len(nodes), NEW b, nodes' = [nodes EXCEPT ![a].next = b]
  PROVE  /\ DOMAIN nodes' = 1..Len(nodes)
         /\ \A i \in 1..Len(nodes) : /\ nodes'[i].val = nodes[i].val
                                     /\ nodes'[i].next = IF i = a THEN b ELSE nodes[i].next
<1>1. PICK m : m = Len(nodes)
  OBVIOUS
<1>2. m \in Nat /\ DOMAIN nodes = 1..m /\ nodes \in [1..m -> NodeOver(m)]
  BY <1>1, LenProperties DEF ListInv
<1>3. \A i \in 1..m : nodes[i] \in [val : Int, next : 0..m]
  BY <1>2 DEF NodeOver
<1>4. /\ DOMAIN nodes' = 1..m /\ nodes'[a] = [nodes[a] EXCEPT !.next = b]
      /\ \A i \in 1..m : i # a => nodes'[i] = nodes[i]
  BY <1>1, <1>2
<1>5. nodes'[a].val = nodes[a].val /\ nodes'[a].next = b
  BY <1>1, <1>3, <1>4
<1> QED BY <1>1, <1>4, <1>5

(* What a row of nodes is worth elsewhere. *)
LEMMA RowFacts ==
  ASSUME ListInv, NEW s, Row(s)
  PROVE  /\ Len(nodes) \in Nat /\ Len(s) \in Nat /\ Len(s) <= Len(nodes) /\ Len(s) <= MaxLength
         /\ s \in Seq(1..Len(nodes)) /\ DOMAIN s = 1..Len(s) /\ Vals(s) \in Seq(Int)
         /\ Len(Vals(s)) = Len(s) /\ DOMAIN Vals(s) = 1..Len(s)
         /\ \A i \in 1..Len(s) : s[i] \in 1..Len(nodes) /\ s[i] # 0
         /\ \A i, j \in 1..Len(s) : s[i] = s[j] => i = j
         /\ head = IF 0 < Len(s) THEN s[1] ELSE 0
<1>1. PICK m : m = Len(nodes)
  OBVIOUS
<1>2. PICK n : n = Len(s)
  OBVIOUS
<1>3. /\ m \in Nat /\ n \in Nat /\ s \in Seq(1..m) /\ n <= m /\ n <= MaxLength /\ DOMAIN s = 1..n
      /\ \A i \in 1..n : s[i] \in 1..m
      /\ \A i, j \in 1..n : s[i] = s[j] => i = j
      /\ head = IF 0 < n THEN s[1] ELSE 0
      /\ \A i \in 1..m : nodes[i] \in NodeOver(m)
  BY <1>1, <1>2, LenProperties DEF ListInv, Row, Behind
<1>4. \A i \in 1..n : s[i] # 0 /\ nodes[s[i]].val \in Int
  BY <1>3 DEF NodeOver
<1>5. Vals(s) = [i \in 1..n |-> nodes[s[i]].val]
  BY <1>2 DEF Vals
<1>6. Vals(s) \in [1..n -> Int]
  BY <1>4, <1>5
<1>7. Vals(s) \in Seq(Int) /\ Len(Vals(s)) = n /\ DOMAIN Vals(s) = 1..n
  BY <1>3, <1>6, SeqOf
<1> QED BY <1>1, <1>2, <1>3, <1>4, <1>7

(* The nodes of a list that is constructed are in the order of their values. *)
LEMMA ConstructLists ==
  ASSUME ListInv, NEW n \in 0..MaxLength, List!ConstructList(n)
  PROVE  \E r : Listed(r)' /\ Vals(r)' = [i \in 1..n |-> i]
<1>1. n \in Nat /\ n <= MaxLength
  BY ExercisesAssumption
<1>2. /\ nodes' = [i \in 1..n |-> [val |-> i, next |-> IF i < n THEN i + 1 ELSE 0]]
      /\ head' = (IF n = 0 THEN 0 ELSE 1) /\ run' = List!NoRun /\ fate' = "idle"
  BY DEF List!ConstructList, List!Return, List!node, List!Null
<1>3. PICK r : r = [i \in 1..n |-> i]
  OBVIOUS
<1>4. r \in [1..n -> 1..n] /\ \A i \in 1..n : r[i] = i
  BY <1>3
<1>5. r \in Seq(1..n) /\ Len(r) = n
  BY <1>1, <1>4, SeqOf
<1>6. Len(nodes') = n
  BY <1>1, <1>2
<1>7. \A i \in 1..n : nodes'[r[i]].val = i /\ nodes'[r[i]].next = IF i < n THEN i + 1 ELSE 0
  BY <1>2, <1>4
<1>8. Row(r)'
  BY <1>1, <1>2, <1>4, <1>5, <1>6 DEF Row, Behind
<1>9. Straight(r)'
  <2>1. \A i \in 1..n : i < n => i + 1 \in 1..n
    BY <1>1
  <2> QED BY <1>4, <1>5, <1>7, <2>1 DEF Straight, Behind
<1>10. Vals(r)' = [i \in 1..n |-> i]
  BY <1>5, <1>7 DEF Vals
<1>11. Listed(r)'
  BY <1>2, <1>8, <1>9 DEF Listed, Reversing
<1> QED BY <1>10, <1>11

(* doReverse starts at the first node, if there is one. *)
LEMMA ReverseStarts ==
  ASSUME ListInv, NEW s, Listed(s), List!doReverse
  PROVE  Listed(s)' /\ Vals(s)' = Vals(s)
<1>1. PICK n : n = Len(s)
  OBVIOUS
<1>2. /\ n \in Nat /\ head = (IF 0 < n THEN s[1] ELSE 0) /\ \A i \in 1..n : s[i] # 0
  BY <1>1, RowFacts DEF Listed
<1>3. /\ run' = [f |-> "reverse", curr |-> head, tmp |-> 0, ret |-> 0,
                 next |-> IF head = 0 THEN 0 ELSE nodes[head].next]
      /\ fate = "idle" /\ fate' = "busy" /\ nodes' = nodes /\ head' = head
  BY DEF List!doReverse, List!Null
<1>4. \A i \in 1..n : nodes[s[i]].next = IF i < n THEN s[i + 1] ELSE 0
  BY <1>1, <1>3 DEF Listed, Reversing, Straight, Behind
<1>5. PICK c : c = IF n = 0 THEN 0 ELSE 1
  OBVIOUS
<1>6. c \in 0..n /\ (c = 0 => n = 0) /\ 2..c = {}
  BY <1>2, <1>5
<1>7. /\ run'.next = IF c < n THEN s[c + 1] ELSE 0
      /\ \/ c # 0 /\ run'.curr = s[c] /\ run'.tmp = 0
         \/ run'.curr = 0 /\ c = n /\ run'.ret = 0 /\ c = 0
  <2>1. CASE n = 0
    BY <1>2, <1>3, <1>5, <2>1
  <2>2. CASE n # 0
    <3>1. c = 1 /\ 1 \in 1..n /\ 0 < n /\ head = s[1] /\ head # 0
      BY <1>2, <1>5, <2>2
    <3> QED BY <1>3, <1>4, <3>1
  <2> QED BY <2>1, <2>2
<1>8. Halves(s, c)'
  BY <1>1, <1>3, <1>4, <1>6, <1>7 DEF Halves, Behind
<1>9. Row(s)'
  BY <1>3 DEF Listed, Row
<1>10. Listed(s)'
  BY <1>3, <1>8, <1>9 DEF Listed, Reversing, List!NoRun
<1> QED BY <1>3, <1>10 DEF Vals

(* A turn points one more node at the one before it, or leaves the loop. *)
LEMMA ReverseTurns ==
  ASSUME ListInv, NEW s, Listed(s), List!ReverseTurn
  PROVE  Listed(s)' /\ Vals(s)' = Vals(s)
<1>1. PICK n : n = Len(s)
  OBVIOUS
<1>2. PICK m : m = Len(nodes)
  OBVIOUS
<1>3. /\ m \in Nat /\ n \in Nat /\ DOMAIN s = 1..n
      /\ \A i \in 1..n : s[i] \in 1..m /\ s[i] # 0
      /\ \A i, j \in 1..n : s[i] = s[j] => i = j
  BY <1>1, <1>2, RowFacts DEF Listed
<1>4. /\ fate = "busy" /\ run.f = "reverse" /\ run.curr # 0 /\ head' = head /\ fate' = fate
      /\ run \in [f : {"reverse"}, curr : 0..m, tmp : 0..m, ret : 0..m, next : 0..m]
  BY <1>2 DEF List!ReverseTurn, List!Null, ListInv, RunOver, List!NoRun
<1>5. PICK c : Halves(s, c)
  BY <1>4 DEF Listed, Reversing
<1>6. /\ c \in 1..n /\ run.curr = s[c] /\ (run.next = 0 => run.tmp = 0)
      /\ \A i \in 1..n : nodes[s[i]].next =
           IF i \in 2..c THEN s[i - 1] ELSE IF i < n THEN s[i + 1] ELSE 0
      /\ run.next = IF c < n THEN s[c + 1] ELSE 0
  BY <1>1, <1>3, <1>4, <1>5 DEF Halves, Behind
<1>7. CASE run.next # 0
  <2>1. c < n /\ run.next = s[c + 1] /\ c + 1 \in 1..n
    BY <1>3, <1>6, <1>7
  <2>2. run.next \in 1..m
    BY <1>3, <2>1
  <2>3. /\ nodes' = [nodes EXCEPT ![run.next].next = run.curr]
        /\ run' = [run EXCEPT !.curr = run.next, !.next = nodes[run.next].next,
                              !.tmp = nodes[run.next].next]
    BY <1>7 DEF List!ReverseTurn, List!Relink, List!After, List!Null
  <2>4. /\ DOMAIN nodes' = 1..m
        /\ \A i \in 1..m : /\ nodes'[i].val = nodes[i].val
                           /\ nodes'[i].next = IF i = run.next THEN run.curr ELSE nodes[i].next
    BY <1>2, <2>2, <2>3, Relinked
  <2>5. Len(nodes') = m
    BY <1>3, <2>3, <2>4, <1>2, ListKeeps, LenProperties DEF List!Next, List!Turn, ListInv
  <2>6. /\ run'.curr = s[c + 1] /\ run'.f = "reverse"
        /\ run'.next = (IF c + 1 < n THEN s[(c + 1) + 1] ELSE 0) /\ run'.tmp = run'.next
    <3>1. nodes[s[c + 1]].next = IF c + 1 < n THEN s[(c + 1) + 1] ELSE 0
      <4>1. c + 1 \notin 2..c
        BY <1>6
      <4> QED BY <1>6, <2>1, <4>1
    <3> QED BY <1>4, <2>1, <2>3, <3>1
  <2>7. ASSUME NEW i \in 1..n
        PROVE  nodes'[s[i]].next =
                 IF i \in 2..(c + 1) THEN s[i - 1] ELSE IF i < n THEN s[i + 1] ELSE 0
    <3>1. CASE i = c + 1
      <4>1. i \in 2..(c + 1) /\ i - 1 = c
        BY <1>6, <3>1
      <4> QED BY <1>3, <1>6, <2>1, <2>4, <3>1, <4>1
    <3>2. CASE i # c + 1
      <4>1. s[i] # run.next
        BY <1>3, <2>1, <3>2
      <4>2. i \in 2..(c + 1) <=> i \in 2..c
        BY <1>6, <3>2
      <4>3. nodes'[s[i]].next = nodes[s[i]].next
        BY <1>3, <2>4, <4>1
      <4> QED BY <1>6, <4>2, <4>3
    <3> QED BY <3>1, <3>2
  <2>8. c + 1 \in 0..n /\ c + 1 # 0
    BY <2>1, <1>6
  <2>9. Halves(s, c + 1)'
    BY <1>1, <2>6, <2>7, <2>8 DEF Halves, Behind
  <2>10. Row(s)'
    BY <1>2, <1>4, <2>5 DEF Listed, Row
  <2>11. Listed(s)'
    BY <1>4, <2>6, <2>9, <2>10 DEF Listed, Reversing, List!NoRun
  <2>12. Vals(s)' = Vals(s)
    BY <1>1, <1>3, <2>4 DEF Vals
  <2> QED BY <2>11, <2>12
<1>8. CASE run.next = 0
  <2>1. run' = [run EXCEPT !.curr = 0, !.next = run.tmp, !.ret = run.curr] /\ nodes' = nodes
    BY <1>8 DEF List!ReverseTurn, List!Null
  <2>2. c = n
    BY <1>3, <1>6, <1>8
  <2>3. run'.curr = 0 /\ run'.next = 0 /\ run'.ret = s[c] /\ run'.f = "reverse"
    BY <1>4, <1>6, <1>8, <2>1
  <2>4. c \in 0..n /\ c # 0
    BY <1>6
  <2>5. Halves(s, c)'
    BY <1>1, <1>6, <2>1, <2>2, <2>3, <2>4 DEF Halves, Behind
  <2>6. Row(s)'
    BY <1>4, <2>1 DEF Listed, Row
  <2>7. Listed(s)'
    BY <1>4, <2>3, <2>5, <2>6 DEF Listed, Reversing, List!NoRun
  <2> QED BY <2>1, <2>7 DEF Vals
<1> QED BY <1>7, <1>8

(* At the end all nodes lead backwards; only an empty list has no last node. *)
LEMMA ReverseReverses ==
  ASSUME ListInv, NEW s, Listed(s), List!ReverseEnds
  PROVE  \/ List!Crash /\ Len(s) = 0 /\ Listed(s)'
         \/ /\ Len(s) # 0 /\ run' = List!NoRun /\ fate' = "idle"
            /\ \E r : Listed(r)' /\ Vals(r)' = List!Reverse(Vals(s))
<1>1. PICK n : n = Len(s)
  OBVIOUS
<1>2. PICK m : m = Len(nodes)
  OBVIOUS
<1>3. /\ m \in Nat /\ n \in Nat /\ DOMAIN s = 1..n /\ n <= m /\ n <= MaxLength
      /\ \A i \in 1..n : s[i] \in 1..m /\ s[i] # 0
      /\ \A i, j \in 1..n : s[i] = s[j] => i = j
      /\ Len(Vals(s)) = n
      /\ head = IF 0 < n THEN s[1] ELSE 0
  BY <1>1, <1>2, RowFacts DEF Listed
<1>4. fate = "busy" /\ run.f = "reverse" /\ run.curr = 0
  BY DEF List!ReverseEnds, List!Null
<1>5. PICK c : Halves(s, c)
  BY <1>4 DEF Listed, Reversing
<1>6. /\ c = n /\ run.ret = (IF n = 0 THEN 0 ELSE s[n])
      /\ \A i \in 1..n : nodes[s[i]].next =
           IF i \in 2..n THEN s[i - 1] ELSE IF i < n THEN s[i + 1] ELSE 0
  <2>1. c \in 0..n /\ (c # 0 => s[c] # 0)
    BY <1>1, <1>3, <1>5 DEF Halves
  <2>2. c = n /\ run.ret = IF c = 0 THEN 0 ELSE s[c]
    BY <1>1, <1>4, <1>5, <2>1 DEF Halves
  <2> QED BY <1>1, <1>5, <2>2 DEF Halves, Behind
<1>7. CASE head = 0
  <2>1. List!Crash
    BY <1>7 DEF List!ReverseEnds, List!Null
  <2>2. n = 0
    BY <1>3, <1>7
  <2>3. nodes' = nodes /\ head' = head /\ run' = run /\ fate' = "crashed"
    BY <2>1 DEF List!Crash
  <2>4. Row(s)'
    BY <2>3 DEF Listed, Row
  <2>5. Straight(s)'
    BY <1>1, <2>2 DEF Straight
  <2>6. Listed(s)'
    BY <1>4, <2>3, <2>4, <2>5 DEF Listed, Reversing, List!NoRun
  <2> QED BY <1>1, <2>1, <2>2, <2>6
<1>8. CASE head # 0
  <2>1. n # 0 /\ head = s[1] /\ 1 \in 1..n /\ head \in 1..m
    BY <1>3, <1>8
  <2>2. /\ nodes' = [nodes EXCEPT ![head].next = 0]
        /\ head' = run.ret /\ run' = List!NoRun /\ fate' = "idle"
    BY <1>8 DEF List!ReverseEnds, List!Null, List!Return
  <2>3. /\ DOMAIN nodes' = 1..m
        /\ \A i \in 1..m : /\ nodes'[i].val = nodes[i].val
                           /\ nodes'[i].next = IF i = head THEN 0 ELSE nodes[i].next
    BY <1>2, <2>1, <2>2, Relinked
  <2>4. Len(nodes') = m
    BY <1>3, <2>3, ListKeeps, LenProperties DEF List!Next, List!Turn, ListInv
  <2>5. PICK r : r = [i \in 1..n |-> s[(n - i) + 1]]
    OBVIOUS
  <2>6. \A i \in 1..n : (n - i) + 1 \in 1..n /\ r[i] = s[(n - i) + 1] /\ r[i] \in 1..m
    <3>1. \A i \in 1..n : (n - i) + 1 \in 1..n
      BY <1>3
    <3> QED BY <1>3, <2>5, <3>1
  <2>7. r \in [1..n -> 1..m]
    BY <2>5, <2>6
  <2>8. r \in Seq(1..m) /\ Len(r) = n
    BY <1>3, <2>7, SeqOf
  <2>9. \A i, j \in 1..n : r[i] = r[j] => i = j
    <3> SUFFICES ASSUME NEW i \in 1..n, NEW j \in 1..n, r[i] = r[j] PROVE i = j
      OBVIOUS
    <3>1. (n - i) + 1 = (n - j) + 1
      BY <1>3, <2>6
    <3> QED BY <1>3, <3>1
  <2>10. head' = Behind(r, 0)
    <3>1. (n - 1) + 1 = n /\ 0 < n /\ 0 + 1 = 1
      BY <1>3, <2>1
    <3> QED BY <1>6, <2>1, <2>2, <2>6, <2>8, <3>1 DEF Behind
  <2>11. Row(r)'
    BY <1>3, <2>4, <2>8, <2>9, <2>10 DEF Row, Behind
  <2>12. ASSUME NEW i \in 1..n PROVE nodes'[r[i]].next = IF i < n THEN r[i + 1] ELSE 0
    <3>1. CASE i < n
      <4>1. /\ (n - i) + 1 \in 2..n /\ (n - i) + 1 # 1 /\ i + 1 \in 1..n
            /\ ((n - i) + 1) - 1 = (n - (i + 1)) + 1
        BY <1>3, <3>1
      <4>2. s[(n - i) + 1] # head
        BY <1>3, <2>1, <2>6, <4>1
      <4>3. nodes'[r[i]].next = nodes[s[(n - i) + 1]].next
        BY <1>3, <2>3, <2>6, <4>2
      <4>4. nodes[s[(n - i) + 1]].next = s[(n - (i + 1)) + 1]
        BY <1>6, <2>6, <4>1
      <4> QED BY <2>6, <3>1, <4>1, <4>3, <4>4
    <3>2. CASE ~(i < n)
      <4>1. (n - i) + 1 = 1
        BY <1>3, <3>2
      <4> QED BY <2>1, <2>3, <2>6, <3>2, <4>1
    <3> QED BY <3>1, <3>2
  <2>13. Straight(r)'
    BY <2>8, <2>12 DEF Straight, Behind
  <2>14. Listed(r)'
    BY <2>2, <2>11, <2>13 DEF Listed, Reversing
  <2>15. Vals(r)' = List!Reverse(Vals(s))
    <3>1. PICK v : v = Vals(s)
      OBVIOUS
    <3>2. v = [i \in 1..n |-> nodes[s[i]].val]
      BY <1>1, <3>1 DEF Vals
    <3>3. List!Reverse(v) = [i \in 1..n |-> v[(n - i) + 1]]
      BY <1>3, <3>1 DEF List!Reverse
    <3>4. \A i \in 1..n : nodes'[r[i]].val = v[(n - i) + 1]
      BY <1>3, <2>3, <2>6, <3>2
    <3>5. Vals(r)' = [i \in 1..n |-> nodes'[r[i]].val]
      BY <2>8 DEF Vals
    <3> QED BY <3>1, <3>3, <3>4, <3>5
  <2> QED BY <1>1, <2>1, <2>2, <2>14, <2>15
<1> QED BY <1>7, <1>8

(* doDelN starts at the first node, with nothing passed. *)
LEMMA DelStarts ==
  ASSUME ListInv, NEW s, Listed(s), NEW n \in Positions, List!doDelN(n)
  PROVE  Listed(s)' /\ Vals(s)' = Vals(s)
<1>1. Len(s) \in Nat /\ head = IF 0 < Len(s) THEN s[1] ELSE 0
  BY RowFacts DEF Listed
<1>2. /\ run' = [f |-> "delete", n |-> n, curr |-> head, prev |-> 0, idx |-> 1]
      /\ fate = "idle" /\ fate' = "busy" /\ nodes' = nodes /\ head' = head
  BY DEF List!doDelN, List!Null
<1>3. /\ run'.f = "delete" /\ run'.n = n /\ run'.curr = head /\ run'.prev = 0 /\ run'.idx = 1
  BY <1>2
<1>4. /\ 1 \in 1..(Len(s) + 1) /\ 1 - 1 = 0 /\ 1..0 = {} /\ head = Behind(s, 0)
  BY <1>1 DEF Behind
<1>5. Passed(s)'
  BY <1>3, <1>4 DEF Passed, Behind
<1>6. Row(s)' /\ Straight(s)'
  BY <1>2 DEF Listed, Reversing, Row, Straight, Behind
<1>7. Listed(s)'
  BY <1>2, <1>3, <1>5, <1>6 DEF Listed, Reversing, List!NoRun
<1> QED BY <1>2, <1>7 DEF Vals

(* A turn passes one more place, or shows that there is no n-th. *)
LEMMA DelPasses ==
  ASSUME ListInv, NEW s, Listed(s), List!DelNext
  PROVE  /\ Listed(s)' /\ Vals(s)' = Vals(s)
         /\ \/ run'.f = "delete" /\ run'.n = run.n /\ fate' = fate
            \/ List!Crash /\ \A j \in 1..Len(s) : j # run.n
<1>1. PICK n : n = Len(s)
  OBVIOUS
<1>2. PICK m : m = Len(nodes)
  OBVIOUS
<1>3. PICK k : k = run.idx
  OBVIOUS
<1>4. /\ m \in Nat /\ n \in Nat /\ \A i \in 1..n : s[i] \in 1..m /\ s[i] # 0
  BY <1>1, <1>2, RowFacts DEF Listed
<1>5. /\ fate = "busy" /\ run.f = "delete" /\ run.idx # run.n /\ ~Reversing
      /\ run \in [f : {"delete"}, n : Positions, curr : 0..m, prev : 0..m, idx : Int]
  BY <1>2 DEF List!DelNext, List!DelTurn, ListInv, RunOver, List!NoRun, Reversing
<1>6. /\ Row(s) /\ Straight(s) /\ k \in 1..(n + 1)
      /\ run.curr = IF k - 1 < n THEN s[(k - 1) + 1] ELSE 0
      /\ \A j \in 1..(k - 1) : j # run.n
  BY <1>1, <1>3, <1>5 DEF Listed, Passed, Behind
<1>7. (k - 1) + 1 = k /\ (k + 1) - 1 = k /\ \A j \in 1..k : j = k \/ j \in 1..(k - 1)
  BY <1>4, <1>6
<1>8. \A j \in 1..k : j # run.n
  BY <1>3, <1>5, <1>6, <1>7
<1>9. CASE run.curr = 0
  <2>1. List!Crash
    BY <1>9 DEF List!DelNext, List!Null
  <2>2. k = n + 1 /\ 1..n \subseteq 1..k
    BY <1>4, <1>6, <1>7, <1>9
  <2>3. nodes' = nodes /\ head' = head /\ run' = run /\ fate' = "crashed"
    BY <2>1 DEF List!Crash
  <2>4. Row(s)' /\ Straight(s)'
    BY <1>6, <2>3 DEF Row, Straight, Behind
  <2>5. Listed(s)'
    BY <1>5, <2>3, <2>4 DEF Listed, Reversing, List!NoRun
  <2> QED BY <1>1, <1>8, <2>1, <2>2, <2>3, <2>5 DEF Vals
<1>10. CASE run.curr # 0
  <2>1. /\ run' = [run EXCEPT !.prev = run.curr, !.curr = nodes[run.curr].next, !.idx = k + 1]
        /\ nodes' = nodes /\ head' = head /\ fate' = fate
    BY <1>3, <1>10 DEF List!DelNext, List!Null
  <2>2. /\ run'.f = "delete" /\ run'.n = run.n /\ run'.idx = k + 1
        /\ run'.prev = run.curr /\ run'.curr = nodes[run.curr].next
    BY <1>5, <2>1
  <2>3. k \in 1..n /\ run.curr = s[k] /\ k + 1 \in 1..(n + 1) /\ k + 1 # 1
    BY <1>4, <1>6, <1>7, <1>10
  <2>4. run'.curr = IF k < n THEN s[k + 1] ELSE 0
    BY <1>1, <1>6, <2>2, <2>3 DEF Straight, Behind
  <2>5. Passed(s)'
    BY <1>1, <1>7, <1>8, <2>2, <2>3, <2>4 DEF Passed, Behind
  <2>6. Row(s)' /\ Straight(s)'
    BY <1>6, <2>1 DEF Row, Straight, Behind
  <2>7. Listed(s)'
    BY <1>5, <2>1, <2>2, <2>5, <2>6 DEF Listed, Reversing, List!NoRun
  <2> QED BY <2>1, <2>2, <2>7 DEF Vals
<1> QED BY <1>9, <1>10

(* At the n-th place the node is unlinked, if there is one. *)
LEMMA DelRemoves ==
  ASSUME ListInv, NEW s, Listed(s), List!DelEnds
  PROVE  \/ List!Crash /\ Listed(s)' /\ \A j \in 1..Len(s) : j # run.n
         \/ /\ run.n \in 1..Len(s) /\ run' = List!NoRun /\ fate' = "idle"
            /\ \E r : Listed(r)' /\ Vals(r)' = List!Sequence!RemoveAt(Vals(s), run.n)
<1>1. PICK n : n = Len(s)
  OBVIOUS
<1>2. PICK m : m = Len(nodes)
  OBVIOUS
<1>3. PICK k : k = run.idx
  OBVIOUS
<1>4. /\ m \in Nat /\ n \in Nat /\ \A i \in 1..n : s[i] \in 1..m /\ s[i] # 0
      /\ \A i, j \in 1..n : s[i] = s[j] => i = j
      /\ s \in Seq(1..m) /\ n <= m /\ n <= MaxLength
      /\ Vals(s) \in Seq(Int) /\ Len(Vals(s)) = n
      /\ head = IF 0 < n THEN s[1] ELSE 0
  BY <1>1, <1>2, RowFacts DEF Listed
<1>5. /\ fate = "busy" /\ run.f = "delete" /\ k = run.n /\ ~Reversing
  BY <1>3 DEF List!DelEnds, List!DelTurn, Reversing
<1>6. /\ Row(s) /\ Straight(s) /\ k \in 1..(n + 1)
      /\ run.curr = IF k - 1 < n THEN s[(k - 1) + 1] ELSE 0
      /\ run.prev = IF k = 1 THEN 0 ELSE s[k - 1]
  BY <1>1, <1>3, <1>5 DEF Listed, Passed, Behind
<1>7. (k - 1) + 1 = k
  BY <1>6
<1>8. CASE run.curr = 0
  <2>1. List!Crash
    BY <1>8 DEF List!DelEnds, List!Null
  <2>2. k = n + 1 /\ \A j \in 1..n : j # k
    BY <1>4, <1>6, <1>7, <1>8
  <2>3. nodes' = nodes /\ head' = head /\ run' = run /\ fate' = "crashed"
    BY <2>1 DEF List!Crash
  <2>4. Row(s)' /\ Straight(s)'
    BY <1>6, <2>3 DEF Row, Straight, Behind
  <2>5. Listed(s)'
    BY <1>5, <2>3, <2>4 DEF Listed, Reversing, List!NoRun
  <2> QED BY <1>1, <1>5, <2>1, <2>2, <2>5
<1>9. CASE run.curr # 0
  <2>1. k \in 1..n /\ run.curr = s[k]
    BY <1>4, <1>6, <1>7, <1>9
  <2>2. /\ n \in Nat /\ n - 1 \in Nat /\ n - 1 <= m /\ n - 1 <= MaxLength /\ k \in Nat /\ 1 <= k /\ k <= n
        /\ (k # 1 => k - 1 \in 1..n /\ k - 1 < n)
        /\ \A i \in 1..(n - 1) : i \in 1..n /\ i + 1 \in 1..n /\ i < n
    BY <1>4, <2>1, ExercisesAssumption
  <2>3. nodes[s[k]].next = IF k < n THEN s[k + 1] ELSE 0
    BY <1>1, <1>6, <2>1 DEF Straight, Behind
  <2>4. PICK r : r = SubSeq(s, 1, k - 1) \o SubSeq(s, k + 1, Len(s))
    OBVIOUS
  <2>5. /\ r \in Seq(1..m) /\ Len(r) = n - 1
        /\ \A i \in 1..(n - 1) : r[i] = IF i < k THEN s[i] ELSE s[i + 1]
    <3>1. s \in Seq(1..m) /\ k \in 1..Len(s)
      BY <1>1, <1>4, <2>1
    <3>2. /\ r \in Seq(1..m) /\ Len(r) = Len(s) - 1
          /\ \A i \in 1..(Len(s) - 1) : r[i] = IF i < k THEN s[i] ELSE s[i + 1]
      BY <2>4, <3>1, Removed
    <3> QED BY <1>1, <3>2
  <2>6. \A i, j \in 1..(n - 1) : r[i] = r[j] => i = j
    <3> SUFFICES ASSUME NEW i \in 1..(n - 1), NEW j \in 1..(n - 1), r[i] = r[j] PROVE i = j
      OBVIOUS
    <3>1. PICK a \in 1..n : a = IF i < k THEN i ELSE i + 1
      BY <2>2
    <3>2. PICK b \in 1..n : b = IF j < k THEN j ELSE j + 1
      BY <2>2
    <3>3. a = b
      BY <1>4, <2>5, <3>1, <3>2
    <3>4. i \in Nat /\ j \in Nat
      BY <2>2
    <3> QED BY <2>2, <3>1, <3>2, <3>3, <3>4
  <2>7. run' = List!NoRun /\ fate' = "idle"
    BY <1>9 DEF List!DelEnds, List!Return, List!Null
  <2>8. /\ DOMAIN nodes' = 1..m /\ Len(nodes') = m
        /\ \A i \in 1..m : /\ nodes'[i].val = nodes[i].val
                           /\ nodes'[i].next = IF k # 1 /\ i = s[k - 1] THEN nodes[s[k]].next
                                               ELSE nodes[i].next
        /\ head' = IF k = 1 THEN nodes[s[k]].next ELSE head
    <3>1. CASE k = 1
      <4>1. nodes' = nodes /\ head' = nodes[s[k]].next
        BY <1>6, <1>9, <2>1, <3>1 DEF List!DelEnds, List!Return, List!Null
      <4>2. DOMAIN nodes = 1..m
        BY <1>2, LenProperties DEF ListInv
      <4> QED BY <1>2, <3>1, <4>1, <4>2
    <3>2. CASE k # 1
      <4>1. run.prev = s[k - 1] /\ run.prev # 0 /\ s[k - 1] \in 1..m
        BY <1>4, <1>6, <2>2, <3>2
      <4>2. nodes' = [nodes EXCEPT ![s[k - 1]].next = nodes[s[k]].next] /\ head' = head
        BY <1>9, <2>1, <4>1 DEF List!DelEnds, List!Return, List!Null
      <4>3. /\ DOMAIN nodes' = 1..m
            /\ \A i \in 1..m : /\ nodes'[i].val = nodes[i].val
                               /\ nodes'[i].next = IF i = s[k - 1] THEN nodes[s[k]].next
                                                   ELSE nodes[i].next
        BY <1>2, <4>1, <4>2, Relinked
      <4>4. Len(nodes') = m
        BY <1>2, <1>4, <4>2, <4>3, ListKeeps, LenProperties DEF List!Next, List!Turn, ListInv
      <4> QED BY <3>2, <4>2, <4>3, <4>4
    <3> QED BY <3>1, <3>2
  <2>9. head' = IF 0 < n - 1 THEN r[1] ELSE 0
    <3>1. CASE k = 1
      <4>1. 0 < n - 1 => 1 \in 1..(n - 1) /\ 1 < n /\ ~(1 < 1)
        BY <2>2
      <4>2. ~(0 < n - 1) => ~(1 < n)
        BY <2>2
      <4> QED BY <2>3, <2>5, <2>8, <3>1, <4>1, <4>2
    <3>2. CASE k # 1
      <4>1. 0 < n - 1 /\ 1 \in 1..(n - 1) /\ 1 < k /\ 0 < n
        BY <2>2, <3>2
      <4> QED BY <1>4, <2>5, <2>8, <3>2, <4>1
    <3> QED BY <3>1, <3>2
  <2>10. Row(r)'
    BY <2>2, <2>5, <2>6, <2>8, <2>9 DEF Row, Behind
  <2>11. ASSUME NEW i \in 1..(n - 1)
         PROVE  nodes'[r[i]].next = IF i < n - 1 THEN r[i + 1] ELSE 0
    <3>1. \A j \in 1..n : nodes[s[j]].next = IF j < n THEN s[j + 1] ELSE 0
      BY <1>1, <1>6 DEF Straight, Behind
    <3>2. i \in Nat /\ 1 <= i /\ i <= n - 1 /\ i \in 1..n /\ i + 1 \in 1..n /\ i < n
      BY <2>2
    <3>3. CASE i + 1 < k
      <4>1. i < k /\ i # k - 1 /\ i < n - 1 /\ i + 1 \in 1..(n - 1) /\ k # 1
        BY <2>2, <3>2, <3>3
      <4>2. r[i] = s[i] /\ r[i + 1] = s[i + 1] /\ s[i] # s[k - 1] /\ s[i] \in 1..m
        BY <1>4, <2>2, <2>5, <3>2, <3>3, <4>1
      <4>3. nodes'[s[i]].next = nodes[s[i]].next
        BY <2>8, <4>2
      <4> QED BY <3>1, <3>2, <4>1, <4>2, <4>3
    <3>4. CASE i + 1 = k
      <4>1. i < k /\ i = k - 1 /\ k # 1 /\ ~(k < k) /\ (k < n <=> i < n - 1)
            /\ (i < n - 1 => i + 1 \in 1..(n - 1))
        BY <2>2, <3>2, <3>4
      <4>2. r[i] = s[k - 1] /\ s[k - 1] \in 1..m /\ (i < n - 1 => r[i + 1] = s[k + 1])
        BY <1>4, <2>5, <3>2, <3>4, <4>1
      <4>3. nodes'[s[k - 1]].next = nodes[s[k]].next
        BY <2>8, <4>1, <4>2
      <4> QED BY <2>3, <4>1, <4>2, <4>3
    <3>5. CASE i >= k
      <4>1. /\ ~(i < k) /\ ~(i + 1 < k) /\ (k # 1 => i + 1 # k - 1)
            /\ (i + 1 < n <=> i < n - 1) /\ (i < n - 1 => i + 1 \in 1..(n - 1))
        BY <2>2, <3>2, <3>5
      <4>2. /\ r[i] = s[i + 1] /\ s[i + 1] \in 1..m /\ (i < n - 1 => r[i + 1] = s[(i + 1) + 1])
            /\ (k # 1 => s[i + 1] # s[k - 1])
        BY <1>4, <2>2, <2>5, <3>2, <4>1
      <4>3. nodes'[s[i + 1]].next = nodes[s[i + 1]].next
        BY <2>8, <4>2
      <4>4. nodes[s[i + 1]].next = IF i + 1 < n THEN s[(i + 1) + 1] ELSE 0
        BY <3>1, <3>2
      <4> QED BY <4>1, <4>2, <4>3, <4>4
    <3> QED BY <2>2, <3>2, <3>3, <3>4, <3>5
  <2>12. Straight(r)'
    BY <2>5, <2>11 DEF Straight, Behind
  <2>13. Listed(r)'
    BY <2>7, <2>10, <2>12 DEF Listed, Reversing
  <2>14. Vals(r)' = List!Sequence!RemoveAt(Vals(s), run.n)
    <3>1. PICK v : v = Vals(s)
      OBVIOUS
    <3>2. PICK t : t = SubSeq(v, 1, k - 1) \o SubSeq(v, k + 1, Len(v))
      OBVIOUS
    <3>3. /\ t \in Seq(Int) /\ Len(t) = n - 1
          /\ \A i \in 1..(n - 1) : t[i] = IF i < k THEN v[i] ELSE v[i + 1]
      <4>1. v \in Seq(Int) /\ k \in 1..Len(v) /\ Len(v) = n
        BY <1>4, <2>1, <3>1
      <4>2. /\ t \in Seq(Int) /\ Len(t) = Len(v) - 1
            /\ \A i \in 1..(Len(v) - 1) : t[i] = IF i < k THEN v[i] ELSE v[i + 1]
        BY <3>2, <4>1, Removed
      <4> QED BY <4>1, <4>2
    <3>4. \A i \in 1..n : v[i] = nodes[s[i]].val
      BY <1>1, <3>1 DEF Vals
    <3>5. ASSUME NEW i \in 1..(n - 1) PROVE t[i] = nodes'[r[i]].val
      <4>1. i \in 1..n /\ i + 1 \in 1..n
        BY <2>2
      <4>2. r[i] = (IF i < k THEN s[i] ELSE s[i + 1]) /\ r[i] \in 1..m
        BY <1>4, <2>5, <4>1
      <4>3. t[i] = nodes[r[i]].val
        BY <3>3, <3>4, <4>1, <4>2
      <4> QED BY <2>8, <4>2, <4>3
    <3>6. Vals(r)' = [i \in 1..(n - 1) |-> nodes'[r[i]].val]
      BY <2>5 DEF Vals
    <3>7. t = [i \in 1..(n - 1) |-> t[i]]
      BY <3>3, LenProperties
    <3>8. t = Vals(r)'
      BY <3>5, <3>6, <3>7
    <3> QED BY <1>5, <3>1, <3>2, <3>8 DEF List!Sequence!RemoveAt
  <2> QED BY <1>1, <1>5, <2>1, <2>7, <2>13, <2>14
<1> QED BY <1>8, <1>9

(* What runs, as the specification of the lists names it. *)
Doing ==
  CASE run.f = "none" -> <<>> [] run.f = "reverse" -> <<"reverse">>
    [] run.f = "delete" -> <<"delete", run.n>>

(* One call is not another. *)
LEMMA CallsDiffer ==
  /\ <<"reverse">> # <<>>
  /\ \A n : <<"delete", n>> # <<>> /\ <<"delete", n>> # <<"reverse">>
  /\ \A n, k : <<"delete", n>> = <<"delete", k>> => n = k
<1>1. Len(<<"reverse">>) = 1 /\ Len(<<>>) = 0 /\ \A n : Len(<<"delete", n>>) = 2
  OBVIOUS
<1>2. <<"reverse">> # <<>> /\ \A n : <<"delete", n>> # <<>> /\ <<"delete", n>> # <<"reverse">>
  <2>1. 0 # 1 /\ 0 # 2 /\ 1 # 2
    OBVIOUS
  <2> QED BY <1>1, <2>1, Zenon
<1>3. \A n : <<"delete", n>>[2] = n
  OBVIOUS
<1>4. \A n, k : <<"delete", n>> = <<"delete", k>> => n = k
  BY <1>3, Zenon
<1> QED BY <1>2, <1>4

(* Each step of a loop is a step of the specification of the lists, or none. *)
LEMMA ListRefines ==
  ASSUME ListInv, NEW s, Listed(s), List!Next,
         MeantKnown, MeantKnown'
  PROVE  /\ \E r : Listed(r)'
         /\ List!Sequence!Next \/ UNCHANGED List!Sequence!listSpecVars
<1>1. ListInv'
  BY ListKeeps
<1>2. /\ List!Meant = Vals(s)
      /\ \A r : Listed(r)' => List!Meant' = Vals(r)'
  BY <1>1 DEF MeantKnown
<1>3. /\ Len(s) \in Nat /\ Len(s) <= MaxLength /\ Vals(s) \in Seq(Int)
      /\ Len(Vals(s)) = Len(s) /\ DOMAIN Vals(s) = 1..Len(s)
  BY RowFacts DEF Listed
<1>4. /\ run = List!NoRun => Doing = <<>>
      /\ run.f = "reverse" => Doing = <<"reverse">>
      /\ run.f = "delete" => Doing = <<"delete", run.n>>
      /\ run' = List!NoRun => Doing' = <<>>
      /\ run'.f = "reverse" => Doing' = <<"reverse">>
      /\ run'.f = "delete" => Doing' = <<"delete", run'.n>>
  BY DEF Doing, List!NoRun
<1>5. fate = "idle" => run = List!NoRun
  BY DEF Listed
<1>6. ASSUME List!Meant' = List!Meant, Doing' = Doing, (fate = "crashed")' = (fate = "crashed")
      PROVE  UNCHANGED List!Sequence!listSpecVars
  BY <1>6 DEF List!Sequence!listSpecVars, Doing
<1>7. ASSUME NEW n \in 0..MaxLength, List!ConstructList(n)
      PROVE  (\E r : Listed(r)') /\ List!Sequence!Next
  <2>1. PICK r : Listed(r)' /\ Vals(r)' = [i \in 1..n |-> i]
    BY <1>7, ConstructLists
  <2>2. List!Meant' = [i \in 1..n |-> i]
    BY <1>2, <2>1
  <2>3. /\ fate = "idle" /\ fate' = "idle" /\ run' = List!NoRun
    BY <1>7 DEF List!ConstructList, List!Return
  <2>4. Doing = <<>> /\ Doing' = <<>>
    BY <1>4, <1>5, <2>3
  <2>5. List!Sequence!ConstructList(n)
    BY <2>2, <2>4 DEF List!Sequence!ConstructList, Doing
  <2> QED BY <2>1, <2>3, <2>5 DEF List!Sequence!Next
<1>8. ASSUME List!doReverse PROVE (\E r : Listed(r)') /\ List!Sequence!Next
  <2>1. Listed(s)' /\ Vals(s)' = Vals(s)
    BY <1>8, ReverseStarts
  <2>2. List!Meant' = List!Meant
    BY <1>2, <2>1
  <2>3. fate = "idle" /\ fate' = "busy" /\ run'.f = "reverse"
    BY <1>8 DEF List!doReverse
  <2>4. Doing = <<>> /\ Doing' = <<"reverse">>
    BY <1>4, <1>5, <2>3
  <2>5. List!Sequence!Call
    BY <2>2, <2>4 DEF List!Sequence!Call, Doing
  <2> QED BY <2>1, <2>3, <2>5 DEF List!Sequence!Next
<1>9. ASSUME NEW n \in Positions, List!doDelN(n) PROVE (\E r : Listed(r)') /\ List!Sequence!Next
  <2>1. Listed(s)' /\ Vals(s)' = Vals(s)
    BY <1>9, DelStarts
  <2>2. List!Meant' = List!Meant
    BY <1>2, <2>1
  <2>3. fate = "idle" /\ fate' = "busy" /\ run'.f = "delete" /\ run'.n = n
    BY <1>9 DEF List!doDelN
  <2>4. Doing = <<>> /\ Doing' = <<"delete", n>>
    BY <1>4, <1>5, <2>3
  <2>5. <<"delete", n>> \in {"delete"} \X Positions
    OBVIOUS
  <2>6. List!Sequence!Call
    BY <2>2, <2>4, <2>5 DEF List!Sequence!Call, Doing
  <2> QED BY <2>1, <2>3, <2>6 DEF List!Sequence!Next
<1>10. ASSUME List!ReverseTurn
       PROVE  (\E r : Listed(r)') /\ UNCHANGED List!Sequence!listSpecVars
  <2>1. Listed(s)' /\ Vals(s)' = Vals(s)
    BY <1>10, ReverseTurns
  <2>2. fate = "busy" /\ fate' = fate /\ run.f = "reverse"
    BY <1>10 DEF List!ReverseTurn
  <2>3. run'.f = "reverse"
    BY <1>10, <2>2 DEF List!ReverseTurn, ListInv, RunOver, List!NoRun
  <2>4. Doing' = Doing /\ List!Meant' = List!Meant
    BY <1>2, <1>4, <2>1, <2>2, <2>3
  <2> QED BY <1>6, <2>1, <2>2, <2>4
<1>11. ASSUME List!Crash, Listed(s)', fate = "busy", Doing # <<>>,
              \A n \in 1..Len(s) : Doing # <<"delete", n>>,
              Doing = <<"reverse">> => Len(s) = 0
       PROVE  (\E r : Listed(r)') /\ List!Sequence!Next
  <2>1. fate' = "crashed" /\ run' = run /\ nodes' = nodes
    BY <1>11 DEF List!Crash
  <2>2. Vals(s)' = Vals(s) /\ Doing' = Doing
    BY <2>1 DEF Vals, Doing
  <2>3. List!Meant' = List!Meant
    BY <1>2, <1>11, <2>2
  <2>4. Doing = <<"reverse">> => List!Meant = <<>>
    BY <1>2, <1>3, <1>11, EmptySeq
  <2>5. \A n \in DOMAIN List!Meant : Doing # <<"delete", n>>
    BY <1>2, <1>3, <1>11
  <2>6. List!Sequence!Crash
    BY <1>11, <2>1, <2>2, <2>3, <2>4, <2>5 DEF List!Sequence!Crash, Doing
  <2> QED BY <1>11, <2>6 DEF List!Sequence!Next
<1>12. ASSUME List!ReverseEnds PROVE (\E r : Listed(r)') /\ List!Sequence!Next
  <2>1. fate = "busy" /\ Doing = <<"reverse">>
    BY <1>4, <1>12 DEF List!ReverseEnds
  <2>2. CASE List!Crash /\ Len(s) = 0 /\ Listed(s)'
    BY <1>11, <2>1, <2>2, CallsDiffer
  <2>3. CASE /\ Len(s) # 0 /\ run' = List!NoRun /\ fate' = "idle"
             /\ \E r : Listed(r)' /\ Vals(r)' = List!Reverse(Vals(s))
    <3>1. PICK r : Listed(r)' /\ Vals(r)' = List!Reverse(Vals(s))
      BY <2>3
    <3>2. List!Meant' = List!Reverse(List!Meant)
      BY <1>2, <3>1
    <3>3. List!Meant # <<>>
      BY <1>2, <1>3, <2>3, EmptySeq
    <3>4. Doing' = <<>>
      BY <1>4, <2>3
    <3>5. List!Sequence!doReverse
      BY <2>1, <3>2, <3>3, <3>4
         DEF List!Sequence!doReverse, Doing, List!Reverse, List!Sequence!Reverse
    <3> QED BY <2>1, <2>3, <3>1, <3>5 DEF List!Sequence!Next
  <2> QED BY <1>12, <2>2, <2>3, ReverseReverses
<1>13. ASSUME List!DelNext
       PROVE  /\ \E r : Listed(r)'
              /\ List!Sequence!Next \/ UNCHANGED List!Sequence!listSpecVars
  <2>1. Listed(s)' /\ Vals(s)' = Vals(s)
    BY <1>13, DelPasses
  <2>2. fate = "busy" /\ run.f = "delete" /\ Doing = <<"delete", run.n>>
    BY <1>4, <1>13 DEF List!DelNext
  <2>3. CASE run'.f = "delete" /\ run'.n = run.n /\ fate' = fate
    <3>1. Doing' = Doing /\ List!Meant' = List!Meant
      BY <1>2, <1>4, <2>1, <2>2, <2>3
    <3> QED BY <1>6, <2>1, <2>3, <3>1
  <2>4. CASE List!Crash /\ \A j \in 1..Len(s) : j # run.n
    BY <1>11, <2>1, <2>2, <2>4, CallsDiffer
  <2> QED BY <1>13, <2>3, <2>4, DelPasses
<1>14. ASSUME List!DelEnds PROVE (\E r : Listed(r)') /\ List!Sequence!Next
  <2>1. fate = "busy" /\ Doing = <<"delete", run.n>>
    BY <1>4, <1>14 DEF List!DelEnds
  <2>2. CASE List!Crash /\ Listed(s)' /\ \A j \in 1..Len(s) : j # run.n
    BY <1>11, <2>1, <2>2, CallsDiffer
  <2>3. CASE /\ run.n \in 1..Len(s) /\ run' = List!NoRun /\ fate' = "idle"
             /\ \E r : Listed(r)' /\ Vals(r)' = List!Sequence!RemoveAt(Vals(s), run.n)
    <3>1. PICK r : Listed(r)' /\ Vals(r)' = List!Sequence!RemoveAt(Vals(s), run.n)
      BY <2>3
    <3>2. PICK n : n = run.n
      OBVIOUS
    <3>3. List!Meant' = List!Sequence!RemoveAt(List!Meant, n) /\ n \in DOMAIN List!Meant
      BY <1>2, <1>3, <2>3, <3>1, <3>2
    <3>4. n \in 0..MaxLength
      BY <1>3, <2>3, <3>2, ExercisesAssumption
    <3>5. Doing = <<"delete", n>> /\ Doing' = <<>>
      BY <1>4, <2>1, <2>3, <3>2
    <3>6. List!Sequence!doDelN(n)
      BY <3>3, <3>5 DEF List!Sequence!doDelN, Doing
    <3> QED BY <2>1, <2>3, <3>1, <3>4, <3>6 DEF List!Sequence!Next
  <2> QED BY <1>14, <2>2, <2>3, DelRemoves
<1> QED BY <1>7, <1>8, <1>9, <1>10, <1>12, <1>13, <1>14 DEF List!Next, List!Turn

(* The nodes are always those of one list, in order. *)
OneList == \E s : Listed(s)
LEMMA InitListed == List!Init => OneList
<1> SUFFICES ASSUME List!Init PROVE OneList
  OBVIOUS
<1>1. nodes = <<>> /\ head = 0 /\ run = List!NoRun /\ fate = "idle"
  BY DEF List!Init, List!Null
<1>2. Len(nodes) = 0 /\ Len(<<>>) = 0 /\ <<>> \in Seq(1..0) /\ 1..0 = {}
  BY <1>1
<1>3. Row(<<>>) /\ Straight(<<>>)
  BY <1>1, <1>2, ExercisesAssumption DEF Row, Straight, Behind
<1>4. Listed(<<>>)
  BY <1>1, <1>3 DEF Listed, Reversing
<1> QED BY <1>4 DEF OneList

(* A step of the programs is one of the loops, or leaves the lists alone. *)
LEMMA ListedStep ==
  ListInv /\ OneList /\ [Next]_vars /\ MeantKnown /\ MeantKnown'
  => OneList' /\ [List!Sequence!Next]_(List!Sequence!listSpecVars)
<1> SUFFICES ASSUME ListInv, OneList, [Next]_vars, MeantKnown, MeantKnown'
             PROVE  OneList' /\ [List!Sequence!Next]_(List!Sequence!listSpecVars)
  OBVIOUS
<1>1. PICK s : Listed(s)
  BY DEF OneList
<1>2. CASE List!Next
  BY <1>1, <1>2, ListRefines DEF OneList
<1>3. CASE UNCHANGED listVars
  <2>1. nodes' = nodes /\ head' = head /\ run' = run /\ fate' = fate
    BY <1>3 DEF listVars
  <2>2. Listed(s)' /\ Vals(s)' = Vals(s) /\ ListInv'
    BY <1>1, <2>1 DEF Listed, Row, Straight, Halves, Passed, Behind, Reversing, Vals, ListInv
  <2>3. List!Meant' = List!Meant
    BY <1>1, <2>2 DEF MeantKnown
  <2>4. UNCHANGED List!Sequence!listSpecVars
    BY <2>1, <2>3 DEF List!Sequence!listSpecVars
  <2> QED BY <2>2, <2>4 DEF OneList
<1>4. List!Next \/ UNCHANGED listVars
  BY DEF Next, Runs, vars
<1> QED BY <1>2, <1>3, <1>4

(***************************************************************************)
(* The loops over the nodes construct, reverse and delete like their       *)
(* sequences: nothing is lost, doubled or out of order, and a null pointer *)
(* is followed only where the list is empty or has no n-th node            *)
(* (DelReverseN.cc 25-90).                                                 *)
(***************************************************************************)
THEOREM ListsImplementSequences == Spec => List!ImplementsList
<1>1. Init => List!Sequence!Init
  <2> SUFFICES ASSUME List!Init PROVE List!Sequence!Init
    BY DEF Init
  <2>1. run = List!NoRun /\ fate = "idle"
    BY DEF List!Init
  <2>2. PICK s : Listed(s)
    BY InitListed DEF OneList
  <2>3. List!Meant = Vals(s)
    BY <2>2, InitList, MeantIs DEF MeantKnown
  <2>4. Len(nodes) = 0
    BY DEF List!Init
  <2>5. Len(Vals(s)) = 0 /\ Vals(s) \in Seq(Int)
    BY <2>2, <2>4, InitList, RowFacts DEF Listed
  <2>6. List!Meant = <<>>
    BY <2>3, <2>5, EmptySeq
  <2> QED BY <2>1, <2>6 DEF List!Sequence!Init, List!NoRun
<1>2. Init => OneList
  BY InitListed DEF Init
<1> QED BY <1>1, <1>2, MeantIs, ListedStep, ListInvariance, PTL
        DEF Spec, List!ImplementsList, List!Sequence!Spec

(***************************************************************************)
(* The cache and the lists implement what their specifications say.        *)
(***************************************************************************)
THEOREM SpecsImplemented == Spec => ImplementsSpecs
BY CacheImplementsRecent, ListsImplementSequences, PTL DEF ImplementsSpecs

-----------------------------------------------------------------------------
(* What each thread of the shared pointer does next is one of its steps. *)
Steps == {"new", "lock", "read", "count", "assign", "release", "unlock", "use",
          "dropnew", "drop", "join", "done"}
PlaceKnown == pc \in [Thread \cup {Main} -> Steps]

(* That holds whatever program runs. *)
LEMMA ControlInvariance == Spec => []PlaceKnown
<1>1. Init => PlaceKnown
  BY DEF Init, Shared!Init, PlaceKnown, Steps, Thread, Shared!Thread
<1>2. ASSUME PlaceKnown, [Next]_vars PROVE PlaceKnown'
  <2>1. ASSUME NEW t, NEW from, NEW to \in Steps, Shared!Move(t, from, to) PROVE PlaceKnown'
    BY <1>2, <2>1 DEF PlaceKnown, Shared!Move
  <2>2. CASE Shared!Join
    BY <2>1, <2>2 DEF Shared!Join, Steps
  <2>3. ASSUME NEW t, Shared!Step(t) PROVE PlaceKnown'
    <3>1. CASE Shared!Lock(t)
      BY <2>1, <3>1 DEF Shared!Lock, Steps
    <3>2. CASE Shared!ReadPointer(t)
      BY <2>1, <3>2 DEF Shared!ReadPointer, Steps
    <3>3. CASE Shared!RaiseCount(t)
      <4>1. (IF t \in Reader THEN "unlock" ELSE "assign") \in Steps
        BY DEF Steps
      <4> QED BY <2>1, <3>3, <4>1 DEF Shared!RaiseCount
    <3>4. CASE Shared!Unlock(t)
      <4>1. (IF t \in Reader THEN "use" ELSE "dropnew") \in Steps
        BY DEF Steps
      <4> QED BY <2>1, <3>4, <4>1 DEF Shared!Unlock
    <3>5. CASE Shared!Drop(t)
      BY <2>1, <3>5 DEF Shared!Drop, Steps
    <3>6. CASE Shared!Use(t)
      BY <2>1, <3>6 DEF Shared!Use, Steps
    <3>7. CASE Shared!NewApp(t)
      BY <2>1, <3>7 DEF Shared!NewApp, Steps
    <3>8. CASE Shared!Assign(t)
      BY <2>1, <3>8 DEF Shared!Assign, Steps
    <3>9. CASE Shared!ReleaseOld(t)
      BY <2>1, <3>9 DEF Shared!ReleaseOld, Steps
    <3>10. CASE Shared!DropNew(t)
      BY <2>1, <3>10 DEF Shared!DropNew, Steps
    <3> QED BY <2>3, <3>1, <3>2, <3>3, <3>4, <3>5, <3>6, <3>7, <3>8, <3>9, <3>10 DEF Shared!Step
  <2>4. CASE UNCHANGED sharedVars
    BY <1>2, <2>4 DEF sharedVars, PlaceKnown
  <2> QED BY <1>2, <2>2, <2>3, <2>4 DEF Next, Runs, vars, Shared!Next
<1> QED BY <1>1, <1>2, PTL DEF Spec

(***************************************************************************)
(* Every variable of every program has its type, for every value of the    *)
(* constants: a pointer in the prototype leads to a node that has the      *)
(* level, one in a list to a node or nowhere, no use count goes below      *)
(* zero, and neither the cache nor the reactor's queue holds more than it  *)
(* may (leetcode.cc 180-427, shared_ptr.cc 128-167, DelReverseN.cc 25-90,  *)
(* test_simple_future.cc 20-80).                                           *)
(***************************************************************************)
THEOREM TypeCorrect == Spec => []TypeOK
<1>1. CacheInv => Cache!TypeOK
  BY DEF CacheInv, Cache!TypeOK, Entry, Address
<1>2. SharedInv /\ PlaceKnown => Shared!TypeOK
  BY DEF SharedInv, Places, Counts, PlaceKnown, Steps, Shared!TypeOK, Thread, App, Free
<1>3. ListInv => List!TypeOK
  <2> SUFFICES ASSUME ListInv PROVE List!TypeOK
    OBVIOUS
  <2>1. \A i \in DOMAIN nodes : nodes[i] \in NodeOver(Len(nodes))
    BY LenProperties DEF ListInv
  <2>2. \A i \in DOMAIN nodes : nodes[i].next \in 0..Len(nodes)
    BY <2>1 DEF NodeOver
  <2>3. run.f # "none" => run.curr \in 0..Len(nodes)
    BY DEF ListInv, RunOver, List!NoRun
  <2> QED BY <2>2, <2>3, Zenon DEF ListInv, List!TypeOK
<1>4. ReactorInv => Future!TypeOK
  <2> SUFFICES ASSUME ReactorInv PROVE Future!TypeOK
    OBVIOUS
  <2>1. /\ DOMAIN future = 1..Len(future) /\ DOMAIN asked = 1..Len(future)
        /\ DOMAIN queue = 1..Len(queue) /\ \A r \in 1..Len(future) : future[r] \in FutureValue
    BY LenProperties DEF ReactorInv, Requests
  <2>2. Future!ToSet(queue) \subseteq DOMAIN asked
    BY <2>1 DEF ReactorInv, Requests, Future!ToSet
  <2>3. c1 \in (1..Len(future)) \cup {0}
    BY DEF ReactorInv, Requests
  <2> QED BY <2>1, <2>2, <2>3, Marks DEF ReactorInv, Requests, FutureValue, Future!TypeOK
<1>5. /\ CacheInv /\ SharedInv /\ PlaceKnown /\ ListInv /\ ProtoInv /\ ReactorInv => TypeOK
  BY <1>1, <1>2, <1>3, <1>4, ProtoTypes DEF TypeOK
<1> QED BY <1>5, CacheInvariance, SharedInvariance, ControlInvariance, ListInvariance,
           ProtoInvariance, ReactorInvariance, PTL
-----------------------------------------------------------------------------
(***************************************************************************)
(* The pair of twoSum (leetcode.cc 74-88).                                 *)
(***************************************************************************)

(* The numbers and the answer, once there is one. *)
PairInv ==
  job.f = "twoSum" =>
    /\ \E n \in Nat : job.s \in [1..n -> Int]
    /\ job.target \in Int
    /\ solved => result = Algorithm!twoSum(job.s, job.target)

(* A set of natural numbers has its least one for a minimum. *)
LEMMA LeastOf ==
  ASSUME NEW S \in SUBSET Nat, S # {}
  PROVE  Algorithm!Min(S) \in S
<1>1. PICK m \in S : \A y \in S : m <= y
  BY LeastNatural
<1> QED BY <1>1, Zenon DEF Algorithm!Min

(* The partner of a place is the latest one before it that the place adds up
   with to the target, and 0 if there is none. *)
LEMMA PartnerIs ==
  ASSUME NEW n \in Nat, NEW nums \in [1..n -> Int], NEW target \in Int, NEW i \in 1..n
  PROVE  LET p == Algorithm!Partner(nums, target, i)
         IN  /\ p # 0 => p \in 1..(i - 1) /\ nums[p] + nums[i] = target
             /\ (\E j \in 1..(i - 1) : nums[j] + nums[i] = target) => p # 0
<1> DEFINE there == {j \in Algorithm!Entered(i) : nums[j] = target - nums[i]}
           S == there \cup {0}
           p == Algorithm!Partner(nums, target, i)
<1>1. \A j : j \in there <=> j \in 1..(i - 1) /\ nums[j] + nums[i] = target
  BY DEF Algorithm!Entered
<1>2. S \in SUBSET (0..n) /\ S # {}
  BY <1>1
<1>3. p = Algorithm!Max(S)
  BY Zenon DEF Algorithm!Partner
<1>4. (\A j : j \in there => j \in S) /\ (\A j : j \in S => j \in there \/ j = 0)
  OBVIOUS
<1> HIDE DEF S, p, there
<1>5. n \in Int /\ S \subseteq Int /\ \A x \in S : x <= n
  BY <1>2
<1>6. PICK m \in S : \A y \in S : m >= y
  BY <1>2, <1>5, SomeGreatest
<1>7. p \in S /\ \A y \in S : p >= y
  BY <1>3, <1>6, Zenon DEF Algorithm!Max
<1>8. p # 0 => p \in 1..(i - 1) /\ nums[p] + nums[i] = target
  BY <1>1, <1>4, <1>7
<1>9. (\E j \in 1..(i - 1) : nums[j] + nums[i] = target) => p # 0
  BY <1>1, <1>4, <1>7
<1> QED BY <1>8, <1>9 DEF p

(* What is asked of the answer. *)
TwoSums(n, nums, target) ==
  LET Pairs == {p \in (1..n) \X (1..n) : p[1] # p[2] /\ nums[p[1]] + nums[p[2]] = target}
  IN  IF Pairs = {} THEN Algorithm!twoSum(nums, target) = <<>>
      ELSE Algorithm!twoSum(nums, target) \in Pairs

(* The first place with a partner gives a pair, and of every pair the later
   place has a partner. *)
LEMMA TwoSumRight ==
  ASSUME NEW n \in Nat, NEW nums \in [1..n -> Int], NEW target \in Int
  PROVE  TwoSums(n, nums, target)
<1> DEFINE Pairs == {p \in (1..n) \X (1..n) : p[1] # p[2] /\ nums[p[1]] + nums[p[2]] = target}
           P(i) == Algorithm!Partner(nums, target, i)
           hits == {i \in 1..n : P(i) # 0}
<1>1. ASSUME NEW i \in 1..n
      PROVE  /\ P(i) # 0 => P(i) \in 1..(i - 1) /\ nums[P(i)] + nums[i] = target
             /\ (\E j \in 1..(i - 1) : nums[j] + nums[i] = target) => P(i) # 0
  BY PartnerIs
<1>2. Algorithm!twoSum(nums, target) =
        IF hits = {} THEN <<>> ELSE <<Algorithm!Min(hits), P(Algorithm!Min(hits))>>
  BY Zenon DEF Algorithm!twoSum
<1> HIDE DEF P
<1>3. CASE hits = {}
  <2>1. ASSUME NEW a \in 1..n, NEW b \in 1..n, a # b, nums[a] + nums[b] = target PROVE FALSE
    <3>1. CASE a < b
      <4>1. a \in 1..(b - 1)
        BY <3>1
      <4> QED BY <1>1, <1>3, <2>1, <4>1
    <3>2. CASE b < a
      <4>1. b \in 1..(a - 1) /\ nums[b] + nums[a] = target
        BY <2>1, <3>2
      <4> QED BY <1>1, <1>3, <4>1
    <3> QED BY <2>1, <3>1, <3>2
  <2>2. Pairs = {}
    BY <2>1
  <2> QED BY <1>2, <1>3, <2>2 DEF TwoSums
<1>4. CASE hits # {}
  <2> DEFINE i == Algorithm!Min(hits)
  <2>1. hits \in SUBSET Nat
    OBVIOUS
  <2>2. i \in hits
    BY <1>4, <2>1, LeastOf
  <2> HIDE DEF i
  <2>3. i \in 1..n /\ P(i) \in 1..(i - 1) /\ nums[P(i)] + nums[i] = target
    BY <1>1, <2>2
  <2>4. P(i) \in 1..n /\ P(i) # i /\ nums[i] + nums[P(i)] = target
    BY <2>3
  <2>5. <<i, P(i)>> \in Pairs
    BY <2>3, <2>4
  <2>6. Algorithm!twoSum(nums, target) = <<i, P(i)>>
    BY <1>2, <1>4 DEF i
  <2> QED BY <2>5, <2>6 DEF TwoSums
<1> QED BY <1>3, <1>4

(* The only step of a call returns its answer. *)
LEMMA PairInvariance == Spec => []PairInv
<1>1. Init => PairInv
  <2> SUFFICES ASSUME Init, job.f = "twoSum" PROVE PairInv
    BY DEF PairInv
  <2>1. Algorithm!Init
    BY DEF Init
  <2>2. PICK w \in Algorithm!Words(-1..1, MaxWord - 1), t \in -2..2 :
          job = [f |-> "twoSum", s |-> w, target |-> t]
    BY <2>1 DEF Algorithm!Init
  <2>3. PICK k \in 0..(MaxWord - 1) : w \in [1..k -> -1..1]
    BY DEF Algorithm!Words
  <2>4. k \in Nat /\ w \in [1..k -> Int]
    BY <2>3
  <2> QED BY <2>1, <2>2, <2>4 DEF PairInv, Algorithm!Init
<1>2. ASSUME PairInv, [Next]_vars PROVE PairInv'
  <2>1. CASE Algorithm!Solve
    <3> SUFFICES ASSUME job.f = "twoSum" PROVE PairInv'
      BY <2>1 DEF Algorithm!Solve, PairInv
    <3>1. job' = job /\ result' = Algorithm!twoSum(job.s, job.target)
      BY <2>1 DEF Algorithm!Solve
    <3> QED BY <1>2, <3>1 DEF PairInv
  <2>2. CASE UNCHANGED algorithmVars
    BY <1>2, <2>2 DEF PairInv, algorithmVars
  <2> QED BY <1>2, <2>1, <2>2 DEF Next, Runs, vars
<1> QED BY <1>1, <1>2, PTL DEF Spec

(***************************************************************************)
(* twoSum answers two different places with the sum asked for whenever     *)
(* there are such places, and nothing if there are none (leetcode.cc       *)
(* 74-88): the part of AnswersRight that no recursion is needed for.       *)
(***************************************************************************)
THEOREM PairAlwaysFound == Spec => []Algorithm!PairFound
<1>1. PairInv => Algorithm!PairFound
  <2> SUFFICES ASSUME PairInv, solved, job.f = "twoSum" PROVE Algorithm!PairFound
    BY DEF Algorithm!PairFound, Algorithm!Answered
  <2>1. PICK n \in Nat : job.s \in [1..n -> Int]
    BY DEF PairInv
  <2>2. DOMAIN job.s = 1..n /\ job.target \in Int /\ result = Algorithm!twoSum(job.s, job.target)
    BY <2>1 DEF PairInv
  <2>3. TwoSums(n, job.s, job.target)
    BY <2>1, <2>2, TwoSumRight
  <2> QED BY <2>2, <2>3 DEF Algorithm!PairFound, TwoSums
<1> QED BY <1>1, PairInvariance, PTL
=============================================================================
