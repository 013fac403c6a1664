--------------------------- MODULE SkiplistProofs ---------------------------
(***************************************************************************)
(* Proofs about Skiplist for every set of keys, both policies, every       *)
(* kMaxLvl_ and any number of insertions.                                  *)
(* The last part shows that Skiplist implements the ordered collection of  *)
(* SkiplistSpec: the linearisation points are the link of level 0 and the  *)
(* unlink of level 0.                                                      *)
(***************************************************************************)
EXTENDS Skiplist, TLAPS

(* What the place in the code says of the locals, and that the head keeps
   its level. *)
Control ==
  /\ lvl[Head] = MaxLvl
  /\ pc \in {"link", "raise", "aborted"} => target \in 1..(nodeCount - 1)
  /\ pc \notin {"link", "raise", "unlink", "aborted"} => target = Nil
  /\ pc \in {"find", "found"} => op \in Ops
  /\ pc = "level" => op = "insert"
  /\ pc \in {"find", "found", "level"} /\ op = "insert" => nodeCount <= MaxNodes
  /\ pc = "find" => i \in 0..currLvl
  /\ pc = "level" => i \in Level
  /\ pc \in {"link", "aborted"} => i \in 0..currLvl /\ i <= lvl[target]
  /\ pc = "raise" => i \in (currLvl + 1)..(MaxLvl + 2)
  /\ pc = "unlink" => target \in Node /\ i \in 0..(lvl[target] + 1)

(* TypeOK in two parts: the list, and the locals of the call. *)
ListOK ==
  /\ key \in [Node -> Int]
  /\ lvl \in [Node -> Level]
  /\ next \in [Node -> [Level -> Node \cup {Nil}]]
  /\ nodeCount \in 1..(MaxNodes + 1)
  /\ currLvl \in Level
  /\ contents \subseteq 1..(nodeCount - 1)

LocalsOK ==
  /\ pc \in PCs
  /\ op \in Ops \cup {"none"}
  /\ k \in Int
  /\ preceeds \in [Level -> Node]
  /\ node \in Node
  /\ i \in -1..(MaxLvl + 2)
  /\ target \in Node \cup {Nil}
  /\ answer \in Node \cup {Nil}

(* TypeOK is exactly its two parts. *)
LEMMA TypeParts == TypeOK <=> ListOK /\ LocalsOK
  BY DEF TypeOK, ListOK, LocalsOK

USE DEF Head, Nil

(* The bottom level, the head's top level and the made nodes are in range. *)
LEMMA Ranges ==
  /\ 0 \in Level /\ Level \subseteq Int
  /\ Head \in Node /\ Node \subseteq Int /\ Nil \notin Node
  /\ ListOK => 1..(nodeCount - 1) \subseteq Node /\ 0..currLvl \subseteq Level
  BY SkiplistAssumption, SMT DEF Level, Node, ListOK

(* GetNext answers a node or Nil at every level of the types. *)
LEMMA GetNextType ==
  ASSUME ListOK, NEW n \in Node, NEW l \in Level
  PROVE  GetNext(n, l) \in Node \cup {Nil}
  BY SMT DEF ListOK, GetNext

(* SetNext keeps the type of the pointers. *)
LEMMA SetNextType ==
  ASSUME NEW nx \in [Node -> [Level -> Node \cup {Nil}]],
         NEW n \in Node, NEW l \in Level, NEW m \in Node \cup {Nil}
  PROVE  SetNext(nx, n, l, m) \in [Node -> [Level -> Node \cup {Nil}]]
  BY SMT DEF SetNext

(* The candidate of Insert, Remove and Search is a node or Nil. *)
LEMMA MayEqType == ListOK /\ LocalsOK => MayEq \in Node \cup {Nil}
  BY GetNextType, Ranges DEF MayEq, LocalsOK

-----------------------------------------------------------------------------
(* The program starts in a state of its types. *)
LEMMA TypeInit == Init => ListOK /\ LocalsOK /\ Control
  BY SkiplistAssumption, SMT
  DEF Init, ListOK, LocalsOK, Control, Node, Level, Ops, PCs

(* A step that leaves the list alone leaves it well typed. *)
LEMMA ListKept == ListOK /\ UNCHANGED list => ListOK'
  BY DEF ListOK, list

(* A call that returns leaves its locals as they were before it. *)
LEMMA ReturnType ==
  ASSUME LocalsOK, NEW a \in Node \cup {Nil}, Return(a)
  PROVE  LocalsOK'
  BY Ranges, SkiplistAssumption, SMT DEF LocalsOK, Return, PCs

(* The head and the counters that Control relates stay in place on return. *)
LEMMA ReturnControl ==
  ASSUME Control, lvl' = lvl, NEW a, Return(a)
  PROVE  Control'
  BY SMT DEF Control, Return

(* Every step of every operation keeps the types, and leaves the locals as
   the next place in the code expects them. *)
LEMMA TypeStep ==
  ListOK /\ LocalsOK /\ Control /\ [Next]_vars => ListOK' /\ LocalsOK' /\ Control'
<1> SUFFICES ASSUME ListOK, LocalsOK, Control, [Next]_vars
             PROVE  ListOK' /\ LocalsOK' /\ Control'
  OBVIOUS
<1> USE SkiplistAssumption, Ranges
<1> DEFINE Typed == ListOK' /\ LocalsOK' /\ Control'
<1>1. ASSUME NEW o \in Ops, NEW kk \in Key, Call(o, kk) PROVE Typed
  <2>1. ListOK' BY <1>1, ListKept DEF Call
  <2>2. LocalsOK' BY <1>1, SMT DEF Call, LocalsOK, ListOK, Level, PCs
  <2>3. Control' BY <1>1, SMT DEF Call, list, ListOK, Control, Level, Ops
  <2> QED BY <2>1, <2>2, <2>3
<1>2. CASE FindRight
  <2>1. GetNext(node, i) \in Node
    <3>1. node \in Node /\ i \in Level
      BY <1>2, SMT DEF FindRight, ListOK, LocalsOK, Control, Level
    <3> QED BY <1>2, <3>1, GetNextType DEF FindRight, GoesRight
  <2>2. ListOK' BY <1>2, ListKept DEF FindRight
  <2>3. LocalsOK' BY <1>2, <2>1, SMT DEF FindRight, LocalsOK
  <2>4. Control' BY <1>2, SMT DEF FindRight, list, Control
  <2> QED BY <2>2, <2>3, <2>4
<1>3. CASE FindDown
  <2>1. i \in 0..currLvl /\ i \in Level
    BY <1>3, SMT DEF FindDown, Control, ListOK
  <2>2. ListOK' BY <1>3, ListKept DEF FindDown
  <2>3. LocalsOK' BY <1>3, <2>1, SMT DEF FindDown, LocalsOK, PCs
  <2>4. Control' BY <1>3, <2>1, SMT DEF FindDown, list, ListOK, Control
  <2> QED BY <2>2, <2>3, <2>4
<1>4. CASE InsertRefused
  <2>1. ListOK' BY <1>4, ListKept DEF InsertRefused
  <2>2. LocalsOK' BY <1>4, ReturnType DEF InsertRefused
  <2>3. Control' BY <1>4, ReturnControl DEF InsertRefused, list
  <2> QED BY <2>1, <2>2, <2>3
<1>5. CASE InsertAccepted
  <2>1. ListOK' BY <1>5, ListKept DEF InsertAccepted
  <2>2. LocalsOK' BY <1>5, SMT DEF InsertAccepted, frame, LocalsOK, PCs
  <2>3. Control' BY <1>5, SMT DEF InsertAccepted, list, frame, Control
  <2> QED BY <2>1, <2>2, <2>3
<1>6. CASE RaiseLevel
  <2>1. ListOK' BY <1>6, ListKept DEF RaiseLevel
  <2>2. i' \in Level BY <1>6, SMT DEF RaiseLevel, MayRaise, Control, Level
  <2>3. LocalsOK' BY <1>6, <2>2, SMT DEF RaiseLevel, frame, LocalsOK, Level
  <2>4. Control' BY <1>6, <2>2, SMT DEF RaiseLevel, list, frame, Control
  <2> QED BY <2>1, <2>3, <2>4
<1>7. CASE NewNode
  <2>1. nodeCount \in 1..MaxNodes /\ nodeCount \in Node /\ i \in Level
    BY <1>7, SMT DEF NewNode, ListOK, Control, Node
  <2>2. i' \in 0..currLvl /\ i' <= i
    BY <1>7, <2>1, SMT DEF NewNode, Ph1End, ListOK, Level
  <2>3. ListOK' BY <1>7, <2>1, SMT DEF NewNode, ListOK, LocalsOK
  <2>4. LocalsOK' BY <1>7, <2>1, <2>2, SMT DEF NewNode, LocalsOK, ListOK, PCs, Level
  <2>5. lvl'[nodeCount] = i /\ lvl'[Head] = MaxLvl
    BY <1>7, <2>1, SMT DEF NewNode, ListOK, Control
  <2>6. Control' BY <1>7, <2>1, <2>2, <2>5, SMT DEF NewNode, Control
  <2> QED BY <2>3, <2>4, <2>6
<1>8. CASE LinkLevel
  <2>1. i \in 0..currLvl /\ i \in Level /\ target \in 1..(nodeCount - 1)
    BY <1>8, SMT DEF LinkLevel, ListOK, Control
  <2>2. target \in Node /\ preceeds[i] \in Node
    BY <2>1 DEF ListOK, LocalsOK
  <2>3. next' \in [Node -> [Level -> Node \cup {Nil}]]
    <3>1. GetNext(preceeds[i], i) \in Node \cup {Nil}
      BY <2>1, <2>2, GetNextType
    <3>2. SetNext(next, target, i, GetNext(preceeds[i], i))
            \in [Node -> [Level -> Node \cup {Nil}]]
      BY <2>1, <2>2, <3>1, SetNextType DEF ListOK
    <3> QED BY <1>8, <2>1, <2>2, <3>2, SetNextType DEF LinkLevel, Splice
  <2>4. contents' \subseteq 1..(nodeCount - 1)
    BY <1>8, <2>1 DEF LinkLevel, ListOK
  <2>5. ListOK' BY <1>8, <2>3, <2>4, SMT DEF LinkLevel, ListOK
  <2>6. LocalsOK'
    BY <1>8, <2>1, SMT DEF LinkLevel, frame, LocalsOK, ListOK, PCs, Level
  <2>7. Control' BY <1>8, <2>1, SMT DEF LinkLevel, frame, ListOK, Control, Level
  <2> QED BY <2>5, <2>6, <2>7
<1>9. CASE Abort
  <2>1. ListOK' BY <1>9, ListKept DEF Abort
  <2>2. LocalsOK' BY <1>9, SMT DEF Abort, frame, LocalsOK, PCs
  <2>3. Control' BY <1>9, SMT DEF Abort, list, frame, Control
  <2> QED BY <2>1, <2>2, <2>3
<1>10. CASE RaiseHead
  <2>1. target \in 1..(nodeCount - 1) /\ target \in Node
    BY <1>10 DEF RaiseHead, Control, ListOK
  <2>2. i \in Level
    BY <1>10, <2>1, SMT DEF RaiseHead, ListOK, Control, Level
  <2>3. ListOK' BY <1>10, <2>1, <2>2, SetNextType DEF RaiseHead, ListOK
  <2>4. LocalsOK' BY <1>10, <2>2, SMT DEF RaiseHead, frame, LocalsOK, Level
  <2>5. Control'
    BY <1>10, <2>1, <2>2, SMT DEF RaiseHead, frame, ListOK, Control, Level
  <2> QED BY <2>3, <2>4, <2>5
<1>11. CASE InsertDone
  <2>1. target \in Node
    BY <1>11 DEF InsertDone, Control, ListOK
  <2>2. ListOK' BY <1>11, <2>1 DEF InsertDone, RaisedLevel, ListOK
  <2>3. LocalsOK' BY <1>11, <2>1, ReturnType DEF InsertDone
  <2>4. Control' BY <1>11, ReturnControl DEF InsertDone
  <2> QED BY <2>2, <2>3, <2>4
<1>12. CASE Missed
  <2>1. ListOK' BY <1>12, ListKept DEF Missed
  <2>2. LocalsOK' BY <1>12, ReturnType DEF Missed
  <2>3. Control' BY <1>12, ReturnControl DEF Missed, list
  <2> QED BY <2>1, <2>2, <2>3
<1>13. CASE SearchHit
  <2>1. ListOK' BY <1>13, ListKept DEF SearchHit
  <2>2. LocalsOK' BY <1>13, MayEqType, ReturnType DEF SearchHit
  <2>3. Control' BY <1>13, ReturnControl DEF SearchHit, list
  <2> QED BY <2>1, <2>2, <2>3
<1>14. CASE RemoveHit
  <2>1. MayEq \in Node BY <1>14, MayEqType DEF RemoveHit, Found
  <2>2. ListOK' BY <1>14, ListKept DEF RemoveHit
  <2>3. LocalsOK' BY <1>14, <2>1, SMT DEF RemoveHit, LocalsOK, PCs
  <2>4. lvl[MayEq] \in Level BY <2>1 DEF ListOK
  <2>5. Control' BY <1>14, <2>1, <2>4, SMT DEF RemoveHit, list, Control, Level
  <2> QED BY <2>2, <2>3, <2>5
<1>15. CASE UnlinkLevel
  <2>1. target \in Node /\ lvl[target] \in Level /\ i \in 0..(lvl[target] + 1)
    BY <1>15 DEF UnlinkLevel, ListOK, Control
  <2>2. target \in Node /\ i \in Level /\ i <= lvl[target]
    BY <1>15, <2>1, SMT DEF UnlinkLevel, MoreToUnlink, Level
  <2>3. preceeds[i] \in Node BY <2>2 DEF LocalsOK
  <2>4. next' \in [Node -> [Level -> Node \cup {Nil}]]
    BY <1>15, <2>2, <2>3, GetNextType, SetNextType DEF UnlinkLevel, ListOK
  <2>5. ListOK' BY <1>15, <2>4 DEF UnlinkLevel, ListOK
  <2>6. LocalsOK' BY <1>15, <2>2, SMT DEF UnlinkLevel, frame, LocalsOK, Level
  <2>7. i' \in 0..(lvl[target] + 1)
    BY <1>15, <2>1, <2>2, SMT DEF UnlinkLevel, Level
  <2>8. Control' BY <1>15, <2>2, <2>7, SMT DEF UnlinkLevel, frame, Control
  <2> QED BY <2>5, <2>6, <2>8
<1>16. CASE RemoveDone
  <2>1. target \in Node BY <1>16, SMT DEF RemoveDone, Control
  <2>2. ListOK' BY <1>16, <2>1, SMT DEF RemoveDone, ListOK
  <2>3. LocalsOK' BY <1>16, <2>1, ReturnType DEF RemoveDone
  <2>4. Control' BY <1>16, ReturnControl DEF RemoveDone
  <2> QED BY <2>2, <2>3, <2>4
<1>17. CASE Destroy
  <2>1. ListOK' BY <1>17 DEF Destroy, ListOK
  <2>2. LocalsOK' BY <1>17, SMT DEF Destroy, frame, LocalsOK, PCs
  <2>3. Control' BY <1>17, SMT DEF Destroy, frame, Control
  <2> QED BY <2>1, <2>2, <2>3
<1>18. CASE UNCHANGED vars
  <2>1. ListOK' BY <1>18, ListKept DEF vars
  <2>2. LocalsOK' BY <1>18 DEF vars, frame, LocalsOK
  <2>3. Control' BY <1>18 DEF vars, list, frame, Control
  <2> QED BY <2>1, <2>2, <2>3
<1> QED
  BY <1>1, <1>2, <1>3, <1>4, <1>5, <1>6, <1>7, <1>8, <1>9, <1>10, <1>11, <1>12,
     <1>13, <1>14, <1>15, <1>16, <1>17, <1>18 DEF Next, Step

(***************************************************************************)
(* Type correctness: no level index leaves the vectors it is used on and   *)
(* no pointer leaves the nodes that can be made, in every call.            *)
(***************************************************************************)
THEOREM TypeCorrect == Spec => []TypeOK
<1>1. Spec => [](ListOK /\ LocalsOK /\ Control)
  BY TypeInit, TypeStep, PTL DEF Spec
<1>2. ListOK /\ LocalsOK => TypeOK
  BY TypeParts
<1> QED BY <1>1, <1>2, PTL
-----------------------------------------------------------------------------
(***************************************************************************)
(* Facts about an ordered list of nodes S, whatever its level: how the     *)
(* successors change when the node t is put before the nodes with a key    *)
(* >= k, and when the first of these is taken out.                         *)
(***************************************************************************)
Firsts(S, t) == \A q \in S : key[q] >= k => q = t \/ Before(t, q)

(* A walk that stops before a key >= k, or at the end, found the last node
   with a smaller key. *)
LEMMA WalkFindsPred ==
  ASSUME key \in [Node -> Int], k \in Int, NEW S \in SUBSET (Node \ {Head}),
         NEW n \in Node, n = Head \/ (n \in S /\ key[n] < k),
         NEW m \in Node \cup {Nil}, IsNext(S, n, m),
         m = Nil \/ key[m] >= k
  PROVE  IsPred(S, n)
  BY Ranges, SMT DEF IsNext, IsPred, After, Before

(* The successor of the predecessor is the first node with a key >= k. *)
LEMMA PredNext ==
  ASSUME key \in [Node -> Int], k \in Int, NEW S \in SUBSET (Node \ {Head}),
         NEW n \in Node, IsPred(S, n),
         NEW m \in Node \cup {Nil}, IsNext(S, n, m)
  PROVE  /\ m = Nil => \A q \in S : key[q] < k
         /\ m # Nil => m \in S /\ key[m] >= k /\ Firsts(S, m)
  BY Ranges, SMT DEF IsNext, IsPred, After, Before, Firsts

(* A node has one successor. *)
LEMMA NextUnique ==
  ASSUME key \in [Node -> Int], NEW S \in SUBSET (Node \ {Head}),
         NEW n \in Node, NEW m \in Node \cup {Nil}, NEW x \in Node \cup {Nil},
         IsNext(S, n, m), IsNext(S, n, x)
  PROVE  m = x
  BY Ranges, SMT DEF IsNext, After, Before

(* Splicing t, younger than every node, after the predecessor of its key. *)
LEMMA SpliceAtPred ==
  ASSUME key \in [Node -> Int], k \in Int, NEW S \in SUBSET (Node \ {Head}),
         NEW n \in Node, IsPred(S, n),
         NEW t \in Node \ {Head}, key[t] = k, \A q \in S : q < t,
         NEW m \in Node \cup {Nil}, IsNext(S, n, m)
  PROVE  IsNext(S \cup {t}, n, t) /\ IsNext(S \cup {t}, t, m)
<1>1. IsNext(S \cup {t}, n, t)
  BY Ranges, SMT DEF IsNext, IsPred, After, Before
<1>2. After(S \cup {t}, t) = After(S, n)
  <2>1. \A q \in S : Before(t, q) <=> key[q] >= k
    BY Ranges, SMT DEF Before
  <2>2. \A q \in S : (n = Head \/ Before(n, q)) <=> key[q] >= k
    BY Ranges, SMT DEF IsPred, Before
  <2>3. ~Before(t, t)
    BY Ranges, SMT DEF Before
  <2> QED BY <2>1, <2>2, <2>3 DEF After
<1>3. IsNext(S \cup {t}, t, m)
  BY <1>2 DEF IsNext
<1> QED BY <1>1, <1>3

(* ... leaves the successors of the other nodes alone. *)
LEMMA SpliceElsewhere ==
  ASSUME key \in [Node -> Int], k \in Int, NEW S \in SUBSET (Node \ {Head}),
         NEW n \in Node, IsPred(S, n),
         NEW t \in Node \ {Head}, key[t] = k, \A q \in S : q < t,
         NEW o \in S \cup {Head}, o # n,
         NEW m \in Node \cup {Nil}, IsNext(S, o, m)
  PROVE  IsNext(S \cup {t}, o, m)
  BY Ranges, SMT DEF IsNext, IsPred, After, Before

(* The first node with a key >= k is the successor of the predecessor, which
   takes over its successor. *)
LEMMA UnlinkAtPred ==
  ASSUME key \in [Node -> Int], k \in Int, NEW S \in SUBSET (Node \ {Head}),
         NEW n \in Node, IsPred(S, n),
         NEW t \in S, key[t] = k, Firsts(S, t),
         NEW m \in Node \cup {Nil}, IsNext(S, t, m)
  PROVE  IsNext(S, n, t) /\ IsNext(S \ {t}, n, m)
<1>1. IsNext(S, n, t)
  BY Ranges, SMT DEF IsNext, IsPred, After, Before, Firsts
<1>2. After(S \ {t}, n) = After(S, t)
  <2>1. \A q \in S : Before(t, q) <=> key[q] >= k /\ q # t
    BY Ranges, SMT DEF Firsts, Before
  <2>2. \A q \in S : (n = Head \/ Before(n, q)) <=> key[q] >= k
    BY Ranges, SMT DEF IsPred, Before
  <2> QED BY <2>1, <2>2 DEF After
<1>3. IsNext(S \ {t}, n, m)
  BY <1>2 DEF IsNext
<1> QED BY <1>1, <1>3

(* ... and the other nodes keep theirs. *)
LEMMA UnlinkElsewhere ==
  ASSUME key \in [Node -> Int], k \in Int, NEW S \in SUBSET (Node \ {Head}),
         NEW n \in Node, IsPred(S, n),
         NEW t \in S, key[t] = k, Firsts(S, t),
         NEW o \in (S \ {t}) \cup {Head}, o # n,
         NEW m \in Node \cup {Nil}, IsNext(S, o, m)
  PROVE  IsNext(S \ {t}, o, m)
<1>1. m # t
  BY Ranges, SMT DEF IsNext, IsPred, After, Before, Firsts
<1> QED BY <1>1, Ranges, SMT DEF IsNext, After
-----------------------------------------------------------------------------
(***************************************************************************)
(* The inductive invariant.  LevelsExact alone is not inductive: between   *)
(* calls it needs that no node is higher than the current level and that   *)
(* the pointers of a node not yet made, or not yet linked, are Nil; during *)
(* a call, that the predecessors found so far are exact, and where the     *)
(* node being linked or unlinked stands.                                   *)
(***************************************************************************)
Tall == \A n \in contents : lvl[n] <= currLvl \/ (n = target /\ pc = "raise")

Fresh ==
  /\ \A n \in Node : n >= nodeCount => \A j \in Level : next[n][j] = Nil
  /\ pc = "link" => \A j \in Level : j > currLvl => next[target][j] = Nil
  /\ pc = "raise" => \A j \in Level : j >= i => next[target][j] = Nil

Searching ==
  pc = "find" =>
    /\ node = Head \/ (node \in Linked(i) /\ key[node] < k)
    /\ \A j \in 0..currLvl : j > i => IsPred(Linked(j), preceeds[j])

Located ==
  pc \in {"found", "level"} =>
    \A j \in 0..currLvl : IsPred(Linked(j), preceeds[j])

Inserting ==
  /\ pc = "link" =>
       /\ target = nodeCount - 1 /\ target \notin contents
       /\ key[target] = k
       /\ \A j \in 0..i : IsPred(Linked(j), preceeds[j])
  /\ pc = "raise" => target \in contents

Removing ==
  pc = "unlink" =>
    /\ target \in 1..(nodeCount - 1)
    /\ lvl[target] <= currLvl
    /\ target \in contents <=> i = 0
    /\ key[target] = k
    /\ Firsts(contents, target)
    /\ \A j \in 0..currLvl : j >= i => IsPred(Linked(j), preceeds[j])

Typed == ListOK /\ LocalsOK /\ Control

Exact == Tall /\ Fresh /\ Searching /\ Located /\ Inserting /\ Removing /\ LevelsExact

IInv == Typed /\ Exact

(* The nodes of a level are made nodes of that height. *)
LEMMA LinkedNodes ==
  ASSUME ListOK, NEW j \in Level
  PROVE  /\ Linked(j) \in SUBSET (Node \ {Head})
         /\ \A n \in Linked(j) :
              n \in 1..(nodeCount - 1) /\ j <= lvl[n] /\ j <= MaxLvl
  BY Ranges, SMT DEF Linked

(* While no node is being inserted or removed, a level has the nodes of the
   list that are high enough. *)
LEMMA LinkedPlain ==
  ASSUME ListOK, target = Nil, NEW j \in Level
  PROVE  Linked(j) = {n \in contents : j <= MaxLvl /\ j <= lvl[n]}
<1>1. \A n \in 1..(nodeCount - 1) : Met(n, j) <=> n \in contents
  BY Ranges, SMT DEF Met
<1>2. contents \subseteq 1..(nodeCount - 1)
  BY DEF ListOK
<1> QED BY <1>1, <1>2 DEF Linked

(* The pointer of a node of a level is its successor on that level. *)
LEMMA LevelNext ==
  ASSUME ListOK, LevelsExact, pc # "destroyed",
         NEW j \in Level, NEW n \in Linked(j) \cup {Head}
  PROVE  /\ n \in Node
         /\ GetNext(n, j) \in Node \cup {Nil}
         /\ IsNext(Linked(j), n, GetNext(n, j))
  BY LinkedNodes, GetNextType, Ranges DEF LevelsExact, LevelExact

(* A predecessor is the head or a node of the level. *)
LEMMA PredNode ==
  ASSUME NEW S, NEW n, IsPred(S, n)
  PROVE  n \in S \cup {Head}
  BY DEF IsPred

(* A level whose nodes, keys and pointers stay is as exact as before. *)
LEMMA LevelKept ==
  ASSUME NEW j \in Level, LevelExact(j),
         Linked(j)' = Linked(j),
         \A p \in Linked(j) : key'[p] = key[p],
         \A n \in Linked(j) \cup {Head} : GetNext(n, j)' = GetNext(n, j)
  PROVE  LevelExact(j)'
  BY SMT DEF LevelExact, IsNext, After, Before

(***************************************************************************)
(* A step that neither changes the list nor names a node to link or unlink *)
(* keeps every level; it may only disturb what is known of the search.     *)
(***************************************************************************)
LEMMA Quiet ==
  ASSUME IInv, ListOK', UNCHANGED list, target = Nil, target' = Nil,
         pc # "destroyed", pc' \notin {"link", "raise", "unlink"}
  PROVE  /\ \A j \in Level : Linked(j)' = Linked(j)
         /\ Tall' /\ Fresh' /\ Inserting' /\ Removing' /\ LevelsExact'
<1> USE DEF IInv, Typed, Exact
<1>1. \A j \in Level : Linked(j)' = Linked(j)
  BY Ranges, SMT DEF Linked, Met, list, ListOK
<1>2. LevelsExact'
  <2>1. \A j \in Level : LevelExact(j) BY DEF LevelsExact
  <2>2. key' = key /\ lvl' = lvl /\ next' = next BY DEF list
  <2>3. \A j \in Level : LevelExact(j)'
    BY <1>1, <2>1, <2>2, LevelKept DEF GetNext
  <2> QED BY <2>3 DEF LevelsExact
<1>3. Tall' BY Ranges DEF Tall, list, ListOK
<1>4. Fresh' BY DEF Fresh, list
<1>5. Inserting' /\ Removing' BY DEF Inserting, Removing
<1> QED BY <1>1, <1>2, <1>3, <1>4, <1>5
-----------------------------------------------------------------------------
(* The empty list is exact. *)
LEMMA ExactInit == Init => Exact
<1> SUFFICES ASSUME Init PROVE Exact
  OBVIOUS
<1>1. \A j \in Level : Linked(j) = {}
  BY SMT DEF Init, Linked
<1>2. LevelsExact
  BY <1>1, Ranges, SkiplistAssumption, SMT
  DEF LevelsExact, LevelExact, IsNext, After, GetNext, Init, Node
<1> QED BY <1>2 DEF Exact, Init, Tall, Fresh, Searching, Located, Inserting, Removing

(* findPreceeds starts at the head, with no predecessor known. *)
LEMMA ExactCall ==
  ASSUME IInv, ListOK', NEW o \in Ops, NEW kk \in Key, Call(o, kk)
  PROVE  Exact'
<1> USE DEF IInv, Typed, Exact
<1>1. target = Nil BY DEF Call, Control
<1>2. \A j \in 0..currLvl : ~(j > currLvl)
  BY Ranges, SMT DEF ListOK
<1>3. Searching' /\ Located' BY <1>2 DEF Call, list, Searching, Located
<1> QED BY <1>1, <1>3, Quiet DEF Call

(* Going right stops at a node of the level, still before the key. *)
LEMMA ExactFindRight == IInv /\ ListOK' /\ FindRight => Exact'
<1> SUFFICES ASSUME IInv, ListOK', FindRight PROVE Exact'
  OBVIOUS
<1> USE DEF IInv, Typed, Exact
<1>1. target = Nil /\ i \in Level /\ i \in 0..currLvl
  BY Ranges, SMT DEF FindRight, Control
<1>2. \A j \in Level : Linked(j)' = Linked(j)
  BY <1>1, Quiet DEF FindRight
<1>3. node' \in Linked(i) /\ key[node'] < k
  <2>1. node \in Linked(i) \cup {Head}
    BY DEF FindRight, Searching
  <2>2. IsNext(Linked(i), node, node') /\ node' # Nil
    BY <1>1, <2>1, LevelNext DEF FindRight, GoesRight
  <2>3. node' \in Linked(i)
    BY <2>2 DEF IsNext, After
  <2>4. node' \in Node
    BY <1>1, <2>3, LinkedNodes
  <2> QED BY <2>3, <2>4, SMT DEF FindRight, GoesRight, ListOK, LocalsOK
<1>4. \A j \in 0..currLvl : j > i => IsPred(Linked(j), preceeds[j])
  BY DEF FindRight, Searching
<1>5. Searching'
  BY <1>1, <1>2, <1>3, <1>4, Ranges DEF FindRight, list, Searching, IsPred, Before
<1>6. Located' BY DEF FindRight, Located
<1> QED BY <1>1, <1>5, <1>6, Quiet DEF FindRight

(* Going down records the exact predecessor of the level; the node is also
   on the level below. *)
LEMMA ExactFindDown == IInv /\ ListOK' /\ FindDown => Exact'
<1> SUFFICES ASSUME IInv, ListOK', FindDown PROVE Exact'
  OBVIOUS
<1> USE DEF IInv, Typed, Exact
<1>1. target = Nil /\ i \in Level /\ i \in 0..currLvl
  BY Ranges, SMT DEF FindDown, Control
<1>2. \A j \in Level : Linked(j)' = Linked(j)
  BY <1>1, Quiet DEF FindDown
<1>3. IsPred(Linked(i), node)
  <2>1. node \in Linked(i) \cup {Head} /\ node \in Node
    BY DEF FindDown, Searching, LocalsOK
  <2>2. IsNext(Linked(i), node, GetNext(node, i))
        /\ GetNext(node, i) \in Node \cup {Nil}
    BY <1>1, <2>1, LevelNext DEF FindDown
  <2>3. GetNext(node, i) = Nil \/ key[GetNext(node, i)] >= k
    BY <2>2, SMT DEF FindDown, GoesRight, ListOK, LocalsOK
  <2>4. node = Head \/ (node \in Linked(i) /\ key[node] < k)
    BY DEF FindDown, Searching
  <2>5. Linked(i) \in SUBSET (Node \ {Head})
    BY <1>1, LinkedNodes
  <2> QED BY <2>1, <2>2, <2>3, <2>4, <2>5, WalkFindsPred DEF ListOK, LocalsOK
<1>4. \A j \in 0..currLvl : j >= i => IsPred(Linked(j), preceeds'[j])
  <2>1. \A j \in 0..currLvl : j > i => IsPred(Linked(j), preceeds[j])
    BY DEF FindDown, Searching
  <2>2. \A j \in Level : preceeds'[j] = IF j = i THEN node ELSE preceeds[j]
    BY <1>1, SMT DEF FindDown, LocalsOK
  <2>3. \A j \in 0..currLvl : j \in Level /\ (j >= i => j = i \/ j > i)
    BY <1>1, Ranges, SMT
  <2> QED BY <1>3, <2>1, <2>2, <2>3
<1>5. \A j \in 0..currLvl : j >= i => IsPred(Linked(j), preceeds[j])'
  BY <1>2, <1>4, Ranges DEF FindDown, list, IsPred, Before
<1>6. Searching'
  <2>1. CASE i = 0 BY <2>1 DEF FindDown, Searching
  <2>2. CASE i # 0
    <3>1. i - 1 \in Level /\ \A j \in 0..currLvl : j > i - 1 => j >= i
      <4>1. i \in 1..(MaxLvl + 1) /\ currLvl \in Int
        BY <1>1, <2>2, Ranges, SkiplistAssumption, SMT DEF Level, ListOK
      <4> QED BY <4>1, SkiplistAssumption, SMT DEF Level
    <3>2. node = Head \/ (node \in Linked(i - 1) /\ key[node] < k)
      <4>1. node = Head \/ (node \in Linked(i) /\ key[node] < k)
        BY DEF FindDown, Searching
      <4>2. \A n \in Linked(i) : n \in Linked(i - 1)
        <5>1. \A n \in contents : lvl[n] \in Int
          BY Ranges DEF ListOK
        <5>2. i \in Int /\ MaxLvl \in Int
          BY <1>1, Ranges, SkiplistAssumption
        <5> QED BY <1>1, <3>1, <5>1, <5>2, LinkedPlain, SMT
      <4> QED BY <4>1, <4>2
    <3> QED BY <1>2, <1>5, <3>1, <3>2 DEF FindDown, list, Searching
  <2> QED BY <2>1, <2>2
<1>7. Located'
  <2>1. CASE i = 0
    BY <1>1, <1>5, <2>1, SMT DEF FindDown, list, Located
  <2>2. CASE i # 0 BY <2>2 DEF FindDown, Located
  <2> QED BY <2>1, <2>2
<1>8. pc' \in {"find", "found"} BY DEF FindDown
<1> QED BY <1>1, <1>6, <1>7, <1>8, Quiet DEF FindDown

(* Insert goes on with the predecessors it found. *)
LEMMA ExactInsertAccepted == IInv /\ ListOK' /\ InsertAccepted => Exact'
<1> SUFFICES ASSUME IInv, ListOK', InsertAccepted PROVE Exact'
  OBVIOUS
<1> USE DEF IInv, Typed, Exact
<1>1. target = Nil BY DEF InsertAccepted, Control
<1>2. \A j \in Level : Linked(j)' = Linked(j)
  BY <1>1, Quiet DEF InsertAccepted, frame
<1>3. Located' /\ Searching'
  BY <1>2, Ranges DEF InsertAccepted, list, frame, Located, Searching, IsPred, Before
<1> QED BY <1>1, <1>3, Quiet DEF InsertAccepted, frame

(* Drawing the level of the new node touches nothing else. *)
LEMMA ExactRaiseLevel == IInv /\ ListOK' /\ RaiseLevel => Exact'
<1> SUFFICES ASSUME IInv, ListOK', RaiseLevel PROVE Exact'
  OBVIOUS
<1> USE DEF IInv, Typed, Exact
<1>1. target = Nil BY DEF RaiseLevel, Control
<1>2. \A j \in Level : Linked(j)' = Linked(j)
  BY <1>1, Quiet DEF RaiseLevel, frame
<1>3. Located' /\ Searching'
  BY <1>2, Ranges DEF RaiseLevel, list, frame, Located, Searching, IsPred, Before
<1> QED BY <1>1, <1>3, Quiet DEF RaiseLevel, frame

(* A call that returns without having touched the list. *)
LEMMA ExactReturn ==
  ASSUME IInv, ListOK', UNCHANGED list, target = Nil, pc # "destroyed",
         NEW a, Return(a)
  PROVE  Exact'
<1>1. Searching' /\ Located' BY DEF Return, Searching, Located
<1> QED BY <1>1, Quiet DEF Return, Exact

(* Making the node: it is on no level yet, and has no successors. *)
LEMMA ExactNewNode == IInv /\ Typed' /\ NewNode => Exact'
<1> SUFFICES ASSUME IInv, Typed', NewNode PROVE Exact'
  OBVIOUS
<1> USE DEF IInv, Typed, Exact
<1>1. target = Nil /\ nodeCount \in Node \ {Head} /\ nodeCount \in Int /\ i \in Level
  BY Ranges, SMT DEF NewNode, Control, ListOK, Node
<1>2. \A n \in 1..(nodeCount - 1) :
        n \in Node /\ n # nodeCount /\ key'[n] = key[n] /\ lvl'[n] = lvl[n]
  BY <1>1, Ranges, SMT DEF NewNode, ListOK
<1>3. key'[nodeCount] = k /\ lvl'[nodeCount] = i /\ lvl'[Head] = lvl[Head]
  BY <1>1, Ranges, SMT DEF NewNode, ListOK
<1>4. contents \subseteq 1..(nodeCount - 1) BY DEF ListOK
<1>5. i' \in 0..currLvl /\ \A j \in Level : ~(i' < j /\ j <= currLvl /\ j <= i)
  <2>1. i \in Int /\ i >= 0 /\ currLvl \in Int /\ currLvl >= 0
    BY <1>1, SkiplistAssumption, SMT DEF Level, ListOK
  <2>2. \A j \in Level : j \in Int
    BY Ranges
  <2> QED BY <2>1, <2>2, SMT DEF NewNode, Ph1End
<1>6. \A j \in Level : Linked(j)' = Linked(j)
  <2> SUFFICES ASSUME NEW j \in Level PROVE Linked(j)' = Linked(j)
    OBVIOUS
  <2>1. Linked(j) = {n \in contents : j <= MaxLvl /\ j <= lvl[n]}
    BY <1>1, LinkedPlain
  <2>2. \A n \in 1..(nodeCount' - 1) : n \in 1..(nodeCount - 1) \/ n = nodeCount
    BY <1>1, SMT DEF NewNode
  <2>3. \A n \in 1..(nodeCount - 1) :
          Met(n, j)' <=> n \in contents
    BY <1>2, SMT DEF NewNode, Met
  <2>4. \A n \in Node : n = nodeCount => ~(j <= lvl'[n] /\ Met(n, j)')
    BY <1>1, <1>3, <1>4, <1>5, SMT DEF NewNode, Met, Linking, Unlinking
  <2>5. Linked(j)' = {n \in 1..(nodeCount' - 1) :
                        j <= MaxLvl /\ j <= lvl'[n] /\ Met(n, j)'}
    BY DEF Linked
  <2>6. \A n \in 1..(nodeCount - 1) : n \in 1..(nodeCount' - 1)
    BY <1>1, SMT DEF NewNode
  <2>7. \A n \in Linked(j)' : n \in Linked(j)
    BY <1>1, <1>2, <2>1, <2>2, <2>3, <2>4, <2>5
  <2>8. \A n \in Linked(j) : n \in Linked(j)'
    BY <1>2, <1>4, <2>1, <2>3, <2>5, <2>6
  <2> QED BY <2>7, <2>8
<1>7. \A j \in Level : \A n \in Linked(j) : n \in 1..(nodeCount - 1)
  BY LinkedNodes
<1>8. LevelsExact'
  <2>1. \A j \in Level : LevelExact(j)
    BY DEF LevelsExact, NewNode
  <2>2. \A j \in Level : \A n \in Linked(j) \cup {Head} : GetNext(n, j)' = GetNext(n, j)
    BY <1>2, <1>3, <1>7 DEF NewNode, GetNext
  <2>3. \A j \in Level : LevelExact(j)'
    BY <1>2, <1>6, <1>7, <2>1, <2>2, LevelKept
  <2> QED BY <2>3 DEF LevelsExact
<1>9. Tall'
  BY <1>2, <1>4 DEF NewNode, Tall
<1>10. Fresh'
  <2>1. \A n \in Node : n >= nodeCount' => n >= nodeCount
    BY <1>1, Ranges, SMT DEF NewNode
  <2>2. \A j \in Level : next[nodeCount][j] = Nil
    BY <1>1, SMT DEF Fresh
  <2> QED BY <2>1, <2>2 DEF NewNode, Fresh
<1>11. Inserting'
  <2>1. \A j \in 0..currLvl : IsPred(Linked(j), preceeds[j])
    BY DEF NewNode, Located
  <2>2. \A j \in 0..currLvl : IsPred(Linked(j), preceeds[j])'
    <3> SUFFICES ASSUME NEW j \in 0..currLvl PROVE IsPred(Linked(j), preceeds[j])'
      OBVIOUS
    <3>1. j \in Level BY Ranges
    <3>2. UNCHANGED <<preceeds, k>> BY DEF NewNode
    <3> QED BY <1>2, <1>6, <1>7, <2>1, <3>1, <3>2, PredNode DEF IsPred, Before
  <2>3. target' = nodeCount' - 1 /\ target' \notin contents' /\ key'[target'] = k'
    BY <1>1, <1>3, <1>4, SMT DEF NewNode
  <2>4. \A j \in 0..i' : j \in 0..currLvl
    BY <1>5, Ranges, SMT DEF ListOK
  <2> QED BY <2>2, <2>3, <2>4 DEF NewNode, Inserting
<1>12. Searching' /\ Located' /\ Removing'
  BY DEF NewNode, Searching, Located, Removing
<1> QED BY <1>8, <1>9, <1>10, <1>11, <1>12

(***************************************************************************)
(* Linking the new node at one level puts it between its predecessor and   *)
(* the first node with a key >= its own; the other levels stay.            *)
(***************************************************************************)
LEMMA ExactLinkLevel == IInv /\ Typed' /\ LinkLevel => Exact'
<1> SUFFICES ASSUME IInv, Typed', LinkLevel PROVE Exact'
  OBVIOUS
<1> USE DEF IInv, Typed, Exact
<1> DEFINE S == Linked(i)
           p == preceeds[i]
           m == GetNext(p, i)
<1>1. /\ i \in 0..currLvl /\ i \in Level /\ i \in Int /\ currLvl \in Int
      /\ i <= lvl[target]
      /\ target \in 1..(nodeCount - 1) /\ target \in Node \ {Head}
      /\ target = nodeCount - 1 /\ target \notin contents /\ key[target] = k
  BY Ranges, SMT DEF LinkLevel, Control, Inserting, ListOK
<1>2. IsPred(S, p) /\ \A j \in 0..i : IsPred(Linked(j), preceeds[j])
  BY <1>1, SMT DEF LinkLevel, Inserting
<1>3. p \in S \cup {Head} /\ p \in Node /\ m \in Node \cup {Nil} /\ IsNext(S, p, m)
  BY <1>1, <1>2, PredNode, LevelNext DEF LinkLevel
<1>4. i <= MaxLvl
  BY <1>1, <1>3, LinkedNodes DEF LinkLevel, AssertHolds, Control
<1>5. UNCHANGED <<key, lvl, nodeCount, currLvl, k, preceeds, target>>
  BY DEF LinkLevel, frame
<1>6. \A n \in Node : \A j \in Level :
        next'[n][j] = IF j = i /\ n = p THEN target
                      ELSE IF j = i /\ n = target THEN m
                      ELSE next[n][j]
  <2>1. lvl[target] >= i /\ lvl[p] >= i /\ target \in Node
    BY <1>1, Ranges, SMT DEF LinkLevel, AssertHolds, ListOK
  <2>2. next' = SetNext(SetNext(next, target, i, m), p, i, target)
    BY DEF LinkLevel, Splice
  <2>3. next' = [[next EXCEPT ![target][i] = m] EXCEPT ![p][i] = target]
    BY <1>1, <1>3, <2>1, <2>2, SMT DEF SetNext, ListOK
  <2>4. next \in [Node -> [Level -> Node \cup {Nil}]]
    BY DEF ListOK
  <2> QED BY <1>1, <1>3, <2>1, <2>3, <2>4, SMT
<1>7. \A q \in S : q \in 1..(nodeCount - 1) /\ q # target /\ q < target
  <2>1. target \notin S
    BY <1>1, SMT DEF LinkLevel, Linked, Met, Linking, Unlinking
  <2> QED BY <1>1, <2>1, LinkedNodes, SMT DEF ListOK
<1>8. \A j \in Level : \A n \in Node :
        Met(n, j)' <=> (Met(n, j) \/ (n = target /\ j = i))
  <2> SUFFICES ASSUME NEW j \in Level, NEW n \in Node, j \in Int
               PROVE  Met(n, j)' <=> (Met(n, j) \/ (n = target /\ j = i))
    BY Ranges
  <2>1. CASE n # target
    BY <1>1, <2>1, SMT DEF LinkLevel, frame, Met
  <2>2. CASE n = target /\ i = 0
    <3>1. j >= 0 BY SkiplistAssumption, SMT DEF Level
    <3> QED BY <1>1, <2>2, <3>1, SMT
        DEF LinkLevel, frame, Met, Linking, Raising, Unlinking
  <2>3. CASE n = target /\ i # 0
    BY <1>1, <2>3, SMT DEF LinkLevel, frame, Met, Linking, Raising, Unlinking
  <2> QED BY <2>1, <2>2, <2>3
<1>9. \A j \in Level : Linked(j)' = IF j = i THEN S \cup {target} ELSE Linked(j)
  <2> SUFFICES ASSUME NEW j \in Level
               PROVE  Linked(j)' = IF j = i THEN S \cup {target} ELSE Linked(j)
    OBVIOUS
  <2>1. \A n \in 1..(nodeCount - 1) : n \in Node
    BY Ranges
  <2>2. Linked(j)' = {n \in 1..(nodeCount - 1) :
                        j <= MaxLvl /\ j <= lvl[n] /\ Met(n, j)'}
    BY <1>5 DEF Linked
  <2> QED BY <1>1, <1>4, <1>8, <2>1, <2>2 DEF Linked
<1>10. \A j \in Level : j # i => LevelExact(j)'
  <2> SUFFICES ASSUME NEW j \in Level, j # i PROVE LevelExact(j)'
    OBVIOUS
  <2>1. LevelExact(j) /\ Linked(j)' = Linked(j)
    BY <1>9 DEF LevelsExact, LinkLevel
  <2>2. \A n \in Linked(j) \cup {Head} : GetNext(n, j)' = GetNext(n, j)
    BY <1>5, <1>6, LinkedNodes, Ranges DEF GetNext
  <2> QED BY <1>5, <2>1, <2>2, LevelKept
<1>11. ASSUME NEW l \in Level, l = i PROVE LevelExact(l)'
  <2>1. S \in SUBSET (Node \ {Head})
    BY <1>1, LinkedNodes
  <2>2. IsNext(S \cup {target}, p, target) /\ IsNext(S \cup {target}, target, m)
    BY <1>1, <1>2, <1>3, <1>7, <2>1, SpliceAtPred DEF ListOK, LocalsOK
  <2>3. ASSUME NEW o \in S \cup {Head}, o # p
        PROVE  IsNext(S \cup {target}, o, GetNext(o, i))
    <3>1. o \in Node /\ GetNext(o, i) \in Node \cup {Nil} /\ IsNext(S, o, GetNext(o, i))
      BY <1>1, LevelNext DEF LinkLevel
    <3> QED BY <1>1, <1>2, <1>3, <1>7, <2>1, <2>3, <3>1, SpliceElsewhere
        DEF ListOK, LocalsOK
  <2>4. \A o \in Node : o = p => GetNext(o, l)' = target
    BY <1>3, <1>5, <1>6, <1>11 DEF LinkLevel, AssertHolds, GetNext
  <2>5. \A o \in Node : o = target => GetNext(o, l)' = m
    <3>1. p # target BY <1>1, <1>3, <1>7
    <3> QED BY <1>1, <1>5, <1>6, <1>11, <3>1 DEF GetNext
  <2>6. \A o \in S \cup {Head} : o # p => GetNext(o, l)' = GetNext(o, i)
    <3>1. \A o \in S \cup {Head} : o # target /\ o \in Node
      BY <1>1, <1>7, <2>1, Ranges
    <3> QED BY <1>5, <1>6, <1>11, <3>1 DEF GetNext
  <2>7. \A o \in S \cup {target} \cup {Head} :
          IsNext(S \cup {target}, o, GetNext(o, l)')
    <3> SUFFICES ASSUME NEW o \in S \cup {target} \cup {Head}
                 PROVE  IsNext(S \cup {target}, o, GetNext(o, l)')
      OBVIOUS
    <3>1. CASE o = p
      BY <1>3, <2>2, <2>4, <3>1
    <3>2. CASE o = target
      BY <1>1, <2>2, <2>5, <3>2
    <3>3. CASE o # p /\ o # target
      <4>1. o \in S \cup {Head}
        BY <3>3
      <4> QED BY <2>3, <2>6, <3>3, <4>1
    <3> QED BY <3>1, <3>2, <3>3
  <2>8. Linked(l)' = S \cup {target} BY <1>9, <1>11
  <2> QED BY <1>5, <2>7, <2>8 DEF LevelExact, IsNext, After, Before
<1>12. LevelsExact' BY <1>10, <1>11 DEF LevelsExact
<1>13. Tall'
  BY <1>1, SMT DEF LinkLevel, frame, Tall
<1>14. Fresh'
  <2>1. \A n \in Node : n >= nodeCount => n # p /\ n # target
    BY <1>1, <1>3, <1>7, Ranges, SMT DEF ListOK
  <2>2. \A j \in Level : j > currLvl => next[target][j] = Nil /\ j # i
    <3>1. \A j \in Level : j > currLvl => next[target][j] = Nil
      BY DEF LinkLevel, Fresh
    <3>2. \A j \in Level : j > currLvl => j # i
      BY <1>1, Ranges, SMT
    <3> QED BY <3>1, <3>2
  <2>3. \A j \in Level : j > currLvl => next'[target][j] = Nil
    BY <1>1, <1>6, <2>2
  <2>4. \A j \in Level : j >= currLvl + 1 => j > currLvl
    BY <1>1, Ranges, SMT
  <2>5. \A n \in Node : n >= nodeCount => \A j \in Level : next'[n][j] = Nil
    BY <1>6, <2>1 DEF Fresh
  <2> QED BY <1>5, <2>3, <2>4, <2>5 DEF LinkLevel, Fresh
<1>15. Inserting'
  <2>1. CASE i = 0 BY <1>1, <2>1 DEF LinkLevel, frame, Inserting
  <2>2. CASE i # 0
    <3>1. \A j \in 0..(i - 1) : j \in 0..i /\ j \in Level /\ j # i
      BY <1>1, Ranges, SMT DEF ListOK
    <3>2. \A j \in 0..(i - 1) : IsPred(Linked(j), preceeds[j])'
      BY <1>2, <1>5, <1>9, <3>1 DEF IsPred, Before
    <3> QED BY <1>1, <1>5, <2>2, <3>2 DEF LinkLevel, Inserting
  <2> QED BY <2>1, <2>2
<1>16. Searching' /\ Located' /\ Removing'
  BY DEF LinkLevel, Searching, Located, Removing
<1> QED BY <1>12, <1>13, <1>14, <1>15, <1>16

(* The failed assertion leaves everything where it is. *)
LEMMA ExactAbort == IInv /\ Abort => Exact'
<1> SUFFICES ASSUME IInv, Abort PROVE Exact'
  OBVIOUS
<1> USE DEF IInv, Typed, Exact
<1>1. \A j \in Level : Linked(j)' = Linked(j)
  BY SMT DEF Abort, list, frame, Linked, Met, Linking, Raising, Unlinking
<1>2. LevelsExact'
  <2>1. \A j \in Level : LevelExact(j) BY DEF Abort, LevelsExact
  <2>2. UNCHANGED <<key, lvl, next>> BY DEF Abort, list
  <2>3. \A j \in Level : LevelExact(j)'
    BY <1>1, <2>1, <2>2, LevelKept DEF GetNext
  <2> QED BY <2>3 DEF LevelsExact
<1>3. Tall' BY SMT DEF Abort, list, frame, Tall
<1>4. Fresh' BY SMT DEF Abort, list, frame, Fresh
<1>5. Searching' /\ Located' /\ Inserting' /\ Removing'
  BY DEF Abort, Searching, Located, Inserting, Removing
<1> QED BY <1>2, <1>3, <1>4, <1>5

(* A level above the current one has no node yet: the new node is its first
   and only one, and above the head's levels nothing is linked. *)
LEMMA ExactRaiseHead == IInv /\ RaiseHead => Exact'
<1> SUFFICES ASSUME IInv, RaiseHead PROVE Exact'
  OBVIOUS
<1> USE DEF IInv, Typed, Exact
<1>1. /\ i \in Level /\ i \in Int /\ currLvl \in Int /\ i > currLvl
      /\ i <= lvl[target] /\ target \in contents
      /\ target \in 1..(nodeCount - 1) /\ target \in Node \ {Head}
  <2>1. target \in 1..(nodeCount - 1) /\ target \in Node \ {Head} /\ target \in contents
    BY Ranges, SMT DEF RaiseHead, Control, Inserting, ListOK
  <2>2. lvl[target] \in Level /\ i <= lvl[target] BY <2>1 DEF ListOK, RaiseHead
  <2> QED BY <2>1, <2>2, SkiplistAssumption, SMT DEF RaiseHead, Control, ListOK, Level
<1>2. UNCHANGED <<key, lvl, nodeCount, currLvl, contents, pc, k, preceeds, target>>
      /\ i' = i + 1 /\ pc = "raise"
  BY DEF RaiseHead, frame
<1>3. \A j \in Level : \A n \in Node :
        Met(n, j)' <=> (Met(n, j) \/ (n = target /\ j = i))
  <2> SUFFICES ASSUME NEW j \in Level, NEW n \in Node, j \in Int
               PROVE  Met(n, j)' <=> (Met(n, j) \/ (n = target /\ j = i))
    BY Ranges
  <2> QED BY <1>1, <1>2, SMT DEF Met, Linking, Raising, Unlinking
<1>4. \A j \in Level : Linked(j)' = IF j = i /\ i <= MaxLvl
                                    THEN Linked(j) \cup {target} ELSE Linked(j)
  <2> SUFFICES ASSUME NEW j \in Level
               PROVE  Linked(j)' = IF j = i /\ i <= MaxLvl
                                   THEN Linked(j) \cup {target} ELSE Linked(j)
    OBVIOUS
  <2>1. \A n \in 1..(nodeCount - 1) : n \in Node
    BY Ranges
  <2>2. Linked(j)' = {n \in 1..(nodeCount - 1) :
                        j <= MaxLvl /\ j <= lvl[n] /\ Met(n, j)'}
    BY <1>2 DEF Linked
  <2> QED BY <1>1, <1>3, <2>1, <2>2 DEF Linked
<1>5. \A j \in Level : j >= i => Linked(j) = {}
  <2> SUFFICES ASSUME NEW j \in Level, j >= i, NEW n \in Linked(j) PROVE FALSE
    OBVIOUS
  <2>1. j \in Int /\ n \in 1..(nodeCount - 1) /\ j <= lvl[n] /\ n \in Node
    BY LinkedNodes, Ranges
  <2>2. CASE n = target
    BY <1>1, <1>2, <2>1, <2>2, SMT DEF Linked, Met, Linking, Raising, Unlinking
  <2>3. CASE n # target
    <3>1. n \in contents BY <2>3 DEF Linked, Met
    <3>2. lvl[n] <= currLvl BY <2>3, <3>1 DEF Tall
    <3>3. lvl[n] \in Int BY <2>1, Ranges DEF ListOK
    <3> QED BY <1>1, <2>1, <3>2, <3>3, SMT
  <2> QED BY <2>2, <2>3
<1>6. \A n \in Node : \A j \in Level :
        next'[n][j] = IF j = i /\ n = Head /\ i <= MaxLvl THEN target ELSE next[n][j]
  BY <1>1, Ranges, SMT DEF RaiseHead, SetNext, ListOK, Control
<1>7. \A j \in Level : LevelExact(j)'
  <2> SUFFICES ASSUME NEW j \in Level PROVE LevelExact(j)'
    OBVIOUS
  <2>1. LevelExact(j) BY <1>2 DEF LevelsExact
  <2>2. CASE j = i /\ i <= MaxLvl
    <3>1. Linked(j)' = {target} BY <1>1, <1>4, <1>5, <2>2
    <3>2. GetNext(Head, j)' = target
      BY <1>2, <1>6, <2>2, Ranges DEF GetNext, Control
    <3>3. \A n \in Node : n = target => GetNext(n, j)' = Nil
      BY <1>1, <1>2, <1>6, <2>2 DEF GetNext, Fresh
    <3>4. ~Before(target, target)' /\ key'[target] \in Int
      BY <1>1, <1>2, SMT DEF Before, ListOK
    <3> QED BY <1>1, <1>2, <3>1, <3>2, <3>3, <3>4
        DEF LevelExact, IsNext, After, Before
  <2>3. CASE ~(j = i /\ i <= MaxLvl)
    <3>1. Linked(j)' = Linked(j) BY <1>4, <2>3
    <3>2. \A n \in Linked(j) \cup {Head} : GetNext(n, j)' = GetNext(n, j)
      BY <1>2, <1>6, <2>3, LinkedNodes, Ranges DEF GetNext
    <3> QED BY <1>2, <2>1, <3>1, <3>2, LevelKept
  <2> QED BY <2>2, <2>3
<1>8. LevelsExact' BY <1>7 DEF LevelsExact
<1>9. Tall' BY <1>2 DEF Tall
<1>10. Fresh'
  <2>1. \A n \in Node : n >= nodeCount => n # Head
    BY Ranges, SMT DEF ListOK
  <2>2. \A n \in Node : n >= nodeCount => \A j \in Level : next'[n][j] = Nil
    BY <1>6, <2>1 DEF Fresh
  <2>3. \A j \in Level : j >= i + 1 => j >= i
    BY <1>1, Ranges, SMT
  <2>4. \A j \in Level : j >= i + 1 => next'[target][j] = Nil
    BY <1>1, <1>2, <1>6, <2>3 DEF Fresh
  <2> QED BY <1>2, <2>2, <2>4 DEF Fresh
<1>11. Searching' /\ Located' /\ Inserting' /\ Removing'
  BY <1>2 DEF Searching, Located, Inserting, Removing
<1> QED BY <1>8, <1>9, <1>10, <1>11

(* The new node is an ordinary one when the call returns. *)
LEMMA ExactInsertDone == IInv /\ Typed' /\ InsertDone => Exact'
<1> SUFFICES ASSUME IInv, Typed', InsertDone PROVE Exact'
  OBVIOUS
<1> USE DEF IInv, Typed, Exact
<1>1. UNCHANGED <<key, lvl, next, nodeCount, contents>>
      /\ pc = "raise" /\ pc' = "idle" /\ target' = Nil
  BY DEF InsertDone, Return
<1>2. /\ target \in contents /\ lvl[target] \in Int /\ i \in Int /\ i > lvl[target]
      /\ currLvl \in Int
  <2>1. target \in contents BY DEF InsertDone, Inserting
  <2>2. target \in Node BY <2>1, Ranges DEF ListOK
  <2>3. lvl[target] \in Int /\ currLvl \in Int BY <2>2, Ranges DEF ListOK
  <2> QED BY <2>1, <2>3, SMT DEF InsertDone, LocalsOK
<1>3. \A j \in Level : Linked(j)' = Linked(j)
  <2> SUFFICES ASSUME NEW j \in Level PROVE Linked(j)' = Linked(j)
    OBVIOUS
  <2>1. Linked(j)' = {n \in contents : j <= MaxLvl /\ j <= lvl[n]}
    <3>1. \A n \in 1..(nodeCount - 1) : Met(n, j)' <=> n \in contents
      BY <1>1, Ranges, SMT DEF Met
    <3>2. contents \subseteq 1..(nodeCount - 1) BY DEF ListOK
    <3> QED BY <1>1, <3>1, <3>2 DEF Linked
  <2>2. \A n \in 1..(nodeCount - 1) : j <= lvl[n] => (Met(n, j) <=> n \in contents)
    BY <1>1, <1>2, Ranges, SMT DEF Met, Linking, Raising, Unlinking
  <2> QED BY <2>1, <2>2 DEF Linked, ListOK
<1>4. LevelsExact'
  <2>1. \A j \in Level : LevelExact(j) BY <1>1 DEF LevelsExact
  <2>2. \A j \in Level : LevelExact(j)'
    BY <1>1, <1>3, <2>1, LevelKept DEF GetNext
  <2> QED BY <2>2 DEF LevelsExact
<1>5. Tall'
  <2>1. currLvl' >= currLvl /\ currLvl' >= lvl[target] /\ currLvl' \in Int
    BY <1>2, SMT DEF InsertDone, RaisedLevel
  <2>2. \A n \in contents : lvl[n] \in Int /\ (lvl[n] <= currLvl \/ n = target)
    BY Ranges DEF Tall, ListOK
  <2> QED BY <1>1, <1>2, <2>1, <2>2, SMT DEF Tall
<1>6. Fresh' BY <1>1 DEF Fresh
<1>7. Searching' /\ Located' /\ Inserting' /\ Removing'
  BY <1>1 DEF Searching, Located, Inserting, Removing
<1> QED BY <1>4, <1>5, <1>6, <1>7

(* At level 0 the search found the first node of the list with a key >= k,
   or that there is none. *)
LEMMA FoundExact ==
  ASSUME IInv, pc = "found"
  PROVE  /\ MayEq = Nil => \A q \in contents : key[q] < k
         /\ MayEq # Nil => MayEq \in contents /\ key[MayEq] >= k /\ Firsts(contents, MayEq)
<1> USE DEF IInv, Typed, Exact
<1>1. 0 \in 0..currLvl /\ 0 \in Level
  BY Ranges, SkiplistAssumption, SMT DEF ListOK, Level
<1>2. IsPred(Linked(0), preceeds[0])
  BY <1>1 DEF Located
<1>3. preceeds[0] \in Linked(0) \cup {Head}
  BY <1>2, PredNode
<1>4. /\ preceeds[0] \in Node /\ MayEq \in Node \cup {Nil}
      /\ IsNext(Linked(0), preceeds[0], MayEq)
  BY <1>1, <1>3, LevelNext DEF MayEq
<1>5. Linked(0) = contents
  <2>1. target = Nil BY DEF Control
  <2>2. Linked(0) = {n \in contents : 0 <= MaxLvl /\ 0 <= lvl[n]}
    BY <1>1, <2>1, LinkedPlain
  <2>3. \A n \in contents : 0 <= lvl[n]
    BY Ranges, SMT DEF ListOK, Level
  <2> QED BY <2>2, <2>3, SkiplistAssumption, SMT
<1>6. Linked(0) \in SUBSET (Node \ {Head})
  BY <1>1, LinkedNodes
<1> QED BY <1>2, <1>4, <1>5, <1>6, PredNext DEF ListOK, LocalsOK

(* The node to remove is the first with a key >= k, and has the key. *)
LEMMA ExactRemoveHit == IInv /\ RemoveHit => Exact'
<1> SUFFICES ASSUME IInv, RemoveHit PROVE Exact'
  OBVIOUS
<1> USE DEF IInv, Typed, Exact
<1>1. /\ UNCHANGED <<key, lvl, next, nodeCount, currLvl, contents, k, preceeds>>
      /\ pc = "found" /\ pc' = "unlink" /\ target = Nil /\ target' = MayEq /\ i' = 0
  BY DEF RemoveHit, list, Control
<1>2. MayEq \in contents /\ key[MayEq] = k /\ Firsts(contents, MayEq)
  BY <1>1, FoundExact DEF RemoveHit, Found
<1>3. MayEq \in 1..(nodeCount - 1) /\ contents \subseteq 1..(nodeCount - 1)
  BY <1>2 DEF ListOK
<1>4. \A j \in Level : Linked(j)' = Linked(j)
  <2> SUFFICES ASSUME NEW j \in Level PROVE Linked(j)' = Linked(j)
    OBVIOUS
  <2>1. Linked(j) = {n \in contents : j <= MaxLvl /\ j <= lvl[n]}
    BY <1>1, LinkedPlain
  <2>2. \A n \in 1..(nodeCount - 1) : Met(n, j)' <=> n \in contents
    <3>1. 0 <= j BY SMT DEF Level
    <3> QED BY <1>1, <1>2, <3>1, SMT DEF Met, Linking, Raising, Unlinking
  <2> QED BY <1>1, <1>3, <2>1, <2>2 DEF Linked
<1>5. LevelsExact'
  <2>1. \A j \in Level : LevelExact(j) BY <1>1 DEF LevelsExact
  <2>2. \A j \in Level : LevelExact(j)'
    BY <1>1, <1>4, <2>1, LevelKept DEF GetNext
  <2> QED BY <2>2 DEF LevelsExact
<1>6. Tall' /\ Fresh' BY <1>1 DEF Tall, Fresh
<1>7. Removing'
  <2>1. lvl[MayEq] <= currLvl BY <1>1, <1>2 DEF Tall
  <2>2. \A j \in 0..currLvl : IsPred(Linked(j), preceeds[j])'
    BY <1>1, <1>4, Ranges DEF Located, IsPred, Before
  <2>3. Firsts(contents, target)'
    BY <1>1, <1>2 DEF Firsts, Before
  <2> QED BY <1>1, <1>2, <1>3, <2>1, <2>2, <2>3 DEF Removing
<1>8. Searching' /\ Located' /\ Inserting'
  BY <1>1 DEF Searching, Located, Inserting
<1> QED BY <1>5, <1>6, <1>7, <1>8

(***************************************************************************)
(* Unlinking a level: the pointer of its predecessor does lead to the node *)
(* there, and after the step skips exactly this node.                      *)
(***************************************************************************)
LEMMA ExactUnlinkLevel == IInv /\ UnlinkLevel => Exact'
<1> SUFFICES ASSUME IInv, UnlinkLevel PROVE Exact'
  OBVIOUS
<1> USE DEF IInv, Typed, Exact
<1> DEFINE S == Linked(i)
           p == preceeds[i]
           m == GetNext(target, i)
<1>1. /\ UNCHANGED <<key, lvl, nodeCount, currLvl, k, preceeds, target>>
      /\ pc = "unlink" /\ pc' = "unlink" /\ i' = i + 1
      /\ contents' = contents \ {target}
  BY DEF UnlinkLevel, frame
<1>2. /\ target \in 1..(nodeCount - 1) /\ target \in Node \ {Head}
      /\ lvl[target] <= currLvl /\ key[target] = k /\ Firsts(contents, target)
      /\ target \in contents <=> i = 0
  BY <1>1, Ranges, SMT DEF Removing, ListOK
<1>3. i \in 0..currLvl /\ i \in Level /\ i \in Int /\ i <= lvl[target]
  <2>1. lvl[target] \in Int /\ currLvl \in Int BY <1>2, Ranges DEF ListOK
  <2>2. i \in 0..currLvl /\ i \in Int /\ i <= lvl[target]
    BY <1>1, <1>2, <2>1, SMT DEF UnlinkLevel, MoreToUnlink, Control
  <2> QED BY <2>2, Ranges
<1>4. IsPred(S, p) /\ p \in S \cup {Head} /\ p \in Node
  <2>1. IsPred(S, p) BY <1>1, <1>3, SMT DEF Removing
  <2> QED BY <1>3, <2>1, PredNode, LinkedNodes, Ranges
<1>5. S \in SUBSET (Node \ {Head}) /\ S \subseteq contents \cup {target}
  BY <1>3, LinkedNodes DEF Linked, Met
<1>6. Firsts(S, target)
  BY <1>5, <1>2 DEF Firsts
<1>7. i <= MaxLvl => target \in S
  BY <1>1, <1>2, <1>3 DEF Linked, Met, Unlinking
<1>8. i <= MaxLvl => GetNext(p, i) = target /\ m \in Node \cup {Nil} /\ IsNext(S, target, m)
  <2> SUFFICES ASSUME i <= MaxLvl
               PROVE  GetNext(p, i) = target /\ m \in Node \cup {Nil} /\ IsNext(S, target, m)
    OBVIOUS
  <2>1. m \in Node \cup {Nil} /\ IsNext(S, target, m)
    BY <1>1, <1>3, <1>7, LevelNext
  <2>2. GetNext(p, i) \in Node \cup {Nil} /\ IsNext(S, p, GetNext(p, i))
    BY <1>1, <1>3, <1>4, LevelNext
  <2>3. IsNext(S, p, target)
    BY <1>2, <1>4, <1>5, <1>6, <1>7, <2>1, UnlinkAtPred DEF ListOK, LocalsOK
  <2> QED BY <1>2, <1>4, <1>5, <2>1, <2>2, <2>3, NextUnique DEF ListOK
<1>9. ~(i <= MaxLvl) => S = {} /\ GetNext(p, i) = Nil
  BY <1>3, <1>4, LinkedNodes DEF GetNext, Control
<1>10. \A n \in Node : \A j \in Level :
         next'[n][j] = IF j = i /\ n = p /\ i <= MaxLvl THEN m ELSE next[n][j]
  <2>1. CASE ~(i <= MaxLvl)
    BY <1>2, <1>9, <2>1, Ranges DEF UnlinkLevel
  <2>2. CASE i <= MaxLvl
    <3>1. i <= lvl[p]
      BY <1>3, <1>4, <2>2, LinkedNodes DEF Control
    <3>2. next' = [next EXCEPT ![p][i] = m]
      BY <1>8, <2>2, <3>1 DEF UnlinkLevel, SetNext
    <3> QED BY <1>3, <1>4, <2>2, <3>2, SMT DEF ListOK
  <2> QED BY <2>1, <2>2
<1>11. \A j \in Level : Linked(j)' = IF j = i THEN S \ {target} ELSE Linked(j)
  <2> SUFFICES ASSUME NEW j \in Level
               PROVE  Linked(j)' = IF j = i THEN S \ {target} ELSE Linked(j)
    OBVIOUS
  <2>1. \A n \in Node : Met(n, j)' <=> (Met(n, j) /\ ~(n = target /\ j = i))
    <3>1. j \in Int /\ j >= 0 BY Ranges, SMT DEF Level
    <3> QED BY <1>1, <1>2, <1>3, <3>1, SMT DEF Met, Linking, Raising, Unlinking
  <2>2. \A n \in 1..(nodeCount - 1) : n \in Node BY Ranges
  <2>3. Linked(j)' = {n \in 1..(nodeCount - 1) :
                        j <= MaxLvl /\ j <= lvl[n] /\ Met(n, j)'}
    BY <1>1 DEF Linked
  <2> QED BY <2>1, <2>2, <2>3 DEF Linked
<1>12. ASSUME NEW j \in Level PROVE LevelExact(j)'
  <2>1. LevelExact(j) BY <1>1 DEF LevelsExact
  <2>2. CASE j = i /\ i <= MaxLvl
    <3>1. IsNext(S \ {target}, p, m)
      BY <1>2, <1>4, <1>5, <1>6, <1>7, <1>8, <2>2, UnlinkAtPred DEF ListOK, LocalsOK
    <3>2. ASSUME NEW o \in (S \ {target}) \cup {Head}, o # p
          PROVE  IsNext(S \ {target}, o, GetNext(o, i))
      <4>1. GetNext(o, i) \in Node \cup {Nil} /\ IsNext(S, o, GetNext(o, i))
        BY <1>1, <1>3, LevelNext
      <4> QED BY <1>2, <1>4, <1>5, <1>6, <1>7, <2>2, <3>2, <4>1, UnlinkElsewhere
          DEF ListOK, LocalsOK
    <3>3. \A o \in Node : o = p => GetNext(o, j)' = m
      <4>1. i <= lvl[p] BY <1>3, <1>4, <2>2, LinkedNodes DEF Control
      <4> QED BY <1>1, <1>3, <1>10, <2>2, <4>1 DEF GetNext
    <3>4. \A o \in (S \ {target}) \cup {Head} :
            o \in Node /\ (o # p => GetNext(o, j)' = GetNext(o, i))
      BY <1>1, <1>3, <1>5, <1>10, <2>2, Ranges DEF GetNext
    <3>5. \A o \in (S \ {target}) \cup {Head} :
            IsNext(S \ {target}, o, GetNext(o, j)')
      BY <3>1, <3>2, <3>3, <3>4
    <3>6. Linked(j)' = S \ {target} BY <1>11, <2>2
    <3> QED BY <1>1, <3>5, <3>6 DEF LevelExact, IsNext, After, Before
  <2>3. CASE ~(j = i /\ i <= MaxLvl)
    <3>1. Linked(j)' = Linked(j) BY <1>9, <1>11, <2>3
    <3>2. \A n \in Linked(j) \cup {Head} : GetNext(n, j)' = GetNext(n, j)
      BY <1>1, <1>10, <2>3, LinkedNodes, Ranges DEF GetNext
    <3> QED BY <1>1, <2>1, <3>1, <3>2, LevelKept
  <2> QED BY <2>2, <2>3
<1>13. LevelsExact' BY <1>12 DEF LevelsExact
<1>14. Tall' BY <1>1 DEF Tall
<1>15. Fresh'
  <2>1. p \in 0..(nodeCount - 1) /\ nodeCount \in Int
    BY <1>3, <1>4, LinkedNodes, Ranges, SMT DEF ListOK
  <2>2. \A n \in Node : n >= nodeCount => n # p
    BY <2>1, Ranges, SMT
  <2> QED BY <1>1, <1>10, <2>2 DEF Fresh
<1>16. Removing'
  <2>1. Firsts(contents, target)'
    BY <1>1, <1>2 DEF Firsts, Before
  <2>2. \A j \in 0..currLvl : j >= i + 1 => j >= i /\ j # i /\ j \in Level
    BY <1>3, Ranges, SMT DEF ListOK
  <2>3. \A j \in 0..currLvl : j >= i + 1 => IsPred(Linked(j), preceeds[j])'
    BY <1>1, <1>11, <2>2 DEF Removing, IsPred, Before
  <2>4. i + 1 # 0 BY <1>3, SMT
  <2> QED BY <1>1, <1>2, <2>1, <2>3, <2>4 DEF Removing
<1>17. Searching' /\ Located' /\ Inserting'
  BY <1>1 DEF Searching, Located, Inserting
<1> QED BY <1>13, <1>14, <1>15, <1>16, <1>17

(* The removed node is on no level, so its key may change. *)
LEMMA ExactRemoveDone == IInv /\ Typed' /\ RemoveDone => Exact'
<1> SUFFICES ASSUME IInv, Typed', RemoveDone PROVE Exact'
  OBVIOUS
<1> USE DEF IInv, Typed, Exact
<1>1. /\ UNCHANGED <<lvl, next, nodeCount, currLvl, contents>>
      /\ pc = "unlink" /\ pc' = "idle" /\ target' = Nil
  BY DEF RemoveDone, Return
<1>2. target \in Node /\ lvl[target] \in Int /\ lvl[target] >= 0 /\ i \in Int
      /\ i > lvl[target] /\ target \notin contents
  <2>1. target \in Node BY <1>1, Ranges DEF Removing
  <2>2. lvl[target] \in Int /\ lvl[target] >= 0
    BY <2>1, Ranges, SMT DEF ListOK, Level
  <2>3. i \in Int /\ i > lvl[target]
    BY <2>2, SMT DEF RemoveDone, MoreToUnlink, LocalsOK
  <2> QED BY <1>1, <2>1, <2>2, <2>3, SMT DEF Removing
<1>3. \A n \in Node : n # target => key'[n] = key[n]
  BY SMT DEF RemoveDone, ListOK
<1>4. \A j \in Level : Linked(j)' = Linked(j) /\ target \notin Linked(j)
  <2> SUFFICES ASSUME NEW j \in Level
               PROVE  Linked(j)' = Linked(j) /\ target \notin Linked(j)
    OBVIOUS
  <2>1. \A n \in 1..(nodeCount - 1) : j <= lvl[n] => (Met(n, j) <=> n \in contents)
    BY <1>1, <1>2, Ranges, SMT DEF Met, Linking, Raising, Unlinking
  <2>2. \A n \in 1..(nodeCount - 1) : Met(n, j)' <=> n \in contents
    BY <1>1, Ranges, SMT DEF Met
  <2> QED BY <1>1, <1>2, <2>1, <2>2 DEF Linked
<1>5. LevelsExact'
  <2>1. \A j \in Level : LevelExact(j) BY <1>1 DEF LevelsExact
  <2>2. \A j \in Level : LevelExact(j)'
    BY <1>1, <1>3, <1>4, <2>1, LevelKept, LinkedNodes DEF GetNext
  <2> QED BY <2>2 DEF LevelsExact
<1>6. Tall' /\ Fresh' BY <1>1 DEF Tall, Fresh
<1>7. Searching' /\ Located' /\ Inserting' /\ Removing'
  BY <1>1 DEF Searching, Located, Inserting, Removing
<1> QED BY <1>5, <1>6, <1>7

-----------------------------------------------------------------------------
(* Every step of every operation keeps the invariant. *)
LEMMA ExactStep == IInv /\ [Next]_vars => IInv'
<1> SUFFICES ASSUME IInv, [Next]_vars PROVE IInv'
  OBVIOUS
<1>1. Typed' BY TypeStep DEF IInv, Typed
<1>2. ListOK' BY <1>1 DEF Typed
<1>3. Exact'
  <2>1. ASSUME NEW o \in Ops, NEW kk \in Key, Call(o, kk) PROVE Exact'
    BY <1>2, <2>1, ExactCall
  <2>2. CASE FindRight BY <1>2, <2>2, ExactFindRight
  <2>3. CASE FindDown BY <1>2, <2>3, ExactFindDown
  <2>4. CASE InsertRefused
    BY <1>2, <2>4, ExactReturn DEF InsertRefused, IInv, Typed, Control
  <2>5. CASE InsertAccepted BY <1>2, <2>5, ExactInsertAccepted
  <2>6. CASE RaiseLevel BY <1>2, <2>6, ExactRaiseLevel
  <2>7. CASE NewNode BY <1>1, <2>7, ExactNewNode
  <2>8. CASE LinkLevel BY <1>1, <2>8, ExactLinkLevel
  <2>9. CASE Abort BY <2>9, ExactAbort
  <2>10. CASE RaiseHead BY <2>10, ExactRaiseHead
  <2>11. CASE InsertDone BY <1>1, <2>11, ExactInsertDone
  <2>12. CASE Missed
    BY <1>2, <2>12, ExactReturn DEF Missed, IInv, Typed, Control
  <2>13. CASE SearchHit
    BY <1>2, <2>13, ExactReturn DEF SearchHit, IInv, Typed, Control
  <2>14. CASE RemoveHit BY <2>14, ExactRemoveHit
  <2>15. CASE UnlinkLevel BY <2>15, ExactUnlinkLevel
  <2>16. CASE RemoveDone BY <1>1, <2>16, ExactRemoveDone
  <2>17. CASE Destroy
    BY <2>17, Ranges DEF Destroy, frame, IInv, Exact, Tall, Fresh, Searching, Located,
                 Inserting, Removing, LevelsExact
  <2>18. CASE UNCHANGED vars
    BY <2>18 DEF vars, list, frame, IInv, Exact, Tall, Fresh, Searching, Located,
       Inserting, Removing, Firsts, LevelsExact, LevelExact, IsNext, IsPred, After,
       Before, GetNext, Linked, Met, Linking, Raising, Unlinking
  <2> QED
    BY <2>1, <2>2, <2>3, <2>4, <2>5, <2>6, <2>7, <2>8, <2>9, <2>10, <2>11, <2>12,
       <2>13, <2>14, <2>15, <2>16, <2>17, <2>18 DEF Next, Step
<1> QED BY <1>1, <1>3 DEF IInv

(* The invariant holds in every reachable state. *)
LEMMA Invariance == Spec => []IInv
<1>1. Init => IInv
  BY TypeInit, ExactInit DEF IInv, Typed
<1> QED BY <1>1, ExactStep, PTL DEF Spec

(***************************************************************************)
(* Every level is exactly the ordered list of its nodes, at every step of  *)
(* every Insert and Remove: the pointers of skiplist.hpp lose no node,     *)
(* skip none and keep none.                                                *)
(***************************************************************************)
THEOREM LevelsAlwaysExact == Spec => []LevelsExact
<1>1. IInv => LevelsExact
  BY DEF IInv, Exact
<1> QED BY <1>1, Invariance, PTL

(***************************************************************************)
(* findPreceeds answers the exact predecessor of the key at every level,   *)
(* whatever was inserted and removed before.                               *)
(***************************************************************************)
THEOREM PredecessorsAlwaysExact == Spec => []PredecessorsExact
<1>1. IInv => PredecessorsExact
  BY DEF IInv, Exact, Located, PredecessorsExact
<1> QED BY <1>1, Invariance, PTL

(***************************************************************************)
(* The loops of Insert and Remove stay within the curr_lvl_ + 1 elements   *)
(* of their vector of predecessors.                                        *)
(***************************************************************************)
THEOREM PreceedsAlwaysInBounds == Spec => []PreceedsInBounds
<1>1. IInv => PreceedsInBounds
  BY DEF IInv, Exact, Typed, Control, Removing, PreceedsInBounds
<1> QED BY <1>1, Invariance, PTL

(* Which operation reached which part of the code, and that an accepted
   insertion of the single-key policy found no entry of its key. *)
Serving ==
  /\ pc \in {"link", "aborted"} => op = "insert"
  /\ pc = "unlink" => op = "remove"
  /\ pc \in {"level", "link"} => Multi \/ \A q \in contents : key[q] # k

Refining == IInv /\ Serving

(* The entry of a node. *)
Entry(n) == <<n, key[n]>>
Entries == {Entry(n) : n \in contents}

(* A search hits the youngest entry of its key. *)
LEMMA FoundYoungest ==
  ASSUME IInv, pc = "found", Found
  PROVE  MayEq \in contents /\ \A q \in contents : key[q] = k => q <= MayEq
<1>1. MayEq \in contents /\ key[MayEq] = k /\ Firsts(contents, MayEq)
  BY FoundExact DEF Found
<1>2. \A q \in contents : q \in Int /\ key[q] \in Int
  BY Ranges DEF IInv, Typed, ListOK
<1> QED BY <1>1, <1>2, SMT DEF Firsts, Before, IInv, Typed, LocalsOK

(* A search that finds nothing misses no entry of its key. *)
LEMMA NotFoundNone ==
  ASSUME IInv, pc = "found", ~Found
  PROVE  \A q \in contents : key[q] # k
<1>1. CASE MayEq = Nil
  <2>1. \A q \in contents : key[q] < k BY <1>1, FoundExact
  <2>2. k \in Int BY DEF IInv, Typed, LocalsOK
  <2> QED BY <2>1, <2>2, SMT
<1>2. CASE MayEq # Nil
  <2>1. MayEq \in contents /\ key[MayEq] >= k /\ key[MayEq] # k /\ Firsts(contents, MayEq)
    BY <1>2, FoundExact DEF Found
  <2>2. k \in Int /\ \A q \in contents : key[q] \in Int
    BY Ranges DEF IInv, Typed, ListOK, LocalsOK
  <2> QED BY <2>1, <2>2, SMT DEF Firsts, Before
<1> QED BY <1>1, <1>2

(* No operation starts in the middle of another's code. *)
LEMMA ServingInit == Init => Serving
  BY DEF Init, Serving

(* Every step keeps Serving: the keys of the list only change when it does. *)
LEMMA ServingStep == Refining /\ [Next]_vars => Serving'
<1> SUFFICES ASSUME Refining, [Next]_vars PROVE Serving'
  OBVIOUS
<1> USE DEF Refining
<1>1. ASSUME NEW o \in Ops, NEW kk \in Key, Call(o, kk) PROVE Serving'
  BY <1>1 DEF Call, Serving
<1>2. CASE FindRight BY <1>2 DEF FindRight, Serving
<1>3. CASE FindDown BY <1>3 DEF FindDown, Serving
<1>4. CASE InsertRefused BY <1>4 DEF InsertRefused, Return, Serving
<1>5. CASE InsertAccepted
  <2>1. Multi \/ \A q \in contents : key[q] # k
    BY <1>5, NotFoundNone DEF InsertAccepted
  <2> QED BY <1>5, <2>1 DEF InsertAccepted, list, frame, Serving
<1>6. CASE RaiseLevel BY <1>6 DEF RaiseLevel, list, frame, Serving
<1>7. CASE NewNode
  <2>1. op = "insert" /\ (Multi \/ \A q \in contents : key[q] # k)
    BY <1>7 DEF NewNode, Serving, IInv, Typed, Control
  <2>2. \A q \in contents : key'[q] = key[q]
    BY <1>7, Ranges, SMT DEF NewNode, IInv, Typed, ListOK
  <2> QED BY <1>7, <2>1, <2>2 DEF NewNode, Serving, IInv, Typed, Control
<1>8. CASE LinkLevel
  BY <1>8 DEF LinkLevel, frame, Serving
<1>9. CASE Abort BY <1>9 DEF Abort, list, frame, Serving
<1>10. CASE RaiseHead BY <1>10 DEF RaiseHead, frame, Serving
<1>11. CASE InsertDone BY <1>11 DEF InsertDone, Return, Serving
<1>12. CASE Missed BY <1>12 DEF Missed, Return, Serving
<1>13. CASE SearchHit BY <1>13 DEF SearchHit, Return, Serving
<1>14. CASE RemoveHit BY <1>14 DEF RemoveHit, Serving
<1>15. CASE UnlinkLevel BY <1>15 DEF UnlinkLevel, frame, Serving
<1>16. CASE RemoveDone BY <1>16 DEF RemoveDone, Return, Serving
<1>17. CASE Destroy BY <1>17 DEF Destroy, frame, Serving
<1>18. CASE UNCHANGED vars BY <1>18 DEF vars, list, frame, Serving
<1> QED
  BY <1>1, <1>2, <1>3, <1>4, <1>5, <1>6, <1>7, <1>8, <1>9, <1>10, <1>11, <1>12,
     <1>13, <1>14, <1>15, <1>16, <1>17, <1>18 DEF Next, Step

-----------------------------------------------------------------------------
(* What the callers of the abstract collection see of a state. *)
Call_ == IF pc \in {"idle", "destroyed"} THEN pc
         ELSE IF Applied THEN "applied" ELSE op
Answer_ == IF Applied THEN target ELSE answer

(* A step that keeps the entries and what the caller sees is a stutter. *)
LEMMA Stutter ==
  ASSUME contents' = contents, \A n \in contents : key'[n] = key[n],
         Call_' = Call_, k' = k, Answer_' = Answer_
  PROVE  UNCHANGED Abstract!specVars
  BY DEF Abstract!specVars, Call_, Answer_

(* The empty list is the empty collection. *)
LEMMA RefineInit == Init => Abstract!Init
  BY DEF Init, Abstract!Init, Applied

(***************************************************************************)
(* Every step of the list is a step of the collection or a stutter.        *)
(***************************************************************************)
LEMMA RefineStep == Refining /\ Refining' /\ [Next]_vars => [Abstract!Next]_(Abstract!specVars)
<1> SUFFICES ASSUME Refining, Refining', [Next]_vars
             PROVE  Abstract!Next \/ UNCHANGED Abstract!specVars
  OBVIOUS
<1> USE DEF Refining
<1>0. contents \subseteq Node /\ \A n \in contents : n \in 1..(nodeCount - 1)
  BY Ranges DEF IInv, Typed, ListOK
<1>1. ASSUME NEW o \in Ops, NEW kk \in Key, Call(o, kk)
      PROVE  Abstract!Next
  <2>1. Abstract!Begin(o, kk)
    BY <1>1 DEF Call, list, Ops, Applied, Abstract!Begin
  <2> QED BY <2>1 DEF Abstract!Next, Ops, Abstract!Ops
<1>2. CASE FindRight
  BY <1>2, Stutter DEF FindRight, list, Call_, Answer_, Applied
<1>3. CASE FindDown
  BY <1>3, Stutter DEF FindDown, list, Call_, Answer_, Applied
<1>4. CASE InsertRefused
  <2>1. MayEq \in contents /\ key[MayEq] = k
    BY <1>4, FoundYoungest DEF InsertRefused, Found
  <2>2. Abstract!Having(k) # {}
    <3>1. Entry(MayEq) \in Entries /\ Entry(MayEq)[2] = k
      BY <2>1 DEF Entry, Entries
    <3> QED BY <3>1 DEF Entry, Entries, Abstract!Having
  <2>3. Abstract!Miss
    BY <1>4, <2>2 DEF InsertRefused, Return, list, Applied, Abstract!Miss
  <2> QED BY <2>3 DEF Abstract!Next
<1>5. CASE InsertAccepted
  BY <1>5, Stutter DEF InsertAccepted, list, frame, Call_, Answer_, Applied
<1>6. CASE RaiseLevel
  BY <1>6, Stutter DEF RaiseLevel, list, frame, Call_, Answer_, Applied
<1>7. CASE NewNode
  <2>1. \A n \in contents : key'[n] = key[n]
    BY <1>0, <1>7, Ranges, SMT DEF NewNode, IInv, Typed, ListOK
  <2> QED BY <1>7, <2>1, Stutter DEF NewNode, Call_, Answer_, Applied
<1>8. CASE LinkLevel
  <2>1. CASE i # 0
    BY <1>8, <2>1, Stutter DEF LinkLevel, frame, Call_, Answer_, Applied
  <2>2. CASE i = 0
    <3>1. /\ target = nodeCount - 1 /\ target \notin contents /\ key[target] = k
          /\ target \in Node /\ nodeCount \in Int
      BY <1>8, Ranges, SMT DEF LinkLevel, IInv, Typed, Exact, Inserting, Control, ListOK
    <3>2. \A n \in contents : n < target
      BY <1>0, <3>1, SMT
    <3>3. op = "insert" /\ (Multi \/ \A q \in contents : key[q] # k)
      BY <1>8 DEF LinkLevel, Serving
    <3>4. pc = "link" /\ pc' = "raise" /\ contents' = contents \cup {target}
          /\ UNCHANGED <<key, k, op, target, answer>>
      BY <1>8, <2>2 DEF LinkLevel, frame
    <3>5. Multi \/ Abstract!Having(k) = {}
      BY <3>3 DEF Abstract!Having
    <3>6. \A e \in Entries : e[1] < target
      BY <3>2 DEF Entries, Entry
    <3>7. Entries' = Entries \cup {<<target, k>>}
      <4>1. Entry(target) = <<target, k>> BY <3>1 DEF Entry
      <4> QED BY <3>4, <4>1 DEF Entries, Entry
    <3>8. ~Applied /\ Applied' /\ pc # "destroyed" /\ pc # "idle" /\ pc' # "idle"
      BY <3>4 DEF Applied
    <3>9. PICK id \in Node : id = target BY <3>1
    <3>10. Abstract!Add(id)
      BY <3>3, <3>4, <3>5, <3>6, <3>7, <3>8, <3>9 DEF Entries, Entry, Abstract!Add
    <3> QED BY <3>10 DEF Abstract!Next
  <2> QED BY <2>1, <2>2
<1>9. CASE Abort
  BY <1>9, Stutter DEF Abort, list, frame, Call_, Answer_, Applied
<1>10. CASE RaiseHead
  BY <1>10, Stutter DEF RaiseHead, frame, Call_, Answer_, Applied
<1>11. CASE InsertDone
  <2>1. Abstract!Finish
    BY <1>11 DEF InsertDone, Return, Applied, Abstract!Finish
  <2> QED BY <2>1 DEF Abstract!Next
<1>12. CASE Missed
  <2>1. Abstract!Having(k) = {}
    BY <1>12, NotFoundNone DEF Missed, Abstract!Having
  <2>2. Abstract!Miss
    BY <1>12, <2>1 DEF Missed, Return, list, Applied, Abstract!Miss
  <2> QED BY <2>2 DEF Abstract!Next
<1>13. CASE SearchHit
  <2>1. MayEq \in contents /\ key[MayEq] = k /\ \A q \in contents : key[q] = k => q <= MayEq
    BY <1>13, FoundYoungest DEF SearchHit, Found
  <2>2. Entry(MayEq) \in Entries /\ Entry(MayEq)[1] = MayEq /\ Entry(MayEq)[2] = k
    BY <2>1 DEF Entry, Entries
  <2>3. Abstract!Hit(Entry(MayEq))
    BY <1>13, <2>1, <2>2
    DEF SearchHit, Return, list, Applied, Entry, Abstract!Hit, Abstract!Having, Abstract!Youngest
  <2> QED BY <2>2, <2>3 DEF Abstract!Next, Entries, Entry
<1>14. CASE RemoveHit
  BY <1>14, SMT, Stutter DEF RemoveHit, list, Call_, Answer_, Applied
<1>15. CASE UnlinkLevel
  <2>1. i \in Nat BY <1>15 DEF UnlinkLevel, IInv, Typed, Control
  <2>2. i # 0 => target \notin contents
    BY <1>15 DEF UnlinkLevel, IInv, Exact, Removing
  <2>3. CASE i # 0
    <3>1. Applied /\ Applied'
      BY <1>15, <2>1, <2>3, SMT DEF UnlinkLevel, Applied
    <3>2. contents' = contents BY <1>15, <2>2, <2>3 DEF UnlinkLevel
    <3> QED BY <1>15, <3>1, <3>2, Stutter DEF UnlinkLevel, frame, Call_, Answer_
  <2>4. CASE i = 0
    <3>1. /\ target \in contents /\ key[target] = k /\ Firsts(contents, target)
          /\ k \in Int /\ \A q \in contents : key[q] \in Int /\ q \in Int
      BY <1>0, <1>15, <2>4, Ranges
      DEF UnlinkLevel, IInv, Exact, Removing, Typed, ListOK, LocalsOK
    <3>2. \A q \in contents : key[q] = k => q <= target
      BY <3>1, SMT DEF Firsts, Before
    <3>3. ~Applied /\ Applied'
      BY <1>15, <2>4, SMT DEF UnlinkLevel, Applied
    <3>4. /\ pc = "unlink" /\ pc' = "unlink" /\ op = "remove"
          /\ contents' = contents \ {target} /\ UNCHANGED <<key, k, target, answer>>
      BY <1>15 DEF UnlinkLevel, frame, Serving
    <3>5. Entries' = Entries \ {Entry(target)}
      BY <3>1, <3>4 DEF Entries, Entry
    <3>6. /\ Entry(target) \in Entries
          /\ Entry(target)[1] = target /\ Entry(target)[2] = k
      BY <3>1 DEF Entries, Entry
    <3>7. \A d \in Entries : d[2] = k => d[1] <= target
      BY <3>2 DEF Entries, Entry
    <3>8. Entry(target) \in Abstract!Having(k) /\ Abstract!Youngest(Entry(target))
      BY <3>6, <3>7 DEF Entries, Entry, Abstract!Having, Abstract!Youngest
    <3>9. PICK e \in Entries : e = Entry(target) BY <3>6
    <3>10. Abstract!Take(e)
      BY <3>3, <3>4, <3>5, <3>6, <3>8, <3>9 DEF Entries, Entry, Abstract!Take
    <3> QED BY <3>10 DEF Abstract!Next, Entries, Entry
  <2> QED BY <2>3, <2>4
<1>16. CASE RemoveDone
  <2>1. i > 0 /\ target \notin contents
    <3>1. lvl[target] >= 0 /\ lvl[target] \in Int
      <4>1. target \in Node BY <1>16 DEF RemoveDone, IInv, Typed, Control
      <4>2. lvl[target] \in Level BY <4>1 DEF IInv, Typed, ListOK
      <4> QED BY <4>2, SkiplistAssumption, SMT DEF Level
    <3>2. i \in Int BY DEF IInv, Typed, LocalsOK
    <3>3. i > 0 BY <1>16, <3>1, <3>2, SMT DEF RemoveDone, MoreToUnlink
    <3> QED BY <1>16, <3>2, <3>3, SMT DEF RemoveDone, IInv, Exact, Removing
  <2>2. \A n \in contents : key'[n] = key[n]
    BY <1>0, <1>16, <2>1, SMT DEF RemoveDone, IInv, Typed, ListOK
  <2>3. Entries' = Entries
    BY <1>16, <2>2 DEF RemoveDone, Entries, Entry
  <2>4. Abstract!Finish
    BY <1>16, <2>1, <2>3 DEF RemoveDone, Return, Applied, Entries, Entry, Abstract!Finish
  <2> QED BY <2>4 DEF Abstract!Next
<1>17. CASE Destroy
  <2>1. Abstract!Destroy
    BY <1>17 DEF Destroy, frame, Applied, Abstract!Destroy
  <2> QED BY <2>1 DEF Abstract!Next
<1>18. CASE UNCHANGED vars
  BY <1>18, Stutter DEF vars, list, frame, Call_, Answer_, Applied
<1> QED
  BY <1>1, <1>2, <1>3, <1>4, <1>5, <1>6, <1>7, <1>8, <1>9, <1>10, <1>11, <1>12,
     <1>13, <1>14, <1>15, <1>16, <1>17, <1>18 DEF Next, Step

(***************************************************************************)
(* The skip list is an ordered collection: Insert adds the key or refuses  *)
(* it under the single-key policy, Search and Remove hit the youngest      *)
(* entry of their key and miss only when there is none.                    *)
(***************************************************************************)
THEOREM Refinement == Spec => ImplementsSpec
<1>1. Spec => []Refining
  <2>1. Spec => []IInv BY Invariance
  <2>2. Init => Serving BY ServingInit
  <2>3. IInv /\ Serving /\ [Next]_vars => Serving'
    BY ServingStep DEF Refining
  <2> QED BY <2>1, <2>2, <2>3, PTL DEF Spec, Refining
<1> QED BY <1>1, RefineInit, RefineStep, PTL DEF Spec, ImplementsSpec, Abstract!Spec

=============================================================================
