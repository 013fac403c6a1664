------------------------------ MODULE Skiplist ------------------------------
(***************************************************************************)
(* cp1craft::utils::Skiplist<Key> (include/skiplist.hpp), one action per   *)
(* iteration of the loops of findPreceeds, Insert and Remove.  The class   *)
(* is used by one thread, so one call is in progress at a time; its local  *)
(* variables are variables of this module and are reset when it returns.   *)
(*                                                                         *)
(* A node is named by its id_ (node_count_ when it was made); the head has *)
(* id 0.  Nodes are deleted by the destructor only, so a removed node      *)
(* keeps its name, its key and its pointers.                               *)
(***************************************************************************)
EXTENDS Integers, FiniteSets

CONSTANTS
  Key,      (* the keys callers use                                        *)
  Multi,    (* Policy::kKeyAllowedMulti                                    *)
  MaxLvl,   (* kMaxLvl_: the head has the levels 0..MaxLvl                 *)
  MaxNodes  (* bound of the model: how many nodes are ever inserted        *)

ASSUME SkiplistAssumption ==
  /\ Key \subseteq Int
  /\ Multi \in BOOLEAN
  /\ MaxLvl \in Nat
  /\ MaxNodes \in Nat

Nil == -1                  \* nullptr
Head == 0                  \* head_
Node == 0..MaxNodes
Level == 0..(MaxLvl + 1)   \* what GetLevel can return

VARIABLES
  key,        (* k_ of every node                                          *)
  lvl,        (* lvl_ of every node: it has the levels 0..lvl[n]           *)
  next,       (* next_ of every node, Nil where there is no successor      *)
  nodeCount,  (* node_count_                                               *)
  currLvl,    (* curr_lvl_                                                 *)
  contents,   (* history: the nodes whose insertion took effect and whose
                 removal did not                                           *)
  pc,         (* where the call in progress is                             *)
  op,         (* which operation it is                                     *)
  k,          (* its argument                                              *)
  preceeds,   (* its local vector of predecessors, one per level           *)
  node,       (* the cursor of findPreceeds                                *)
  i,          (* the level (or level counter) its current loop is at       *)
  target,     (* nnode of Insert, may_eq of Remove                         *)
  answer      (* Nil if the last call returned false, else the node it hit *)

list == <<key, lvl, next, nodeCount, currLvl, contents>>
frame == <<op, k, preceeds, node, target>>
vars == <<list, pc, frame, i, answer>>

Ops == {"insert", "remove", "search"}

(***************************************************************************)
(* Node::GetNext and Node::SetNext check the level against the size of     *)
(* next_: out of range the former answers nullptr, the latter does         *)
(* nothing.                                                                *)
(***************************************************************************)
GetNext(n, l) == IF l <= lvl[n] THEN next[n][l] ELSE Nil

SetNext(nx, n, l, m) == IF l <= lvl[n] THEN [nx EXCEPT ![n][l] = m] ELSE nx

(* The constructor: only the head, with levels 0..kMaxLvl_ and Key{}. *)
Init ==
  /\ key = [n \in Node |-> 0]
  /\ lvl = [n \in Node |-> IF n = Head THEN MaxLvl ELSE 0]
  /\ next = [n \in Node |-> [l \in Level |-> Nil]]
  /\ nodeCount = 1
  /\ currLvl = 0
  /\ contents = {}
  /\ pc = "idle"
  /\ op = "none"
  /\ k = 0
  /\ preceeds = [l \in Level |-> Head]
  /\ node = Head
  /\ i = 0
  /\ target = Nil
  /\ answer = Nil

(***************************************************************************)
(* A caller invokes an operation, which starts with findPreceeds(k, r):    *)
(* r.resize(curr_lvl_ + 1, head_), and the search starts at head_.         *)
(* MaxNodes bounds the insertions.                                         *)
(***************************************************************************)
Call(o, kk) ==
  /\ pc = "idle"
  /\ o = "insert" => nodeCount <= MaxNodes
  /\ pc' = "find"
  /\ op' = o
  /\ k' = kk
  /\ preceeds' = [l \in Level |-> Head]
  /\ node' = Head
  /\ i' = currLvl
  /\ UNCHANGED <<list, target, answer>>

(* The call returns; its locals are gone. *)
Return(a) ==
  /\ pc' = "idle"
  /\ answer' = a
  /\ op' = "none"
  /\ preceeds' = [l \in Level |-> Head]
  /\ node' = Head
  /\ i' = 0
  /\ target' = Nil
  /\ UNCHANGED k

-----------------------------------------------------------------------------
(* findPreceeds: one iteration goes right or down. *)

GoesRight_equal == GetNext(node, i) # Nil /\ k >= key[GetNext(node, i)]
GoesRight == GetNext(node, i) # Nil /\ k > key[GetNext(node, i)]

FindRight ==
  /\ pc = "find"
  /\ GoesRight
  /\ node' = GetNext(node, i)
  /\ UNCHANGED <<list, pc, op, k, preceeds, i, target, answer>>

FindDown ==
  /\ pc = "find"
  /\ ~GoesRight
  /\ preceeds' = [preceeds EXCEPT ![i] = node]
  /\ i' = i - 1
  /\ pc' = IF i = 0 THEN "found" ELSE "find"
  /\ UNCHANGED <<list, op, k, node, target, answer>>

(* may_eq, and whether it has the key of the call. *)
MayEq_top == GetNext(preceeds[currLvl], currLvl)
MayEq == GetNext(preceeds[0], 0)
Found == MayEq # Nil /\ key[MayEq] = k

-----------------------------------------------------------------------------
(* Insert *)

InsertRefused ==
  /\ pc = "found" /\ op = "insert"
  /\ Found /\ ~Multi
  /\ Return(Nil)
  /\ UNCHANGED list

InsertAccepted ==
  /\ pc = "found" /\ op = "insert"
  /\ ~(Found /\ ~Multi)
  /\ pc' = "level"
  /\ i' = 0
  /\ UNCHANGED <<list, frame, answer>>

(* GetLevel: heads, and l <= kMaxLvl_, raise the level by one. *)
MayRaise_late == i <= MaxLvl + 1
MayRaise == i <= MaxLvl

RaiseLevel ==
  /\ pc = "level"
  /\ MayRaise
  /\ i' = i + 1
  /\ UNCHANGED <<list, pc, frame, answer>>

(* newNode(k, nlvl); the first linking loop starts at ph1_ed. *)
Ph1End == IF i <= currLvl THEN i ELSE currLvl

NewNode ==
  /\ pc = "level"
  /\ key' = [key EXCEPT ![nodeCount] = k]
  /\ lvl' = [lvl EXCEPT ![nodeCount] = i]
  /\ nodeCount' = nodeCount + 1
  /\ target' = nodeCount
  /\ i' = Ph1End
  /\ pc' = "link"
  /\ UNCHANGED <<next, currLvl, contents, op, k, preceeds, node, answer>>

(* assert(preceeds[i]->GetLevel() >= i) of the first loop. *)
AssertHolds == lvl[preceeds[i]] >= i

(* nnode is put between preceeds[i] and its successor, nnode's own pointer
   first. *)
Splice_swapped ==
  LET linked == SetNext(next, preceeds[i], i, target)
  IN  SetNext(linked, target, i, linked[preceeds[i]][i])
Splice ==
  LET linked == SetNext(next, target, i, GetNext(preceeds[i], i))
  IN  SetNext(linked, preceeds[i], i, target)

LinkLevel ==
  /\ pc = "link"
  /\ AssertHolds
  /\ next' = Splice
  /\ contents' = IF i = 0 THEN contents \cup {target} ELSE contents
  /\ i' = IF i = 0 THEN currLvl + 1 ELSE i - 1
  /\ pc' = IF i = 0 THEN "raise" ELSE "link"
  /\ UNCHANGED <<key, lvl, nodeCount, currLvl, frame, answer>>

Abort ==
  /\ pc = "link"
  /\ ~AssertHolds
  /\ pc' = "aborted"
  /\ UNCHANGED <<list, frame, i, answer>>

(* The second loop: the levels above curr_lvl_ hang off the head. *)
RaiseHead ==
  /\ pc = "raise"
  /\ i <= lvl[target]
  /\ next' = SetNext(next, Head, i, target)
  /\ i' = i + 1
  /\ UNCHANGED <<key, lvl, nodeCount, currLvl, contents, pc, frame, answer>>

RaisedLevel_stale == currLvl
RaisedLevel == IF lvl[target] > currLvl THEN lvl[target] ELSE currLvl

InsertDone ==
  /\ pc = "raise"
  /\ i > lvl[target]
  /\ currLvl' = RaisedLevel
  /\ Return(target)
  /\ UNCHANGED <<key, lvl, next, nodeCount, contents>>

-----------------------------------------------------------------------------
(* Remove and Search *)

Missed ==
  /\ pc = "found" /\ op \in {"remove", "search"}
  /\ ~Found
  /\ Return(Nil)
  /\ UNCHANGED list

(* The hook gets a copy of the key and the caller's own variable. *)
SearchHit ==
  /\ pc = "found" /\ op = "search"
  /\ Found
  /\ Return(MayEq)
  /\ UNCHANGED list

RemoveHit ==
  /\ pc = "found" /\ op = "remove"
  /\ Found
  /\ target' = MayEq
  /\ i' = 0
  /\ pc' = "unlink"
  /\ UNCHANGED <<list, op, k, preceeds, node, answer>>

MoreToUnlink_short == i < lvl[target]
MoreToUnlink == i <= lvl[target]

UnlinkLevel ==
  /\ pc = "unlink"
  /\ MoreToUnlink
  /\ next' = IF GetNext(preceeds[i], i) = target
             THEN SetNext(next, preceeds[i], i, GetNext(target, i))
             ELSE next
  /\ contents' = contents \ {target}
  /\ i' = i + 1
  /\ UNCHANGED <<key, lvl, nodeCount, currLvl, pc, frame, answer>>

(* The hook gets a reference to the key of the unlinked node, and may
   leave any key there. *)
RemoveDone ==
  /\ pc = "unlink"
  /\ ~MoreToUnlink
  /\ \E kk \in Key : key' = [key EXCEPT ![target] = kk]
  /\ Return(target)
  /\ UNCHANGED <<lvl, next, nodeCount, currLvl, contents>>

(* ~Skiplist deletes every node it ever made. *)
Destroy ==
  /\ pc = "idle"
  /\ pc' = "destroyed"
  /\ contents' = {}
  /\ UNCHANGED <<key, lvl, next, nodeCount, currLvl, frame, i, answer>>

-----------------------------------------------------------------------------
(* The steps of a call in progress, and what its caller may do. *)
Step ==
  \/ FindRight \/ FindDown
  \/ InsertRefused \/ InsertAccepted \/ RaiseLevel \/ NewNode
  \/ LinkLevel \/ Abort \/ RaiseHead \/ InsertDone
  \/ Missed \/ SearchHit
  \/ RemoveHit \/ UnlinkLevel \/ RemoveDone

Next ==
  \/ \E o \in Ops, kk \in Key : Call(o, kk)
  \/ Step
  \/ Destroy

(* The thread that made the call keeps running it. *)
Spec == Init /\ [][Next]_vars /\ WF_vars(Step)

-----------------------------------------------------------------------------
(* Properties *)

PCs == {"idle", "find", "found", "level", "link", "raise", "unlink",
        "aborted", "destroyed"}

(* Every variable has its type; in particular GetLevel never exceeds
   kMaxLvl_ + 1 and no level index leaves the vectors it is used on. *)
TypeOK ==
  /\ key \in [Node -> Int]
  /\ lvl \in [Node -> Level]
  /\ next \in [Node -> [Level -> Node \cup {Nil}]]
  /\ nodeCount \in 1..(MaxNodes + 1)
  /\ currLvl \in Level
  /\ contents \subseteq 1..(nodeCount - 1)
  /\ pc \in PCs
  /\ op \in Ops \cup {"none"}
  /\ k \in Int
  /\ preceeds \in [Level -> Node]
  /\ node \in Node
  /\ i \in -1..(MaxLvl + 2)
  /\ target \in Node \cup {Nil}
  /\ answer \in Node \cup {Nil}

(* The order of the list: by key, and among equal keys the younger first. *)
Before(a, b) == key[a] < key[b] \/ (key[a] = key[b] /\ b < a)

(***************************************************************************)
(* The nodes a walk along level j meets.  Between calls these are the      *)
(* nodes of the list that have level j.  The node being inserted is met at *)
(* the levels linked so far, the node being removed at those not yet       *)
(* unlinked.                                                               *)
(***************************************************************************)
Linking(j) == pc \in {"link", "aborted"} /\ i < j /\ j <= currLvl
Raising(j) == pc = "raise" /\ i <= j /\ currLvl < j
Unlinking(j) == pc = "unlink" /\ i <= j

Met(n, j) ==
  IF n = target
  THEN \/ n \in contents /\ ~Raising(j)
       \/ Linking(j)
       \/ Unlinking(j)
  ELSE n \in contents

Linked(j) == {n \in 1..(nodeCount - 1) : j <= MaxLvl /\ j <= lvl[n] /\ Met(n, j)}

(* In a list of the nodes S: what follows n, and whether the successor of n
   is m. *)
After(S, n) == {p \in S : n = Head \/ Before(n, p)}

IsNext(S, n, m) ==
  IF m = Nil
  THEN After(S, n) = {}
  ELSE m \in After(S, n) /\ \A p \in After(S, n) : p = m \/ Before(m, p)

(***************************************************************************)
(* Every level is exactly the ordered list of the nodes that have it, at   *)
(* every step of every call (the next_ pointers of include/skiplist.hpp,   *)
(* lines 145-158 and 169-173): no node is lost, skipped or kept.           *)
(***************************************************************************)
LevelExact(j) ==
  \A n \in Linked(j) \cup {Head} : IsNext(Linked(j), n, GetNext(n, j))

LevelsExact == pc # "destroyed" => \A j \in Level : LevelExact(j)

(* n is the last node of S before every node with a key >= k. *)
IsPred(S, n) ==
  IF n = Head
  THEN \A p \in S : key[p] >= k
  ELSE /\ n \in S /\ key[n] < k
       /\ \A p \in S : key[p] < k => p = n \/ Before(p, n)

(* findPreceeds answers, at each level, the last node with a smaller key. *)
PredecessorsExact ==
  pc = "found" => \A j \in 0..currLvl : IsPred(Linked(j), preceeds[j])

(***************************************************************************)
(* preceeds has curr_lvl_ + 1 elements and is indexed without a check:     *)
(* Insert and Remove never index past its end (lines 145-151, 168-173).    *)
(***************************************************************************)
PreceedsInBounds ==
  /\ pc = "link" => i \in 0..currLvl
  /\ pc = "unlink" => lvl[target] <= currLvl

(* A call that found its key, or not, always comes back (or aborts). *)
EveryCallReturns == pc \notin {"idle", "destroyed"} ~> pc \in {"idle", "aborted"}

(* The assertion of line 147 never fails. *)
NeverAborts == pc # "aborted"

-----------------------------------------------------------------------------
(***************************************************************************)
(* A Skiplist is the ordered collection of SkiplistSpec.  An Insert takes  *)
(* effect when level 0 is linked, a Remove when level 0 is unlinked.       *)
(***************************************************************************)
Applied == pc = "raise" \/ (pc = "unlink" /\ i > 0)

Abstract == INSTANCE SkiplistSpec WITH
  Id <- Node,
  items <- {<<n, key[n]>> : n \in contents},
  call <- IF pc \in {"idle", "destroyed"} THEN pc
          ELSE IF Applied THEN "applied" ELSE op,
  arg <- k,
  answer <- IF Applied THEN target ELSE answer

ImplementsSpec == Abstract!Spec
=============================================================================
