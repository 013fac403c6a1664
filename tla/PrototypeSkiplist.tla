------------------------- MODULE PrototypeSkiplist --------------------------
(***************************************************************************)
(* lc1206::Skiplist of src/tests-edu/leetcode.cc, the prototype of the     *)
(* skip list.  internal_search runs one turn of its loop at a time; what   *)
(* add and erase do after it is one step.  Nodes live until the list does. *)
(***************************************************************************)
EXTENDS SequencesExt, FiniteSetsExt, Integers

CONSTANTS
  Key,
  Levels,    (* what get_level answers, one call after the other: every    *)
             (* list has an engine of its own, seeded alike                *)
  MaxNodes   (* bound of the model: how many keys are added                *)

Null == -1
head_ == 0

VARIABLES
  next,    (* next_ of the head and of every node, a sequence: level i is  *)
           (* at i + 1                                                     *)
  key,     (* k_ of every node                                             *)
  call,    (* the call that runs, <<>> if none: its name and its key       *)
  pcurr, plvl,
  pp,      (* preceeds                                                     *)
  found,   (* retitem                                                      *)
  state    (* "idle", "search", "found" (the search is over) or "crashed"  *)

protoVars == <<next, key, call, pcurr, plvl, pp, found, state>>
search == <<pcurr, plvl, pp, found>>

curr_lvl == Len(next[head_])
Nodes == 1..Len(key)

Init ==
  /\ next = [a \in {head_} |-> <<>>] /\ key = <<>>
  /\ call = <<>> /\ pcurr = head_ /\ plvl = -1 /\ pp = <<>> /\ found = Null /\ state = "idle"

Begin(f, k) ==
  /\ state = "idle" /\ (f = "add" => Len(key) < MaxNodes)
  /\ call' = <<f, k>> /\ state' = "search"
  /\ pp' = [i \in 1..curr_lvl |-> head_]
  /\ pcurr' = head_ /\ plvl' = curr_lvl - 1 /\ found' = Null
  /\ UNCHANGED <<next, key>>

Target == call[2]

(* The node behind pcurr at a level, and the levels the inner loop stops at. *)
Ahead(l) == next[pcurr][l + 1]
Stops(l) == Ahead(l) = Null \/ key[Ahead(l)] <= Target

(* internal_search: one turn of the outer loop. *)
Turn ==
  /\ state = "search" /\ plvl >= 0 /\ pcurr # Null
  /\ IF pcurr # head_ /\ key[pcurr] = Target
     THEN /\ pp' = [i \in DOMAIN pp |-> IF i - 1 <= plvl THEN pcurr ELSE pp[i]]
          /\ found' = pcurr /\ state' = "found"
          /\ UNCHANGED <<pcurr, plvl>>
     ELSE LET down == Max({l \in 0..plvl : Stops(l)} \cup {-1})
          IN  /\ plvl' = down
              /\ pcurr' = IF down = -1 THEN pcurr ELSE Ahead(down)
              /\ pp' = IF down = -1 THEN [pp EXCEPT ![1] = pcurr]
                       ELSE [pp EXCEPT ![down + 1] = Ahead(down)]
              /\ UNCHANGED <<found, state>>
  /\ UNCHANGED <<next, key, call>>

NotFound ==
  /\ state = "search" /\ (plvl < 0 \/ pcurr = Null) /\ state' = "found"
  /\ UNCHANGED <<next, key, call, search>>

Return == state' = "idle" /\ call' = <<>>
Crash == state' = "crashed" /\ UNCHANGED <<next, key, call>>

get_level == Levels[Len(key) + 1]

(* add: the new node a, linked at the levels of preceeds first. *)
Behind_itself(a, lvl) == [i \in 1..lvl |-> IF i <= Len(pp) THEN a ELSE Null]
Behind(a, lvl) == [i \in 1..lvl |-> IF i <= Len(pp) THEN next[pp[i]][i] ELSE Null]

(* set_next grows the vector of the head. *)
Set(p, lvl, a) ==
  [i \in 1..(IF p = head_ THEN Max({curr_lvl, lvl}) ELSE Len(next[p])) |->
     IF i <= lvl /\ (IF i <= Len(pp) THEN pp[i] = p ELSE p = head_) THEN a ELSE next[p][i]]

add(lvl) ==
  LET a == Len(key) + 1
  IN  /\ state = "found" /\ call[1] = "add"
      /\ IF \E i \in DOMAIN pp : i <= lvl /\ pp[i] = Null THEN Crash
         ELSE /\ key' = Append(key, Target)
              /\ next' = [p \in Nodes \cup {head_, a} |->
                            IF p = a THEN Behind(a, lvl) ELSE Set(p, lvl, a)]
              /\ Return
      /\ UNCHANGED search

erase ==
  /\ state = "found" /\ call[1] = "erase"
  /\ next' = IF found = Null THEN next
             ELSE [p \in DOMAIN next |-> [i \in DOMAIN next[p] |->
                     IF i <= Len(next[found]) /\ pp[i] = p THEN next[found][i] ELSE next[p][i]]]
  /\ Return
  /\ UNCHANGED <<key, search>>

Searched == state = "found" /\ call[1] = "search" /\ Return /\ UNCHANGED <<next, key, search>>

Step == Turn \/ NotFound \/ erase \/ Searched \/ add(get_level)
Next == Step \/ \E f \in {"search", "add", "erase"}, k \in Key : Begin(f, k)
-----------------------------------------------------------------------------
(* Every pointer leads to a node or nowhere, and a node is linked only at the
   levels it has. *)
TypeOK ==
  /\ DOMAIN next = Nodes \cup {head_}
  /\ \A p \in DOMAIN next : \A i \in DOMAIN next[p] :
       next[p][i] = Null \/ (next[p][i] \in Nodes /\ i <= Len(next[next[p][i]]))
  /\ pcurr \in DOMAIN next \cup {Null} /\ found \in Nodes \cup {Null}
  /\ state \in {"idle", "search", "found", "crashed"}

(* Whatever predecessors internal_search found, no node is lost: the lowest level
   is one chain with every node that was added, once each, erased ones too, for
   erase replaces its pointer there by itself (lines 352-427). *)
Chain(s) ==
  \A i \in 0..Len(s) :
    next[IF i = 0 THEN head_ ELSE s[i]][1] = IF i = Len(s) THEN Null ELSE s[i + 1]
NothingLost ==
  IF curr_lvl = 0 THEN Nodes = {} ELSE \E s \in [Nodes -> Nodes] : IsInjective(s) /\ Chain(s)

(* Within the insertions it is made for (line 336), a call does not follow a null
   predecessor (lines 404-408). *)
NeverCrashes == state # "crashed"
=============================================================================
