------------------------------ MODULE NodeList ------------------------------
(***************************************************************************)
(* The linked lists of src/tests-edu/DelReverseN.cc: nodes in memory, and  *)
(* the loops that relink them, one turn at a time.  A deleted node is only *)
(* unlinked, and the nodes of a list that is given up stay where they are. *)
(***************************************************************************)
EXTENDS SequencesExt, Integers

CONSTANTS
  MaxLength,  (* bound of the model: the longest list constructed          *)
  Positions   (* the n of doDelN, out of range ones included               *)

Null == 0

VARIABLES
  nodes,  (* the nodes of the list: val and next, by address               *)
  head,   (* the list the caller has                                       *)
  run,    (* the function that runs: its name and its local variables      *)
  fate    (* "idle", "busy" or "crashed"                                   *)

listVars == <<nodes, head, run, fate>>

NoRun == [f |-> "none"]
Init == nodes = <<>> /\ head = Null /\ run = NoRun /\ fate = "idle"

Return(h) == head' = h /\ run' = NoRun /\ fate' = "idle"
Crash == fate' = "crashed" /\ UNCHANGED <<nodes, head, run>>

node(v, n) == [val |-> v, next |-> n]

(* A list of the values 1..n; the old one is leaked. *)
ConstructList(n) ==
  /\ fate = "idle"
  /\ nodes' = [i \in 1..n |-> node(i, IF i < n THEN i + 1 ELSE Null)]
  /\ Return(IF n = 0 THEN Null ELSE 1)

doReverse ==
  /\ fate = "idle" /\ fate' = "busy"
  /\ run' = [f |-> "reverse", curr |-> head, tmp |-> Null, ret |-> Null,
             next |-> IF head = Null THEN Null ELSE nodes[head].next]
  /\ UNCHANGED <<nodes, head>>

(* The node after curr is pointed at curr. *)
Relink == nodes' = [nodes EXCEPT ![run.next].next = run.curr]

(* tmp, read before that. *)
After_relinked == run.curr
After == nodes[run.next].next

ReverseTurn ==
  /\ fate = "busy" /\ run.f = "reverse" /\ run.curr # Null
  /\ IF run.next # Null
     THEN Relink /\ run' = [run EXCEPT !.curr = run.next, !.next = After, !.tmp = After]
     ELSE run' = [run EXCEPT !.curr = Null, !.next = run.tmp, !.ret = run.curr] /\ UNCHANGED nodes
  /\ UNCHANGED <<head, fate>>

ReverseEnds ==
  /\ fate = "busy" /\ run.f = "reverse" /\ run.curr = Null
  /\ IF head = Null THEN Crash
     ELSE nodes' = [nodes EXCEPT ![head].next = Null] /\ Return(run.ret)

doDelN(n) ==
  /\ fate = "idle" /\ fate' = "busy"
  /\ run' = [f |-> "delete", n |-> n, curr |-> head, prev |-> Null, idx |-> 1]
  /\ UNCHANGED <<nodes, head>>

(* The loop passes the end without noticing. *)
DelTurn_late == run.idx - 1 # run.n
DelTurn == run.idx # run.n

DelNext ==
  /\ fate = "busy" /\ run.f = "delete" /\ DelTurn
  /\ IF run.curr = Null THEN Crash
     ELSE /\ run' = [run EXCEPT !.prev = run.curr, !.curr = nodes[run.curr].next, !.idx = @ + 1]
          /\ UNCHANGED <<nodes, head, fate>>

DelEnds ==
  /\ fate = "busy" /\ run.f = "delete" /\ ~DelTurn
  /\ IF run.curr = Null THEN Crash
     ELSE IF run.prev = Null THEN Return(nodes[run.curr].next) /\ UNCHANGED nodes
     ELSE nodes' = [nodes EXCEPT ![run.prev].next = nodes[run.curr].next] /\ Return(head)

Turn == ReverseTurn \/ ReverseEnds \/ DelNext \/ DelEnds
Next ==
  \/ Turn \/ doReverse
  \/ \E n \in 0..MaxLength : ConstructList(n)
  \/ \E n \in Positions : doDelN(n)
-----------------------------------------------------------------------------
(* The nodes met from address a to address z, or to the end, and their values,
   which are what printer meets. *)
Paths == UNION {[1..k -> DOMAIN nodes] : k \in 0..Len(nodes)}
Leads(s, a, z) ==
  /\ a = Null <=> s = <<>>
  /\ s # <<>> => s[1] = a
  /\ \A i \in DOMAIN s : IF i < Len(s) THEN s[i] # z /\ nodes[s[i]].next = s[i + 1]
                         ELSE s[i] = z \/ nodes[s[i]].next = Null
Values(s) == [i \in DOMAIN s |-> nodes[s[i]].val]
Walk(a, z) == Values(CHOOSE s \in Paths : Leads(s, a, z))
printer(l) == Walk(l, Null)

(* Every pointer the caller or a loop has, and every one in a node, leads to a
   node or nowhere. *)
TypeOK ==
  LET Pointer == 0..Len(nodes)
  IN  /\ head \in Pointer /\ \A i \in DOMAIN nodes : nodes[i].next \in Pointer
      /\ run.f # "none" => run.curr \in Pointer
      /\ fate \in {"idle", "busy", "crashed"}

(* The list the caller means.  While it is reversed it is in two halves: the
   part up to curr is linked backwards, down to the old head, whose own pointer
   is still the old one, and the rest is untouched. *)
Meant ==
  IF fate = "busy" /\ run.f = "reverse"
  THEN Reverse(Walk(IF run.curr = Null THEN run.ret ELSE run.curr, head)) \o printer(run.next)
  ELSE printer(head)

(* The loops implement the sequence operations: nothing is lost, doubled or out
   of order, and only an empty list or a missing position crashes (lines 25-90). *)
Sequence == INSTANCE NodeListSpec WITH list <- Meant, crashed <- fate = "crashed",
  call <- CASE run.f = "none" -> <<>> [] run.f = "reverse" -> <<"reverse">>
            [] run.f = "delete" -> <<"delete", run.n>>
ImplementsList == Sequence!Spec

(* The loops end (lines 54-64, 76-88). *)
LoopsEnd == fate = "busy" ~> fate # "busy"
=============================================================================
