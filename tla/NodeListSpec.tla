---------------------------- MODULE NodeListSpec ----------------------------
(***************************************************************************)
(* What DelReverseN.cc promises of its lists, as sequences of values:      *)
(* construct, reverse, and delete the n-th.  Reversing nothing, or         *)
(* deleting where there is no n-th, follows a null pointer.                *)
(***************************************************************************)
EXTENDS SequencesExt, Integers

CONSTANTS MaxLength, Positions  (* n of doDelN *)

VARIABLES
  list,
  call,    (* what runs: <<>>, <<"reverse">> or <<"delete", n>>            *)
  crashed
listSpecVars == <<list, call, crashed>>

Init == list = <<>> /\ call = <<>> /\ ~crashed

ConstructList(n) == call = <<>> /\ list' = [i \in 1..n |-> i] /\ UNCHANGED call
Call == call = <<>> /\ call' \in {<<"reverse">>} \cup ({"delete"} \X Positions) /\ UNCHANGED list
doReverse == call = <<"reverse">> /\ list # <<>> /\ list' = Reverse(list) /\ call' = <<>>
doDelN(n) == call = <<"delete", n>> /\ n \in DOMAIN list /\ list' = RemoveAt(list, n) /\ call' = <<>>

Crash ==
  /\ call # <<>> /\ \A n \in DOMAIN list : call # <<"delete", n>>
  /\ call = <<"reverse">> => list = <<>>
  /\ crashed' /\ UNCHANGED <<list, call>>

Next ==
  /\ ~crashed
  /\ \/ /\ Call \/ doReverse \/ \E n \in 0..MaxLength : ConstructList(n) \/ doDelN(n)
        /\ UNCHANGED crashed
     \/ Crash
Spec == Init /\ [][Next]_listSpecVars
=============================================================================
