----------------------------- MODULE ByteQueue ------------------------------
(***************************************************************************)
(* What a Buffer promises (the comment of include/buffer.h, lines 41-51):  *)
(* what is put is written at the end, what is peeked is read from the      *)
(* front, and a peek fails when less is left than it asks for.  Integers   *)
(* travel with their most significant byte first.                          *)
(***************************************************************************)
EXTENDS SequencesExt

CONSTANTS
  Datum,   (* the byte sequences users put                                 *)
  Integer  (* the integers, as their bytes in a little-endian memory       *)

VARIABLES
  queue,   (* the bytes put and not yet peeked                             *)
  answer   (* of the last peek: whether it succeeded, and what it read     *)

queueVars == <<queue, answer>>

Init ==
  /\ queue = <<>>
  /\ answer = [ok |-> FALSE, val |-> <<>>]

Put(d) == queue' = queue \o d /\ UNCHANGED answer

Peek(n) ==
  /\ Len(queue) >= n
  /\ answer' = [ok |-> TRUE, val |-> SubSeq(queue, 1, n)]
  /\ queue' = SubSeq(queue, n + 1, Len(queue))

PeekInteger ==
  \E u \in Integer :
    /\ Len(queue) >= Len(u)
    /\ SubSeq(queue, 1, Len(u)) = Reverse(u)
    /\ answer' = [ok |-> TRUE, val |-> u]
    /\ queue' = SubSeq(queue, Len(u) + 1, Len(queue))

PeekFails(n) ==
  /\ Len(queue) < n
  /\ answer' = [ok |-> FALSE, val |-> <<>>]
  /\ UNCHANGED queue

Next ==
  \/ \E d \in Datum : Put(d)
  \/ \E u \in Integer : Put(Reverse(u))
  \/ \E d \in Datum : Peek(Len(d)) \/ PeekFails(Len(d))
  \/ PeekInteger
  \/ \E u \in Integer : PeekFails(Len(u))

Spec == Init /\ [][Next]_queueVars
=============================================================================
