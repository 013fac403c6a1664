---------------------------- MODULE RecentCache -----------------------------
(***************************************************************************)
(* What an LRU cache promises: it remembers the Capacity keys used last,   *)
(* each with the value put last.  A get and a put use their key.           *)
(***************************************************************************)
EXTENDS SequencesExt, Integers

CONSTANTS Key, Value, Capacity

VARIABLES
  items,  (* the keys with their values, the one used last first           *)
  answer  (* of the last get                                               *)

cacheVars == <<items, answer>>

Init == items = <<>> /\ answer = -1

(* A key is remembered once. *)
At(k) == CHOOSE j \in DOMAIN items : items[j].key = k
Others(k) == IF \E j \in DOMAIN items : items[j].key = k THEN RemoveAt(items, At(k)) ELSE items

Hit(it) ==
  /\ it \in ToSet(items)
  /\ items' = <<it>> \o Others(it.key)
  /\ answer' = it.val

Miss(k) ==
  /\ \A it \in ToSet(items) : it.key # k
  /\ answer' = -1
  /\ UNCHANGED items

Put(k, v) ==
  /\ LET used == <<[key |-> k, val |-> v]>> \o Others(k)
     IN  items' = IF Len(used) > Capacity THEN Front(used) ELSE used
  /\ UNCHANGED answer

Next ==
  \/ \E k \in Key, v \in Value : Hit([key |-> k, val |-> v]) \/ Put(k, v)
  \/ \E k \in Key : Miss(k)

Spec == Init /\ [][Next]_cacheVars
=============================================================================
