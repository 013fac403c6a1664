------------------------------ MODULE LRUCache ------------------------------
(***************************************************************************)
(* lc146::LRUCache of src/tests-edu/leetcode.cc: a hash table whose        *)
(* entries keep an iterator into a list of the keys, the one used last     *)
(* first.  A list node is named by its address, which a later node may     *)
(* have again; an iterator is the address of its node.                     *)
(***************************************************************************)
EXTENDS SequencesExt, Functions, Integers

CONSTANTS
  Key, Value,
  Capacity  (* capa_: size() is compared with it unsigned                  *)

(* The capacity is positive: one of 0 evicts the key just put and keeps its
   iterator; no user of the class has one.  Values are numbers from 0 on. *)
Address == 1..(Capacity + 1)

VARIABLES
  hash,    (* hash_: val_ and pos_ of every key it has                     *)
  lrulist, (* lrulist_                                                     *)
  answer   (* of the last get                                              *)

vars == <<hash, lrulist, answer>>

Init ==
  /\ hash = [k \in {} |-> 0]
  /\ lrulist = <<>>
  /\ answer = -1

Used == {lrulist[j].at : j \in 1..Len(lrulist)}

(* *pos is the node at the address. *)
Node(pos) == CHOOSE j \in 1..Len(lrulist) : lrulist[j].at = pos

(* move_front(pos): the node is erased before the new one is allocated. *)
move_front(pos, at) ==
  /\ at \in Address \ (Used \ {pos})
  /\ lrulist' = <<[at |-> at, key |-> lrulist[Node(pos)].key]>> \o RemoveAt(lrulist, Node(pos))

get_stale(k, at) ==
  /\ k \in DOMAIN hash
  /\ move_front(hash[k].pos, at)
  /\ answer' = hash[k].val
  /\ UNCHANGED hash
get(k, at) ==
  /\ k \in DOMAIN hash
  /\ move_front(hash[k].pos, at)
  /\ hash' = [hash EXCEPT ![k].pos = at]
  /\ answer' = hash[k].val

get_misses(k) ==
  /\ k \notin DOMAIN hash
  /\ answer' = -1
  /\ UNCHANGED <<hash, lrulist>>

(* A new key goes to the front; the last one goes if they are too many. *)
Evicts_late(l) == Len(l) > Capacity + 1
Evicts(l) == Len(l) > Capacity

Victim(l) == Len(l)

Stored(h, k, v, at) == [j \in DOMAIN h \cup {k} |-> IF j = k THEN [val |-> v, pos |-> at] ELSE h[j]]

put_new(k, v, at) ==
  /\ k \notin DOMAIN hash
  /\ at \in Address \ Used
  /\ LET l == <<[at |-> at, key |-> k]>> \o lrulist
         kept == IF Evicts(l) THEN Restrict(hash, DOMAIN hash \ {l[Victim(l)].key}) ELSE hash
     IN  /\ lrulist' = IF Evicts(l) THEN RemoveAt(l, Victim(l)) ELSE l
         /\ hash' = Stored(kept, k, v, at)
  /\ UNCHANGED answer

put_again(k, v, at) ==
  /\ k \in DOMAIN hash
  /\ move_front(hash[k].pos, at)
  /\ hash' = Stored(hash, k, v, at)
  /\ UNCHANGED answer

Next ==
  \/ \E k \in Key : get_misses(k) \/ \E at \in Address : get(k, at)
  \/ \E k \in Key, v \in Value, at \in Address : put_new(k, v, at) \/ put_again(k, v, at)

Spec == Init /\ [][Next]_vars
-----------------------------------------------------------------------------
(* Properties *)

(* Every variable has its type, and no more keys are kept than asked. *)
TypeOK ==
  /\ DOMAIN hash \subseteq Key
  /\ \A k \in DOMAIN hash : hash[k].val \in Value /\ hash[k].pos \in Address
  /\ Len(lrulist) <= Capacity
  /\ answer \in Value \cup {-1}

(***************************************************************************)
(* The iterators stay valid: the hash table and the list have the same     *)
(* keys, each once, and every entry points at the node of its own key      *)
(* although addresses are used again (lines 188-220).                      *)
(***************************************************************************)
IteratorsExact ==
  /\ \A k \in DOMAIN hash :
       \E j \in 1..Len(lrulist) : lrulist[j] = [at |-> hash[k].pos, key |-> k]
  /\ \A j \in 1..Len(lrulist) :
       lrulist[j].key \in DOMAIN hash /\ hash[lrulist[j].key].pos = lrulist[j].at

(* The cache keeps the keys used last (RecentCache). *)
Abstract == INSTANCE RecentCache WITH
  items <- [j \in 1..Len(lrulist) |->
              [key |-> lrulist[j].key, val |-> hash[lrulist[j].key].val]]

ImplementsCache == Abstract!Spec
=============================================================================
