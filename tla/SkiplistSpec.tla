---------------------------- MODULE SkiplistSpec ----------------------------
(***************************************************************************)
(* What a Skiplist promises its callers: a collection of entries, each an  *)
(* identity and a key.  Identities grow with every insertion, so that the  *)
(* entries of one key are told apart by their age (the payload of a        *)
(* SimpleKeyHandle does this in the code).  One call is served at a time.  *)
(*                                                                         *)
(* An accepted Insert adds an entry; without the multi-key policy a key    *)
(* that is present is refused.  Remove and Search hit the YOUNGEST entry   *)
(* of their key, and miss only when no entry has the key.                  *)
(***************************************************************************)
EXTENDS Integers

CONSTANTS
  Key,    (* the keys callers use                                          *)
  Multi,  (* whether one key may have several entries (kKeyAllowedMulti)   *)
  Id,     (* the identities entries can have                               *)
  Nil     (* the answer of a call that returned false                      *)

VARIABLES
  items,  (* the entries: pairs <<identity, key>>                          *)
  call,   (* the operation being served, "applied" once it took effect     *)
  arg,    (* the key of that operation                                     *)
  answer  (* the identity handed to the caller's hook, or Nil              *)

specVars == <<items, call, arg, answer>>

Ops == {"insert", "remove", "search"}

(* The entries that have key k, and the youngest of them. *)
Having(k) == {e \in items : e[2] = k}
Youngest(e) == \A d \in Having(e[2]) : d[1] <= e[1]

Init ==
  /\ items = {}
  /\ call = "idle"
  /\ arg = 0
  /\ answer = Nil

Begin(op, k) ==
  /\ call = "idle"
  /\ call' = op
  /\ arg' = k
  /\ UNCHANGED <<items, answer>>

Miss ==
  /\ \/ call = "insert" /\ ~Multi /\ Having(arg) # {}
     \/ call \in {"remove", "search"} /\ Having(arg) = {}
  /\ call' = "idle"
  /\ answer' = Nil
  /\ UNCHANGED <<items, arg>>

Add(id) ==
  /\ call = "insert"
  /\ Multi \/ Having(arg) = {}
  /\ \A e \in items : e[1] < id
  /\ items' = items \cup {<<id, arg>>}
  /\ call' = "applied"
  /\ answer' = id
  /\ UNCHANGED arg

Take(e) ==
  /\ call = "remove"
  /\ e \in Having(arg)
  /\ Youngest(e)
  /\ items' = items \ {e}
  /\ call' = "applied"
  /\ answer' = e[1]
  /\ UNCHANGED arg

Hit(e) ==
  /\ call = "search"
  /\ e \in Having(arg)
  /\ Youngest(e)
  /\ call' = "idle"
  /\ answer' = e[1]
  /\ UNCHANGED <<items, arg>>

Finish ==
  /\ call = "applied"
  /\ call' = "idle"
  /\ UNCHANGED <<items, arg, answer>>

Destroy ==
  /\ call = "idle"
  /\ call' = "destroyed"
  /\ items' = {}
  /\ UNCHANGED <<arg, answer>>

Next ==
  \/ \E op \in Ops, k \in Key : Begin(op, k)
  \/ Miss
  \/ \E id \in Id : Add(id)
  \/ \E e \in items : Take(e) \/ Hit(e)
  \/ Finish
  \/ Destroy

Spec == Init /\ [][Next]_specVars
=============================================================================
