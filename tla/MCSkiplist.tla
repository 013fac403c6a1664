----------------------------- MODULE MCSkiplist -----------------------------
(* Small instances of Skiplist for TLC; the constants are in the cfg's.    *)
EXTENDS Skiplist
=============================================================================
