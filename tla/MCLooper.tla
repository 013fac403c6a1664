------------------------------ MODULE MCLooper ------------------------------
(* Small instances of Looper for TLC; the constants are in the cfg. *)
EXTENDS Looper
=============================================================================
