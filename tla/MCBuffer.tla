------------------------------ MODULE MCBuffer ------------------------------
(* Small instances of Buffer for TLC; the constants are in the cfg's.      *)
EXTENDS Buffer
=============================================================================
