---------------------------- MODULE MCSocketOps -----------------------------
(* Small instances of SocketOps for TLC. *)
EXTENDS SocketOps

MCStarts == {1, 2}
MCSpans == {1, 3}
=============================================================================
