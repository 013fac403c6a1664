--------------------------- MODULE MCFlexScanner ----------------------------
(* Small instances of FlexScanner for TLC. *)
EXTENDS FlexScanner

MCChar == {"1", "+", "x", "\n", NUL}
MCBuf == {"b1", "b2", "b3"}

(* Every text of up to three characters and some longer ones, read, pushed back and taken back. *)
Reader == [
  calls |-> {"yylex", "input", "unput", "less", "fail"}, files |-> {"f1"}, buffers |-> 1,
  texts |-> SeqOf({"1", "+", "x", NUL}, 3)
    \cup {<<"1", "\n">>, <<"1", "1", "\n", "1">>, <<"1", "1", "1", "1">>, <<"1", NUL, "+", "1">>}]
(* Strings inside strings. *)
Includer == [
  calls |-> {"yylex", "scan", "push", "pop", "destroy"}, files |-> {"f1"}, buffers |-> 3,
  texts |-> {<<"1">>}]
(* Strings side by side. *)
Switcher == [
  calls |-> {"yylex", "scan", "switch", "push", "delete", "destroy"}, files |-> {"f1"}, buffers |-> 2,
  texts |-> {<<"1", "+">>}]
(* A file and a terminal, in turn and one under the other. *)
Terminals == [
  calls |-> {"yylex", "create", "push", "pop", "flush", "restart", "set_in"},
  files |-> {"f1", "f2"}, buffers |-> 2, texts |-> {<<"1", "1">>, <<"+">>}]
MCClients == {Reader, Includer, Switcher, Terminals}
=============================================================================
