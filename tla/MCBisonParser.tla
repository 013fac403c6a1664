--------------------------- MODULE MCBisonParser ----------------------------
(* A small instance of BisonParser for TLC. *)
EXTENDS BisonParser

MCTexts == {<<"0">>, <<"4">>, <<"9", "9">>, <<"+">>, <<"-">>, <<"*">>, <<"/">>, <<"\n">>, <<"(">>, <<")">>}
MCLexemes == {Lexeme(FirstToken(s)) : s \in MCTexts}
=============================================================================
