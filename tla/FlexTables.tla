----------------------------- MODULE FlexTables -----------------------------
(***************************************************************************)
(* The tables flex made of the rules in calc.1, and what those rules say   *)
(* of a text: the reference the scanner is compared with.                  *)
(***************************************************************************)
EXTENDS Integers, Sequences, FiniteSetsExt

NUL == "NUL"    \* character 0, which is also the end-of-buffer mark
Junk == "junk"  \* a byte of the buffer that nothing was written to
Digit == {"0", "1", "2", "3", "4", "5", "6", "7", "8", "9"}
Operator == {"-", "+", "/", "*", "(", ")"}

(* A C array: indices start at 0. *)
Array(s) == [i \in 0..Len(s) - 1 |-> s[i + 1]]

yy_accept == Array(<<0, 0, 0, 5, 3, 2, 2, 1, 1, 0>>)
yy_meta == Array(<<0, 1, 1, 1, 2>>)
yy_base == Array(<<0, 0, 0, 6, 7, 7, 7, 0, 0, 7, 3>>)
yy_def == Array(<<0, 9, 1, 9, 9, 9, 9, 10, 10, 0, 9>>)
yy_nxt == Array(<<0, 4, 5, 6, 7, 8, 9, 3, 9, 9, 9, 9>>)
yy_chk == Array(<<0, 1, 1, 1, 1, 10, 3, 9, 9, 9, 9, 9>>)

yy_ec(c) ==
  IF c = NUL THEN 0 ELSE IF c = "\n" THEN 2 ELSE IF c \in Operator THEN 3
  ELSE IF c \in Digit THEN 4 ELSE 1

(* The state after s on a character of class c: the compressed table is
   followed through its defaults. *)
yy_trans[p \in (1..10) \X (0..4)] ==
  LET s == p[1]
      c == p[2]
      i == yy_base[s] + c
  IN  IF yy_chk[i] = s THEN yy_nxt[i]
      ELSE yy_trans[<<yy_def[s], IF yy_def[s] >= 10 THEN yy_meta[c] ELSE c>>]

JamState == 9
Jams(s) == yy_base[s] = 7  \* the state the match loop stops in

(* The class of a character that is not the end of the buffer. *)
TextClass(c) == IF c = NUL THEN 1 ELSE yy_ec(c)
-----------------------------------------------------------------------------
(* The rules of calc.1: a number is the longest run of digits, an operator or
   a new line stands for itself, anything else ends the input. *)
T_NUM == "T_NUM"
EndToken == [type |-> "END", text |-> <<>>]

FirstToken(s) ==
  IF s = <<>> THEN EndToken
  ELSE IF s[1] \in Digit
    THEN LET run == {k \in 1..Len(s) : \A i \in 1..k : s[i] \in Digit}
         IN  [type |-> T_NUM, text |-> SubSeq(s, 1, Max(run))]
  ELSE [type |-> IF s[1] \in Operator \cup {"\n"} THEN s[1] ELSE "END",
        text |-> <<s[1]>>]
=============================================================================
