---------------------------- MODULE BisonParser -----------------------------
(***************************************************************************)
(* yyparse of the calculator (y.tab.c): the LR automaton bison made of     *)
(* calc.y, its two stacks and their growth, the rules' actions and the     *)
(* error path.  The grammar has no error production and YYERROR_VERBOSE is *)
(* off; traces (yydebug) are left out.                                     *)
(***************************************************************************)
EXTENDS FlexTables, SequencesExt

CONSTANTS
  YYINITDEPTH, YYMAXDEPTH,  (* 200 and 10000 in the code                   *)
  INT_MAX,                  (* 2^31 - 1 in the build                       *)
  Malloc,                   (* answers malloc may give                     *)
  Lexemes,                  (* what the user may type, as yylex returns it *)
  MaxTokens                 (* the input ends after so many                *)

ASSUME ParserAssumption ==
  /\ YYMAXDEPTH \in Nat /\ YYINITDEPTH \in 5..YYMAXDEPTH
  /\ INT_MAX \in Nat \ {0} /\ \E w \in 1..INT_MAX : INT_MAX = 2 ^ w - 1
  /\ Malloc \subseteq BOOLEAN /\ TRUE \in Malloc
  /\ \A t \in Lexemes : t.val \in -INT_MAX - 1..INT_MAX

yytranslate(type) ==
  CASE type = "END" -> 0 [] type = T_NUM -> 3 [] type = "+" -> 4 [] type = "-" -> 5
    [] type = "*" -> 6 [] type = "/" -> 7 [] type = "\n" -> 8 [] type = "(" -> 9
    [] type = ")" -> 10 [] OTHER -> 2

YYFINAL == 2
YYLAST == 23
YYNTOKENS == 11
YYPACT_NINF == -6
YYTERROR == 1
yypact_noleft == Array(<<-6, 0, -6, -6, 9, 15, 1, 9, 9, 9, 9, -6, -6, 15, 15, -5, -5>>)
yypact == Array(<<-6, 0, -6, -6, 9, 15, 1, 9, 9, 9, 9, -6, -6, -5, -5, -6, -6>>)
yydefact == Array(<<3, 0, 1, 8, 0, 0, 0, 0, 0, 0, 0, 2, 9, 4, 5, 6, 7>>)
yypgoto == Array(<<-6, -6, 6>>)
yydefgoto == Array(<<-1, 1, 5>>)
yytable == Array(<<2, 9, 10, 3, 0, 7, 8, 9, 10, 4, 6, 12, 3, 13, 14, 15, 16, 0, 4, 7, 8, 9, 10, 11>>)
yycheck == Array(<<0, 6, 7, 3, -1, 4, 5, 6, 7, 9, 4, 10, 3, 7, 8, 9, 10, -1, 9, 4, 5, 6, 7, 8>>)
yyr1 == Array(<<0, 11, 12, 12, 13, 13, 13, 13, 13, 13>>)
yyr2 == Array(<<0, 2, 3, 0, 3, 3, 3, 3, 1, 3>>)

(* The entry of row base for symbol sym, 0 for the default action. *)
Entry(base, sym) ==
  LET i == base + sym IN IF i \in 0..YYLAST /\ yycheck[i] = sym THEN yytable[i] ELSE 0

VARIABLES
  ss, vs,     (* yyss, yyvs                                                *)
  stacksize,  (* yystacksize                                               *)
  yychar,     (* the lookahead, or YYEMPTY                                 *)
  lval,       (* yylval                                                    *)
  errstatus, nerrs,
  pc,
  result,     (* yyresult                                                  *)
  out,        (* history: the answers printed                              *)
  read        (* history: the tokens yylex returned                        *)

vars == <<ss, vs, stacksize, yychar, lval, errstatus, nerrs, pc, result, out, read>>
YYEMPTY == [type |-> "YYEMPTY", val |-> 0]

(* Arithmetic of int.  Overflow wraps, as the build makes it; a division that
   has no result kills the program. *)
INT_MIN == -INT_MAX - 1
Wrap(i) == ((i - INT_MIN) % (2 * (INT_MAX + 1))) + INT_MIN
Traps(a, b) == b = 0 \/ (a = INT_MIN /\ b = -1)
AbsInt(a) == IF a < 0 THEN -a ELSE a
Quotient(a, b) == LET q == AbsInt(a) \div AbsInt(b) IN IF (a < 0) = (b < 0) THEN q ELSE -q
Compute_wide(op, a, b) ==
  CASE op = "+" -> a + b [] op = "-" -> Wrap(a - b)
    [] op = "*" -> Wrap(a * b) [] op = "/" -> Quotient(a, b)
Compute(op, a, b) ==
  CASE op = "+" -> Wrap(a + b) [] op = "-" -> Wrap(a - b)
    [] op = "*" -> Wrap(a * b) [] op = "/" -> Quotient(a, b)

(* atoi: strtol stops at the largest long, of twice as many bits, and the cast
   to int keeps the low bits. *)
LONG_MAX == 2 * (INT_MAX + 1) * (INT_MAX + 1) - 1
DigitValue(c) == CHOOSE d \in 0..9 : ToString(d) = c
atoi(s) ==
  Wrap(Min({FoldLeft(LAMBDA n, c : 10 * n + DigitValue(c), 0, s), LONG_MAX}))
Lexeme(t) == [type |-> t.type, val |-> IF t.type = T_NUM THEN atoi(t.text) ELSE 0]

Init ==
  /\ ss = <<0>> /\ vs = <<Junk>> /\ stacksize = YYINITDEPTH
  /\ yychar = YYEMPTY /\ lval = 0 /\ errstatus = 0 /\ nerrs = 0
  /\ pc = "backup" /\ result = 0 /\ out = <<>> /\ read = <<>>
-----------------------------------------------------------------------------
yystate == Last(ss)
Stop(r) == pc' = "return" /\ result' = r
Running(s) == IF s = YYFINAL THEN Stop(0) ELSE pc' = "backup" /\ UNCHANGED result

(* yynewstate: drop k entries, push a state with its value, make room. *)
Grown_off(depth) == IF depth > stacksize THEN Min({2 * stacksize, YYMAXDEPTH}) ELSE stacksize
Grown(depth) == IF depth >= stacksize THEN Min({2 * stacksize, YYMAXDEPTH}) ELSE stacksize

yynewstate(k, s, v) ==
  LET kept == Len(ss) - k
  IN  /\ ss' = Append(SubSeq(ss, 1, kept), s)
      /\ vs' = Append(SubSeq(vs, 1, kept), v)
      /\ stacksize' = Grown(kept + 1)
      /\ IF kept + 1 < stacksize THEN Running(s)
         ELSE \/ stacksize < YYMAXDEPTH /\ Running(s)
              \/ (stacksize = YYMAXDEPTH \/ FALSE \in Malloc) /\ Stop(2)

(* yybackup: some states act without a lookahead. *)
NeedsToken == yypact[yystate] # YYPACT_NINF
Action == IF NeedsToken THEN Entry(yypact[yystate], yytranslate(yychar.type)) ELSE 0
Deciding == pc = "backup" /\ (NeedsToken => yychar # YYEMPTY)

Lex(t) ==
  /\ pc = "backup" /\ NeedsToken /\ yychar = YYEMPTY
  /\ yychar' = t /\ read' = Append(read, t)
  /\ lval' = IF t.type = T_NUM THEN t.val ELSE lval
  /\ UNCHANGED <<ss, vs, stacksize, errstatus, nerrs, pc, result, out>>

Shift ==
  /\ Deciding /\ Action > 0
  /\ errstatus' = IF errstatus > 0 THEN errstatus - 1 ELSE 0
  /\ yychar' = YYEMPTY
  /\ yynewstate(0, Action, lval)
  /\ UNCHANGED <<lval, nerrs, out, read>>

(* yydefault and yyreduce. *)
Goto(r, s) ==
  LET n == yyr1[r] - YYNTOKENS
      e == Entry(yypgoto[n], s)
  IN  IF e # 0 THEN e ELSE yydefgoto[n]

RuleValue(r, dollar) ==
  CASE r \in 4..7 -> Compute(<<"+", "-", "*", "/">>[r - 3], dollar[1], dollar[3])
    [] r = 9 -> dollar[2]
    [] r = 3 -> Junk
    [] OTHER -> dollar[1]

yyreduce ==
  LET r == yydefact[yystate]
      len == yyr2[r]
      dollar == SubSeq(vs, Len(vs) - len + 1, Len(vs))
  IN  /\ Deciding /\ Action = 0 /\ r # 0
      /\ IF r = 7 /\ Traps(dollar[1], dollar[3])
         THEN pc' = "killed" /\ UNCHANGED <<ss, vs, stacksize, result, out>>
         ELSE /\ out' = IF r = 2 THEN Append(out, dollar[2]) ELSE out
              /\ yynewstate(len, Goto(r, ss[Len(ss) - len]), RuleValue(r, dollar))
      /\ UNCHANGED <<yychar, lval, errstatus, nerrs, read>>

yyerrlab ==
  /\ Deciding /\ Action = 0 /\ yydefact[yystate] = 0
  /\ nerrs' = IF errstatus = 0 THEN nerrs + 1 ELSE nerrs
  /\ IF errstatus = 3 /\ yychar # YYEMPTY /\ yychar.type = "END"
     THEN Stop(1) /\ UNCHANGED <<yychar, errstatus>>
     ELSE /\ yychar' = IF errstatus = 3 THEN YYEMPTY ELSE yychar
          /\ errstatus' = 3 /\ pc' = "pop" /\ UNCHANGED result
  /\ UNCHANGED <<ss, vs, stacksize, lval, out, read>>

yyerrlab1_stays ==
  /\ pc = "pop" /\ Len(ss) = 1 /\ Stop(1)
  /\ UNCHANGED <<ss, vs, stacksize, yychar, lval, errstatus, nerrs, out, read>>
(* yyerrlab1: pop until a state takes the error token. *)
yyerrlab1 ==
  LET e == IF NeedsToken THEN Entry(yypact[yystate], YYTERROR) ELSE 0
  IN  /\ pc = "pop"
      /\ IF e > 0 THEN yynewstate(0, e, lval)
         ELSE IF Len(ss) = 1 THEN Stop(1) /\ UNCHANGED <<ss, vs, stacksize>>
         ELSE ss' = Front(ss) /\ vs' = Front(vs) /\ UNCHANGED <<stacksize, pc, result>>
      /\ UNCHANGED <<yychar, lval, errstatus, nerrs, out, read>>

yyreturn ==
  /\ pc = "return"
  /\ pc' = "done" /\ ss' = <<0>> /\ vs' = <<Junk>> /\ stacksize' = YYINITDEPTH
  /\ UNCHANGED <<yychar, lval, errstatus, nerrs, result, out, read>>

Step == Shift \/ yyreduce \/ yyerrlab \/ yyerrlab1 \/ yyreturn
EndLexeme == [type |-> "END", val |-> 0]
Next ==
  \/ Step
  \/ Len(read) < MaxTokens /\ \E t \in Lexemes : Lex(t)
  \/ Lex(EndLexeme)

Spec == Init /\ [][Next]_vars /\ WF_vars(Next)
-----------------------------------------------------------------------------
(* What calc.y promises, stated without the automaton. *)

(* A line is read from left to right: operands and operators take turns. *)
Begin == [want |-> "operand", open |-> 0, fresh |-> TRUE, ok |-> TRUE]
After(q, t) ==
  LET operand == q.want = "operand" /\ t.type \in {T_NUM, "("}
      operator == q.want = "operator" /\ t.type \in {"+", "-", "*", "/"}
      close == q.want = "operator" /\ t.type = ")" /\ q.open > 0
      line == q.want = "operator" /\ t.type = "\n" /\ q.open = 0
      end == q.fresh /\ t.type = "END"
  IN  [want |-> IF t.type = T_NUM \/ close THEN "operator" ELSE "operand",
       open |-> q.open + (IF t.type = "(" THEN 1 ELSE IF close THEN -1 ELSE 0),
       fresh |-> line,
       ok |-> q.ok /\ (operand \/ operator \/ close \/ line \/ end)]
Scan(s) == FoldLeft(After, Begin, s)
Viable(s) == Scan(s).ok

Trap == INT_MAX + 1  \* no int
(* The value of the expression s, * and / first, from the left. *)
Value(s) ==
  LET level(i, k) == Cardinality({j \in i..k : s[j].type = "("})
                     - Cardinality({j \in i..k : s[j].type = ")"})
      at(i, k, ops) == {j \in i + 1..k - 1 : s[j].type \in ops /\ level(i, j) = 0}
      v[i \in 1..Len(s), k \in 1..Len(s)] ==
        LET add == at(i, k, {"+", "-"})
            j == Max(IF add # {} THEN add ELSE at(i, k, {"*", "/"}))
        IN  IF i = k THEN s[i].val
            ELSE IF add \cup at(i, k, {"*", "/"}) = {} THEN v[i + 1, k - 1]
            ELSE LET p == <<v[i, j - 1], v[j + 1, k]>>
                 IN  IF Trap \in ToSet(p) \/ (s[j].type = "/" /\ Traps(p[1], p[2])) THEN Trap
                     ELSE Compute(s[j].type, p[1], p[2])
  IN  v[1, Len(s)]

LineEnds(s) == {k \in DOMAIN s : s[k].type = "\n"}

(* A term of s, or its beginning, that ends at k divides by zero or INT_MIN by -1. *)
DiesAt(s, k) ==
  \E i \in 1..k :
    LET e == SubSeq(s, i, k)
    IN  /\ s[k].type \in {T_NUM, ")"}
        /\ i = 1 \/ s[i - 1].type \in {"\n", "(", "+", "-"}
        /\ Viable(e) /\ LineEnds(e) = {} /\ Scan(e).want = "operator" /\ Scan(e).open = 0
        /\ Value(e) = Trap
Dies(s) == \E k \in DOMAIN s : DiesAt(s, k)

LineBefore(s, k) == SubSeq(s, Max({j \in LineEnds(s) : j < k} \cup {0}) + 1, k - 1)
Answers(s) ==
  LET ends == SetToSortSeq(LineEnds(s), <)
  IN  [i \in DOMAIN ends |-> Value(LineBefore(s, ends[i]))]
-----------------------------------------------------------------------------
(* Types; the two stacks go together and stay inside their allocation. *)
TypeOK ==
  /\ Len(ss) = Len(vs) /\ \A i \in DOMAIN ss : ss[i] \in 0..16
  /\ \A i \in 3..Len(vs) : vs[i] \in INT_MIN..INT_MAX
  /\ stacksize \in YYINITDEPTH..YYMAXDEPTH
  /\ yychar \in Lexemes \cup {EndLexeme, YYEMPTY}
  /\ errstatus \in 0..3 /\ nerrs \in 0..1
  /\ pc \in {"backup", "pop", "return", "done", "killed"} /\ result \in 0..2

(* No push writes past the end of the stacks: the room for the next one is made
   before it happens (lines 1030-1096). *)
PushFits == pc = "backup" => Len(ss) < stacksize

(* The stack reaches its limit by open parentheses alone: a line without them
   is parsed however long it is (lines 1035-1066). *)
DeepestNesting == Max({Scan(SubSeq(read, 1, k)).open : k \in 0..Len(read)})
OnlyNestingExhausts ==
  [][pc' = "return" /\ result' = 2 /\ stacksize = YYMAXDEPTH
       => YYMAXDEPTH <= 7 + 5 * DeepestNesting]_vars

(* The parser is the calculator of CalculatorSpec: it prints every answer before
   it asks for another token, its result is 0 for a well-formed input and 1 at
   the first token no correct input has there, and it dies of a division without
   a result as soon as that is read, and of nothing else (lines 1104-1474). *)
User == INSTANCE CalculatorSpec WITH
  Token <- Lexemes \cup {EndLexeme}, EndOfInput <- EndLexeme, printed <- out,
  status <- IF pc = "done" THEN ToString(result) ELSE IF pc = "killed" THEN pc ELSE "running"
Refines == User!Spec

(* Every token is taken or ends the parse: reductions and pops do not go on for
   ever (lines 1104-1281, 1384-1408). *)
TokensTaken == yychar # YYEMPTY ~> yychar = YYEMPTY \/ pc \in {"done", "killed"}
=============================================================================
