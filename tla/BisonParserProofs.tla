------------------------- MODULE BisonParserProofs --------------------------
(***************************************************************************)
(* Proofs about BisonParser: the types, and that no push goes past the end *)
(* of the stacks, for every input, depth of the stacks and size of int.    *)
(***************************************************************************)
EXTENDS BisonParser, SequenceTheorems, TLAPS

Ints == INT_MIN..INT_MAX
State == 0..16
Slot == Int \cup {Junk}

(* The transitions of the automaton, on tokens and on what was reduced. *)
Moves ==
  {<<0, 1>>, <<1, 2>>, <<1, 3>>, <<1, 4>>, <<1, 5>>, <<4, 3>>, <<4, 4>>, <<4, 6>>,
   <<5, 7>>, <<5, 8>>, <<5, 9>>, <<5, 10>>, <<5, 11>>,
   <<6, 7>>, <<6, 8>>, <<6, 9>>, <<6, 10>>, <<6, 12>>,
   <<7, 3>>, <<7, 4>>, <<7, 13>>, <<8, 3>>, <<8, 4>>, <<8, 14>>,
   <<9, 3>>, <<9, 4>>, <<9, 15>>, <<10, 3>>, <<10, 4>>, <<10, 16>>,
   <<13, 9>>, <<13, 10>>, <<14, 9>>, <<14, 10>>}

-----------------------------------------------------------------------------
(* Arithmetic. *)

(* The bounds of an int. *)
LEMMA Bounds == INT_MAX \in Nat /\ INT_MAX >= 1 /\ INT_MIN = -INT_MAX - 1 /\ INT_MIN \in Int
  BY ParserAssumption DEF INT_MIN

(* A value that is wrapped is an int. *)
LEMMA WrapRange == \A i \in Int : Wrap(i) \in Ints
<1> SUFFICES ASSUME NEW i \in Int PROVE Wrap(i) \in Ints
  OBVIOUS
<1> DEFINE w == 2 * (INT_MAX + 1)
           r == (i - INT_MIN) % w
<1>1. w \in Nat \ {0} /\ i - INT_MIN \in Int /\ w = 2 * INT_MAX + 2
  BY Bounds
<1>2. r \in 0..(w - 1)
  <2> HIDE DEF w
  <2> QED BY <1>1
<1>3. Wrap(i) = r + INT_MIN
  BY DEF Wrap
<1> HIDE DEF r, w
<1> QED BY <1>1, <1>2, <1>3, Bounds DEF Ints

(* A quotient of natural numbers is not above its dividend. *)
LEMMA DivisionShrinks ==
  ASSUME NEW a \in Nat, NEW b \in Nat \ {0}
  PROVE  a \div b \in Nat /\ a \div b <= a /\ (b >= 2 => 2 * (a \div b) <= a)
  OBVIOUS

(* A division that does not trap answers an int: only INT_MIN / -1 would not. *)
LEMMA QuotientRange ==
  ASSUME NEW a \in Ints, NEW b \in Ints, ~Traps(a, b)
  PROVE  Quotient(a, b) \in Ints
<1> DEFINE q == AbsInt(a) \div AbsInt(b)
<1>1. a \in Int /\ b \in Int /\ b # 0
  BY Bounds DEF Ints, Traps
<1>2. AbsInt(a) \in Nat /\ AbsInt(b) \in Nat \ {0} /\ AbsInt(a) <= INT_MAX + 1
  BY <1>1, Bounds DEF AbsInt, Ints
<1>3. q \in Nat /\ q <= AbsInt(a) /\ (AbsInt(b) >= 2 => 2 * q <= AbsInt(a))
  BY <1>2, DivisionShrinks
<1> HIDE DEF q
<1>4. Quotient(a, b) = IF (a < 0) = (b < 0) THEN q ELSE -q
  BY DEF Quotient, q
<1>5. q <= INT_MAX + 1
  BY <1>2, <1>3, Bounds
<1>6. CASE q <= INT_MAX
  BY <1>3, <1>4, <1>6, Bounds DEF Ints
<1>7. CASE ~(q <= INT_MAX)
  <2>1. AbsInt(a) = INT_MAX + 1 /\ AbsInt(b) = 1
    BY <1>2, <1>3, <1>7, Bounds
  <2>2. a = INT_MIN /\ b = 1
    BY <1>1, <2>1, Bounds DEF AbsInt, Traps, Ints
  <2>3. ~((a < 0) <=> (b < 0))
    BY <2>2, Bounds
  <2> QED BY <1>3, <1>4, <1>5, <2>3, Bounds DEF Ints
<1> QED BY <1>6, <1>7

(* What a rule computes is an int again. *)
LEMMA ComputeRange ==
  ASSUME NEW o \in {"+", "-", "*", "/"}, NEW a \in Ints, NEW b \in Ints,
         o = "/" => ~Traps(a, b)
  PROVE  Compute(o, a, b) \in Ints
<1>1. a + b \in Int /\ a - b \in Int /\ a * b \in Int
  BY Bounds DEF Ints
<1>2. CASE o = "+"
  BY <1>1, <1>2, WrapRange DEF Compute
<1>3. CASE o = "-"
  BY <1>1, <1>3, WrapRange DEF Compute
<1>4. CASE o = "*"
  BY <1>1, <1>4, WrapRange DEF Compute
<1>5. CASE o = "/"
  BY <1>5, QuotientRange DEF Compute
<1> QED BY <1>2, <1>3, <1>4, <1>5

-----------------------------------------------------------------------------
(* The tables. *)

(* The tables of y.tab.c, lines 420-492, at the arguments the parser uses. *)
LEMMA PactIs ==
  /\ \A s \in {0, 2, 3, 11, 12, 15, 16} : yypact[s] = -6
  /\ yypact[1] = 0 /\ yypact[4] = 9 /\ yypact[5] = 15 /\ yypact[6] = 1
  /\ \A s \in {7, 8, 9, 10} : yypact[s] = 9
  /\ yypact[13] = -5 /\ yypact[14] = -5
  BY DEF yypact, Array

(* The rule a state reduces by when no lookahead decides. *)
LEMMA DefactIs ==
  /\ \A s \in {1, 4, 5, 6, 7, 8, 9, 10} : yydefact[s] = 0
  /\ yydefact[0] = 3 /\ yydefact[2] = 1 /\ yydefact[3] = 8 /\ yydefact[11] = 2 /\ yydefact[12] = 9
  /\ yydefact[13] = 4 /\ yydefact[14] = 5 /\ yydefact[15] = 6 /\ yydefact[16] = 7
  BY DEF yydefact, Array

(* Which token each entry of yytable is for. *)
LEMMA CheckIs ==
  /\ yycheck[0] = 0 /\ yycheck[1] = 6 /\ yycheck[2] = 7 /\ yycheck[3] = 3 /\ yycheck[4] = -1
  /\ yycheck[5] = 4 /\ yycheck[6] = 5 /\ yycheck[7] = 6 /\ yycheck[8] = 7 /\ yycheck[9] = 9
  /\ yycheck[10] = 4 /\ yycheck[11] = 10 /\ yycheck[12] = 3 /\ yycheck[13] = 7 /\ yycheck[14] = 8
  /\ yycheck[15] = 9 /\ yycheck[16] = 10 /\ yycheck[17] = -1 /\ yycheck[18] = 9 /\ yycheck[19] = 4
  /\ yycheck[20] = 5 /\ yycheck[21] = 6 /\ yycheck[22] = 7 /\ yycheck[23] = 8
  BY DEF yycheck, Array

(* What the parser does with it: a state to shift to, or a rule to reduce by. *)
LEMMA TableIs ==
  /\ yytable[0] = 2 /\ yytable[1] = 9 /\ yytable[2] = 10 /\ yytable[3] = 3 /\ yytable[4] = 0
  /\ yytable[5] = 7 /\ yytable[6] = 8 /\ yytable[7] = 9 /\ yytable[8] = 10 /\ yytable[9] = 4
  /\ yytable[10] = 6 /\ yytable[11] = 12 /\ yytable[12] = 3 /\ yytable[13] = 13 /\ yytable[14] = 14
  /\ yytable[15] = 15 /\ yytable[16] = 16 /\ yytable[17] = 0 /\ yytable[18] = 4 /\ yytable[19] = 7
  /\ yytable[20] = 8 /\ yytable[21] = 9 /\ yytable[22] = 10 /\ yytable[23] = 11
  BY DEF yytable, Array
(* The rows: what they hold for the symbols they know, and 0 for the others. *)
LEMMA RowsAre ==
  /\ \A a \in 0..10 : Entry(0, a) = CASE a = 0 -> 2 [] a = 3 -> 3 [] a = 9 -> 4 [] OTHER -> 0
  /\ \A a \in 0..10 : Entry(9, a) = CASE a = 3 -> 3 [] a = 9 -> 4 [] OTHER -> 0
  /\ \A a \in 0..10 : Entry(15, a) = IF a \in 4..8 THEN a + 3 ELSE 0
  /\ \A a \in 0..10 : Entry(1, a) = IF a \in 4..7 THEN a + 3 ELSE IF a = 10 THEN 12 ELSE 0
  /\ \A a \in 0..10 : Entry(-5, a) = IF a \in 6..7 THEN a + 3 ELSE 0
<1> DEFINE at(i, a) == IF i \in 0..YYLAST /\ yycheck[i] = a THEN yytable[i] ELSE 0
<1>1. \A a \in 0..10 : a \in {0, 1, 2, 3, 4, 5, 6, 7, 8, 9, 10}
  OBVIOUS
<1>2. \A b \in {0, 9, 15, 1, -5}, a \in 0..10 : Entry(b, a) = at(b + a, a)
  BY DEF Entry
<1>3. \A a \in 0..10 : at(0 + a, a) = CASE a = 0 -> 2 [] a = 3 -> 3 [] a = 9 -> 4 [] OTHER -> 0
  BY <1>1, CheckIs, TableIs DEF YYLAST
<1>4. \A a \in 0..10 : at(9 + a, a) = CASE a = 3 -> 3 [] a = 9 -> 4 [] OTHER -> 0
  BY <1>1, CheckIs, TableIs DEF YYLAST
<1>5. \A a \in 0..10 : at(15 + a, a) = IF a \in 4..8 THEN a + 3 ELSE 0
  BY <1>1, CheckIs, TableIs DEF YYLAST
<1>6. \A a \in 0..10 : at(1 + a, a) = IF a \in 4..7 THEN a + 3 ELSE IF a = 10 THEN 12 ELSE 0
  BY <1>1, CheckIs, TableIs DEF YYLAST
<1>7. \A a \in 0..10 : at(-5 + a, a) = IF a \in 6..7 THEN a + 3 ELSE 0
  BY <1>1, CheckIs, TableIs DEF YYLAST
<1> HIDE DEF at
<1> QED BY <1>2, <1>3, <1>4, <1>5, <1>6, <1>7

(* The states a reduction can go to. *)
LEMMA GotoIs ==
  /\ Goto(2, 0) = 1 /\ Goto(3, 0) = 1
  /\ \A r \in 4..9 : /\ Goto(r, 1) = 5 /\ Goto(r, 4) = 6 /\ Goto(r, 7) = 13 /\ Goto(r, 8) = 14
                     /\ Goto(r, 9) = 15 /\ Goto(r, 10) = 16
<1>1. /\ yyr1[2] = 12 /\ yyr1[3] = 12 /\ \A r \in 4..9 : yyr1[r] = 13
      /\ yypgoto[1] = -6 /\ yypgoto[2] = 6 /\ yydefgoto[1] = 1 /\ yydefgoto[2] = 5
  BY DEF yyr1, yypgoto, yydefgoto, Array
<1>2. /\ Entry(-6, 0) = 0 /\ Entry(6, 1) = 0 /\ Entry(6, 4) = 6 /\ Entry(6, 7) = 13
      /\ Entry(6, 8) = 14 /\ Entry(6, 9) = 15 /\ Entry(6, 10) = 16
  BY CheckIs, TableIs DEF Entry, YYLAST
<1> QED BY <1>1, <1>2 DEF Goto, YYNTOKENS

(* How many states a reduction pops. *)
LEMMA LengthIs ==
  yyr2[2] = 3 /\ yyr2[3] = 0 /\ yyr2[8] = 1 /\ \A r \in {4, 5, 6, 7, 9} : yyr2[r] = 3
  BY DEF yyr2, Array
-----------------------------------------------------------------------------
(* The inductive invariant. *)

(* The stack is a path of the automaton; the states that reduce are deep
   enough below it. *)
Path ==
  /\ ss \in Seq(State) /\ Len(ss) >= 1 /\ ss[1] = 0
  /\ \A i \in 2..Len(ss) : <<ss[i - 1], ss[i]>> \in Moves

(* Only the value of the empty input, at the second place, may be junk. *)
Values ==
  /\ vs \in Seq(Slot) /\ Len(vs) = Len(ss)
  /\ \A i \in 3..Len(vs) : vs[i] \in Ints
  /\ lval \in Ints

(* The final state returns at once, and so does, in the end, the first error. *)
Going == pc = "backup" => errstatus = 0 /\ nerrs = 0 /\ ss[Len(ss)] # YYFINAL
Room == pc \in {"backup", "pop"} => Len(ss) < stacksize

IInv == TypeOK /\ Path /\ Values /\ Going /\ Room

-----------------------------------------------------------------------------
(* The stacks. *)

(* The moves are between states of the automaton; only the start leads to state
   1. *)
LEMMA MovesType ==
  ASSUME NEW a, NEW b, <<a, b>> \in Moves
  PROVE  /\ a \in State /\ b \in State /\ b # 0
         /\ b = 1 => a = 0
         /\ b = 3 => a \in {1, 4, 7, 8, 9, 10}
         /\ b = 4 => a \in {1, 4, 7, 8, 9, 10}
         /\ b = 5 => a = 1
         /\ b = 6 => a = 4
         /\ b \in {7, 8} => a \in {5, 6}
         /\ b \in {9, 10} => a \in {5, 6, 13, 14}
         /\ b = 11 => a = 5
         /\ b = 12 => a = 6
         /\ b = 13 => a = 7
         /\ b = 14 => a = 8
         /\ b = 15 => a = 9
         /\ b = 16 => a = 10
         /\ a = 0 => b = 1
  BY DEF Moves, State

(* Below a state other than 0 lies another, one move before it. *)
LEMMA Below ==
  ASSUME Path, NEW i \in 1..Len(ss), ss[i] # 0
  PROVE  /\ i - 1 \in 1..Len(ss) /\ <<ss[i - 1], ss[i]>> \in Moves
         /\ i = 2 => ss[i] = 1
<1>1. Len(ss) \in Nat
  BY LenProperties DEF Path
<1>2. i \in 2..Len(ss) /\ i - 1 \in 1..Len(ss)
  BY <1>1 DEF Path
<1>3. <<ss[i - 1], ss[i]>> \in Moves
  BY <1>2 DEF Path
<1>4. ASSUME i = 2 PROVE ss[i] = 1
  <2>1. i - 1 = 1 /\ ss[i - 1] = 0
    BY <1>4 DEF Path
  <2> QED BY <1>3, <2>1, MovesType
<1> QED BY <1>2, <1>3, <1>4

(* The first n of a sequence with one more after them. *)
LEMMA Replaced ==
  ASSUME NEW S, NEW q \in Seq(S), NEW n \in 0..Len(q), NEW x \in S,
         NEW t, t = Append(SubSeq(q, 1, n), x)
  PROVE  /\ t \in Seq(S) /\ Len(t) = n + 1 /\ t[n + 1] = x
         /\ \A i \in 1..n : t[i] = q[i]
<1> DEFINE a == SubSeq(q, 1, n)
<1>1. Len(q) \in Nat /\ \A i \in 1..Len(q) : q[i] \in S
  BY LenProperties
<1>2. a \in Seq(S) /\ Len(a) = n /\ \A i \in 1..n : a[i] = q[i]
  <2>1. n \in Int /\ \A i \in 1..n : q[i] \in S
    BY <1>1
  <2>2. /\ a \in Seq(S) /\ Len(a) = IF 1 <= n THEN n - 1 + 1 ELSE 0
        /\ \A i \in 1..(n - 1 + 1) : a[i] = q[1 + i - 1]
    BY <2>1, SubSeqProperties
  <2> HIDE DEF a
  <2> QED BY <2>1, <2>2, <1>1
<1> HIDE DEF a
<1>3. /\ t \in Seq(S) /\ Len(t) = Len(a) + 1 /\ t[Len(a) + 1] = x
      /\ \A i \in 1..Len(a) : t[i] = a[i]
  BY <1>2, AppendProperties DEF a
<1> QED BY <1>2, <1>3

(* A stack that is full and not of the greatest depth has room once it has
   grown. *)
LEMMA GrownFits ==
  ASSUME stacksize \in YYINITDEPTH..YYMAXDEPTH, NEW d \in Nat, d <= stacksize
  PROVE  /\ Grown(d) \in YYINITDEPTH..YYMAXDEPTH
         /\ d < stacksize \/ stacksize < YYMAXDEPTH => d < Grown(d)
<1>1. YYINITDEPTH \in Nat /\ YYINITDEPTH >= 5 /\ YYMAXDEPTH \in Nat /\ stacksize \in Nat
  BY ParserAssumption
<1>2. \A a, b \in Nat : Min({a, b}) = IF a <= b THEN a ELSE b
  <2> SUFFICES ASSUME NEW a \in Nat, NEW b \in Nat PROVE Min({a, b}) = IF a <= b THEN a ELSE b
    OBVIOUS
  <2> DEFINE m == IF a <= b THEN a ELSE b
  <2>1. m \in {a, b} /\ \A y \in {a, b} : m <= y
    OBVIOUS
  <2>2. \A x \in {a, b} : (\A y \in {a, b} : x <= y) => x = m
    OBVIOUS
  <2> HIDE DEF m
  <2>3. Min({a, b}) = m
    BY <2>1, <2>2 DEF Min
  <2> QED BY <2>3 DEF m
<1> QED BY <1>1, <1>2 DEF Grown

(* A push in a state that acts: what is kept, the new entry, and the room. *)
LEMMA PushKeeps ==
  ASSUME IInv, pc = "backup", NEW k \in 0..Len(ss) - 1, NEW s, NEW v \in Slot,
         <<ss[Len(ss) - k], s>> \in Moves, Len(ss) - k >= 2 => v \in Ints,
         yynewstate(k, s, v)
  PROVE  /\ Path' /\ stacksize' \in YYINITDEPTH..YYMAXDEPTH
         /\ vs' \in Seq(Slot) /\ Len(vs') = Len(ss')
         /\ \A i \in 3..Len(vs') : vs'[i] \in Ints
         /\ pc' \in {"backup", "return"} /\ result' \in 0..2
         /\ pc' = "backup" => ss'[Len(ss')] # YYFINAL /\ Len(ss') < stacksize'
<1> DEFINE n == Len(ss) - k
<1>1. Len(ss) \in Nat /\ n \in 1..Len(ss) /\ ss \in Seq(State) /\ s \in State
  BY LenProperties, MovesType DEF IInv, Path
<1>2. vs \in Seq(Slot) /\ n \in 0..Len(vs) /\ n \in 0..Len(ss)
  BY <1>1 DEF IInv, Values
<1>3. ss' = Append(SubSeq(ss, 1, n), s) /\ vs' = Append(SubSeq(vs, 1, n), v)
  BY DEF yynewstate
<1>4. /\ ss' \in Seq(State) /\ Len(ss') = n + 1 /\ ss'[n + 1] = s
      /\ \A i \in 1..n : ss'[i] = ss[i]
  BY <1>1, <1>2, <1>3, Replaced
<1>5. /\ vs' \in Seq(Slot) /\ Len(vs') = n + 1 /\ vs'[n + 1] = v
      /\ \A i \in 1..n : vs'[i] = vs[i]
  <2>1. v \in Slot /\ vs' = Append(SubSeq(vs, 1, n), v)
    BY <1>3
  <2> HIDE DEF n
  <2> QED BY <1>2, <2>1, Replaced
<1>6. stacksize' = Grown(n + 1)
  BY DEF yynewstate
<1>7. \/ n + 1 < stacksize /\ Running(s)
      \/ stacksize < YYMAXDEPTH /\ Running(s)
      \/ Stop(2)
  BY DEF yynewstate
<1>8. <<ss[n], s>> \in Moves /\ (n >= 2 => v \in Ints)
  OBVIOUS
<1> HIDE DEF n
<1>9. Path'
  <2>1. ss'[1] = 0
    BY <1>1, <1>4 DEF IInv, Path
  <2>2. ASSUME NEW i \in 2..n + 1 PROVE <<ss'[i - 1], ss'[i]>> \in Moves
    <3>1. CASE i = n + 1
      <4>1. i - 1 = n /\ n \in 1..n
        BY <1>1, <3>1
      <4> QED BY <1>4, <1>8, <3>1, <4>1
    <3>2. CASE i # n + 1
      <4>1. i \in 2..Len(ss) /\ i \in 1..n /\ i - 1 \in 1..n
        BY <1>1, <2>2, <3>2
      <4> QED BY <1>4, <4>1 DEF IInv, Path
    <3> QED BY <3>1, <3>2
  <2> QED BY <1>1, <1>4, <2>1, <2>2 DEF Path
<1>10. \A i \in 3..Len(vs') : vs'[i] \in Ints
  <2> SUFFICES ASSUME NEW i \in 3..n + 1 PROVE vs'[i] \in Ints
    BY <1>5
  <2>1. CASE i = n + 1
    BY <1>1, <1>5, <1>8, <2>1
  <2>2. CASE i # n + 1
    <3>1. i \in 1..n /\ i \in 3..Len(vs)
      BY <1>1, <1>2, <2>2
    <3> QED BY <1>5, <3>1 DEF IInv, Values
  <2> QED BY <2>1, <2>2
<1>11. /\ stacksize \in YYINITDEPTH..YYMAXDEPTH /\ n + 1 \in Nat /\ n + 1 <= stacksize
  BY <1>1, ParserAssumption DEF IInv, TypeOK, Room
<1>12. /\ Grown(n + 1) \in YYINITDEPTH..YYMAXDEPTH
       /\ n + 1 < stacksize \/ stacksize < YYMAXDEPTH => n + 1 < Grown(n + 1)
  BY <1>11, GrownFits
<1>13. /\ pc' \in {"backup", "return"} /\ result' \in 0..2
       /\ pc' = "backup" => s # YYFINAL /\ n + 1 < stacksize'
  BY <1>6, <1>7, <1>12 DEF Running, Stop, IInv, TypeOK
<1> QED BY <1>4, <1>5, <1>6, <1>9, <1>10, <1>12, <1>13

-----------------------------------------------------------------------------
(* What lies beneath. *)

(* A state other than 0 is not the first, the second is 1, and the one below it
   is one of its predecessors. *)
LEMMA Beneath ==
  ASSUME Path, NEW i \in 1..Len(ss), ss[i] # 0
  PROVE  /\ i - 1 \in 1..Len(ss) /\ i >= 2 /\ ss[i - 1] \in State
         /\ ss[i] # 1 => i >= 3
         /\ ss[i] = 1 => ss[i - 1] = 0
         /\ ss[i] \in {3, 4} => ss[i - 1] \in {1, 4, 7, 8, 9, 10}
         /\ ss[i] \in {5, 6, 13, 14} => ss[i - 1] \in {1, 4, 7, 8}
         /\ ss[i] \in 7..10 => ss[i - 1] \in {5, 6, 13, 14}
         /\ ss[i] = 11 => ss[i - 1] = 5
         /\ ss[i] = 12 => ss[i - 1] = 6
         /\ ss[i] \in 13..16 => ss[i - 1] \in 7..10
         /\ ss[i] = 5 => ss[i - 1] = 1
         /\ ss[i] = 6 => ss[i - 1] = 4
<1>1. Len(ss) \in Nat /\ ss[i] \in State
  BY LenProperties DEF Path
<1>2. /\ i - 1 \in 1..Len(ss) /\ <<ss[i - 1], ss[i]>> \in Moves
      /\ i = 2 => ss[i] = 1
  BY Below
<1>3. PICK a, b : a = ss[i - 1] /\ b = ss[i]
  OBVIOUS
<1>4. <<a, b>> \in Moves
  BY <1>2, <1>3
<1>5. \/ a = 0 /\ b = 1
      \/ a = 1 /\ b \in {2, 3, 4, 5}
      \/ a = 4 /\ b \in {3, 4, 6}
      \/ a = 5 /\ b \in {7, 8, 9, 10, 11}
      \/ a = 6 /\ b \in {7, 8, 9, 10, 12}
      \/ a = 7 /\ b \in {3, 4, 13}
      \/ a = 8 /\ b \in {3, 4, 14}
      \/ a = 9 /\ b \in {3, 4, 15}
      \/ a = 10 /\ b \in {3, 4, 16}
      \/ a \in {13, 14} /\ b \in {9, 10}
  BY <1>4 DEF Moves
<1>6. /\ a \in State
      /\ b = 1 => a = 0
      /\ b \in {3, 4} => a \in {1, 4, 7, 8, 9, 10}
      /\ b \in {5, 6, 13, 14} => a \in {1, 4, 7, 8}
      /\ b = 11 => a = 5
      /\ b = 12 => a = 6
      /\ b = 5 => a = 1
      /\ b = 6 => a = 4
  BY <1>5 DEF State
<1>7. /\ b \in 7..10 => a \in {5, 6, 13, 14}
      /\ b \in 13..16 => a \in 7..10
  <2>1. 7..10 = {7, 8, 9, 10} /\ 13..16 = {13, 14, 15, 16}
    OBVIOUS
  <2>2. b \in {7, 8, 9, 10} => a \in {5, 6, 13, 14}
    BY <1>5
  <2>3. b \in {13, 14, 15, 16} => a \in {7, 8, 9, 10}
    BY <1>5
  <2> QED BY <2>1, <2>2, <2>3
<1> QED BY <1>1, <1>2, <1>3, <1>6, <1>7

(* The states that reduce are deep enough in the stack. *)
LEMMA Spine ==
  ASSUME Path, NEW n, n = Len(ss), NEW top, top = ss[n]
  PROVE  /\ n \in Nat /\ n >= 1 /\ top \in State
         /\ top = 0 => n = 1
         /\ top = 3 => n >= 3 /\ ss[n - 1] \in {1, 4, 7, 8, 9, 10}
         /\ top = 11 => n = 4 /\ ss[n - 3] = 0
         /\ top \in 12..16 => n >= 5 /\ ss[n - 3] \in {1, 4, 7, 8, 9, 10}
<1>1. n \in Nat /\ n >= 1 /\ n \in 1..Len(ss) /\ ss[n] \in State /\ ss[1] = 0
  BY LenProperties DEF Path
<1>2. top = 0 => n = 1
  <2> SUFFICES ASSUME top = 0, n # 1 PROVE FALSE
    OBVIOUS
  <2>1. n \in 2..Len(ss)
    BY <1>1
  <2>2. <<ss[n - 1], 0>> \in Moves
    BY <2>1 DEF Path
  <2> QED BY <2>2 DEF Moves
<1>3. ASSUME top = 3 PROVE n >= 3 /\ ss[n - 1] \in {1, 4, 7, 8, 9, 10}
  <2>1. ss[n] # 0 /\ ss[n] = 3
    BY <1>3
  <2> QED BY <1>1, <2>1, Beneath
<1>4. ASSUME top = 11 PROVE n = 4 /\ ss[n - 3] = 0
  <2>1. n - 1 \in 1..Len(ss) /\ ss[n - 1] = 5
    <3>1. ss[n] # 0 /\ ss[n] = 11
      BY <1>4
    <3> QED BY <1>1, <3>1, Beneath
  <2>2. n - 1 - 1 \in 1..Len(ss) /\ ss[n - 1 - 1] = 1
    <3>1. ss[n - 1] # 0 /\ ss[n - 1] = 5
      BY <2>1
    <3> QED BY <2>1, <3>1, Beneath
  <2>3. n - 1 - 1 - 1 \in 1..Len(ss) /\ ss[n - 1 - 1 - 1] = 0
    <3>1. ss[n - 1 - 1] # 0 /\ ss[n - 1 - 1] = 1
      BY <2>2
    <3> QED BY <2>2, <3>1, Beneath
  <2>4. n - 3 \in 1..Len(ss) /\ ss[n - 3] = 0
    <3>1. n - 1 - 1 - 1 = n - 3
      BY <1>1
    <3> QED BY <2>3, <3>1
  <2>5. n = 4
    <3> SUFFICES ASSUME n # 4 PROVE FALSE
      OBVIOUS
    <3>1. n - 3 \in 2..Len(ss)
      BY <1>1, <2>4
    <3>2. <<ss[n - 3 - 1], ss[n - 3]>> \in Moves
      BY <3>1 DEF Path
    <3>3. <<ss[n - 3 - 1], 0>> \in Moves
      BY <2>4, <3>2
    <3> QED BY <3>3 DEF Moves
  <2> QED BY <2>4, <2>5, Zenon
<1>5. ASSUME top \in 12..16 PROVE n >= 5 /\ ss[n - 3] \in {1, 4, 7, 8, 9, 10}
  <2>1. n - 1 \in 1..Len(ss) /\ ss[n - 1] \in {6, 7, 8, 9, 10}
    <3>1. ss[n] # 0 /\ (ss[n] = 12 \/ ss[n] \in 13..16)
      BY <1>5
    <3>2. n - 1 \in 1..Len(ss) /\ (ss[n] = 12 => ss[n - 1] = 6) /\ (ss[n] \in 13..16 => ss[n - 1] \in 7..10)
      BY <1>1, <3>1, Beneath
    <3> QED BY <3>1, <3>2
  <2>2. n - 1 - 1 \in 1..Len(ss) /\ ss[n - 1 - 1] \in {4, 5, 6, 13, 14}
    <3>1. ss[n - 1] # 0 /\ (ss[n - 1] = 6 \/ ss[n - 1] \in 7..10)
      BY <2>1
    <3>2. /\ n - 1 - 1 \in 1..Len(ss) /\ (ss[n - 1] = 6 => ss[n - 1 - 1] = 4)
          /\ ss[n - 1] \in 7..10 => ss[n - 1 - 1] \in {5, 6, 13, 14}
      BY <2>1, <3>1, Beneath
    <3> QED BY <3>1, <3>2
  <2>3. n - 1 - 1 >= 3 /\ ss[n - 1 - 1 - 1] \in {1, 4, 7, 8, 9, 10}
    <3>1. ss[n - 1 - 1] # 0 /\ ss[n - 1 - 1] # 1 /\ (ss[n - 1 - 1] \in {3, 4} \/ ss[n - 1 - 1] \in {5, 6, 13, 14})
      BY <2>2
    <3>2. /\ ss[n - 1 - 1] # 1 => n - 1 - 1 >= 3
          /\ ss[n - 1 - 1] \in {3, 4} => ss[n - 1 - 1 - 1] \in {1, 4, 7, 8, 9, 10}
          /\ ss[n - 1 - 1] \in {5, 6, 13, 14} => ss[n - 1 - 1 - 1] \in {1, 4, 7, 8}
      BY <2>2, <3>1, Beneath
    <3> QED BY <3>1, <3>2
  <2>4. n - 1 - 1 = n - 2 /\ n - 1 - 1 - 1 = n - 3
    BY <1>1
  <2> QED BY <1>1, <2>3, <2>4
<1> QED BY <1>1, <1>2, <1>3, <1>4, <1>5

-----------------------------------------------------------------------------
(* The actions. *)

(* The last len values, as the rules name them. *)
Dollar(len) == SubSeq(vs, Len(vs) - len + 1, Len(vs))

(* The values a rule sees are the last ones of the stack. *)
LEMMA DollarIs ==
  ASSUME Values, NEW len \in 0..Len(ss), NEW d, d = Dollar(len)
  PROVE  \A j \in 1..len : d[j] = vs[Len(ss) - len + j]
<1>1. vs \in Seq(Slot) /\ Len(vs) = Len(ss) /\ Len(vs) \in Nat
  BY LenProperties DEF Values
<1> DEFINE m == Len(vs) - len + 1
<1>2. m \in Int /\ m >= 1 /\ Len(vs) \in Int /\ \A i \in m..Len(vs) : vs[i] \in Slot
  <2>1. m \in Int /\ m >= 1 /\ Len(vs) \in Int /\ \A i \in m..Len(vs) : i \in 1..Len(vs)
    BY <1>1
  <2>2. \A i \in 1..Len(vs) : vs[i] \in Slot
    BY <1>1
  <2> QED BY <2>1, <2>2
<1>3. \A i \in 1..(Len(vs) - m + 1) : SubSeq(vs, m, Len(vs))[i] = vs[m + i - 1]
  BY <1>2, SubSeqProperties
<1>4. d = SubSeq(vs, m, Len(vs))
  BY DEF Dollar
<1> SUFFICES ASSUME NEW j \in 1..len PROVE d[j] = vs[Len(ss) - len + j]
  OBVIOUS
<1>5. j \in 1..(Len(vs) - m + 1) /\ m + j - 1 = Len(ss) - len + j
  BY <1>1
<1> HIDE DEF m
<1> QED BY <1>3, <1>4, <1>5

(* The state on top of the stack. *)
LEMMA Top ==
  ASSUME IInv
  PROVE  /\ yystate = ss[Len(ss)] /\ yystate \in State
         /\ Len(ss) \in Nat /\ Len(ss) >= 1
         /\ pc = "backup" => yystate # YYFINAL
  BY Spine DEF IInv, yystate, Last, Going

(* A reduction leaves a path of the automaton, and an int for its value unless
   it is the empty input's. *)
LEMMA ReductionFits ==
  ASSUME IInv, pc = "backup", NEW r, r = yydefact[yystate], r # 0,
         NEW len, len = yyr2[r], NEW d, d = Dollar(len),
         ~(r = 7 /\ Traps(d[1], d[3]))
  PROVE  /\ len \in 0..Len(ss) - 1
         /\ <<ss[Len(ss) - len], Goto(r, ss[Len(ss) - len])>> \in Moves
         /\ RuleValue(r, d) \in Slot
         /\ Len(ss) - len >= 2 => RuleValue(r, d) \in Ints
<1>1. PICK n, top : n = Len(ss) /\ top = ss[n]
  OBVIOUS
<1>2. /\ n \in Nat /\ n >= 1 /\ top \in State
      /\ top = 0 => n = 1
      /\ top = 3 => n >= 3 /\ ss[n - 1] \in {1, 4, 7, 8, 9, 10}
      /\ top = 11 => n = 4 /\ ss[n - 3] = 0
      /\ top \in 12..16 => n >= 5 /\ ss[n - 3] \in {1, 4, 7, 8, 9, 10}
  BY <1>1, Spine DEF IInv
<1>3. r = yydefact[top] /\ top # 2
  BY <1>1, Top DEF YYFINAL
<1>4. top \in {0, 3, 11, 12, 13, 14, 15, 16}
  BY <1>2, <1>3, DefactIs DEF State
<1>5. vs \in Seq(Slot) /\ Len(vs) = n /\ \A i \in 3..n : vs[i] \in Ints
  BY <1>1 DEF IInv, Values
<1>6. \A i \in 1..n : vs[i] \in Slot
  BY <1>5
<1>7. len \in 0..n => \A j \in 1..len : d[j] = vs[n - len + j]
  BY <1>1, DollarIs DEF IInv
<1>8. Ints \subseteq Slot /\ Junk \in Slot
  BY Bounds DEF Ints, Slot
<1>9. \A p \in {1, 4, 7, 8, 9, 10}, q \in 4..9 : <<p, Goto(q, p)>> \in Moves
  BY GotoIs DEF Moves
<1>10. CASE top = 0
  <2>1. r = 3 /\ len = 0 /\ n = 1
    BY <1>2, <1>3, <1>10, DefactIs, LengthIs
  <2>2. n - len = 1 /\ ss[1] = 0 /\ <<0, Goto(3, 0)>> \in Moves
    BY <2>1, GotoIs DEF Moves, IInv, Path
  <2>3. RuleValue(r, d) = Junk
    BY <2>1 DEF RuleValue
  <2> QED BY <1>1, <1>8, <2>1, <2>2, <2>3
<1>11. CASE top = 3
  <2>1. r = 8 /\ len = 1 /\ n >= 3 /\ ss[n - 1] \in {1, 4, 7, 8, 9, 10}
    BY <1>2, <1>3, <1>11, DefactIs, LengthIs
  <2>2. d[1] = vs[n - 1 + 1] /\ n - 1 + 1 = n /\ n \in 3..n
    BY <1>2, <1>7, <2>1
  <2>3. RuleValue(r, d) = vs[n]
    BY <2>1, <2>2 DEF RuleValue
  <2>4. RuleValue(r, d) \in Ints
    BY <1>5, <2>2, <2>3
  <2>5. <<ss[n - 1], Goto(8, ss[n - 1])>> \in Moves
    BY <1>9, <2>1
  <2> QED BY <1>1, <1>2, <1>8, <2>1, <2>4, <2>5
<1>12. CASE top = 11
  <2>1. r = 2 /\ len = 3 /\ n = 4 /\ n - 3 = 1 /\ ss[n - 3] = 0
    BY <1>2, <1>3, <1>12, DefactIs, LengthIs
  <2>2. d[1] = vs[2] /\ 2 \in 1..n
    BY <1>7, <2>1
  <2>3. RuleValue(r, d) = vs[2]
    BY <2>1, <2>2 DEF RuleValue
  <2>4. RuleValue(r, d) \in Slot
    BY <1>6, <2>2, <2>3
  <2>5. <<0, Goto(2, 0)>> \in Moves
    BY GotoIs DEF Moves
  <2>6. n - len = 1 /\ ss[n - len] = 0
    BY <2>1
  <2> QED BY <1>1, <2>1, <2>4, <2>5, <2>6
<1>13. CASE top = 12
  <2>1. r = 9 /\ len = 3 /\ n >= 5 /\ ss[n - 3] \in {1, 4, 7, 8, 9, 10}
    BY <1>2, <1>3, <1>13, DefactIs, LengthIs
  <2>2. d[2] = vs[n - 1] /\ n - 1 \in 3..n
    <3>1. d[2] = vs[n - 3 + 2] /\ n - 3 + 2 = n - 1 /\ n - 1 \in 3..n
      BY <1>2, <1>7, <2>1
    <3> QED BY <3>1
  <2>3. RuleValue(r, d) = vs[n - 1]
    BY <2>1, <2>2 DEF RuleValue
  <2>4. RuleValue(r, d) \in Ints
    BY <1>5, <2>2, <2>3
  <2>5. <<ss[n - 3], Goto(9, ss[n - 3])>> \in Moves
    BY <1>9, <2>1
  <2> QED BY <1>1, <1>2, <1>8, <2>1, <2>4, <2>5
<1>14. CASE top \in {13, 14, 15, 16}
  <2>1. r \in 4..7 /\ len = 3 /\ n >= 5 /\ ss[n - 3] \in {1, 4, 7, 8, 9, 10}
    BY <1>2, <1>3, <1>14, DefactIs, LengthIs
  <2>2. d[1] \in Ints /\ d[3] \in Ints
    <3>1. d[1] = vs[n - 3 + 1] /\ d[3] = vs[n - 3 + 3] /\ n - 3 + 1 \in 3..n /\ n - 3 + 3 \in 3..n
      BY <1>2, <1>7, <2>1
    <3> QED BY <1>5, <3>1
  <2>3. PICK o \in {"+", "-", "*", "/"} : o = <<"+", "-", "*", "/">>[r - 3] /\ (o = "/" => r = 7)
    BY <2>1
  <2>4. RuleValue(r, d) = Compute(o, d[1], d[3])
    BY <2>1, <2>3 DEF RuleValue
  <2>5. RuleValue(r, d) \in Ints
    BY <2>2, <2>3, <2>4, ComputeRange
  <2>6. <<ss[n - 3], Goto(r, ss[n - 3])>> \in Moves
    BY <1>9, <2>1
  <2> QED BY <1>1, <1>2, <1>8, <2>1, <2>5, <2>6
<1> QED BY <1>4, <1>10, <1>11, <1>12, <1>13, <1>14

(* A shift follows a transition of the automaton. *)
LEMMA ShiftMoves ==
  ASSUME IInv, Action > 0
  PROVE  <<ss[Len(ss)], Action>> \in Moves
<1>1. PICK top : top = yystate
  OBVIOUS
<1>2. PICK a : a = yytranslate(yychar.type)
  OBVIOUS
<1>3. a \in 0..10
  BY <1>2 DEF yytranslate
<1>4. top \in State /\ top = ss[Len(ss)]
  BY <1>1, Top
<1>5. yypact[top] # -6 /\ Action = Entry(yypact[top], a)
  BY <1>1, <1>2 DEF Action, NeedsToken, YYPACT_NINF
<1>6. top \in {1, 4, 5, 6, 7, 8, 9, 10, 13, 14}
  <2>1. \/ top \in {0, 2, 3, 11, 12, 15, 16}
        \/ top \in {1, 4, 5, 6, 7, 8, 9, 10, 13, 14}
    BY <1>4, <1>5 DEF State
  <2>2. top \notin {0, 2, 3, 11, 12, 15, 16}
    BY <1>4, <1>5, PactIs, Zenon
  <2> QED BY <2>1, <2>2
<1>7. PICK e : e = Action
  OBVIOUS
<1>8. <<top, e>> \in Moves
  <2>1. CASE top = 1
    <3>1. e = CASE a = 0 -> 2 [] a = 3 -> 3 [] a = 9 -> 4 [] OTHER -> 0
      BY <1>3, <1>5, <1>7, <2>1, PactIs, RowsAre
    <3>2. e > 0
      BY <1>7
    <3>3. e \in {2, 3, 4}
      BY <3>1, <3>2
    <3> QED BY <2>1, <3>3 DEF Moves
  <2>2. CASE top \in {4, 7, 8, 9, 10}
    <3>1. e = CASE a = 3 -> 3 [] a = 9 -> 4 [] OTHER -> 0
      BY <1>3, <1>5, <1>7, <2>2, PactIs, RowsAre
    <3>2. e > 0
      BY <1>7
    <3>3. e \in {3, 4}
      BY <3>1, <3>2
    <3> QED BY <2>2, <3>3 DEF Moves
  <2>3. CASE top = 5
    <3>1. e = IF a \in 4..8 THEN a + 3 ELSE 0
      BY <1>3, <1>5, <1>7, <2>3, PactIs, RowsAre
    <3>2. e > 0
      BY <1>7
    <3>3. e \in {7, 8, 9, 10, 11}
      BY <1>3, <3>1, <3>2
    <3> QED BY <2>3, <3>3 DEF Moves
  <2>4. CASE top = 6
    <3>1. e = IF a \in 4..7 THEN a + 3 ELSE IF a = 10 THEN 12 ELSE 0
      BY <1>3, <1>5, <1>7, <2>4, PactIs, RowsAre
    <3>2. e > 0
      BY <1>7
    <3>3. e \in {7, 8, 9, 10, 12}
      BY <1>3, <3>1, <3>2
    <3> QED BY <2>4, <3>3 DEF Moves
  <2>5. CASE top \in {13, 14}
    <3>1. e = IF a \in 6..7 THEN a + 3 ELSE 0
      BY <1>3, <1>5, <1>7, <2>5, PactIs, RowsAre
    <3>2. e > 0
      BY <1>7
    <3>3. e \in {9, 10}
      BY <1>3, <3>1, <3>2
    <3> QED BY <2>5, <3>3 DEF Moves
  <2> QED BY <1>6, <2>1, <2>2, <2>3, <2>4, <2>5
<1> QED BY <1>4, <1>7, <1>8

(* No state takes the error token. *)
LEMMA NoErrorProduction ==
  ASSUME IInv
  PROVE  (IF NeedsToken THEN Entry(yypact[yystate], YYTERROR) ELSE 0) = 0
<1>1. PICK top : top = yystate
  OBVIOUS
<1> SUFFICES ASSUME NeedsToken PROVE Entry(yypact[top], 1) = 0
  BY <1>1 DEF YYTERROR
<1>2. top \in State /\ yypact[top] # -6
  BY <1>1, Top DEF NeedsToken, YYPACT_NINF
<1>3. top \in {1, 4, 5, 6, 7, 8, 9, 10, 13, 14}
  <2>1. \/ top \in {0, 2, 3, 11, 12, 15, 16}
        \/ top \in {1, 4, 5, 6, 7, 8, 9, 10, 13, 14}
    BY <1>2 DEF State
  <2>2. top \notin {0, 2, 3, 11, 12, 15, 16}
    BY <1>2, PactIs, Zenon
  <2> QED BY <2>1, <2>2
<1>4. yypact[top] \in {0, 9, 15, 1, -5}
  <2>1. CASE top \in {7, 8, 9, 10}
    BY <2>1, PactIs
  <2>2. CASE top \in {1, 4, 5, 6, 13, 14}
    BY <2>2, PactIs
  <2> QED BY <1>3, <2>1, <2>2
<1>5. \A b \in {0, 9, 15, 1, -5} : Entry(b, 1) = 0
  BY RowsAre
<1> QED BY <1>4, <1>5

(* The invariant holds at first, ... *)
LEMMA InitInv == Init => IInv
<1> SUFFICES ASSUME Init PROVE IInv
  OBVIOUS
<1>1. /\ ss = <<0>> /\ vs = <<Junk>> /\ stacksize = YYINITDEPTH /\ yychar = YYEMPTY /\ lval = 0
      /\ errstatus = 0 /\ nerrs = 0 /\ pc = "backup" /\ result = 0
  BY DEF Init
<1>2. Path
  BY <1>1 DEF Path, State
<1>3. Values
  <2>1. vs \in Seq(Slot) /\ Len(vs) = 1 /\ Len(ss) = 1
    BY <1>1 DEF Slot
  <2>2. lval \in Ints
    BY <1>1, Bounds DEF Ints
  <2> QED BY <2>1, <2>2 DEF Values
<1>4. Going /\ Room
  BY <1>1, ParserAssumption DEF Going, Room, YYFINAL
<1>5. TypeOK
  BY <1>1, ParserAssumption DEF TypeOK
<1> QED BY <1>2, <1>3, <1>4, <1>5 DEF IInv
-----------------------------------------------------------------------------
(* Every step keeps the invariant. *)

(* ... a token that is read keeps it, ... *)
LEMMA LexKeeps ==
  ASSUME IInv, NEW t \in Lexemes \cup {EndLexeme}, Lex(t)
  PROVE  IInv'
<1>1. /\ ss' = ss /\ vs' = vs /\ stacksize' = stacksize /\ errstatus' = errstatus
      /\ nerrs' = nerrs /\ pc' = pc /\ result' = result /\ yychar' = t
  BY DEF Lex
<1>2. lval' \in Ints
  <2>1. lval' = lval \/ (t.type = T_NUM /\ lval' = t.val)
    BY DEF Lex
  <2>2. CASE t \in Lexemes
    <3>1. t.val \in Ints
      BY <2>2, ParserAssumption DEF Ints, INT_MIN
    <3> QED BY <2>1, <3>1 DEF IInv, Values
  <2>3. CASE t = EndLexeme
    <3>1. t.val = 0
      BY <2>3 DEF EndLexeme
    <3> QED BY <2>1, <3>1, Bounds DEF IInv, Values, Ints
  <2> QED BY <2>2, <2>3
<1>3. Path' /\ Values' /\ Going' /\ Room'
  BY <1>1, <1>2 DEF IInv, Path, Values, Going, Room
<1>4. TypeOK'
  BY <1>1 DEF IInv, TypeOK
<1> QED BY <1>3, <1>4 DEF IInv

(* A push where nothing else of the invariant changes but the lookahead. *)
LEMMA PushedKeeps ==
  ASSUME IInv, pc = "backup", NEW k \in 0..Len(ss) - 1, NEW s, NEW v \in Slot,
         <<ss[Len(ss) - k], s>> \in Moves, Len(ss) - k >= 2 => v \in Ints,
         yynewstate(k, s, v),
         lval' = lval, nerrs' = nerrs, errstatus' = 0, yychar' \in {yychar, YYEMPTY}
  PROVE  IInv'
<1>1. /\ Path' /\ stacksize' \in YYINITDEPTH..YYMAXDEPTH
      /\ vs' \in Seq(Slot) /\ Len(vs') = Len(ss')
      /\ \A i \in 3..Len(vs') : vs'[i] \in Ints
      /\ pc' \in {"backup", "return"} /\ result' \in 0..2
      /\ pc' = "backup" => ss'[Len(ss')] # YYFINAL /\ Len(ss') < stacksize'
  BY PushKeeps
<1>2. lval' \in Ints /\ nerrs' = 0 /\ yychar' \in Lexemes \cup {EndLexeme, YYEMPTY}
  BY DEF IInv, Values, Going, TypeOK
<1>3. Values'
  BY <1>1, <1>2 DEF Values
<1>4. Going' /\ Room'
  BY <1>1, <1>2 DEF Going, Room
<1>5. TypeOK'
  <2>1. Len(ss') = Len(vs') /\ \A i \in DOMAIN ss' : ss'[i] \in 0..16
    <3>1. ss' \in Seq(0..16)
      BY <1>1 DEF Path, State
    <3> QED BY <1>1, <3>1
  <2>2. \A i \in 3..Len(vs') : vs'[i] \in INT_MIN..INT_MAX
    BY <1>1 DEF Ints
  <2> QED BY <1>1, <1>2, <2>1, <2>2 DEF TypeOK
<1> QED BY <1>1, <1>3, <1>4, <1>5 DEF IInv

(* ... and so does a shift, ... *)
LEMMA ShiftKeeps == ASSUME IInv, Shift PROVE IInv'
<1>1. pc = "backup" /\ errstatus = 0
  BY DEF Shift, Deciding, IInv, Going
<1>2. /\ Action > 0 /\ errstatus' = 0 /\ yychar' = YYEMPTY /\ yynewstate(0, Action, lval)
      /\ lval' = lval /\ nerrs' = nerrs
  BY <1>1 DEF Shift
<1>3. Len(ss) \in Nat /\ 0 \in 0..Len(ss) - 1 /\ Len(ss) - 0 = Len(ss)
  BY Top
<1>4. <<ss[Len(ss) - 0], Action>> \in Moves
  BY <1>2, <1>3, ShiftMoves
<1>5. lval \in Ints /\ lval \in Slot
  BY Bounds DEF IInv, Values, Ints, Slot
<1> QED BY <1>1, <1>2, <1>3, <1>4, <1>5, PushedKeeps

(* ... a reduction, ... *)
LEMMA ReduceKeeps == ASSUME IInv, yyreduce PROVE IInv'
<1>1. PICK r, len : r = yydefact[yystate] /\ len = yyr2[r]
  OBVIOUS
<1>2. PICK d : d = Dollar(len)
  OBVIOUS
<1>3. pc = "backup" /\ r # 0 /\ errstatus = 0
  BY <1>1 DEF yyreduce, Deciding, IInv, Going
<1>4. /\ yychar' = yychar /\ lval' = lval /\ errstatus' = errstatus /\ nerrs' = nerrs
      /\ IF r = 7 /\ Traps(d[1], d[3])
         THEN pc' = "killed" /\ UNCHANGED <<ss, vs, stacksize, result, out>>
         ELSE yynewstate(len, Goto(r, ss[Len(ss) - len]), RuleValue(r, d))
  BY <1>1, <1>2 DEF yyreduce, Dollar
<1>5. CASE r = 7 /\ Traps(d[1], d[3])
  <2>1. /\ pc' = "killed" /\ ss' = ss /\ vs' = vs /\ stacksize' = stacksize /\ result' = result
    BY <1>4, <1>5
  <2>2. Path' /\ Values' /\ Going' /\ Room'
    BY <1>4, <2>1 DEF IInv, Path, Values, Going, Room
  <2>3. TypeOK'
    BY <1>4, <2>1 DEF IInv, TypeOK
  <2> QED BY <2>2, <2>3 DEF IInv
<1>6. CASE ~(r = 7 /\ Traps(d[1], d[3]))
  <2>1. /\ len \in 0..Len(ss) - 1
        /\ <<ss[Len(ss) - len], Goto(r, ss[Len(ss) - len])>> \in Moves
        /\ RuleValue(r, d) \in Slot
        /\ Len(ss) - len >= 2 => RuleValue(r, d) \in Ints
    BY <1>1, <1>2, <1>3, <1>6, ReductionFits
  <2>2. PICK s, v : s = Goto(r, ss[Len(ss) - len]) /\ v = RuleValue(r, d)
    OBVIOUS
  <2>3. yynewstate(len, s, v)
    BY <1>4, <1>6, <2>2
  <2> QED BY <1>3, <1>4, <2>1, <2>2, <2>3, PushedKeeps
<1> QED BY <1>5, <1>6

(* ... an error that is met, ... *)
LEMMA ErrorKeeps == ASSUME IInv, yyerrlab PROVE IInv'
<1>1. pc = "backup" /\ errstatus = 0 /\ nerrs = 0
  BY DEF yyerrlab, Deciding, IInv, Going
<1>2. /\ nerrs' = 1 /\ yychar' = yychar /\ errstatus' = 3 /\ pc' = "pop" /\ result' = result
      /\ ss' = ss /\ vs' = vs /\ stacksize' = stacksize /\ lval' = lval
  BY <1>1 DEF yyerrlab
<1>3. Path' /\ Values' /\ Going' /\ Room'
  BY <1>1, <1>2 DEF IInv, Path, Values, Going, Room
<1>4. TypeOK'
  BY <1>2 DEF IInv, TypeOK
<1> QED BY <1>3, <1>4 DEF IInv

(* ... a state that is popped for it, ... *)
LEMMA PopKeeps == ASSUME IInv, yyerrlab1 PROVE IInv'
<1>1. /\ pc = "pop"
      /\ yychar' = yychar /\ lval' = lval /\ errstatus' = errstatus /\ nerrs' = nerrs
      /\ IF Len(ss) = 1 THEN Stop(1) /\ UNCHANGED <<ss, vs, stacksize>>
         ELSE ss' = Front(ss) /\ vs' = Front(vs) /\ UNCHANGED <<stacksize, pc, result>>
  BY NoErrorProduction DEF yyerrlab1
<1>2. CASE Len(ss) = 1
  <2>1. pc' = "return" /\ result' = 1 /\ ss' = ss /\ vs' = vs /\ stacksize' = stacksize
    BY <1>1, <1>2 DEF Stop
  <2>2. Path' /\ Values' /\ Going' /\ Room'
    BY <1>1, <2>1 DEF IInv, Path, Values, Going, Room
  <2>3. TypeOK'
    BY <1>1, <2>1 DEF IInv, TypeOK
  <2> QED BY <2>2, <2>3 DEF IInv
<1>3. CASE Len(ss) # 1
  <2>1. PICK m : m = Len(ss) - 1
    OBVIOUS
  <2>2. ss \in Seq(State) /\ vs \in Seq(Slot) /\ Len(vs) = Len(ss) /\ m \in Nat /\ m >= 1 /\ Len(ss) = m + 1
    BY <1>3, <2>1, LenProperties DEF IInv, Path, Values
  <2>3. ss' \in Seq(State) /\ Len(ss') = m /\ \A i \in 1..m : ss'[i] = ss[i]
    <3>1. ss' = SubSeq(ss, 1, m)
      BY <1>1, <1>3, <2>1 DEF Front
    <3>2. \A i \in 1..m : ss[i] \in State
      BY <2>2
    <3> QED BY <2>2, <3>1, <3>2, SubSeqProperties
  <2>4. vs' \in Seq(Slot) /\ Len(vs') = m /\ \A i \in 1..m : vs'[i] = vs[i]
    <3>1. vs' = SubSeq(vs, 1, m)
      BY <1>1, <1>3, <2>1, <2>2 DEF Front
    <3>2. \A i \in 1..m : vs[i] \in Slot
      BY <2>2
    <3> QED BY <2>2, <3>1, <3>2, SubSeqProperties
  <2>5. stacksize' = stacksize /\ pc' = pc /\ result' = result
    BY <1>1, <1>3
  <2>6. Path'
    <3>1. ss'[1] = 0
      BY <2>2, <2>3 DEF IInv, Path
    <3>2. \A i \in 2..m : i \in 2..Len(ss) /\ i \in 1..m /\ i - 1 \in 1..m
      BY <2>2
    <3>3. \A i \in 2..m : <<ss'[i - 1], ss'[i]>> \in Moves
      BY <2>3, <3>2 DEF IInv, Path
    <3> QED BY <2>2, <2>3, <3>1, <3>3 DEF Path
  <2>7. Values'
    <3>1. \A i \in 3..m : i \in 3..Len(vs) /\ i \in 1..m
      BY <2>2
    <3>2. \A i \in 3..m : vs'[i] \in Ints
      BY <2>4, <3>1 DEF IInv, Values
    <3>3. lval' \in Ints
      BY <1>1 DEF IInv, Values
    <3> QED BY <2>3, <2>4, <3>2, <3>3 DEF Values
  <2>8. Going' /\ Room'
    <3>1. Len(ss) < stacksize /\ stacksize \in Int
      BY <1>1, ParserAssumption DEF IInv, Room, TypeOK
    <3> QED BY <1>1, <2>2, <2>3, <2>5, <3>1 DEF Going, Room
  <2>9. TypeOK'
    <3>1. Len(ss') = Len(vs') /\ \A i \in DOMAIN ss' : ss'[i] \in 0..16
      BY <2>3, <2>4 DEF State
    <3>2. \A i \in 3..Len(vs') : vs'[i] \in INT_MIN..INT_MAX
      BY <2>7 DEF Values, Ints
    <3> QED BY <1>1, <2>5, <3>1, <3>2 DEF IInv, TypeOK
  <2> QED BY <2>6, <2>7, <2>8, <2>9 DEF IInv
<1> QED BY <1>2, <1>3

(* ... the end of yyparse, ... *)
LEMMA ReturnKeeps == ASSUME IInv, yyreturn PROVE IInv'
<1>1. /\ pc' = "done" /\ ss' = <<0>> /\ vs' = <<Junk>> /\ stacksize' = YYINITDEPTH
      /\ yychar' = yychar /\ lval' = lval /\ errstatus' = errstatus /\ nerrs' = nerrs
      /\ result' = result
  BY DEF yyreturn
<1>2. Path'
  BY <1>1 DEF Path, State
<1>3. Values'
  <2>1. vs' \in Seq(Slot) /\ Len(vs') = 1 /\ Len(ss') = 1
    BY <1>1 DEF Slot
  <2>2. lval' \in Ints
    BY <1>1 DEF IInv, Values
  <2> QED BY <2>1, <2>2 DEF Values
<1>4. Going' /\ Room'
  BY <1>1 DEF Going, Room
<1>5. TypeOK'
  <2>1. Len(ss') = Len(vs') /\ \A i \in DOMAIN ss' : ss'[i] \in 0..16
    BY <1>2, <1>3 DEF Path, Values, State
  <2>2. \A i \in 3..Len(vs') : vs'[i] \in INT_MIN..INT_MAX
    BY <1>3 DEF Values, Ints
  <2> QED BY <1>1, <2>1, <2>2, ParserAssumption DEF IInv, TypeOK
<1> QED BY <1>2, <1>3, <1>4, <1>5 DEF IInv

(* ... and a step that changes nothing. *)
LEMMA Stutters == ASSUME IInv, UNCHANGED vars PROVE IInv'
  BY DEF vars, IInv, TypeOK, Path, Values, Going, Room

(* So it is an invariant. *)
LEMMA Invariance == Spec => []IInv
<1>1. ASSUME IInv, [Next]_vars PROVE IInv'
  <2>1. CASE Shift
    BY <1>1, <2>1, ShiftKeeps
  <2>2. CASE yyreduce
    BY <1>1, <2>2, ReduceKeeps
  <2>3. CASE yyerrlab
    BY <1>1, <2>3, ErrorKeeps
  <2>4. CASE yyerrlab1
    BY <1>1, <2>4, PopKeeps
  <2>5. CASE yyreturn
    BY <1>1, <2>5, ReturnKeeps
  <2>6. CASE \E t \in Lexemes : Lex(t)
    BY <1>1, <2>6, LexKeeps
  <2>7. CASE Lex(EndLexeme)
    BY <1>1, <2>7, LexKeeps
  <2>8. CASE UNCHANGED vars
    BY <1>1, <2>8, Stutters
  <2> QED BY <1>1, <2>1, <2>2, <2>3, <2>4, <2>5, <2>6, <2>7, <2>8 DEF Next, Step
<1> QED BY <1>1, InitInv, PTL DEF Spec

(* The parser keeps its types: its stacks hold states of the automaton and, but
   for the value of the empty input, ints; its sizes stay between the two
   depths. *)
THEOREM TypeCorrect == Spec => []TypeOK
<1>1. IInv => TypeOK
  BY DEF IInv
<1> QED BY <1>1, Invariance, PTL

(* No push of a state or of a value goes past the end of the stacks, whatever
   the depths, the input and the answers of malloc (y.tab.c lines 1021-1101). *)
THEOREM PushAlwaysFits == Spec => []PushFits
<1>1. IInv => PushFits
  BY DEF IInv, Room, PushFits
<1> QED BY <1>1, Invariance, PTL
=============================================================================
