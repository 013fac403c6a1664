----------------------------- MODULE Algorithms -----------------------------
(***************************************************************************)
(* The exercises of src/tests-edu/leetcode.cc and ltweek1.cc that compute  *)
(* an answer from their input: longestPalindrome, twoSum,                  *)
(* numberOf2sInRange, numDifferentIntegers and evaluate.  A job is one     *)
(* call.  Characters are numbers: a digit is itself, a letter is negative. *)
(***************************************************************************)
EXTENDS SequencesExt, FiniteSetsExt, Integers

CONSTANTS
  MaxWord,    (* bound of the model: the longest word                      *)
  NumberBits  (* of the uint64_t of numberOf2sInRange, 64 in the code      *)

VARIABLES
  job,     (* the function called, with its arguments                      *)
  result,  (* what it returned, as a sequence                              *)
  solved

algorithmVars == <<job, result, solved>>

Letter == -1
Open == -2
Close == -3
Wide == 2 ^ NumberBits
-----------------------------------------------------------------------------
(* lc5: subl and stofs of the interval i..j, the longest palindrome in it and
   where it starts.  Cells with i > j stay zero. *)
Grows(s, i, j, inner) == s[i] = s[j] /\ inner = j - i - 1

Cell(s) ==
  LET cell[i \in 1..Len(s) + 1, j \in 0..Len(s)] ==
        IF i >= j THEN [subl |-> IF i = j THEN 1 ELSE 0, stofs |-> IF i = j THEN i ELSE 0]
        ELSE LET inner == cell[i + 1, j - 1].subl
                 m == IF Grows(s, i, j, inner) THEN inner + 2 ELSE 0
                 right == cell[i + 1, j]
                 left == cell[i, j - 1]
             IN  IF m > right.subl /\ m > left.subl THEN [subl |-> m, stofs |-> i]
                 ELSE IF right.subl > left.subl THEN right ELSE left
  IN  cell

(* substr throws where the string is empty: stofs - 1 is then beyond it. *)
Threw == <<Letter>>
longestPalindrome(s) ==
  IF s = <<>> THEN Threw
  ELSE LET best == Cell(s)[1, Len(s)]
       IN  SubSeq(s, best.stofs, best.stofs + best.subl - 1)

(* lc1: the places the map has when the loop is at i, the later of two equal
   numbers; then the first i whose partner is there. *)
Entered(i) == 1..(i - 1)

Partner(nums, target, i) == Max({j \in Entered(i) : nums[j] = target - nums[i]} \cup {0})
twoSum(nums, target) ==
  LET hits == {i \in DOMAIN nums : Partner(nums, target, i) # 0}
  IN  IF hits = {} THEN <<>> ELSE <<Min(hits), Partner(nums, target, Min(hits))>>

(* lc17_06: how often 2 is the digit of weight 10^k in 0..n; power * 10 wraps. *)
Digit(n, k) == (n \div 10 ^ k) % 10
Digits(n) == Min({k \in 0..(NumberBits \div 3 + 1) : 10 ^ k > n})

Rest_short(n, power) == n % power
Rest(n, power) == n + 1 - (n \div power) * power

countDigitInKSlot(n, k) ==
  LET power == 10 ^ k
      rounds == n \div ((power * 10) % Wide)
      d == Digit(n, k)
  IN  CASE d < 2 -> rounds * power
        [] d > 2 -> (rounds + 1) * power
        [] d = 2 -> rounds * power + Rest(n, power)
numberOf2sInRange(n) ==
  MapThenFoldSet(+, 0, LAMBDA k : countDigitInKSlot(n, k),
                 LAMBDA S : CHOOSE k \in S : TRUE, 0..(Digits(n) - 1)) % Wide

(* Solution1: the runs of digits, by their first and last place. *)
isdigit(c) == c >= 0
Runs(word) ==
  {r \in (DOMAIN word) \X (DOMAIN word) :
     /\ \A p \in r[1]..r[2] : isdigit(word[p])
     /\ r[1] <= r[2]
     /\ r[1] = 1 \/ ~isdigit(word[r[1] - 1])
     /\ r[2] = Len(word) \/ ~isdigit(word[r[2] + 1])}

(* A run of zeros is skipped up to the character behind it. *)
findnotzero(word, r) ==
  SubSeq(word, Min({p \in r[1]..r[2] : word[p] # 0} \cup {r[2] + 1}), r[2])
numDifferentIntegers(word) == Cardinality({findnotzero(word, r) : r \in Runs(word)})

(* Solution2: the stretches between brackets, and whether the last bracket
   before each opened. *)
Bracket(at, conv) == [at EXCEPT !.state = 0, !.need_conv = conv]
Plain(at, c) ==
  [at EXCEPT !.state = 1, !.allstrings =
     IF at.state = 0 THEN Append(@, [st |-> <<c>>, conv |-> at.need_conv])
     ELSE [@ EXCEPT ![Len(@)].st = Append(@, c)]]
Scanned(at, c) ==
  CASE c = Open -> Bracket(at, TRUE) [] c = Close -> Bracket(at, FALSE) [] OTHER -> Plain(at, c)

Question == <<Letter - 9>>
GetConvStr(knowledge, k) ==
  LET of == {i \in DOMAIN knowledge : knowledge[i][1] = k}
  IN  IF of = {} THEN Question ELSE knowledge[Max(of)][2]

evaluate(s, knowledge) ==
  LET all == FoldLeft(Scanned, [state |-> 0, need_conv |-> FALSE, allstrings |-> <<>>], s).allstrings
  IN  FlattenSeq([i \in DOMAIN all |->
        IF all[i].conv THEN GetConvStr(knowledge, all[i].st) ELSE all[i].st])
-----------------------------------------------------------------------------
Words(C, n) == UNION {[1..k -> C] : k \in 0..n}

(* The pieces of an expression: a letter, or a key of one or two letters. *)
Pieces == {[key |-> FALSE, text |-> <<7>>]} \cup [key : {TRUE}, text : {<<7>>, <<8>>, <<7, 8>>}]
Written(p) == IF p.key THEN <<Open>> \o p.text \o <<Close>> ELSE p.text
Joined(ps) == FlattenSeq([i \in DOMAIN ps |-> Written(ps[i])])
Knowledge == Words({<<<<7>>, <<5>>>>, <<<<7>>, <<6, 6>>>>, <<<<7, 8>>, <<5>>>>}, 2)

Init ==
  /\ result = <<>> /\ solved = FALSE
  /\ \/ \E w \in Words({1, 2}, MaxWord + 1) : job = [f |-> "longestPalindrome", s |-> w]
     \/ \E w \in Words(-1..1, MaxWord - 1), t \in -2..2 : job = [f |-> "twoSum", s |-> w, target |-> t]
     \/ \E n \in 0..(Wide - 1) : job = [f |-> "numberOf2sInRange", n |-> n]
     \/ \E w \in Words({Letter, 0, 1}, MaxWord) : job = [f |-> "numDifferentIntegers", s |-> w]
     \/ \E ps \in Words(Pieces, MaxWord - 2), k \in Knowledge :
          job = [f |-> "evaluate", pieces |-> ps, s |-> Joined(ps), knowledge |-> k]

Solve ==
  /\ ~solved /\ solved' = TRUE /\ UNCHANGED job
  /\ result' = CASE job.f = "longestPalindrome" -> longestPalindrome(job.s)
                 [] job.f = "twoSum" -> twoSum(job.s, job.target)
                 [] job.f = "numberOf2sInRange" -> <<numberOf2sInRange(job.n)>>
                 [] job.f = "numDifferentIntegers" -> <<numDifferentIntegers(job.s)>>
                 [] job.f = "evaluate" -> evaluate(job.s, job.knowledge)
-----------------------------------------------------------------------------
Answered(f) == solved /\ job.f = f

(* The answer is a palindrome of the string and none of its palindromes is
   longer; only the empty string throws (leetcode.cc lines 28-60). *)
Stretches(s) == {SubSeq(s, r[1], r[2]) : r \in {q \in (DOMAIN s) \X (DOMAIN s) : q[1] <= q[2]}}
Palindromes(s) == {p \in Stretches(s) : Reverse(p) = p}
LongestFound ==
  Answered("longestPalindrome") =>
    IF job.s = <<>> THEN result = Threw
    ELSE /\ result \in Palindromes(job.s)
         /\ \A p \in Palindromes(job.s) : Len(p) <= Len(result)

(* The answer is two different places with the sum asked for, and it is empty
   only if no two places have it (leetcode.cc lines 74-88). *)
PairFound ==
  Answered("twoSum") =>
    LET Pairs == {p \in (DOMAIN job.s) \X (DOMAIN job.s) :
                    p[1] # p[2] /\ job.s[p[1]] + job.s[p[2]] = job.target}
    IN  IF Pairs = {} THEN result = <<>> ELSE result \in Pairs

(* The digits are counted right for every number so short that the power of ten
   above it fits the integer; for a longer one, power * 10 has wrapped
   (leetcode.cc lines 262-290). *)
TwosCounted ==
  Answered("numberOf2sInRange") =>
    LET n == job.n
    IN  10 ^ Digits(n) < Wide =>
          result = <<Cardinality({p \in (0..n) \X (0..Digits(n)) : Digit(p[1], p[2]) = 2})>>

(* Two runs count once exactly if they are the same number (ltweek1.cc lines
   20-60). *)
Numeral(word, r) == FoldLeft(LAMBDA v, d : 10 * v + d, 0, SubSeq(word, r[1], r[2]))
IntegersCounted ==
  Answered("numDifferentIntegers") =>
    result = <<Cardinality({Numeral(job.s, r) : r \in Runs(job.s)})>>

(* Every bracketed key is replaced by the value given last for it, or by a
   question mark, and the rest is kept (ltweek1.cc lines 87-140). *)
Replaced(p) == IF p.key THEN GetConvStr(job.knowledge, p.text) ELSE p.text
Evaluated ==
  Answered("evaluate") =>
    result = FlattenSeq([i \in DOMAIN job.pieces |-> Replaced(job.pieces[i])])

(* Each function answers what it is for (leetcode.cc and ltweek1.cc, at the
   lines above). *)
AnswersRight == LongestFound /\ PairFound /\ TwosCounted /\ IntegersCounted /\ Evaluated
=============================================================================
