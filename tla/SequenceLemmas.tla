--------------------------- MODULE SequenceLemmas ---------------------------
(***************************************************************************)
(* What taking an element out of a sequence, or putting one in, leaves of  *)
(* it: the lemmas that the proofs about linked lists and queues share.     *)
(***************************************************************************)
EXTENDS Integers, SequenceTheorems, WellFoundedInduction, TLAPS

(* Removing the j-th element closes the gap. *)
LEMMA Removed ==
  ASSUME NEW S, NEW s \in Seq(S), NEW j \in 1..Len(s)
  PROVE  LET t == SubSeq(s, 1, j - 1) \o SubSeq(s, j + 1, Len(s))
         IN  /\ t \in Seq(S) /\ Len(t) = Len(s) - 1
             /\ \A i \in 1..(Len(s) - 1) : t[i] = IF i < j THEN s[i] ELSE s[i + 1]
<1> DEFINE n == Len(s)
           a == SubSeq(s, 1, j - 1)
           b == SubSeq(s, j + 1, n)
<1>1. n \in Nat /\ \A i \in 1..n : s[i] \in S
  BY LenProperties
<1> HIDE DEF n
<1>2. j \in 1..n
  BY DEF n
<1>3. a \in Seq(S) /\ Len(a) = j - 1 /\ \A i \in 1..(j - 1) : a[i] = s[i]
  <2>1. \A i \in 1..(j - 1) : s[i] \in S
    BY <1>1, <1>2
  <2>2. /\ a \in Seq(S) /\ Len(a) = IF 1 <= j - 1 THEN (j - 1) - 1 + 1 ELSE 0
        /\ \A i \in 1..((j - 1) - 1 + 1) : a[i] = s[1 + i - 1]
    BY <1>2, <2>1, SubSeqProperties
  <2> HIDE DEF a
  <2>3. \A i \in 1..(j - 1) : i \in 1..((j - 1) - 1 + 1) /\ 1 + i - 1 = i
    BY <1>2, SMT
  <2> QED BY <1>2, <2>2, <2>3, SMT
<1>4. b \in Seq(S) /\ Len(b) = n - j /\ \A i \in 1..(n - j) : b[i] = s[j + i]
  <2>1. \A i \in (j + 1)..n : s[i] \in S
    BY <1>1, <1>2
  <2>2. /\ b \in Seq(S) /\ Len(b) = IF j + 1 <= n THEN n - (j + 1) + 1 ELSE 0
        /\ \A i \in 1..(n - (j + 1) + 1) : b[i] = s[(j + 1) + i - 1]
    BY <1>1, <1>2, <2>1, SubSeqProperties
  <2> HIDE DEF b
  <2>3. \A i \in 1..(n - j) : i \in 1..(n - (j + 1) + 1) /\ (j + 1) + i - 1 = j + i
    BY <1>1, <1>2, SMT
  <2> QED BY <1>1, <1>2, <2>2, <2>3, SMT
<1> HIDE DEF a, b
<1>5. /\ a \o b \in Seq(S) /\ Len(a \o b) = (j - 1) + (n - j)
      /\ \A i \in 1..((j - 1) + (n - j)) :
           (a \o b)[i] = IF i <= j - 1 THEN a[i] ELSE b[i - (j - 1)]
  <2>1. /\ a \o b \in Seq(S) /\ Len(a \o b) = Len(a) + Len(b)
        /\ \A i \in 1..(Len(a) + Len(b)) :
             (a \o b)[i] = IF i <= Len(a) THEN a[i] ELSE b[i - Len(a)]
    BY <1>3, <1>4, ConcatProperties
  <2>2. Len(a) = j - 1 /\ Len(b) = n - j
    BY <1>3, <1>4
  <2> QED BY <2>1, <2>2
<1>6. Len(a \o b) = n - 1
  BY <1>1, <1>2, <1>5, SMT
<1>7. ASSUME NEW i \in 1..(n - 1) PROVE (a \o b)[i] = IF i < j THEN s[i] ELSE s[i + 1]
  <2>1. i \in 1..((j - 1) + (n - j))
    BY <1>1, <1>2, SMT
  <2>2. CASE i < j
    <3>1. i <= j - 1 /\ i \in 1..(j - 1)
      BY <1>2, <2>2, SMT
    <3> QED BY <1>3, <1>5, <2>1, <2>2, <3>1
  <2>3. CASE ~(i < j)
    <3>1. ~(i <= j - 1) /\ i - (j - 1) \in 1..(n - j) /\ j + (i - (j - 1)) = i + 1
      BY <1>1, <1>2, <2>3, SMT
    <3> QED BY <1>4, <1>5, <2>1, <2>3, <3>1
  <2> QED BY <2>2, <2>3
<1> QED BY <1>5, <1>6, <1>7 DEF a, b, n

(* An element in front moves the others by one. *)
LEMMA Prepended ==
  ASSUME NEW S, NEW s \in Seq(S), NEW x \in S
  PROVE  /\ <<x>> \o s \in Seq(S) /\ Len(<<x>> \o s) = Len(s) + 1
         /\ \A i \in 1..(Len(s) + 1) : (<<x>> \o s)[i] = IF i = 1 THEN x ELSE s[i - 1]
<1>1. <<x>> \in Seq(S) /\ Len(<<x>>) = 1 /\ <<x>>[1] = x
  OBVIOUS
<1>2. Len(s) \in Nat
  BY LenProperties
<1>3. /\ <<x>> \o s \in Seq(S) /\ Len(<<x>> \o s) = 1 + Len(s)
      /\ \A i \in 1..(1 + Len(s)) : (<<x>> \o s)[i] = IF i <= 1 THEN <<x>>[i] ELSE s[i - 1]
  BY <1>1, ConcatProperties
<1>4. \A i \in 1..(Len(s) + 1) : i \in 1..(1 + Len(s)) /\ (i <= 1 <=> i = 1)
  BY <1>2, SMT
<1>5. Len(<<x>> \o s) = Len(s) + 1
  BY <1>2, <1>3, SMT
<1> QED BY <1>1, <1>3, <1>4, <1>5

(* The j-th element of s gives way to x at the front. *)
InFront(x, s, j) == <<x>> \o (SubSeq(s, 1, j - 1) \o SubSeq(s, j + 1, Len(s)))
Moved(t, x, s, j) ==
  /\ Len(t) = Len(s)
  /\ \A i \in 1..Len(s) : t[i] = IF i = 1 THEN x ELSE IF i <= j THEN s[i - 1] ELSE s[i]

(* So it is when the j-th element is taken out and x put in front. *)
LEMMA MovedToFront ==
  ASSUME NEW S, NEW s \in Seq(S), NEW j \in 1..Len(s), NEW x \in S
  PROVE  InFront(x, s, j) \in Seq(S) /\ Moved(InFront(x, s, j), x, s, j)
<1> DEFINE r == SubSeq(s, 1, j - 1) \o SubSeq(s, j + 1, Len(s))
           n == Len(s)
<1>1. n \in Nat
  BY LenProperties
<1>2. /\ r \in Seq(S) /\ Len(r) = n - 1
      /\ \A i \in 1..(n - 1) : r[i] = IF i < j THEN s[i] ELSE s[i + 1]
  BY Removed
<1> HIDE DEF r
<1>3. /\ <<x>> \o r \in Seq(S) /\ Len(<<x>> \o r) = Len(r) + 1
      /\ \A i \in 1..(Len(r) + 1) : (<<x>> \o r)[i] = IF i = 1 THEN x ELSE r[i - 1]
  BY <1>2, Prepended
<1>4. j \in 1..n
  OBVIOUS
<1> HIDE DEF n
<1>5. Len(r) + 1 = n
  BY <1>1, <1>2, SMT
<1>6. ASSUME NEW i \in 1..n, i # 1
      PROVE  r[i - 1] = IF i <= j THEN s[i - 1] ELSE s[i]
  <2>1. i - 1 \in 1..(n - 1) /\ (i - 1 < j <=> i <= j) /\ (i - 1) + 1 = i
    BY <1>1, <1>4, <1>6, SMT
  <2> QED BY <1>2, <2>1
<1> QED BY <1>3, <1>5, <1>6 DEF r, n, InFront, Moved

-----------------------------------------------------------------------------
(* Queues in which some of the elements may wait once only. *)

Elements(s) == {s[i] : i \in DOMAIN s}
OnceIn(s, E) == \A i, j \in DOMAIN s : s[i] = s[j] /\ s[i] \in E => i = j

(* The j-th entry is unlinked. *)
LEMMA Unlinked ==
  ASSUME NEW S, NEW s \in Seq(S), NEW j \in 1..Len(s), NEW E, OnceIn(s, E)
  PROVE  LET t == SubSeq(s, 1, j - 1) \o SubSeq(s, j + 1, Len(s))
         IN  /\ t \in Seq(S) /\ OnceIn(t, E)
             /\ Elements(s) = Elements(t) \cup {s[j]}
             /\ s[j] \in E => s[j] \notin Elements(t)
<1> DEFINE t == SubSeq(s, 1, j - 1) \o SubSeq(s, j + 1, Len(s))
           n == Len(s)
           at(i) == IF i < j THEN i ELSE i + 1
<1>1. n \in Nat /\ DOMAIN s = 1..n
  BY LenProperties
<1>2. /\ t \in Seq(S) /\ Len(t) = n - 1
      /\ \A i \in 1..(n - 1) : t[i] = IF i < j THEN s[i] ELSE s[i + 1]
  BY Removed
<1> HIDE DEF t
<1>3. DOMAIN t = 1..(n - 1) /\ j \in 1..n
  BY <1>2, LenProperties
<1> HIDE DEF n
<1>4. /\ \A i \in 1..(n - 1) : at(i) \in 1..n /\ at(i) # j
      /\ \A i, k \in 1..(n - 1) : at(i) = at(k) => i = k
      /\ \A k \in 1..n : k # j => \E i \in 1..(n - 1) : at(i) = k
  <2>1. ASSUME NEW k \in 1..n, k # j PROVE \E i \in 1..(n - 1) : at(i) = k
    <3>1. CASE k < j
      <4>1. k \in 1..(n - 1) /\ at(k) = k
        BY <1>1, <1>3, <3>1, SMT
      <4> QED BY <4>1
    <3>2. CASE ~(k < j)
      <4>1. k - 1 \in 1..(n - 1) /\ at(k - 1) = k
        BY <1>1, <1>3, <2>1, <3>2, SMT
      <4> QED BY <4>1
    <3> QED BY <3>1, <3>2
  <2>2. \A i \in 1..(n - 1) : at(i) \in 1..n /\ at(i) # j
    BY <1>1, <1>3, SMT
  <2>3. \A i, k \in 1..(n - 1) : at(i) = at(k) => i = k
    BY <1>1, <1>3, SMT
  <2> QED BY <2>1, <2>2, <2>3
<1>5. \A i \in 1..(n - 1) : t[i] = s[at(i)]
  BY <1>2
<1> HIDE DEF at
<1>6. OnceIn(t, E)
  BY <1>1, <1>3, <1>4, <1>5 DEF OnceIn
<1>7. Elements(s) = Elements(t) \cup {s[j]}
  <2>1. ASSUME NEW k \in 1..n, k # j PROVE s[k] \in Elements(t)
    BY <1>3, <1>4, <1>5, <2>1 DEF Elements
  <2>2. Elements(t) \subseteq Elements(s) /\ s[j] \in Elements(s)
    BY <1>1, <1>3, <1>4, <1>5 DEF Elements
  <2> QED BY <1>1, <2>1, <2>2 DEF Elements
<1>8. ASSUME s[j] \in E PROVE s[j] \notin Elements(t)
  BY <1>1, <1>3, <1>4, <1>5, <1>8 DEF Elements, OnceIn
<1> QED BY <1>2, <1>6, <1>7, <1>8 DEF t, n

(* The first entry is taken. *)
LEMMA FirstTaken ==
  ASSUME NEW S, NEW s \in Seq(S), s # <<>>, NEW E, OnceIn(s, E)
  PROVE  /\ Tail(s) \in Seq(S) /\ OnceIn(Tail(s), E)
         /\ Head(s) \in S /\ Elements(s) = Elements(Tail(s)) \cup {Head(s)}
         /\ Head(s) \in E => Head(s) \notin Elements(Tail(s))
<1> DEFINE t == Tail(s)
           n == Len(s)
           next(i) == i + 1
<1>1. n \in Nat /\ n # 0 /\ DOMAIN s = 1..n /\ Head(s) = s[1]
  BY LenProperties, EmptySeq
<1>2. /\ t \in Seq(S) /\ Head(s) \in S /\ Len(t) = n - 1
      /\ \A i \in 1..(n - 1) : t[i] = s[i + 1]
  BY HeadTailProperties
<1> HIDE DEF t
<1>3. DOMAIN t = 1..(n - 1)
  BY <1>2, LenProperties
<1> HIDE DEF n
<1>4. /\ \A i \in 1..(n - 1) : next(i) \in 1..n /\ next(i) # 1
      /\ \A i, k \in 1..(n - 1) : next(i) = next(k) => i = k
      /\ \A k \in 1..n : k # 1 => k - 1 \in 1..(n - 1) /\ next(k - 1) = k
      /\ 1 \in 1..n
  BY <1>1, SMT
<1>5. \A i \in 1..(n - 1) : t[i] = s[next(i)]
  BY <1>2
<1> HIDE DEF next
<1>6. OnceIn(t, E)
  BY <1>1, <1>3, <1>4, <1>5 DEF OnceIn
<1>7. Elements(s) = Elements(t) \cup {s[1]}
  <2>1. ASSUME NEW k \in 1..n, k # 1 PROVE s[k] \in Elements(t)
    BY <1>3, <1>4, <1>5, <2>1 DEF Elements
  <2>2. Elements(t) \subseteq Elements(s) /\ s[1] \in Elements(s)
    BY <1>1, <1>3, <1>4, <1>5 DEF Elements
  <2> QED BY <1>1, <2>1, <2>2 DEF Elements
<1>8. ASSUME s[1] \in E PROVE s[1] \notin Elements(t)
  <2>1. ASSUME NEW i \in 1..(n - 1), s[next(i)] = s[1] PROVE FALSE
    <3>1. next(i) = 1
      BY <1>1, <1>4, <1>8, <2>1 DEF OnceIn
    <3> QED BY <1>4, <3>1
  <2> QED BY <1>3, <1>5, <2>1 DEF Elements
<1> QED BY <1>1, <1>2, <1>6, <1>7, <1>8, Zenon DEF t

(* Entries that do not wait yet join the end. *)
LEMMA Joined ==
  ASSUME NEW S, NEW s \in Seq(S), NEW r \in Seq(S), NEW E,
         OnceIn(s, E), OnceIn(r, E), Elements(s) \cap Elements(r) \cap E = {}
  PROVE  /\ s \o r \in Seq(S) /\ OnceIn(s \o r, E)
         /\ Elements(s \o r) = Elements(s) \cup Elements(r)
<1> DEFINE t == s \o r
           n == Len(s)
           m == Len(r)
<1>1. n \in Nat /\ DOMAIN s = 1..n /\ m \in Nat /\ DOMAIN r = 1..m
  BY LenProperties
<1>2. /\ t \in Seq(S) /\ Len(t) = n + m
      /\ \A i \in 1..(n + m) : t[i] = IF i <= n THEN s[i] ELSE r[i - n]
  BY ConcatProperties
<1> HIDE DEF t
<1>3. DOMAIN t = 1..(n + m)
  BY <1>2, LenProperties
<1> HIDE DEF n, m
<1>4. /\ \A i \in 1..(n + m) : (i <= n /\ i \in 1..n) \/ (~(i <= n) /\ i - n \in 1..m)
      /\ \A i \in 1..n : i \in 1..(n + m) /\ i <= n
      /\ \A i \in 1..m : i + n \in 1..(n + m) /\ ~(i + n <= n) /\ (i + n) - n = i
      /\ \A i, k \in 1..(n + m) : i - n = k - n => i = k
  BY <1>1, SMT
<1>5. \A i \in 1..(n + m) :
        (i <= n /\ i \in DOMAIN s /\ t[i] = s[i]) \/ (~(i <= n) /\ i - n \in DOMAIN r /\ t[i] = r[i - n])
  BY <1>1, <1>2, <1>4
<1>6. (\A i \in 1..n : t[i] = s[i]) /\ (\A i \in 1..m : t[i + n] = r[i])
  BY <1>1, <1>2, <1>4
<1>7. Elements(t) = Elements(s) \cup Elements(r)
  <2>1. Elements(t) \subseteq Elements(s) \cup Elements(r)
    BY <1>3, <1>5 DEF Elements
  <2>2. Elements(s) \subseteq Elements(t)
    BY <1>1, <1>3, <1>4, <1>6 DEF Elements
  <2>3. Elements(r) \subseteq Elements(t)
    BY <1>1, <1>3, <1>4, <1>6 DEF Elements
  <2> QED BY <2>1, <2>2, <2>3
<1>8. OnceIn(t, E)
  <2> SUFFICES ASSUME NEW i \in 1..(n + m), NEW k \in 1..(n + m), t[i] = t[k], t[i] \in E
               PROVE  i = k
    BY <1>3 DEF OnceIn
  <2>1. CASE i <= n /\ k <= n
    <3>1. s[i] = s[k] /\ s[i] \in E /\ i \in DOMAIN s /\ k \in DOMAIN s
      BY <1>5, <2>1
    <3> QED BY <3>1 DEF OnceIn
  <2>2. CASE ~(i <= n) /\ ~(k <= n)
    <3>1. i - n = k - n
      <4>1. r[i - n] = r[k - n] /\ r[i - n] \in E /\ i - n \in DOMAIN r /\ k - n \in DOMAIN r
        BY <1>5, <2>2
      <4> QED BY <4>1 DEF OnceIn
    <3> QED BY <1>4, <3>1
  <2>3. ASSUME NEW a \in DOMAIN s, NEW b \in DOMAIN r, s[a] \in E PROVE s[a] # r[b]
    BY <2>3 DEF Elements
  <2>4. CASE i <= n /\ ~(k <= n)
    BY <1>5, <2>3, <2>4
  <2>5. CASE ~(i <= n) /\ k <= n
    BY <1>5, <2>3, <2>5
  <2> QED BY <2>1, <2>2, <2>4, <2>5
<1> QED BY <1>2, <1>7, <1>8 DEF t

(* One more entry at the end. *)
LEMMA Appended ==
  ASSUME NEW S, NEW s \in Seq(S), NEW x \in S, NEW E, OnceIn(s, E), x \notin Elements(s) \cap E
  PROVE  /\ Append(s, x) \in Seq(S) /\ OnceIn(Append(s, x), E)
         /\ Elements(Append(s, x)) = Elements(s) \cup {x}
<1> DEFINE r == <<x>>
<1>1. r \in Seq(S) /\ DOMAIN r = {1} /\ r[1] = x
  OBVIOUS
<1>2. OnceIn(r, E) /\ Elements(r) = {x}
  BY <1>1 DEF OnceIn, Elements
<1>3. Append(s, x) = s \o r
  BY AppendIsConcat
<1> HIDE DEF r
<1>4. Elements(s) \cap Elements(r) \cap E = {}
  BY <1>2
<1>5. /\ s \o r \in Seq(S) /\ OnceIn(s \o r, E)
      /\ Elements(s \o r) = Elements(s) \cup Elements(r)
  BY <1>1, <1>2, <1>4, Joined
<1> QED BY <1>2, <1>3, <1>5, Zenon

(* Some natural numbers have a least. *)
LEMMA LeastNatural ==
  ASSUME NEW T, T \subseteq Nat, T # {}
  PROVE  \E x \in T : \A y \in T : x <= y
<1>1. PICK R : R = OpToRel(<, Nat)
  OBVIOUS
<1>2. IsWellFoundedOn(R, Nat)
  BY <1>1, NatLessThanWellFounded
<1>3. \A x, y \in Nat : <<x, y>> \in R <=> x < y
  BY <1>1 DEF OpToRel
<1>4. PICK x \in T : \A y \in T : ~(<<y, x>> \in R)
  BY <1>2, WFMin
<1>5. ASSUME NEW y \in T PROVE x <= y
  <2>1. x \in Nat /\ y \in Nat /\ ~(y < x)
    BY <1>3, <1>4
  <2> QED BY <2>1
<1> QED BY <1>5

(* ... and some numbers that are not above b a greatest. *)
LEMMA SomeGreatest ==
  ASSUME NEW S, S \subseteq Int, S # {}, NEW b \in Int, \A x \in S : x <= b
  PROVE  \E z \in S : \A y \in S : z >= y
<1> DEFINE T == {b - x : x \in S}
<1>1. T \subseteq Nat /\ T # {}
  <2>1. \A x \in S : b - x \in Nat
    OBVIOUS
  <2>2. \E x \in S : b - x \in T
    OBVIOUS
  <2> QED BY <2>1, <2>2, Zenon
<1>2. PICK t \in T : \A u \in T : t <= u
  BY <1>1, LeastNatural
<1>3. PICK x \in S : t = b - x
  OBVIOUS
<1>4. \A y \in S : x >= y
  <2> SUFFICES ASSUME NEW y \in S PROVE x >= y
    OBVIOUS
  <2>1. t <= b - y
    BY <1>2
  <2>2. x \in Int /\ y \in Int
    OBVIOUS
  <2> QED BY <1>3, <2>1, <2>2
<1> QED BY <1>4
=============================================================================
