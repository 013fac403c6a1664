------------------------- MODULE FlexScannerProofs -------------------------
(***************************************************************************)
(* Proofs about FlexScanner for any buffers, sizes, streams, texts and     *)
(* programs around the scanner: the types, that no pointer leads out of    *)
(* the memory it is meant for, that no text is lost, repeated or reordered, *)
(* and that yylex returns the longest match.                               *)
(***************************************************************************)
EXTENDS FlexScanner, SequenceLemmas, FiniteSetTheorems

Slot == Char \cup {Junk}

(* Where yylex may be in a token that begins at from: what it has matched up to
   to is empty, digits, or one other character; Run adds the automaton's state. *)
Prefix(a, from, to) ==
  \/ to = from
  \/ from < to /\ \A i \in from..to - 1 : a[i] \in Digit
  \/ to = from + 1 /\ TextClass(a[from]) = 1
Run(a, from, to, s) ==
  \/ s = 1 /\ to = from
  \/ s \in {7, 8} /\ from < to /\ \A i \in from..to - 1 : a[i] \in Digit
  \/ s = 4 /\ to = from + 1 /\ TextClass(a[from]) = 1

(* Characters from position p, and two end marks behind position n. *)
Plain(a, p, n) == (\A i \in p..n + 1 : a[i] \in Char) /\ a[n] = NUL /\ a[n + 1] = NUL

(* A buffer: its fields, and an array of the size it says and two places more. *)
Shaped(r) ==
  r = [file |-> r.file, ch |-> r.ch, pos |-> r.pos, size |-> r.size, n |-> r.n,
       ours |-> r.ours, fill |-> r.fill, tty |-> r.tty, status |-> r.status]
Whole(F, r) ==
  /\ Shaped(r)
  /\ r.size \in Nat /\ r.ch \in [0..r.size + 1 -> Slot]
  /\ r.pos \in 0..r.size /\ r.n \in 0..r.size
  /\ r.ours \in BOOLEAN /\ r.fill \in BOOLEAN /\ r.status \in {"new", "normal", "pending"}
  /\ r.file \in F \cup {None} /\ (r.fill => r.file \in F)

(* A buffer off the top of the stack: its hold character is back in its place
   and its end marks are behind its text. *)
Asleep(r) == r.pos <= r.n /\ Plain(r.ch, r.pos, r.n)

(* The stack: inside its array, nothing above the top, no buffer twice. *)
Stacked(w) ==
  /\ w.stack \in Seq(Buf \cup {None}) /\ w.top \in Nat
  /\ IF w.stack = <<>> THEN w.top = 0 ELSE w.top < Len(w.stack)
  /\ \A i \in DOMAIN w.stack : w.stack[i] # None => w.stack[i] \in DOMAIN w.buf
  /\ \A i, j \in DOMAIN w.stack : w.stack[i] = w.stack[j] /\ w.stack[i] # None => i = j
  /\ \A i \in DOMAIN w.stack : i > w.top + 1 => w.stack[i] = None

(* The globals: the fields of the record, their types, the buffers, the stack. *)
Record(w) ==
  w = [buf |-> w.buf, stack |-> w.stack, top |-> w.top, n |-> w.n, cp |-> w.cp,
       text |-> w.text, leng |-> w.leng, hold |-> w.hold, init |-> w.init, in |-> w.in,
       las |-> w.las, lac |-> w.lac]
Counts(F, w) ==
  /\ w.n \in Nat /\ w.cp \in Nat /\ w.text \in Nat /\ w.leng \in Int /\ w.hold \in Slot
  /\ w.init \in BOOLEAN /\ w.in \in F \cup {None} /\ w.las \in 1..10 /\ w.lac \in Nat

Globals(F, w) ==
  /\ Record(w) /\ Counts(F, w)
  /\ w.buf = [b \in DOMAIN w.buf |-> w.buf[b]] /\ DOMAIN w.buf \subseteq Buf
  /\ \A b \in DOMAIN w.buf : Whole(F, w.buf[b])
  /\ Stacked(w)

(* The current buffer, and that all the others are whole. *)
B(w) == w.buf[YY_CURRENT_BUFFER(w)]
Framed(F, w) ==
  /\ Globals(F, w)
  /\ \A b \in DOMAIN w.buf \ {YY_CURRENT_BUFFER(w)} : Asleep(w.buf[b])

(* What always holds of the current buffer. *)
Awake(F, w) ==
  /\ YY_CURRENT_BUFFER(w) # None
  /\ w.n <= B(w).size
  /\ B(w).fill => w.in \in F
  /\ B(w).status = "new" => B(w).n = w.n

(* Between two calls: the globals are fresh copies of the buffer's fields or in
   use; with the hold character put back (Restored), everything from yytext or
   yy_c_buf_p on is text that was written, with the end marks behind it. *)
Loaded(w) == w.cp = B(w).pos /\ w.text = B(w).pos /\ w.n = B(w).n /\ w.hold = B(w).ch[w.cp]
Restored(w) == [B(w).ch EXCEPT ![w.cp] = w.hold]
Between(F, w) ==
  /\ Awake(F, w)
  /\ w.cp <= w.n /\ w.text <= w.n
  /\ Restored(w)[w.n] = NUL /\ Restored(w)[w.n + 1] = NUL
  /\ \A i \in 0..w.n + 1 : i >= w.cp \/ i >= w.text => Restored(w)[i] \in Char
  /\ ~w.init => Loaded(w)

(* The places of yylex.  Matching: the characters passed are a run of the
   automaton, and state 3 (a NUL was passed) is the only one beyond the text. *)
AtMatch ==
  /\ Awake(client.files, m) /\ m.init /\ m.cp <= m.n /\ bp <= lp /\ Plain(B(m).ch, bp, m.n)
  /\ \/ st = 3 /\ bp < lp /\ lp <= m.n + 1 /\ Prefix(B(m).ch, bp, lp - 1) /\ B(m).ch[lp - 1] = NUL
     \/ st \in {1, 4, 7, 8} /\ lp <= m.n /\ Run(B(m).ch, bp, lp, st)
(* Finding the action: the last accepting position is inside the text, or one
   beyond it when what it accepts is the end mark. *)
AtFind ==
  /\ Awake(client.files, m) /\ m.init /\ m.cp <= m.n /\ Plain(B(m).ch, bp, m.n)
  /\ \/ st \in {4, 5, 6, 7, 8} /\ bp < lp /\ lp <= m.n
     \/ st = 9 /\ m.las \in {4, 7, 8} /\ bp < m.lac /\ m.lac <= m.n
     \/ st = 9 /\ m.las = 3 /\ bp < m.lac /\ m.lac <= m.n + 1
          /\ Prefix(B(m).ch, bp, m.lac - 1) /\ B(m).ch[m.lac - 1] = NUL
(* At an end mark or a NUL: the token so far ends before it. *)
AtEob ==
  /\ Awake(client.files, m) /\ m.init /\ m.text = bp /\ m.cp = lp /\ bp < lp /\ lp <= m.n + 1
  /\ Plain(Restored(m), bp, m.n) /\ Prefix(Restored(m), bp, lp - 1) /\ Restored(m)[lp - 1] = NUL
(* Refilling: the unfinished token is already at the front of the array. *)
AtRefill ==
  /\ Awake(client.files, m) /\ m.init /\ B(m).fill
  /\ m.text < m.cp /\ m.cp <= m.n + 1
  /\ \A i \in 0..m.cp - m.text - 2 : B(m).ch[i] \in Char
  /\ B(m).status = "new" => m.cp = m.text + 1
  /\ by = "yylex" => Prefix(B(m).ch, 0, m.cp - m.text - 1)

(* The other variables. *)
Typed ==
  /\ client \in Clients /\ rest \in [client.files -> Seq(Char)]
  /\ pc \in {"idle", "match", "find", "eob", "refill", "destroy", "fatal"}
  /\ st \in 1..10 /\ by \in {"yylex", "input"} /\ bp \in Nat /\ lp \in Nat
  /\ DOMAIN owed \subseteq DOMAIN m.buf

(* The inductive invariant. *)
IInv ==
  /\ Typed /\ Framed(client.files, m)
  /\ pc \in {"idle", "destroy"} /\ Cur # None => Between(client.files, m)
  /\ pc = "match" => AtMatch
  /\ pc = "find" => AtFind
  /\ pc = "eob" => AtEob
  /\ pc = "refill" => AtRefill
  /\ pc = "fatal" => m.n <= B(m).size /\ m.cp <= B(m).size + 2
-----------------------------------------------------------------------------
(* The record of the globals. *)

LEMMA CurrentHeld ==
  ASSUME NEW F, NEW w, Globals(F, w), YY_CURRENT_BUFFER(w) # None
  PROVE  /\ YY_CURRENT_BUFFER(w) \in DOMAIN w.buf /\ Whole(F, B(w))
         /\ w.stack # <<>> /\ YY_CURRENT_BUFFER(w) = w.stack[w.top + 1]
  BY DEF Globals, Stacked, YY_CURRENT_BUFFER, B

(* The record w, with other counts and another state of its current buffer. *)
LEMMA Reframed ==
  ASSUME NEW F, NEW w, Framed(F, w), YY_CURRENT_BUFFER(w) # None,
         NEW r, Whole(F, r), NEW v,
         v.buf = [w.buf EXCEPT ![YY_CURRENT_BUFFER(w)] = r],
         v.stack = w.stack, v.top = w.top, Record(v), Counts(F, v)
  PROVE  Framed(F, v) /\ YY_CURRENT_BUFFER(v) = YY_CURRENT_BUFFER(w) /\ B(v) = r
<1>1. PICK c : c = YY_CURRENT_BUFFER(w)
  OBVIOUS
<1>2. c \in DOMAIN w.buf /\ c # None /\ Globals(F, w)
  BY <1>1, CurrentHeld DEF Framed
<1>3. YY_CURRENT_BUFFER(v) = c
  BY <1>1 DEF YY_CURRENT_BUFFER
<1>4. /\ DOMAIN v.buf = DOMAIN w.buf /\ v.buf = [b \in DOMAIN v.buf |-> v.buf[b]]
      /\ v.buf[c] = r /\ \A b \in DOMAIN w.buf \ {c} : v.buf[b] = w.buf[b]
  BY <1>1, <1>2
<1>5. \A b \in DOMAIN v.buf : Whole(F, v.buf[b])
  BY <1>2, <1>4 DEF Globals
<1>6. Stacked(v)
  BY <1>2, <1>4 DEF Globals, Stacked
<1>7. Globals(F, v)
  BY <1>2, <1>4, <1>5, <1>6 DEF Globals
<1> QED BY <1>1, <1>3, <1>4, <1>7 DEF Framed, B

(* One character of the current buffer is written. *)
Same(w, v) ==
  /\ v.n = w.n /\ v.cp = w.cp /\ v.text = w.text /\ v.leng = w.leng /\ v.hold = w.hold
  /\ v.init = w.init /\ v.in = w.in /\ v.las = w.las /\ v.lac = w.lac
SameStack(w, v) == v.stack = w.stack /\ v.top = w.top
OffStack(w, b) == \A i \in DOMAIN w.stack : w.stack[i] # b
StillOff(w, v, T) == \A b \in Buf \ T : OffStack(w, b) => OffStack(v, b)
Beside(w, v) ==
  /\ YY_CURRENT_BUFFER(v) = YY_CURRENT_BUFFER(w) /\ StillOff(w, v, {YY_CURRENT_BUFFER(w)})
  /\ DOMAIN v.buf = DOMAIN w.buf
  /\ \A o \in DOMAIN w.buf \ {YY_CURRENT_BUFFER(w)} : v.buf[o] = w.buf[o]
SameButText(r, q) ==
  /\ q.size = r.size /\ q.n = r.n /\ q.pos = r.pos /\ q.fill = r.fill /\ q.ours = r.ours
  /\ q.status = r.status /\ q.file = r.file
IsPoked(F, w, i, x, v) ==
  /\ Framed(F, v) /\ YY_CURRENT_BUFFER(v) = YY_CURRENT_BUFFER(w) /\ Same(w, v)
  /\ SameStack(w, v) /\ DOMAIN v.buf = DOMAIN w.buf /\ Beside(w, v)
  /\ B(v).ch = [B(w).ch EXCEPT ![i] = x] /\ SameButText(B(w), B(v))
LEMMA Poked ==
  ASSUME NEW F, NEW w, Framed(F, w), YY_CURRENT_BUFFER(w) # None,
         NEW i \in 0..B(w).size + 1, NEW x \in Slot
  PROVE  IsPoked(F, w, i, x, Poke(w, i, x))
<1>0. PICK v : v = Poke(w, i, x)
  OBVIOUS
<1>1. PICK c : c = YY_CURRENT_BUFFER(w)
  OBVIOUS
<1>2. PICK r : r = [B(w) EXCEPT !.ch = [B(w).ch EXCEPT ![i] = x]]
  OBVIOUS
<1>3. Globals(F, w) /\ Whole(F, B(w))
  BY CurrentHeld DEF Framed
<1>4. Whole(F, r) /\ r.ch = [B(w).ch EXCEPT ![i] = x] /\ SameButText(B(w), r)
  BY <1>2, <1>3 DEF Whole, Shaped, SameButText
<1>5. v = [w EXCEPT !.buf = [w.buf EXCEPT ![c] = r]]
  BY <1>0, <1>1, <1>2 DEF Poke, B
<1>6. /\ v.buf = [w.buf EXCEPT ![c] = r] /\ v.stack = w.stack /\ v.top = w.top
      /\ Same(w, v) /\ Record(v)
  BY <1>3, <1>5 DEF Globals, Record, Same
<1>7. Counts(F, v)
  BY <1>3, <1>6 DEF Globals, Counts, Same
<1>8. Framed(F, v) /\ YY_CURRENT_BUFFER(v) = YY_CURRENT_BUFFER(w) /\ B(v) = r
  BY <1>1, <1>4, <1>6, <1>7, Reframed
<1>9. DOMAIN v.buf = DOMAIN w.buf /\ \A o \in DOMAIN w.buf \ {c} : v.buf[o] = w.buf[o]
  BY <1>3, <1>6 DEF Globals
<1>10. StillOff(w, v, {c})
  BY <1>6 DEF StillOff, OffStack
<1> QED BY <1>0, <1>1, <1>4, <1>6, <1>8, <1>9, <1>10 DEF IsPoked, SameStack, Beside

LEMMA BesideToo ==
  ASSUME NEW u, NEW w, NEW v, Beside(u, w), Beside(w, v)
  PROVE  Beside(u, v)
<1>1. PICK c : c = YY_CURRENT_BUFFER(u)
  OBVIOUS
<1>2. /\ YY_CURRENT_BUFFER(w) = c /\ YY_CURRENT_BUFFER(v) = c /\ DOMAIN w.buf = DOMAIN u.buf
      /\ DOMAIN v.buf = DOMAIN u.buf /\ StillOff(u, w, {c}) /\ StillOff(w, v, {c})
  BY <1>1 DEF Beside
<1>3. \A o \in DOMAIN u.buf \ {c} : v.buf[o] = u.buf[o]
  BY <1>1, <1>2 DEF Beside
<1>4. StillOff(u, v, {c})
  BY <1>2 DEF StillOff
<1> QED BY <1>1, <1>2, <1>3, <1>4 DEF Beside

LEMMA BesideSame ==
  ASSUME NEW w, NEW v, SameStack(w, v), DOMAIN v.buf = DOMAIN w.buf,
         \A o \in DOMAIN w.buf \ {YY_CURRENT_BUFFER(w)} : v.buf[o] = w.buf[o]
  PROVE  Beside(w, v)
<1>1. YY_CURRENT_BUFFER(v) = YY_CURRENT_BUFFER(w)
  BY DEF SameStack, YY_CURRENT_BUFFER
<1>2. StillOff(w, v, {YY_CURRENT_BUFFER(w)})
  BY DEF SameStack, StillOff, OffStack
<1> QED BY <1>1, <1>2 DEF Beside

(* Other counts. *)
LEMMA Recounted ==
  ASSUME NEW F, NEW w, Framed(F, w), NEW v, v.buf = w.buf, SameStack(w, v), Record(v), Counts(F, v)
  PROVE  Framed(F, v) /\ YY_CURRENT_BUFFER(v) = YY_CURRENT_BUFFER(w) /\ B(v) = B(w)
<1>1. YY_CURRENT_BUFFER(v) = YY_CURRENT_BUFFER(w) /\ B(v) = B(w)
  BY DEF YY_CURRENT_BUFFER, B, SameStack
<1>2. Globals(F, w) /\ v.stack = w.stack /\ v.top = w.top
  BY DEF Framed, SameStack
<1>3. Stacked(v)
  BY <1>2 DEF Globals, Stacked
<1>4. Globals(F, v)
  BY <1>2, <1>3 DEF Globals
<1> QED BY <1>1, <1>4 DEF Framed
-----------------------------------------------------------------------------
(* The automaton. *)

(* What the characters are to it. *)
LEMMA Classes ==
  /\ NUL \in Char /\ Junk \notin Char
  /\ \A c : yy_ec(c) \in 0..4 /\ (yy_ec(c) = 0 <=> c = NUL) /\ (yy_ec(c) = 4 <=> c \in Digit)
  /\ \A c : TextClass(c) \in 1..4 /\ (TextClass(c) = 4 <=> c \in Digit)
  /\ TextClass(NUL) = 1
<1>1. NUL \in Char /\ Junk \notin Char
  BY ScannerAssumption
<1>2. NUL \notin Digit /\ "\n" \notin Digit /\ \A c \in Operator : c \notin Digit
  BY DEF Digit, Operator, NUL
<1>3. \A c : yy_ec(c) \in 0..4 /\ (yy_ec(c) = 0 <=> c = NUL) /\ (yy_ec(c) = 4 <=> c \in Digit)
  BY <1>2 DEF yy_ec, NUL, Operator, Digit
<1> QED BY <1>1, <1>2, <1>3 DEF TextClass

(* The tables. *)
LEMMA Tables ==
  /\ yy_accept[1] = 0 /\ yy_accept[2] = 0 /\ yy_accept[3] = 5 /\ yy_accept[4] = 3
  /\ yy_accept[5] = 2 /\ yy_accept[6] = 2 /\ yy_accept[7] = 1 /\ yy_accept[8] = 1
  /\ yy_accept[9] = 0
  /\ yy_base[1] = 0 /\ yy_base[2] = 0 /\ yy_base[3] = 6 /\ yy_base[4] = 7 /\ yy_base[5] = 7 /\ yy_base[6] = 7
  /\ yy_base[7] = 0 /\ yy_base[8] = 0 /\ yy_base[9] = 7 /\ yy_base[10] = 3
  /\ yy_def[1] = 9 /\ yy_def[2] = 1 /\ yy_def[3] = 9 /\ yy_def[4] = 9 /\ yy_def[5] = 9
  /\ yy_def[6] = 9 /\ yy_def[7] = 10 /\ yy_def[8] = 10
  /\ yy_def[9] = 0 /\ yy_def[10] = 9
  /\ yy_meta[0] = 0 /\ yy_meta[1] = 1 /\ yy_meta[2] = 1 /\ yy_meta[3] = 1 /\ yy_meta[4] = 2
<1>1. /\ yy_accept[1] = 0 /\ yy_accept[2] = 0 /\ yy_accept[3] = 5 /\ yy_accept[4] = 3
      /\ yy_accept[5] = 2 /\ yy_accept[6] = 2 /\ yy_accept[7] = 1 /\ yy_accept[8] = 1
      /\ yy_accept[9] = 0
  BY DEF yy_accept, Array
<1>2. /\ yy_base[1] = 0 /\ yy_base[2] = 0 /\ yy_base[3] = 6 /\ yy_base[4] = 7 /\ yy_base[5] = 7 /\ yy_base[6] = 7
      /\ yy_base[7] = 0 /\ yy_base[8] = 0 /\ yy_base[9] = 7 /\ yy_base[10] = 3
  BY DEF yy_base, Array
<1>3. /\ yy_def[1] = 9 /\ yy_def[2] = 1 /\ yy_def[3] = 9 /\ yy_def[4] = 9 /\ yy_def[5] = 9
  /\ yy_def[6] = 9 /\ yy_def[7] = 10 /\ yy_def[8] = 10
      /\ yy_def[9] = 0 /\ yy_def[10] = 9
  BY DEF yy_def, Array
<1>4. /\ yy_meta[0] = 0 /\ yy_meta[1] = 1 /\ yy_meta[2] = 1 /\ yy_meta[3] = 1 /\ yy_meta[4] = 2
  BY DEF yy_meta, Array
<1> QED BY <1>1, <1>2, <1>3, <1>4

(* ... and the compressed ones. *)
LEMMA Compressed ==
  /\ yy_chk[0] = 0 /\ yy_chk[1] = 1 /\ yy_chk[2] = 1 /\ yy_chk[3] = 1 /\ yy_chk[4] = 1
  /\ yy_chk[5] = 10 /\ yy_chk[6] = 3 /\ \A i \in 7..11 : yy_chk[i] = 9
  /\ yy_nxt[1] = 4 /\ yy_nxt[2] = 5 /\ yy_nxt[3] = 6 /\ yy_nxt[4] = 7 /\ yy_nxt[5] = 8
  /\ yy_nxt[6] = 9 /\ yy_nxt[7] = 3 /\ \A i \in 8..11 : yy_nxt[i] = 9
<1>1. /\ yy_chk[0] = 0 /\ yy_chk[1] = 1 /\ yy_chk[2] = 1 /\ yy_chk[3] = 1 /\ yy_chk[4] = 1
      /\ yy_chk[5] = 10 /\ yy_chk[6] = 3 /\ \A i \in 7..11 : yy_chk[i] = 9
  BY DEF yy_chk, Array
<1>2. /\ yy_nxt[1] = 4 /\ yy_nxt[2] = 5 /\ yy_nxt[3] = 6 /\ yy_nxt[4] = 7 /\ yy_nxt[5] = 8
      /\ yy_nxt[6] = 9 /\ yy_nxt[7] = 3 /\ \A i \in 8..11 : yy_nxt[i] = 9
  BY DEF yy_nxt, Array
<1> QED BY <1>1, <1>2

(* The table they stand for. *)
StateAfter(s, c) ==
  IF s = 1 \/ s = 2 THEN IF c = 0 THEN 3 ELSE c + 3
  ELSE IF s = 3 THEN 9
  ELSE IF s = 7 \/ s = 8 THEN IF c = 0 THEN 3 ELSE IF c = 4 THEN 8 ELSE 9
  ELSE IF s = 10 /\ c = 2 THEN 8
  ELSE IF c = 0 THEN 3 ELSE 9

(* One look into the compressed tables, which may lead to another in f. *)
Look(f, s, c) ==
  IF yy_chk[yy_base[s] + c] = s THEN yy_nxt[yy_base[s] + c]
  ELSE f[<<yy_def[s], IF yy_def[s] >= 10 THEN yy_meta[c] ELSE c>>]

(* A table whose entries are the ones they lead to is this one. *)
Leads(f) == \A s \in 1..10, c \in 0..4 : f[<<s, c>>] = Look(f, s, c)

(* The rows of the table. *)
LEMMA Rows ==
  ASSUME NEW f, NEW c \in 0..4
  PROVE  /\ Look(f, 1, c) = IF c = 0 THEN f[<<9, 0>>] ELSE c + 3
         /\ Look(f, 2, c) = f[<<1, c>>]
         /\ Look(f, 3, c) = IF c = 0 THEN 9 ELSE f[<<9, c>>]
         /\ \A s \in {4, 5, 6} : Look(f, s, c) = f[<<9, c>>]
         /\ \A s \in {7, 8} : Look(f, s, c) = f[<<10, IF c = 0 THEN 0 ELSE IF c = 4 THEN 2 ELSE 1>>]
         /\ Look(f, 9, c) = IF c = 0 THEN 3 ELSE 9
         /\ Look(f, 10, c) = IF c = 2 THEN 8 ELSE f[<<9, c>>]
<1>0. c = 0 \/ c = 1 \/ c = 2 \/ c = 3 \/ c = 4
  OBVIOUS
<1>1. Look(f, 1, c) = IF c = 0 THEN f[<<9, 0>>] ELSE c + 3
  BY <1>0, Tables, Compressed DEF Look
<1>2. Look(f, 2, c) = f[<<1, c>>]
  BY <1>0, Tables, Compressed DEF Look
<1>3. Look(f, 3, c) = IF c = 0 THEN 9 ELSE f[<<9, c>>]
  BY <1>0, Tables, Compressed DEF Look
<1>4. \A s \in {4, 5, 6} : Look(f, s, c) = f[<<9, c>>]
  BY <1>0, Tables, Compressed DEF Look
<1>5. \A s \in {7, 8} : Look(f, s, c) = f[<<10, IF c = 0 THEN 0 ELSE IF c = 4 THEN 2 ELSE 1>>]
  BY <1>0, Tables, Compressed DEF Look
<1>6. Look(f, 9, c) = IF c = 0 THEN 3 ELSE 9
  BY <1>0, Tables, Compressed DEF Look
<1>7. Look(f, 10, c) = IF c = 2 THEN 8 ELSE f[<<9, c>>]
  BY <1>0, Tables, Compressed DEF Look
<1> QED BY <1>1, <1>2, <1>3, <1>4, <1>5, <1>6, <1>7

LEMMA LeadsOn ==
  ASSUME NEW f, \A s \in 1..10, c \in 0..4 : f[<<s, c>>] = StateAfter(s, c)
  PROVE  Leads(f)
<1> SUFFICES ASSUME NEW s \in 1..10, NEW c \in 0..4 PROVE Look(f, s, c) = StateAfter(s, c)
  BY DEF Leads
<1>1. s = 1 \/ s = 2 \/ s = 3 \/ s \in {4, 5, 6} \/ s \in {7, 8} \/ s = 9 \/ s = 10
  OBVIOUS
<1> QED BY <1>1, Rows DEF StateAfter

LEMMA LeadsOnlyThere ==
  ASSUME NEW f, Leads(f)
  PROVE  \A s \in 1..10, c \in 0..4 : f[<<s, c>>] = StateAfter(s, c)
<1>1. \A s \in 1..10, c \in 0..4 : f[<<s, c>>] = Look(f, s, c)
  BY DEF Leads
<1>2. ASSUME NEW c \in 0..4 PROVE f[<<9, c>>] = IF c = 0 THEN 3 ELSE 9
  <2>1. f[<<9, c>>] = Look(f, 9, c)
    <3>1. PICK s \in 1..10 : s = 9
      OBVIOUS
    <3>2. f[<<s, c>>] = Look(f, s, c)
      BY <1>1
    <3> QED BY <3>1, <3>2
  <2> QED BY <2>1, Rows
<1>3. ASSUME NEW c \in 0..4 PROVE f[<<10, c>>] = IF c = 2 THEN 8 ELSE IF c = 0 THEN 3 ELSE 9
  <2>1. f[<<10, c>>] = Look(f, 10, c)
    <3>1. PICK s \in 1..10 : s = 10
      OBVIOUS
    <3>2. f[<<s, c>>] = Look(f, s, c)
      BY <1>1
    <3> QED BY <3>1, <3>2
  <2> QED BY <2>1, <1>2, Rows
<1>4. ASSUME NEW c \in 0..4 PROVE f[<<1, c>>] = IF c = 0 THEN 3 ELSE c + 3
  <2>1. f[<<1, c>>] = Look(f, 1, c)
    <3>1. PICK s \in 1..10 : s = 1
      OBVIOUS
    <3>2. f[<<s, c>>] = Look(f, s, c)
      BY <1>1
    <3> QED BY <3>1, <3>2
  <2> QED BY <2>1, <1>2, Rows
<1> SUFFICES ASSUME NEW s \in 1..10, NEW c \in 0..4 PROVE f[<<s, c>>] = StateAfter(s, c)
  OBVIOUS
<1>5. f[<<s, c>>] = Look(f, s, c)
  BY <1>1
<1>6. s = 1 \/ s = 2 \/ s = 3 \/ s \in {4, 5, 6} \/ s \in {7, 8} \/ s = 9 \/ s = 10
  OBVIOUS
<1>7. (IF c = 0 THEN 0 ELSE IF c = 4 THEN 2 ELSE 1) \in 0..4
  OBVIOUS
<1> QED BY <1>2, <1>3, <1>4, <1>5, <1>6, <1>7, Rows DEF StateAfter

(* The compressed tables lead somewhere, and there. *)
LEMMA Trans == \A s \in 1..10, c \in 0..4 : yy_trans[<<s, c>>] = StateAfter(s, c)
<1> DEFINE Step1(f, p) == LET s == p[1]
                              c == p[2]
                              i == yy_base[s] + c
                          IN  IF yy_chk[i] = s THEN yy_nxt[i]
                              ELSE f[<<yy_def[s], IF yy_def[s] >= 10 THEN yy_meta[c] ELSE c>>]
<1>1. PICK t : t = [p \in (1..10) \X (0..4) |-> StateAfter(p[1], p[2])]
  OBVIOUS
<1>2. Leads(t)
  BY <1>1, LeadsOn
<1>3. \A f : \A p \in (1..10) \X (0..4) : Step1(f, p) = Look(f, p[1], p[2])
  BY DEF Look
<1>4. t = [p \in (1..10) \X (0..4) |-> Look(t, p[1], p[2])]
  BY <1>1, <1>2, LeadsOnlyThere DEF Leads
<1>5. t = [p \in (1..10) \X (0..4) |-> Step1(t, p)]
  BY <1>3, <1>4, Zenon
<1>6. yy_trans = [p \in (1..10) \X (0..4) |-> Step1(yy_trans, p)]
  BY <1>5 DEF yy_trans
<1>7. Leads(yy_trans)
  <2> SUFFICES ASSUME NEW s \in 1..10, NEW c \in 0..4
               PROVE  yy_trans[<<s, c>>] = Look(yy_trans, s, c)
    BY DEF Leads
  <2>1. <<s, c>> \in (1..10) \X (0..4) /\ <<s, c>>[1] = s /\ <<s, c>>[2] = c
    OBVIOUS
  <2>2. yy_trans[<<s, c>>] = Step1(yy_trans, <<s, c>>)
    BY <1>6, <2>1
  <2> QED BY <1>3, <2>1, <2>2
<1> QED BY <1>7, LeadsOnlyThere
-----------------------------------------------------------------------------
(* The functions that manage the buffers. *)

AllAsleep(w) == \A b \in DOMAIN w.buf : Asleep(w.buf[b])
AtRest(F, w) == Framed(F, w) /\ (YY_CURRENT_BUFFER(w) # None => Between(F, w))

(* The current buffer depends on the stack only. *)
LEMMA CurrentKept ==
  ASSUME NEW w, NEW v, SameStack(w, v)
  PROVE  YY_CURRENT_BUFFER(v) = YY_CURRENT_BUFFER(w)
  BY DEF SameStack, YY_CURRENT_BUFFER

LEMMA CountsKept ==
  ASSUME NEW F, NEW w, NEW v, Same(w, v), Counts(F, w)
  PROVE  Counts(F, v)
  BY DEF Same, Counts

(* None is no buffer. *)
LEMMA NoneIsNoBuffer ==
  ASSUME NEW F, NEW w, Globals(F, w)
  PROVE  None \notin DOMAIN w.buf /\ None \notin Buf /\ None \notin File
  BY BuffersAssumption DEF Globals

(* One buffer gives way to another state of it. *)
Puts(w, b, r) == [w EXCEPT !.buf = [w.buf EXCEPT ![b] = r]]

LEMMA PutsTwice ==
  ASSUME NEW w, Record(w), NEW b \in DOMAIN w.buf, NEW q, NEW r
  PROVE  Puts(Puts(w, b, q), b, r) = Puts(w, b, r)
  BY DEF Puts, Record

IsSet(F, w, b, r, v) ==
  /\ Framed(F, v) /\ Same(w, v) /\ SameStack(w, v)
  /\ v.buf = [w.buf EXCEPT ![b] = r] /\ DOMAIN v.buf = DOMAIN w.buf /\ v.buf[b] = r
  /\ \A o \in DOMAIN w.buf \ {b} : v.buf[o] = w.buf[o]
LEMMA BufferSet ==
  ASSUME NEW F, NEW w, Framed(F, w), NEW b \in DOMAIN w.buf,
         NEW r, Whole(F, r), b = YY_CURRENT_BUFFER(w) \/ Asleep(r)
  PROVE  IsSet(F, w, b, r, Puts(w, b, r))
<1>0. PICK v : v = Puts(w, b, r)
  OBVIOUS
<1>1. Globals(F, w)
  BY DEF Framed
<1>2. /\ v.buf = [w.buf EXCEPT ![b] = r] /\ Same(w, v) /\ SameStack(w, v) /\ Record(v)
  BY <1>0, <1>1 DEF Puts, Globals, Record, Same, SameStack
<1>3. /\ DOMAIN v.buf = DOMAIN w.buf /\ v.buf = [o \in DOMAIN v.buf |-> v.buf[o]]
      /\ v.buf[b] = r /\ \A o \in DOMAIN w.buf \ {b} : v.buf[o] = w.buf[o]
  BY <1>2
<1>4. \A o \in DOMAIN v.buf : Whole(F, v.buf[o])
  BY <1>1, <1>3 DEF Globals
<1>5. Stacked(v)
  BY <1>1, <1>2, <1>3 DEF Globals, Stacked, SameStack
<1>6. Counts(F, v)
  BY <1>1, <1>2, CountsKept DEF Globals
<1>7. Globals(F, v)
  BY <1>1, <1>2, <1>3, <1>4, <1>5, <1>6 DEF Globals
<1>8. YY_CURRENT_BUFFER(v) = YY_CURRENT_BUFFER(w)
  BY <1>2, CurrentKept
<1>9. \A o \in DOMAIN v.buf \ {YY_CURRENT_BUFFER(v)} : Asleep(v.buf[o])
  BY <1>3, <1>8 DEF Framed
<1> QED BY <1>0, <1>2, <1>3, <1>7, <1>9 DEF Framed, IsSet

(* A new buffer. *)
Adds(w, b, r) == [w EXCEPT !.buf = With(w.buf, b, r)]
IsAdded(F, w, b, r, v) ==
  /\ Framed(F, v) /\ Same(w, v) /\ SameStack(w, v)
  /\ DOMAIN v.buf = DOMAIN w.buf \cup {b} /\ v.buf[b] = r
  /\ \A o \in DOMAIN w.buf : v.buf[o] = w.buf[o]
LEMMA BufferAdded ==
  ASSUME NEW F, NEW w, Framed(F, w), NEW b \in Buf, b \notin DOMAIN w.buf,
         NEW r, Whole(F, r), Asleep(r)
  PROVE  IsAdded(F, w, b, r, Adds(w, b, r))
<1>0. PICK v : v = Adds(w, b, r)
  OBVIOUS
<1>1. Globals(F, w)
  BY DEF Framed
<1>2. /\ v.buf = With(w.buf, b, r) /\ Same(w, v) /\ SameStack(w, v) /\ Record(v)
  BY <1>0, <1>1 DEF Adds, Globals, Record, Same, SameStack
<1>3. /\ DOMAIN v.buf = DOMAIN w.buf \cup {b} /\ v.buf = [o \in DOMAIN v.buf |-> v.buf[o]]
      /\ v.buf[b] = r /\ \A o \in DOMAIN w.buf : v.buf[o] = w.buf[o]
  BY <1>2 DEF With
<1>4. \A o \in DOMAIN v.buf : Whole(F, v.buf[o])
  BY <1>1, <1>3 DEF Globals
<1>5. Stacked(v)
  BY <1>1, <1>2, <1>3 DEF Globals, Stacked, SameStack
<1>6. Counts(F, v)
  BY <1>1, <1>2, CountsKept DEF Globals
<1>7. DOMAIN v.buf \subseteq Buf
  BY <1>1, <1>3 DEF Globals
<1>8. Globals(F, v)
  BY <1>2, <1>3, <1>4, <1>5, <1>6, <1>7 DEF Globals
<1>9. YY_CURRENT_BUFFER(v) = YY_CURRENT_BUFFER(w)
  BY <1>2, CurrentKept
<1>10. \A o \in DOMAIN v.buf \ {YY_CURRENT_BUFFER(v)} : Asleep(v.buf[o])
  BY <1>3, <1>9 DEF Framed
<1> QED BY <1>0, <1>2, <1>3, <1>8, <1>10 DEF Framed, IsAdded

(* yy_load_buffer_state makes the counts those of a buffer that was asleep. *)
IsLoaded(F, w, v) ==
  /\ AtRest(F, v) /\ Loaded(v) /\ SameStack(w, v) /\ v.buf = w.buf /\ v.init = w.init
  /\ v.in = B(w).file
LEMMA LoadsBuffer ==
  ASSUME NEW F, NEW w, Framed(F, w), YY_CURRENT_BUFFER(w) # None, Asleep(B(w))
  PROVE  IsLoaded(F, w, yy_load_buffer_state(w))
<1>0. PICK v : v = yy_load_buffer_state(w)
  OBVIOUS
<1>1. Globals(F, w) /\ Whole(F, B(w)) /\ Record(w) /\ Counts(F, w)
  BY CurrentHeld DEF Framed, Globals
<1>2. PICK r : r = B(w)
  OBVIOUS
<1>3. v = [w EXCEPT !.n = r.n, !.text = r.pos, !.cp = r.pos, !.in = r.file, !.hold = r.ch[r.pos]]
  BY <1>0, <1>2 DEF yy_load_buffer_state, B
<1>4. /\ v.buf = w.buf /\ SameStack(w, v) /\ v.init = w.init /\ Record(v)
      /\ v.n = r.n /\ v.text = r.pos /\ v.cp = r.pos /\ v.in = r.file /\ v.hold = r.ch[r.pos]
      /\ v.leng = w.leng /\ v.las = w.las /\ v.lac = w.lac
  BY <1>1, <1>3 DEF Record, SameStack
<1>5. Counts(F, v)
  <2>1. r.n \in Nat /\ r.pos \in Nat /\ r.file \in F \cup {None} /\ r.ch[r.pos] \in Slot
    BY <1>1, <1>2 DEF Whole
  <2> QED BY <1>1, <1>4, <2>1 DEF Counts
<1>6. Stacked(v)
  BY <1>1, <1>4 DEF Globals, Stacked, SameStack
<1>7. YY_CURRENT_BUFFER(v) = YY_CURRENT_BUFFER(w) /\ B(v) = r
  BY <1>2, <1>4, CurrentKept DEF B
<1>8. Framed(F, v)
  BY <1>1, <1>4, <1>5, <1>6, <1>7 DEF Framed, Globals
<1>9. Loaded(v)
  BY <1>4, <1>7 DEF Loaded
<1>10. Restored(v) = r.ch
  BY <1>1, <1>2, <1>4, <1>7 DEF Restored, Whole
<1>11. Awake(F, v)
  BY <1>1, <1>2, <1>4, <1>7 DEF Awake, Whole
<1>12. Between(F, v)
  <2>1. /\ v.cp <= v.n /\ v.text <= v.n /\ r.ch[v.n] = NUL /\ r.ch[v.n + 1] = NUL
        /\ \A i \in 0..v.n + 1 : i >= v.cp => r.ch[i] \in Char
    BY <1>1, <1>2, <1>4 DEF Asleep, Plain, Whole
  <2> QED BY <1>4, <1>9, <1>10, <1>11, <2>1 DEF Between
<1>13. v.in = B(w).file
  BY <1>2, <1>4
<1> QED BY <1>0, <1>4, <1>8, <1>9, <1>12, <1>13 DEF AtRest, IsLoaded

(* The counts go back to the buffer they belong to. *)
Saved(w, r) ==
  /\ r.ch = Restored(w) /\ r.pos = w.cp /\ r.n = w.n
  /\ r.file = B(w).file /\ r.fill = B(w).fill /\ r.status = B(w).status
SavedIn(w, v) ==
  /\ \A b \in DOMAIN w.buf \ {YY_CURRENT_BUFFER(w)} : v.buf[b] = w.buf[b]
  /\ YY_CURRENT_BUFFER(w) # None => Saved(w, v.buf[YY_CURRENT_BUFFER(w)])
IsSaved(F, w, v) ==
  /\ Globals(F, v) /\ AllAsleep(v) /\ Same(w, v) /\ SameStack(w, v)
  /\ DOMAIN v.buf = DOMAIN w.buf /\ SavedIn(w, v)
LEMMA SavesCurrent ==
  ASSUME NEW F, NEW w, AtRest(F, w)
  PROVE  IsSaved(F, w, SaveCurrent(w))
<1>0. PICK v : v = SaveCurrent(w)
  OBVIOUS
<1> SUFFICES IsSaved(F, w, v)
  BY <1>0
<1>1. Framed(F, w) /\ Globals(F, w) /\ Record(w)
  BY DEF AtRest, Framed, Globals
<1>2. CASE YY_CURRENT_BUFFER(w) = None
  <2>1. v = w
    BY <1>0, <1>2 DEF SaveCurrent
  <2>2. None \notin DOMAIN w.buf
    BY <1>1, NoneIsNoBuffer
  <2> QED BY <1>1, <1>2, <2>1, <2>2 DEF Framed, AllAsleep, Same, SameStack, IsSaved, SavedIn
<1>3. CASE YY_CURRENT_BUFFER(w) # None
  <2>1. PICK c : c = YY_CURRENT_BUFFER(w)
    OBVIOUS
  <2>2. PICK q : q = w.buf[c]
    OBVIOUS
  <2>3. PICK r : r = [q EXCEPT !.ch = [q.ch EXCEPT ![w.cp] = w.hold], !.pos = w.cp, !.n = w.n]
    OBVIOUS
  <2>4. c \in DOMAIN w.buf /\ Whole(F, q) /\ q = B(w) /\ Between(F, w) /\ Awake(F, w) /\ Counts(F, w)
    BY <1>1, <1>3, <2>1, <2>2, CurrentHeld DEF AtRest, B, Between, Globals
  <2>5. w.cp \in 0..w.n /\ w.n \in 0..q.size
    BY <2>4 DEF Between, Awake, Counts
  <2>6. Whole(F, r) /\ r.ch = Restored(w) /\ r.pos = w.cp /\ r.n = w.n /\ Saved(w, r)
    <3>1. /\ r.file = q.file /\ r.ch = [q.ch EXCEPT ![w.cp] = w.hold] /\ r.pos = w.cp
          /\ r.size = q.size /\ r.n = w.n /\ r.ours = q.ours /\ r.fill = q.fill
          /\ r.status = q.status /\ Shaped(r)
      BY <2>3, <2>4 DEF Whole, Shaped
    <3>2. r.ch \in [0..r.size + 1 -> Slot]
      BY <2>4, <3>1 DEF Whole, Counts
    <3>3. r.pos \in 0..r.size /\ r.n \in 0..r.size
      BY <2>4, <2>5, <3>1 DEF Whole
    <3> QED BY <2>4, <3>1, <3>2, <3>3 DEF Whole, Restored, Saved
  <2>7. Asleep(r)
    <3>1. \A i \in w.cp..w.n + 1 : i \in 0..w.n + 1 /\ i >= w.cp
      BY <2>4, <2>5 DEF Counts
    <3> QED BY <2>4, <2>5, <2>6, <3>1 DEF Asleep, Plain, Between
  <2>8. PICK p : p = Poke(w, w.cp, w.hold)
    OBVIOUS
  <2>9. v = [p EXCEPT !.buf[c].pos = w.cp, !.buf[c].n = w.n]
    BY <1>0, <1>3, <2>1, <2>8 DEF SaveCurrent
  <2>10. PICK x : x = [q EXCEPT !.ch = [q.ch EXCEPT ![w.cp] = w.hold]]
    OBVIOUS
  <2>11. v = Puts(w, c, r)
    <3>1. p = Puts(w, c, x)
      BY <2>1, <2>2, <2>8, <2>10 DEF Poke, Puts
    <3>2. p.buf[c] = x
      BY <1>1, <2>4, <3>1 DEF Puts, Record
    <3>3. PICK y : y = Puts(p, c, [p.buf[c] EXCEPT !.pos = w.cp])
      OBVIOUS
    <3>4. y = Puts(w, c, [x EXCEPT !.pos = w.cp])
      BY <1>1, <2>4, <3>1, <3>2, <3>3, PutsTwice
    <3>5. y.buf[c] = [x EXCEPT !.pos = w.cp]
      BY <1>1, <2>4, <3>4 DEF Puts, Record
    <3>6. v = Puts(y, c, [y.buf[c] EXCEPT !.n = w.n])
      BY <2>9, <3>3 DEF Puts
    <3>7. [y.buf[c] EXCEPT !.n = w.n] = r
      BY <2>3, <2>10, <3>5
    <3> QED BY <1>1, <2>4, <3>4, <3>6, <3>7, PutsTwice
  <2>12. /\ Framed(F, v) /\ Same(w, v) /\ SameStack(w, v)
         /\ DOMAIN v.buf = DOMAIN w.buf /\ v.buf[c] = r
         /\ \A o \in DOMAIN w.buf \ {c} : v.buf[o] = w.buf[o]
    <3>1. Framed(F, w) /\ c \in DOMAIN w.buf /\ Whole(F, r)
      BY <1>1, <2>4, <2>6
    <3>2. IsSet(F, w, c, r, v)
      BY <2>7, <2>11, <3>1, BufferSet
    <3> QED BY <3>2 DEF IsSet
  <2>13. AllAsleep(v)
    BY <1>1, <2>1, <2>7, <2>12 DEF AllAsleep, Framed
  <2>14. Globals(F, v)
    BY <2>12 DEF Framed
  <2> QED BY <2>1, <2>6, <2>12, <2>13, <2>14 DEF IsSaved, SavedIn
<1> QED BY <1>2, <1>3

(* Another buffer in the current slot of the stack. *)
IsCurrent(F, w, b, v) ==
  /\ Globals(F, v) /\ Same(w, v) /\ v.buf = w.buf /\ YY_CURRENT_BUFFER(v) = b
  /\ v.stack # <<>> /\ v.top = w.top /\ Len(v.stack) = Len(w.stack)
  /\ DOMAIN v.stack = DOMAIN w.stack
  /\ v.stack[w.top + 1] = b
  /\ \A j \in DOMAIN w.stack : j # w.top + 1 => v.stack[j] = w.stack[j]
LEMMA SetsCurrent ==
  ASSUME NEW F, NEW w, Globals(F, w), w.stack # <<>>,
         NEW b \in DOMAIN w.buf \cup {None}, b # None => OffStack(w, b) \/ b = w.stack[w.top + 1]
  PROVE  IsCurrent(F, w, b, SetCurrent(w, b))
<1>0. PICK v : v = SetCurrent(w, b)
  OBVIOUS
<1>1. Record(w) /\ Counts(F, w) /\ Stacked(w) /\ DOMAIN w.buf \subseteq Buf
  BY DEF Globals
<1>2. PICK i : i = w.top + 1
  OBVIOUS
<1>3. /\ v.buf = w.buf /\ v.stack = [w.stack EXCEPT ![i] = b] /\ v.top = w.top
      /\ Same(w, v) /\ Record(v)
  BY <1>0, <1>1, <1>2 DEF SetCurrent, Record, Same
<1>4. /\ w.stack \in Seq(Buf \cup {None}) /\ i \in 1..Len(w.stack) /\ Len(w.stack) \in Nat
      /\ DOMAIN w.stack = 1..Len(w.stack)
  BY <1>1, <1>2, LenProperties DEF Stacked
<1>5. /\ v.stack \in Seq(Buf \cup {None}) /\ Len(v.stack) = Len(w.stack)
      /\ DOMAIN v.stack = DOMAIN w.stack
      /\ v.stack[i] = b /\ \A j \in DOMAIN w.stack : j # i => v.stack[j] = w.stack[j]
  BY <1>1, <1>3, <1>4
<1>6. v.stack # <<>>
  BY <1>4, <1>5
<1>7. Stacked(v)
  <2>1. v.stack \in Seq(Buf \cup {None}) /\ v.top \in Nat /\ v.stack # <<>> /\ v.top < Len(v.stack)
    BY <1>1, <1>3, <1>5, <1>6 DEF Stacked
  <2>2. ASSUME NEW j \in DOMAIN v.stack, v.stack[j] # None PROVE v.stack[j] \in DOMAIN v.buf
    BY <1>1, <1>3, <1>5, <2>2 DEF Stacked
  <2>3. ASSUME NEW j \in DOMAIN v.stack, NEW k \in DOMAIN v.stack,
               v.stack[j] = v.stack[k], v.stack[j] # None
        PROVE  j = k
    <3>1. CASE j # i /\ k # i
      BY <1>1, <1>5, <2>3, <3>1 DEF Stacked
    <3>2. CASE (j = i /\ k # i) \/ (j # i /\ k = i)
      <4>1. PICK o \in DOMAIN w.stack : o # i /\ w.stack[o] = b /\ b # None
        BY <1>5, <2>3, <3>2
      <4>2. b = w.stack[i]
        BY <1>2, <4>1 DEF OffStack
      <4> QED BY <1>1, <1>4, <4>1, <4>2 DEF Stacked
    <3> QED BY <3>1, <3>2
  <2>4. ASSUME NEW j \in DOMAIN v.stack, j > v.top + 1 PROVE v.stack[j] = None
    BY <1>1, <1>2, <1>3, <1>4, <1>5, <2>4 DEF Stacked
  <2> QED BY <2>1, <2>2, <2>3, <2>4 DEF Stacked
<1>8. Counts(F, v)
  BY <1>1, <1>3, CountsKept
<1>9. Globals(F, v)
  BY <1>3, <1>7, <1>8 DEF Globals
<1>10. YY_CURRENT_BUFFER(v) = b
  BY <1>2, <1>3, <1>5, <1>6 DEF YY_CURRENT_BUFFER
<1> QED BY <1>0, <1>2, <1>3, <1>5, <1>6, <1>9, <1>10 DEF IsCurrent

(* There is a stack, and room on it to push. *)
IsEnsured(F, w, v) ==
  /\ Globals(F, v) /\ Same(w, v) /\ v.buf = w.buf /\ v.top = w.top
  /\ YY_CURRENT_BUFFER(v) = YY_CURRENT_BUFFER(w)
  /\ v.stack # <<>> /\ (YY_CURRENT_BUFFER(w) # None => v.top < Len(v.stack) - 1)
  /\ \A b \in Buf : OffStack(w, b) => OffStack(v, b)
LEMMA EnsuresStack ==
  ASSUME NEW F, NEW w, Globals(F, w)
  PROVE  IsEnsured(F, w, yyensure_buffer_stack(w))
<1>0. PICK v : v = yyensure_buffer_stack(w)
  OBVIOUS
<1> SUFFICES IsEnsured(F, w, v)
  BY <1>0
<1>1. Record(w) /\ Counts(F, w) /\ Stacked(w) /\ None \notin Buf
  BY NoneIsNoBuffer DEF Globals
<1>2. CASE w.stack = <<>>
  <2>1. v = [w EXCEPT !.stack = <<None>>, !.top = 0]
    BY <1>0, <1>2 DEF yyensure_buffer_stack
  <2>2. v.buf = w.buf /\ v.stack = <<None>> /\ v.top = 0 /\ w.top = 0 /\ Same(w, v) /\ Record(v)
    BY <1>1, <1>2, <2>1 DEF Record, Same, Stacked
  <2>3. /\ Len(v.stack) = 1 /\ DOMAIN v.stack = {1} /\ v.stack[1] = None
        /\ v.stack \in Seq(Buf \cup {None}) /\ v.stack # <<>>
    BY <2>2
  <2>4. Stacked(v)
    BY <2>2, <2>3 DEF Stacked
  <2>5. YY_CURRENT_BUFFER(v) = YY_CURRENT_BUFFER(w) /\ YY_CURRENT_BUFFER(w) = None
    BY <1>2, <2>2, <2>3 DEF YY_CURRENT_BUFFER
  <2>6. Globals(F, v)
    BY <1>1, <2>2, <2>4, CountsKept DEF Globals
  <2>7. \A b \in Buf : OffStack(v, b)
    BY <1>1, <2>3 DEF OffStack
  <2> QED BY <2>2, <2>3, <2>5, <2>6, <2>7 DEF IsEnsured
<1>3. CASE w.stack # <<>> /\ w.top < Len(w.stack) - 1
  <2>1. v = w
    BY <1>0, <1>3 DEF yyensure_buffer_stack
  <2> QED BY <1>3, <2>1 DEF IsEnsured, Same
<1>4. CASE w.stack # <<>> /\ ~(w.top < Len(w.stack) - 1)
  <2>1. PICK g : g = [i \in 1..StackGrow |-> None]
    OBVIOUS
  <2>2. v = [w EXCEPT !.stack = w.stack \o g]
    BY <1>0, <1>4, <2>1 DEF yyensure_buffer_stack
  <2>3. v.buf = w.buf /\ v.stack = w.stack \o g /\ v.top = w.top /\ Same(w, v) /\ Record(v)
    BY <1>1, <2>2 DEF Record, Same
  <2>4. /\ StackGrow \in Nat \ {0} /\ g \in Seq({None}) /\ Len(g) = StackGrow
        /\ g \in Seq(Buf \cup {None})
    <3>1. StackGrow \in Nat \ {0}
      BY BuffersAssumption
    <3> QED BY <2>1, <3>1
  <2>5. /\ w.stack \in Seq(Buf \cup {None}) /\ Len(w.stack) \in Nat /\ w.top < Len(w.stack)
        /\ w.top \in Nat /\ DOMAIN w.stack = 1..Len(w.stack)
    BY <1>1, <1>4 DEF Stacked
  <2>6. /\ v.stack \in Seq(Buf \cup {None}) /\ Len(v.stack) = Len(w.stack) + StackGrow
        /\ DOMAIN v.stack = 1..Len(v.stack)
        /\ \A i \in 1..Len(w.stack) : v.stack[i] = w.stack[i]
        /\ \A i \in 1..Len(v.stack) : i > Len(w.stack) => v.stack[i] = None
    BY <2>1, <2>3, <2>4, <2>5
  <2>7. v.stack # <<>> /\ v.top < Len(v.stack) - 1
    BY <2>3, <2>4, <2>5, <2>6
  <2>8. Stacked(v)
    <3>1. ASSUME NEW i \in DOMAIN v.stack, v.stack[i] # None
          PROVE  i \in DOMAIN w.stack /\ v.stack[i] = w.stack[i]
      BY <2>5, <2>6, <3>1
    <3>2. ASSUME NEW i \in DOMAIN v.stack, i > v.top + 1 PROVE v.stack[i] = None
      BY <1>1, <2>3, <2>5, <2>6, <3>1, <3>2 DEF Stacked
    <3>3. v.top \in Nat /\ v.top < Len(v.stack)
      BY <2>3, <2>4, <2>5, <2>6
    <3> QED BY <1>1, <2>3, <2>6, <2>7, <3>1, <3>2, <3>3 DEF Stacked
  <2>9. YY_CURRENT_BUFFER(v) = YY_CURRENT_BUFFER(w)
    BY <1>4, <2>3, <2>5, <2>6, <2>7 DEF YY_CURRENT_BUFFER
  <2>10. Globals(F, v)
    BY <1>1, <2>3, <2>8, CountsKept DEF Globals
  <2>11. \A b \in Buf : OffStack(w, b) => OffStack(v, b)
    BY <1>1, <2>5, <2>6 DEF OffStack
  <2> QED BY <2>3, <2>7, <2>9, <2>10, <2>11 DEF IsEnsured
<1> QED BY <1>2, <1>3, <1>4

(* A buffer off the stack is freed. *)
Drops(w, b) == [w EXCEPT !.buf = Restrict(w.buf, DOMAIN w.buf \ {b})]
IsDropped(F, w, b, v) ==
  /\ Globals(F, v) /\ Same(w, v) /\ SameStack(w, v)
  /\ DOMAIN v.buf = DOMAIN w.buf \ {b} /\ \A o \in DOMAIN v.buf : v.buf[o] = w.buf[o]
LEMMA BufferDropped ==
  ASSUME NEW F, NEW w, Globals(F, w), NEW b, OffStack(w, b)
  PROVE  IsDropped(F, w, b, Drops(w, b))
<1>0. PICK v : v = Drops(w, b)
  OBVIOUS
<1>1. Record(w) /\ Counts(F, w) /\ Stacked(w)
  BY DEF Globals
<1>2. /\ v.buf = Restrict(w.buf, DOMAIN w.buf \ {b})
      /\ Same(w, v) /\ SameStack(w, v) /\ Record(v)
  BY <1>0, <1>1 DEF Drops, Record, Same, SameStack
<1>3. /\ DOMAIN v.buf = DOMAIN w.buf \ {b} /\ \A o \in DOMAIN v.buf : v.buf[o] = w.buf[o]
      /\ v.buf = [o \in DOMAIN v.buf |-> v.buf[o]]
  BY <1>2 DEF Restrict
<1>4. Stacked(v)
  BY <1>1, <1>2, <1>3 DEF Stacked, SameStack, OffStack
<1>5. Globals(F, v)
  BY <1>1, <1>2, <1>3, <1>4, CountsKept DEF Globals
<1> QED BY <1>0, <1>2, <1>3, <1>5 DEF IsDropped

(* yy_delete_buffer *)
IsDeleted(F, w, b, v) ==
  /\ Framed(F, v) /\ Same(w, v) /\ v.top = w.top
  /\ YY_CURRENT_BUFFER(v) = IF b = YY_CURRENT_BUFFER(w) THEN None ELSE YY_CURRENT_BUFFER(w)
  /\ DOMAIN v.buf = DOMAIN w.buf \ {b} /\ \A o \in DOMAIN v.buf : v.buf[o] = w.buf[o]
  /\ (w.stack # <<>> => v.stack # <<>>) /\ StillOff(w, v, {})
LEMMA Deletes ==
  ASSUME NEW F, NEW w, Framed(F, w), NEW b \in DOMAIN w.buf,
         OffStack(w, b) \/ b = YY_CURRENT_BUFFER(w)
  PROVE  IsDeleted(F, w, b, yy_delete_buffer(w, b))
<1>0. PICK v : v = yy_delete_buffer(w, b)
  OBVIOUS
<1> SUFFICES IsDeleted(F, w, b, v)
  BY <1>0
<1>1. Globals(F, w) /\ Stacked(w) /\ None \notin DOMAIN w.buf /\ b # None
  BY NoneIsNoBuffer DEF Framed, Globals
<1>2. CASE b = YY_CURRENT_BUFFER(w)
  <2>1. PICK e : e = SetCurrent(w, None)
    OBVIOUS
  <2>2. v = Drops(e, b)
    BY <1>0, <1>1, <1>2, <2>1 DEF yy_delete_buffer, Drops
  <2>3. w.stack # <<>> /\ b = w.stack[w.top + 1] /\ w.top + 1 \in DOMAIN w.stack
    BY <1>1, <1>2, CurrentHeld DEF YY_CURRENT_BUFFER, Stacked
  <2>4. IsCurrent(F, w, None, e)
    BY <1>1, <2>1, <2>3, SetsCurrent
  <2>5. OffStack(e, b)
    BY <1>1, <2>3, <2>4 DEF IsCurrent, OffStack, Stacked
  <2>6. IsDropped(F, e, b, v)
    BY <2>2, <2>4, <2>5, BufferDropped DEF IsCurrent
  <2>7. YY_CURRENT_BUFFER(v) = None /\ v.stack # <<>> /\ v.top = w.top
    BY <2>4, <2>6, CurrentKept DEF IsCurrent, IsDropped, SameStack
  <2>8. Same(w, v) /\ Globals(F, v)
    BY <2>4, <2>6 DEF IsCurrent, IsDropped, Same
  <2>9. DOMAIN v.buf = DOMAIN w.buf \ {b} /\ \A o \in DOMAIN v.buf : v.buf[o] = w.buf[o]
    BY <2>4, <2>6 DEF IsCurrent, IsDropped
  <2>10. Framed(F, v)
    BY <1>2, <2>8, <2>9 DEF Framed
  <2>11. StillOff(w, v, {})
    <3>1. v.stack = e.stack /\ None \notin Buf
      BY <1>1, <2>6, NoneIsNoBuffer DEF IsDropped, SameStack
    <3> QED BY <2>4, <3>1 DEF IsCurrent, StillOff, OffStack
  <2> QED BY <1>2, <2>7, <2>8, <2>9, <2>10, <2>11 DEF IsDeleted
<1>3. CASE b # YY_CURRENT_BUFFER(w)
  <2>1. v = Drops(w, b)
    BY <1>0, <1>1, <1>3 DEF yy_delete_buffer, Drops
  <2>2. IsDropped(F, w, b, v)
    BY <1>1, <1>3, <2>1, BufferDropped
  <2>3. YY_CURRENT_BUFFER(v) = YY_CURRENT_BUFFER(w)
    BY <2>2, CurrentKept DEF IsDropped
  <2>4. Framed(F, v)
    BY <2>2, <2>3 DEF Framed, IsDropped
  <2>5. StillOff(w, v, {})
    BY <2>2 DEF IsDropped, SameStack, StillOff, OffStack
  <2> QED BY <1>3, <2>2, <2>3, <2>4, <2>5 DEF IsDropped, IsDeleted, SameStack
<1> QED BY <1>2, <1>3

(* A buffer with nothing in it, that reads from f. *)
Empty(r, f) == r.n = 0 /\ r.pos = 0 /\ r.fill = TRUE /\ r.status = "new" /\ r.file = f
Emptied(r) == [r EXCEPT !.n = 0, !.ch = [[r.ch EXCEPT ![0] = NUL] EXCEPT ![1] = NUL],
                        !.pos = 0, !.status = "new"]
Fresh(r, f) == [r EXCEPT !.n = 0, !.ch = [[r.ch EXCEPT ![0] = NUL] EXCEPT ![1] = NUL],
                         !.pos = 0, !.status = "new", !.file = f, !.fill = TRUE,
                         !.tty = f \in Tty]

LEMMA EmptiedWhole ==
  ASSUME NEW F, NEW r, Whole(F, r)
  PROVE  /\ Whole(F, Emptied(r)) /\ Asleep(Emptied(r))
         /\ Emptied(r).n = 0 /\ Emptied(r).pos = 0 /\ Emptied(r).status = "new"
         /\ Emptied(r).file = r.file /\ Emptied(r).size = r.size
         /\ Emptied(r).ours = r.ours /\ Emptied(r).fill = r.fill
<1>0. PICK v : v = Emptied(r)
  OBVIOUS
<1>1. PICK d : d = [[r.ch EXCEPT ![0] = NUL] EXCEPT ![1] = NUL]
  OBVIOUS
<1>2. /\ v.ch = d /\ v.n = 0 /\ v.pos = 0 /\ v.status = "new" /\ v.file = r.file
      /\ v.size = r.size /\ v.ours = r.ours /\ v.fill = r.fill /\ Shaped(v)
  BY <1>0, <1>1 DEF Emptied, Whole, Shaped
<1>3. d \in [0..r.size + 1 -> Slot] /\ d[0] = NUL /\ d[1] = NUL
  <2>1. NUL \in Slot /\ r.size \in Nat /\ r.ch \in [0..r.size + 1 -> Slot]
    BY Classes DEF Whole, Slot
  <2>2. [r.ch EXCEPT ![0] = NUL] \in [0..r.size + 1 -> Slot]
    BY <2>1
  <2> QED BY <1>1, <2>1, <2>2
<1>4. Whole(F, v)
  BY <1>2, <1>3 DEF Whole
<1>5. Asleep(v)
  BY <1>2, <1>3, Classes DEF Asleep, Plain
<1> QED BY <1>0, <1>2, <1>4, <1>5

IsFresh(F, r, v) ==
  /\ Whole(F, v) /\ Asleep(v) /\ v.n = 0 /\ v.pos = 0 /\ v.status = "new" /\ v.fill = TRUE
  /\ v.size = r.size /\ Empty(v, v.file)
LEMMA FreshWhole ==
  ASSUME NEW F, NEW r, Shaped(r), r.size \in Nat, r.ch \in [0..r.size + 1 -> Slot],
         r.ours \in BOOLEAN, NEW f \in F
  PROVE  IsFresh(F, r, Fresh(r, f)) /\ Empty(Fresh(r, f), f)
<1>0. PICK v : v = Fresh(r, f)
  OBVIOUS
<1>1. PICK d : d = [[r.ch EXCEPT ![0] = NUL] EXCEPT ![1] = NUL]
  OBVIOUS
<1>2. /\ v.ch = d /\ v.n = 0 /\ v.pos = 0 /\ v.status = "new" /\ v.file = f
      /\ v.size = r.size /\ v.ours = r.ours /\ v.fill = TRUE /\ Shaped(v)
  BY <1>0, <1>1 DEF Fresh, Shaped
<1>3. d \in [0..r.size + 1 -> Slot] /\ d[0] = NUL /\ d[1] = NUL
  <2>1. NUL \in Slot /\ r.size \in Nat /\ r.ch \in [0..r.size + 1 -> Slot]
    BY Classes DEF Slot
  <2>2. [r.ch EXCEPT ![0] = NUL] \in [0..r.size + 1 -> Slot]
    BY <2>1
  <2> QED BY <1>1, <2>1, <2>2
<1>4. Whole(F, v)
  <2>1. v.size = r.size /\ v.size \in Nat /\ v.ch \in [0..v.size + 1 -> Slot]
    BY <1>2, <1>3
  <2>2. v.pos \in 0..v.size /\ v.n \in 0..v.size
    BY <1>2, <2>1
  <2>3. v.ours \in BOOLEAN /\ v.fill \in BOOLEAN /\ v.file \in F
    BY <1>2
  <2> QED BY <1>2, <2>1, <2>2, <2>3 DEF Whole
<1>5. Asleep(v)
  BY <1>2, <1>3, Classes DEF Asleep, Plain
<1> QED BY <1>0, <1>2, <1>4, <1>5 DEF IsFresh, Empty

(* The assignments of yy_flush_buffer, one by one. *)
LEMMA FlushSteps ==
  ASSUME NEW w, Record(w), NEW b \in DOMAIN w.buf, w.buf = [o \in DOMAIN w.buf |-> w.buf[o]]
  PROVE  [w EXCEPT !.buf[b].n = 0, !.buf[b].ch[0] = NUL, !.buf[b].ch[1] = NUL,
                   !.buf[b].pos = 0, !.buf[b].status = "new"] = Puts(w, b, Emptied(w.buf[b]))
<1>1. PICK q : q = w.buf[b]
  OBVIOUS
<1>2. PICK v : v = [w EXCEPT !.buf[b].n = 0, !.buf[b].ch[0] = NUL, !.buf[b].ch[1] = NUL,
                   !.buf[b].pos = 0, !.buf[b].status = "new"]
  OBVIOUS
<1>3. PICK r1 : r1 = [q EXCEPT !.n = 0]
  OBVIOUS
<1>4. PICK r2 : r2 = [r1 EXCEPT !.ch = [r1.ch EXCEPT ![0] = NUL]]
  OBVIOUS
<1>5. PICK r3 : r3 = [r2 EXCEPT !.ch = [r2.ch EXCEPT ![1] = NUL]]
  OBVIOUS
<1>6. PICK r4 : r4 = [r3 EXCEPT !.pos = 0]
  OBVIOUS
<1>7. PICK r5 : r5 = [r4 EXCEPT !.status = "new"]
  OBVIOUS
<1>8. \A r : Puts(w, b, r).buf[b] = r
  BY DEF Puts, Record
<1>9. \A r, s : Puts(Puts(w, b, r), b, s) = Puts(w, b, s)
  BY PutsTwice
<1>10. v = Puts(w, b, r5)
  <2>1. PICK w1 : w1 = Puts(w, b, [w.buf[b] EXCEPT !.n = 0])
    OBVIOUS
  <2>2. PICK w2 : w2 = Puts(w1, b, [w1.buf[b] EXCEPT !.ch = [w1.buf[b].ch EXCEPT ![0] = NUL]])
    OBVIOUS
  <2>3. PICK w3 : w3 = Puts(w2, b, [w2.buf[b] EXCEPT !.ch = [w2.buf[b].ch EXCEPT ![1] = NUL]])
    OBVIOUS
  <2>4. PICK w4 : w4 = Puts(w3, b, [w3.buf[b] EXCEPT !.pos = 0])
    OBVIOUS
  <2>5. PICK w5 : w5 = Puts(w4, b, [w4.buf[b] EXCEPT !.status = "new"])
    OBVIOUS
  <2>6. v = w5
    BY <1>2, <2>1, <2>2, <2>3, <2>4, <2>5, Zenon DEF Puts
  <2>7. w1 = Puts(w, b, r1)
    BY <1>1, <1>3, <2>1
  <2>8. w2 = Puts(w, b, r2)
    BY <1>4, <1>8, <1>9, <2>2, <2>7
  <2>9. w3 = Puts(w, b, r3)
    BY <1>5, <1>8, <1>9, <2>3, <2>8
  <2>10. w4 = Puts(w, b, r4)
    BY <1>6, <1>8, <1>9, <2>4, <2>9
  <2>11. w5 = Puts(w, b, r5)
    BY <1>7, <1>8, <1>9, <2>5, <2>10
  <2> QED BY <2>6, <2>11
<1>11. r5 = Emptied(q)
  BY <1>3, <1>4, <1>5, <1>6, <1>7 DEF Emptied
<1> QED BY <1>1, <1>2, <1>10, <1>11, Zenon

(* yy_flush_buffer *)
IsFlushed(F, w, b, v) ==
  /\ Framed(F, v) /\ SameStack(w, v) /\ v.init = w.init /\ DOMAIN v.buf = DOMAIN w.buf
  /\ v.buf = [w.buf EXCEPT ![b] = Emptied(w.buf[b])]
  /\ b # YY_CURRENT_BUFFER(w) => Same(w, v)
  /\ b = YY_CURRENT_BUFFER(w) => AtRest(F, v) /\ Loaded(v) /\ v.in = B(v).file
LEMMA Flushes ==
  ASSUME NEW F, NEW w, Framed(F, w), NEW b \in DOMAIN w.buf
  PROVE  IsFlushed(F, w, b, yy_flush_buffer(w, b))
<1>0. PICK v : v = yy_flush_buffer(w, b)
  OBVIOUS
<1> SUFFICES IsFlushed(F, w, b, v)
  BY <1>0
<1>1. PICK r : r = Emptied(w.buf[b])
  OBVIOUS
<1>2. PICK e : e = Puts(w, b, r)
  OBVIOUS
<1>3. Globals(F, w) /\ Record(w) /\ Whole(F, w.buf[b]) /\ w.buf = [o \in DOMAIN w.buf |-> w.buf[o]]
  BY DEF Framed, Globals
<1>4. Whole(F, r) /\ Asleep(r)
  BY <1>1, <1>3, EmptiedWhole
<1>5. IsSet(F, w, b, r, e)
  BY <1>2, <1>4, BufferSet
<1>6. v = IF b = YY_CURRENT_BUFFER(w) THEN yy_load_buffer_state(e) ELSE e
  <2>1. e = [w EXCEPT !.buf[b].n = 0, !.buf[b].ch[0] = NUL, !.buf[b].ch[1] = NUL,
                   !.buf[b].pos = 0, !.buf[b].status = "new"]
    BY <1>1, <1>2, <1>3, FlushSteps, Zenon
  <2>2. yy_flush_buffer(w, b) =
          LET x == [w EXCEPT !.buf[b].n = 0, !.buf[b].ch[0] = NUL, !.buf[b].ch[1] = NUL,
                             !.buf[b].pos = 0, !.buf[b].status = "new"]
          IN  IF b = YY_CURRENT_BUFFER(w) THEN yy_load_buffer_state(x) ELSE x
    BY Zenon DEF yy_flush_buffer
  <2> QED BY <1>0, <2>1, <2>2, Zenon
<1>7. CASE b = YY_CURRENT_BUFFER(w)
  <2>1. YY_CURRENT_BUFFER(e) = b /\ B(e) = r /\ Framed(F, e) /\ b # None
    BY <1>3, <1>5, <1>7, CurrentKept, NoneIsNoBuffer DEF IsSet, B
  <2>2. IsLoaded(F, e, v)
    BY <1>4, <1>6, <1>7, <2>1, LoadsBuffer
  <2>3. v.buf = e.buf /\ SameStack(w, v) /\ v.init = w.init /\ AtRest(F, v) /\ Framed(F, v)
    BY <1>5, <2>2 DEF IsLoaded, IsSet, SameStack, Same, AtRest
  <2>4. Loaded(v) /\ v.in = B(v).file
    BY <2>2, CurrentKept DEF IsLoaded, B
  <2> QED BY <1>1, <1>5, <1>7, <2>3, <2>4 DEF IsFlushed, IsSet
<1>8. CASE b # YY_CURRENT_BUFFER(w)
  <2>1. v = e
    BY <1>6, <1>8
  <2> QED BY <1>1, <1>5, <1>8, <2>1 DEF IsFlushed, IsSet, Same
<1> QED BY <1>7, <1>8

(* yy_init_buffer *)
IsInited(F, w, b, r, v) ==
  /\ Framed(F, v) /\ SameStack(w, v) /\ v.init = w.init /\ DOMAIN v.buf = DOMAIN w.buf
  /\ v.buf[b] = r /\ \A o \in DOMAIN w.buf \ {b} : v.buf[o] = w.buf[o]
  /\ Whole(F, r) /\ Asleep(r) /\ r.n = 0 /\ r.pos = 0 /\ r.fill = TRUE /\ r.status = "new"
  /\ r.size = w.buf[b].size
LEMMA Inits ==
  ASSUME NEW F, NEW w, Framed(F, w), NEW b \in DOMAIN w.buf, NEW f \in F
  PROVE  /\ IsInited(F, w, b, Fresh(w.buf[b], f), yy_init_buffer(w, b, f))
         /\ Empty(Fresh(w.buf[b], f), f)
<1>0. PICK v : v = yy_init_buffer(w, b, f)
  OBVIOUS
<1>1. PICK e : e = yy_flush_buffer(w, b)
  OBVIOUS
<1>2. PICK q : q = Emptied(w.buf[b])
  OBVIOUS
<1>3. PICK r : r = Fresh(w.buf[b], f)
  OBVIOUS
<1> SUFFICES IsInited(F, w, b, r, v) /\ Empty(r, f)
  BY <1>0, <1>3
<1>4. /\ Shaped(w.buf[b]) /\ w.buf[b].size \in Nat /\ w.buf[b].ours \in BOOLEAN
      /\ w.buf[b].ch \in [0..w.buf[b].size + 1 -> Slot]
  BY DEF Framed, Globals, Whole
<1>5. /\ Whole(F, r) /\ Asleep(r) /\ r.n = 0 /\ r.pos = 0 /\ r.fill = TRUE /\ r.status = "new"
      /\ r.size = w.buf[b].size /\ Empty(r, f)
  <2>1. IsFresh(F, w.buf[b], r) /\ Empty(r, f)
    BY <1>3, <1>4, FreshWhole
  <2> QED BY <2>1 DEF IsFresh
<1>6. IsFlushed(F, w, b, e)
  BY <1>1, Flushes
<1>7. e.buf[b] = q /\ DOMAIN e.buf = DOMAIN w.buf /\ Framed(F, e) /\ Record(e)
  BY <1>2, <1>6 DEF IsFlushed, Framed, Globals
<1>8. [q EXCEPT !.file = f, !.fill = TRUE, !.tty = f \in Tty] = r
  BY <1>2, <1>3, <1>4 DEF Emptied, Fresh, Shaped
<1>9. v = Puts(e, b, r)
  <2>1. v = Puts(e, b, [e.buf[b] EXCEPT !.file = f, !.fill = TRUE, !.tty = f \in Tty])
    BY <1>0, <1>1, Zenon DEF yy_init_buffer, Puts
  <2> QED BY <1>7, <1>8, <2>1
<1>10. IsSet(F, e, b, r, v)
  BY <1>5, <1>7, <1>9, BufferSet
<1>11. Framed(F, v) /\ SameStack(w, v) /\ v.init = w.init /\ DOMAIN v.buf = DOMAIN w.buf
  BY <1>6, <1>10 DEF IsFlushed, IsSet, SameStack, Same
<1>12. v.buf[b] = r /\ \A o \in DOMAIN w.buf \ {b} : v.buf[o] = w.buf[o]
  BY <1>6, <1>10 DEF IsFlushed, IsSet
<1> QED BY <1>5, <1>11, <1>12 DEF IsInited

(* There is an address for another buffer as long as not all are used. *)
LEMMA NewBufferIsNew ==
  ASSUME NEW w, DOMAIN w.buf \subseteq Buf, DOMAIN w.buf # Buf
  PROVE  NewBuffer(w) \in Buf /\ NewBuffer(w) \notin DOMAIN w.buf
  BY DEF NewBuffer

(* yy_create_buffer *)
IsNew(F, w, f, v) ==
  /\ IsAdded(F, w, NewBuffer(w), v.buf[NewBuffer(w)], v)
  /\ Whole(F, v.buf[NewBuffer(w)]) /\ Asleep(v.buf[NewBuffer(w)])
  /\ Empty(v.buf[NewBuffer(w)], f)
LEMMA Creates ==
  ASSUME NEW F, NEW w, Framed(F, w), DOMAIN w.buf # Buf, NEW f \in F, NEW size \in Nat
  PROVE  IsNew(F, w, f, yy_create_buffer(w, f, size))
<1>0. PICK v : v = yy_create_buffer(w, f, size)
  OBVIOUS
<1> SUFFICES IsNew(F, w, f, v)
  BY <1>0
<1>1. PICK b : b = NewBuffer(w)
  OBVIOUS
<1>2. PICK q : q = yy_buffer_state([i \in 0..size + 1 |-> Junk], size, FALSE)
  OBVIOUS
<1>3. PICK e : e = Adds(w, b, q)
  OBVIOUS
<1>4. PICK r : r = Fresh(q, f)
  OBVIOUS
<1>5. /\ Globals(F, w) /\ Record(w) /\ b \in Buf /\ b \notin DOMAIN w.buf
      /\ w.buf = [o \in DOMAIN w.buf |-> w.buf[o]]
  BY <1>1, NewBufferIsNew DEF Framed, Globals
<1>6. /\ Shaped(q) /\ q.size \in Nat /\ q.ours \in BOOLEAN
      /\ q.ch \in [0..q.size + 1 -> Slot]
  BY <1>2 DEF Shaped, yy_buffer_state, Slot
<1>7. Whole(F, r) /\ Asleep(r) /\ Empty(r, f)
  BY <1>4, <1>6, FreshWhole DEF IsFresh
<1>8. /\ e.buf = With(w.buf, b, q) /\ e.stack = w.stack /\ e.top = w.top /\ Record(e)
      /\ DOMAIN e.buf = DOMAIN w.buf \cup {b} /\ e.buf[b] = q
      /\ e.buf = [o \in DOMAIN e.buf |-> e.buf[o]]
  BY <1>3, <1>5 DEF Adds, Record, With
<1>9. b # YY_CURRENT_BUFFER(e)
  <2>1. YY_CURRENT_BUFFER(e) = YY_CURRENT_BUFFER(w)
    BY <1>8 DEF YY_CURRENT_BUFFER
  <2> QED BY <1>5, <2>1, CurrentHeld, NoneIsNoBuffer
<1>10. yy_flush_buffer(e, b) = Puts(e, b, Emptied(q))
  <2>1. b \in DOMAIN e.buf
    BY <1>8
  <2>2. [e EXCEPT !.buf[b].n = 0, !.buf[b].ch[0] = NUL, !.buf[b].ch[1] = NUL,
                   !.buf[b].pos = 0, !.buf[b].status = "new"] = Puts(e, b, Emptied(q))
    <3>1. [e EXCEPT !.buf[b].n = 0, !.buf[b].ch[0] = NUL, !.buf[b].ch[1] = NUL,
                    !.buf[b].pos = 0, !.buf[b].status = "new"] = Puts(e, b, Emptied(e.buf[b]))
      BY <1>8, <2>1, FlushSteps, Zenon
    <3> QED BY <1>8, <3>1, Zenon
  <2> QED BY <1>9, <2>2, Zenon DEF yy_flush_buffer
<1>11. v = Puts(e, b, r)
  <2>1. PICK x : x = Puts(e, b, Emptied(q))
    OBVIOUS
  <2>2. x.buf[b] = Emptied(q) /\ b \in DOMAIN e.buf
    BY <1>8, <2>1 DEF Puts, Record
  <2>3. v = yy_init_buffer(e, b, f)
    BY <1>0, <1>1, <1>2, <1>3, Zenon DEF yy_create_buffer, Adds
  <2>4. v = Puts(x, b, [x.buf[b] EXCEPT !.file = f, !.fill = TRUE, !.tty = f \in Tty])
    BY <1>10, <2>1, <2>3, Zenon DEF yy_init_buffer, Puts
  <2>5. [Emptied(q) EXCEPT !.file = f, !.fill = TRUE, !.tty = f \in Tty] = r
    BY <1>4, <1>6 DEF Emptied, Fresh, Shaped
  <2>6. v = Puts(x, b, r)
    BY <2>2, <2>4, <2>5
  <2> QED BY <1>8, <2>1, <2>2, <2>6, PutsTwice
<1>12. v = Adds(w, b, r)
  <2>1. [With(w.buf, b, q) EXCEPT ![b] = r] = With(w.buf, b, r)
    BY DEF With
  <2>2. v = [e EXCEPT !.buf = With(w.buf, b, r)]
    BY <1>8, <1>11, <2>1 DEF Puts
  <2> QED BY <1>3, <1>5, <2>2 DEF Adds, Record
<1>13. IsAdded(F, w, b, r, v)
  BY <1>5, <1>7, <1>12, BufferAdded
<1>14. v.buf[b] = r
  BY <1>13 DEF IsAdded
<1> QED BY <1>1, <1>7, <1>13, <1>14 DEF IsNew

(* A buffer for yyin when there is none yet. *)
CanBegin(F, w) == YY_CURRENT_BUFFER(w) = None => DOMAIN w.buf # Buf /\ w.in \in F
IsBegun(F, w, v) ==
  /\ Framed(F, v) /\ Same(w, v) /\ (YY_CURRENT_BUFFER(w) # None => v = w)
  /\ (YY_CURRENT_BUFFER(w) = None => AllAsleep(v))
  /\ YY_CURRENT_BUFFER(v) =
       (IF YY_CURRENT_BUFFER(w) = None THEN NewBuffer(w) ELSE YY_CURRENT_BUFFER(w))
  /\ DOMAIN v.buf = DOMAIN w.buf \cup {YY_CURRENT_BUFFER(v)} /\ YY_CURRENT_BUFFER(v) # None
  /\ YY_CURRENT_BUFFER(w) = None => Empty(B(v), w.in)
  /\ StillOff(w, v, {YY_CURRENT_BUFFER(v)}) /\ \A o \in DOMAIN w.buf : v.buf[o] = w.buf[o]
LEMMA Begins ==
  ASSUME NEW F, NEW w, Framed(F, w), CanBegin(F, w)
  PROVE  IsBegun(F, w, EnsureCurrent(w))
<1>0. PICK v : v = EnsureCurrent(w)
  OBVIOUS
<1> SUFFICES IsBegun(F, w, v)
  BY <1>0
<1>1. Globals(F, w) /\ None \notin DOMAIN w.buf /\ None \notin Buf /\ DOMAIN w.buf \subseteq Buf
  BY NoneIsNoBuffer DEF Framed, Globals
<1>2. CASE YY_CURRENT_BUFFER(w) # None
  <2>1. v = w
    BY <1>0, <1>2 DEF EnsureCurrent
  <2>2. YY_CURRENT_BUFFER(w) \in DOMAIN w.buf
    BY <1>1, <1>2, CurrentHeld
  <2> QED BY <1>2, <2>1, <2>2 DEF IsBegun, Same, StillOff
<1>3. CASE YY_CURRENT_BUFFER(w) = None
  <2>1. PICK e : e = yyensure_buffer_stack(w)
    OBVIOUS
  <2>2. PICK c : c = yy_create_buffer(e, e.in, YY_BUF_SIZE)
    OBVIOUS
  <2>3. PICK b : b = NewBuffer(e)
    OBVIOUS
  <2>4. IsEnsured(F, w, e)
    BY <1>1, <2>1, EnsuresStack
  <2>5. v = SetCurrent(c, b) /\ b = NewBuffer(w)
    <3>1. e.in = w.in /\ e.buf = w.buf
      BY <2>4 DEF IsEnsured, Same
    <3>2. v = SetCurrent(yy_create_buffer(e, w.in, YY_BUF_SIZE), NewBuffer(e))
      BY <1>0, <1>3, <2>1, Zenon DEF EnsureCurrent
    <3> QED BY <2>2, <2>3, <3>1, <3>2 DEF NewBuffer
  <2>6. Framed(F, e) /\ DOMAIN e.buf # Buf /\ e.in \in F /\ YY_BUF_SIZE \in Nat
    BY <1>3, <2>4, BuffersAssumption DEF IsEnsured, Framed, Same, CanBegin
  <2>7. IsNew(F, e, w.in, c)
    BY <2>2, <2>4, <2>6, Creates DEF IsEnsured, Same
  <2>8. /\ IsAdded(F, e, b, c.buf[b], c) /\ Asleep(c.buf[b]) /\ b \in Buf /\ b \notin DOMAIN w.buf
        /\ Empty(c.buf[b], w.in)
    BY <1>1, <2>3, <2>4, <2>6, <2>7, NewBufferIsNew DEF IsNew, IsEnsured
  <2>9. /\ Globals(F, c) /\ Same(w, c) /\ DOMAIN c.buf = DOMAIN w.buf \cup {b}
        /\ c.stack # <<>> /\ \A o \in DOMAIN w.buf : c.buf[o] = w.buf[o]
    BY <2>4, <2>8 DEF IsAdded, IsEnsured, Framed, Same, SameStack
  <2>10. AllAsleep(c)
    BY <1>1, <1>3, <2>8, <2>9 DEF AllAsleep, Framed
  <2>11. OffStack(c, b)
    <3>1. OffStack(w, b)
      BY <1>1, <2>8 DEF OffStack, Globals, Stacked
    <3> QED BY <2>4, <2>8, <3>1 DEF IsEnsured, IsAdded, SameStack, OffStack
  <2>12. IsCurrent(F, c, b, v)
    BY <2>5, <2>8, <2>9, <2>11, SetsCurrent
  <2>13. /\ Globals(F, v) /\ Same(w, v) /\ AllAsleep(v) /\ YY_CURRENT_BUFFER(v) = b
         /\ DOMAIN v.buf = DOMAIN w.buf \cup {b}
    BY <2>9, <2>10, <2>12 DEF IsCurrent, AllAsleep, Same
  <2>14. Framed(F, v)
    BY <2>13 DEF Framed, AllAsleep
  <2>15. b # None
    BY <1>1, <2>8
  <2>16. Empty(B(v), w.in) /\ \A o \in DOMAIN w.buf : v.buf[o] = w.buf[o]
    BY <2>8, <2>9, <2>12, <2>13 DEF IsCurrent, B
  <2>17. StillOff(w, v, {b})
    BY <2>4, <2>8, <2>12 DEF IsEnsured, IsAdded, SameStack, IsCurrent, StillOff, OffStack
  <2> QED BY <1>3, <2>5, <2>13, <2>14, <2>15, <2>16, <2>17 DEF IsBegun
<1> QED BY <1>2, <1>3

(* yyrestart *)
IsRestarted(F, w, f, v) ==
  /\ AtRest(F, v) /\ Loaded(v) /\ v.init = w.init /\ YY_CURRENT_BUFFER(v) # None
  /\ YY_CURRENT_BUFFER(v) =
       (IF YY_CURRENT_BUFFER(w) = None THEN NewBuffer(w) ELSE YY_CURRENT_BUFFER(w))
  /\ DOMAIN v.buf = DOMAIN w.buf \cup {YY_CURRENT_BUFFER(v)}
  /\ v.n = 0 /\ v.cp = 0 /\ v.text = 0 /\ B(v).fill = TRUE
  /\ YY_CURRENT_BUFFER(w) # None => B(v).size = B(w).size
  /\ Empty(B(v), f) /\ v.in = f
  /\ StillOff(w, v, {YY_CURRENT_BUFFER(v)})
  /\ \A o \in DOMAIN w.buf \ {YY_CURRENT_BUFFER(v)} : v.buf[o] = w.buf[o]
LEMMA Restarts ==
  ASSUME NEW F, NEW w, Framed(F, w), CanBegin(F, w), NEW f \in F
  PROVE  IsRestarted(F, w, f, yyrestart(w, f))
<1>0. PICK v : v = yyrestart(w, f)
  OBVIOUS
<1> SUFFICES IsRestarted(F, w, f, v)
  BY <1>0
<1>1. PICK e : e = EnsureCurrent(w)
  OBVIOUS
<1>2. PICK c : c = YY_CURRENT_BUFFER(e)
  OBVIOUS
<1>3. PICK i : i = yy_init_buffer(e, c, f)
  OBVIOUS
<1>4. PICK r : r = Fresh(e.buf[c], f)
  OBVIOUS
<1>5. v = yy_load_buffer_state(i)
  BY <1>0, <1>1, <1>2, <1>3 DEF yyrestart
<1>6. IsBegun(F, w, e)
  BY <1>1, Begins
<1>7. Framed(F, e) /\ c \in DOMAIN e.buf /\ c # None
  BY <1>2, <1>6 DEF IsBegun
<1>8. IsInited(F, e, c, r, i) /\ Empty(r, f)
  BY <1>3, <1>4, <1>7, Inits
<1>9. /\ Framed(F, i) /\ YY_CURRENT_BUFFER(i) = c /\ B(i) = r /\ Asleep(r) /\ i.init = e.init
      /\ DOMAIN i.buf = DOMAIN e.buf
  BY <1>2, <1>8, CurrentKept DEF IsInited, B
<1>10. IsLoaded(F, i, v)
  BY <1>5, <1>7, <1>9, LoadsBuffer
<1>11. YY_CURRENT_BUFFER(v) = c /\ B(v) = r /\ DOMAIN v.buf = DOMAIN e.buf /\ v.init = e.init
  BY <1>9, <1>10, CurrentKept DEF IsLoaded, B
<1>12. v.n = 0 /\ v.cp = 0 /\ v.text = 0 /\ B(v).fill = TRUE
  BY <1>8, <1>10, <1>11 DEF IsLoaded, Loaded, IsInited
<1>13. YY_CURRENT_BUFFER(w) # None => B(v).size = B(w).size
  BY <1>2, <1>6, <1>8, <1>11 DEF IsInited, IsBegun, B
<1>14. /\ v.init = w.init /\ DOMAIN v.buf = DOMAIN w.buf \cup {c}
       /\ c = IF YY_CURRENT_BUFFER(w) = None THEN NewBuffer(w) ELSE YY_CURRENT_BUFFER(w)
  BY <1>2, <1>6, <1>11 DEF IsBegun, Same
<1>15. Empty(B(v), f) /\ v.in = f
  BY <1>8, <1>9, <1>10, <1>11 DEF IsLoaded, Empty
<1>16. StillOff(w, v, {c})
  BY <1>2, <1>6, <1>8, <1>10 DEF IsBegun, IsInited, IsLoaded, SameStack, StillOff, OffStack
<1>17. \A o \in DOMAIN w.buf \ {c} : v.buf[o] = w.buf[o]
  BY <1>2, <1>6, <1>8, <1>10 DEF IsBegun, IsInited, IsLoaded
<1> QED BY <1>7, <1>10, <1>11, <1>12, <1>13, <1>14, <1>15, <1>16, <1>17 DEF IsRestarted, IsLoaded

(* The same before yylex has set yyin: the buffer made for the stream that is not
   there yet is set to f at once. *)
LEMMA RestartsFirst ==
  ASSUME NEW F, NEW w, Framed(F, w), YY_CURRENT_BUFFER(w) = None => DOMAIN w.buf # Buf, NEW f \in F
  PROVE  IsRestarted(F, w, f, yyrestart(w, f))
<1>0. PICK v : v = yyrestart(w, f)
  OBVIOUS
<1> SUFFICES IsRestarted(F, w, f, v)
  BY <1>0
<1>1. PICK G : G = F \cup {None}
  OBVIOUS
<1>2. F \subseteq G /\ G \cup {None} = G /\ F \cup {None} = G
  BY <1>1
<1>3. Framed(G, w) /\ CanBegin(G, w) /\ f \in G
  <2>1. Globals(F, w) /\ w.in \in G
    BY <1>2 DEF Framed, Globals, Counts
  <2>2. Counts(G, w)
    BY <1>2, <2>1 DEF Globals, Counts
  <2>3. \A b \in DOMAIN w.buf : Whole(G, w.buf[b])
    BY <1>2, <2>1 DEF Globals, Whole
  <2>4. Globals(G, w)
    BY <2>1, <2>2, <2>3 DEF Globals
  <2> QED BY <1>2, <2>1, <2>4 DEF Framed, CanBegin
<1>4. IsRestarted(G, w, f, v)
  BY <1>0, <1>3, Restarts
<1>5. PICK c : c = YY_CURRENT_BUFFER(v)
  OBVIOUS
<1>6. /\ AtRest(G, v) /\ Framed(G, v) /\ Globals(G, v) /\ Between(G, v) /\ c # None
      /\ DOMAIN v.buf = DOMAIN w.buf \cup {c} /\ B(v) = v.buf[c] /\ v.buf[c].file = f /\ v.in = f
      /\ \A o \in DOMAIN w.buf \ {c} : v.buf[o] = w.buf[o]
  BY <1>4, <1>5 DEF IsRestarted, AtRest, Framed, Empty, B
<1>7. \A b \in DOMAIN v.buf : Whole(F, v.buf[b])
  <2>1. Whole(F, v.buf[c])
    <3>1. Whole(G, v.buf[c])
      BY <1>6 DEF Globals
    <3> QED BY <1>6, <3>1 DEF Whole
  <2>2. \A b \in DOMAIN w.buf \ {c} : Whole(F, v.buf[b])
    BY <1>6 DEF Framed, Globals
  <2> QED BY <1>6, <2>1, <2>2
<1>8. Counts(F, v)
  BY <1>6 DEF Globals, Counts
<1>9. Framed(F, v)
  BY <1>6, <1>7, <1>8 DEF Framed, Globals
<1>10. Between(F, v)
  BY <1>6 DEF Between, Awake
<1> QED BY <1>4, <1>9, <1>10 DEF IsRestarted, AtRest

(* What is at rest stays so on a stack with room. *)
LEMMA EnsuredAtRest ==
  ASSUME NEW F, NEW w, AtRest(F, w), NEW v, IsEnsured(F, w, v)
  PROVE  AtRest(F, v)
<1>1. /\ Framed(F, w) /\ Globals(F, v) /\ Same(w, v) /\ v.buf = w.buf
      /\ YY_CURRENT_BUFFER(v) = YY_CURRENT_BUFFER(w) /\ B(v) = B(w)
  BY DEF AtRest, IsEnsured, B
<1>2. Framed(F, v)
  BY <1>1 DEF Framed
<1>3. Between(F, w) => Between(F, v)
  BY <1>1 DEF Between, Awake, Same, Restored, Loaded
<1> QED BY <1>1, <1>2, <1>3 DEF AtRest

(* The current buffer b is loaded, and nothing else happened to the buffers. *)
IsSwitched(F, w, b, v) ==
  /\ AtRest(F, v) /\ DOMAIN v.buf = DOMAIN w.buf /\ v.init = w.init
  /\ YY_CURRENT_BUFFER(v) = b /\ Loaded(v) /\ v.in = B(v).file
  /\ SavedIn(w, v) /\ StillOff(w, v, {b})

(* yy_switch_to_buffer *)
LEMMA Switches ==
  ASSUME NEW F, NEW w, AtRest(F, w), NEW b \in DOMAIN w.buf, OffStack(w, b)
  PROVE  IsSwitched(F, w, b, yy_switch_to_buffer(w, b))
<1>0. PICK v : v = yy_switch_to_buffer(w, b)
  OBVIOUS
<1> SUFFICES IsSwitched(F, w, b, v)
  BY <1>0
<1>1. PICK e : e = yyensure_buffer_stack(w)
  OBVIOUS
<1>2. PICK s : s = SaveCurrent(e)
  OBVIOUS
<1>3. PICK c : c = SetCurrent(s, b)
  OBVIOUS
<1>4. Globals(F, w) /\ b \in Buf /\ b # None /\ Stacked(w)
  BY NoneIsNoBuffer DEF AtRest, Framed, Globals
<1>5. IsEnsured(F, w, e)
  BY <1>1, <1>4, EnsuresStack
<1>6. AtRest(F, e) /\ OffStack(e, b)
  BY <1>4, <1>5, EnsuredAtRest DEF IsEnsured
<1>7. YY_CURRENT_BUFFER(e) # b
  BY <1>4, <1>6, CurrentHeld DEF AtRest, Framed, OffStack, YY_CURRENT_BUFFER, Globals, Stacked
<1>8. v = yy_load_buffer_state(c)
  BY <1>0, <1>1, <1>2, <1>3, <1>7 DEF yy_switch_to_buffer
<1>9. IsSaved(F, e, s)
  BY <1>2, <1>6, SavesCurrent
<1>10. /\ Globals(F, s) /\ AllAsleep(s) /\ s.stack # <<>> /\ b \in DOMAIN s.buf /\ OffStack(s, b)
       /\ DOMAIN s.buf = DOMAIN w.buf /\ s.init = w.init
  BY <1>5, <1>6, <1>9 DEF IsSaved, IsEnsured, SameStack, Same, OffStack
<1>11. IsCurrent(F, s, b, c)
  BY <1>3, <1>10, SetsCurrent
<1>12. /\ Framed(F, c) /\ YY_CURRENT_BUFFER(c) = b /\ Asleep(B(c))
       /\ c.buf = s.buf /\ c.init = s.init
  BY <1>10, <1>11 DEF IsCurrent, Framed, AllAsleep, B, Same
<1>13. IsLoaded(F, c, v)
  BY <1>4, <1>8, <1>12, LoadsBuffer
<1>14. YY_CURRENT_BUFFER(v) = b /\ AtRest(F, v) /\ v.buf = c.buf /\ v.init = c.init
  BY <1>12, <1>13, CurrentKept DEF IsLoaded
<1>15. SavedIn(w, v)
  <2>1. SavedIn(w, s)
    BY <1>5, <1>9 DEF IsEnsured, IsSaved, SavedIn, Saved, Same, Restored, B
  <2> QED BY <1>12, <1>14, <2>1 DEF SavedIn
<1>16. StillOff(w, v, {b})
  BY <1>5, <1>9, <1>11, <1>13 DEF IsEnsured, IsSaved, IsCurrent, IsLoaded, SameStack, StillOff, OffStack
<1>17. Loaded(v) /\ v.in = B(v).file
  BY <1>13, CurrentKept DEF IsLoaded, B
<1> QED BY <1>10, <1>12, <1>14, <1>15, <1>16, <1>17 DEF IsSwitched

(* One slot further up the stack, there being one. *)
LEMMA GoesUp ==
  ASSUME NEW F, NEW w, Globals(F, w), YY_CURRENT_BUFFER(w) # None,
         w.top < Len(w.stack) - 1, NEW v, v = [w EXCEPT !.top = w.top + 1]
  PROVE  /\ Globals(F, v) /\ v.buf = w.buf /\ v.init = w.init /\ v.stack = w.stack
         /\ v.stack # <<>>
<1>1. Record(w) /\ Counts(F, w) /\ Stacked(w) /\ w.stack # <<>>
  BY CurrentHeld DEF Globals
<1>2. v.buf = w.buf /\ v.stack = w.stack /\ v.top = w.top + 1 /\ Same(w, v) /\ Record(v)
  BY <1>1 DEF Record, Same
<1>3. Stacked(v)
  <2>1. w.top \in Nat /\ Len(w.stack) \in Nat /\ DOMAIN w.stack = 1..Len(w.stack)
    BY <1>1 DEF Stacked
  <2>2. v.top \in Nat /\ v.top < Len(v.stack)
    BY <1>2, <2>1
  <2>3. \A i \in DOMAIN v.stack : i > v.top + 1 => v.stack[i] = None
    <3>1. \A i \in DOMAIN w.stack : i > w.top + 1 + 1 => i > w.top + 1
      BY <2>1
    <3> QED BY <1>1, <1>2, <3>1 DEF Stacked
  <2> QED BY <1>1, <1>2, <2>2, <2>3 DEF Stacked
<1>4. Globals(F, v)
  BY <1>1, <1>2, <1>3, CountsKept DEF Globals
<1> QED BY <1>1, <1>2, <1>4 DEF Same

(* yypush_buffer_state *)
LEMMA Pushes ==
  ASSUME NEW F, NEW w, AtRest(F, w), NEW b \in DOMAIN w.buf, OffStack(w, b)
  PROVE  IsSwitched(F, w, b, yypush_buffer_state(w, b))
<1>0. PICK v : v = yypush_buffer_state(w, b)
  OBVIOUS
<1> SUFFICES IsSwitched(F, w, b, v)
  BY <1>0
<1>1. PICK e : e = yyensure_buffer_stack(w)
  OBVIOUS
<1>2. PICK s : s = SaveCurrent(e)
  OBVIOUS
<1>3. PICK u : u = IF YY_CURRENT_BUFFER(s) = None THEN s ELSE [s EXCEPT !.top = s.top + 1]
  OBVIOUS
<1>4. PICK c : c = SetCurrent(u, b)
  OBVIOUS
<1>5. v = yy_load_buffer_state(c)
  BY <1>0, <1>1, <1>2, <1>3, <1>4, Zenon DEF yypush_buffer_state
<1>6. Globals(F, w) /\ b \in Buf /\ b # None
  BY NoneIsNoBuffer DEF AtRest, Framed, Globals
<1>7. IsEnsured(F, w, e)
  BY <1>1, <1>6, EnsuresStack
<1>8. AtRest(F, e) /\ OffStack(e, b)
  BY <1>6, <1>7, EnsuredAtRest DEF IsEnsured
<1>9. IsSaved(F, e, s)
  BY <1>2, <1>8, SavesCurrent
<1>10. YY_CURRENT_BUFFER(s) = YY_CURRENT_BUFFER(e) /\ YY_CURRENT_BUFFER(e) = YY_CURRENT_BUFFER(w)
  BY <1>7, <1>9, CurrentKept DEF IsSaved, IsEnsured
<1>11. /\ Globals(F, s) /\ AllAsleep(s) /\ s.stack # <<>> /\ OffStack(s, b)
       /\ DOMAIN s.buf = DOMAIN w.buf /\ s.init = w.init
  BY <1>7, <1>8, <1>9 DEF IsSaved, IsEnsured, SameStack, Same, OffStack
<1>12. YY_CURRENT_BUFFER(s) # None => s.top < Len(s.stack) - 1
  BY <1>7, <1>9, <1>10 DEF IsEnsured, IsSaved, SameStack
<1>13. Globals(F, u) /\ u.buf = s.buf /\ u.init = s.init /\ u.stack = s.stack
  BY <1>3, <1>11, <1>12, GoesUp
<1>14. u.stack # <<>> /\ b \in DOMAIN u.buf /\ OffStack(u, b)
  BY <1>11, <1>13 DEF OffStack
<1>15. IsCurrent(F, u, b, c)
  BY <1>4, <1>13, <1>14, SetsCurrent
<1>16. /\ Framed(F, c) /\ YY_CURRENT_BUFFER(c) = b /\ Asleep(B(c))
       /\ c.buf = u.buf /\ c.init = u.init
  BY <1>11, <1>13, <1>14, <1>15 DEF IsCurrent, Framed, AllAsleep, B, Same
<1>17. IsLoaded(F, c, v)
  BY <1>5, <1>6, <1>16, LoadsBuffer
<1>18. YY_CURRENT_BUFFER(v) = b /\ AtRest(F, v) /\ v.buf = c.buf /\ v.init = c.init
  BY <1>16, <1>17, CurrentKept DEF IsLoaded
<1>19. SavedIn(w, v)
  <2>1. SavedIn(w, s)
    BY <1>7, <1>9 DEF IsEnsured, IsSaved, SavedIn, Saved, Same, Restored, B
  <2> QED BY <1>13, <1>16, <1>18, <2>1 DEF SavedIn
<1>20. StillOff(w, v, {b})
  BY <1>7, <1>9, <1>13, <1>15, <1>17
     DEF IsEnsured, IsSaved, IsCurrent, IsLoaded, SameStack, StillOff, OffStack
<1>21. Loaded(v) /\ v.in = B(v).file
  BY <1>17, CurrentKept DEF IsLoaded, B
<1> QED BY <1>11, <1>13, <1>16, <1>18, <1>19, <1>20, <1>21 DEF IsSwitched

(* yypop_buffer_state *)
IsPopped(F, w, v) ==
  /\ AtRest(F, v) /\ v.init = w.init
  /\ DOMAIN v.buf = DOMAIN w.buf \ {YY_CURRENT_BUFFER(w)}
  /\ \A o \in DOMAIN v.buf : v.buf[o] = w.buf[o]
  /\ YY_CURRENT_BUFFER(v) # None => Loaded(v) /\ v.in = B(v).file
  /\ StillOff(w, v, {})
LEMMA Pops ==
  ASSUME NEW F, NEW w, Framed(F, w), YY_CURRENT_BUFFER(w) # None
  PROVE  IsPopped(F, w, yypop_buffer_state(w))
<1>1. PICK v : v = yypop_buffer_state(w)
  OBVIOUS
<1> SUFFICES IsPopped(F, w, v)
  BY <1>1
<1>2. PICK b : b = YY_CURRENT_BUFFER(w)
  OBVIOUS
<1>3. PICK g : g = yy_delete_buffer(w, b)
  OBVIOUS
<1>4. PICK d : d = SetCurrent(g, None)
  OBVIOUS
<1>5. PICK e : e = IF w.top > 0 THEN [d EXCEPT !.top = d.top - 1] ELSE d
  OBVIOUS
<1>6. v = IF YY_CURRENT_BUFFER(e) = None THEN e ELSE yy_load_buffer_state(e)
  BY <1>1, <1>2, <1>3, <1>4, <1>5, Zenon DEF yypop_buffer_state
<1>7. b \in DOMAIN w.buf /\ w.stack # <<>>
  BY <1>2, CurrentHeld DEF Framed
<1>8. IsDeleted(F, w, b, g)
  BY <1>2, <1>3, <1>7, Deletes
<1>9. IsCurrent(F, g, None, d)
  BY <1>4, <1>7, <1>8, SetsCurrent DEF IsDeleted, Framed
<1>10. /\ Globals(F, d) /\ AllAsleep(d) /\ d.init = w.init /\ d.top = w.top
      /\ DOMAIN d.buf = DOMAIN w.buf \ {b} /\ d.stack # <<>> /\ d.stack[d.top + 1] = None
  <2>1. AllAsleep(g)
    <3>1. YY_CURRENT_BUFFER(g) = None /\ Framed(F, g)
      BY <1>2, <1>8 DEF IsDeleted
    <3> QED BY <3>1, NoneIsNoBuffer DEF Framed, AllAsleep
  <2> QED BY <1>8, <1>9, <2>1 DEF IsDeleted, IsCurrent, Same, AllAsleep
<1>11. /\ Globals(F, e) /\ e.buf = d.buf /\ e.init = d.init /\ e.stack = d.stack
  <2>1. CASE w.top > 0
    <3>1. Record(d) /\ Counts(F, d) /\ Stacked(d)
      BY <1>10 DEF Globals
    <3>2. e = [d EXCEPT !.top = d.top - 1]
      BY <1>5, <2>1
    <3>3. e.buf = d.buf /\ e.stack = d.stack /\ e.top = d.top - 1 /\ Same(d, e) /\ Record(e)
      BY <3>1, <3>2 DEF Record, Same
    <3>4. d.top \in Nat /\ d.top > 0 /\ d.top < Len(d.stack) /\ DOMAIN d.stack \subseteq Int
      BY <1>10, <2>1, <3>1 DEF Stacked
    <3>5. ASSUME NEW i \in DOMAIN e.stack, i > e.top + 1 PROVE e.stack[i] = None
      <4>1. i = d.top + 1 \/ i > d.top + 1
        BY <3>3, <3>4, <3>5
      <4> QED BY <1>10, <3>1, <3>3, <4>1 DEF Stacked
    <3>6. e.top \in Nat /\ e.top < Len(e.stack)
      BY <3>1, <3>3, <3>4 DEF Stacked
    <3>7. Stacked(e)
      BY <1>10, <3>1, <3>3, <3>5, <3>6 DEF Stacked
    <3> QED BY <1>10, <3>1, <3>3, <3>7, CountsKept DEF Globals, Same
  <2>2. CASE ~(w.top > 0)
    BY <1>5, <1>10, <2>2
  <2> QED BY <2>1, <2>2
<1>12. Framed(F, e) /\ AllAsleep(e)
  BY <1>10, <1>11 DEF Framed, AllAsleep
<1>13. \A o \in DOMAIN e.buf : e.buf[o] = w.buf[o]
  BY <1>8, <1>9, <1>11 DEF IsDeleted, IsCurrent
<1>14. StillOff(w, e, {})
  <2>1. StillOff(w, g, {}) /\ None \notin Buf
    BY <1>8, NoneIsNoBuffer DEF IsDeleted, Framed
  <2> QED BY <1>9, <1>11, <2>1 DEF IsCurrent, StillOff, OffStack
<1>15. CASE YY_CURRENT_BUFFER(e) = None
  BY <1>2, <1>6, <1>10, <1>11, <1>12, <1>15, <1>13, <1>14 DEF AtRest, IsPopped
<1>16. CASE YY_CURRENT_BUFFER(e) # None
  <2>1. Asleep(B(e))
    BY <1>11, <1>12, <1>16, CurrentHeld DEF AllAsleep, B
  <2>2. IsLoaded(F, e, v)
    BY <1>6, <1>12, <1>16, <2>1, LoadsBuffer
  <2>3. Loaded(v) /\ v.in = B(v).file
    BY <2>2, CurrentKept DEF IsLoaded, B
  <2>4. StillOff(w, v, {}) /\ \A o \in DOMAIN v.buf : v.buf[o] = w.buf[o]
    BY <1>13, <1>14, <2>2 DEF IsLoaded, SameStack, StillOff, OffStack
  <2> QED BY <1>2, <1>10, <1>11, <2>2, <2>3, <2>4 DEF IsLoaded, IsPopped
<1> QED BY <1>15, <1>16

(* The buffer of a string. *)
IsString(F, base) ==
  /\ Len(base) - 2 \in Nat /\ Len(base) \in Nat
  /\ base[Len(base) - 1] = NUL /\ base[Len(base)] = NUL
  /\ Whole(F, yy_buffer_state(Array(base), Len(base) - 2, TRUE))
  /\ Asleep(yy_buffer_state(Array(base), Len(base) - 2, TRUE))
Says(r, bytes) ==
  /\ r.file = None /\ r.fill = FALSE /\ r.pos = 0 /\ r.n = Len(bytes)
  /\ \A i \in 0..Len(bytes) - 1 : r.ch[i] = bytes[i + 1]
LEMMA StringWhole ==
  ASSUME NEW F, NEW bytes \in Seq(Char)
  PROVE  /\ IsString(F, bytes \o <<NUL, NUL>>)
         /\ Says(yy_buffer_state(Array(bytes \o <<NUL, NUL>>), Len(bytes \o <<NUL, NUL>>) - 2, TRUE), bytes)
<1>0. PICK base : base = bytes \o <<NUL, NUL>>
  OBVIOUS
<1> SUFFICES IsString(F, base) /\ Says(yy_buffer_state(Array(base), Len(base) - 2, TRUE), bytes)
  BY <1>0
<1>1. PICK k : k = Len(bytes)
  OBVIOUS
<1>2. /\ k \in Nat /\ Len(base) = k + 2 /\ base[k + 1] = NUL /\ base[k + 2] = NUL
      /\ \A i \in 1..k + 2 : base[i] \in Char
      /\ \A i \in 1..k : base[i] = bytes[i]
  <2>1. NUL \in Char /\ k \in Nat
    BY <1>1, Classes
  <2>2. Len(base) = k + 2 /\ base[k + 1] = NUL /\ base[k + 2] = NUL
    BY <1>0, <1>1, <2>1
  <2>3. base \in Seq(Char)
    BY <1>0, <2>1
  <2>4. \A i \in 1..k + 2 : base[i] \in Char
    BY <2>1, <2>2, <2>3
  <2>5. \A i \in 1..k : base[i] = bytes[i]
    BY <1>0, <1>1, <2>1
  <2> QED BY <2>1, <2>2, <2>4, <2>5
<1>3. PICK a : a = Array(base)
  OBVIOUS
<1>4. a \in [0..k + 1 -> Slot] /\ \A i \in 0..k + 1 : a[i] = base[i + 1] /\ a[i] \in Char
  <2>1. a = [i \in 0..k + 1 |-> base[i + 1]]
    BY <1>2, <1>3 DEF Array
  <2>2. \A i \in 0..k + 1 : i + 1 \in 1..k + 2
    BY <1>2
  <2> QED BY <1>2, <2>1, <2>2 DEF Slot
<1>5. a[k] = NUL /\ a[k + 1] = NUL
  BY <1>2, <1>4
<1>6. PICK r : r = yy_buffer_state(a, Len(base) - 2, TRUE)
  OBVIOUS
<1>7. PICK z \in BOOLEAN : z = FALSE
  OBVIOUS
<1>8. /\ Shaped(r) /\ r.file = None /\ r.ch = a /\ r.pos = 0 /\ r.size = k /\ r.n = k
      /\ r.ours = z /\ r.fill = z /\ r.status = "new"
  <2>1. Len(base) - 2 = k
    BY <1>2
  <2>2. z = ~TRUE
    BY <1>7
  <2>3. r = [file |-> None, ch |-> a, pos |-> 0, size |-> k, n |-> k,
             ours |-> z, fill |-> z, tty |-> FALSE, status |-> "new"]
    BY <1>6, <2>1, <2>2, Zenon DEF yy_buffer_state
  <2> QED BY <2>3 DEF Shaped
<1>9. Whole(F, r)
  <2>1. r.ours \in BOOLEAN /\ r.fill \in BOOLEAN /\ ~r.fill
    BY <1>7, <1>8
  <2>2. r.size \in Nat /\ r.ch \in [0..r.size + 1 -> Slot] /\ r.pos \in 0..r.size /\ r.n \in 0..r.size
    BY <1>2, <1>4, <1>8
  <2> QED BY <1>8, <2>1, <2>2 DEF Whole
<1>10. Asleep(r)
  BY <1>2, <1>4, <1>5, <1>8 DEF Asleep, Plain
<1>11. base[Len(base) - 1] = NUL /\ base[Len(base)] = NUL /\ Len(base) - 2 \in Nat /\ Len(base) \in Nat
  <2>1. Len(base) - 1 = k + 1 /\ Len(base) - 2 = k
    BY <1>2
  <2> QED BY <1>2, <2>1
<1>12. yy_buffer_state(Array(base), Len(base) - 2, TRUE) = r
  BY <1>3, <1>6
<1>13. Says(r, bytes)
  <2>1. \A i \in 0..k - 1 : i + 1 \in 1..k /\ i \in 0..k + 1
    BY <1>2
  <2> QED BY <1>1, <1>2, <1>4, <1>7, <1>8, <2>1 DEF Says
<1> QED BY <1>9, <1>10, <1>11, <1>12, <1>13 DEF IsString

(* yy_scan_bytes *)
IsBytes(F, w, bytes, v) ==
  /\ AtRest(F, v) /\ DOMAIN v.buf = DOMAIN w.buf \cup {NewBuffer(w)} /\ v.init = w.init
  /\ YY_CURRENT_BUFFER(v) = NewBuffer(w) /\ Loaded(v) /\ v.in = B(v).file /\ Says(B(v), bytes)
  /\ SavedIn(w, v) /\ StillOff(w, v, {NewBuffer(w)})
LEMMA Scans ==
  ASSUME NEW F, NEW w, AtRest(F, w), DOMAIN w.buf # Buf, NEW bytes \in Seq(Char)
  PROVE  IsBytes(F, w, bytes, yy_scan_bytes(w, bytes))
<1>0. PICK v : v = yy_scan_bytes(w, bytes)
  OBVIOUS
<1>1. PICK base : base = bytes \o <<NUL, NUL>>
  OBVIOUS
<1>2. PICK b : b = NewBuffer(w)
  OBVIOUS
<1>3. PICK r : r = yy_buffer_state(Array(base), Len(base) - 2, TRUE)
  OBVIOUS
<1>4. PICK a : a = Adds(w, b, r)
  OBVIOUS
<1>5. PICK s : s = yy_scan_buffer(w, base)
  OBVIOUS
<1>6. /\ Framed(F, w) /\ Globals(F, w) /\ b \in Buf /\ b \notin DOMAIN w.buf /\ b # None
  <2>1. Globals(F, w)
    BY DEF AtRest, Framed
  <2>2. b \in Buf /\ b \notin DOMAIN w.buf
    BY <1>2, <2>1, NewBufferIsNew DEF Globals
  <2> QED BY <2>1, <2>2, NoneIsNoBuffer DEF AtRest
<1>7. /\ Len(base) - 2 \in Nat /\ Len(base) \in Nat
      /\ base[Len(base) - 1] = NUL /\ base[Len(base)] = NUL /\ Whole(F, r) /\ Asleep(r)
      /\ Says(r, bytes)
  BY <1>1, <1>3, StringWhole DEF IsString
<1>8. s = yy_switch_to_buffer(a, b)
  <2>1. ~(Len(base) < 2 \/ base[Len(base) - 1] # NUL \/ base[Len(base)] # NUL)
    BY <1>7
  <2> QED BY <1>2, <1>3, <1>4, <1>5, <2>1, Zenon DEF yy_scan_buffer, Adds
<1>9. IsAdded(F, w, b, r, a)
  BY <1>4, <1>6, <1>7, BufferAdded
<1>10. AtRest(F, a)
  <2>1. YY_CURRENT_BUFFER(a) = YY_CURRENT_BUFFER(w)
    BY <1>9, CurrentKept DEF IsAdded
  <2>2. CASE YY_CURRENT_BUFFER(w) = None
    BY <1>9, <2>1, <2>2 DEF AtRest, IsAdded
  <2>3. CASE YY_CURRENT_BUFFER(w) # None
    <3>1. YY_CURRENT_BUFFER(w) \in DOMAIN w.buf
      BY <1>6, <2>3, CurrentHeld
    <3>2. B(a) = B(w) /\ Same(w, a) /\ Between(F, w) /\ Framed(F, a)
      BY <1>9, <2>1, <2>3, <3>1 DEF IsAdded, B, AtRest
    <3>3. Between(F, a)
      BY <2>1, <3>2 DEF Between, Awake, Same, Restored, Loaded
    <3> QED BY <3>2, <3>3 DEF AtRest
  <2> QED BY <2>2, <2>3
<1>11. b \in DOMAIN a.buf /\ OffStack(a, b) /\ DOMAIN a.buf = DOMAIN w.buf \cup {b}
  <2>1. OffStack(w, b)
    BY <1>6 DEF OffStack, Globals, Stacked
  <2> QED BY <1>9, <2>1 DEF IsAdded, OffStack, SameStack
<1>12. IsSwitched(F, a, b, s)
  BY <1>8, <1>10, <1>11, Switches
<1>13. v = [s EXCEPT !.buf[b].ours = TRUE]
  BY <1>0, <1>1, <1>2, <1>5, Zenon DEF yy_scan_bytes
<1>14. PICK x : x = [s.buf[b] EXCEPT !.ours = TRUE]
  OBVIOUS
<1>15. v = Puts(s, b, x)
  BY <1>13, <1>14, Zenon DEF Puts
<1>16. /\ Framed(F, s) /\ b \in DOMAIN s.buf /\ b = YY_CURRENT_BUFFER(s) /\ Whole(F, s.buf[b])
       /\ B(s) = s.buf[b]
  BY <1>11, <1>12 DEF IsSwitched, AtRest, Framed, Globals, B
<1>17. Whole(F, x) /\ x.ch = s.buf[b].ch /\ x.n = s.buf[b].n /\ x.size = s.buf[b].size
       /\ x.pos = s.buf[b].pos /\ x.fill = s.buf[b].fill /\ x.status = s.buf[b].status
       /\ x.file = s.buf[b].file
  <2>1. /\ Shaped(x) /\ x.ch = s.buf[b].ch /\ x.n = s.buf[b].n /\ x.size = s.buf[b].size
        /\ x.pos = s.buf[b].pos /\ x.fill = s.buf[b].fill /\ x.status = s.buf[b].status
        /\ x.ours = TRUE /\ x.file = s.buf[b].file
    BY <1>14, <1>16 DEF Whole, Shaped
  <2> QED BY <1>16, <2>1 DEF Whole
<1>18. IsSet(F, s, b, x, v)
  BY <1>15, <1>16, <1>17, BufferSet
<1>19. YY_CURRENT_BUFFER(v) = b /\ B(v) = x /\ Same(s, v) /\ Framed(F, v) /\ DOMAIN v.buf = DOMAIN s.buf
  BY <1>16, <1>18, CurrentKept DEF IsSet, B
<1>20. Between(F, v)
  <2>1. Between(F, s)
    BY <1>6, <1>12, <1>16 DEF IsSwitched, AtRest
  <2> QED BY <1>6, <1>16, <1>17, <1>19, <2>1 DEF Between, Awake, Same, Restored, Loaded
<1>21. AtRest(F, v) /\ DOMAIN v.buf = DOMAIN w.buf \cup {b}
  BY <1>11, <1>12, <1>19, <1>20 DEF AtRest, IsSwitched
<1>22. s.buf[b] = r
  <2>1. b # YY_CURRENT_BUFFER(a)
    BY <1>6, <1>9, CurrentHeld, CurrentKept DEF IsAdded
  <2> QED BY <1>9, <1>11, <1>12, <2>1 DEF IsSwitched, SavedIn, IsAdded
<1>23. Says(B(v), bytes) /\ Loaded(v) /\ v.in = B(v).file
  BY <1>7, <1>12, <1>16, <1>17, <1>19, <1>22 DEF Says, IsSwitched, Loaded, Same
<1>24. StillOff(w, v, {b})
  BY <1>9, <1>12, <1>18 DEF IsAdded, IsSwitched, IsSet, SameStack, StillOff, OffStack
<1>25. YY_CURRENT_BUFFER(a) = YY_CURRENT_BUFFER(w)
  BY <1>9, CurrentKept DEF IsAdded
<1>26. \A o \in DOMAIN w.buf \ {YY_CURRENT_BUFFER(w)} : v.buf[o] = w.buf[o]
  <2>1. \A o \in DOMAIN w.buf : o # b /\ o \in DOMAIN a.buf /\ o \in DOMAIN s.buf /\ a.buf[o] = w.buf[o]
    BY <1>6, <1>9, <1>11, <1>12 DEF IsAdded, IsSwitched
  <2>2. \A o \in DOMAIN w.buf \ {YY_CURRENT_BUFFER(w)} : s.buf[o] = a.buf[o]
    BY <1>12, <1>25, <2>1 DEF IsSwitched, SavedIn
  <2> QED BY <1>18, <2>1, <2>2 DEF IsSet
<1>27. ASSUME YY_CURRENT_BUFFER(w) # None PROVE Saved(w, v.buf[YY_CURRENT_BUFFER(w)])
  <2>1. YY_CURRENT_BUFFER(w) \in DOMAIN w.buf
    BY <1>6, <1>27, CurrentHeld
  <2>2. Saved(a, s.buf[YY_CURRENT_BUFFER(w)])
    BY <1>12, <1>25, <1>27 DEF IsSwitched, SavedIn
  <2>3. v.buf[YY_CURRENT_BUFFER(w)] = s.buf[YY_CURRENT_BUFFER(w)]
    BY <1>6, <1>11, <1>12, <1>18, <2>1 DEF IsSet, IsSwitched
  <2>4. B(a) = B(w) /\ Same(w, a)
    BY <1>9, <1>25, <2>1 DEF IsAdded, B
  <2> QED BY <2>2, <2>3, <2>4 DEF Saved, Restored, Same
<1>28. v.init = w.init
  BY <1>9, <1>12, <1>18 DEF IsAdded, IsSwitched, IsSet, Same
<1> QED BY <1>0, <1>2, <1>19, <1>21, <1>23, <1>24, <1>26, <1>27, <1>28 DEF IsBytes, SavedIn
-----------------------------------------------------------------------------
(* Between the calls. *)

(* A step that leaves the scanner at rest, with an owner of every debt. *)
LEMMA RestingStep ==
  ASSUME IInv, UNCHANGED <<client, pc, local>>, pc = "idle", AtRest(client.files, m'),
         rest' \in [client.files -> Seq(Char)], DOMAIN owed' \subseteq DOMAIN m'.buf
  PROVE  IInv'
<1>1. Typed'
  BY DEF IInv, Typed, local
<1>2. Framed(client.files, m')
  BY DEF AtRest
<1>3. Cur' # None => Between(client.files, m')
  BY DEF AtRest, Cur
<1> QED BY <1>1, <1>2, <1>3 DEF IInv

(* What is known of the program and of the buffers it holds. *)
LEMMA ClientKnown ==
  ASSUME IInv
  PROVE  /\ client \in Clients /\ client.files \subseteq File /\ Stdin \in client.files
         /\ rest \in [client.files -> Seq(Char)] /\ client.texts \subseteq Seq(Char)
         /\ Unallocated => DOMAIN m.buf # Buf
         /\ DOMAIN owed \subseteq DOMAIN m.buf
         /\ Framed(client.files, m) /\ Globals(client.files, m)
         /\ pc = "idle" => AtRest(client.files, m)
<1>1. /\ client \in Clients /\ rest \in [client.files -> Seq(Char)]
      /\ DOMAIN owed \subseteq DOMAIN m.buf /\ Framed(client.files, m)
      /\ Globals(client.files, m)
      /\ pc = "idle" => AtRest(client.files, m)
  BY DEF IInv, Typed, AtRest, Cur, Framed
<1>2. /\ client.files \subseteq File /\ Stdin \in client.files /\ client.texts \subseteq Seq(Char)
      /\ client.buffers \in 0..Cardinality(Buf) /\ IsFiniteSet(Buf)
  BY <1>1, ScannerAssumption
<1>3. Unallocated => DOMAIN m.buf # Buf
  <2>1. Cardinality(Buf) \in Nat
    BY <1>2, FS_CardinalityType
  <2>2. ~(Cardinality(Buf) < client.buffers)
    BY <1>2, <2>1
  <2> QED BY <2>2 DEF Unallocated
<1> QED BY <1>1, <1>2, <1>3

LEMMA HeldOffStack ==
  ASSUME IInv, NEW b \in Held
  PROVE  b \in DOMAIN m.buf /\ OffStack(m, b)
<1>1. b \in DOMAIN owed /\ b \in DOMAIN m.buf /\ b # None
  BY ClientKnown, NoneIsNoBuffer DEF Held
<1>2. b \notin ToSet(m.stack)
  BY <1>1 DEF Held, OnStack
<1> QED BY <1>1, <1>2 DEF OffStack, ToSet

LEMMA BetweenKept ==
  ASSUME NEW F, NEW w, Between(F, w), NEW v, Same(w, v), B(v) = B(w), YY_CURRENT_BUFFER(v) # None
  PROVE  Between(F, v)
  BY DEF Between, Awake, Same, Restored, Loaded

LEMMA CreateStep ==
  ASSUME IInv, NEW f \in client.files, NEW z \in Sizes, CreateBuffer(f, z)
  PROVE  IInv'
<1>1. PICK F : F = client.files
  OBVIOUS
<1>2. /\ Unallocated /\ pc = "idle" /\ m' = yy_create_buffer(m, f, z)
      /\ owed' = With(owed, NewBuffer(m), rest[f]) /\ UNCHANGED <<client, rest, pc, local, tok>>
  BY DEF CreateBuffer, Manage, Called
<1>3. AtRest(F, m) /\ Framed(F, m) /\ DOMAIN m.buf # Buf /\ z \in Nat /\ f \in F
  BY <1>1, <1>2, ClientKnown, ScannerAssumption
<1>4. IsNew(F, m, f, m')
  BY <1>2, <1>3, Creates
<1>5. IsAdded(F, m, NewBuffer(m), m'.buf[NewBuffer(m)], m')
  BY <1>4 DEF IsNew
<1>6. AtRest(F, m')
  <2>1. YY_CURRENT_BUFFER(m') = YY_CURRENT_BUFFER(m)
    BY <1>5, CurrentKept DEF IsAdded
  <2>2. CASE YY_CURRENT_BUFFER(m) = None
    BY <1>5, <2>1, <2>2 DEF AtRest, IsAdded
  <2>3. CASE YY_CURRENT_BUFFER(m) # None
    <3>1. YY_CURRENT_BUFFER(m) \in DOMAIN m.buf
      BY <1>3, <2>3, CurrentHeld DEF Framed
    <3>2. B(m') = B(m) /\ Same(m, m') /\ Between(F, m) /\ Framed(F, m')
      BY <1>3, <1>5, <2>1, <2>3, <3>1 DEF IsAdded, B, AtRest
    <3>3. Between(F, m')
      BY <2>1, <2>3, <3>2, BetweenKept
    <3> QED BY <3>2, <3>3 DEF AtRest
  <2> QED BY <2>2, <2>3
<1>7. DOMAIN owed' \subseteq DOMAIN m'.buf
  BY <1>2, <1>5, ClientKnown DEF With, IsAdded
<1>8. rest' \in [client.files -> Seq(Char)]
  BY <1>2, ClientKnown
<1> QED BY <1>1, <1>2, <1>6, <1>7, <1>8, RestingStep

LEMMA ScanStep ==
  ASSUME IInv, NEW s \in client.texts, ScanBytes(s)
  PROVE  IInv'
<1>1. PICK F : F = client.files
  OBVIOUS
<1>2. /\ Unallocated /\ pc = "idle" /\ m' = yy_scan_bytes(m, s)
      /\ owed' = With(owed, NewBuffer(m), s) /\ UNCHANGED <<client, rest, pc, local, tok>>
  BY DEF ScanBytes, Manage, Called
<1>3. AtRest(F, m) /\ DOMAIN m.buf # Buf /\ s \in Seq(Char)
  BY <1>1, <1>2, ClientKnown
<1>4. AtRest(F, m') /\ DOMAIN m'.buf = DOMAIN m.buf \cup {NewBuffer(m)}
  BY <1>2, <1>3, Scans DEF IsBytes
<1>5. DOMAIN owed' \subseteq DOMAIN m'.buf
  BY <1>2, <1>4, ClientKnown DEF With
<1>6. rest' \in [client.files -> Seq(Char)]
  BY <1>2, ClientKnown
<1> QED BY <1>1, <1>2, <1>4, <1>5, <1>6, RestingStep

LEMMA PushStep ==
  ASSUME IInv, NEW b \in Buf, Push(b) \/ Switch(b)
  PROVE  IInv'
<1>1. PICK F : F = client.files
  OBVIOUS
<1>2. /\ pc = "idle" /\ b \in Held
      /\ m' = yypush_buffer_state(m, b) \/ m' = yy_switch_to_buffer(m, b)
      /\ owed' = owed /\ UNCHANGED <<client, rest, pc, local, tok>>
  BY DEF Push, Switch, Manage, Called
<1>3. AtRest(F, m) /\ b \in DOMAIN m.buf /\ OffStack(m, b)
  BY <1>1, <1>2, ClientKnown, HeldOffStack
<1>4. IsSwitched(F, m, b, m')
  BY <1>2, <1>3, Pushes, Switches
<1>5. AtRest(F, m') /\ DOMAIN owed' \subseteq DOMAIN m'.buf
  BY <1>2, <1>4, ClientKnown DEF IsSwitched
<1>6. rest' \in [client.files -> Seq(Char)]
  BY <1>2, ClientKnown
<1> QED BY <1>1, <1>2, <1>5, <1>6, RestingStep

LEMMA PopStep ==
  ASSUME IInv, Pop
  PROVE  IInv'
<1>1. PICK F : F = client.files
  OBVIOUS
<1>2. /\ pc = "idle" /\ Cur # None /\ m' = yypop_buffer_state(m)
      /\ owed' = Restrict(owed, DOMAIN owed \ {Cur}) /\ UNCHANGED <<client, rest, pc, local, tok>>
  BY DEF Pop, Manage, Called
<1>3. IsPopped(F, m, m')
  BY <1>1, <1>2, ClientKnown, Pops DEF Cur
<1>4. AtRest(F, m') /\ DOMAIN owed' \subseteq DOMAIN m'.buf
  BY <1>2, <1>3, ClientKnown DEF IsPopped, Restrict, Cur
<1>5. rest' \in [client.files -> Seq(Char)]
  BY <1>2, ClientKnown
<1> QED BY <1>1, <1>2, <1>4, <1>5, RestingStep

LEMMA DeleteStep ==
  ASSUME IInv, NEW b \in Buf, Delete(b)
  PROVE  IInv'
<1>1. PICK F : F = client.files
  OBVIOUS
<1>2. /\ pc = "idle" /\ b \in (Held \cup {Cur}) \ {None} /\ m' = yy_delete_buffer(m, b)
      /\ owed' = Restrict(owed, DOMAIN owed \ {b}) /\ UNCHANGED <<client, rest, pc, local, tok>>
  BY DEF Delete, Manage, Called
<1>3. AtRest(F, m) /\ Framed(F, m) /\ b \in DOMAIN m.buf /\ (OffStack(m, b) \/ b = YY_CURRENT_BUFFER(m))
  BY <1>1, <1>2, ClientKnown, HeldOffStack, CurrentHeld DEF Cur
<1>4. IsDeleted(F, m, b, m')
  BY <1>2, <1>3, Deletes
<1>5. AtRest(F, m')
  <2>1. CASE YY_CURRENT_BUFFER(m') = None
    BY <1>4, <2>1 DEF AtRest, IsDeleted
  <2>2. CASE YY_CURRENT_BUFFER(m') # None
    <3>1. YY_CURRENT_BUFFER(m') = YY_CURRENT_BUFFER(m) /\ b # YY_CURRENT_BUFFER(m)
      BY <1>4, <2>2 DEF IsDeleted
    <3>2. YY_CURRENT_BUFFER(m) \in DOMAIN m.buf
      BY <1>3, <2>2, <3>1, CurrentHeld DEF Framed
    <3>3. B(m') = B(m) /\ Same(m, m') /\ Between(F, m) /\ Framed(F, m')
      BY <1>3, <1>4, <2>2, <3>1, <3>2 DEF IsDeleted, B, AtRest
    <3>4. Between(F, m')
      BY <2>2, <3>3, BetweenKept
    <3> QED BY <3>3, <3>4 DEF AtRest
  <2> QED BY <2>1, <2>2
<1>6. DOMAIN owed' \subseteq DOMAIN m'.buf
  BY <1>2, <1>4, ClientKnown DEF IsDeleted, Restrict
<1>7. rest' \in [client.files -> Seq(Char)]
  BY <1>2, ClientKnown
<1> QED BY <1>1, <1>2, <1>5, <1>6, <1>7, RestingStep

LEMMA FlushStep ==
  ASSUME IInv, NEW b \in Buf, Flush(b)
  PROVE  IInv'
<1>1. PICK F : F = client.files
  OBVIOUS
<1>2. /\ pc = "idle" /\ b \in DOMAIN owed /\ m' = yy_flush_buffer(m, b)
      /\ owed' = [owed EXCEPT ![b] = rest[m.buf[b].file]] /\ UNCHANGED <<client, rest, pc, local, tok>>
  BY DEF Flush, Manage, Called
<1>3. AtRest(F, m) /\ Framed(F, m) /\ b \in DOMAIN m.buf
  BY <1>1, <1>2, ClientKnown
<1>4. IsFlushed(F, m, b, m')
  BY <1>2, <1>3, Flushes
<1>5. AtRest(F, m')
  <2>1. CASE b = YY_CURRENT_BUFFER(m)
    BY <1>4, <2>1 DEF IsFlushed
  <2>2. CASE b # YY_CURRENT_BUFFER(m) /\ YY_CURRENT_BUFFER(m) = None
    BY <1>4, <2>2, CurrentKept DEF IsFlushed, AtRest
  <2>3. CASE b # YY_CURRENT_BUFFER(m) /\ YY_CURRENT_BUFFER(m) # None
    <3>1. YY_CURRENT_BUFFER(m) \in DOMAIN m.buf /\ YY_CURRENT_BUFFER(m') = YY_CURRENT_BUFFER(m)
      BY <1>3, <1>4, <2>3, CurrentHeld, CurrentKept DEF Framed, IsFlushed
    <3>2. B(m') = B(m)
      BY <1>4, <2>3, <3>1 DEF IsFlushed, B
    <3>3. Same(m, m') /\ Between(F, m) /\ Framed(F, m')
      BY <1>3, <1>4, <2>3 DEF IsFlushed, AtRest
    <3>4. Between(F, m')
      BY <2>3, <3>1, <3>2, <3>3, BetweenKept
    <3> QED BY <3>3, <3>4 DEF AtRest
  <2> QED BY <2>1, <2>2, <2>3
<1>6. DOMAIN owed' \subseteq DOMAIN m'.buf
  BY <1>2, <1>4, ClientKnown DEF IsFlushed
<1>7. rest' \in [client.files -> Seq(Char)]
  BY <1>2, ClientKnown
<1> QED BY <1>1, <1>2, <1>5, <1>6, <1>7, RestingStep

LEMMA RestartStep ==
  ASSUME IInv, NEW f \in client.files, Restart(f)
  PROVE  IInv'
<1>1. PICK F : F = client.files
  OBVIOUS
<1>2. PICK b : b = IF Cur = None THEN NewBuffer(m) ELSE Cur
  OBVIOUS
<1>3. /\ pc = "idle" /\ (Cur # None \/ Unallocated) /\ m' = yyrestart(m, f)
      /\ owed' = With(owed, b, rest[f]) /\ UNCHANGED <<client, rest, pc, local, tok>>
  BY <1>2, Zenon DEF Restart, Manage, Called
<1>4. Framed(F, m) /\ f \in F /\ (YY_CURRENT_BUFFER(m) = None => DOMAIN m.buf # Buf)
  BY <1>1, <1>3, ClientKnown DEF Cur
<1>5. IsRestarted(F, m, f, m')
  BY <1>3, <1>4, RestartsFirst
<1>6. AtRest(F, m') /\ DOMAIN m'.buf = DOMAIN m.buf \cup {b}
  BY <1>2, <1>5 DEF IsRestarted, Cur
<1>7. DOMAIN owed' \subseteq DOMAIN m'.buf
  BY <1>3, <1>6, ClientKnown DEF With
<1>8. rest' \in [client.files -> Seq(Char)]
  BY <1>3, ClientKnown
<1> QED BY <1>1, <1>3, <1>6, <1>7, <1>8, RestingStep

LEMMA SetInStep ==
  ASSUME IInv, NEW f \in client.files, yyset_in(f)
  PROVE  IInv'
<1>1. PICK F : F = client.files
  OBVIOUS
<1>2. /\ pc = "idle" /\ Cur # None /\ m' = [m EXCEPT !.in = f]
      /\ owed' = [owed EXCEPT ![Cur] = rest[f]] /\ UNCHANGED <<client, rest, pc, local, tok>>
  BY DEF yyset_in, Manage, Called
<1>3. AtRest(F, m) /\ Framed(F, m) /\ Globals(F, m) /\ f \in F /\ Record(m) /\ Counts(F, m)
  BY <1>1, <1>2, ClientKnown DEF Globals
<1>4. /\ m'.buf = m.buf /\ m'.stack = m.stack /\ m'.top = m.top /\ m'.n = m.n /\ m'.cp = m.cp
      /\ m'.text = m.text /\ m'.leng = m.leng /\ m'.hold = m.hold /\ m'.init = m.init
      /\ m'.in = f /\ m'.las = m.las /\ m'.lac = m.lac /\ Record(m')
  BY <1>2, <1>3 DEF Record
<1>5. Counts(F, m')
  BY <1>3, <1>4 DEF Counts
<1>6. YY_CURRENT_BUFFER(m') = YY_CURRENT_BUFFER(m) /\ B(m') = B(m)
  BY <1>4 DEF YY_CURRENT_BUFFER, B
<1>7. Stacked(m')
  BY <1>3, <1>4 DEF Globals, Stacked
<1>8. Framed(F, m')
  BY <1>3, <1>4, <1>5, <1>6, <1>7 DEF Framed, Globals
<1>9. Between(F, m')
  BY <1>2, <1>3, <1>4, <1>6 DEF AtRest, Cur, Between, Awake, Restored, Loaded
<1>10. DOMAIN owed' \subseteq DOMAIN m'.buf
  BY <1>2, <1>4, ClientKnown
<1>11. rest' \in [client.files -> Seq(Char)]
  BY <1>2, ClientKnown
<1> QED BY <1>1, <1>2, <1>8, <1>9, <1>10, <1>11, RestingStep DEF AtRest

(* yylex_destroy *)
LEMMA DestroyStep ==
  ASSUME IInv, Destroy
  PROVE  IInv'
<1>1. pc = "idle" /\ pc' = "destroy" /\ UNCHANGED <<client, m, rest, local, tok, owed>>
  BY DEF Destroy, Called
<1>2. Typed' /\ Framed(client.files, m)'
  BY <1>1, ClientKnown DEF IInv, Typed, local
<1>3. (Cur # None => Between(client.files, m))'
  BY <1>1, ClientKnown DEF AtRest, Cur
<1> QED BY <1>1, <1>2, <1>3 DEF IInv

LEMMA DestroyTopStep ==
  ASSUME IInv, DestroyTop
  PROVE  IInv'
<1>1. /\ pc = "destroy" /\ Cur # None
      /\ m' = yypop_buffer_state(SetCurrent(yy_delete_buffer(m, Cur), None))
      /\ owed' = Restrict(owed, DOMAIN owed \ {Cur})
      /\ UNCHANGED <<client, rest, pc, local, tok>>
  BY DEF DestroyTop
<1>2. PICK F : F = client.files
  OBVIOUS
<1>3. PICK g : g = yy_delete_buffer(m, Cur)
  OBVIOUS
<1>4. PICK d : d = SetCurrent(g, None)
  OBVIOUS
<1>5. Framed(F, m) /\ Cur \in DOMAIN m.buf /\ m.stack # <<>>
  BY <1>1, <1>2, ClientKnown, CurrentHeld DEF Cur
<1>6. IsDeleted(F, m, Cur, g)
  BY <1>3, <1>5, Deletes DEF Cur
<1>7. IsCurrent(F, g, None, d)
  BY <1>4, <1>5, <1>6, SetsCurrent DEF IsDeleted, Framed
<1>8. m' = d
  BY <1>1, <1>3, <1>4, <1>7 DEF yypop_buffer_state, IsCurrent
<1>9. Framed(F, m') /\ DOMAIN m'.buf = DOMAIN m.buf \ {Cur}
  <2>1. YY_CURRENT_BUFFER(g) = None /\ Framed(F, g)
    BY <1>6 DEF IsDeleted, Cur
  <2> QED BY <1>6, <1>7, <1>8, <2>1 DEF IsDeleted, IsCurrent, Framed
<1>10. DOMAIN owed' \subseteq DOMAIN m'.buf
  BY <1>1, <1>9, ClientKnown DEF Restrict
<1>11. Typed' /\ Framed(client.files, m)'
  BY <1>1, <1>2, <1>9, <1>10, ClientKnown DEF IInv, Typed, local
<1>12. Cur' = None
  BY <1>7, <1>8 DEF IsCurrent, Cur
<1> QED BY <1>1, <1>11, <1>12 DEF IInv

LEMMA DestroyStackStep ==
  ASSUME IInv, DestroyStack
  PROVE  IInv'
<1>1. /\ pc = "destroy" /\ Cur = None /\ m' = yy_init_globals(m) /\ pc' = "idle"
      /\ owed' = Restrict(owed, Held) /\ UNCHANGED <<client, rest, local, tok>>
  BY DEF DestroyStack
<1>2. PICK F : F = client.files
  OBVIOUS
<1>3. Framed(F, m) /\ Globals(F, m) /\ Record(m) /\ Counts(F, m)
  BY <1>2, ClientKnown DEF Globals
<1>4. PICK z \in BOOLEAN : z = FALSE
  OBVIOUS
<1>5. m' = [m EXCEPT !.stack = <<>>, !.top = 0, !.cp = 0, !.init = z, !.in = None]
  BY <1>1, <1>4 DEF yy_init_globals
<1>6. /\ m'.buf = m.buf /\ m'.stack = <<>> /\ m'.top = 0 /\ m'.n = m.n /\ m'.cp = 0
      /\ m'.text = m.text /\ m'.leng = m.leng /\ m'.hold = m.hold /\ m'.init = z
      /\ m'.in = None /\ m'.las = m.las /\ m'.lac = m.lac /\ Record(m')
  BY <1>3, <1>5 DEF Record
<1>7. Counts(F, m')
  BY <1>3, <1>6 DEF Counts
<1>8. Stacked(m') /\ YY_CURRENT_BUFFER(m') = None
  BY <1>6 DEF Stacked, YY_CURRENT_BUFFER
<1>9. Framed(F, m')
  BY <1>1, <1>3, <1>6, <1>7, <1>8 DEF Framed, Globals, Cur
<1>10. DOMAIN owed' \subseteq DOMAIN m'.buf
  BY <1>1, <1>6, ClientKnown DEF Restrict, Held
<1>11. Typed' /\ Framed(client.files, m)'
  BY <1>1, <1>2, <1>9, <1>10, ClientKnown DEF IInv, Typed, local
<1>12. Cur' = None
  BY <1>8 DEF Cur
<1> QED BY <1>1, <1>11, <1>12 DEF IInv

(* The bounds of the counts in a buffer in use. *)
LEMMA Bounds ==
  ASSUME NEW F, NEW w, Framed(F, w), Awake(F, w)
  PROVE  /\ YY_CURRENT_BUFFER(w) # None /\ Counts(F, w) /\ Record(w) /\ Whole(F, B(w))
         /\ w.n \in Nat /\ w.cp \in Nat /\ w.text \in Nat /\ w.leng \in Int /\ B(w).size \in Nat
         /\ w.n <= B(w).size /\ B(w).ch \in [0..B(w).size + 1 -> Slot]
<1>1. YY_CURRENT_BUFFER(w) # None /\ w.n <= B(w).size
  BY DEF Awake
<1>2. Whole(F, B(w)) /\ Counts(F, w) /\ Record(w)
  BY <1>1, CurrentHeld DEF Framed, Globals
<1> QED BY <1>1, <1>2 DEF Whole, Counts

(* yyless: the characters behind the first n of yytext are text again. *)
IsCut(F, n, v) ==
  /\ Framed(F, v) /\ Between(F, v) /\ Beside(m, v) /\ SameButText(B(m), B(v))
  /\ v.n = m.n /\ v.cp = m.text + n /\ v.init /\ v.in = m.in /\ Restored(v) = Restored(m)
  /\ m.text + n \in Nat /\ m.text + n < m.cp
LEMMA Cuts ==
  ASSUME IInv, Cur # None, NEW n \in 0..m.leng - 1, yyless(n)
  PROVE  IsCut(client.files, n, m')
<1>1. PICK F : F = client.files
  OBVIOUS
<1>2. PICK p : p = Poke(m, m.cp, m.hold)
  OBVIOUS
<1>3. PICK w : w = [p EXCEPT !.cp = m.text + n, !.leng = n]
  OBVIOUS
<1>4. PICK q : q = Poke(w, w.cp, NUL)
  OBVIOUS
<1>5. PICK back : back = [i \in 1..m.leng - n |-> Chars(m)[m.text + n + i - 1]]
  OBVIOUS
<1>6. /\ pc = "idle" /\ m.cp = m.text + m.leng
      /\ m' = [q EXCEPT !.hold = Chars(w)[w.cp]]
      /\ owed' = [owed EXCEPT ![Cur] = back \o @]
      /\ UNCHANGED <<client, rest, pc, local, tok>>
  BY <1>2, <1>3, <1>4, <1>5, Zenon DEF yyless, Called
<1>7. /\ Framed(F, m) /\ Between(F, m) /\ Awake(F, m) /\ Counts(F, m) /\ Whole(F, B(m))
      /\ YY_CURRENT_BUFFER(m) # None
  BY <1>1, <1>6, ClientKnown, CurrentHeld DEF AtRest, Between, Cur, Framed, Globals
<1>8. /\ m.n \in Nat /\ m.cp \in Nat /\ m.text \in Nat /\ m.leng \in Int /\ B(m).size \in Nat
      /\ m.n <= B(m).size /\ m.cp <= m.n /\ m.text <= m.n
  BY <1>7 DEF Between, Awake, Counts, Whole
<1>9. m.init
  BY <1>6, <1>7, <1>8 DEF Between, Loaded
<1>10. m.text + n < m.cp /\ m.text + n \in Nat /\ n \in Nat
  BY <1>6, <1>8
<1>11. IsPoked(F, m, m.cp, m.hold, p)
  <2>1. m.cp \in 0..B(m).size + 1 /\ m.hold \in Slot
    BY <1>7, <1>8 DEF Counts
  <2> QED BY <1>2, <1>7, <2>1, Poked
<1>12. /\ Framed(F, p) /\ Record(p) /\ Counts(F, p) /\ B(p).ch = Restored(m)
       /\ B(p).size = B(m).size /\ YY_CURRENT_BUFFER(p) # None /\ Same(m, p) /\ DOMAIN p.buf = DOMAIN m.buf
  BY <1>7, <1>11 DEF IsPoked, Framed, Globals, Restored, SameButText
<1>13. /\ w.buf = p.buf /\ SameStack(p, w) /\ Record(w) /\ w.n = m.n /\ w.cp = m.text + n
       /\ w.text = m.text /\ w.leng = n /\ w.hold = m.hold /\ w.init = m.init /\ w.in = m.in
       /\ w.las = m.las /\ w.lac = m.lac
  BY <1>3, <1>12 DEF Record, SameStack, Same
<1>14. Counts(F, w)
  BY <1>7, <1>10, <1>13 DEF Counts
<1>15. /\ Framed(F, w) /\ YY_CURRENT_BUFFER(w) # None /\ B(w) = B(p)
  BY <1>12, <1>13, <1>14, Recounted
<1>16. w.cp \in 0..B(w).size + 1 /\ NUL \in Slot
  BY <1>8, <1>10, <1>12, <1>13, <1>15, Classes DEF Slot
<1>17. IsPoked(F, w, w.cp, NUL, q)
  BY <1>4, <1>15, <1>16, Poked
<1>18. /\ Framed(F, q) /\ Record(q) /\ Counts(F, q) /\ YY_CURRENT_BUFFER(q) # None /\ Same(w, q)
       /\ B(q).ch = [Restored(m) EXCEPT ![w.cp] = NUL] /\ SameButText(B(m), B(q))
       /\ DOMAIN q.buf = DOMAIN m.buf
  BY <1>11, <1>12, <1>13, <1>15, <1>17 DEF IsPoked, Framed, Globals, SameButText
<1>19. Chars(w)[w.cp] = Restored(m)[w.cp] /\ Restored(m) \in [0..B(m).size + 1 -> Slot]
  BY <1>7, <1>12, <1>15 DEF Chars, B, Restored, Whole, Counts
<1>20. /\ m'.buf = q.buf /\ SameStack(q, m') /\ Record(m') /\ m'.n = m.n /\ m'.cp = m.text + n
       /\ m'.text = m.text /\ m'.leng = n /\ m'.hold = Restored(m)[w.cp] /\ m'.init = m.init
       /\ m'.in = m.in /\ m'.las = m.las /\ m'.lac = m.lac
  BY <1>6, <1>13, <1>18, <1>19 DEF Record, SameStack, Same
<1>21. Counts(F, m')
  <2>1. Restored(m)[w.cp] \in Slot
    BY <1>8, <1>10, <1>13, <1>19
  <2> QED BY <1>7, <1>10, <1>20, <2>1 DEF Counts
<1>22. Framed(F, m') /\ YY_CURRENT_BUFFER(m') # None /\ B(m') = B(q)
  BY <1>18, <1>20, <1>21, Recounted
<1>23. Restored(m') = Restored(m)
  <2>1. Restored(m') = [[Restored(m) EXCEPT ![w.cp] = NUL] EXCEPT ![w.cp] = Restored(m)[w.cp]]
    BY <1>13, <1>18, <1>20, <1>22 DEF Restored
  <2>2. w.cp \in 0..B(m).size + 1
    BY <1>8, <1>10, <1>13
  <2> QED BY <1>19, <2>1, <2>2
<1>24. Awake(F, m')
  BY <1>7, <1>18, <1>20, <1>22 DEF Awake, SameButText
<1>25. Between(F, m')
  <2>1. \A i \in 0..m.n + 1 : i >= m.text + n \/ i >= m.text => i >= m.text
    BY <1>8, <1>10
  <2>2. m.text + n <= m.n
    BY <1>8, <1>10
  <2> QED BY <1>7, <1>8, <1>9, <1>20, <1>23, <1>24, <2>1, <2>2 DEF Between
<1>26. Beside(m, m')
  <2>1. Beside(p, w)
    BY <1>13, BesideSame
  <2>2. Beside(q, m')
    BY <1>20, BesideSame
  <2>3. Beside(m, w)
    BY <1>11, <2>1, BesideToo DEF IsPoked
  <2>4. Beside(m, q)
    BY <1>17, <2>3, BesideToo DEF IsPoked
  <2> QED BY <2>2, <2>4, BesideToo
<1> QED BY <1>1, <1>9, <1>10, <1>18, <1>20, <1>22, <1>23, <1>25, <1>26 DEF IsCut

LEMMA LessStep ==
  ASSUME IInv, Cur # None, NEW n \in 0..m.leng - 1, yyless(n)
  PROVE  IInv'
<1>1. pc = "idle" /\ DOMAIN owed' = DOMAIN owed /\ UNCHANGED <<client, rest, pc, local, tok>>
  BY DEF yyless, Called
<1>2. IsCut(client.files, n, m')
  BY Cuts
<1>3. AtRest(client.files, m') /\ DOMAIN m'.buf = DOMAIN m.buf
  BY <1>2 DEF IsCut, AtRest, Beside
<1>4. rest' \in [client.files -> Seq(Char)] /\ DOMAIN owed' \subseteq DOMAIN m'.buf
  BY <1>1, <1>3, ClientKnown
<1> QED BY <1>1, <1>3, <1>4, RestingStep

(* yyunput *)
Shift(w, d) ==
  [w EXCEPT !.buf[Cur].ch =
              [i \in DOMAIN @ |-> IF i - d \in 0..m.n + 1 THEN @[i - d] ELSE @[i]],
              !.n = @ + d, !.cp = @ + d, !.text = @ + d,
              !.buf[Cur].n = IF m.cp < 2 THEN w.buf[Cur].size ELSE @]
(* The character c goes in front of the text, which moved by d places. *)
IsUnput(F, c, d, v) ==
  /\ Framed(F, v) /\ Between(F, v) /\ Beside(m, v) /\ B(v).fill = B(m).fill
  /\ B(v).status = B(m).status /\ v.n = m.n + d /\ v.cp = m.cp + d - 1 /\ v.cp \in Nat
  /\ v.init /\ v.in = m.in /\ Restored(v)[v.cp] = c
  /\ \A i \in m.cp..m.n - 1 : Restored(v)[i + d] = Restored(m)[i]
LEMMA Unputs ==
  ASSUME IInv, NEW c \in PushBack, yyunput(c), pc' # "fatal"
  PROVE  \E d \in Nat : IsUnput(client.files, c, d, m')
<1>1. PICK F : F = client.files
  OBVIOUS
<1>2. PICK w : w = Poke(m, m.cp, m.hold)
  OBVIOUS
<1>3. PICK d : d = IF m.cp < 2 THEN w.buf[Cur].size - m.n ELSE 0
  OBVIOUS
<1>4. PICK x : x = Shift(w, d)
  OBVIOUS
<1>5. PICK p : p = Poke(x, x.cp - 1, c)
  OBVIOUS
<1>6. /\ pc = "idle" /\ m.init /\ Cur # None
      /\ \/ x.cp < 2 /\ pc' = "fatal" /\ UNCHANGED <<m, owed>>
         \/ /\ ~(x.cp < 2) /\ m' = [p EXCEPT !.hold = c, !.cp = @ - 1]
            /\ owed' = [owed EXCEPT ![Cur] = <<c>> \o @] /\ UNCHANGED pc
      /\ UNCHANGED <<client, rest, local, tok>>
  <2>1. PICK y : y = Shift(Poke(m, m.cp, m.hold),
                           IF m.cp < 2 THEN Poke(m, m.cp, m.hold).buf[Cur].size - m.n ELSE 0)
    OBVIOUS
  <2>2. /\ pc = "idle" /\ m.init /\ Cur # None
        /\ \/ y.cp < 2 /\ pc' = "fatal" /\ UNCHANGED <<m, owed>>
           \/ /\ ~(y.cp < 2) /\ m' = [Poke(y, y.cp - 1, c) EXCEPT !.hold = c, !.cp = @ - 1]
              /\ owed' = [owed EXCEPT ![Cur] = <<c>> \o @] /\ UNCHANGED pc
        /\ UNCHANGED <<client, rest, local, tok>>
    BY <2>1, Zenon DEF yyunput, Called, Shift
  <2>3. y = x
    BY <1>2, <1>3, <1>4, <2>1
  <2> QED BY <1>5, <2>2, <2>3
<1>7. /\ Framed(F, m) /\ Between(F, m) /\ Awake(F, m) /\ Counts(F, m) /\ Whole(F, B(m))
      /\ YY_CURRENT_BUFFER(m) # None
  BY <1>1, <1>6, ClientKnown, CurrentHeld DEF AtRest, Between, Cur, Framed, Globals
<1>8. /\ m.n \in Nat /\ m.cp \in Nat /\ m.text \in Nat /\ m.leng \in Int /\ B(m).size \in Nat
      /\ m.n <= B(m).size /\ m.cp <= m.n /\ m.text <= m.n
  BY <1>7 DEF Between, Awake, Counts, Whole
<1>9. /\ ~(x.cp < 2) /\ m' = [p EXCEPT !.hold = c, !.cp = @ - 1]
  BY <1>6
<1>10. IsUnput(F, c, d, m') /\ d \in Nat
  <2>1. IsPoked(F, m, m.cp, m.hold, w)
    <3>1. m.cp \in 0..B(m).size + 1 /\ m.hold \in Slot
      BY <1>7, <1>8 DEF Counts
    <3> QED BY <1>2, <1>7, <3>1, Poked
  <2>2. PICK R : R = Restored(m)
    OBVIOUS
  <2>3. /\ Framed(F, w) /\ Record(w) /\ Counts(F, w) /\ B(w).ch = R /\ SameButText(B(m), B(w))
        /\ Whole(F, B(w)) /\ YY_CURRENT_BUFFER(w) = Cur /\ Cur # None /\ Same(m, w)
        /\ DOMAIN w.buf = DOMAIN m.buf /\ B(w) = w.buf[Cur] /\ Cur \in DOMAIN m.buf
    BY <1>7, <2>1, <2>2, CurrentHeld DEF IsPoked, Framed, Globals, Restored, Cur, B
  <2>4. /\ d \in Nat /\ m.n + d <= B(m).size
        /\ (m.cp < 2 => m.n + d = B(m).size) /\ (~(m.cp < 2) => d = 0)
    BY <1>3, <1>8, <2>3 DEF SameButText
  <2>5. PICK ch : ch = [i \in 0..B(m).size + 1 |-> IF i - d \in 0..m.n + 1 THEN R[i - d] ELSE R[i]]
    OBVIOUS
  <2>6. PICK bn : bn = IF m.cp < 2 THEN B(m).size ELSE B(m).n
    OBVIOUS
  <2>7. PICK r : r = [[B(w) EXCEPT !.ch = ch] EXCEPT !.n = bn]
    OBVIOUS
  <2>8. R \in [0..B(m).size + 1 -> Slot]
    BY <2>3 DEF Whole, SameButText
  <2>9. ch \in [0..B(m).size + 1 -> Slot]
    <3>1. ASSUME NEW i \in 0..B(m).size + 1
          PROVE  (IF i - d \in 0..m.n + 1 THEN R[i - d] ELSE R[i]) \in Slot
      <4>1. i - d \in 0..m.n + 1 => i - d \in 0..B(m).size + 1
        BY <1>8, <2>4
      <4> QED BY <2>8, <4>1
    <3> QED BY <2>5, <3>1
  <2>10. /\ r.ch = ch /\ r.n = bn /\ r.size = B(m).size /\ r.fill = B(m).fill
         /\ r.status = B(m).status /\ Whole(F, r)
    <3>1. /\ Shaped(r) /\ r.ch = ch /\ r.n = bn /\ r.pos = B(w).pos /\ r.size = B(w).size
          /\ r.fill = B(w).fill /\ r.status = B(w).status /\ r.ours = B(w).ours /\ r.file = B(w).file
      BY <2>3, <2>7 DEF Whole, Shaped
    <3>2. bn \in 0..B(m).size
      BY <1>7, <2>6 DEF Whole
    <3> QED BY <2>3, <2>9, <3>1, <3>2 DEF Whole, SameButText
  <2>11. /\ x.buf = [w.buf EXCEPT ![Cur] = r] /\ x.stack = w.stack /\ x.top = w.top
         /\ x.n = m.n + d /\ x.cp = m.cp + d /\ x.text = m.text + d
         /\ x.leng = m.leng /\ x.hold = m.hold /\ x.init = m.init /\ x.in = m.in
         /\ x.las = m.las /\ x.lac = m.lac /\ Record(x)
    <3>1. DOMAIN w.buf[Cur].ch = 0..B(m).size + 1
      BY <2>3, <2>8
    <3>2. PICK y : y = [w EXCEPT !.buf = [w.buf EXCEPT ![Cur] = [w.buf[Cur] EXCEPT !.ch = ch]],
                         !.n = w.n + d, !.cp = w.cp + d, !.text = w.text + d]
      OBVIOUS
    <3>3. ch = [i \in DOMAIN w.buf[Cur].ch |->
                  IF i - d \in 0..m.n + 1 THEN w.buf[Cur].ch[i - d] ELSE w.buf[Cur].ch[i]]
      BY <2>3, <2>5, <3>1
    <3>4. x = [y EXCEPT !.buf[Cur].n = IF m.cp < 2 THEN w.buf[Cur].size ELSE w.buf[Cur].n]
      <4>1. PICK l : l = [i \in DOMAIN w.buf[Cur].ch |->
                            IF i - d \in 0..m.n + 1 THEN w.buf[Cur].ch[i - d] ELSE w.buf[Cur].ch[i]]
        OBVIOUS
      <4>2. PICK z : z = [w EXCEPT !.buf[Cur].ch = l, !.n = @ + d, !.cp = @ + d, !.text = @ + d]
        OBVIOUS
      <4>3. x = [z EXCEPT !.buf[Cur].n = IF m.cp < 2 THEN w.buf[Cur].size ELSE w.buf[Cur].n]
        BY <1>4, <4>1, <4>2, Zenon DEF Shift
      <4>4. z = y
        BY <3>2, <3>3, <4>1, <4>2, Zenon
      <4> QED BY <4>3, <4>4
    <3>5. /\ y.buf = [w.buf EXCEPT ![Cur] = [w.buf[Cur] EXCEPT !.ch = ch]]
          /\ y.stack = w.stack /\ y.top = w.top
          /\ y.n = w.n + d /\ y.cp = w.cp + d /\ y.text = w.text + d
          /\ y.leng = w.leng /\ y.hold = w.hold /\ y.init = w.init /\ y.in = w.in
          /\ y.las = w.las /\ y.lac = w.lac /\ Record(y)
      BY <2>3, <3>2 DEF Record
    <3>6. y.buf[Cur] = [B(w) EXCEPT !.ch = ch] /\ y.buf[Cur].n = B(m).n
      BY <2>3, <3>5 DEF Whole, Shaped, SameButText
    <3>7. x = [y EXCEPT !.buf = [y.buf EXCEPT ![Cur] = r]]
      <4>1. [y.buf[Cur] EXCEPT !.n = IF m.cp < 2 THEN w.buf[Cur].size ELSE w.buf[Cur].n] = r
        BY <2>3, <2>6, <2>7, <3>6 DEF SameButText
      <4>2. x = [y EXCEPT !.buf = [y.buf EXCEPT ![Cur] =
                          [y.buf[Cur] EXCEPT !.n = IF m.cp < 2 THEN w.buf[Cur].size ELSE w.buf[Cur].n]]]
        BY <3>4, Zenon
      <4> QED BY <4>1, <4>2, Zenon
    <3>8. [y.buf EXCEPT ![Cur] = r] = [w.buf EXCEPT ![Cur] = r]
      BY <3>5
    <3> QED BY <2>3, <3>5, <3>7, <3>8 DEF Record, Same
  <2>12. Counts(F, x)
    BY <1>7, <1>8, <2>4, <2>11 DEF Counts
  <2>13. Framed(F, x) /\ YY_CURRENT_BUFFER(x) = Cur /\ B(x) = r
    BY <2>3, <2>10, <2>11, <2>12, Reframed
  <2>14. c \in Char /\ c \in Slot
    BY ScannerAssumption DEF Slot
  <2>15. /\ m.cp + d - 1 \in 0..B(m).size + 1 /\ m.cp + d - 1 \in Nat
         /\ m.cp + d - 1 < m.n + d
    <3>1. x.cp = m.cp + d /\ ~(x.cp < 2)
      BY <1>9, <2>3, <2>11 DEF Same
    <3>2. m.cp + d >= 2
      BY <1>8, <2>4, <3>1
    <3>3. m.cp + d - 1 \in Nat /\ m.cp + d - 1 <= B(m).size /\ m.cp + d - 1 < m.n + d
      BY <1>8, <2>4, <3>2
    <3> QED BY <1>8, <3>3
  <2>16. IsPoked(F, x, m.cp + d - 1, c, p)
    <3>1. x.cp - 1 = m.cp + d - 1
      BY <1>8, <2>4, <2>11
    <3>2. YY_CURRENT_BUFFER(x) # None /\ m.cp + d - 1 \in 0..B(x).size + 1
      BY <2>3, <2>10, <2>13, <2>15
    <3> QED BY <1>5, <2>13, <2>14, <3>1, <3>2, Poked
  <2>17. /\ Framed(F, p) /\ Record(p) /\ YY_CURRENT_BUFFER(p) = Cur /\ Same(x, p)
         /\ B(p).ch = [ch EXCEPT ![m.cp + d - 1] = c] /\ SameButText(r, B(p))
         /\ DOMAIN p.buf = DOMAIN m.buf
    BY <2>3, <2>10, <2>11, <2>13, <2>16 DEF IsPoked, Framed, Globals
  <2>18. /\ m'.buf = p.buf /\ SameStack(p, m') /\ Record(m') /\ m'.n = m.n + d
         /\ m'.cp = m.cp + d - 1 /\ m'.text = m.text + d /\ m'.leng = m.leng /\ m'.hold = c
         /\ m'.init = m.init /\ m'.in = m.in /\ m'.las = m.las /\ m'.lac = m.lac
    <3>1. PICK e : e = m.cp + d - 1
      OBVIOUS
    <3>2. p.cp - 1 = e
      <4>1. p.cp = m.cp + d
        BY <2>11, <2>17 DEF Same
      <4> QED BY <1>8, <2>4, <3>1, <4>1
    <3>3. m' = [p EXCEPT !.hold = c, !.cp = e]
      BY <1>9, <3>2
    <3>4. /\ m'.buf = p.buf /\ m'.stack = p.stack /\ m'.top = p.top /\ m'.n = p.n /\ m'.cp = e
          /\ m'.text = p.text /\ m'.leng = p.leng /\ m'.hold = c /\ m'.init = p.init
          /\ m'.in = p.in /\ m'.las = p.las /\ m'.lac = p.lac /\ Record(m')
      BY <2>17, <3>3 DEF Record
    <3> QED BY <2>11, <2>17, <3>1, <3>4, Zenon DEF SameStack, Same
  <2>19. Counts(F, m')
    BY <1>7, <1>8, <2>4, <2>14, <2>15, <2>18 DEF Counts
  <2>20. Framed(F, m') /\ YY_CURRENT_BUFFER(m') = Cur /\ B(m') = B(p)
    BY <2>17, <2>18, <2>19, Recounted
  <2>21. PICK R1 : R1 = Restored(m')
    OBVIOUS
  <2>22. R1 = [ch EXCEPT ![m.cp + d - 1] = c]
    BY <2>9, <2>15, <2>17, <2>18, <2>20, <2>21 DEF Restored
  <2>23. \A i \in 0..B(m).size + 1 : R1[i] = IF i = m.cp + d - 1 THEN c ELSE ch[i]
    BY <2>9, <2>15, <2>22
  <2>24. R1[m.n + d] = NUL /\ R1[m.n + d + 1] = NUL
    <3>1. /\ m.n + d \in 0..B(m).size + 1 /\ m.n + d + 1 \in 0..B(m).size + 1
          /\ m.n + d - d = m.n /\ m.n + d + 1 - d = m.n + 1
          /\ m.n \in 0..m.n + 1 /\ m.n + 1 \in 0..m.n + 1
          /\ m.n + d # m.cp + d - 1 /\ m.n + d + 1 # m.cp + d - 1
      BY <1>8, <2>4, <2>15
    <3>2. R[m.n] = NUL /\ R[m.n + 1] = NUL
      BY <1>7, <2>2 DEF Between
    <3>3. ch[m.n + d] = R[m.n] /\ ch[m.n + d + 1] = R[m.n + 1]
      <4>1. \A i \in 0..B(m).size + 1, k \in 0..m.n + 1 : i - d = k => ch[i] = R[k]
        BY <2>5
      <4>2. PICK i \in 0..B(m).size + 1, j \in 0..B(m).size + 1 : i = m.n + d /\ j = m.n + d + 1
        BY <3>1
      <4>3. i - d = m.n /\ j - d = m.n + 1
        BY <1>8, <2>4, <4>2
      <4> QED BY <3>1, <4>1, <4>2, <4>3
    <3> QED BY <2>23, <3>1, <3>2, <3>3
  <2>25. ASSUME NEW i \in 0..m.n + d + 1, i >= m.cp + d - 1 \/ i >= m.text + d
         PROVE  R1[i] \in Char
    <3>1. i \in 0..B(m).size + 1
      BY <1>8, <2>4
    <3>2. CASE i = m.cp + d - 1
      BY <2>14, <2>23, <3>1, <3>2
    <3>3. CASE i # m.cp + d - 1
      <4>1. i - d \in 0..m.n + 1 /\ (i - d >= m.cp \/ i - d >= m.text)
        BY <1>8, <2>4, <2>25, <3>3
      <4>2. R[i - d] \in Char
        BY <1>7, <2>2, <4>1 DEF Between
      <4> QED BY <2>5, <2>23, <3>1, <3>3, <4>1, <4>2
    <3> QED BY <3>2, <3>3
  <2>26. Awake(F, m')
    <3>1. B(m').size = B(m).size /\ B(m').fill = B(m).fill /\ B(m').status = B(m).status /\ B(m').n = bn
      BY <2>10, <2>17, <2>20 DEF SameButText
    <3>2. bn = m.n + d \/ (bn = B(m).n /\ d = 0)
      BY <2>4, <2>6
    <3>3. B(m').status = "new" => B(m').n = m'.n
      BY <1>7, <1>8, <2>18, <3>1, <3>2 DEF Awake
    <3> QED BY <1>7, <2>3, <2>4, <2>18, <2>20, <3>1, <3>3 DEF Awake
  <2>27. Between(F, m')
    <3>1. m.cp + d - 1 <= m.n + d /\ m.text + d <= m.n + d
      BY <1>8, <2>4
    <3> QED BY <1>6, <2>18, <2>21, <2>24, <2>25, <2>26, <3>1 DEF Between
  <2>28. Beside(m, m')
    <3>1. Beside(w, x)
      BY <2>3, <2>11, BesideSame DEF SameStack
    <3>2. Beside(p, m')
      BY <2>18, BesideSame
    <3>3. Beside(m, x)
      BY <2>1, <3>1, BesideToo DEF IsPoked
    <3>4. Beside(m, p)
      BY <2>16, <3>3, BesideToo DEF IsPoked
    <3> QED BY <3>2, <3>4, BesideToo
  <2>29. R1[m.cp + d - 1] = c
    BY <2>15, <2>23
  <2>30. ASSUME NEW i \in m.cp..m.n - 1 PROVE R1[i + d] = R[i]
    <3>1. i + d \in 0..B(m).size + 1 /\ (i + d) - d = i /\ i \in 0..m.n + 1 /\ i + d # m.cp + d - 1
      BY <1>8, <2>4
    <3>2. R1[i + d] = ch[i + d]
      BY <2>23, <3>1
    <3>3. ch[i + d] = R[(i + d) - d]
      BY <2>5, <3>1
    <3> QED BY <3>1, <3>2, <3>3
  <2>31. B(m').fill = B(m).fill /\ B(m').status = B(m).status /\ m'.init
    BY <1>6, <2>10, <2>17, <2>18, <2>20 DEF SameButText
  <2> QED BY <2>2, <2>4, <2>15, <2>18, <2>20, <2>21, <2>27, <2>28, <2>29, <2>30, <2>31 DEF IsUnput
<1> QED BY <1>1, <1>10

LEMMA UnputStep ==
  ASSUME IInv, NEW c \in PushBack, yyunput(c)
  PROVE  IInv'
<1>1. PICK F : F = client.files
  OBVIOUS
<1>2. /\ pc = "idle" /\ m.init /\ Cur # None /\ UNCHANGED <<client, rest, local, tok>>
      /\ \/ pc' = "fatal" /\ m' = m /\ owed' = owed
         \/ pc' = pc /\ DOMAIN owed' = DOMAIN owed
  BY Zenon DEF yyunput, Called
<1>3. CASE pc' = "fatal" /\ m' = m /\ owed' = owed
  <2>1. Framed(F, m) /\ Between(F, m) /\ Awake(F, m)
    BY <1>1, <1>2, ClientKnown DEF AtRest, Between, Cur
  <2>2. m.n <= B(m).size /\ m.cp <= m.n /\ m.n \in Nat /\ m.cp \in Nat /\ B(m).size \in Nat
    BY <2>1, Bounds DEF Between
  <2>3. m.cp <= B(m).size + 2
    BY <2>2
  <2>4. Typed' /\ Framed(client.files, m)'
    BY <1>2, <1>3, ClientKnown DEF IInv, Typed, local
  <2>5. (m.n <= B(m).size /\ m.cp <= B(m).size + 2)'
    BY <1>3, <2>2, <2>3
  <2> QED BY <1>3, <2>4, <2>5 DEF IInv
<1>4. CASE pc' = pc /\ DOMAIN owed' = DOMAIN owed
  <2>1. PICK d \in Nat : IsUnput(F, c, d, m')
    BY <1>1, <1>2, <1>4, Unputs
  <2>2. AtRest(F, m') /\ DOMAIN m'.buf = DOMAIN m.buf
    BY <2>1 DEF IsUnput, AtRest, Beside
  <2>3. rest' \in [client.files -> Seq(Char)] /\ DOMAIN owed' \subseteq DOMAIN m'.buf
    BY <1>2, <1>4, <2>2, ClientKnown
  <2> QED BY <1>1, <1>2, <1>4, <2>2, <2>3, RestingStep
<1> QED BY <1>2, <1>3, <1>4, Zenon
-----------------------------------------------------------------------------
(* yylex. *)

(* What a call of yylex finds, or makes, before it scans. *)
Initialised(w) == [w EXCEPT !.init = TRUE, !.in = IF @ = None THEN Stdin ELSE @]
ReadyToScan(w) == IF w.init THEN w ELSE yy_load_buffer_state(EnsureCurrent(Initialised(w)))
Pointed(w) == IF w.in = None THEN Stdin ELSE w.in
IsReady(F, e) ==
  /\ AtRest(F, e) /\ Between(F, e) /\ Awake(F, e) /\ e.init
  /\ DOMAIN e.buf = (IF Cur = None THEN DOMAIN m.buf \cup {NewBuffer(m)} ELSE DOMAIN m.buf)
  /\ YY_CURRENT_BUFFER(e) = (IF Cur = None THEN NewBuffer(m) ELSE Cur)
  /\ StillOff(m, e, {YY_CURRENT_BUFFER(e)}) /\ \A o \in DOMAIN m.buf : e.buf[o] = m.buf[o]
  /\ Cur # None => /\ e.n = m.n /\ e.cp = m.cp /\ Restored(e) = Restored(m)
                   /\ e.in = (IF m.init THEN m.in ELSE B(m).file)
  /\ Cur = None => /\ Empty(B(e), Pointed(m)) /\ e.in = Pointed(m) /\ e.n = 0 /\ e.cp = 0
                   /\ Pointed(m) \in F
LEMMA Readies ==
  ASSUME IInv, pc = "idle", Cur = None => ~m.init /\ Unallocated
  PROVE  IsReady(client.files, ReadyToScan(m))
<1>1. PICK F : F = client.files
  OBVIOUS
<1>2. PICK i : i = Initialised(m)
  OBVIOUS
<1>3. PICK e : e = ReadyToScan(m)
  OBVIOUS
<1> SUFFICES IsReady(F, e)
  BY <1>1, <1>3
<1>4. e = IF m.init THEN m ELSE yy_load_buffer_state(EnsureCurrent(i))
  BY <1>2, <1>3 DEF ReadyToScan
<1>5. AtRest(F, m) /\ Framed(F, m) /\ Record(m) /\ Counts(F, m) /\ Stdin \in F
  BY <1>1, ClientKnown DEF Globals
<1>6. CASE m.init
  <2>1. e = m /\ Cur # None
    BY <1>4, <1>6
  <2>2. StillOff(m, m, {Cur})
    BY DEF StillOff
  <2> QED BY <1>5, <1>6, <2>1, <2>2 DEF AtRest, Cur, Between, IsReady
<1>7. CASE ~m.init
  <2>1. PICK t \in BOOLEAN : t = TRUE
    OBVIOUS
  <2>2. PICK f : f = Pointed(m)
    OBVIOUS
  <2>3. f \in F
    BY <1>5, <2>2 DEF Counts, Pointed
  <2>4. i = [m EXCEPT !.init = t, !.in = f]
    BY <1>2, <2>1, <2>2 DEF Initialised, Pointed
  <2>5. /\ i.buf = m.buf /\ SameStack(m, i) /\ i.n = m.n /\ i.cp = m.cp
        /\ i.text = m.text /\ i.leng = m.leng /\ i.hold = m.hold /\ i.init = t /\ i.in = f
        /\ i.las = m.las /\ i.lac = m.lac /\ Record(i)
    BY <1>5, <2>4 DEF Record, SameStack
  <2>6. Counts(F, i)
    BY <1>5, <2>3, <2>5 DEF Counts
  <2>7. Framed(F, i) /\ YY_CURRENT_BUFFER(i) = Cur /\ B(i) = B(m)
    BY <1>5, <2>5, <2>6, Recounted DEF Cur
  <2>8. PICK c : c = EnsureCurrent(i)
    OBVIOUS
  <2>9. e = yy_load_buffer_state(c)
    BY <1>4, <1>7, <2>8
  <2>10. CanBegin(F, i)
    BY <2>3, <2>5, <2>7, ClientKnown DEF CanBegin
  <2>11. IsBegun(F, i, c)
    BY <2>7, <2>8, <2>10, Begins
  <2>12. ASSUME Cur # None PROVE c = i /\ Loaded(m) /\ Restored(m) = B(m).ch /\ Asleep(B(m))
    <3>1. c = i
      BY <2>7, <2>11, <2>12 DEF IsBegun
    <3>2. Between(F, m) /\ Loaded(m)
      BY <1>5, <1>7, <2>12 DEF AtRest, Cur, Between
    <3>3. Awake(F, m) /\ Whole(F, B(m)) /\ m.n <= B(m).size /\ m.n \in Nat /\ m.cp \in Nat
      BY <1>5, <3>2, Bounds DEF Between
    <3>4. Restored(m) = B(m).ch
      BY <3>2, <3>3 DEF Restored, Loaded, Whole
    <3>5. B(m).pos <= B(m).n /\ B(m).ch[B(m).n] = NUL /\ B(m).ch[B(m).n + 1] = NUL
      BY <3>2, <3>4 DEF Between, Loaded
    <3>6. \A k \in B(m).pos..B(m).n + 1 : B(m).ch[k] \in Char
      <4>1. \A k \in m.cp..m.n + 1 : k \in 0..m.n + 1 /\ k >= m.cp
        BY <3>3
      <4>2. \A k \in m.cp..m.n + 1 : B(m).ch[k] \in Char
        BY <3>2, <3>4, <4>1 DEF Between
      <4> QED BY <3>2, <4>2 DEF Loaded
    <3> QED BY <3>1, <3>2, <3>4, <3>5, <3>6 DEF Asleep, Plain
  <2>13. Asleep(B(c))
    <3>1. CASE Cur = None
      <4>1. AllAsleep(c) /\ YY_CURRENT_BUFFER(c) \in DOMAIN c.buf
        BY <2>7, <2>11, <3>1 DEF IsBegun
      <4> QED BY <4>1 DEF AllAsleep, B
    <3>2. CASE Cur # None
      BY <2>7, <2>12, <3>2
    <3> QED BY <3>1, <3>2
  <2>14. Framed(F, c) /\ YY_CURRENT_BUFFER(c) # None
    BY <2>11 DEF IsBegun
  <2>15. IsLoaded(F, c, e)
    BY <2>9, <2>13, <2>14, LoadsBuffer
  <2>16. /\ YY_CURRENT_BUFFER(e) = YY_CURRENT_BUFFER(c) /\ AtRest(F, e) /\ e.buf = c.buf /\ e.init = c.init
         /\ Loaded(e) /\ SameStack(c, e) /\ e.in = B(c).file
    BY <2>15, CurrentKept DEF IsLoaded
  <2>17. Between(F, e) /\ Awake(F, e)
    BY <2>14, <2>16 DEF AtRest, Between
  <2>18. e.init
    BY <2>1, <2>5, <2>11, <2>16 DEF IsBegun, Same
  <2>19. NewBuffer(i) = NewBuffer(m) /\ DOMAIN i.buf = DOMAIN m.buf
    BY <2>5 DEF NewBuffer
  <2>20. /\ YY_CURRENT_BUFFER(e) = (IF Cur = None THEN NewBuffer(m) ELSE Cur)
         /\ \A o \in DOMAIN m.buf : e.buf[o] = m.buf[o]
    BY <2>5, <2>7, <2>11, <2>16, <2>19 DEF IsBegun
  <2>21. DOMAIN e.buf = IF Cur = None THEN DOMAIN m.buf \cup {NewBuffer(m)} ELSE DOMAIN m.buf
    <3>1. CASE Cur = None
      BY <2>7, <2>11, <2>16, <2>19, <3>1 DEF IsBegun
    <3>2. CASE Cur # None
      BY <2>7, <2>11, <2>16, <2>19, <3>2 DEF IsBegun
    <3> QED BY <3>1, <3>2
  <2>22. StillOff(m, e, {YY_CURRENT_BUFFER(e)})
    <3>1. StillOff(i, c, {YY_CURRENT_BUFFER(c)})
      BY <2>11 DEF IsBegun
    <3> QED BY <2>5, <2>16, <3>1 DEF StillOff, OffStack, SameStack
  <2>23. ASSUME Cur # None
         PROVE  /\ e.n = m.n /\ e.cp = m.cp /\ Restored(e) = Restored(m)
                /\ e.in = (IF m.init THEN m.in ELSE B(m).file)
    <3>1. B(c) = B(m) /\ Loaded(m) /\ Restored(m) = B(m).ch
      BY <2>7, <2>12, <2>23
    <3>2. B(e) = B(m)
      BY <2>16, <3>1 DEF B
    <3>3. e.n = m.n /\ e.cp = m.cp /\ e.hold = m.hold
      BY <2>16, <3>1, <3>2 DEF Loaded
    <3>4. Restored(e) = Restored(m)
      BY <3>2, <3>3 DEF Restored
    <3> QED BY <1>7, <2>16, <3>1, <3>3, <3>4
  <2>24. ASSUME Cur = None
         PROVE  /\ Empty(B(e), Pointed(m)) /\ e.in = Pointed(m) /\ e.n = 0 /\ e.cp = 0
                /\ Pointed(m) \in F
    <3>1. Empty(B(c), f)
      BY <2>5, <2>7, <2>11, <2>24 DEF IsBegun
    <3>2. B(e) = B(c)
      BY <2>16 DEF B
    <3> QED BY <2>2, <2>3, <2>16, <3>1, <3>2 DEF Empty, Loaded
  <2> QED BY <2>16, <2>17, <2>18, <2>20, <2>21, <2>22, <2>23, <2>24 DEF IsReady
<1> QED BY <1>6, <1>7

(* It undoes yytext there, and matches from yy_c_buf_p on. *)
IsLooking(F, e) ==
  /\ IsReady(F, e) /\ IsPoked(F, e, e.cp, e.hold, m') /\ B(m').ch = Restored(e)
  /\ pc = "idle" /\ (Cur = None => ~m.init /\ Unallocated /\ Unused(Pointed(m)))
  /\ bp' = e.cp /\ lp' = e.cp /\ st' = 1 /\ pc' = "match" /\ by' = "yylex"
  /\ owed' = (IF Cur = None THEN With(owed, NewBuffer(m), rest[Pointed(m)]) ELSE owed)
LEMMA YylexLooks ==
  ASSUME IInv, yylex
  PROVE  IsLooking(client.files, ReadyToScan(m))
<1>1. PICK F : F = client.files
  OBVIOUS
<1>2. PICK e : e = ReadyToScan(m)
  OBVIOUS
<1>3. /\ pc = "idle" /\ (Cur = None => ~m.init /\ Unallocated /\ Unused(Initialised(m).in))
      /\ m' = Poke(e, e.cp, e.hold)
      /\ bp' = e.cp /\ lp' = e.cp /\ st' = 1 /\ pc' = "match" /\ by' = "yylex"
      /\ owed' = IF Cur = None THEN With(owed, NewBuffer(m), rest[Initialised(m).in]) ELSE owed
  <2>1. /\ pc = "idle" /\ (Cur = None => ~m.init /\ Unallocated /\ Unused(Initialised(m).in))
        /\ m' = Poke(ReadyToScan(m), ReadyToScan(m).cp, ReadyToScan(m).hold)
        /\ bp' = ReadyToScan(m).cp /\ lp' = ReadyToScan(m).cp /\ st' = 1 /\ pc' = "match" /\ by' = "yylex"
        /\ owed' = IF Cur = None THEN With(owed, NewBuffer(m), rest[Initialised(m).in]) ELSE owed
    BY Zenon DEF yylex, Called, ReadyToScan, Initialised
  <2> QED BY <1>2, <2>1
<1>4. Initialised(m).in = Pointed(m)
  <2>1. Record(m)
    BY ClientKnown DEF Globals
  <2> QED BY <2>1 DEF Initialised, Pointed, Record
<1>5. IsReady(F, e)
  BY <1>1, <1>2, <1>3, Readies
<1>6. /\ Framed(F, e) /\ YY_CURRENT_BUFFER(e) # None /\ Counts(F, e)
      /\ e.n \in Nat /\ e.cp \in Nat /\ B(e).size \in Nat /\ e.n <= B(e).size /\ e.cp <= e.n
  BY <1>5, Bounds DEF AtRest, Between, IsReady
<1>7. IsPoked(F, e, e.cp, e.hold, m')
  <2>1. e.cp \in 0..B(e).size + 1 /\ e.hold \in Slot
    BY <1>6 DEF Counts
  <2> QED BY <1>3, <1>6, <2>1, Poked
<1>8. B(m').ch = Restored(e)
  BY <1>7 DEF IsPoked, Restored
<1>9. IsLooking(F, e)
  BY <1>3, <1>4, <1>5, <1>7, <1>8 DEF IsLooking
<1> QED BY <1>1, <1>2, <1>9

LEMMA YylexStep ==
  ASSUME IInv, yylex
  PROVE  IInv'
<1>1. PICK F : F = client.files
  OBVIOUS
<1>2. PICK e : e = ReadyToScan(m)
  OBVIOUS
<1>3. IsLooking(F, e)
  BY <1>1, <1>2, YylexLooks
<1>4. /\ pc = "idle" /\ bp' = e.cp /\ lp' = e.cp /\ st' = 1 /\ pc' = "match" /\ by' = "yylex"
      /\ owed' = IF Cur = None THEN With(owed, NewBuffer(m), rest[Pointed(m)]) ELSE owed
      /\ UNCHANGED <<client, rest, tok>>
  BY <1>3 DEF yylex, IsLooking
<1>5. IsReady(F, e) /\ IsPoked(F, e, e.cp, e.hold, m')
  BY <1>3 DEF IsLooking
<1>6. /\ Framed(F, e) /\ YY_CURRENT_BUFFER(e) # None /\ Counts(F, e) /\ Whole(F, B(e))
      /\ e.n \in Nat /\ e.cp \in Nat /\ B(e).size \in Nat /\ e.n <= B(e).size /\ e.cp <= e.n
  BY <1>5, Bounds DEF AtRest, Between, IsReady
<1>7. /\ Framed(F, m') /\ YY_CURRENT_BUFFER(m') # None /\ B(m').ch = Restored(e) /\ Same(e, m')
      /\ SameButText(B(e), B(m')) /\ DOMAIN m'.buf = DOMAIN e.buf
  BY <1>3, <1>5, <1>6 DEF IsPoked, IsLooking
<1>8. Awake(F, m')
  BY <1>5, <1>7 DEF IsReady, Awake, SameButText, Same
<1>9. Plain(Restored(e), e.cp, e.n)
  <2>1. \A k \in e.cp..e.n + 1 : k \in 0..e.n + 1 /\ k >= e.cp
    BY <1>6
  <2> QED BY <1>5, <2>1 DEF Plain, Between, IsReady
<1>10. AtMatch'
  <2>1. m'.n = e.n /\ m'.cp = e.cp /\ m'.init
    BY <1>5, <1>7 DEF Same, IsReady
  <2>2. bp' <= lp' /\ lp' <= m'.n /\ Run(B(m').ch, bp', lp', st')
    BY <1>4, <1>6, <2>1 DEF Run
  <2>3. Plain(B(m').ch, bp', m'.n)
    BY <1>4, <1>7, <1>9, <2>1
  <2> QED BY <1>1, <1>4, <1>6, <1>8, <2>1, <2>2, <2>3 DEF AtMatch
<1>11. DOMAIN owed' \subseteq DOMAIN m'.buf
  BY <1>4, <1>5, <1>7, ClientKnown DEF With, IsReady
<1>12. Typed'
  BY <1>4, <1>6, <1>11, ClientKnown DEF Typed
<1>13. Framed(client.files, m)'
  BY <1>1, <1>4, <1>7
<1> QED BY <1>4, <1>10, <1>12, <1>13 DEF IInv
-----------------------------------------------------------------------------
(* Match. *)

(* The match loop stops in four of the states. *)
LEMMA Jamming ==
  /\ Jams(4) /\ Jams(5) /\ Jams(6) /\ Jams(9)
  /\ ~Jams(1) /\ ~Jams(3) /\ ~Jams(7) /\ ~Jams(8)
  BY Tables DEF Jams

(* A place where the automaton could stop is remembered. *)
SameCounts(w, v) ==
  /\ v.n = w.n /\ v.cp = w.cp /\ v.text = w.text /\ v.leng = w.leng /\ v.hold = w.hold
  /\ v.init = w.init /\ v.in = w.in
IsAccepted(F, w, s, at, v) ==
  /\ Framed(F, v) /\ YY_CURRENT_BUFFER(v) = YY_CURRENT_BUFFER(w) /\ B(v) = B(w)
  /\ v.buf = w.buf /\ SameStack(w, v) /\ SameCounts(w, v)
  /\ v.las = (IF yy_accept[s] = 0 THEN w.las ELSE s)
  /\ v.lac = (IF yy_accept[s] = 0 THEN w.lac ELSE at)
LEMMA Accepts ==
  ASSUME NEW F, NEW w, Framed(F, w), NEW s \in 1..10, NEW at \in Nat
  PROVE  IsAccepted(F, w, s, at, Accepting(s, w, at))
<1>0. PICK v : v = Accepting(s, w, at)
  OBVIOUS
<1> SUFFICES IsAccepted(F, w, s, at, v)
  BY <1>0
<1>1. Record(w) /\ Counts(F, w)
  BY DEF Framed, Globals
<1>2. CASE yy_accept[s] = 0
  <2>1. v = w
    BY <1>0, <1>2 DEF Accepting
  <2> QED BY <1>2, <2>1 DEF IsAccepted, SameStack, SameCounts
<1>3. CASE yy_accept[s] # 0
  <2>1. v = [w EXCEPT !.las = s, !.lac = at]
    BY <1>0, <1>3 DEF Accepting
  <2>2. /\ v.buf = w.buf /\ SameStack(w, v) /\ SameCounts(w, v) /\ Record(v)
        /\ v.las = s /\ v.lac = at
    BY <1>1, <2>1 DEF Record, SameStack, SameCounts
  <2>3. Counts(F, v)
    BY <1>1, <2>2 DEF Counts, SameCounts
  <2> QED BY <1>3, <2>2, <2>3, Recounted DEF IsAccepted
<1> QED BY <1>2, <1>3

LEMMA MatchStep ==
  ASSUME IInv, Match
  PROVE  IInv'
<1>1. PICK F : F = client.files
  OBVIOUS
<1>2. PICK a : a = B(m).ch
  OBVIOUS
<1>3. PICK c : c = yy_ec(a[lp])
  OBVIOUS
<1>4. /\ pc = "match" /\ m' = Accepting(st, m, lp) /\ st' = yy_trans[<<st, c>>] /\ lp' = lp + 1
      /\ pc' = (IF Jams(st') THEN "find" ELSE "match")
      /\ client' = client /\ rest' = rest /\ bp' = bp /\ by' = by /\ owed' = owed
  BY <1>2, <1>3 DEF Match, Chars, B
<1>5. /\ Typed /\ Framed(F, m) /\ AtMatch /\ Awake(F, m) /\ m.init /\ bp <= lp /\ Plain(a, bp, m.n)
      /\ bp \in Nat /\ lp \in Nat /\ st \in 1..10 /\ m.cp <= m.n
  BY <1>1, <1>2, <1>4 DEF IInv, AtMatch, Typed
<1>6. m.n \in Nat /\ Counts(F, m)
  BY <1>5, Bounds
<1>7. IsAccepted(F, m, st, lp, m')
  BY <1>4, <1>5, Accepts
<1>8. /\ Framed(client.files, m)' /\ Awake(F, m') /\ m'.init /\ B(m') = B(m) /\ B(m').ch = a
      /\ m'.n = m.n /\ m'.cp <= m'.n /\ m'.buf = m.buf
  BY <1>1, <1>2, <1>4, <1>5, <1>7 DEF IsAccepted, SameCounts, Awake
<1>9. c \in 0..4 /\ (c = 0 <=> a[lp] = NUL) /\ (c = 4 <=> a[lp] \in Digit)
  BY <1>3, Classes
<1>10. st' = StateAfter(st, c)
  BY <1>4, <1>5, <1>9, Trans
<1>11. StateAfter(st, c) \in 1..10
  BY <1>9 DEF StateAfter
<1>12. Typed'
  BY <1>4, <1>5, <1>8, <1>10, <1>11 DEF Typed
<1>13. (pc' = "match" /\ AtMatch') \/ (pc' = "find" /\ AtFind')
  <2>1. CASE st = 3 /\ bp < lp /\ lp <= m.n + 1 /\ Prefix(a, bp, lp - 1) /\ a[lp - 1] = NUL
    <3>1. st' = 9 /\ pc' = "find"
      BY <1>4, <1>10, <2>1, Jamming DEF StateAfter
    <3>2. m'.las = 3 /\ m'.lac = lp
      BY <1>7, <2>1, Tables DEF IsAccepted
    <3> QED BY <1>1, <1>4, <1>5, <1>8, <2>1, <3>1, <3>2 DEF AtFind
  <2>2. CASE st \in {1, 4, 7, 8} /\ lp <= m.n /\ Run(a, bp, lp, st)
    <3>1. CASE c = 0
      <4>1. st' = 3 /\ pc' = "match"
        BY <1>4, <1>10, <2>2, <3>1, Jamming DEF StateAfter
      <4>2. Prefix(a, bp, lp)
        BY <2>2 DEF Run, Prefix
      <4>3. lp' - 1 = lp /\ bp <= lp' /\ bp < lp' /\ lp' <= m.n + 1
        BY <1>4, <1>5, <1>6, <2>2
      <4> QED BY <1>1, <1>4, <1>5, <1>8, <1>9, <3>1, <4>1, <4>2, <4>3 DEF AtMatch
    <3>2. CASE c # 0
      <4>1. a[m.n] = NUL /\ a[lp] # NUL
        BY <1>5, <1>9, <3>2 DEF Plain
      <4>2. bp < lp' /\ bp <= lp' /\ lp' <= m.n
        BY <1>4, <1>5, <1>6, <2>2, <4>1
      <4>3. CASE st = 1 /\ c # 4
        <5>1. st' \in {4, 5, 6} /\ pc' = "find"
          BY <1>4, <1>9, <1>10, <3>2, <4>3, Jamming DEF StateAfter
        <5> QED BY <1>1, <1>4, <1>5, <1>8, <4>2, <5>1 DEF AtFind
      <4>4. CASE st \in {1, 7, 8} /\ c = 4
        <5>1. st' \in {7, 8} /\ pc' = "match"
          BY <1>4, <1>9, <1>10, <4>4, Jamming DEF StateAfter
        <5>2. \A i \in bp..lp' - 1 : a[i] \in Digit
          <6>1. \A i \in bp..lp' - 1 : i = lp \/ i \in bp..lp - 1
            BY <1>4, <1>5
          <6>2. \A i \in bp..lp - 1 : a[i] \in Digit
            <7>1. CASE st = 1
              BY <1>5, <2>2, <7>1 DEF Run
            <7>2. CASE st \in {7, 8}
              BY <2>2, <7>2 DEF Run
            <7> QED BY <4>4, <7>1, <7>2
          <6> QED BY <1>9, <4>4, <6>1, <6>2
        <5>3. Run(a, bp, lp', st')
          BY <4>2, <5>1, <5>2 DEF Run
        <5> QED BY <1>1, <1>4, <1>5, <1>8, <4>2, <5>1, <5>3 DEF AtMatch
      <4>5. CASE st \in {4, 7, 8} /\ (st = 4 \/ c # 4)
        <5>1. st' = 9 /\ pc' = "find"
          BY <1>4, <1>10, <3>2, <4>5, Jamming DEF StateAfter
        <5>2. m'.las = st /\ m'.lac = lp
          BY <1>7, <4>5, Tables DEF IsAccepted
        <5>3. bp < lp
          BY <1>5, <2>2, <4>5 DEF Run
        <5> QED BY <1>1, <1>4, <1>5, <1>8, <2>2, <4>5, <5>1, <5>2, <5>3 DEF AtFind
      <4> QED BY <2>2, <4>3, <4>4, <4>5
    <3> QED BY <3>1, <3>2
  <2> QED BY <1>2, <1>5, <2>1, <2>2 DEF AtMatch
<1> QED BY <1>8, <1>12, <1>13 DEF IInv
-----------------------------------------------------------------------------
(* FindAction. *)

(* The end of yytext is marked: yytext begins at from and ends before at. *)
Ends(w, from, at) ==
  [Poke(w, at, NUL) EXCEPT
     !.text = from, !.leng = at - from, !.hold = Chars(w)[at], !.cp = at]
IsEnded(F, w, from, at, v) ==
  /\ Framed(F, v) /\ YY_CURRENT_BUFFER(v) = YY_CURRENT_BUFFER(w)
  /\ v.n = w.n /\ v.text = from /\ v.cp = at /\ v.init = w.init /\ v.in = w.in
  /\ DOMAIN v.buf = DOMAIN w.buf /\ SameButText(B(w), B(v)) /\ Restored(v) = B(w).ch
  /\ Beside(w, v)
LEMMA MarksEnd ==
  ASSUME NEW F, NEW w, Framed(F, w), YY_CURRENT_BUFFER(w) # None,
         NEW from \in Nat, NEW at \in 0..B(w).size + 1
  PROVE  IsEnded(F, w, from, at, Ends(w, from, at))
<1>0. PICK v : v = Ends(w, from, at)
  OBVIOUS
<1> SUFFICES IsEnded(F, w, from, at, v)
  BY <1>0
<1>1. PICK p : p = Poke(w, at, NUL)
  OBVIOUS
<1>2. PICK h : h = B(w).ch[at]
  OBVIOUS
<1>3. Whole(F, B(w)) /\ Counts(F, w) /\ B(w).size \in Nat /\ B(w).ch \in [0..B(w).size + 1 -> Slot]
  BY CurrentHeld DEF Framed, Globals, Whole
<1>4. h \in Slot /\ NUL \in Slot /\ at \in Nat /\ at - from \in Int
  BY <1>2, <1>3, Classes DEF Slot
<1>5. IsPoked(F, w, at, NUL, p)
  BY <1>1, <1>4, Poked
<1>6. v = [p EXCEPT !.text = from, !.leng = at - from, !.hold = h, !.cp = at]
  BY <1>0, <1>1, <1>2 DEF Ends, Chars, B
<1>7. Framed(F, p) /\ Record(p) /\ Counts(F, p)
  BY <1>5 DEF IsPoked, Framed, Globals
<1>8. /\ v.buf = p.buf /\ SameStack(p, v) /\ v.n = p.n /\ v.text = from /\ v.leng = at - from
      /\ v.hold = h /\ v.cp = at /\ v.init = p.init /\ v.in = p.in /\ v.las = p.las /\ v.lac = p.lac
      /\ Record(v)
  BY <1>6, <1>7 DEF Record, SameStack
<1>9. Counts(F, v)
  BY <1>4, <1>7, <1>8 DEF Counts
<1>10. Framed(F, v) /\ YY_CURRENT_BUFFER(v) = YY_CURRENT_BUFFER(p) /\ B(v) = B(p)
  BY <1>7, <1>8, <1>9, Recounted
<1>11. Restored(v) = B(w).ch
  <2>1. Restored(v) = [[B(w).ch EXCEPT ![at] = NUL] EXCEPT ![at] = B(w).ch[at]]
    BY <1>2, <1>5, <1>8, <1>10 DEF Restored, IsPoked
  <2> QED BY <1>3, <2>1
<1>12. Beside(w, v)
  BY <1>5, <1>8, BesideSame, BesideToo DEF IsPoked
<1> QED BY <1>5, <1>8, <1>10, <1>11, <1>12 DEF IsEnded, IsPoked, Same

(* The end of yytext is found, and behind it the rule or the end mark. *)
Token(act, t) ==
  [type |-> IF act = 1 THEN T_NUM ELSE IF act = 2 THEN t[1] ELSE "END", text |-> t]
IsFound(F, end) ==
  /\ pc = "find" /\ IsEnded(F, m, bp, end, m') /\ client' = client /\ rest' = rest /\ by' = by
  /\ Framed(F, m) /\ Awake(F, m) /\ m.init /\ Plain(B(m).ch, bp, m.n)
  /\ bp \in Nat /\ end \in Nat /\ bp < end /\ end <= m.n + 1 /\ m.n \in Nat
  /\ \/ /\ end <= m.n /\ pc' = "idle" /\ st' = 1 /\ bp' = 0 /\ lp' = 0
        /\ owed' = [owed EXCEPT ![Cur] = Drop(@, Len([i \in 1..end - bp |-> B(m).ch[bp + i - 1]]))]
        /\ tok' = Token(yy_accept[IF yy_accept[st] = 0 THEN m.las ELSE st],
                        [i \in 1..end - bp |-> B(m).ch[bp + i - 1]])
     \/ /\ Prefix(B(m).ch, bp, end - 1) /\ B(m).ch[end - 1] = NUL
        /\ lp' = end /\ pc' = "eob" /\ st' = st /\ bp' = bp /\ owed' = owed
LEMMA Finds ==
  ASSUME IInv, FindAction
  PROVE  IsFound(client.files, IF yy_accept[st] = 0 THEN m.lac ELSE lp)
<1>1. PICK F : F = client.files
  OBVIOUS
<1>2. PICK a : a = B(m).ch
  OBVIOUS
<1>3. PICK end : end = IF yy_accept[st] = 0 THEN m.lac ELSE lp
  OBVIOUS
<1>4. PICK act : act = yy_accept[IF yy_accept[st] = 0 THEN m.las ELSE st]
  OBVIOUS
<1>5. PICK t : t = [i \in 1..end - bp |-> a[bp + i - 1]]
  OBVIOUS
<1>6. /\ pc = "find" /\ m' = Ends(m, bp, end)
      /\ \/ /\ act \in {1, 2, 3} /\ pc' = "idle" /\ st' = 1 /\ bp' = 0 /\ lp' = 0
            /\ owed' = [owed EXCEPT ![Cur] = Drop(@, Len(t))] /\ tok' = Token(act, t)
         \/ /\ act = 5 /\ lp' = end /\ pc' = "eob" /\ st' = st /\ bp' = bp /\ owed' = owed
      /\ client' = client /\ rest' = rest /\ by' = by
  <2>1. /\ pc = "find" /\ m' = Ends(m, bp, end) /\ UNCHANGED <<client, rest, by>>
        /\ \/ act = 1 /\ Return([type |-> T_NUM, text |-> t])
           \/ act = 2 /\ Return([type |-> t[1], text |-> t])
           \/ act = 3 /\ Return([type |-> "END", text |-> t])
           \/ act = 5 /\ lp' = end /\ pc' = "eob" /\ UNCHANGED <<st, bp, tok, owed>>
    BY <1>2, <1>3, <1>4, <1>5 DEF FindAction, Ends, Chars, B
  <2>2. ASSUME NEW k \in {1, 2, 3}, act = k, Return(Token(k, t))
        PROVE  /\ act \in {1, 2, 3} /\ pc' = "idle" /\ st' = 1 /\ bp' = 0 /\ lp' = 0
               /\ owed' = [owed EXCEPT ![Cur] = Drop(@, Len(t))] /\ tok' = Token(act, t)
    BY <2>2 DEF Return, Token
  <2>3. /\ Token(1, t) = [type |-> T_NUM, text |-> t] /\ Token(2, t) = [type |-> t[1], text |-> t]
        /\ Token(3, t) = [type |-> "END", text |-> t]
    BY DEF Token
  <2> QED BY <2>1, <2>2, <2>3
<1>7. /\ Framed(F, m) /\ AtFind /\ Awake(F, m) /\ m.init /\ Plain(a, bp, m.n)
      /\ bp \in Nat /\ lp \in Nat /\ st \in 1..10
  BY <1>1, <1>2, <1>6 DEF IInv, AtFind, Typed
<1>8. /\ m.n \in Nat /\ Counts(F, m) /\ YY_CURRENT_BUFFER(m) # None /\ B(m).size \in Nat
      /\ m.n <= B(m).size /\ m.lac \in Nat
  BY <1>7, Bounds DEF Counts
<1>9. \/ act \in {1, 2, 3} /\ bp < end /\ end <= m.n
      \/ /\ act = 5 /\ bp < end /\ end <= m.n + 1 /\ Prefix(a, bp, end - 1) /\ a[end - 1] = NUL
  <2>1. CASE st \in {4, 5, 6, 7, 8} /\ bp < lp /\ lp <= m.n
    BY <1>3, <1>4, <2>1, Tables
  <2>2. CASE st = 9 /\ m.las \in {4, 7, 8} /\ bp < m.lac /\ m.lac <= m.n
    BY <1>3, <1>4, <2>2, Tables
  <2>3. CASE /\ st = 9 /\ m.las = 3 /\ bp < m.lac /\ m.lac <= m.n + 1
             /\ Prefix(a, bp, m.lac - 1) /\ a[m.lac - 1] = NUL
    <3>1. end = m.lac /\ act = 5
      BY <1>3, <1>4, <2>3, Tables
    <3> QED BY <2>3, <3>1
  <2> QED BY <1>2, <1>7, <2>1, <2>2, <2>3 DEF AtFind
<1>10. end \in Nat /\ end <= m.n + 1 /\ bp < end
  BY <1>3, <1>7, <1>8, <1>9
<1>11. IsEnded(F, m, bp, end, m')
  <2>1. end \in 0..B(m).size + 1
    BY <1>8, <1>10
  <2> QED BY <1>6, <1>7, <1>8, <2>1, MarksEnd
<1>12. \/ /\ end <= m.n /\ pc' = "idle" /\ st' = 1 /\ bp' = 0 /\ lp' = 0
          /\ owed' = [owed EXCEPT ![Cur] = Drop(@, Len(t))] /\ tok' = Token(act, t)
       \/ /\ Prefix(a, bp, end - 1) /\ a[end - 1] = NUL
          /\ lp' = end /\ pc' = "eob" /\ st' = st /\ bp' = bp /\ owed' = owed
  <2>1. ~(act = 5 /\ act \in {1, 2, 3})
    OBVIOUS
  <2> QED BY <1>6, <1>9, <2>1
<1>13. IsFound(F, end)
  BY <1>2, <1>4, <1>5, <1>6, <1>7, <1>8, <1>10, <1>11, <1>12 DEF IsFound
<1> QED BY <1>1, <1>3, <1>13

LEMMA FindActionStep ==
  ASSUME IInv, FindAction
  PROVE  IInv'
<1>1. PICK F : F = client.files
  OBVIOUS
<1>2. PICK a : a = B(m).ch
  OBVIOUS
<1>3. PICK end : end = IF yy_accept[st] = 0 THEN m.lac ELSE lp
  OBVIOUS
<1>4. IsFound(F, end)
  BY <1>1, <1>3, Finds
<1>5. /\ pc = "find" /\ IsEnded(F, m, bp, end, m') /\ client' = client /\ rest' = rest /\ by' = by
      /\ Awake(F, m) /\ m.init /\ Plain(a, bp, m.n)
      /\ bp \in Nat /\ end \in Nat /\ bp < end /\ end <= m.n + 1 /\ m.n \in Nat
  BY <1>2, <1>4 DEF IsFound
<1>6. Typed
  BY DEF IInv
<1>7. /\ Framed(F, m') /\ m'.n = m.n /\ m'.text = bp /\ m'.cp = end /\ m'.init
      /\ Restored(m') = a /\ DOMAIN m'.buf = DOMAIN m.buf /\ Awake(F, m')
  BY <1>2, <1>5 DEF IsEnded, Awake, SameButText
<1>8. \A i \in 0..m.n + 1 : i >= bp => a[i] \in Char
  <2>1. \A i \in 0..m.n + 1 : i >= bp => i \in bp..m.n + 1
    BY <1>5
  <2> QED BY <1>5, <2>1 DEF Plain
<1>9. CASE /\ end <= m.n /\ pc' = "idle" /\ st' = 1 /\ bp' = 0 /\ lp' = 0 /\ DOMAIN owed' = DOMAIN owed
  <2>1. Typed'
    BY <1>5, <1>6, <1>7, <1>9 DEF Typed
  <2>2. Between(F, m')
    <3>1. m'.cp <= m'.n /\ m'.text <= m'.n
      BY <1>5, <1>7, <1>9
    <3>2. Restored(m')[m'.n] = NUL /\ Restored(m')[m'.n + 1] = NUL
      BY <1>5, <1>7 DEF Plain
    <3>3. \A i \in 0..m'.n + 1 : i >= m'.cp \/ i >= m'.text => Restored(m')[i] \in Char
      <4>1. \A i \in 0..m.n + 1 : i >= end => i >= bp
        BY <1>5
      <4> QED BY <1>7, <1>8, <4>1
    <3> QED BY <1>7, <3>1, <3>2, <3>3 DEF Between
  <2> QED BY <1>1, <1>5, <1>7, <1>9, <2>1, <2>2 DEF IInv
<1>10. CASE /\ Prefix(a, bp, end - 1) /\ a[end - 1] = NUL
            /\ lp' = end /\ pc' = "eob" /\ st' = st /\ bp' = bp /\ owed' = owed
  <2>1. Typed'
    BY <1>5, <1>6, <1>7, <1>10 DEF Typed
  <2>2. AtEob'
    BY <1>1, <1>5, <1>7, <1>10 DEF AtEob
  <2> QED BY <1>1, <1>5, <1>7, <1>10, <2>1, <2>2 DEF IInv
<1> QED BY <1>2, <1>4, <1>9, <1>10 DEF IsFound
-----------------------------------------------------------------------------
(* yy_get_previous_state. *)

(* The states the automaton goes through, from yytext to a place where yylex
   may be. *)
Chain(a, from, to, s) ==
  s = [i \in from..to |-> IF i = from THEN 1 ELSE yy_trans[<<s[i - 1], TextClass(a[i - 1])>>]]

LEMMA ChainExists ==
  ASSUME NEW a, NEW from \in Nat, NEW to \in Nat, from <= to, Prefix(a, from, to)
  PROVE  \E s : Chain(a, from, to, s)
<1>1. PICK t : t = [i \in from..to |-> IF i = from THEN 1 ELSE IF TextClass(a[from]) = 1 THEN 4
                                       ELSE IF i = from + 1 THEN 7 ELSE 8]
  OBVIOUS
<1>2. ASSUME NEW i \in from..to, i # from
      PROVE  t[i] = yy_trans[<<t[i - 1], TextClass(a[i - 1])>>]
  <2>1. i - 1 \in from..to /\ i - 1 \in from..to - 1
    BY <1>2
  <2>2. CASE to = from + 1 /\ TextClass(a[from]) = 1
    <3>1. i - 1 = from /\ t[i - 1] = 1 /\ t[i] = 4
      BY <1>1, <1>2, <2>1, <2>2
    <3>2. yy_trans[<<1, 1>>] = 4
      BY Trans DEF StateAfter
    <3> QED BY <2>2, <3>1, <3>2
  <2>3. CASE \A j \in from..to - 1 : a[j] \in Digit
    <3>1. from \in from..to - 1
      BY <1>2
    <3>2. TextClass(a[i - 1]) = 4 /\ TextClass(a[from]) = 4
      BY <2>1, <2>3, <3>1, Classes
    <3>3. /\ t[i - 1] = IF i - 1 = from THEN 1 ELSE IF i - 1 = from + 1 THEN 7 ELSE 8
          /\ t[i] = IF i = from + 1 THEN 7 ELSE 8
      BY <1>1, <1>2, <2>1, <3>2
    <3>4. yy_trans[<<1, 4>>] = 7 /\ yy_trans[<<7, 4>>] = 8 /\ yy_trans[<<8, 4>>] = 8
      BY Trans DEF StateAfter
    <3> QED BY <2>1, <3>2, <3>3, <3>4
  <2> QED BY <1>2, <2>2, <2>3 DEF Prefix
<1>3. \A i \in from..to : t[i] = IF i = from THEN 1 ELSE yy_trans[<<t[i - 1], TextClass(a[i - 1])>>]
  BY <1>1, <1>2
<1>4. PICK u : u = [i \in from..to |-> IF i = from THEN 1 ELSE yy_trans[<<t[i - 1], TextClass(a[i - 1])>>]]
  OBVIOUS
<1>5. t = u
  BY <1>1, <1>3, <1>4
<1> QED BY <1>4, <1>5 DEF Chain

LEMMA ChainRuns ==
  ASSUME NEW a, NEW from \in Nat, NEW to \in Nat, Prefix(a, from, to),
         NEW s, Chain(a, from, to, s)
  PROVE  \A i \in from..to : Run(a, from, i, s[i])
<1>1. \A i \in from..to : s[i] = IF i = from THEN 1 ELSE yy_trans[<<s[i - 1], TextClass(a[i - 1])>>]
  BY DEF Chain
<1>2. ASSUME NEW i \in from..to, i # from, Run(a, from, i - 1, s[i - 1])
      PROVE  Run(a, from, i, s[i])
  <2>1. i - 1 \in from..to /\ i - 1 \in from..to - 1 /\ i \in Nat
    BY <1>2
  <2>2. s[i] = yy_trans[<<s[i - 1], TextClass(a[i - 1])>>]
    BY <1>1, <1>2
  <2>3. CASE to = from + 1 /\ TextClass(a[from]) = 1
    <3>1. i - 1 = from /\ i = from + 1
      BY <1>2, <2>1, <2>3
    <3>2. s[from] = 1
      BY <1>1, <2>1, <3>1
    <3>3. yy_trans[<<1, 1>>] = 4
      BY Trans DEF StateAfter
    <3> QED BY <2>2, <2>3, <3>1, <3>3, <3>2 DEF Run
  <2>4. CASE \A j \in from..to - 1 : a[j] \in Digit
    <3>1. TextClass(a[i - 1]) = 4 /\ a[from] \in Digit
      BY <1>2, <2>1, <2>4, Classes
    <3>2. TextClass(a[from]) # 1
      BY <3>1, Classes
    <3>3. s[i - 1] \in {1, 7, 8}
      BY <1>2, <3>2 DEF Run
    <3>4. yy_trans[<<1, 4>>] = 7 /\ yy_trans[<<7, 4>>] = 8 /\ yy_trans[<<8, 4>>] = 8
      BY Trans DEF StateAfter
    <3>5. s[i] \in {7, 8}
      BY <2>2, <3>1, <3>3, <3>4
    <3>6. from < i /\ \A j \in from..i - 1 : a[j] \in Digit
      BY <1>2, <2>1, <2>4
    <3> QED BY <3>5, <3>6 DEF Run
  <2> QED BY <1>2, <2>3, <2>4 DEF Prefix
<1>3. SUFFICES ASSUME NEW k \in from..to, ~Run(a, from, k, s[k]) PROVE FALSE
  OBVIOUS
<1>4. PICK S : S = {i \in from..to : ~Run(a, from, i, s[i])}
  OBVIOUS
<1>5. S \subseteq Nat /\ S # {}
  BY <1>3, <1>4
<1>6. PICK i \in S : \A j \in S : i <= j
  BY <1>5, LeastNatural
<1>7. i \in from..to /\ ~Run(a, from, i, s[i])
  BY <1>4, <1>6
<1>8. CASE i = from
  <2>1. s[i] = 1
    BY <1>1, <1>7, <1>8
  <2> QED BY <1>7, <1>8, <2>1 DEF Run
<1>9. CASE i # from
  <2>1. i - 1 \in from..to /\ i - 1 < i
    BY <1>7, <1>9
  <2>2. i - 1 \notin S
    BY <1>6, <1>7, <2>1
  <2>3. Run(a, from, i - 1, s[i - 1])
    BY <1>4, <2>1, <2>2
  <2> QED BY <1>2, <1>7, <1>9, <2>3
<1> QED BY <1>8, <1>9

(* The states of a run of the automaton are among its ten. *)
LEMMA RunStates ==
  ASSUME NEW a, NEW from, NEW to, NEW s, Run(a, from, to, s)
  PROVE  s \in {1, 4, 7, 8} /\ s \in 1..10 /\ Prefix(a, from, to)
  BY DEF Run, Prefix

(* What yy_get_previous_state answers: a state of a run of the automaton, and
   the globals with another place where it could stop. *)
States(w, at) ==
  CHOOSE s : s = [i \in w.text..at |->
    IF i = w.text THEN 1 ELSE yy_trans[<<s[i - 1], TextClass(Chars(w)[i - 1])>>]]
Stops(w, at, s) == {i \in w.text..at - 1 : yy_accept[s[i]] # 0}
LastStop(w, s, stops) == IF stops = {} THEN w ELSE Accepting(s[Max(stops)], w, Max(stops))
IsRunAgain(F, w, v) ==
  /\ Framed(F, v) /\ YY_CURRENT_BUFFER(v) = YY_CURRENT_BUFFER(w) /\ B(v) = B(w)
  /\ v.buf = w.buf /\ SameStack(w, v) /\ SameCounts(w, v)
LEMMA PreviousState ==
  ASSUME NEW F, NEW w, Framed(F, w), NEW at \in Nat, w.text <= at, Prefix(B(w).ch, w.text, at)
  PROVE  /\ Run(B(w).ch, w.text, at, yy_get_previous_state(w, at).st)
         /\ IsRunAgain(F, w, yy_get_previous_state(w, at).w)
<1>1. PICK a : a = B(w).ch
  OBVIOUS
<1>2. PICK from : from = w.text
  OBVIOUS
<1>3. from \in Nat /\ from <= at /\ Prefix(a, from, at)
  BY <1>1, <1>2 DEF Framed, Globals, Counts
<1>4. PICK s : s = States(w, at)
  OBVIOUS
<1>5. Chain(a, from, at, s)
  <2>1. \E t : t = [i \in w.text..at |->
          IF i = w.text THEN 1 ELSE yy_trans[<<t[i - 1], TextClass(Chars(w)[i - 1])>>]]
    <3>1. \E t : Chain(a, from, at, t)
      BY <1>3, ChainExists
    <3> QED BY <1>1, <1>2, <3>1 DEF Chain, Chars, B
  <2>2. s = [i \in w.text..at |->
          IF i = w.text THEN 1 ELSE yy_trans[<<s[i - 1], TextClass(Chars(w)[i - 1])>>]]
    BY <1>4, <2>1 DEF States
  <2> QED BY <1>1, <1>2, <2>2 DEF Chain, Chars, B
<1>6. \A i \in from..at : Run(a, from, i, s[i])
  BY <1>3, <1>5, ChainRuns
<1>7. PICK S : S = Stops(w, at, s)
  OBVIOUS
<1>8. PICK v : v = LastStop(w, s, S)
  OBVIOUS
<1>9. yy_get_previous_state(w, at) = [st |-> s[at], w |-> v]
  <2>1. yy_get_previous_state(w, at)
          = [st |-> States(w, at)[at],
             w |-> LastStop(w, States(w, at), Stops(w, at, States(w, at)))]
    BY Zenon DEF yy_get_previous_state, States, Stops, LastStop
  <2> QED BY <1>4, <1>7, <1>8, <2>1
<1>10. Run(a, from, at, s[at])
  BY <1>3, <1>6
<1>11. IsRunAgain(F, w, v)
  <2>1. CASE S = {}
    <3>1. v = w
      BY <1>8, <2>1 DEF LastStop
    <3> QED BY <3>1 DEF IsRunAgain, SameStack, SameCounts
  <2>2. CASE S # {}
    <3>1. PICK x : x = Max(S)
      OBVIOUS
    <3>2. S \subseteq Int /\ (\A y \in S : y <= at) /\ at \in Int
      BY <1>3, <1>2, <1>7 DEF Stops
    <3>3. \E z \in S : \A y \in S : z >= y
      BY <2>2, <3>2, SomeGreatest
    <3>4. x \in S
      BY <3>1, <3>3 DEF Max
    <3>5. x \in from..at
      BY <1>2, <1>3, <1>7, <3>4 DEF Stops
    <3>6. s[x] \in 1..10 /\ x \in Nat
      BY <1>3, <1>6, <3>5, RunStates
    <3>7. v = Accepting(s[x], w, x)
      BY <1>8, <2>2, <3>1 DEF LastStop
    <3>8. IsAccepted(F, w, s[x], x, v)
      BY <3>6, <3>7, Accepts
    <3> QED BY <3>8 DEF IsAccepted, IsRunAgain
  <2> QED BY <2>1, <2>2
<1> QED BY <1>1, <1>2, <1>9, <1>10, <1>11

(* Going on at a place: the scan takes up a run of the automaton there. *)
IsScanned(F, w, at, v, s) ==
  /\ Framed(F, v) /\ B(v) = B(w) /\ v.buf = w.buf /\ v.text = w.text
  /\ YY_CURRENT_BUFFER(v) = YY_CURRENT_BUFFER(w)
  /\ v.n = w.n /\ v.cp = at /\ v.init = w.init /\ v.in = w.in
  /\ s \in {1, 4, 7, 8} /\ Run(B(w).ch, w.text, at, s) /\ SameStack(w, v)
LEMMA Scanned ==
  ASSUME NEW F, NEW w, Framed(F, w), NEW at \in Nat, w.text <= at, Prefix(B(w).ch, w.text, at),
         NEW next, ScanOn(w, at, next)
  PROVE  /\ IsScanned(F, w, at, m', st')
         /\ lp' = at /\ bp' = w.text /\ pc' = next /\ tok' = tok /\ owed' = owed
<1>1. PICK p : p = yy_get_previous_state(w, at)
  OBVIOUS
<1>2. /\ m' = [p.w EXCEPT !.cp = at] /\ st' = p.st /\ lp' = at /\ bp' = w.text /\ pc' = next
      /\ tok' = tok /\ owed' = owed
  BY <1>1 DEF ScanOn
<1>3. Run(B(w).ch, w.text, at, p.st) /\ IsRunAgain(F, w, p.w)
  BY <1>1, PreviousState
<1>4. PICK x : x = p.w
  OBVIOUS
<1>5. Framed(F, x) /\ Record(x) /\ Counts(F, x)
  BY <1>3, <1>4 DEF IsRunAgain, Framed, Globals
<1>6. m' = [x EXCEPT !.cp = at]
  BY <1>2, <1>4
<1>7. /\ m'.buf = x.buf /\ SameStack(x, m') /\ m'.n = x.n /\ m'.text = x.text /\ m'.leng = x.leng
      /\ m'.hold = x.hold /\ m'.cp = at /\ m'.init = x.init /\ m'.in = x.in /\ m'.las = x.las
      /\ m'.lac = x.lac /\ Record(m')
  BY <1>5, <1>6 DEF Record, SameStack
<1>8. Counts(F, m')
  BY <1>5, <1>7 DEF Counts
<1>9. Framed(F, m') /\ YY_CURRENT_BUFFER(m') = YY_CURRENT_BUFFER(x) /\ B(m') = B(x)
  BY <1>5, <1>7, <1>8, Recounted
<1>10. st' \in {1, 4, 7, 8}
  BY <1>2, <1>3, RunStates
<1> QED BY <1>2, <1>3, <1>4, <1>7, <1>9, <1>10 DEF IsScanned, IsRunAgain, SameCounts, SameStack
-----------------------------------------------------------------------------
(* The end-of-buffer mark. *)

(* yytext undone. *)
IsUndone(F, w, u) ==
  /\ Framed(F, u) /\ YY_CURRENT_BUFFER(u) = YY_CURRENT_BUFFER(w) /\ Same(w, u)
  /\ DOMAIN u.buf = DOMAIN w.buf /\ B(u).ch = Restored(w) /\ B(u).size = B(w).size
  /\ B(u).fill = B(w).fill /\ B(u).status # "new" /\ Beside(w, u)
  /\ B(u).status = IF B(w).status = "new" THEN "normal" ELSE B(w).status
LEMMA UndoesYytext ==
  ASSUME IInv, pc = "eob"
  PROVE  IsUndone(client.files, m, Undone)
<1>1. PICK F : F = client.files
  OBVIOUS
<1>2. PICK u : u = Undone
  OBVIOUS
<1> SUFFICES IsUndone(F, m, u)
  BY <1>1, <1>2
<1>3. PICK w : w = Poke(m, m.cp, m.hold)
  OBVIOUS
<1>4. PICK c : c = Cur
  OBVIOUS
<1>5. /\ Framed(F, m) /\ AtEob /\ Awake(F, m) /\ lp = m.cp /\ m.cp <= m.n + 1
  BY <1>1 DEF IInv, AtEob
<1>6. /\ m.n \in Nat /\ m.cp \in Nat /\ Counts(F, m) /\ YY_CURRENT_BUFFER(m) # None
      /\ B(m).size \in Nat /\ m.n <= B(m).size
  BY <1>5, Bounds
<1>7. IsPoked(F, m, m.cp, m.hold, w)
  <2>1. m.cp \in 0..B(m).size + 1 /\ m.hold \in Slot
    BY <1>5, <1>6 DEF Counts
  <2> QED BY <1>3, <1>5, <1>6, <2>1, Poked
<1>8. /\ Framed(F, w) /\ YY_CURRENT_BUFFER(w) = c /\ Same(m, w) /\ B(w).ch = Restored(m)
      /\ SameButText(B(m), B(w)) /\ w.buf[c] = B(w) /\ DOMAIN w.buf = DOMAIN m.buf /\ c # None
  BY <1>4, <1>6, <1>7 DEF IsPoked, Restored, Cur, B
<1>9. u = IF w.buf[c].status # "new" THEN w
          ELSE [w EXCEPT !.n = w.buf[c].n, !.buf[c].file = w.in, !.buf[c].status = "normal"]
  BY <1>2, <1>3, <1>4, <1>5 DEF Undone
<1>10. CASE B(w).status # "new"
  <2>1. u = w
    BY <1>8, <1>9, <1>10
  <2> QED BY <1>4, <1>7, <1>8, <1>10, <2>1 DEF IsUndone, IsPoked, SameButText, Cur
<1>11. CASE B(w).status = "new"
  <2>1. B(w).n = w.n
    BY <1>5, <1>8, <1>11 DEF Awake, SameButText, Same
  <2>2. Globals(F, w) /\ Record(w) /\ Counts(F, w) /\ Whole(F, B(w)) /\ c \in DOMAIN w.buf
    BY <1>8, CurrentHeld DEF Framed, Globals
  <2>3. PICK z : z = [w EXCEPT !.n = w.buf[c].n]
    OBVIOUS
  <2>4. z = w
    BY <1>8, <2>1, <2>2, <2>3 DEF Record
  <2>5. PICK q : q = [B(w) EXCEPT !.file = w.in]
    OBVIOUS
  <2>6. PICK r : r = [q EXCEPT !.status = "normal"]
    OBVIOUS
  <2>7. PICK y : y = Puts(w, c, q)
    OBVIOUS
  <2>8. u = Puts(w, c, r)
    <3>1. y.buf[c] = q
      BY <2>2, <2>7 DEF Puts, Record
    <3>2. u = [z EXCEPT !.buf[c].file = w.in, !.buf[c].status = "normal"]
      BY <1>8, <1>9, <1>11, <2>3
    <3>3. u = [w EXCEPT !.buf[c].file = w.in, !.buf[c].status = "normal"]
      BY <2>4, <3>2
    <3>4. y = [w EXCEPT !.buf[c].file = w.in]
      BY <1>8, <2>5, <2>7 DEF Puts
    <3>5. u = [y EXCEPT !.buf[c].status = "normal"]
      BY <3>3, <3>4
    <3>6. u = Puts(y, c, r)
      BY <2>6, <3>1, <3>5 DEF Puts
    <3> QED BY <2>2, <2>7, <3>6, PutsTwice
  <2>9. /\ r.file = w.in /\ r.ch = B(w).ch /\ r.pos = B(w).pos /\ r.size = B(w).size /\ r.n = B(w).n
        /\ r.ours = B(w).ours /\ r.fill = B(w).fill /\ r.status = "normal" /\ Shaped(r)
    BY <2>2, <2>5, <2>6 DEF Whole, Shaped
  <2>10. B(w).fill => w.in \in F
    BY <1>5, <1>8 DEF Awake, SameButText, Same
  <2>11. Whole(F, r)
    BY <2>2, <2>9, <2>10 DEF Whole, Counts
  <2>12. IsSet(F, w, c, r, u)
    BY <1>8, <2>2, <2>8, <2>11, BufferSet
  <2>13. YY_CURRENT_BUFFER(u) = c /\ B(u) = r
    BY <1>8, <2>12, CurrentKept DEF IsSet, B
  <2>14. Beside(w, u)
    BY <1>8, <2>12, BesideSame DEF IsSet
  <2>15. Beside(m, u)
    BY <1>7, <2>14, BesideToo DEF IsPoked
  <2> QED BY <1>4, <1>8, <1>11, <2>9, <2>12, <2>13, <2>15 DEF IsUndone, IsSet, SameButText, Same, Cur
<1> QED BY <1>10, <1>11

(* A NUL of the text behind a place in a token. *)
BeforeNul(u, at) ==
  [Accepting(yy_get_previous_state(u, at).st, yy_get_previous_state(u, at).w, at) EXCEPT !.cp = at]
IsNulled ==
  /\ pc = "eob" /\ pc' \in {"match", "find"} /\ bp' = bp /\ rest' = rest /\ owed' = owed
  /\ Beside(m, m') /\ m.init /\ m'.init /\ m'.in = m.in /\ m'.n = m.n /\ B(m').ch = Restored(m)
  /\ B(m').fill = B(m).fill /\ (B(m').status = "pending" => B(m).status = "pending")
  /\ pc' = "find" => /\ lp' \in Nat /\ lp' < m.n /\ Restored(m)[lp'] = NUL
                     /\ st' \in {4, 7, 8} /\ Run(Restored(m), bp, lp', st')
LEMMA RealNulStep ==
  ASSUME IInv, RealNul
  PROVE  IInv' /\ IsNulled
<1>1. PICK F : F = client.files
  OBVIOUS
<1>2. PICK u : u = Undone
  OBVIOUS
<1>3. PICK at : at = lp - 1
  OBVIOUS
<1>4. PICK p : p = yy_get_previous_state(u, at)
  OBVIOUS
<1>5. PICK x : x = Accepting(p.st, p.w, at)
  OBVIOUS
<1>6. PICK w : w = [x EXCEPT !.cp = at]
  OBVIOUS
<1>7. PICK next : next = yy_trans[<<p.st, 1>>]
  OBVIOUS
<1>8. /\ pc = "eob" /\ u.cp <= u.n
      /\ \/ /\ next # 9 /\ m' = [w EXCEPT !.cp = at + 1] /\ st' = next /\ lp' = at + 1 /\ pc' = "match"
         \/ /\ next = 9 /\ m' = w /\ st' = p.st /\ lp' = at /\ pc' = "find"
      /\ bp' = m.text /\ client' = client /\ rest' = rest /\ by' = by /\ owed' = owed
  <2>1. /\ pc = "eob" /\ u.cp <= u.n
        /\ IF yy_trans[<<yy_get_previous_state(u, at).st, 1>>] # JamState
           THEN /\ m' = [BeforeNul(u, at) EXCEPT !.cp = at + 1]
                /\ st' = yy_trans[<<yy_get_previous_state(u, at).st, 1>>] /\ lp' = at + 1 /\ pc' = "match"
           ELSE m' = BeforeNul(u, at) /\ st' = yy_get_previous_state(u, at).st /\ lp' = at /\ pc' = "find"
        /\ bp' = m.text /\ client' = client /\ rest' = rest /\ by' = by /\ owed' = owed
    <3>1. /\ pc = "eob" /\ IsNul(Undone)
          /\ IF yy_trans[<<yy_get_previous_state(Undone, lp - 1).st, 1>>] # JamState
             THEN /\ m' = [BeforeNul(Undone, lp - 1) EXCEPT !.cp = lp - 1 + 1]
                  /\ st' = yy_trans[<<yy_get_previous_state(Undone, lp - 1).st, 1>>]
                  /\ lp' = lp - 1 + 1 /\ pc' = "match"
             ELSE /\ m' = BeforeNul(Undone, lp - 1) /\ st' = yy_get_previous_state(Undone, lp - 1).st
                  /\ lp' = lp - 1 /\ pc' = "find"
          /\ bp' = m.text /\ UNCHANGED <<client, rest, by, tok, owed>>
      BY Zenon DEF RealNul, BeforeNul
    <3> QED BY <1>2, <1>3, <3>1 DEF IsNul
  <2>2. BeforeNul(u, at) = w
    BY <1>4, <1>5, <1>6 DEF BeforeNul
  <2> QED BY <1>4, <1>7, <2>1, <2>2 DEF JamState
<1>9. /\ Typed /\ Framed(F, m) /\ AtEob /\ Awake(F, m) /\ m.init /\ m.text = bp /\ m.cp = lp
      /\ bp < lp /\ lp <= m.n + 1 /\ Plain(Restored(m), bp, m.n) /\ Prefix(Restored(m), bp, lp - 1)
      /\ Restored(m)[lp - 1] = NUL /\ bp \in Nat /\ lp \in Nat
  BY <1>1, <1>8 DEF IInv, AtEob, Typed
<1>10. IsUndone(F, m, u)
  BY <1>1, <1>2, <1>8, UndoesYytext
<1>11. PICK a : a = Restored(m)
  OBVIOUS
<1>12. /\ Framed(F, u) /\ B(u).ch = a /\ u.n = m.n /\ u.cp = lp /\ u.text = bp /\ u.init
       /\ u.in = m.in /\ YY_CURRENT_BUFFER(u) # None /\ DOMAIN u.buf = DOMAIN m.buf
       /\ Awake(F, u) /\ m.n \in Nat
  BY <1>9, <1>10, <1>11, Bounds DEF IsUndone, Same, Awake
<1>13. at \in Nat /\ bp <= at /\ at + 1 = lp /\ lp <= m.n
  BY <1>3, <1>8, <1>9, <1>12
<1>14. Run(a, bp, at, p.st) /\ IsRunAgain(F, u, p.w)
  <2>1. u.text <= at /\ Prefix(B(u).ch, u.text, at)
    BY <1>3, <1>9, <1>11, <1>12, <1>13
  <2> QED BY <1>4, <1>12, <1>13, <2>1, PreviousState
<1>15. p.st \in {1, 4, 7, 8} /\ p.st \in 1..10
  BY <1>14, RunStates
<1>16. IsAccepted(F, p.w, p.st, at, x)
  <2>1. Framed(F, p.w)
    BY <1>14 DEF IsRunAgain
  <2> QED BY <1>5, <1>13, <1>15, <2>1, Accepts
<1>17. /\ Framed(F, x) /\ YY_CURRENT_BUFFER(x) = YY_CURRENT_BUFFER(u) /\ B(x) = B(u) /\ x.buf = u.buf
       /\ x.n = u.n /\ x.text = bp /\ x.init = u.init /\ x.in = u.in /\ Record(x) /\ Counts(F, x)
       /\ SameStack(u, x)
  BY <1>12, <1>14, <1>16 DEF IsAccepted, IsRunAgain, SameCounts, SameStack, Framed, Globals
<1>18. ASSUME NEW k \in Nat, m' = [x EXCEPT !.cp = k]
       PROVE  /\ Framed(F, m') /\ B(m').ch = a /\ m'.n = m.n /\ m'.cp = k
              /\ Awake(F, m') /\ m'.init /\ DOMAIN m'.buf = DOMAIN m.buf
              /\ Beside(m, m') /\ m'.in = m.in /\ B(m').fill = B(m).fill
              /\ (B(m').status = "pending" => B(m).status = "pending")
  <2>1. /\ m'.buf = x.buf /\ SameStack(x, m') /\ m'.n = x.n /\ m'.text = x.text /\ m'.leng = x.leng
        /\ m'.hold = x.hold /\ m'.cp = k /\ m'.init = x.init /\ m'.in = x.in /\ m'.las = x.las
        /\ m'.lac = x.lac /\ Record(m')
    BY <1>17, <1>18 DEF Record, SameStack
  <2>2. Counts(F, m')
    BY <1>17, <1>18, <2>1 DEF Counts
  <2>3. Framed(F, m') /\ YY_CURRENT_BUFFER(m') = YY_CURRENT_BUFFER(x) /\ B(m') = B(x)
    BY <1>17, <2>1, <2>2, Recounted
  <2>4. Beside(u, m')
    BY <1>17, <2>1, BesideSame DEF SameStack
  <2>5. Beside(m, m')
    BY <1>10, <2>4, BesideToo DEF IsUndone
  <2>6. B(m').fill = B(m).fill /\ (B(m').status = "pending" => B(m).status = "pending")
    BY <1>10, <1>17, <2>3 DEF IsUndone
  <2> QED BY <1>12, <1>17, <2>1, <2>3, <2>5, <2>6 DEF Awake
<1>19. (p.st = 1 => next = 4) /\ (p.st # 1 => next = 9)
  <2>1. PICK s \in 1..10 : s = p.st
    BY <1>15
  <2>2. next = StateAfter(s, 1)
    <3>1. PICK c \in 0..4 : c = 1
      OBVIOUS
    <3>2. yy_trans[<<s, c>>] = StateAfter(s, c)
      BY Trans
    <3> QED BY <1>7, <2>1, <3>1, <3>2
  <2> QED BY <1>15, <2>1, <2>2 DEF StateAfter
<1>20. CASE next # 9 /\ m' = [w EXCEPT !.cp = at + 1] /\ st' = next /\ lp' = at + 1 /\ pc' = "match"
  <2>1. m' = [x EXCEPT !.cp = lp]
    <3>1. m' = [[x EXCEPT !.cp = at] EXCEPT !.cp = lp]
      BY <1>6, <1>13, <1>20
    <3> QED BY <1>17, <3>1 DEF Record
  <2>2. p.st = 1 /\ next = 4
    BY <1>15, <1>19, <1>20
  <2>3. at = bp
    BY <1>14, <2>2 DEF Run
  <2>4. Run(a, bp, lp, 4)
    BY <1>3, <1>9, <1>11, <1>13, <2>3, Classes DEF Run
  <2>5. Framed(F, m') /\ B(m').ch = a /\ m'.n = m.n /\ m'.cp = lp /\ Awake(F, m') /\ m'.init
        /\ DOMAIN m'.buf = DOMAIN m.buf
    BY <1>9, <1>18, <2>1
  <2>6. IsNulled
    BY <1>8, <1>9, <1>11, <1>18, <1>20, <2>1 DEF IsNulled
  <2>7. AtMatch'
    BY <1>1, <1>8, <1>9, <1>11, <1>13, <1>20, <2>2, <2>4, <2>5 DEF AtMatch
  <2>8. Typed'
    BY <1>8, <1>9, <1>13, <1>20, <2>2, <2>5 DEF Typed
  <2> QED BY <1>1, <1>8, <1>20, <2>5, <2>7, <2>8, <2>6 DEF IInv
<1>21. CASE next = 9 /\ m' = w /\ st' = p.st /\ lp' = at /\ pc' = "find"
  <2>1. m' = [x EXCEPT !.cp = at]
    BY <1>6, <1>21
  <2>2. p.st \in {4, 7, 8}
    BY <1>15, <1>19, <1>21
  <2>3. bp < at
    BY <1>9, <1>13, <1>14, <2>2 DEF Run
  <2>4. Framed(F, m') /\ B(m').ch = a /\ m'.n = m.n /\ m'.cp = at /\ Awake(F, m') /\ m'.init
        /\ DOMAIN m'.buf = DOMAIN m.buf
    BY <1>13, <1>18, <2>1
  <2>5. IsNulled
    <3>1. at < m.n /\ a[at] = NUL
      BY <1>3, <1>9, <1>11, <1>12, <1>13
    <3> QED BY <1>8, <1>9, <1>11, <1>13, <1>14, <1>18, <1>21, <2>1, <2>2, <3>1 DEF IsNulled
  <2>6. at <= m.n
    BY <1>9, <1>12, <1>13
  <2>7. AtFind'
    BY <1>1, <1>8, <1>9, <1>11, <1>21, <2>2, <2>3, <2>4, <2>6 DEF AtFind
  <2>8. Typed'
    BY <1>8, <1>9, <1>13, <1>15, <1>21, <2>4 DEF Typed
  <2> QED BY <1>1, <1>8, <1>21, <2>4, <2>7, <2>8, <2>5 DEF IInv
<1> QED BY <1>8, <1>20, <1>21

(* yylex goes on at a place in the text. *)
LEMMA TakesUp ==
  ASSUME NEW F, NEW w, Framed(F, w), Awake(F, w), w.init, NEW at \in Nat, w.text <= at, at <= w.n,
         Plain(B(w).ch, w.text, w.n), Prefix(B(w).ch, w.text, at),
         NEW next \in {"match", "find"}, next = "find" => w.text < at,
         ScanOn(w, at, next), F = client.files, UNCHANGED client
  PROVE  /\ pc' = next /\ owed' = owed /\ DOMAIN m'.buf = DOMAIN w.buf
         /\ Framed(client.files, m)' /\ (next = "match" => AtMatch') /\ (next = "find" => AtFind')
         /\ st' \in 1..10 /\ lp' \in Nat /\ bp' \in Nat
         /\ IsScanned(F, w, at, m', st') /\ bp' = w.text /\ lp' = at
<1>1. /\ IsScanned(F, w, at, m', st') /\ lp' = at /\ bp' = w.text /\ pc' = next /\ owed' = owed
  BY Scanned
<1>2. w.text \in Nat /\ w.n \in Nat
  BY Bounds
<1>3. /\ Framed(F, m') /\ B(m') = B(w) /\ m'.n = w.n /\ m'.cp = at /\ m'.init /\ m'.in = w.in
      /\ Awake(F, m') /\ DOMAIN m'.buf = DOMAIN w.buf
      /\ st' \in {1, 4, 7, 8} /\ Run(B(m').ch, w.text, at, st')
  BY <1>1 DEF IsScanned, Awake
<1>4. next = "match" => AtMatch'
  BY <1>1, <1>3 DEF AtMatch
<1>5. ASSUME next = "find" PROVE AtFind'
  <2>1. st' \in {4, 7, 8}
    <3>1. st' # 1
      BY <1>2, <1>3, <1>5 DEF Run
    <3> QED BY <1>3, <3>1
  <2> QED BY <1>1, <1>3, <1>5, <2>1 DEF AtFind
<1> QED BY <1>1, <1>2, <1>3, <1>4, <1>5

(* A call comes back. *)
LEMMA RestsAgain ==
  ASSUME IInv, UNCHANGED client, by' \in {"yylex", "input"}, pc' = "idle", st' = 1,
         bp' = 0, lp' = 0, Framed(client.files, m'), Between(client.files, m'),
         rest' \in [client.files -> Seq(Char)], DOMAIN owed' = DOMAIN owed,
         DOMAIN m'.buf = DOMAIN m.buf
  PROVE  IInv'
<1>1. Typed'
  BY DEF IInv, Typed
<1> QED BY <1>1 DEF IInv

(* A new text in the current buffer. *)
Texted(w, b) == [w EXCEPT !.buf[YY_CURRENT_BUFFER(w)].ch = b]
IsTexted(F, w, b, v) ==
  /\ Framed(F, v) /\ YY_CURRENT_BUFFER(v) = YY_CURRENT_BUFFER(w) /\ Same(w, v)
  /\ SameStack(w, v) /\ DOMAIN v.buf = DOMAIN w.buf /\ B(v).ch = b /\ SameButText(B(w), B(v))
  /\ Beside(w, v)
LEMMA TextSet ==
  ASSUME NEW F, NEW w, Framed(F, w), YY_CURRENT_BUFFER(w) # None,
         NEW b \in [0..B(w).size + 1 -> Slot]
  PROVE  IsTexted(F, w, b, Texted(w, b))
<1>0. PICK v : v = Texted(w, b)
  OBVIOUS
<1>1. PICK c : c = YY_CURRENT_BUFFER(w)
  OBVIOUS
<1>2. PICK r : r = [B(w) EXCEPT !.ch = b]
  OBVIOUS
<1>3. Globals(F, w) /\ Whole(F, B(w)) /\ c \in DOMAIN w.buf
  BY <1>1, CurrentHeld DEF Framed
<1>4. Whole(F, r) /\ r.ch = b /\ SameButText(B(w), r)
  BY <1>2, <1>3 DEF Whole, Shaped, SameButText
<1>5. v = Puts(w, c, r)
  BY <1>0, <1>1, <1>2 DEF Texted, Puts, B
<1>6. IsSet(F, w, c, r, v)
  BY <1>1, <1>3, <1>4, <1>5, BufferSet
<1>7. YY_CURRENT_BUFFER(v) = c /\ B(v) = r
  BY <1>1, <1>6, CurrentKept DEF IsSet, B
<1>8. Beside(w, v)
  BY <1>1, <1>6, BesideSame DEF IsSet
<1> QED BY <1>0, <1>1, <1>4, <1>6, <1>7, <1>8 DEF IsTexted, IsSet

(* The text kept for a second read moves to the front. *)
ToFront(a, from, k) == [i \in DOMAIN a |-> IF i < k THEN a[from + i] ELSE a[i]]
MovedUp(w, v) ==
  /\ Beside(w, v) /\ v.n = w.n /\ v.in = w.in /\ v.init
  /\ B(v).fill = B(w).fill /\ B(v).status = B(w).status
  /\ v.cp - v.text - 1 = w.n - w.text
  /\ \A i \in 0..w.n - w.text - 1 : B(v).ch[i] = B(w).ch[w.text + i]
LEMMA MovesText ==
  ASSUME NEW F, NEW w, Framed(F, w), Awake(F, w), w.init, B(w).fill,
         w.text <= w.n, w.cp = w.n + 1, Plain(B(w).ch, w.text, w.n),
         B(w).status = "new" => w.cp = w.text + 1,
         by' = "yylex" => Prefix(B(w).ch, w.text, w.n),
         m' = Texted(w, ToFront(B(w).ch, w.text, w.cp - w.text - 1)),
         F = client.files, UNCHANGED client
  PROVE  Framed(client.files, m)' /\ AtRefill' /\ DOMAIN m'.buf = DOMAIN w.buf /\ MovedUp(w, m')
<1>1. /\ YY_CURRENT_BUFFER(w) # None /\ w.n \in Nat /\ w.text \in Nat /\ B(w).size \in Nat
      /\ w.n <= B(w).size /\ B(w).ch \in [0..B(w).size + 1 -> Slot]
  BY Bounds
<1>2. PICK k : k = w.n - w.text
  OBVIOUS
<1>3. PICK a : a = B(w).ch
  OBVIOUS
<1>4. PICK b : b = ToFront(a, w.text, k)
  OBVIOUS
<1>5. k \in Nat /\ w.cp - w.text - 1 = k
  BY <1>1, <1>2
<1>6. b \in [0..B(w).size + 1 -> Slot] /\ \A i \in 0..k - 1 : b[i] = a[w.text + i]
  <2>1. \A i \in 0..B(w).size + 1 : i < k => w.text + i \in 0..B(w).size + 1
    BY <1>1, <1>2, <1>5
  <2>2. \A i \in 0..k - 1 : i \in 0..B(w).size + 1 /\ i < k
    BY <1>1, <1>2, <1>5
  <2> QED BY <1>1, <1>3, <1>4, <2>1, <2>2 DEF ToFront
<1>7. m' = Texted(w, b)
  BY <1>3, <1>4, <1>5
<1>8. IsTexted(F, w, b, m')
  BY <1>1, <1>6, <1>7, TextSet
<1>9. /\ Framed(F, m') /\ m'.n = w.n /\ m'.cp = w.n + 1 /\ m'.text = w.text /\ m'.init
      /\ B(m').ch = b /\ B(m').fill /\ Awake(F, m') /\ B(m').status = B(w).status
      /\ DOMAIN m'.buf = DOMAIN w.buf /\ Beside(w, m') /\ m'.in = w.in
  BY <1>8 DEF IsTexted, Same, SameButText, Awake
<1>10. m'.text < m'.cp /\ m'.cp <= m'.n + 1 /\ m'.cp - m'.text - 2 = k - 1
       /\ m'.cp - m'.text - 1 = k
  BY <1>1, <1>2, <1>9
<1>11. \A i \in 0..k - 1 : b[i] \in Char
  <2>1. \A i \in 0..k - 1 : w.text + i \in w.text..w.n + 1
    BY <1>1, <1>2
  <2> QED BY <1>3, <1>6, <2>1 DEF Plain
<1>12. ASSUME by' = "yylex" PROVE Prefix(b, 0, k)
  <2>1. Prefix(a, w.text, w.n)
    BY <1>3, <1>12
  <2>2. CASE w.n = w.text
    BY <1>1, <1>2, <2>2 DEF Prefix
  <2>3. CASE w.text < w.n /\ \A i \in w.text..w.n - 1 : a[i] \in Digit
    <3>1. \A i \in 0..k - 1 : w.text + i \in w.text..w.n - 1
      BY <1>1, <1>2
    <3>2. 0 < k
      BY <1>1, <1>2, <2>3
    <3> QED BY <1>6, <2>3, <3>1, <3>2 DEF Prefix
  <2>4. CASE w.n = w.text + 1 /\ TextClass(a[w.text]) = 1
    <3>1. k = 1 /\ 0 \in 0..k - 1
      BY <1>1, <1>2, <2>4
    <3>2. PICK i \in 0..k - 1 : i = 0
      BY <3>1
    <3>3. b[i] = a[w.text + i]
      BY <1>6
    <3>4. w.text + i = w.text
      BY <1>1, <3>2
    <3>5. b[0] = a[w.text]
      BY <3>2, <3>3, <3>4
    <3> QED BY <2>4, <3>1, <3>5 DEF Prefix
  <2> QED BY <2>1, <2>2, <2>3, <2>4 DEF Prefix
<1>13. AtRefill'
  BY <1>9, <1>10, <1>11, <1>12 DEF AtRefill
<1>14. MovedUp(w, m')
  <2>1. \A i \in 0..w.n - w.text - 1 : b[i] = a[w.text + i]
    BY <1>2, <1>6
  <2>2. m'.cp - m'.text - 1 = w.n - w.text
    BY <1>2, <1>10
  <2> QED BY <1>3, <1>9, <2>1, <2>2 DEF MovedUp
<1> QED BY <1>9, <1>13, <1>14

(* The text is to be refilled, or is over, or ends with a token. *)
IsBufferEnd ==
  /\ pc = "eob" /\ by' = "yylex" /\ rest' = rest /\ bp \in Nat /\ m.n \in Nat /\ bp <= m.n
  /\ Awake(client.files, m) /\ m.init /\ Plain(Restored(m), bp, m.n)
  /\ Beside(m, m') /\ m'.init /\ m'.in = m.in /\ m'.n = m.n
  /\ B(m').fill = B(m).fill /\ (B(m').status = "pending" => B(m).status = "pending")
  /\ \/ /\ pc' = "refill" /\ owed' = owed /\ Kept' = m.n - bp
        /\ \A i \in 0..m.n - bp - 1 : B(m').ch[i] = Restored(m)[bp + i]
     \/ /\ pc' = "idle" /\ bp = m.n /\ m'.cp = m.n /\ ~B(m).fill /\ tok' = EndToken
        /\ owed' = [owed EXCEPT ![Cur] = Drop(@, Len(EndToken.text))]
     \/ /\ pc' = "find" /\ bp' = bp /\ owed' = owed /\ B(m').ch = Restored(m) /\ ~B(m).fill
        /\ lp' = m.n /\ bp < m.n /\ st' \in {1, 4, 7, 8} /\ Run(Restored(m), bp, m.n, st')
LEMMA EndOfBufferStep ==
  ASSUME IInv, EndOfBuffer
  PROVE  IInv' /\ IsBufferEnd
<1>1. PICK F : F = client.files
  OBVIOUS
<1>2. PICK u : u = Undone
  OBVIOUS
<1>3. PICK k : k = u.cp - u.text - 1
  OBVIOUS
<1>4. PICK a : a = Restored(m)
  OBVIOUS
<1>5. /\ pc = "eob" /\ ~(u.cp <= u.n) /\ yy_get_next_buffer("yylex", u)
      /\ client' = client /\ rest' = rest
  BY <1>2 DEF EndOfBuffer, IsNul
<1>6. /\ by' = "yylex"
      /\ IF u.cp > u.n + 1 THEN pc' = "fatal" /\ m' = u /\ UNCHANGED <<st, bp, lp, tok, owed>>
         ELSE IF ~u.buf[Cur].fill THEN Resume("yylex", u, IF k = 0 THEN "eof" ELSE "last", k)
         ELSE /\ m' = [u EXCEPT !.buf[Cur].ch = ToFront(u.buf[Cur].ch, u.text, k)]
              /\ pc' = "refill" /\ UNCHANGED <<st, bp, lp, tok, owed>>
  <2>1. /\ by' = "yylex"
        /\ IF u.cp > u.n + 1 THEN pc' = "fatal" /\ m' = u /\ UNCHANGED <<st, bp, lp, tok, owed>>
           ELSE IF ~u.buf[Cur].fill
             THEN Resume("yylex", u, IF u.cp - u.text - 1 = 0 THEN "eof" ELSE "last", u.cp - u.text - 1)
           ELSE /\ m' = [u EXCEPT !.buf[Cur].ch = ToFront(@, u.text, u.cp - u.text - 1)]
                /\ pc' = "refill" /\ UNCHANGED <<st, bp, lp, tok, owed>>
    BY <1>5, Zenon DEF yy_get_next_buffer, ToFront
  <2> QED BY <1>3, <2>1
<1>7. /\ Typed /\ Framed(F, m) /\ AtEob /\ Awake(F, m) /\ m.init /\ m.text = bp /\ m.cp = lp
      /\ bp < lp /\ lp <= m.n + 1 /\ Plain(a, bp, m.n) /\ Prefix(a, bp, lp - 1)
      /\ bp \in Nat /\ lp \in Nat
  BY <1>1, <1>4, <1>5 DEF IInv, AtEob, Typed
<1>8. IsUndone(F, m, u)
  BY <1>1, <1>2, <1>5, UndoesYytext
<1>9. /\ Framed(F, u) /\ B(u).ch = a /\ u.n = m.n /\ u.cp = lp /\ u.text = bp /\ u.init
      /\ u.in = m.in /\ YY_CURRENT_BUFFER(u) = Cur /\ DOMAIN u.buf = DOMAIN m.buf
      /\ Awake(F, u) /\ u.hold = m.hold /\ B(u).status # "new" /\ u.buf[Cur] = B(u)
  BY <1>4, <1>7, <1>8 DEF IsUndone, Same, Awake, Cur, B
<1>10. /\ YY_CURRENT_BUFFER(m) # None /\ m.n \in Nat /\ B(m).size \in Nat /\ m.n <= B(m).size
       /\ B(m).ch \in [0..B(m).size + 1 -> Slot]
  BY <1>7, Bounds
<1>11. lp = m.n + 1 /\ k = m.n - bp /\ k \in Nat /\ bp <= m.n /\ lp - 1 = m.n /\ ~(u.cp > u.n + 1)
  BY <1>3, <1>5, <1>7, <1>9, <1>10
<1>12. Prefix(a, bp, m.n) /\ Plain(a, bp, m.n)
  BY <1>7, <1>11
<1>13. rest' \in [client.files -> Seq(Char)] /\ client' = client /\ DOMAIN owed \subseteq DOMAIN m.buf
  BY <1>5, ClientKnown
<1>14. /\ Beside(m, u) /\ B(u).fill = B(m).fill /\ (B(u).status = "pending" => B(m).status = "pending")
  BY <1>8 DEF IsUndone
<1>15. ASSUME Beside(u, m'), m'.init, m'.in = u.in, m'.n = u.n, B(m').fill = B(u).fill,
              B(m').status = B(u).status,
              \/ /\ pc' = "refill" /\ owed' = owed /\ Kept' = m.n - bp
                 /\ \A i \in 0..m.n - bp - 1 : B(m').ch[i] = a[bp + i]
              \/ /\ pc' = "idle" /\ bp = m.n /\ m'.cp = m.n /\ ~B(m).fill /\ tok' = EndToken
                 /\ owed' = [owed EXCEPT ![Cur] = Drop(@, Len(EndToken.text))]
              \/ /\ pc' = "find" /\ bp' = bp /\ owed' = owed /\ B(m').ch = a /\ ~B(m).fill
                 /\ lp' = m.n /\ bp < m.n /\ st' \in {1, 4, 7, 8} /\ Run(a, bp, m.n, st')
       PROVE  IsBufferEnd
  <2>1. Beside(m, m')
    BY <1>14, <1>15, BesideToo
  <2>2. Awake(client.files, m) /\ Plain(Restored(m), bp, m.n) /\ bp <= m.n /\ by' = "yylex"
    BY <1>1, <1>4, <1>6, <1>7, <1>11, <1>12
  <2>3. /\ m'.in = m.in /\ m'.n = m.n /\ B(m').fill = B(m).fill
        /\ (B(m').status = "pending" => B(m).status = "pending")
    BY <1>9, <1>14, <1>15
  <2> QED BY <1>4, <1>5, <1>7, <1>10, <1>15, <2>1, <2>2, <2>3 DEF IsBufferEnd
<1>16. CASE B(u).fill
  <2>1. m' = Texted(u, ToFront(B(u).ch, u.text, k)) /\ pc' = "refill" /\ UNCHANGED <<st, bp, lp, tok, owed>>
    BY <1>6, <1>9, <1>11, <1>16 DEF Texted
  <2>2. Framed(client.files, m)' /\ AtRefill' /\ DOMAIN m'.buf = DOMAIN u.buf /\ MovedUp(u, m')
    <3>1. u.text <= u.n /\ u.cp = u.n + 1 /\ u.cp - u.text - 1 = k
      BY <1>3, <1>9, <1>11
    <3>2. Plain(B(u).ch, u.text, u.n) /\ Prefix(B(u).ch, u.text, u.n)
      BY <1>9, <1>12
    <3> QED BY <1>1, <1>9, <1>13, <1>16, <2>1, <3>1, <3>2, MovesText
  <2>3. Typed'
    BY <1>6, <1>7, <1>9, <1>13, <2>1, <2>2 DEF Typed
  <2>4. Kept' = m.n - bp /\ \A i \in 0..m.n - bp - 1 : B(m').ch[i] = a[bp + i]
    BY <1>9, <2>2 DEF Kept, MovedUp
  <2>5. IsBufferEnd
    BY <1>15, <2>1, <2>2, <2>4 DEF MovedUp
  <2> QED BY <2>1, <2>2, <2>3, <2>5 DEF IInv
<1>17. CASE ~B(u).fill /\ k = 0
  <2>1. m' = [u EXCEPT !.cp = u.text] /\ Return(EndToken)
    BY <1>6, <1>9, <1>11, <1>17 DEF Resume
  <2>2. /\ pc' = "idle" /\ st' = 1 /\ bp' = 0 /\ lp' = 0 /\ DOMAIN owed' = DOMAIN owed
    BY <2>1 DEF Return
  <2>3. Record(u) /\ Counts(F, u) /\ m' = [u EXCEPT !.cp = bp]
    BY <1>9, <2>1 DEF Framed, Globals
  <2>4. /\ m'.buf = u.buf /\ SameStack(u, m') /\ m'.n = u.n /\ m'.text = u.text /\ m'.leng = u.leng
        /\ m'.hold = u.hold /\ m'.cp = bp /\ m'.init = u.init /\ m'.in = u.in /\ m'.las = u.las
        /\ m'.lac = u.lac /\ Record(m')
    BY <2>3 DEF Record, SameStack
  <2>5. Counts(F, m')
    BY <1>7, <2>3, <2>4 DEF Counts
  <2>6. Framed(F, m') /\ YY_CURRENT_BUFFER(m') = YY_CURRENT_BUFFER(u) /\ B(m') = B(u)
    BY <1>9, <2>4, <2>5, Recounted
  <2>7. bp = m.n
    BY <1>7, <1>10, <1>11, <1>17
  <2>8. m.hold = NUL /\ a \in [0..B(m).size + 1 -> Slot \cup {m.hold}]
    <3>1. a = [B(m).ch EXCEPT ![m.n + 1] = m.hold]
      BY <1>4, <1>7, <1>11 DEF Restored
    <3>2. m.n + 1 \in 0..B(m).size + 1
      BY <1>10
    <3>3. a[m.n + 1] = m.hold
      BY <1>10, <3>1, <3>2
    <3> QED BY <1>10, <1>12, <3>1, <3>2, <3>3 DEF Plain
  <2>9. Restored(m') = [a EXCEPT ![m.n] = NUL]
    BY <1>9, <2>4, <2>6, <2>7, <2>8 DEF Restored
  <2>10. Restored(m')[m.n] = NUL /\ Restored(m')[m.n + 1] = NUL
    <3>1. m.n \in 0..B(m).size + 1 /\ m.n + 1 \in 0..B(m).size + 1 /\ m.n # m.n + 1
      BY <1>10
    <3> QED BY <1>12, <2>8, <2>9, <3>1 DEF Plain
  <2>11. \A i \in 0..m.n + 1 : i >= m.n => i = m.n \/ i = m.n + 1
    BY <1>10
  <2>12. Between(F, m')
    <3>1. Awake(F, m')
      BY <1>9, <2>4, <2>6 DEF Awake
    <3>2. m'.cp = m.n /\ m'.text = m.n /\ m'.n = m.n /\ m.n <= m.n /\ m'.init
      BY <1>9, <1>10, <2>4, <2>7
    <3> QED BY <2>10, <2>11, <3>1, <3>2, Classes DEF Between
  <2>13. DOMAIN m'.buf = DOMAIN m.buf /\ by' \in {"yylex", "input"}
    BY <1>6, <1>9, <2>4
  <2>14. IsBufferEnd
    <3>1. Beside(u, m')
      BY <2>4, BesideSame
    <3>2. owed' = [owed EXCEPT ![Cur] = Drop(@, Len(EndToken.text))] /\ tok' = EndToken
      BY <2>1 DEF Return
    <3>3. ~B(m).fill
      BY <1>14, <1>17
    <3> QED BY <1>9, <1>15, <2>2, <2>4, <2>6, <2>7, <3>1, <3>2, <3>3
  <2> QED BY <1>1, <1>13, <2>2, <2>6, <2>12, <2>13, <2>14, RestsAgain
<1>18. CASE ~B(u).fill /\ k # 0
  <2>1. ScanOn(u, u.n, "find")
    BY <1>6, <1>9, <1>11, <1>18 DEF Resume, LastMatch
  <2>2. u.n \in Nat /\ u.text < u.n /\ u.text <= u.n /\ u.n <= u.n
    BY <1>7, <1>9, <1>10, <1>11, <1>18
  <2>3. /\ pc' = "find" /\ owed' = owed /\ DOMAIN m'.buf = DOMAIN u.buf
        /\ Framed(client.files, m)' /\ AtFind' /\ st' \in 1..10 /\ lp' \in Nat /\ bp' \in Nat
        /\ IsScanned(F, u, u.n, m', st') /\ bp' = u.text /\ lp' = u.n
    <3>1. Plain(B(u).ch, u.text, u.n) /\ Prefix(B(u).ch, u.text, u.n)
      BY <1>9, <1>12
    <3> QED BY <1>1, <1>9, <1>13, <2>1, <2>2, <3>1, TakesUp
  <2>4. Typed'
    BY <1>6, <1>7, <1>9, <1>13, <2>3 DEF Typed
  <2>5. IsBufferEnd
    <3>1. /\ B(m') = B(u) /\ m'.n = u.n /\ m'.in = u.in /\ m'.init /\ m'.buf = u.buf /\ SameStack(u, m')
          /\ st' \in {1, 4, 7, 8} /\ Run(a, bp, m.n, st')
      BY <1>9, <2>3 DEF IsScanned
    <3>2. Beside(u, m')
      BY <3>1, BesideSame
    <3>3. ~B(m).fill /\ lp' = m.n /\ bp < m.n
      BY <1>9, <1>14, <1>18, <2>2, <2>3
    <3> QED BY <1>9, <1>15, <2>3, <3>1, <3>2, <3>3
  <2> QED BY <2>3, <2>4, <2>5 DEF IInv
<1> QED BY <1>16, <1>17, <1>18
-----------------------------------------------------------------------------
(* input *)

(* A character handed out. *)
Given(w, v) ==
  /\ Beside(w, v) /\ v.n = w.n /\ v.cp = w.cp + 1 /\ v.in = w.in /\ v.init = w.init
  /\ B(v).fill = B(w).fill /\ B(v).status = B(w).status
  /\ Restored(v) = [B(w).ch EXCEPT ![w.cp] = NUL]
LEMMA Gives ==
  ASSUME NEW F, NEW w, Framed(F, w), Awake(F, w), w.init, w.cp < w.n, w.text <= w.n,
         B(w).ch[w.n] = NUL, B(w).ch[w.n + 1] = NUL,
         \A i \in 0..w.n + 1 : i >= w.cp \/ i >= w.text => B(w).ch[i] \in Char,
         Give(w)
  PROVE  /\ Framed(F, m') /\ Between(F, m') /\ DOMAIN m'.buf = DOMAIN w.buf
         /\ pc' = "idle" /\ st' = 1 /\ bp' = 0 /\ lp' = 0 /\ DOMAIN owed' = DOMAIN owed
         /\ Given(w, m') /\ owed' = [owed EXCEPT ![Cur] = Drop(@, 1)]
<1>1. PICK a : a = B(w).ch
  OBVIOUS
<1>2. PICK p : p = Poke(w, w.cp, NUL)
  OBVIOUS
<1>3. PICK h : h = a[w.cp + 1]
  OBVIOUS
<1>4. /\ m' = [p EXCEPT !.hold = h, !.cp = @ + 1]
      /\ pc' = "idle" /\ st' = 1 /\ bp' = 0 /\ lp' = 0 /\ DOMAIN owed' = DOMAIN owed
      /\ owed' = [owed EXCEPT ![Cur] = Drop(@, 1)]
  <2>1. Len(<<a[w.cp]>>) = 1
    OBVIOUS
  <2> QED BY <1>1, <1>2, <1>3, <2>1 DEF Give, Return, Chars, B
<1>5. /\ YY_CURRENT_BUFFER(w) # None /\ w.n \in Nat /\ w.cp \in Nat /\ w.text \in Nat
      /\ B(w).size \in Nat /\ w.n <= B(w).size /\ a \in [0..B(w).size + 1 -> Slot]
  BY <1>1, Bounds
<1>6. w.cp \in 0..B(w).size + 1 /\ w.cp + 1 \in 0..B(w).size + 1 /\ w.cp + 1 <= w.n /\ w.cp # w.n
  BY <1>5
<1>7. h \in Slot /\ NUL \in Slot
  BY <1>3, <1>5, <1>6, Classes DEF Slot
<1>8. IsPoked(F, w, w.cp, NUL, p)
  BY <1>2, <1>5, <1>6, <1>7, Poked
<1>9. Framed(F, p) /\ Record(p) /\ Counts(F, p) /\ Same(w, p)
  BY <1>8 DEF IsPoked, Framed, Globals
<1>10. /\ m'.buf = p.buf /\ SameStack(p, m') /\ m'.n = p.n /\ m'.text = p.text /\ m'.leng = p.leng
       /\ m'.hold = h /\ m'.cp = w.cp + 1 /\ m'.init = p.init /\ m'.in = p.in /\ m'.las = p.las
       /\ m'.lac = p.lac /\ Record(m')
  BY <1>4, <1>9 DEF Record, SameStack, Same
<1>11. Counts(F, m')
  BY <1>5, <1>7, <1>9, <1>10 DEF Counts
<1>12. Framed(F, m') /\ YY_CURRENT_BUFFER(m') = YY_CURRENT_BUFFER(w) /\ B(m') = B(p)
  BY <1>8, <1>9, <1>10, <1>11, Recounted DEF IsPoked
<1>13. PICK b : b = [a EXCEPT ![w.cp] = NUL]
  OBVIOUS
<1>14. Restored(m') = b
  <2>1. B(m').ch = b
    BY <1>1, <1>8, <1>12, <1>13 DEF IsPoked
  <2>2. PICK j : j = w.cp + 1
    OBVIOUS
  <2>3. Restored(m') = [b EXCEPT ![j] = a[j]]
    BY <1>3, <1>10, <2>1, <2>2 DEF Restored
  <2>4. j # w.cp /\ j \in 0..B(w).size + 1
    BY <1>5, <1>6, <2>2
  <2>5. b[j] = a[j] /\ b \in [0..B(w).size + 1 -> Slot]
    BY <1>5, <1>6, <1>7, <1>13, <2>4
  <2> QED BY <2>3, <2>4, <2>5
<1>15. Between(F, m')
  <2>1. Awake(F, m')
    BY <1>8, <1>9, <1>10, <1>12 DEF Awake, IsPoked, SameButText, Same
  <2>2. m'.n = w.n /\ m'.text = w.text /\ m'.init
    BY <1>9, <1>10 DEF Same
  <2>3. \A i \in 0..w.n + 1 : i \in 0..B(w).size + 1
    BY <1>5
  <2>4. \A i \in 0..w.n + 1 : b[i] = IF i = w.cp THEN NUL ELSE a[i]
    BY <1>5, <1>13, <2>3
  <2>5. w.n \in 0..w.n + 1 /\ w.n + 1 \in 0..w.n + 1
    BY <1>5
  <2>6. b[w.n] = NUL /\ b[w.n + 1] = NUL
    BY <1>1, <2>4, <2>5
  <2>7. \A i \in 0..w.n + 1 : i >= w.cp + 1 => i >= w.cp
    BY <1>5
  <2>8. \A i \in 0..w.n + 1 : i >= w.cp + 1 \/ i >= w.text => b[i] \in Char
    BY <1>1, <2>4, <2>7, Classes
  <2> QED BY <1>6, <1>10, <1>14, <2>1, <2>2, <2>6, <2>8 DEF Between
<1>16. DOMAIN m'.buf = DOMAIN w.buf
  BY <1>8, <1>10 DEF IsPoked
<1>17. Given(w, m')
  <2>1. Beside(w, m')
    BY <1>8, <1>10, BesideSame, BesideToo DEF IsPoked
  <2>2. B(m').fill = B(w).fill /\ B(m').status = B(w).status
    BY <1>8, <1>12 DEF IsPoked, SameButText
  <2> QED BY <1>1, <1>9, <1>10, <1>13, <1>14, <2>1, <2>2 DEF Given, Same
<1> QED BY <1>4, <1>12, <1>15, <1>16, <1>17

(* input hands out a character, or reads on where there is none. *)
IsInput ==
  /\ pc = "idle" /\ rest' = rest /\ Cur # None
  /\ Framed(client.files, m) /\ Between(client.files, m) /\ m.n \in Nat /\ m.cp \in Nat
  /\ Beside(m, m') /\ m'.init /\ m'.in = m.in /\ m'.n = m.n
  /\ B(m').fill = B(m).fill /\ B(m').status = B(m).status
  /\ \/ pc' = "refill" /\ by' = "input" /\ m.cp = m.n /\ owed' = owed
     \/ /\ pc' = "idle" /\ m.cp < m.n /\ m'.cp = m.cp + 1
        /\ Restored(m') = [Restored(m) EXCEPT ![m.cp] = NUL]
        /\ owed' = [owed EXCEPT ![Cur] = Drop(@, 1)]
LEMMA InputStep ==
  ASSUME IInv, input
  PROVE  IInv' /\ IsInput
<1>1. PICK F : F = client.files
  OBVIOUS
<1>2. PICK w : w = Poke(m, m.cp, m.hold)
  OBVIOUS
<1>3. PICK x : x = [w EXCEPT !.cp = @ + 1]
  OBVIOUS
<1>4. PICK k : k = x.cp - x.text - 1
  OBVIOUS
<1>5. PICK a : a = Restored(m)
  OBVIOUS
<1>6. /\ pc = "idle" /\ m.init /\ Cur # None /\ client' = client /\ rest' = rest
      /\ \/ m.hold = NUL /\ m.cp >= m.n /\ MayRefill /\ yy_get_next_buffer("input", x)
         \/ ~(m.hold = NUL /\ m.cp >= m.n) /\ Give(w) /\ by' = by
  BY <1>2, <1>3 DEF input, Called
<1>7. /\ Framed(F, m) /\ Between(F, m) /\ Awake(F, m) /\ YY_CURRENT_BUFFER(m) # None /\ Typed
      /\ m.cp <= m.n /\ m.text <= m.n /\ a[m.n] = NUL /\ a[m.n + 1] = NUL
      /\ \A i \in 0..m.n + 1 : i >= m.cp \/ i >= m.text => a[i] \in Char
  BY <1>1, <1>5, <1>6, ClientKnown DEF IInv, AtRest, Between, Cur
<1>8. /\ m.n \in Nat /\ m.cp \in Nat /\ m.text \in Nat /\ B(m).size \in Nat /\ m.n <= B(m).size
      /\ Counts(F, m) /\ B(m).ch \in [0..B(m).size + 1 -> Slot]
  BY <1>7, Bounds
<1>9. IsPoked(F, m, m.cp, m.hold, w)
  <2>1. m.cp \in 0..B(m).size + 1 /\ m.hold \in Slot
    BY <1>7, <1>8 DEF Counts
  <2> QED BY <1>2, <1>7, <2>1, Poked
<1>10. /\ Framed(F, w) /\ B(w).ch = a /\ Same(m, w) /\ SameButText(B(m), B(w))
       /\ YY_CURRENT_BUFFER(w) = Cur /\ DOMAIN w.buf = DOMAIN m.buf /\ Record(w) /\ Counts(F, w)
  BY <1>5, <1>9 DEF IsPoked, Restored, Cur, Framed, Globals
<1>11. /\ Awake(F, w) /\ w.n = m.n /\ w.cp = m.cp /\ w.text = m.text /\ w.init
  BY <1>6, <1>7, <1>10 DEF Awake, SameButText, Same
<1>12. rest' \in [client.files -> Seq(Char)] /\ client' = client /\ DOMAIN owed \subseteq DOMAIN m.buf
  BY <1>6, ClientKnown
<1>13. CASE ~(m.hold = NUL /\ m.cp >= m.n) /\ Give(w) /\ by' = by
  <2>1. m.cp < m.n
    <3>1. CASE m.cp = m.n
      <4>1. a[m.n] = m.hold
        BY <1>5, <1>8, <3>1 DEF Restored
      <4> QED BY <1>7, <1>8, <1>13, <3>1, <4>1
    <3>2. CASE m.cp # m.n
      BY <1>7, <1>8, <3>2
    <3> QED BY <3>1, <3>2
  <2>2. /\ Framed(F, m') /\ Between(F, m') /\ DOMAIN m'.buf = DOMAIN w.buf
        /\ pc' = "idle" /\ st' = 1 /\ bp' = 0 /\ lp' = 0 /\ DOMAIN owed' = DOMAIN owed
        /\ Given(w, m') /\ owed' = [owed EXCEPT ![Cur] = Drop(@, 1)]
    <3>1. w.cp < w.n /\ w.text <= w.n /\ B(w).ch[w.n] = NUL /\ B(w).ch[w.n + 1] = NUL
      BY <1>7, <1>10, <1>11, <2>1
    <3>2. \A i \in 0..w.n + 1 : i >= w.cp \/ i >= w.text => B(w).ch[i] \in Char
      BY <1>7, <1>10, <1>11
    <3> QED BY <1>10, <1>11, <1>13, <3>1, <3>2, Gives
  <2>3. by' \in {"yylex", "input"} /\ DOMAIN m'.buf = DOMAIN m.buf
    BY <1>7, <1>10, <1>13, <2>2 DEF Typed
  <2>4. IsInput
    <3>1. Beside(m, m')
      BY <1>9, <2>2, BesideToo DEF IsPoked, Given
    <3>2. /\ m'.init /\ m'.in = m.in /\ m'.n = m.n /\ m'.cp = m.cp + 1
          /\ B(m').fill = B(m).fill /\ B(m').status = B(m).status
          /\ Restored(m') = [Restored(m) EXCEPT ![m.cp] = NUL]
      BY <1>5, <1>6, <1>10, <2>2 DEF Given, Same, SameButText
    <3>3. Framed(client.files, m) /\ Between(client.files, m)
      BY <1>1, <1>7
    <3> QED BY <1>6, <1>8, <2>1, <2>2, <3>1, <3>2, <3>3 DEF IsInput
  <2> QED BY <1>1, <1>12, <2>2, <2>3, <2>4, RestsAgain
<1>14. CASE m.hold = NUL /\ m.cp >= m.n /\ MayRefill /\ yy_get_next_buffer("input", x)
  <2>1. /\ x.buf = w.buf /\ SameStack(w, x) /\ x.n = w.n /\ x.text = w.text /\ x.leng = w.leng
        /\ x.hold = w.hold /\ x.cp = m.n + 1 /\ x.init = w.init /\ x.in = w.in /\ x.las = w.las
        /\ x.lac = w.lac /\ Record(x)
    <3>1. w.cp + 1 = m.n + 1
      BY <1>7, <1>8, <1>11, <1>14
    <3>2. x = [w EXCEPT !.cp = m.n + 1]
      BY <1>3, <3>1
    <3> QED BY <1>10, <3>2 DEF Record, SameStack
  <2>2. Counts(F, x)
    BY <1>8, <1>10, <2>1 DEF Counts
  <2>3. Framed(F, x) /\ YY_CURRENT_BUFFER(x) = YY_CURRENT_BUFFER(w) /\ B(x) = B(w)
    BY <1>10, <2>1, <2>2, Recounted
  <2>4. /\ Awake(F, x) /\ x.init /\ x.n = m.n /\ x.text = m.text /\ x.cp = x.n + 1 /\ x.text <= x.n
        /\ x.cp - x.text - 1 = k /\ ~(x.cp > x.n + 1) /\ x.buf[Cur] = B(x) /\ YY_CURRENT_BUFFER(x) = Cur
    BY <1>4, <1>7, <1>8, <1>10, <1>11, <2>1, <2>3 DEF Awake, B
  <2>5. B(x).fill /\ (B(x).status = "new" => x.cp = x.text + 1)
    <3>1. B(m).fill /\ (B(m).status = "new" => m.cp = m.text)
      BY <1>14 DEF MayRefill, Cur, B
    <3>2. m.cp = m.n
      BY <1>7, <1>8, <1>14
    <3> QED BY <1>8, <1>10, <2>3, <2>4, <3>1, <3>2 DEF SameButText
  <2>6. /\ by' = "input"
        /\ IF x.cp > x.n + 1 THEN pc' = "fatal" /\ m' = x /\ UNCHANGED <<st, bp, lp, tok, owed>>
           ELSE IF ~x.buf[Cur].fill
             THEN Resume("input", x, IF x.cp - x.text - 1 = 0 THEN "eof" ELSE "last", x.cp - x.text - 1)
           ELSE /\ m' = [x EXCEPT !.buf[Cur].ch = ToFront(@, x.text, x.cp - x.text - 1)]
                /\ pc' = "refill" /\ UNCHANGED <<st, bp, lp, tok, owed>>
    BY <1>14, Zenon DEF yy_get_next_buffer, ToFront
  <2>7. by' = "input" /\ m' = Texted(x, ToFront(B(x).ch, x.text, k)) /\ pc' = "refill" /\ UNCHANGED <<st, bp, lp, tok, owed>>
    BY <2>4, <2>5, <2>6 DEF Texted
  <2>8. Plain(B(x).ch, x.text, x.n)
    <3>1. \A i \in m.text..m.n + 1 : i \in 0..m.n + 1 /\ i >= m.text
      BY <1>8
    <3> QED BY <1>7, <1>10, <2>3, <2>4, <3>1 DEF Plain
  <2>9. Framed(client.files, m)' /\ AtRefill' /\ DOMAIN m'.buf = DOMAIN x.buf /\ MovedUp(x, m')
    <3>1. by' # "yylex" /\ F = client.files
      BY <1>1, <2>7
    <3> QED BY <1>12, <2>3, <2>4, <2>5, <2>7, <2>8, <3>1, MovesText
  <2>10. Typed'
    BY <1>7, <1>10, <1>12, <2>1, <2>7, <2>9 DEF Typed
  <2>11. IsInput
    <3>1. Beside(w, x)
      BY <2>1, BesideSame
    <3>2. Beside(m, x)
      BY <1>9, <3>1, BesideToo DEF IsPoked
    <3>3. Beside(m, m')
      BY <2>9, <3>2, BesideToo DEF MovedUp
    <3>4. /\ m'.init /\ m'.in = m.in /\ m'.n = m.n
          /\ B(m').fill = B(m).fill /\ B(m').status = B(m).status
      BY <1>10, <2>1, <2>3, <2>4, <2>9 DEF MovedUp, Same, SameButText
    <3>5. Framed(client.files, m) /\ Between(client.files, m) /\ m.cp = m.n
      BY <1>1, <1>7, <1>8, <1>14
    <3> QED BY <1>6, <1>8, <2>7, <3>3, <3>4, <3>5 DEF IsInput
  <2> QED BY <2>7, <2>9, <2>10, <2>11 DEF IInv
<1> QED BY <1>6, <1>13, <1>14
-----------------------------------------------------------------------------
(* The refill. *)

(* What is known while the buffer is refilled. *)
LEMMA RefillKnown ==
  ASSUME IInv, pc = "refill"
  PROVE  /\ Framed(client.files, m) /\ Awake(client.files, m) /\ m.init /\ YY_CURRENT_BUFFER(m) = Cur
         /\ Cur # None /\ Cur \in DOMAIN m.buf /\ m.buf[Cur] = B(m) /\ Whole(client.files, B(m))
         /\ Record(m) /\ Counts(client.files, m) /\ B(m).fill /\ m.in \in client.files
         /\ m.n \in Nat /\ m.n <= B(m).size /\ B(m).size \in Nat /\ m.cp \in Nat /\ m.cp <= m.n + 1
         /\ B(m).ch \in [0..B(m).size + 1 -> Slot]
         /\ Kept \in Nat /\ Kept <= m.n /\ m.cp - m.text - 1 = Kept
         /\ \A i \in 0..Kept - 1 : B(m).ch[i] \in Char
         /\ B(m).status = "new" => Kept = 0
         /\ by = "yylex" => Prefix(B(m).ch, 0, Kept)
<1>1. PICK F : F = client.files
  OBVIOUS
<1>2. PICK k : k = Kept
  OBVIOUS
<1>3. Framed(F, m) /\ AtRefill /\ Awake(F, m) /\ m.init /\ YY_CURRENT_BUFFER(m) = Cur /\ m.buf[Cur] = B(m)
  BY <1>1 DEF IInv, AtRefill, Cur, B
<1>4. /\ YY_CURRENT_BUFFER(m) # None /\ Counts(F, m) /\ Record(m) /\ Whole(F, B(m))
      /\ m.n \in Nat /\ m.cp \in Nat /\ m.text \in Nat /\ m.leng \in Int /\ B(m).size \in Nat
      /\ m.n <= B(m).size /\ B(m).ch \in [0..B(m).size + 1 -> Slot]
  BY <1>3, Bounds
<1>5. Cur \in DOMAIN m.buf
  BY <1>3, <1>4, CurrentHeld DEF Framed
<1>6. B(m).fill /\ m.in \in F /\ m.text < m.cp /\ m.cp <= m.n + 1
  BY <1>1, <1>3 DEF AtRefill, Awake
<1>7. m.cp - m.text - 1 = k /\ m.cp - m.text - 2 = k - 1
  BY <1>2, <1>4 DEF Kept
<1>8. k \in Nat /\ k <= m.n
  BY <1>4, <1>6, <1>7
<1>9. /\ \A i \in 0..k - 1 : B(m).ch[i] \in Char
      /\ B(m).status = "new" => k = 0
      /\ by = "yylex" => Prefix(B(m).ch, 0, k)
  <2>1. \A i \in 0..k - 1 : B(m).ch[i] \in Char
    BY <1>3, <1>7 DEF AtRefill
  <2>2. ASSUME B(m).status = "new" PROVE k = 0
    <3>1. m.cp = m.text + 1
      BY <1>3, <2>2 DEF AtRefill
    <3> QED BY <1>4, <1>7, <3>1
  <2>3. by = "yylex" => Prefix(B(m).ch, 0, k)
    BY <1>3, <1>7 DEF AtRefill
  <2> QED BY <2>1, <2>2, <2>3
<1> QED BY <1>1, <1>2, <1>3, <1>4, <1>5, <1>6, <1>7, <1>8, <1>9

LEMMA PrefixKept ==
  ASSUME NEW a, NEW b, NEW to \in Nat, Prefix(a, 0, to), \A i \in 0..to - 1 : b[i] = a[i]
  PROVE  Prefix(b, 0, to)
<1>1. CASE to = 0
  BY <1>1 DEF Prefix
<1>2. CASE 0 < to /\ \A i \in 0..to - 1 : a[i] \in Digit
  BY <1>2 DEF Prefix
<1>3. CASE to = 0 + 1 /\ TextClass(a[0]) = 1
  <2>1. 0 \in 0..to - 1
    BY <1>3
  <2>2. b[0] = a[0]
    BY <2>1
  <2> QED BY <1>3, <2>2 DEF Prefix
<1> QED BY <1>1, <1>2, <1>3 DEF Prefix

LEMMA ReadFailsStep ==
  ASSUME IInv, ReadFails
  PROVE  IInv'
<1>1. /\ pc = "refill" /\ pc' = "fatal"
      /\ UNCHANGED <<client, m, rest, st, bp, lp, by, tok, owed>>
  BY DEF ReadFails, local
<1>2. Framed(client.files, m) /\ m.n <= B(m).size /\ m.cp <= B(m).size + 2
  BY <1>1, RefillKnown
<1>3. Typed'
  BY <1>1 DEF IInv, Typed
<1>4. (Framed(client.files, m) /\ m.n <= B(m).size /\ m.cp <= B(m).size + 2)'
  BY <1>1, <1>2
<1> QED BY <1>1, <1>3, <1>4 DEF IInv

(* A buffer of another size. *)
Resized(a, size) == [i \in 0..size + 1 |-> IF i \in DOMAIN a THEN a[i] ELSE Junk]
IsGrown ==
  /\ pc = "refill" /\ UNCHANGED <<rest, by, owed>> /\ m'.init
  /\ \/ pc' = "fatal"
     \/ /\ pc' = pc /\ Beside(m, m') /\ Same(m, m')
        /\ B(m').fill = B(m).fill /\ B(m').status = B(m).status
        /\ \A i \in 0..Kept - 1 : B(m').ch[i] = B(m).ch[i]
LEMMA GrowStep ==
  ASSUME IInv, Grow
  PROVE  IInv' /\ IsGrown
<1>1. PICK F : F = client.files
  OBVIOUS
<1>2. PICK z : z = 2 * B(m).size
  OBVIOUS
<1>3. PICK a : a = B(m).ch
  OBVIOUS
<1>4. PICK b : b = Resized(a, z)
  OBVIOUS
<1>5. PICK c : c = Cur
  OBVIOUS
<1>6. /\ Framed(F, m) /\ Awake(F, m) /\ m.init /\ YY_CURRENT_BUFFER(m) = c /\ m.buf[c] = B(m)
      /\ c # None /\ c \in DOMAIN m.buf /\ Whole(F, B(m)) /\ Record(m) /\ Counts(F, m) /\ B(m).fill
      /\ m.n \in Nat /\ m.n <= B(m).size /\ B(m).size \in Nat /\ m.cp \in Nat /\ m.cp <= m.n + 1
      /\ B(m).ch \in [0..B(m).size + 1 -> Slot] /\ pc = "refill"
      /\ Kept \in Nat /\ Kept <= m.n /\ m.cp - m.text - 1 = Kept
      /\ by = "yylex" => Prefix(a, 0, Kept)
  BY <1>1, <1>3, <1>5, RefillKnown DEF Grow
<1>7. /\ \/ pc' = "fatal" /\ m' = m
         \/ m' = [m EXCEPT !.buf[c].size = z, !.buf[c].ch = b] /\ pc' = pc
      /\ UNCHANGED <<client, rest, st, bp, lp, by, tok, owed>>
  <2>1. /\ \/ pc' = "fatal" /\ m' = m
           \/ m' = [m EXCEPT !.buf[Cur].size = 2 * m.buf[Cur].size,
                             !.buf[Cur].ch = Resized(@, 2 * m.buf[Cur].size)] /\ pc' = pc
        /\ UNCHANGED <<client, rest, st, bp, lp, by, tok, owed>>
    BY Zenon DEF Grow, Resized, local
  <2> QED BY <1>2, <1>3, <1>4, <1>5, <1>6, <2>1
<1>8. CASE pc' = "fatal" /\ m' = m
  <2>1. Typed'
    BY <1>7, <1>8 DEF IInv, Typed
  <2>2. (Framed(client.files, m) /\ m.n <= B(m).size /\ m.cp <= B(m).size + 2)'
    BY <1>1, <1>6, <1>7, <1>8
  <2>3. IsGrown
    BY <1>6, <1>7, <1>8 DEF IsGrown
  <2> QED BY <1>8, <2>1, <2>2, <2>3 DEF IInv
<1>9. CASE m' = [m EXCEPT !.buf[c].size = z, !.buf[c].ch = b] /\ pc' = pc
  <2>1. PICK q : q = [B(m) EXCEPT !.size = z]
    OBVIOUS
  <2>2. PICK r : r = [q EXCEPT !.ch = b]
    OBVIOUS
  <2>3. PICK y : y = Puts(m, c, q)
    OBVIOUS
  <2>4. m' = Puts(m, c, r)
    <3>1. y.buf[c] = q
      BY <1>6, <2>3 DEF Puts, Record
    <3>2. y = [m EXCEPT !.buf[c].size = z]
      BY <1>6, <2>1, <2>3 DEF Puts
    <3>3. m' = [y EXCEPT !.buf[c].ch = b]
      BY <1>9, <3>2
    <3>4. m' = Puts(y, c, r)
      BY <2>2, <3>1, <3>3 DEF Puts
    <3> QED BY <1>6, <2>3, <3>4, PutsTwice
  <2>5. /\ r.file = B(m).file /\ r.ch = b /\ r.pos = B(m).pos /\ r.size = z /\ r.n = B(m).n
        /\ r.ours = B(m).ours /\ r.fill = B(m).fill /\ r.status = B(m).status /\ Shaped(r)
    BY <1>6, <2>1, <2>2 DEF Whole, Shaped
  <2>6. z \in Nat /\ z >= B(m).size
    BY <1>2, <1>6
  <2>7. b \in [0..z + 1 -> Slot] /\ \A i \in 0..B(m).size + 1 : i \in 0..z + 1 /\ b[i] = a[i]
    <3>1. DOMAIN a = 0..B(m).size + 1 /\ \A i \in 0..B(m).size + 1 : a[i] \in Slot
      BY <1>3, <1>6
    <3>2. \A i \in 0..B(m).size + 1 : i \in 0..z + 1
      BY <1>6, <2>6
    <3> QED BY <1>4, <3>1, <3>2 DEF Resized, Slot
  <2>8. Whole(F, r)
    BY <1>6, <2>5, <2>6, <2>7 DEF Whole
  <2>9. IsSet(F, m, c, r, m')
    BY <1>6, <2>4, <2>8, BufferSet
  <2>10. YY_CURRENT_BUFFER(m') = c /\ B(m') = r /\ DOMAIN m'.buf = DOMAIN m.buf /\ Framed(F, m')
    BY <1>6, <2>9, CurrentKept DEF IsSet, B
  <2>11. \A i \in 0..Kept - 1 : b[i] = a[i]
    <3>1. \A i \in 0..Kept - 1 : i \in 0..B(m).size + 1
      BY <1>6
    <3> QED BY <2>7, <3>1
  <2>12. Same(m, m')
    BY <2>9 DEF IsSet
  <2>13. Awake(F, m') /\ m'.init /\ B(m').fill
    <3>1. m.n <= z
      BY <1>2, <1>6, <2>6
    <3>2. m.in \in F /\ (B(m).status = "new" => B(m).n = m.n)
      BY <1>6 DEF Awake
    <3>3. m'.n = m.n /\ m'.in = m.in /\ m'.init
      BY <1>6, <2>12 DEF Same
    <3>4. B(m').size = z /\ B(m').n = B(m).n /\ B(m').status = B(m).status /\ B(m').fill
      BY <1>6, <2>5, <2>10
    <3>5. YY_CURRENT_BUFFER(m') # None
      BY <1>6, <2>10
    <3> QED BY <3>1, <3>2, <3>3, <3>4, <3>5 DEF Awake
  <2>14. by' = "yylex" => Prefix(b, 0, m'.cp - m'.text - 1)
    <3>1. m'.cp - m'.text - 1 = Kept
      BY <1>6, <2>12 DEF Same
    <3> QED BY <1>6, <1>7, <2>11, <3>1, PrefixKept
  <2>15. AtRefill'
    <3>1. AtRefill
      BY <1>6 DEF IInv
    <3>2. m.text < m.cp /\ (B(m).status = "new" => m.cp = m.text + 1)
      BY <3>1 DEF AtRefill
    <3>3. m'.text < m'.cp /\ m'.cp <= m'.n + 1 /\ (B(m').status = "new" => m'.cp = m'.text + 1)
      BY <1>6, <2>5, <2>10, <2>12, <3>2 DEF Same
    <3>4. \A i \in 0..m'.cp - m'.text - 2 : B(m').ch[i] \in Char
      <4>1. m'.cp - m'.text - 2 = Kept - 1
        BY <1>6, <2>12, <3>2 DEF Same, Counts, Kept
      <4>2. \A i \in 0..Kept - 1 : a[i] \in Char
        BY <1>3, <1>6, RefillKnown
      <4> QED BY <2>5, <2>10, <2>11, <4>1, <4>2
    <3> QED BY <1>1, <1>7, <2>5, <2>10, <2>13, <2>14, <3>3, <3>4 DEF AtRefill
  <2>16. Typed'
    BY <1>6, <1>7, <1>9, <2>10 DEF IInv, Typed
  <2>17. IsGrown
    <3>1. Beside(m, m')
      BY <1>6, <2>9, BesideSame DEF IsSet
    <3>2. B(m').fill = B(m).fill /\ B(m').status = B(m).status /\ B(m').ch = b
      BY <2>5, <2>10
    <3> QED BY <1>3, <1>6, <1>7, <1>9, <2>11, <2>12, <2>13, <3>1, <3>2 DEF IsGrown
  <2> QED BY <1>1, <1>6, <1>7, <1>9, <2>10, <2>15, <2>16, <2>17 DEF IInv
<1> QED BY <1>7, <1>8, <1>9

(* What a read brings fits behind the text kept. *)
LEMMA LeastIn ==
  ASSUME NEW T, T \subseteq Nat, T # {}
  PROVE  Min(T) \in T /\ \A y \in T : Min(T) <= y
<1>1. \E x \in T : \A y \in T : x <= y
  BY LeastNatural
<1> QED BY <1>1 DEF Min

LEMMA AmountsFit ==
  ASSUME IInv, pc = "refill", Pending \/ Room > 0, NEW r \in Amounts
  PROVE  /\ r \in Nat /\ (r > 0 => Kept + r <= B(m).size) /\ r <= Len(rest[m.in])
         /\ r > 0 <=> ~(Pending \/ rest[m.in] = <<>>)
<1>1. /\ m.in \in client.files /\ m.buf[Cur] = B(m) /\ B(m).size \in Nat /\ Kept \in Nat
  BY RefillKnown
<1>2. PICK left : left = rest[m.in]
  OBVIOUS
<1>3. left \in Seq(Char) /\ Len(left) \in Nat
  BY <1>1, <1>2, ClientKnown
<1>4. PICK T : T = {Room, YY_READ_BUF_SIZE, Len(left)}
  OBVIOUS
<1>5. PICK most : most = Min(T)
  OBVIOUS
<1>6. PICK line : line = {i \in 1..most : left[i] = "\n"}
  OBVIOUS
<1>7. r \in (IF Pending \/ left = <<>> THEN {0}
             ELSE IF ~m.buf[Cur].tty THEN 1..most
             ELSE {IF line = {} THEN most ELSE Min(line)})
  <2>1. r \in (IF Pending \/ rest[m.in] = <<>> THEN {0}
               ELSE IF ~m.buf[Cur].tty THEN 1..Min({Room, YY_READ_BUF_SIZE, Len(rest[m.in])})
               ELSE {IF {i \in 1..Min({Room, YY_READ_BUF_SIZE, Len(rest[m.in])}) : rest[m.in][i] = "\n"} = {}
                     THEN Min({Room, YY_READ_BUF_SIZE, Len(rest[m.in])})
                     ELSE Min({i \in 1..Min({Room, YY_READ_BUF_SIZE, Len(rest[m.in])}) : rest[m.in][i] = "\n"})})
    BY DEF Amounts
  <2> QED BY <1>2, <1>4, <1>5, <1>6, <2>1
<1>8. CASE Pending \/ left = <<>>
  <2>1. r = 0
    BY <1>7, <1>8
  <2> QED BY <1>2, <1>3, <1>8, <2>1
<1>9. CASE ~(Pending \/ left = <<>>)
  <2>1. Room \in Int /\ Room = B(m).size - Kept - 1
    BY <1>1 DEF Room
  <2>2. Len(left) > 0
    BY <1>3, <1>9
  <2>3. YY_READ_BUF_SIZE \in Nat /\ YY_READ_BUF_SIZE > 0
    BY ScannerAssumption
  <2>4. T \subseteq Nat /\ T # {} /\ \A y \in T : y > 0
    BY <1>3, <1>4, <1>9, <2>1, <2>2, <2>3
  <2>5. most \in T /\ \A y \in T : most <= y
    BY <1>5, <2>4, LeastIn
  <2>6. most \in Nat /\ most > 0 /\ most <= Room /\ most <= Len(left)
    BY <1>4, <2>4, <2>5
  <2>7. line # {} => Min(line) \in line
    <3>1. line \subseteq Nat
      BY <1>6, <2>6
    <3> QED BY <3>1, LeastIn
  <2>8. r \in 1..most
    <3>1. CASE ~m.buf[Cur].tty
      BY <1>7, <1>9, <3>1
    <3>2. CASE m.buf[Cur].tty /\ line = {}
      <4>1. r = most
        BY <1>7, <1>9, <3>2
      <4> QED BY <2>6, <4>1
    <3>3. CASE m.buf[Cur].tty /\ line # {}
      <4>1. r = Min(line)
        BY <1>7, <1>9, <3>3
      <4> QED BY <1>6, <2>7, <3>3, <4>1
    <3> QED BY <3>1, <3>2, <3>3
  <2>9. r \in Nat /\ r > 0 /\ r <= Room /\ r <= Len(left)
    BY <1>3, <2>1, <2>6, <2>8
  <2>10. Kept + r <= B(m).size
    BY <1>1, <2>1, <2>9
  <2> QED BY <1>2, <1>9, <2>9, <2>10
<1> QED BY <1>8, <1>9

(* The characters read go behind the text kept. *)
Behind(a, k, r, s) == [i \in DOMAIN a |-> IF i \in k..k + r - 1 THEN s[i - k + 1] ELSE a[i]]
Poured(r) ==
  [m EXCEPT !.n = r, !.buf[Cur].n = r, !.buf[Cur].ch = Behind(@, Kept, r, rest[m.in])]
IsPoured(F, r, v) ==
  /\ Framed(F, v) /\ YY_CURRENT_BUFFER(v) = Cur /\ DOMAIN v.buf = DOMAIN m.buf
  /\ v.n = r /\ v.text = m.text /\ v.cp = m.cp /\ v.init = m.init /\ v.in = m.in
  /\ B(v).n = r /\ B(v).size = B(m).size /\ B(v).fill = B(m).fill /\ B(v).status = B(m).status
  /\ \A i \in 0..Kept - 1 : B(v).ch[i] = B(m).ch[i]
  /\ \A i \in Kept..Kept + r - 1 : B(v).ch[i] \in Char /\ B(v).ch[i] = rest[m.in][i - Kept + 1]
  /\ Beside(m, v)
LEMMA Pours ==
  ASSUME IInv, pc = "refill", NEW r \in Nat, r > 0 => Kept + r <= B(m).size, r <= Len(rest[m.in])
  PROVE  IsPoured(client.files, r, Poured(r))
<1>1. PICK F : F = client.files
  OBVIOUS
<1>2. PICK v : v = Poured(r)
  OBVIOUS
<1> SUFFICES IsPoured(F, r, v)
  BY <1>1, <1>2
<1>3. PICK c : c = Cur
  OBVIOUS
<1>4. PICK k : k = Kept
  OBVIOUS
<1>5. PICK s : s = rest[m.in]
  OBVIOUS
<1>6. PICK a : a = B(m).ch
  OBVIOUS
<1>7. PICK t : t = Behind(a, k, r, s)
  OBVIOUS
<1>8. /\ Framed(F, m) /\ YY_CURRENT_BUFFER(m) = c /\ m.buf[c] = B(m)
      /\ c # None /\ c \in DOMAIN m.buf /\ Whole(F, B(m)) /\ Record(m) /\ Counts(F, m) /\ m.in \in F
      /\ m.n \in Nat /\ m.n <= B(m).size /\ B(m).size \in Nat /\ a \in [0..B(m).size + 1 -> Slot]
      /\ k \in Nat /\ k <= m.n
  BY <1>1, <1>3, <1>4, <1>6, RefillKnown
<1>9. s \in Seq(Char) /\ r <= Len(s) /\ (r > 0 => k + r <= B(m).size)
  BY <1>1, <1>4, <1>5, <1>8, ClientKnown
<1>10. \A i \in k..k + r - 1 : s[i - k + 1] \in Char /\ i \in 0..B(m).size + 1
  <2>1. \A i \in k..k + r - 1 : i - k + 1 \in 1..Len(s) /\ i \in 0..B(m).size + 1
    BY <1>8, <1>9
  <2> QED BY <1>9, <2>1
<1>11. /\ t \in [0..B(m).size + 1 -> Slot] /\ \A i \in 0..k - 1 : t[i] = a[i]
       /\ \A i \in k..k + r - 1 : t[i] \in Char /\ t[i] = s[i - k + 1]
  <2>1. \A i \in 0..k - 1 : i \in 0..B(m).size + 1 /\ i \notin k..k + r - 1
    BY <1>8
  <2>2. DOMAIN a = 0..B(m).size + 1 /\ \A i \in 0..B(m).size + 1 : a[i] \in Slot
    BY <1>8
  <2>3. t = [i \in 0..B(m).size + 1 |-> IF i \in k..k + r - 1 THEN s[i - k + 1] ELSE a[i]]
    BY <1>7, <2>2 DEF Behind
  <2>4. \A i \in 0..B(m).size + 1 : t[i] \in Slot
    BY <1>10, <2>2, <2>3 DEF Slot
  <2>5. \A i \in 0..k - 1 : t[i] = a[i]
    BY <2>1, <2>3
  <2>6. \A i \in k..k + r - 1 : t[i] \in Char /\ t[i] = s[i - k + 1]
    BY <1>10, <2>3
  <2> QED BY <2>3, <2>4, <2>5, <2>6
<1>12. PICK z : z = [m EXCEPT !.n = r]
  OBVIOUS
<1>13. /\ z.buf = m.buf /\ SameStack(m, z) /\ z.n = r /\ z.text = m.text /\ z.leng = m.leng
       /\ z.hold = m.hold /\ z.cp = m.cp /\ z.init = m.init /\ z.in = m.in /\ z.las = m.las
       /\ z.lac = m.lac /\ Record(z)
  BY <1>8, <1>12 DEF Record, SameStack
<1>14. Counts(F, z)
  BY <1>8, <1>13 DEF Counts
<1>15. Framed(F, z) /\ YY_CURRENT_BUFFER(z) = c /\ B(z) = B(m) /\ z.buf[c] = B(m)
  BY <1>8, <1>13, <1>14, Recounted
<1>16. PICK q : q = [B(m) EXCEPT !.n = r]
  OBVIOUS
<1>17. PICK x : x = [q EXCEPT !.ch = t]
  OBVIOUS
<1>18. PICK y : y = Puts(z, c, q)
  OBVIOUS
<1>19. v = Puts(z, c, x)
  <2>1. v = [m EXCEPT !.n = r, !.buf[c].n = r, !.buf[c].ch = t]
    <3>1. v = [m EXCEPT !.n = r, !.buf[Cur].n = r, !.buf[Cur].ch = Behind(m.buf[Cur].ch, Kept, r, rest[m.in])]
      BY <1>2, Zenon DEF Poured
    <3> QED BY <1>3, <1>4, <1>5, <1>6, <1>7, <1>8, <3>1
  <2>2. v = [z EXCEPT !.buf[c].n = r, !.buf[c].ch = t]
    BY <1>12, <2>1
  <2>3. y = [z EXCEPT !.buf[c].n = r]
    BY <1>15, <1>16, <1>18 DEF Puts
  <2>4. v = [y EXCEPT !.buf[c].ch = t]
    BY <2>2, <2>3
  <2>5. y.buf[c] = q
    BY <1>8, <1>13, <1>18 DEF Puts, Record
  <2>6. v = Puts(y, c, x)
    BY <1>17, <2>4, <2>5 DEF Puts
  <2> QED BY <1>8, <1>13, <1>18, <2>6, PutsTwice
<1>20. /\ x.file = B(m).file /\ x.ch = t /\ x.pos = B(m).pos /\ x.size = B(m).size /\ x.n = r
       /\ x.ours = B(m).ours /\ x.fill = B(m).fill /\ x.status = B(m).status /\ Shaped(x)
  BY <1>8, <1>16, <1>17 DEF Whole, Shaped
<1>21. Whole(F, x)
  <2>1. r \in 0..B(m).size
    BY <1>8, <1>9
  <2> QED BY <1>8, <1>11, <1>20, <2>1 DEF Whole
<1>22. IsSet(F, z, c, x, v)
  <2>1. c \in DOMAIN z.buf
    BY <1>8, <1>13
  <2> QED BY <1>15, <1>19, <1>21, <2>1, BufferSet
<1>23. YY_CURRENT_BUFFER(v) = c /\ B(v) = x
  BY <1>15, <1>22, CurrentKept DEF IsSet, B
<1>24. Beside(m, v)
  <2>1. Beside(z, v)
    BY <1>15, <1>22, BesideSame DEF IsSet
  <2> QED BY <1>13, <2>1, BesideSame, BesideToo
<1>25. \A i \in Kept..Kept + r - 1 : B(v).ch[i] \in Char /\ B(v).ch[i] = rest[m.in][i - Kept + 1]
  BY <1>4, <1>5, <1>11, <1>20, <1>23
<1> QED BY <1>3, <1>4, <1>6, <1>11, <1>13, <1>20, <1>22, <1>23, <1>24, <1>25 DEF IsPoured, IsSet, Same

(* ... and at the end of the stream the buffer is pending, or begins again. *)
Settled(r) ==
  IF r > 0 THEN Poured(r) ELSE IF Kept = 0 THEN yyrestart(Poured(r), Poured(r).in)
  ELSE [Poured(r) EXCEPT !.buf[Cur].status = "pending"]
IsSettled(F, r, v) ==
  /\ Framed(F, v) /\ YY_CURRENT_BUFFER(v) = Cur /\ DOMAIN v.buf = DOMAIN m.buf
  /\ v.n = r /\ v.init = m.init /\ v.in \in F /\ B(v).size = B(m).size
  /\ B(v).status = "new" => B(v).n = r /\ Kept = 0
  /\ \A i \in 0..Kept - 1 : B(v).ch[i] = B(m).ch[i]
  /\ \A i \in Kept..Kept + r - 1 : B(v).ch[i] \in Char /\ B(v).ch[i] = rest[m.in][i - Kept + 1]
  /\ Beside(m, v) /\ v.in = m.in /\ B(v).fill = B(m).fill
  /\ B(v).status = IF r > 0 THEN B(m).status ELSE IF Kept = 0 THEN "new" ELSE "pending"
  /\ r = 0 /\ Kept = 0 => v.cp = 0 /\ v.hold = NUL
LEMMA Settles ==
  ASSUME IInv, pc = "refill", NEW r \in Nat, r > 0 => Kept + r <= B(m).size, r <= Len(rest[m.in])
  PROVE  IsSettled(client.files, r, Settled(r))
<1>1. PICK F : F = client.files
  OBVIOUS
<1>2. PICK v : v = Settled(r)
  OBVIOUS
<1> SUFFICES IsSettled(F, r, v)
  BY <1>1, <1>2
<1>3. PICK b : b = Poured(r)
  OBVIOUS
<1>4. IsPoured(F, r, b)
  BY <1>1, <1>3, Pours
<1>5. v = IF r > 0 THEN b ELSE IF Kept = 0 THEN yyrestart(b, b.in) ELSE [b EXCEPT !.buf[Cur].status = "pending"]
  BY <1>2, <1>3 DEF Settled
<1>6. /\ Kept \in Nat /\ m.in \in F /\ (B(m).status = "new" => Kept = 0) /\ Cur # None
      /\ B(m).size \in Nat
  BY <1>1, RefillKnown
<1>7. CASE r > 0
  BY <1>4, <1>5, <1>6, <1>7 DEF IsPoured, IsSettled
<1>8. CASE r = 0 /\ Kept = 0
  <2>1. v = yyrestart(b, b.in) /\ b.in \in F /\ Framed(F, b) /\ YY_CURRENT_BUFFER(b) = Cur
    BY <1>4, <1>5, <1>6, <1>8 DEF IsPoured
  <2>2. IsRestarted(F, b, b.in, v)
    <3>1. CanBegin(F, b)
      BY <1>6, <2>1 DEF CanBegin
    <3> QED BY <2>1, <3>1, Restarts
  <2>3. /\ AtRest(F, v) /\ v.init = b.init /\ YY_CURRENT_BUFFER(v) = Cur
        /\ DOMAIN v.buf = DOMAIN b.buf \cup {Cur} /\ v.n = 0 /\ v.cp = 0 /\ B(v).fill = TRUE
        /\ B(v).size = B(b).size
    BY <1>6, <2>1, <2>2 DEF IsRestarted
  <2>4. Framed(F, v) /\ Between(F, v) /\ Awake(F, v)
    BY <1>6, <2>3 DEF AtRest, Between
  <2>5. v.hold = NUL
    <3>1. B(v).ch \in [0..B(v).size + 1 -> Slot] /\ B(v).size \in Nat
      BY <2>4, Bounds
    <3>2. 0 \in 0..B(v).size + 1
      BY <3>1
    <3>3. Restored(v)[0] = NUL
      BY <2>3, <2>4 DEF Between
    <3> QED BY <2>3, <3>1, <3>2, <3>3 DEF Restored
  <2>6. Cur \in DOMAIN b.buf
    BY <1>4, RefillKnown DEF IsPoured
  <2>7. v.in \in F /\ (B(v).status = "new" => B(v).n = 0)
    BY <2>3, <2>4 DEF Awake
  <2>8. /\ DOMAIN v.buf = DOMAIN m.buf /\ v.init = m.init /\ B(v).size = B(m).size
    BY <1>4, <2>3, <2>6 DEF IsPoured
  <2>9. \A i : i \notin 0..Kept - 1 /\ i \notin Kept..Kept + r - 1
    BY <1>8
  <2>10. v.in = m.in /\ B(v).fill = B(m).fill /\ B(v).status = "new"
    BY <1>1, <1>4, <1>8, <2>2, RefillKnown DEF IsRestarted, IsPoured, Empty
  <2>11. Beside(m, v)
    <3>1. PICK c : c = Cur
      OBVIOUS
    <3>2. /\ YY_CURRENT_BUFFER(b) = c /\ YY_CURRENT_BUFFER(v) = c /\ c \in DOMAIN b.buf
          /\ DOMAIN v.buf = DOMAIN b.buf
      BY <2>1, <2>3, <2>6, <3>1
    <3>3. StillOff(b, v, {c}) /\ \A o \in DOMAIN b.buf \ {c} : v.buf[o] = b.buf[o]
      BY <2>2, <3>2 DEF IsRestarted
    <3>4. Beside(b, v)
      BY <3>2, <3>3 DEF Beside
    <3> QED BY <1>4, <3>4, BesideToo DEF IsPoured
  <2> QED BY <1>8, <2>3, <2>4, <2>5, <2>7, <2>8, <2>9, <2>10, <2>11 DEF IsSettled
<1>9. CASE r = 0 /\ Kept # 0
  <2>1. PICK x : x = [B(b) EXCEPT !.status = "pending"]
    OBVIOUS
  <2>2. v = [b EXCEPT !.buf[Cur].status = "pending"] /\ Framed(F, b) /\ YY_CURRENT_BUFFER(b) = Cur
    BY <1>4, <1>5, <1>9 DEF IsPoured
  <2>3. v = Puts(b, Cur, x)
    BY <2>1, <2>2 DEF Puts, B
  <2>4. Cur \in DOMAIN b.buf /\ Whole(F, B(b))
    BY <1>6, <2>2, CurrentHeld DEF Framed
  <2>5. /\ x.file = B(b).file /\ x.ch = B(b).ch /\ x.pos = B(b).pos /\ x.size = B(b).size /\ x.n = B(b).n
        /\ x.ours = B(b).ours /\ x.fill = B(b).fill /\ x.status = "pending" /\ Shaped(x)
    BY <2>1, <2>4 DEF Whole, Shaped
  <2>6. Whole(F, x)
    BY <2>4, <2>5 DEF Whole
  <2>7. IsSet(F, b, Cur, x, v)
    BY <2>2, <2>3, <2>4, <2>6, BufferSet
  <2>8. YY_CURRENT_BUFFER(v) = Cur /\ B(v) = x
    BY <2>2, <2>7, CurrentKept DEF IsSet, B
  <2>9. Beside(b, v)
    BY <2>2, <2>7, BesideSame DEF IsSet
  <2>10. Beside(m, v)
    BY <1>4, <2>9, BesideToo DEF IsPoured
  <2> QED BY <1>4, <1>6, <1>9, <2>5, <2>7, <2>8, <2>10 DEF IsPoured, IsSettled, IsSet, Same
<1> QED BY <1>6, <1>7, <1>8, <1>9

(* The two end marks. *)
IsFilled(F, r, v) ==
  /\ Framed(F, v) /\ Awake(F, v) /\ YY_CURRENT_BUFFER(v) = Cur /\ DOMAIN v.buf = DOMAIN m.buf
  /\ v.n = Kept + r /\ v.text = 0 /\ v.init /\ v.in \in F /\ Plain(B(v).ch, 0, v.n)
  /\ \A i \in 0..Kept - 1 : B(v).ch[i] = B(m).ch[i]
  /\ \A i \in Kept..Kept + r - 1 : B(v).ch[i] = rest[m.in][i - Kept + 1]
  /\ Beside(m, v) /\ v.in = m.in /\ B(v).fill = B(m).fill
  /\ B(v).status = IF r > 0 THEN B(m).status ELSE IF Kept = 0 THEN "new" ELSE "pending"
  /\ r = 0 /\ Kept = 0 => v.cp = 0 /\ v.hold = NUL
LEMMA Fills ==
  ASSUME IInv, pc = "refill", NEW r \in Nat, r > 0 => Kept + r <= B(m).size, r <= Len(rest[m.in])
  PROVE  IsFilled(client.files, r, Filled(r))
<1>1. PICK F : F = client.files
  OBVIOUS
<1>2. PICK v : v = Filled(r)
  OBVIOUS
<1> SUFFICES IsFilled(F, r, v)
  BY <1>1, <1>2
<1>3. PICK c : c = Settled(r)
  OBVIOUS
<1>4. PICK k : k = Kept
  OBVIOUS
<1>5. PICK a : a = B(m).ch
  OBVIOUS
<1>6. PICK w : w = [c EXCEPT !.n = @ + k, !.text = 0]
  OBVIOUS
<1>7. v = Poke(Poke(w, w.n, NUL), w.n + 1, NUL)
  <2>1. v = Marked([Settled(r) EXCEPT !.n = @ + Kept, !.text = 0])
    BY <1>2, Zenon DEF Filled, Settled, Poured, Behind
  <2> QED BY <1>3, <1>4, <1>6, <2>1 DEF Marked
<1>8. IsSettled(F, r, c)
  BY <1>1, <1>3, Settles
<1>9. /\ k \in Nat /\ k <= m.n /\ m.n \in Nat /\ m.n <= B(m).size /\ B(m).size \in Nat /\ Cur # None
      /\ m.init /\ \A i \in 0..k - 1 : a[i] \in Char
  BY <1>4, <1>5, RefillKnown
<1>10. /\ Framed(F, c) /\ YY_CURRENT_BUFFER(c) = Cur /\ DOMAIN c.buf = DOMAIN m.buf
       /\ c.n = r /\ c.init /\ c.in \in F /\ B(c).size = B(m).size
       /\ (B(c).status = "new" => B(c).n = r /\ k = 0)
       /\ (\A i \in 0..k - 1 : B(c).ch[i] = a[i])
       /\ (\A i \in k..k + r - 1 : B(c).ch[i] \in Char)
       /\ (r = 0 /\ k = 0 => c.cp = 0 /\ c.hold = NUL)
  BY <1>4, <1>5, <1>8, <1>9 DEF IsSettled
<1>11. Record(c) /\ Counts(F, c) /\ Whole(F, B(c))
  BY <1>9, <1>10, CurrentHeld DEF Framed, Globals
<1>12. PICK n : n = k + r
  OBVIOUS
<1>13. n \in Nat /\ n <= B(m).size /\ c.n + k = n
  <2>1. r > 0 => k + r <= B(m).size
    BY <1>4
  <2>2. c.n = r
    BY <1>10
  <2> QED BY <1>9, <1>12, <2>1, <2>2
<1>14. /\ w.buf = c.buf /\ SameStack(c, w) /\ w.n = n /\ w.text = 0 /\ w.leng = c.leng
       /\ w.hold = c.hold /\ w.cp = c.cp /\ w.init = c.init /\ w.in = c.in /\ w.las = c.las
       /\ w.lac = c.lac /\ Record(w)
  <2>1. w = [c EXCEPT !.n = n, !.text = 0]
    BY <1>6, <1>13
  <2> QED BY <1>11, <2>1 DEF Record, SameStack
<1>15. Counts(F, w)
  BY <1>11, <1>13, <1>14 DEF Counts
<1>16. Framed(F, w) /\ YY_CURRENT_BUFFER(w) = Cur /\ B(w) = B(c)
  BY <1>10, <1>14, <1>15, Recounted
<1>17. PICK p : p = Poke(w, n, NUL)
  OBVIOUS
<1>18. n \in 0..B(w).size + 1 /\ n + 1 \in 0..B(w).size + 1 /\ NUL \in Slot /\ YY_CURRENT_BUFFER(w) # None
  BY <1>9, <1>10, <1>13, <1>16, Classes DEF Slot
<1>19. IsPoked(F, w, n, NUL, p)
  BY <1>16, <1>17, <1>18, Poked
<1>20. Framed(F, p) /\ YY_CURRENT_BUFFER(p) # None /\ n + 1 \in 0..B(p).size + 1
  BY <1>18, <1>19 DEF IsPoked, SameButText
<1>21. v = Poke(p, n + 1, NUL)
  BY <1>7, <1>14, <1>17
<1>22. IsPoked(F, p, n + 1, NUL, v)
  BY <1>18, <1>20, <1>21, Poked
<1>23. B(v).ch = [[B(c).ch EXCEPT ![n] = NUL] EXCEPT ![n + 1] = NUL]
  BY <1>16, <1>19, <1>22 DEF IsPoked
<1>24. /\ \A i \in 0..n - 1 : B(v).ch[i] = B(c).ch[i]
       /\ B(v).ch[n] = NUL /\ B(v).ch[n + 1] = NUL
  <2>1. B(c).ch \in [0..B(m).size + 1 -> Slot] /\ n \in 0..B(m).size + 1 /\ n + 1 \in 0..B(m).size + 1
    BY <1>10, <1>11, <1>16, <1>18 DEF Whole
  <2>2. \A i \in 0..n - 1 : i \in 0..B(m).size + 1 /\ i # n /\ i # n + 1
    BY <1>9, <1>13
  <2>3. n # n + 1
    BY <1>13
  <2> QED BY <1>23, <2>1, <2>2, <2>3
<1>25. Plain(B(v).ch, 0, n)
  <2>1. \A i \in 0..n + 1 : i = n \/ i = n + 1 \/ (i \in 0..n - 1 /\ (i \in 0..k - 1 \/ i \in k..k + r - 1))
    BY <1>9, <1>12, <1>13
  <2> QED BY <1>9, <1>10, <1>24, <2>1, Classes DEF Plain
<1>26. \A i \in 0..k - 1 : B(v).ch[i] = a[i]
  <2>1. \A i \in 0..k - 1 : i \in 0..n - 1
    BY <1>9, <1>12
  <2> QED BY <1>10, <1>24, <2>1
<1>27. /\ Framed(F, v) /\ YY_CURRENT_BUFFER(v) = Cur /\ DOMAIN v.buf = DOMAIN m.buf
       /\ v.n = n /\ v.text = 0 /\ v.init /\ v.in \in F /\ v.cp = c.cp /\ v.hold = c.hold
       /\ SameButText(B(c), B(v))
  BY <1>10, <1>14, <1>16, <1>19, <1>22 DEF IsPoked, Same, SameButText
<1>28. Awake(F, v)
  <2>1. B(v).status = "new" => B(v).n = n
    <3>1. r \in Nat /\ (k = 0 => n = r)
      BY <1>9, <1>12
    <3> QED BY <1>10, <1>27, <3>1 DEF SameButText
  <2> QED BY <1>9, <1>10, <1>13, <1>27, <2>1 DEF Awake, SameButText
<1>29. Beside(m, v)
  <2>1. Beside(m, c) /\ Beside(c, w)
    BY <1>8, <1>14, BesideSame DEF IsSettled
  <2>2. Beside(w, p) /\ Beside(p, v)
    BY <1>19, <1>22 DEF IsPoked
  <2> QED BY <2>1, <2>2, BesideToo
<1>30. v.in = m.in /\ B(v).fill = B(m).fill
  <2>1. c.in = m.in /\ B(c).fill = B(m).fill
    BY <1>8 DEF IsSettled
  <2>2. v.in = c.in
    BY <1>14, <1>19, <1>22 DEF IsPoked, Same
  <2> QED BY <1>27, <2>1, <2>2 DEF SameButText
<1>31. B(v).status = IF r > 0 THEN B(m).status ELSE IF Kept = 0 THEN "new" ELSE "pending"
  BY <1>8, <1>27 DEF IsSettled, SameButText
<1>32. \A i \in k..k + r - 1 : B(v).ch[i] = rest[m.in][i - k + 1]
  <2>1. \A i \in k..k + r - 1 : i \in 0..n - 1
    BY <1>9, <1>12
  <2>2. \A i \in k..k + r - 1 : B(c).ch[i] = rest[m.in][i - k + 1]
    BY <1>4, <1>8 DEF IsSettled
  <2> QED BY <1>24, <2>1, <2>2
<1> QED BY <1>4, <1>5, <1>10, <1>12, <1>25, <1>26, <1>27, <1>28, <1>29, <1>30, <1>31, <1>32 DEF IsFilled

(* What a read of r characters comes to: yylex goes on, input hands out the
   first of them, or the end is told. *)
Grows(r) ==
  /\ m'.n = Kept + r /\ \A i \in 0..Kept - 1 : B(m').ch[i] = B(m).ch[i]
  /\ \A i \in Kept..Kept + r - 1 : B(m').ch[i] = rest[m.in][i - Kept + 1]
  /\ B(m').status = (IF r > 0 THEN B(m).status ELSE "pending")
LastOf(r) ==
  /\ pc' = "find" /\ r = 0 /\ Kept > 0 /\ lp' = Kept
  /\ st' \in {1, 4, 7, 8} /\ Run(B(m').ch, 0, Kept, st')
IsRead(r) ==
  /\ pc = "refill" /\ r \in Nat /\ r <= Len(rest[m.in])
  /\ (r > 0 <=> ~(Pending \/ rest[m.in] = <<>>)) /\ rest' = [rest EXCEPT ![m.in] = Drop(@, r)]
  /\ Beside(m, m') /\ m'.init /\ m'.in = m.in /\ B(m').fill
  /\ \/ /\ by = "yylex" /\ bp' = 0 /\ owed' = owed /\ Grows(r) /\ (pc' = "match" \/ LastOf(r))
     \/ /\ by = "input" /\ r > 0 /\ pc' = "idle" /\ m'.n = Kept + r /\ m'.cp = Kept + 1
        /\ \A i \in Kept + 1..Kept + r - 1 : Restored(m')[i] = rest[m.in][i - Kept + 1]
        /\ B(m').status = B(m).status /\ owed' = [owed EXCEPT ![Cur] = Drop(@, 1)]
     \/ /\ r = 0 /\ (by = "yylex" => Kept = 0) /\ pc' = "idle" /\ m'.n = 0 /\ m'.cp = 0
        /\ tok' = EndToken /\ B(m').status = "new" /\ owed' = [owed EXCEPT ![Cur] = Drop(@, Len(EndToken.text))]
LEMMA ReadStep ==
  ASSUME IInv, Read
  PROVE  IInv' /\ \E r \in Nat : IsRead(r)
<1>1. PICK F : F = client.files
  OBVIOUS
<1>2. PICK k : k = Kept
  OBVIOUS
<1>3. PICK r \in Amounts :
        \E w \in {Filled(r)} :
          /\ rest' = [rest EXCEPT ![m.in] = Drop(@, r)]
          /\ Resume(by, w, IF r > 0 THEN "continue" ELSE IF Kept = 0 THEN "eof" ELSE "last", Kept)
  BY DEF Read
<1>4. PICK v : v = Filled(r)
  OBVIOUS
<1>5. /\ pc = "refill" /\ (Pending \/ Room > 0) /\ client' = client /\ by' = by
      /\ rest' = [rest EXCEPT ![m.in] = Drop(@, r)]
      /\ Resume(by, v, IF r > 0 THEN "continue" ELSE IF k = 0 THEN "eof" ELSE "last", k)
  BY <1>2, <1>3, <1>4 DEF Read
<1>6. /\ r \in Nat /\ (r > 0 => k + r <= B(m).size) /\ r <= Len(rest[m.in])
      /\ (r > 0 <=> ~(Pending \/ rest[m.in] = <<>>))
  BY <1>2, <1>5, AmountsFit
<1>7. IsFilled(F, r, v)
  BY <1>1, <1>2, <1>4, <1>5, <1>6, Fills
<1>8. /\ k \in Nat /\ (by = "yylex" => Prefix(B(m).ch, 0, k)) /\ m.in \in F /\ Cur # None
  BY <1>1, <1>2, <1>5, RefillKnown
<1>9. /\ Framed(F, v) /\ Awake(F, v) /\ YY_CURRENT_BUFFER(v) = Cur /\ DOMAIN v.buf = DOMAIN m.buf
      /\ v.n = k + r /\ v.text = 0 /\ v.init /\ v.in \in F /\ Plain(B(v).ch, 0, v.n)
      /\ (\A i \in 0..k - 1 : B(v).ch[i] = B(m).ch[i])
      /\ (r = 0 /\ k = 0 => v.cp = 0 /\ v.hold = NUL)
      /\ (\A i \in k..k + r - 1 : B(v).ch[i] = rest[m.in][i - k + 1])
      /\ Beside(m, v) /\ v.in = m.in /\ B(v).fill
      /\ B(v).status = IF r > 0 THEN B(m).status ELSE IF k = 0 THEN "new" ELSE "pending"
  <2>1. B(m).fill
    BY <1>5, RefillKnown
  <2> QED BY <1>2, <1>7, <2>1 DEF IsFilled
<1>10. /\ v.n \in Nat /\ v.text <= k /\ k <= v.n /\ v.text <= v.n
       /\ B(v).ch \in [0..B(v).size + 1 -> Slot] /\ B(v).size \in Nat /\ v.text + k = k
  <2>1. B(v).ch \in [0..B(v).size + 1 -> Slot] /\ B(v).size \in Nat
    BY <1>9, Bounds
  <2> QED BY <1>6, <1>8, <1>9, <2>1
<1>11. by = "yylex" => Prefix(B(v).ch, v.text, k)
  BY <1>8, <1>9, PrefixKept
<1>12. Plain(B(v).ch, v.text, v.n)
  BY <1>9
<1>13. /\ rest' \in [client.files -> Seq(Char)] /\ DOMAIN owed \subseteq DOMAIN m.buf
       /\ Typed /\ by' \in {"yylex", "input"}
  <2>1. rest \in [F -> Seq(Char)] /\ DOMAIN owed \subseteq DOMAIN m.buf /\ Typed /\ by' \in {"yylex", "input"}
    BY <1>1, <1>5, ClientKnown DEF IInv, Typed
  <2>2. Drop(rest[m.in], r) \in Seq(Char)
    <3>1. PICK s : s = rest[m.in]
      OBVIOUS
    <3>2. s \in Seq(Char) /\ Len(s) \in Nat
      BY <1>8, <2>1, <3>1
    <3>3. SubSeq(s, r + 1, Len(s)) \in Seq(Char)
      BY <1>6, <3>2
    <3> QED BY <3>1, <3>3 DEF Drop
  <2> QED BY <1>1, <1>5, <2>1, <2>2
<1>14. ASSUME Beside(m, m'), m'.init, m'.in = m.in, B(m').fill,
              \/ /\ by = "yylex" /\ bp' = 0 /\ owed' = owed /\ Grows(r) /\ (pc' = "match" \/ LastOf(r))
              \/ /\ by = "input" /\ r > 0 /\ pc' = "idle" /\ m'.n = k + r /\ m'.cp = k + 1
                 /\ \A i \in k + 1..k + r - 1 : Restored(m')[i] = rest[m.in][i - k + 1]
                 /\ B(m').status = B(m).status /\ owed' = [owed EXCEPT ![Cur] = Drop(@, 1)]
              \/ /\ r = 0 /\ (by = "yylex" => k = 0) /\ pc' = "idle" /\ m'.n = 0 /\ m'.cp = 0
                 /\ tok' = EndToken /\ B(m').status = "new" /\ owed' = [owed EXCEPT ![Cur] = Drop(@, Len(EndToken.text))]
       PROVE  IsRead(r)
  BY <1>2, <1>5, <1>6, <1>14, Zenon DEF IsRead
<1>15. CASE r > 0 /\ by = "yylex"
  <2>1. ScanOn(v, k, "match")
    BY <1>5, <1>10, <1>15 DEF Resume
  <2>2. /\ pc' = "match" /\ owed' = owed /\ DOMAIN m'.buf = DOMAIN v.buf
        /\ Framed(client.files, m)' /\ AtMatch' /\ st' \in 1..10 /\ lp' \in Nat /\ bp' \in Nat
        /\ IsScanned(F, v, k, m', st') /\ bp' = v.text
    BY <1>1, <1>5, <1>8, <1>9, <1>10, <1>11, <1>12, <1>15, <2>1, TakesUp
  <2>3. Typed'
    BY <1>5, <1>9, <1>13, <2>2 DEF Typed
  <2>4. IsRead(r)
    <3>1. /\ m'.buf = v.buf /\ SameStack(v, m') /\ B(m') = B(v) /\ m'.n = v.n /\ m'.init /\ m'.in = v.in
      BY <1>9, <2>2 DEF IsScanned
    <3>2. Beside(m, m')
      BY <1>9, <3>1, BesideSame, BesideToo
    <3>3. Grows(r)
      BY <1>2, <1>9, <1>15, <3>1 DEF Grows
    <3> QED BY <1>9, <1>15, <1>14, <2>2, <3>1, <3>2, <3>3
  <2> QED BY <1>6, <2>2, <2>3, <2>4 DEF IInv
<1>16. CASE r > 0 /\ by = "input"
  <2>1. PICK x : x = [v EXCEPT !.cp = k]
    OBVIOUS
  <2>2. Give(x)
    BY <1>5, <1>10, <1>16, <2>1 DEF Resume
  <2>3. Record(v) /\ Counts(F, v)
    BY <1>9 DEF Framed, Globals
  <2>4. /\ x.buf = v.buf /\ SameStack(v, x) /\ x.n = v.n /\ x.text = v.text /\ x.leng = v.leng
        /\ x.hold = v.hold /\ x.cp = k /\ x.init = v.init /\ x.in = v.in /\ x.las = v.las
        /\ x.lac = v.lac /\ Record(x)
    BY <2>1, <2>3 DEF Record, SameStack
  <2>5. Counts(F, x)
    BY <1>8, <2>3, <2>4 DEF Counts
  <2>6. Framed(F, x) /\ YY_CURRENT_BUFFER(x) = Cur /\ B(x) = B(v) /\ Awake(F, x)
    BY <1>9, <2>4, <2>5, Recounted DEF Awake
  <2>7. x.cp < x.n /\ x.text <= x.n /\ x.init
    BY <1>6, <1>8, <1>9, <1>10, <1>16, <2>4
  <2>8. \A i \in 0..x.n + 1 : B(x).ch[i] \in Char
    BY <1>9, <2>4, <2>6 DEF Plain
  <2>9. B(x).ch[x.n] = NUL /\ B(x).ch[x.n + 1] = NUL
    BY <1>9, <2>4, <2>6 DEF Plain
  <2>10. /\ Framed(F, m') /\ Between(F, m') /\ DOMAIN m'.buf = DOMAIN x.buf
         /\ pc' = "idle" /\ st' = 1 /\ bp' = 0 /\ lp' = 0 /\ DOMAIN owed' = DOMAIN owed
         /\ Given(x, m') /\ owed' = [owed EXCEPT ![Cur] = Drop(@, 1)]
    BY <2>2, <2>6, <2>7, <2>8, <2>9, Gives
  <2>11. IsRead(r)
    <3>1. Beside(m, m')
      <4>1. Beside(v, x) /\ Beside(x, m')
        BY <2>4, <2>10, BesideSame DEF Given
      <4> QED BY <1>9, <4>1, BesideToo
    <3>2. /\ m'.n = k + r /\ m'.cp = k + 1 /\ m'.in = m.in /\ m'.init /\ B(m').fill
          /\ B(m').status = B(m).status /\ Restored(m') = [B(v).ch EXCEPT ![k] = NUL]
      BY <1>9, <1>16, <2>4, <2>6, <2>10 DEF Given
    <3>3. ASSUME NEW i \in k + 1..k + r - 1 PROVE Restored(m')[i] = rest[m.in][i - k + 1]
      <4>1. i \in k..k + r - 1 /\ i # k
        BY <1>6, <1>8
      <4>2. Restored(m')[i] = B(v).ch[i]
        <5>1. i \in 0..B(v).size + 1
          BY <1>6, <1>8, <1>9, <1>10, Bounds
        <5> QED BY <1>10, <3>2, <4>1, <5>1
      <4> QED BY <1>9, <4>1, <4>2
    <3> QED BY <1>16, <1>14, <2>10, <3>1, <3>2, <3>3
  <2>12. IInv'
    BY <1>1, <1>5, <1>9, <1>13, <2>4, <2>10, RestsAgain
  <2> QED BY <1>6, <2>11, <2>12
<1>17. CASE r = 0 /\ k = 0
  <2>1. Resume(by, v, "eof", k)
    BY <1>5, <1>17
  <2>2. m' = (IF by = "yylex" THEN [v EXCEPT !.cp = v.text] ELSE v) /\ Return(EndToken)
    BY <2>1 DEF Resume
  <2>3. pc' = "idle" /\ st' = 1 /\ bp' = 0 /\ lp' = 0 /\ DOMAIN owed' = DOMAIN owed
    BY <2>2 DEF Return
  <2>4. m' = v
    <3>1. [v EXCEPT !.cp = v.text] = v
      BY <1>9, <1>17 DEF Framed, Globals, Record
    <3> QED BY <2>2, <3>1
  <2>5. Restored(v) = B(v).ch
    <3>1. B(v).ch[0] = NUL /\ 0 \in 0..B(v).size + 1
      BY <1>9, <1>10, <1>17 DEF Plain
    <3> QED BY <1>9, <1>10, <1>17, <3>1 DEF Restored
  <2>6. Between(F, v)
    <3>1. v.cp <= v.n /\ v.text <= v.n
      BY <1>9, <1>10, <1>17
    <3> QED BY <1>9, <2>5, <3>1 DEF Between, Plain
  <2>7. IsRead(r)
    <3>1. m'.n = 0 /\ m'.cp = 0 /\ B(m').status = "new"
      BY <1>9, <1>17, <2>4
    <3>2. owed' = [owed EXCEPT ![Cur] = Drop(@, Len(EndToken.text))] /\ tok' = EndToken
      BY <2>2 DEF Return
    <3> QED BY <1>9, <1>17, <1>14, <2>3, <2>4, <3>1, <3>2
  <2>8. IInv'
    BY <1>1, <1>5, <1>9, <1>13, <2>3, <2>4, <2>6, RestsAgain
  <2> QED BY <1>6, <2>7, <2>8
<1>18. CASE r = 0 /\ k # 0 /\ by = "yylex"
  <2>1. ScanOn(v, v.n, "find") /\ v.n = k
    BY <1>5, <1>8, <1>9, <1>18 DEF Resume, LastMatch
  <2>2. v.text < v.n
    BY <1>8, <1>9, <1>18, <2>1
  <2>3. /\ pc' = "find" /\ owed' = owed /\ DOMAIN m'.buf = DOMAIN v.buf
        /\ Framed(client.files, m)' /\ AtFind' /\ st' \in 1..10 /\ lp' \in Nat /\ bp' \in Nat
        /\ IsScanned(F, v, v.n, m', st') /\ bp' = v.text /\ lp' = v.n
    BY <1>1, <1>5, <1>9, <1>10, <1>11, <1>12, <1>18, <2>1, <2>2, TakesUp
  <2>4. Typed'
    BY <1>5, <1>9, <1>13, <2>3 DEF Typed
  <2>5. IsRead(r)
    <3>1. /\ m'.buf = v.buf /\ SameStack(v, m') /\ B(m') = B(v) /\ m'.n = v.n /\ m'.init /\ m'.in = v.in
      BY <1>9, <2>3 DEF IsScanned
    <3>2. Beside(m, m')
      BY <1>9, <3>1, BesideSame, BesideToo
    <3>3. Grows(r)
      BY <1>2, <1>9, <1>18, <3>1 DEF Grows
    <3>4. LastOf(r)
      BY <1>2, <1>8, <1>9, <1>18, <2>1, <2>3, <3>1 DEF LastOf, IsScanned
    <3> QED BY <1>9, <1>18, <1>14, <2>3, <3>1, <3>2, <3>3, <3>4
  <2> QED BY <1>6, <2>3, <2>4, <2>5 DEF IInv
<1>19. CASE r = 0 /\ k # 0 /\ by = "input"
  <2>1. Resume(by, v, "last", k)
    BY <1>5, <1>19
  <2>2. m' = yyrestart(v, v.in) /\ Return(EndToken)
    BY <1>19, <2>1 DEF Resume
  <2>3. pc' = "idle" /\ st' = 1 /\ bp' = 0 /\ lp' = 0 /\ DOMAIN owed' = DOMAIN owed
    BY <2>2 DEF Return
  <2>4. IsRestarted(F, v, v.in, m')
    <3>1. CanBegin(F, v)
      BY <1>8, <1>9 DEF CanBegin
    <3> QED BY <1>9, <2>2, <3>1, Restarts
  <2>5. Framed(F, m') /\ Between(F, m')
    BY <2>4 DEF IsRestarted, AtRest
  <2>6. DOMAIN m'.buf = DOMAIN m.buf
    <3>1. Cur \in DOMAIN m.buf
      BY <1>5, RefillKnown
    <3>2. DOMAIN m'.buf = DOMAIN v.buf \cup {Cur}
      BY <1>8, <1>9, <2>4 DEF IsRestarted
    <3> QED BY <1>9, <3>1, <3>2
  <2>7. IsRead(r)
    <3>1. /\ YY_CURRENT_BUFFER(m') = Cur /\ m'.n = 0 /\ m'.cp = 0 /\ m'.in = v.in /\ m'.init
          /\ Empty(B(m'), v.in) /\ StillOff(v, m', {Cur})
          /\ \A o \in DOMAIN v.buf \ {Cur} : m'.buf[o] = v.buf[o]
      BY <1>8, <1>9, <2>4 DEF IsRestarted
    <3>2. Beside(v, m')
      BY <1>9, <2>6, <3>1 DEF Beside
    <3>3. Beside(m, m')
      BY <1>9, <3>2, BesideToo
    <3>4. B(m').fill /\ B(m').status = "new"
      BY <3>1 DEF Empty
    <3>5. owed' = [owed EXCEPT ![Cur] = Drop(@, Len(EndToken.text))] /\ tok' = EndToken
      BY <2>2 DEF Return
    <3> QED BY <1>9, <1>19, <1>14, <2>3, <3>1, <3>3, <3>4, <3>5
  <2>8. IInv'
    BY <1>1, <1>5, <1>13, <2>3, <2>5, <2>6, RestsAgain
  <2> QED BY <1>6, <2>7, <2>8
<1>20. by \in {"yylex", "input"} /\ (r > 0 \/ r = 0)
  BY <1>6, <1>13 DEF Typed
<1> QED BY <1>15, <1>16, <1>17, <1>18, <1>19, <1>20
-----------------------------------------------------------------------------
(* The invariant. *)

LEMMA InitInv == Init => IInv
<1> SUFFICES ASSUME Init PROVE IInv
  OBVIOUS
<1>1. PICK F : F = client.files
  OBVIOUS
<1>2. /\ client \in Clients /\ m = Start /\ rest \in [F -> client.texts] /\ pc = "idle" /\ st = 1
      /\ bp = 0 /\ lp = 0 /\ by = "yylex" /\ owed = <<>>
  BY <1>1 DEF Init
<1>3. Stdin \in F /\ F \subseteq File /\ client.texts \subseteq Seq(Char)
  BY <1>1, <1>2, ScannerAssumption
<1>4. /\ m.buf = <<>> /\ m.stack = <<>> /\ m.top = 0 /\ m.n = 0 /\ m.cp = 0 /\ m.text = 0
      /\ m.leng = 0 /\ m.hold = NUL /\ m.init = FALSE /\ m.in = None /\ m.las = 1 /\ m.lac = 0
      /\ Record(m)
  BY <1>2 DEF Start, yy_init_globals, Record
<1>5. DOMAIN m.buf = {} /\ DOMAIN owed = {} /\ m.buf = [b \in DOMAIN m.buf |-> m.buf[b]]
  BY <1>2, <1>4
<1>6. Counts(F, m)
  <2>1. m.hold \in Slot
    BY <1>4, Classes DEF Slot
  <2>2. m.init \in BOOLEAN
    <3>1. PICK t \in BOOLEAN : t = FALSE
      OBVIOUS
    <3>2. m.init = t
      BY <1>4, <3>1
    <3> QED BY <3>2
  <2>3. m.in \in F \cup {None} /\ m.las \in 1..10
    BY <1>4
  <2> QED BY <1>4, <2>1, <2>2, <2>3 DEF Counts
<1>7. Stacked(m)
  BY <1>4 DEF Stacked
<1>8. Cur = None
  BY <1>4 DEF Cur, YY_CURRENT_BUFFER
<1>9. Framed(F, m)
  BY <1>4, <1>5, <1>6, <1>7 DEF Framed, Globals
<1>10. Typed
  BY <1>1, <1>2, <1>3, <1>5 DEF Typed
<1> QED BY <1>1, <1>2, <1>8, <1>9, <1>10 DEF IInv

LEMMA StepKeeps ==
  ASSUME IInv, Step
  PROVE  IInv'
  BY MatchStep, FindActionStep, RealNulStep, EndOfBufferStep, GrowStep, ReadStep, ReadFailsStep,
     DestroyTopStep, DestroyStackStep DEF Step

LEMMA ClientKeeps ==
  ASSUME IInv, Client
  PROVE  IInv'
<1>1. CASE yylex \/ input \/ Pop \/ Destroy
  BY <1>1, YylexStep, InputStep, PopStep, DestroyStep
<1>2. CASE \E c \in PushBack : yyunput(c)
  BY <1>2, UnputStep
<1>3. CASE Cur # None /\ \E n \in 0..m.leng - 1 : yyless(n)
  BY <1>3, LessStep
<1>4. CASE \E s \in client.texts : ScanBytes(s)
  BY <1>4, ScanStep
<1>5. CASE \E b \in Buf : Push(b) \/ Switch(b) \/ Delete(b) \/ Flush(b)
  BY <1>5, PushStep, DeleteStep, FlushStep
<1>6. CASE \E f \in client.files : Restart(f) \/ yyset_in(f) \/ \E z \in Sizes : CreateBuffer(f, z)
  BY <1>6, RestartStep, SetInStep, CreateStep
<1> QED BY <1>1, <1>2, <1>3, <1>4, <1>5, <1>6 DEF Client

LEMMA Stutters ==
  ASSUME IInv, UNCHANGED vars
  PROVE  IInv'
<1>1. UNCHANGED <<client, m, rest, pc, st, bp, lp, by, tok, owed>>
  BY DEF vars
<1>2. Typed' /\ Framed(client.files, m)'
  BY <1>1 DEF IInv, Typed
<1>3. (pc \in {"idle", "destroy"} /\ Cur # None => Between(client.files, m))'
  BY <1>1 DEF IInv, Cur
<1>4. (pc = "match" => AtMatch)' /\ (pc = "find" => AtFind)'
  BY <1>1 DEF IInv, AtMatch, AtFind
<1>5. (pc = "eob" => AtEob)' /\ (pc = "refill" => AtRefill)'
  BY <1>1 DEF IInv, AtEob, AtRefill
<1>6. (pc = "fatal" => m.n <= B(m).size /\ m.cp <= B(m).size + 2)'
  BY <1>1 DEF IInv
<1> QED BY <1>2, <1>3, <1>4, <1>5, <1>6 DEF IInv

(***************************************************************************)
(* At every point of a call the text behind yytext ends in two end marks,  *)
(* the current buffer is the one the globals count in, what the automaton  *)
(* went through is a token's beginning, and every buffer off the top of    *)
(* the stack is whole, its hold character put back (lex.yy.c, 674-1019,    *)
(* 1078-1118, 1193-1456).                                                  *)
(***************************************************************************)
THEOREM Invariance == Spec => []IInv
<1>1. IInv /\ [Next]_vars => IInv'
  BY StepKeeps, ClientKeeps, Stutters DEF Next, Ended
<1> QED BY <1>1, InitInv, PTL DEF Spec

(* The counts in the current buffer at every point of a call. *)
LEMMA CountsInside ==
  ASSUME IInv, Cur # None
  PROVE  m.n \in 0..m.buf[Cur].size /\ m.cp \in 0..m.buf[Cur].size + 2
<1>1. PICK F : F = client.files
  OBVIOUS
<1>2. Framed(F, m) /\ YY_CURRENT_BUFFER(m) = Cur /\ m.buf[Cur] = B(m) /\ YY_CURRENT_BUFFER(m) # None
  BY <1>1 DEF IInv, Cur, B
<1>3. Counts(F, m) /\ Whole(F, B(m))
  BY <1>2, CurrentHeld DEF Framed, Globals
<1>4. m.n \in Nat /\ m.cp \in Nat /\ B(m).size \in Nat
  BY <1>3 DEF Counts, Whole
<1>5. m.n <= B(m).size /\ m.cp <= B(m).size + 2
  <2>1. CASE pc \in {"idle", "destroy"}
    <3>1. m.n <= B(m).size /\ m.cp <= m.n
      BY <1>1, <2>1 DEF IInv, Between, Awake
    <3> QED BY <1>4, <3>1
  <2>2. CASE pc \in {"match", "find"}
    <3>1. m.n <= B(m).size /\ m.cp <= m.n
      BY <1>1, <2>2 DEF IInv, AtMatch, AtFind, Awake
    <3> QED BY <1>4, <3>1
  <2>3. CASE pc = "eob"
    <3>1. m.n <= B(m).size /\ m.cp <= m.n + 1
      BY <1>1, <2>3 DEF IInv, AtEob, Awake
    <3> QED BY <1>4, <3>1
  <2>4. CASE pc = "refill"
    <3>1. m.n <= B(m).size /\ m.cp <= m.n + 1
      BY <1>1, <2>4 DEF IInv, AtRefill, Awake
    <3> QED BY <1>4, <3>1
  <2>5. CASE pc = "fatal"
    BY <2>5 DEF IInv
  <2> QED BY <2>1, <2>2, <2>3, <2>4, <2>5 DEF IInv, Typed
<1> QED BY <1>2, <1>4, <1>5

(***************************************************************************)
(* Every variable has its type, and at every point of a call yy_n_chars    *)
(* and yy_c_buf_p lie inside the current buffer, whatever sizes, streams   *)
(* and buffers the program uses (lex.yy.c, 290-316, 924-1019).             *)
(***************************************************************************)
THEOREM TypeCorrect == Spec => []TypeOK
<1>1. ASSUME IInv PROVE TypeOK
  <2>1. PICK F : F = client.files
    OBVIOUS
  <2>2. Globals(F, m) /\ Typed /\ F \subseteq File
    BY <1>1, <2>1, ClientKnown DEF IInv
  <2>3. ASSUME NEW b \in DOMAIN m.buf
        PROVE  /\ m.buf[b].n \in 0..m.buf[b].size /\ m.buf[b].pos \in 0..m.buf[b].size
               /\ m.buf[b].status \in {"new", "normal", "pending"}
               /\ m.buf[b].file \in File \cup {None}
    <3>1. Whole(F, m.buf[b])
      BY <2>2, <2>3 DEF Globals
    <3> QED BY <2>2, <3>1 DEF Whole
  <2>4. m.top \in 0..Len(m.stack) /\ m.in \in File \cup {None}
    <3>1. Stacked(m) /\ Counts(F, m)
      BY <2>2 DEF Globals
    <3>2. m.top \in Nat /\ m.stack \in Seq(Buf \cup {None})
          /\ IF m.stack = <<>> THEN m.top = 0 ELSE m.top < Len(m.stack)
      BY <3>1 DEF Stacked
    <3>3. m.top \in 0..Len(m.stack)
      BY <3>2
    <3> QED BY <2>2, <3>1, <3>3 DEF Counts
  <2>5. Cur # None => m.n \in 0..m.buf[Cur].size /\ m.cp \in 0..m.buf[Cur].size + 2
    BY <1>1, CountsInside
  <2>6. DOMAIN m.buf \subseteq Buf /\ DOMAIN owed \subseteq DOMAIN m.buf
    BY <2>2 DEF Globals, Typed
  <2> QED BY <2>2, <2>3, <2>4, <2>5, <2>6 DEF TypeOK, Typed
<1> QED BY <1>1, Invariance, PTL

(***************************************************************************)
(* Whatever the sizes of the buffers, the reads and the program around it, *)
(* the scanner matches only memory inside the buffer that was written      *)
(* before, and its stack stays in its array and names no freed buffer and  *)
(* none twice (lex.yy.c, 690-700, 924-1019, 1291-1304, 1372-1456).         *)
(***************************************************************************)
THEOREM MemoryAlwaysSound == Spec => []MemorySound
<1>1. ASSUME IInv PROVE ReadsInside
  <2> SUFFICES ASSUME pc = "match" PROVE lp \in DOMAIN Chars(m) /\ Chars(m)[lp] # Junk
    BY DEF ReadsInside
  <2>1. PICK F : F = client.files
    OBVIOUS
  <2>2. /\ Framed(F, m) /\ AtMatch /\ Awake(F, m) /\ Plain(B(m).ch, bp, m.n)
        /\ bp <= lp /\ bp \in Nat /\ lp \in Nat
    BY <1>1, <2>1 DEF IInv, AtMatch, Typed
  <2>3. /\ m.n \in Nat /\ m.n <= B(m).size /\ B(m).size \in Nat
        /\ B(m).ch \in [0..B(m).size + 1 -> Slot]
    BY <2>2, Bounds
  <2>4. lp <= m.n + 1
    <3>1. lp <= m.n + 1 \/ lp <= m.n
      BY <2>2 DEF AtMatch
    <3> QED BY <2>2, <2>3, <3>1
  <2>5. lp \in bp..m.n + 1 /\ lp \in 0..B(m).size + 1
    BY <2>2, <2>3, <2>4
  <2>6. B(m).ch[lp] \in Char
    BY <2>2, <2>5 DEF Plain
  <2> QED BY <2>3, <2>5, <2>6, Classes DEF Chars, B
<1>2. ASSUME IInv PROVE StackSound
  <2>1. Stacked(m)
    BY <1>2 DEF IInv, Framed, Globals
  <2>2. OnStack \subseteq DOMAIN m.buf
    BY <2>1 DEF OnStack, ToSet, Stacked
  <2> QED BY <2>1, <2>2 DEF StackSound, Stacked
<1>3. IInv => MemorySound
  BY <1>1, <1>2 DEF MemorySound
<1> QED BY <1>3, Invariance, PTL

(* The characters of the array a from place i up to j. *)
Piece(a, i, j) == [k \in 1..j - i |-> a[i + k - 1]]

Holds(S, a, i, j) == i \in Int /\ j \in Int /\ i <= j /\ \A x \in i..j - 1 : a[x] \in S
IsPiece(S, a, i, j, s) ==
  /\ s \in Seq(S) /\ Len(s) = j - i
  /\ \A k \in 1..j - i : s[k] = a[i + k - 1]

LEMMA PieceSeq ==
  ASSUME NEW S, NEW a, NEW i, NEW j, Holds(S, a, i, j)
  PROVE  IsPiece(S, a, i, j, Piece(a, i, j))
<1>0. i \in Int /\ j \in Int /\ i <= j /\ \A x \in i..j - 1 : a[x] \in S
  BY DEF Holds
<1>1. j - i \in Nat
  BY <1>0
<1>2. \A k \in 1..j - i : a[i + k - 1] \in S
  <2>1. \A k \in 1..j - i : i + k - 1 \in i..j - 1
    BY <1>0
  <2> QED BY <1>0, <2>1
<1>3. Piece(a, i, j) \in [1..j - i -> S]
  BY <1>2 DEF Piece
<1>4. Piece(a, i, j) \in Seq(S)
  BY <1>1, <1>3, SeqDef
<1>5. DOMAIN Piece(a, i, j) = 1..j - i
  BY DEF Piece
<1>6. Len(Piece(a, i, j)) = j - i
  BY <1>1, <1>4, <1>5, LenProperties
<1> QED BY <1>4, <1>6 DEF Piece, IsPiece

(* Two arrays that hold the same there, d places apart. *)
LEMMA PieceMoved ==
  ASSUME NEW a, NEW b, NEW i \in Int, NEW j \in Int, NEW d \in Int,
         \A x \in i..j - 1 : b[x + d] = a[x]
  PROVE  Piece(b, i + d, j + d) = Piece(a, i, j)
<1>1. (j + d) - (i + d) = j - i
  OBVIOUS
<1>2. ASSUME NEW k \in 1..j - i PROVE b[(i + d) + k - 1] = a[i + k - 1]
  <2>1. i + k - 1 \in i..j - 1 /\ (i + d) + k - 1 = (i + k - 1) + d
    OBVIOUS
  <2> QED BY <2>1
<1> QED BY <1>1, <1>2 DEF Piece

LEMMA PieceSame ==
  ASSUME NEW a, NEW b, NEW i \in Int, NEW j \in Int, \A x \in i..j - 1 : b[x] = a[x]
  PROVE  Piece(b, i, j) = Piece(a, i, j)
<1>1. \A k \in 1..j - i : i + k - 1 \in i..j - 1
  OBVIOUS
<1> QED BY <1>1 DEF Piece

LEMMA PieceEmpty ==
  ASSUME NEW a, NEW i \in Int
  PROVE  Piece(a, i, i) = <<>>
<1>1. 1..i - i = {}
  OBVIOUS
<1> QED BY <1>1 DEF Piece

(* A text in two parts. *)
LEMMA PieceSplit ==
  ASSUME NEW S, NEW a, NEW i \in Int, NEW j \in Int, NEW n \in Int,
         Holds(S, a, i, n), i <= j, j <= n
  PROVE  Piece(a, i, n) = Piece(a, i, j) \o Piece(a, j, n)
<1> DEFINE s == Piece(a, i, j)
           t == Piece(a, j, n)
           u == Piece(a, i, n)
<1>0. Holds(S, a, i, j) /\ Holds(S, a, j, n) /\ Holds(S, a, i, n)
  BY DEF Holds
<1>1. s \in Seq(S) /\ Len(s) = j - i /\ \A k \in 1..j - i : s[k] = a[i + k - 1]
  <2>1. IsPiece(S, a, i, j, s)
    BY <1>0, PieceSeq
  <2> QED BY <2>1 DEF IsPiece
<1>2. t \in Seq(S) /\ Len(t) = n - j /\ \A k \in 1..n - j : t[k] = a[j + k - 1]
  <2>1. IsPiece(S, a, j, n, t)
    BY <1>0, PieceSeq
  <2> QED BY <2>1 DEF IsPiece
<1>3. u \in Seq(S) /\ Len(u) = n - i /\ \A k \in 1..n - i : u[k] = a[i + k - 1]
  <2>1. IsPiece(S, a, i, n, u)
    BY <1>0, PieceSeq
  <2> QED BY <2>1 DEF IsPiece
<1> HIDE DEF s, t, u
<1>4. /\ s \o t \in Seq(S) /\ Len(s \o t) = n - i
      /\ \A k \in 1..n - i : (s \o t)[k] = IF k <= j - i THEN s[k] ELSE t[k - (j - i)]
  <2>1. Len(s) + Len(t) = n - i
    BY <1>1, <1>2
  <2>2. /\ s \o t \in Seq(S) /\ Len(s \o t) = Len(s) + Len(t)
        /\ \A k \in 1..Len(s) + Len(t) : (s \o t)[k] = IF k <= Len(s) THEN s[k] ELSE t[k - Len(s)]
    <3>1. s \in Seq(S) /\ t \in Seq(S)
      BY <1>1, <1>2
    <3>2. s \o t \in Seq(S)
      BY <3>1, ConcatProperties
    <3>3. Len(s \o t) = Len(s) + Len(t)
      BY <3>1, ConcatProperties
    <3>4. \A k \in 1..Len(s) + Len(t) : (s \o t)[k] = IF k <= Len(s) THEN s[k] ELSE t[k - Len(s)]
      BY <3>1, ConcatProperties
    <3> QED BY <3>2, <3>3, <3>4
  <2> QED BY <1>1, <2>1, <2>2
<1>5. ASSUME NEW k \in 1..n - i PROVE (s \o t)[k] = u[k]
  <2>1. CASE k <= j - i
    BY <1>1, <1>3, <1>4, <2>1
  <2>2. CASE ~(k <= j - i)
    <3>1. k - (j - i) \in 1..n - j /\ j + (k - (j - i)) - 1 = i + k - 1
      BY <2>2
    <3>2. t[k - (j - i)] = a[i + k - 1]
      BY <1>2, <3>1
    <3> QED BY <1>3, <1>4, <2>2, <3>2
  <2> QED BY <2>1, <2>2
<1>6. s \o t = u
  BY <1>3, <1>4, <1>5, SeqEqual
<1> QED BY <1>6 DEF s, t, u

(* What is left of a sequence without its first part. *)
LEMMA DropFirst ==
  ASSUME NEW S, NEW s \in Seq(S), NEW t \in Seq(S)
  PROVE  Drop(s \o t, Len(s)) = t
<1>1. /\ s \o t \in Seq(S) /\ Len(s \o t) = Len(s) + Len(t)
      /\ \A k \in 1..Len(s) + Len(t) : (s \o t)[k] = IF k <= Len(s) THEN s[k] ELSE t[k - Len(s)]
  BY ConcatProperties
<1>2. Len(s) \in Nat /\ Len(t) \in Nat
  BY LenProperties
<1> DEFINE u == s \o t
           v == SubSeq(u, Len(s) + 1, Len(u))
<1>3. \A k \in Len(s) + 1..Len(u) : u[k] \in S
  <2>1. \A k \in 1..Len(u) : u[k] \in S
    BY <1>1, ElementOfSeq
  <2> QED BY <1>1, <1>2, <2>1
<1>4. /\ v \in Seq(S) /\ Len(v) = IF Len(s) + 1 <= Len(u) THEN Len(u) - (Len(s) + 1) + 1 ELSE 0
      /\ \A k \in 1..Len(u) - (Len(s) + 1) + 1 : v[k] = u[(Len(s) + 1) + k - 1]
  <2>1. Len(s) + 1 \in Int /\ Len(u) \in Int
    BY <1>1, <1>2
  <2> QED BY <1>3, <2>1, SubSeqProperties
<1>5. Len(v) = Len(t)
  BY <1>1, <1>2, <1>4
<1>6. ASSUME NEW k \in 1..Len(v) PROVE v[k] = t[k]
  <2>1. v[k] = u[Len(s) + k]
    <3>1. (Len(s) + 1) + k - 1 = Len(s) + k /\ k \in 1..Len(u) - (Len(s) + 1) + 1
      BY <1>1, <1>2, <1>5
    <3> QED BY <1>4, <3>1
  <2>2. Len(s) + k \in 1..Len(s) + Len(t) /\ ~(Len(s) + k <= Len(s)) /\ Len(s) + k - Len(s) = k
    BY <1>2, <1>5
  <2> QED BY <1>1, <2>1, <2>2
<1> HIDE DEF v, u
<1>7. v = t
  BY <1>4, <1>5, <1>6, SeqEqual, Zenon
<1> QED BY <1>7 DEF v, u, Drop

LEMMA DropNone ==
  ASSUME NEW S, NEW s \in Seq(S)
  PROVE  Drop(s, 0) = s
  BY SubSeqFull DEF Drop

(* ... and put together again. *)
LEMMA DropRest ==
  ASSUME NEW S, NEW s \in Seq(S), NEW r \in 0..Len(s)
  PROVE  /\ Piece(s, 1, r + 1) \o Drop(s, r) = s /\ Drop(s, r) \in Seq(S)
         /\ Len(Drop(s, r)) = Len(s) - r
         /\ Piece(s, 1, r + 1) \in Seq(S)
<1>1. Len(s) \in Nat /\ \A k \in 1..Len(s) : s[k] \in S
  <2>1. Len(s) \in Nat
    BY LenProperties, Zenon
  <2>2. \A k \in 1..Len(s) : s[k] \in S
    BY ElementOfSeq, Zenon
  <2> QED BY <2>1, <2>2
<1>2. Drop(s, r) = Piece(s, r + 1, Len(s) + 1)
  <2>1. Len(s) - (r + 1) + 1 = (Len(s) + 1) - (r + 1)
    BY <1>1
  <2>2. /\ SubSeq(s, r + 1, Len(s)) \in Seq(S)
        /\ Len(SubSeq(s, r + 1, Len(s))) = Len(s) - r
        /\ \A k \in 1..Len(s) - r : SubSeq(s, r + 1, Len(s))[k] = s[(r + 1) + k - 1]
    <3>1. r + 1 \in Int /\ Len(s) \in Int /\ \A k \in r + 1..Len(s) : s[k] \in S
      BY <1>1
    <3>2. /\ SubSeq(s, r + 1, Len(s)) \in Seq(S)
          /\ Len(SubSeq(s, r + 1, Len(s))) = IF r + 1 <= Len(s) THEN Len(s) - (r + 1) + 1 ELSE 0
          /\ \A k \in 1..Len(s) - (r + 1) + 1 : SubSeq(s, r + 1, Len(s))[k] = s[(r + 1) + k - 1]
      BY <3>1, SubSeqProperties
    <3>3. Len(s) - (r + 1) + 1 = Len(s) - r
      BY <1>1
    <3>4. (IF r + 1 <= Len(s) THEN Len(s) - (r + 1) + 1 ELSE 0) = Len(s) - r
      BY <1>1
    <3> QED BY <3>2, <3>3, <3>4, Zenon
  <2>3. IsPiece(S, s, r + 1, Len(s) + 1, Piece(s, r + 1, Len(s) + 1))
    <3>1. \A x \in r + 1..Len(s) + 1 - 1 : x \in 1..Len(s)
      BY <1>1
    <3>2. r + 1 \in Int /\ Len(s) + 1 \in Int /\ r + 1 <= Len(s) + 1
      BY <1>1
    <3>3. Holds(S, s, r + 1, Len(s) + 1)
      BY <1>1, <3>1, <3>2 DEF Holds
    <3> QED BY <3>3, PieceSeq
  <2>4. SubSeq(s, r + 1, Len(s)) = Piece(s, r + 1, Len(s) + 1)
    <3>1. (Len(s) + 1) - (r + 1) = Len(s) - r
      BY <1>1
    <3> QED BY <2>2, <2>3, <3>1, SeqEqual, Zenon DEF IsPiece
  <2> QED BY <2>4 DEF Drop
<1>3. r + 1 \in Int /\ 1 <= r + 1 /\ r + 1 <= Len(s) + 1 /\ Holds(S, s, 1, Len(s) + 1)
  BY <1>1 DEF Holds
<1>4. Piece(s, 1, Len(s) + 1) = Piece(s, 1, r + 1) \o Piece(s, r + 1, Len(s) + 1)
  <2>1. PICK b \in Int : b = r + 1
    BY <1>3
  <2>2. PICK e \in Int : e = Len(s) + 1
    BY <1>1
  <2>3. Piece(s, 1, e) = Piece(s, 1, b) \o Piece(s, b, e)
    BY <1>3, <2>1, <2>2, PieceSplit
  <2> QED BY <2>1, <2>2, <2>3
<1>5. IsPiece(S, s, 1, Len(s) + 1, Piece(s, 1, Len(s) + 1))
  <2>1. Holds(S, s, 1, Len(s) + 1)
    BY <1>1 DEF Holds
  <2> QED BY <2>1, PieceSeq
<1>6. Piece(s, 1, Len(s) + 1) = s
  <2>1. (Len(s) + 1) - 1 = Len(s) /\ \A k \in 1..Len(s) : 1 + k - 1 = k
    BY <1>1
  <2>2. /\ Piece(s, 1, Len(s) + 1) \in Seq(S) /\ Len(Piece(s, 1, Len(s) + 1)) = Len(s)
        /\ \A k \in 1..Len(s) : Piece(s, 1, Len(s) + 1)[k] = s[k]
    BY <1>5, <2>1 DEF IsPiece
  <2> QED BY <2>2, SeqEqual
<1>7. IsPiece(S, s, r + 1, Len(s) + 1, Piece(s, r + 1, Len(s) + 1))
  <2>1. Holds(S, s, r + 1, Len(s) + 1)
    BY <1>1 DEF Holds
  <2> QED BY <2>1, PieceSeq
<1>8. IsPiece(S, s, 1, r + 1, Piece(s, 1, r + 1))
  <2>1. Holds(S, s, 1, r + 1)
    BY <1>1 DEF Holds
  <2> QED BY <2>1, PieceSeq
<1>9. (Len(s) + 1) - (r + 1) = Len(s) - r
  BY <1>1
<1> QED BY <1>2, <1>4, <1>6, <1>7, <1>8, <1>9, Zenon DEF IsPiece

-----------------------------------------------------------------------------
(* What a buffer still has to say, and where it reads on. *)
Rested(w) == IF YY_CURRENT_BUFFER(w) = None THEN <<>> ELSE Piece(Restored(w), w.cp, w.n)
Stored(r) ==
  [left |-> Piece(r.ch, r.pos, r.n), in |-> r.file, fill |-> r.fill, status |-> r.status]
Active(w, s) == [left |-> s, in |-> w.in, fill |-> B(w).fill, status |-> B(w).status]
Seen(w, s, b) == IF b = YY_CURRENT_BUFFER(w) THEN Active(w, s) ELSE Stored(w.buf[b])
View(w, s) == [b \in DOMAIN w.buf |-> Seen(w, s, b)]

(* It says what is owed; no stream has two readers. *)
More(v, R) == IF v.fill THEN R[v.in] ELSE <<>>
Told(v, R, t) == v.left \o More(v, R) = t /\ (v.fill /\ v.status = "pending" => R[v.in] = <<>>)
Clash(u, v) == u.fill /\ v.fill /\ u.in = v.in
Honest(V, R, O) ==
  /\ DOMAIN O \subseteq DOMAIN V /\ \A b \in DOMAIN O : Told(V[b], R, O[b])
  /\ \A b, c \in DOMAIN O : b # c => ~Clash(V[b], V[c])

(* What the current buffer has ahead of the reader, at every place of a call. *)
Ahead ==
  IF pc \in {"match", "find"} THEN Piece(B(m).ch, bp, m.n)
  ELSE IF pc = "eob" THEN Piece(Restored(m), bp, m.n)
  ELSE IF pc = "refill" THEN IF by = "yylex" THEN Piece(B(m).ch, 0, Kept) ELSE <<>>
  ELSE Rested(m)
Owns(w, O) == \A b \in DOMAIN w.buf \ DOMAIN O : OffStack(w, b)
Pointing(w) == YY_CURRENT_BUFFER(w) # None /\ ~w.init => w.in = B(w).file
TextInv ==
  /\ pc # "fatal" => Honest(View(m, Ahead), rest, owed) /\ Owns(m, owed)
  /\ Pointing(m)

(* A change of one buffer. *)
Others(V, R, O, W, Q, P, b) ==
  /\ DOMAIN P \ {b} \subseteq DOMAIN O
  /\ \A c \in DOMAIN P \ {b} :
       W[c] = V[c] /\ P[c] = O[c] /\ (V[c].fill => Q[V[c].in] = R[V[c].in])
Joins(W, Q, P, b) ==
  b \in DOMAIN P => Told(W[b], Q, P[b]) /\ \A c \in DOMAIN P \ {b} : ~Clash(W[b], W[c])
LEMMA HonestBut ==
  ASSUME NEW V, NEW R, NEW O, Honest(V, R, O), NEW b, NEW W, NEW Q, NEW P,
         DOMAIN P \subseteq DOMAIN W, Others(V, R, O, W, Q, P, b), Joins(W, Q, P, b)
  PROVE  Honest(W, Q, P)
<1> USE DEF Others, Joins
<1>1. ASSUME NEW c \in DOMAIN P PROVE Told(W[c], Q, P[c])
  <2>1. CASE c = b
    BY <1>1, <2>1
  <2>2. CASE c # b
    <3>1. W[c] = V[c] /\ P[c] = O[c] /\ (V[c].fill => Q[V[c].in] = R[V[c].in]) /\ c \in DOMAIN O
      BY <1>1, <2>2
    <3>2. Told(V[c], R, O[c])
      BY <3>1 DEF Honest
    <3> QED BY <3>1, <3>2 DEF Told, More
  <2> QED BY <2>1, <2>2
<1>2. ASSUME NEW c \in DOMAIN P, NEW d \in DOMAIN P, c # d PROVE ~Clash(W[c], W[d])
  <2>1. CASE c = b
    BY <1>2, <2>1
  <2>2. CASE d = b
    <3>1. ~Clash(W[d], W[c])
      BY <1>2, <2>2
    <3> QED BY <3>1 DEF Clash
  <2>3. CASE c # b /\ d # b
    <3>1. W[c] = V[c] /\ W[d] = V[d] /\ c \in DOMAIN O /\ d \in DOMAIN O
      BY <1>2, <2>3
    <3> QED BY <1>2, <3>1 DEF Honest
  <2> QED BY <2>1, <2>2, <2>3
<1> QED BY <1>1, <1>2 DEF Honest

(* ... and of none. *)
LEMMA HonestSame ==
  ASSUME NEW V, NEW R, NEW O, Honest(V, R, O), NEW W,
         DOMAIN V \subseteq DOMAIN W, \A c \in DOMAIN V : W[c] = V[c]
  PROVE  Honest(W, R, O)
  BY DEF Honest

(* The parts of a view. *)
LEMMA Views ==
  ASSUME NEW w, NEW s
  PROVE  /\ DOMAIN View(w, s) = DOMAIN w.buf
         /\ \A b \in DOMAIN w.buf : View(w, s)[b] = Seen(w, s, b)
  BY DEF View

LEMMA Seens ==
  ASSUME NEW w, NEW s, NEW b
  PROVE  /\ b = YY_CURRENT_BUFFER(w) => Seen(w, s, b) = Active(w, s)
         /\ b # YY_CURRENT_BUFFER(w) => Seen(w, s, b) = Stored(w.buf[b])
  BY DEF Seen

LEMMA Fields ==
  /\ \A r : /\ Stored(r).left = Piece(r.ch, r.pos, r.n) /\ Stored(r).in = r.file
            /\ Stored(r).fill = r.fill /\ Stored(r).status = r.status
  /\ \A w, s : /\ Active(w, s).left = s /\ Active(w, s).in = w.in
               /\ Active(w, s).fill = B(w).fill /\ Active(w, s).status = B(w).status
  BY DEF Stored, Active

(* The current buffer's view is the one it will leave. *)
LEMMA ActiveStored ==
  ASSUME NEW w, NEW s, NEW r, r.file = w.in, r.fill = B(w).fill, r.status = B(w).status,
         Piece(r.ch, r.pos, r.n) = s
  PROVE  Stored(r) = Active(w, s)
  BY DEF Stored, Active

(* The same of what is seen. *)
LEMMA HonestSeen ==
  ASSUME NEW w, NEW s, NEW R, NEW O, Honest(View(w, s), R, O)
  PROVE  /\ DOMAIN O \subseteq DOMAIN w.buf
         /\ \A b \in DOMAIN O : Told(Seen(w, s, b), R, O[b])
         /\ \A b, c \in DOMAIN O : b # c => ~Clash(Seen(w, s, b), Seen(w, s, c))
<1>1. PICK V : V = View(w, s)
  OBVIOUS
<1>2. DOMAIN V = DOMAIN w.buf /\ \A b \in DOMAIN w.buf : V[b] = Seen(w, s, b)
  BY <1>1, Views
<1>3. /\ DOMAIN O \subseteq DOMAIN V /\ \A b \in DOMAIN O : Told(V[b], R, O[b])
      /\ \A b, c \in DOMAIN O : b # c => ~Clash(V[b], V[c])
  BY <1>1 DEF Honest
<1>4. \A b \in DOMAIN O : V[b] = Seen(w, s, b)
  BY <1>2, <1>3
<1> QED BY <1>2, <1>3, <1>4

SeenAlike(w, s, v, t, D) == \A c \in D : Seen(v, t, c) = Seen(w, s, c)
NoClash(w, s, b, D) == \A c \in D : ~Clash(Seen(w, s, b), Seen(w, s, c))
SameOwed(w, s, R, O, Q, P, D) ==
  \A c \in D : /\ c \in DOMAIN O /\ P[c] = O[c]
               /\ Seen(w, s, c).fill => Q[Seen(w, s, c).in] = R[Seen(w, s, c).in]
LEMMA SeenBut ==
  ASSUME NEW w, NEW s, NEW R, NEW O, Honest(View(w, s), R, O), NEW b, NEW v, NEW t, NEW Q, NEW P,
         DOMAIN P \subseteq DOMAIN v.buf,
         SeenAlike(w, s, v, t, DOMAIN P \ {b}), SameOwed(w, s, R, O, Q, P, DOMAIN P \ {b}),
         b \in DOMAIN P => Told(Seen(v, t, b), Q, P[b]) /\ NoClash(v, t, b, DOMAIN P \ {b})
  PROVE  Honest(View(v, t), Q, P)
<1>1. PICK V : V = View(w, s)
  OBVIOUS
<1>2. PICK W : W = View(v, t)
  OBVIOUS
<1>3. DOMAIN V = DOMAIN w.buf /\ \A c \in DOMAIN w.buf : V[c] = Seen(w, s, c)
  BY <1>1, Views
<1>4. DOMAIN W = DOMAIN v.buf /\ \A c \in DOMAIN v.buf : W[c] = Seen(v, t, c)
  BY <1>2, Views
<1>5. Honest(V, R, O) /\ DOMAIN O \subseteq DOMAIN w.buf
  BY <1>1, HonestSeen
<1>6. Others(V, R, O, W, Q, P, b)
  BY <1>3, <1>4, <1>5 DEF SeenAlike, SameOwed, Others
<1>7. Joins(W, Q, P, b)
  BY <1>4 DEF NoClash, Joins
<1>8. Honest(W, Q, P)
  BY <1>4, <1>5, <1>6, <1>7, HonestBut
<1> QED BY <1>2, <1>8

(* What a buffer was loaded with is what it had stored. *)
LEMMA SeenLoaded ==
  ASSUME NEW F, NEW w, Framed(F, w),
         YY_CURRENT_BUFFER(w) # None => Loaded(w) /\ w.in = B(w).file
  PROVE  \A b \in DOMAIN w.buf : Seen(w, Rested(w), b) = Stored(w.buf[b])
<1>1. ASSUME YY_CURRENT_BUFFER(w) # None PROVE Stored(B(w)) = Active(w, Rested(w))
  <2>1. Whole(F, B(w)) /\ Loaded(w) /\ w.in = B(w).file
    BY <1>1, CurrentHeld DEF Framed
  <2>2. Restored(w) = B(w).ch
    BY <2>1 DEF Restored, Whole, Loaded
  <2>3. Rested(w) = Piece(B(w).ch, B(w).pos, B(w).n)
    BY <1>1, <2>1, <2>2 DEF Rested, Loaded
  <2> QED BY <2>1, <2>3, ActiveStored
<1>2. None \notin DOMAIN w.buf
  BY NoneIsNoBuffer DEF Framed
<1> QED BY <1>1, <1>2, Seens DEF B

(* What SaveCurrent wrote back is what the buffer had left. *)
LEMMA SeenSaved ==
  ASSUME NEW F, NEW w, Framed(F, w), YY_CURRENT_BUFFER(w) # None => w.in = B(w).file,
         NEW v, SavedIn(w, v)
  PROVE  \A b \in DOMAIN w.buf : Stored(v.buf[b]) = Seen(w, Rested(w), b)
<1>1. None \notin DOMAIN w.buf
  BY NoneIsNoBuffer DEF Framed
<1>2. \A b \in DOMAIN w.buf : b # YY_CURRENT_BUFFER(w) => Stored(v.buf[b]) = Seen(w, Rested(w), b)
  BY Seens DEF SavedIn
<1>3. ASSUME YY_CURRENT_BUFFER(w) # None
      PROVE  Stored(v.buf[YY_CURRENT_BUFFER(w)]) = Active(w, Rested(w))
  <2>1. PICK r : r = v.buf[YY_CURRENT_BUFFER(w)]
    OBVIOUS
  <2>2. Saved(w, r) /\ w.in = B(w).file
    BY <1>3, <2>1 DEF SavedIn
  <2>3. Rested(w) = Piece(r.ch, r.pos, r.n)
    BY <1>3, <2>2 DEF Rested, Saved
  <2>4. r.file = w.in /\ r.fill = B(w).fill /\ r.status = B(w).status
    BY <2>2 DEF Saved
  <2>5. Stored(r) = Active(w, Rested(w))
    BY <2>3, <2>4, ActiveStored
  <2> QED BY <2>1, <2>5
<1> QED BY <1>1, <1>2, <1>3, Seens

(* The current buffer when nothing happened to it. *)
LEMMA SeenKept ==
  ASSUME NEW w, NEW v, Same(w, v), B(v) = B(w), YY_CURRENT_BUFFER(v) = YY_CURRENT_BUFFER(w)
  PROVE  Rested(v) = Rested(w) /\ Active(v, Rested(v)) = Active(w, Rested(w))
<1>1. Rested(v) = Rested(w)
  BY DEF Rested, Restored, Same
<1> QED BY <1>1 DEF Active, Same

(* ... and what is seen when nothing happened to it or to the buffers in D. *)
LEMMA SeenSame ==
  ASSUME NEW w, NEW v, Same(w, v), NEW D, \A o \in D : v.buf[o] = w.buf[o],
         YY_CURRENT_BUFFER(w) \in D => YY_CURRENT_BUFFER(v) = YY_CURRENT_BUFFER(w),
         YY_CURRENT_BUFFER(v) \in D => YY_CURRENT_BUFFER(v) = YY_CURRENT_BUFFER(w)
  PROVE  SeenAlike(w, Rested(w), v, Rested(v), D)
<1>1. ASSUME NEW c \in D PROVE Seen(v, Rested(v), c) = Seen(w, Rested(w), c)
  <2>1. CASE c = YY_CURRENT_BUFFER(w)
    <3>1. YY_CURRENT_BUFFER(v) = c /\ B(v) = B(w)
      BY <2>1 DEF B
    <3>2. Active(v, Rested(v)) = Active(w, Rested(w))
      BY <2>1, <3>1, SeenKept
    <3> QED BY <2>1, <3>1, <3>2, Seens
  <2>2. CASE c # YY_CURRENT_BUFFER(w)
    <3>1. c # YY_CURRENT_BUFFER(v)
      BY <2>2
    <3> QED BY <2>2, <3>1, Seens
  <2> QED BY <2>1, <2>2
<1> QED BY <1>1 DEF SeenAlike

(* What the reader has ahead is text. *)
LEMMA RestedText ==
  ASSUME NEW F, NEW w, AtRest(F, w)
  PROVE  Rested(w) \in Seq(Char)
<1>1. CASE YY_CURRENT_BUFFER(w) = None
  BY <1>1 DEF Rested
<1>2. CASE YY_CURRENT_BUFFER(w) # None
  <2>1. Between(F, w) /\ w.cp \in Nat /\ w.n \in Nat
    BY <1>2, Bounds DEF AtRest, Between
  <2>2. Holds(Char, Restored(w), w.cp, w.n)
    <3>1. \A x \in w.cp..w.n - 1 : x \in 0..w.n + 1 /\ x >= w.cp
      BY <2>1
    <3> QED BY <2>1, <3>1 DEF Holds, Between
  <2>3. PICK a : a = Restored(w)
    OBVIOUS
  <2>4. IsPiece(Char, a, w.cp, w.n, Piece(a, w.cp, w.n))
    BY <2>2, <2>3, PieceSeq
  <2> QED BY <1>2, <2>3, <2>4 DEF Rested, IsPiece
<1> QED BY <1>1, <1>2

(* A buffer with nothing in it owes what its stream holds. *)
LEMMA EmptySays ==
  ASSUME NEW r, NEW f, Empty(r, f), NEW R, R[f] \in Seq(Char)
  PROVE  /\ Stored(r).left = <<>> /\ Stored(r).fill /\ Stored(r).in = f
         /\ Told(Stored(r), R, R[f])
<1>1. Stored(r).left = <<>>
  BY Fields, PieceEmpty DEF Empty
<1>2. Stored(r).fill = TRUE /\ Stored(r).in = f /\ Stored(r).status = "new"
  BY Fields DEF Empty
<1>3. <<>> \o R[f] = R[f]
  OBVIOUS
<1> QED BY <1>1, <1>2, <1>3 DEF Told, More

-----------------------------------------------------------------------------
(* Between the calls. *)

LEMMA TextAtRest ==
  ASSUME TextInv, pc \in {"idle", "destroy"}
  PROVE  Honest(View(m, Rested(m)), rest, owed) /\ Owns(m, owed) /\ Pointing(m)
<1>1. Ahead = Rested(m)
  BY DEF Ahead
<1> QED BY <1>1 DEF TextInv

LEMMA TextRests ==
  ASSUME pc' \in {"idle", "destroy"}, Honest(View(m', Rested(m')), rest', owed'),
         Owns(m', owed'), Pointing(m')
  PROVE  TextInv'
<1>1. Ahead' = Rested(m')
  BY DEF Ahead
<1> QED BY <1>1 DEF TextInv

(* The owner's stack after a change. *)
LEMMA StillOwns ==
  ASSUME NEW F, NEW w, Globals(F, w), NEW O, Owns(w, O), NEW v, Globals(F, v), NEW P,
         NEW T, StillOff(w, v, T), T \subseteq DOMAIN P,
         DOMAIN v.buf \subseteq DOMAIN w.buf \cup T, DOMAIN O \cap DOMAIN v.buf \subseteq DOMAIN P
  PROVE  Owns(v, P)
<1>1. ASSUME NEW b \in DOMAIN v.buf \ DOMAIN P PROVE OffStack(v, b)
  <2>1. b \in DOMAIN w.buf \ DOMAIN O /\ b \in Buf \ T
    BY <1>1 DEF Globals
  <2> QED BY <2>1 DEF Owns, StillOff
<1> QED BY <1>1 DEF Owns

LEMMA PushText ==
  ASSUME IInv, TextInv, NEW b \in Buf, Push(b) \/ Switch(b)
  PROVE  TextInv'
<1>1. PICK F : F = client.files
  OBVIOUS
<1>2. /\ pc = "idle" /\ b \in Held /\ (Cur # None => m.in = m.buf[Cur].file)
      /\ m' = yypush_buffer_state(m, b) \/ m' = yy_switch_to_buffer(m, b)
      /\ owed' = owed /\ UNCHANGED <<client, rest, pc, local, tok>>
  BY DEF Push, Switch, Manage, Called
<1>3. AtRest(F, m) /\ b \in DOMAIN m.buf /\ OffStack(m, b) /\ Framed(F, m) /\ Globals(F, m)
  BY <1>1, <1>2, ClientKnown, HeldOffStack
<1>4. IsSwitched(F, m, b, m')
  BY <1>2, <1>3, Pushes, Switches
<1>5. /\ AtRest(F, m') /\ Framed(F, m') /\ Globals(F, m') /\ DOMAIN m'.buf = DOMAIN m.buf
      /\ Loaded(m') /\ m'.in = B(m').file /\ SavedIn(m, m') /\ StillOff(m, m', {b})
  BY <1>4 DEF IsSwitched, AtRest, Framed
<1>6. Honest(View(m, Rested(m)), rest, owed) /\ Owns(m, owed)
  BY <1>2, TextAtRest
<1>7. \A c \in DOMAIN m.buf : Seen(m', Rested(m'), c) = Seen(m, Rested(m), c)
  <2>1. \A c \in DOMAIN m.buf : Stored(m'.buf[c]) = Seen(m, Rested(m), c)
    BY <1>2, <1>3, <1>5, SeenSaved DEF Cur, B
  <2>2. \A c \in DOMAIN m.buf : Seen(m', Rested(m'), c) = Stored(m'.buf[c])
    BY <1>5, SeenLoaded
  <2> QED BY <2>1, <2>2
<1>8. Honest(View(m', Rested(m')), rest, owed)
  <2>1. PICK V : V = View(m, Rested(m))
    OBVIOUS
  <2>2. PICK W : W = View(m', Rested(m'))
    OBVIOUS
  <2>3. DOMAIN V = DOMAIN m.buf /\ \A c \in DOMAIN m.buf : V[c] = Seen(m, Rested(m), c)
    BY <2>1, Views
  <2>4. DOMAIN W = DOMAIN m.buf /\ \A c \in DOMAIN m.buf : W[c] = Seen(m', Rested(m'), c)
    BY <1>5, <2>2, Views
  <2>5. Honest(V, rest, owed)
    BY <1>6, <2>1
  <2> QED BY <1>7, <2>2, <2>3, <2>4, <2>5, HonestSame
<1>9. Owns(m', owed)
  BY <1>2, <1>3, <1>5, <1>6, StillOwns DEF Held
<1>10. Pointing(m')
  BY <1>5 DEF Pointing
<1> QED BY <1>2, <1>8, <1>9, <1>10, TextRests

(* A buffer goes away. *)
LEMMA TextWithout ==
  ASSUME NEW w, NEW s, NEW R, NEW O, Honest(View(w, s), R, O), NEW b, NEW v, NEW t,
         NEW P, P = Restrict(O, DOMAIN O \ {b}), DOMAIN w.buf \ {b} \subseteq DOMAIN v.buf,
         SeenAlike(w, s, v, t, DOMAIN O \ {b})
  PROVE  Honest(View(v, t), R, P)
<1>1. DOMAIN P = DOMAIN O \ {b} /\ \A c \in DOMAIN P : P[c] = O[c]
  BY DEF Restrict
<1>2. DOMAIN O \subseteq DOMAIN w.buf
  BY HonestSeen
<1>3. SeenAlike(w, s, v, t, DOMAIN P \ {b}) /\ SameOwed(w, s, R, O, R, P, DOMAIN P \ {b})
  BY <1>1 DEF SeenAlike, SameOwed
<1> QED BY <1>1, <1>2, <1>3, SeenBut

LEMMA PopText ==
  ASSUME IInv, TextInv, Pop
  PROVE  TextInv'
<1>1. PICK F : F = client.files
  OBVIOUS
<1>2. /\ pc = "idle" /\ Cur # None /\ m' = yypop_buffer_state(m)
      /\ owed' = Restrict(owed, DOMAIN owed \ {Cur}) /\ UNCHANGED <<client, rest, pc, local, tok>>
  BY DEF Pop, Manage, Called
<1>3. Framed(F, m) /\ Globals(F, m) /\ DOMAIN owed \subseteq DOMAIN m.buf
  BY <1>1, ClientKnown
<1>4. IsPopped(F, m, m')
  BY <1>2, <1>3, Pops DEF Cur
<1>5. /\ Framed(F, m') /\ Globals(F, m') /\ DOMAIN m'.buf = DOMAIN m.buf \ {Cur}
      /\ \A o \in DOMAIN m'.buf : m'.buf[o] = m.buf[o]
      /\ YY_CURRENT_BUFFER(m') # None => Loaded(m') /\ m'.in = B(m').file
      /\ StillOff(m, m', {})
  BY <1>4 DEF IsPopped, AtRest, Framed, Cur
<1>6. Honest(View(m, Rested(m)), rest, owed) /\ Owns(m, owed)
  BY <1>2, TextAtRest
<1>7. \A c \in DOMAIN owed \ {Cur} : Seen(m', Rested(m'), c) = Seen(m, Rested(m), c)
  <2>1. \A c \in DOMAIN m'.buf : Seen(m', Rested(m'), c) = Stored(m'.buf[c])
    BY <1>5, SeenLoaded
  <2>2. \A c \in DOMAIN m.buf \ {Cur} : Seen(m, Rested(m), c) = Stored(m.buf[c])
    BY Seens DEF Cur
  <2> QED BY <1>3, <1>5, <2>1, <2>2
<1>8. Honest(View(m', Rested(m')), rest, owed')
  <2>1. SeenAlike(m, Rested(m), m', Rested(m'), DOMAIN owed \ {Cur})
    BY <1>7 DEF SeenAlike
  <2>2. DOMAIN m.buf \ {Cur} \subseteq DOMAIN m'.buf
    BY <1>5
  <2> QED BY <1>2, <1>6, <2>1, <2>2, TextWithout
<1>9. Owns(m', owed')
  <2>1. DOMAIN owed' = DOMAIN owed \ {Cur}
    BY <1>2 DEF Restrict
  <2> QED BY <1>3, <1>5, <1>6, <2>1, StillOwns
<1>10. Pointing(m')
  BY <1>5 DEF Pointing
<1> QED BY <1>2, <1>8, <1>9, <1>10, TextRests

LEMMA DeleteText ==
  ASSUME IInv, TextInv, NEW b \in Buf, Delete(b)
  PROVE  TextInv'
<1>1. PICK F : F = client.files
  OBVIOUS
<1>2. /\ pc = "idle" /\ b \in (Held \cup {Cur}) \ {None} /\ m' = yy_delete_buffer(m, b)
      /\ owed' = Restrict(owed, DOMAIN owed \ {b}) /\ UNCHANGED <<client, rest, pc, local, tok>>
  BY DEF Delete, Manage, Called
<1>3. /\ AtRest(F, m) /\ Framed(F, m) /\ Globals(F, m) /\ b \in DOMAIN m.buf
      /\ (OffStack(m, b) \/ b = YY_CURRENT_BUFFER(m)) /\ DOMAIN owed \subseteq DOMAIN m.buf
  BY <1>1, <1>2, ClientKnown, HeldOffStack, CurrentHeld DEF Cur
<1>4. IsDeleted(F, m, b, m')
  BY <1>2, <1>3, Deletes
<1>5. /\ Framed(F, m') /\ Globals(F, m') /\ Same(m, m') /\ DOMAIN m'.buf = DOMAIN m.buf \ {b}
      /\ \A o \in DOMAIN m'.buf : m'.buf[o] = m.buf[o]
      /\ YY_CURRENT_BUFFER(m') = (IF b = YY_CURRENT_BUFFER(m) THEN None ELSE YY_CURRENT_BUFFER(m))
      /\ StillOff(m, m', {}) /\ None \notin DOMAIN m.buf
  BY <1>3, <1>4, NoneIsNoBuffer DEF IsDeleted, Framed
<1>6. Honest(View(m, Rested(m)), rest, owed) /\ Owns(m, owed) /\ Pointing(m)
  BY <1>2, TextAtRest
<1>7. b # Cur /\ Cur # None => B(m') = B(m) /\ YY_CURRENT_BUFFER(m') = Cur
  <2>1. Cur # None => Cur \in DOMAIN m.buf
    BY <1>3, CurrentHeld DEF Cur
  <2> QED BY <1>5, <2>1 DEF B, Cur
<1>8. SeenAlike(m, Rested(m), m', Rested(m'), DOMAIN owed \ {b})
  <2>1. None \notin DOMAIN owed /\ \A c \in DOMAIN owed \ {b} : m'.buf[c] = m.buf[c]
    BY <1>3, <1>5
  <2> QED BY <1>5, <2>1, SeenSame
<1>9. Honest(View(m', Rested(m')), rest, owed')
  <2>1. DOMAIN m.buf \ {b} \subseteq DOMAIN m'.buf
    BY <1>5
  <2> QED BY <1>2, <1>6, <1>8, <2>1, TextWithout
<1>10. Owns(m', owed')
  <2>1. DOMAIN owed' = DOMAIN owed \ {b}
    BY <1>2 DEF Restrict
  <2> QED BY <1>3, <1>5, <1>6, <2>1, StillOwns
<1>11. Pointing(m')
  BY <1>5, <1>6, <1>7 DEF Pointing, Same, Cur
<1> QED BY <1>2, <1>9, <1>10, <1>11, TextRests

(* A buffer comes, or begins again. *)
LEMMA TextWith ==
  ASSUME NEW w, NEW s, NEW R, NEW O, Honest(View(w, s), R, O), NEW b, NEW v, NEW t,
         NEW x, NEW P, P = With(O, b, x), DOMAIN P \subseteq DOMAIN v.buf,
         SeenAlike(w, s, v, t, DOMAIN O \ {b}),
         Told(Seen(v, t, b), R, x), NoClash(v, t, b, DOMAIN O \ {b})
  PROVE  Honest(View(v, t), R, P)
<1>1. DOMAIN P = DOMAIN O \cup {b} /\ P[b] = x /\ \A c \in DOMAIN P \ {b} : P[c] = O[c]
  BY DEF With
<1>2. DOMAIN P \ {b} = DOMAIN O \ {b}
  BY <1>1
<1>3. SameOwed(w, s, R, O, R, P, DOMAIN P \ {b})
  BY <1>1, <1>2 DEF SameOwed
<1> QED BY <1>1, <1>2, <1>3, SeenBut

(* Nobody reads from an unused stream, but perhaps the current buffer. *)
LEMMA UnusedSeen ==
  ASSUME NEW f, Unused(f), NEW c \in DOMAIN owed, NEW s, c = Cur => m.in # f
  PROVE  Seen(m, s, c).in # f
<1>1. CASE c = Cur
  BY <1>1, Seens, Fields DEF Cur
<1>2. CASE c # Cur
  <2>1. Seen(m, s, c) = Stored(m.buf[c])
    BY <1>2, Seens DEF Cur
  <2> QED BY <1>2, <2>1, Fields DEF Unused
<1> QED BY <1>1, <1>2

LEMMA CreateText ==
  ASSUME IInv, TextInv, NEW f \in client.files, NEW z \in Sizes, CreateBuffer(f, z)
  PROVE  TextInv'
<1>1. PICK F : F = client.files
  OBVIOUS
<1>2. /\ Unallocated /\ Unused(f) /\ m.in # f /\ pc = "idle" /\ m' = yy_create_buffer(m, f, z)
      /\ owed' = With(owed, NewBuffer(m), rest[f]) /\ UNCHANGED <<client, rest, pc, local, tok>>
  BY DEF CreateBuffer, Manage, Called
<1>3. /\ AtRest(F, m) /\ Framed(F, m) /\ Globals(F, m) /\ DOMAIN m.buf # Buf /\ z \in Nat /\ f \in F
      /\ DOMAIN owed \subseteq DOMAIN m.buf /\ rest[f] \in Seq(Char)
  BY <1>1, <1>2, ClientKnown, ScannerAssumption
<1>4. PICK b : b = NewBuffer(m)
  OBVIOUS
<1>5. IsNew(F, m, f, m') /\ b \in Buf /\ b \notin DOMAIN m.buf
  BY <1>2, <1>3, <1>4, Creates, NewBufferIsNew DEF Globals
<1>6. /\ Framed(F, m') /\ Globals(F, m') /\ Same(m, m') /\ SameStack(m, m')
      /\ DOMAIN m'.buf = DOMAIN m.buf \cup {b} /\ Empty(m'.buf[b], f)
      /\ \A o \in DOMAIN m.buf : m'.buf[o] = m.buf[o]
  BY <1>4, <1>5 DEF IsNew, IsAdded, Framed
<1>7. Honest(View(m, Rested(m)), rest, owed) /\ Owns(m, owed) /\ Pointing(m)
  BY <1>2, TextAtRest
<1>8. /\ YY_CURRENT_BUFFER(m') = Cur /\ b # Cur
      /\ (Cur # None => B(m') = B(m))
  <2>1. YY_CURRENT_BUFFER(m') = Cur
    BY <1>6, CurrentKept DEF Cur
  <2>2. Cur # None => Cur \in DOMAIN m.buf
    BY <1>3, CurrentHeld DEF Cur
  <2>3. b # None
    BY <1>3, <1>5, NoneIsNoBuffer
  <2> QED BY <1>5, <1>6, <2>1, <2>2, <2>3 DEF B, Cur
<1>9. SeenAlike(m, Rested(m), m', Rested(m'), DOMAIN owed)
  <2>1. None \notin DOMAIN owed /\ \A c \in DOMAIN owed : m'.buf[c] = m.buf[c]
    BY <1>3, <1>6, NoneIsNoBuffer
  <2> QED BY <1>6, <1>8, <2>1, SeenSame DEF Cur
<1>10. /\ Told(Seen(m', Rested(m'), b), rest, rest[f]) /\ Seen(m', Rested(m'), b).in = f
  <2>1. Seen(m', Rested(m'), b) = Stored(m'.buf[b])
    BY <1>8, Seens
  <2> QED BY <1>3, <1>6, <2>1, EmptySays
<1>11. ASSUME NEW c \in DOMAIN owed PROVE ~Clash(Seen(m', Rested(m'), b), Seen(m', Rested(m'), c))
  <2>1. Seen(m, Rested(m), c).in # f
    BY <1>2, UnusedSeen
  <2> QED BY <1>9, <1>10, <2>1 DEF Clash, SeenAlike
<1>12. Honest(View(m', Rested(m')), rest, owed')
  <2>1. DOMAIN owed' \subseteq DOMAIN m'.buf
    BY <1>2, <1>3, <1>4, <1>6 DEF With
  <2>2. SeenAlike(m, Rested(m), m', Rested(m'), DOMAIN owed \ {b})
    BY <1>9 DEF SeenAlike
  <2>3. NoClash(m', Rested(m'), b, DOMAIN owed \ {b})
    BY <1>11 DEF NoClash
  <2> QED BY <1>2, <1>4, <1>7, <1>10, <2>1, <2>2, <2>3, TextWith
<1>13. Owns(m', owed')
  <2>1. DOMAIN owed' = DOMAIN owed \cup {b}
    BY <1>2, <1>4 DEF With
  <2>2. StillOff(m, m', {b})
    BY <1>6 DEF StillOff, OffStack, SameStack
  <2> QED BY <1>3, <1>6, <1>7, <2>1, <2>2, StillOwns
<1>14. Pointing(m')
  BY <1>6, <1>7, <1>8 DEF Pointing, Same, Cur
<1> QED BY <1>2, <1>12, <1>13, <1>14, TextRests

LEMMA ScanText ==
  ASSUME IInv, TextInv, NEW s \in client.texts, ScanBytes(s)
  PROVE  TextInv'
<1>1. PICK F : F = client.files
  OBVIOUS
<1>2. /\ Unallocated /\ pc = "idle" /\ m' = yy_scan_bytes(m, s) /\ (Cur # None => m.in = m.buf[Cur].file)
      /\ owed' = With(owed, NewBuffer(m), s) /\ UNCHANGED <<client, rest, pc, local, tok>>
  BY DEF ScanBytes, Manage, Called
<1>3. /\ AtRest(F, m) /\ Framed(F, m) /\ Globals(F, m) /\ DOMAIN m.buf # Buf /\ s \in Seq(Char)
      /\ DOMAIN owed \subseteq DOMAIN m.buf
  BY <1>1, <1>2, ClientKnown
<1>4. PICK b : b = NewBuffer(m)
  OBVIOUS
<1>5. IsBytes(F, m, s, m') /\ b \notin DOMAIN m.buf
  BY <1>2, <1>3, <1>4, Scans, NewBufferIsNew DEF Globals
<1>6. /\ Framed(F, m') /\ Globals(F, m') /\ DOMAIN m'.buf = DOMAIN m.buf \cup {b}
      /\ YY_CURRENT_BUFFER(m') = b /\ Loaded(m') /\ m'.in = B(m').file /\ Says(B(m'), s)
      /\ SavedIn(m, m') /\ StillOff(m, m', {b})
  BY <1>4, <1>5 DEF IsBytes, AtRest, Framed
<1>7. Honest(View(m, Rested(m)), rest, owed) /\ Owns(m, owed)
  BY <1>2, TextAtRest
<1>8. \A c \in DOMAIN m'.buf : Seen(m', Rested(m'), c) = Stored(m'.buf[c])
  BY <1>6, SeenLoaded
<1>9. SeenAlike(m, Rested(m), m', Rested(m'), DOMAIN owed \ {b})
  <2>1. \A c \in DOMAIN m.buf : Stored(m'.buf[c]) = Seen(m, Rested(m), c)
    BY <1>2, <1>3, <1>6, SeenSaved DEF Cur, B
  <2> QED BY <1>3, <1>6, <1>8, <2>1 DEF SeenAlike
<1>10. /\ Told(Seen(m', Rested(m'), b), rest, s) /\ Seen(m', Rested(m'), b).fill = FALSE
  <2>1. PICK r : r = B(m')
    OBVIOUS
  <2>2. Says(r, s) /\ Seen(m', Rested(m'), b) = Stored(r)
    BY <1>6, <1>8, <2>1 DEF B
  <2>3. Piece(r.ch, r.pos, r.n) = s
    <3>1. PICK k \in Nat : k = Len(s)
      BY <1>3
    <3>2. /\ DOMAIN s = 1..k /\ k - 0 = k /\ r.pos = 0 /\ r.n = k
          /\ \A i \in 1..k : 0 + i - 1 \in 0..k - 1 /\ (0 + i - 1) + 1 = i
      BY <1>3, <2>2, <3>1 DEF Says
    <3>3. \A i \in 1..k : r.ch[0 + i - 1] = s[i]
      BY <2>2, <3>1, <3>2 DEF Says
    <3>4. s = [i \in 1..k |-> s[i]]
      BY <1>3, <3>2
    <3> QED BY <3>2, <3>3, <3>4 DEF Piece
  <2>4. Stored(r).left = s /\ Stored(r).fill = FALSE
    BY <2>2, <2>3, Fields DEF Says
  <2>5. s \o <<>> = s
    BY <1>3
  <2> QED BY <2>2, <2>4, <2>5 DEF Told, More
<1>11. Honest(View(m', Rested(m')), rest, owed')
  <2>1. DOMAIN owed' \subseteq DOMAIN m'.buf
    BY <1>2, <1>3, <1>4, <1>6 DEF With
  <2>2. NoClash(m', Rested(m'), b, DOMAIN owed \ {b})
    BY <1>10 DEF NoClash, Clash
  <2> QED BY <1>2, <1>4, <1>7, <1>9, <1>10, <2>1, <2>2, TextWith
<1>12. Owns(m', owed')
  <2>1. DOMAIN owed' = DOMAIN owed \cup {b}
    BY <1>2, <1>4 DEF With
  <2> QED BY <1>3, <1>6, <1>7, <2>1, StillOwns
<1>13. Pointing(m')
  BY <1>6 DEF Pointing
<1> QED BY <1>2, <1>11, <1>12, <1>13, TextRests

LEMMA FlushText ==
  ASSUME IInv, TextInv, NEW b \in Buf, Flush(b)
  PROVE  TextInv'
<1>1. PICK F : F = client.files
  OBVIOUS
<1>2. /\ pc = "idle" /\ b \in DOMAIN owed /\ m.buf[b].fill /\ m' = yy_flush_buffer(m, b)
      /\ (Cur # None => m.in = m.buf[Cur].file)
      /\ owed' = [owed EXCEPT ![b] = rest[m.buf[b].file]] /\ UNCHANGED <<client, rest, pc, local, tok>>
  BY DEF Flush, Manage, Called
<1>3. /\ AtRest(F, m) /\ Framed(F, m) /\ Globals(F, m) /\ b \in DOMAIN m.buf
      /\ DOMAIN owed \subseteq DOMAIN m.buf
  BY <1>1, <1>2, ClientKnown
<1>4. IsFlushed(F, m, b, m')
  BY <1>2, <1>3, Flushes
<1>5. /\ Framed(F, m') /\ Globals(F, m') /\ SameStack(m, m') /\ m'.init = m.init
      /\ DOMAIN m'.buf = DOMAIN m.buf /\ m'.buf[b] = Emptied(m.buf[b])
      /\ \A o \in DOMAIN m.buf \ {b} : m'.buf[o] = m.buf[o]
      /\ (b # YY_CURRENT_BUFFER(m) => Same(m, m'))
      /\ (b = YY_CURRENT_BUFFER(m) => Loaded(m') /\ m'.in = B(m').file)
      /\ YY_CURRENT_BUFFER(m') = YY_CURRENT_BUFFER(m) /\ None \notin DOMAIN m.buf
  BY <1>3, <1>4, CurrentKept, NoneIsNoBuffer DEF IsFlushed, Framed
<1>6. Honest(View(m, Rested(m)), rest, owed) /\ Owns(m, owed) /\ Pointing(m)
  BY <1>2, TextAtRest
<1>7. PICK f : f = m.buf[b].file
  OBVIOUS
<1>8. Empty(m'.buf[b], f) /\ rest[f] \in Seq(Char)
  <2>1. PICK r : r = m.buf[b]
    OBVIOUS
  <2>2. Whole(F, r)
    BY <1>3, <2>1 DEF Globals
  <2>3. f \in client.files /\ r.fill = TRUE
    BY <1>1, <1>2, <1>7, <2>1, <2>2 DEF Whole
  <2>4. Empty(Emptied(r), f)
    BY <1>7, <2>1, <2>2, <2>3, EmptiedWhole DEF Empty
  <2>5. rest[f] \in Seq(Char)
    BY <2>3, ClientKnown
  <2> QED BY <1>5, <2>1, <2>4, <2>5
<1>9. Seen(m', Rested(m'), b) = Stored(m'.buf[b])
  <2>1. CASE b = Cur
    BY <1>3, <1>5, <2>1, SeenLoaded DEF Cur
  <2>2. CASE b # Cur
    BY <1>5, <2>2, Seens DEF Cur
  <2> QED BY <2>1, <2>2
<1>10. SeenAlike(m, Rested(m), m', Rested(m'), DOMAIN owed \ {b})
  <2>1. \A c \in DOMAIN owed \ {b} : m'.buf[c] = m.buf[c]
    BY <1>3, <1>5
  <2>2. CASE b = Cur
    BY <1>5, <2>1, <2>2, Seens DEF Cur, SeenAlike
  <2>3. CASE b # Cur
    BY <1>5, <2>1, <2>3, SeenSame DEF Cur
  <2> QED BY <2>2, <2>3
<1>11. Told(Seen(m', Rested(m'), b), rest, rest[f]) /\ Seen(m', Rested(m'), b).in = f
  BY <1>8, <1>9, EmptySays
<1>12. Seen(m, Rested(m), b).in = f /\ Seen(m, Rested(m), b).fill
  <2>1. CASE b = Cur
    <3>1. Seen(m, Rested(m), b) = Active(m, Rested(m)) /\ m.in = f /\ B(m).fill
      BY <1>2, <1>3, <1>5, <1>7, <2>1, Seens DEF Cur, B
    <3> QED BY <3>1, Fields
  <2>2. CASE b # Cur
    <3>1. Seen(m, Rested(m), b) = Stored(m.buf[b])
      BY <2>2, Seens DEF Cur
    <3> QED BY <1>2, <1>7, <3>1, Fields
  <2> QED BY <2>1, <2>2
<1>13. Honest(View(m', Rested(m')), rest, owed')
  <2>1. DOMAIN owed' = DOMAIN owed /\ owed' = With(owed, b, rest[f])
    BY <1>2, <1>7 DEF With
  <2>2. NoClash(m', Rested(m'), b, DOMAIN owed \ {b})
    <3>1. \A c \in DOMAIN owed \ {b} : ~Clash(Seen(m, Rested(m), b), Seen(m, Rested(m), c))
      BY <1>2, <1>6, HonestSeen
    <3> QED BY <1>10, <1>11, <1>12, <3>1 DEF NoClash, Clash, SeenAlike
  <2> QED BY <1>3, <1>5, <1>6, <1>10, <1>11, <2>1, <2>2, TextWith
<1>14. Owns(m', owed')
  <2>1. DOMAIN owed' = DOMAIN owed
    BY <1>2
  <2> QED BY <1>5, <1>6, <2>1 DEF Owns, OffStack, SameStack
<1>15. Pointing(m')
  <2>1. CASE b = Cur
    BY <1>5, <2>1 DEF Pointing, Cur
  <2>2. CASE b # Cur
    <3>1. Cur # None => Cur \in DOMAIN m.buf
      BY <1>3, CurrentHeld DEF Cur
    <3> QED BY <1>5, <1>6, <2>2, <3>1 DEF Pointing, Cur, B, Same
  <2> QED BY <2>1, <2>2
<1> QED BY <1>2, <1>13, <1>14, <1>15, TextRests

LEMMA RestartText ==
  ASSUME IInv, TextInv, NEW f \in client.files, Restart(f)
  PROVE  TextInv'
<1>1. PICK F : F = client.files
  OBVIOUS
<1>2. PICK b : b = IF Cur = None THEN NewBuffer(m) ELSE Cur
  OBVIOUS
<1>3. /\ pc = "idle" /\ (Cur # None \/ Unallocated) /\ m' = yyrestart(m, f)
      /\ Unused(f) /\ (Cur # None => m.in = m.buf[Cur].file)
      /\ owed' = With(owed, b, rest[f]) /\ UNCHANGED <<client, rest, pc, local, tok>>
  BY <1>2, Zenon DEF Restart, Manage, Called
<1>4. /\ Framed(F, m) /\ Globals(F, m) /\ f \in F /\ rest[f] \in Seq(Char)
      /\ (YY_CURRENT_BUFFER(m) = None => DOMAIN m.buf # Buf)
      /\ DOMAIN owed \subseteq DOMAIN m.buf /\ None \notin DOMAIN m.buf
  BY <1>1, <1>3, ClientKnown, NoneIsNoBuffer DEF Cur, Globals
<1>5. IsRestarted(F, m, f, m')
  BY <1>3, <1>4, RestartsFirst
<1>6. /\ Framed(F, m') /\ Globals(F, m') /\ DOMAIN m'.buf = DOMAIN m.buf \cup {b}
      /\ YY_CURRENT_BUFFER(m') = b /\ Loaded(m') /\ m'.in = B(m').file /\ Empty(B(m'), f)
      /\ StillOff(m, m', {b}) /\ \A o \in DOMAIN m.buf \ {b} : m'.buf[o] = m.buf[o]
  BY <1>2, <1>5 DEF IsRestarted, AtRest, Framed, Cur, Empty
<1>7. Honest(View(m, Rested(m)), rest, owed) /\ Owns(m, owed)
  BY <1>3, TextAtRest
<1>8. \A c \in DOMAIN m'.buf : Seen(m', Rested(m'), c) = Stored(m'.buf[c])
  BY <1>6, SeenLoaded
<1>9. \A c \in DOMAIN owed \ {b} : c # Cur
  BY <1>2, <1>4
<1>10. SeenAlike(m, Rested(m), m', Rested(m'), DOMAIN owed \ {b})
  BY <1>4, <1>6, <1>8, <1>9, Seens DEF SeenAlike, Cur
<1>11. Told(Seen(m', Rested(m'), b), rest, rest[f]) /\ Seen(m', Rested(m'), b).in = f
  BY <1>4, <1>6, <1>8, EmptySays DEF B
<1>12. Honest(View(m', Rested(m')), rest, owed')
  <2>1. DOMAIN owed' \subseteq DOMAIN m'.buf
    BY <1>3, <1>4, <1>6 DEF With
  <2>2. NoClash(m', Rested(m'), b, DOMAIN owed \ {b})
    <3>1. \A c \in DOMAIN owed \ {b} : Seen(m, Rested(m), c).in # f
      BY <1>3, <1>9, UnusedSeen
    <3> QED BY <1>10, <1>11, <3>1 DEF NoClash, Clash, SeenAlike
  <2> QED BY <1>3, <1>7, <1>10, <1>11, <2>1, <2>2, TextWith
<1>13. Owns(m', owed')
  <2>1. DOMAIN owed' = DOMAIN owed \cup {b}
    BY <1>3 DEF With
  <2> QED BY <1>4, <1>6, <1>7, <2>1, StillOwns
<1>14. Pointing(m')
  BY <1>6 DEF Pointing
<1> QED BY <1>3, <1>12, <1>13, <1>14, TextRests

LEMMA SetInText ==
  ASSUME IInv, TextInv, NEW f \in client.files, yyset_in(f)
  PROVE  TextInv'
<1>1. PICK F : F = client.files
  OBVIOUS
<1>2. /\ pc = "idle" /\ Cur # None /\ m' = [m EXCEPT !.in = f] /\ Unused(f) /\ m.init
      /\ owed[Cur] = <<>> /\ m.buf[Cur].status = "new" /\ m.buf[Cur].fill
      /\ owed' = [owed EXCEPT ![Cur] = rest[f]] /\ UNCHANGED <<client, rest, pc, local, tok>>
  BY DEF yyset_in, Manage, Called
<1>3. /\ AtRest(F, m) /\ Framed(F, m) /\ Globals(F, m) /\ Record(m) /\ rest[f] \in Seq(Char)
      /\ DOMAIN owed \subseteq DOMAIN m.buf /\ Cur \in DOMAIN m.buf /\ None \notin DOMAIN m.buf
      /\ m.in \in client.files
  <2>1. AtRest(F, m) /\ Framed(F, m) /\ Globals(F, m) /\ rest \in [client.files -> Seq(Char)]
    BY <1>1, <1>2, ClientKnown
  <2>2. Between(F, m)
    BY <1>2, <2>1 DEF AtRest, Cur
  <2>3. m.in \in client.files
    BY <1>1, <1>2, <2>2 DEF Between, Awake, B, Cur
  <2> QED BY <1>2, <2>1, <2>3, ClientKnown, CurrentHeld, NoneIsNoBuffer DEF Cur, Globals
<1>4. /\ m'.buf = m.buf /\ SameStack(m, m') /\ m'.n = m.n /\ m'.cp = m.cp /\ m'.hold = m.hold
      /\ m'.in = f /\ m'.init = m.init
  BY <1>2, <1>3 DEF Record, SameStack
<1>5. YY_CURRENT_BUFFER(m') = Cur /\ B(m') = B(m) /\ B(m) = m.buf[Cur]
  BY <1>4, CurrentKept DEF B, Cur
<1>6. Honest(View(m, Rested(m)), rest, owed) /\ Owns(m, owed)
  BY <1>2, TextAtRest
<1>7. Cur \in DOMAIN owed
  <2>1. ~OffStack(m, Cur)
    BY <1>2, <1>3, CurrentHeld DEF OffStack, Cur, YY_CURRENT_BUFFER, Globals, Stacked
  <2> QED BY <1>3, <1>6, <2>1 DEF Owns
<1>8. Rested(m') = Rested(m)
  BY <1>2, <1>4, <1>5 DEF Rested, Restored, Cur
<1>9. Rested(m) = <<>>
  <2>1. Rested(m) \in Seq(Char) /\ rest[m.in] \in Seq(Char)
    BY <1>3, RestedText, ClientKnown
  <2>2. Told(Active(m, Rested(m)), rest, <<>>)
    BY <1>2, <1>6, <1>7, HonestSeen, Seens DEF Cur
  <2>3. Rested(m) \o rest[m.in] = <<>>
    BY <1>2, <1>5, <2>2, Fields DEF Told, More
  <2> QED BY <2>1, <2>3
<1>10. /\ Seen(m', Rested(m'), Cur).in = f /\ Seen(m', Rested(m'), Cur).fill
       /\ Told(Seen(m', Rested(m'), Cur), rest, rest[f])
  <2>1. Seen(m', Rested(m'), Cur) = Active(m', <<>>)
    BY <1>5, <1>8, <1>9, Seens
  <2>2. /\ Active(m', <<>>).left = <<>> /\ Active(m', <<>>).in = f
        /\ Active(m', <<>>).fill = B(m).fill /\ Active(m', <<>>).status = B(m).status
    BY <1>4, <1>5, Fields
  <2>3. B(m).fill /\ B(m).status = "new" /\ <<>> \o rest[f] = rest[f]
    BY <1>2, <1>3, <1>5
  <2> QED BY <2>1, <2>2, <2>3 DEF Told, More
<1>11. SeenAlike(m, Rested(m), m', Rested(m'), DOMAIN owed \ {Cur})
  BY <1>4, <1>5, Seens DEF SeenAlike, Cur
<1>12. Honest(View(m', Rested(m')), rest, owed')
  <2>1. owed' = With(owed, Cur, rest[f]) /\ DOMAIN owed' \subseteq DOMAIN m'.buf
    BY <1>2, <1>3, <1>4, <1>7 DEF With
  <2>2. NoClash(m', Rested(m'), Cur, DOMAIN owed \ {Cur})
    <3>1. \A c \in DOMAIN owed \ {Cur} : Seen(m, Rested(m), c).in # f
      BY <1>2, UnusedSeen
    <3> QED BY <1>10, <1>11, <3>1 DEF NoClash, Clash, SeenAlike
  <2> QED BY <1>6, <1>10, <1>11, <2>1, <2>2, TextWith
<1>13. Owns(m', owed')
  BY <1>2, <1>4, <1>6 DEF Owns, OffStack, SameStack
<1>14. Pointing(m')
  BY <1>2, <1>4 DEF Pointing
<1> QED BY <1>2, <1>12, <1>13, <1>14, TextRests

LEMMA DestroyText ==
  ASSUME IInv, TextInv, Destroy
  PROVE  TextInv'
<1>1. pc = "idle" /\ pc' = "destroy" /\ m' = m /\ rest' = rest /\ owed' = owed
  BY DEF Destroy, Called
<1>2. Honest(View(m, Rested(m)), rest, owed) /\ Owns(m, owed) /\ Pointing(m)
  BY <1>1, TextAtRest
<1> QED BY <1>1, <1>2, TextRests

LEMMA DestroyTopText ==
  ASSUME IInv, TextInv, DestroyTop
  PROVE  TextInv'
<1>1. /\ pc = "destroy" /\ Cur # None
      /\ m' = yypop_buffer_state(SetCurrent(yy_delete_buffer(m, Cur), None))
      /\ owed' = Restrict(owed, DOMAIN owed \ {Cur})
      /\ UNCHANGED <<client, rest, pc, local, tok>>
  BY DEF DestroyTop
<1>2. PICK F : F = client.files
  OBVIOUS
<1>3. PICK g : g = yy_delete_buffer(m, Cur)
  OBVIOUS
<1>4. PICK d : d = SetCurrent(g, None)
  OBVIOUS
<1>5. /\ Framed(F, m) /\ Globals(F, m) /\ Cur \in DOMAIN m.buf /\ m.stack # <<>>
      /\ DOMAIN owed \subseteq DOMAIN m.buf /\ None \notin DOMAIN m.buf /\ None \notin Buf
  BY <1>1, <1>2, ClientKnown, CurrentHeld, NoneIsNoBuffer DEF Cur
<1>6. IsDeleted(F, m, Cur, g)
  BY <1>3, <1>5, Deletes DEF Cur
<1>7. IsCurrent(F, g, None, d)
  BY <1>4, <1>5, <1>6, SetsCurrent DEF IsDeleted, Framed
<1>8. m' = d
  BY <1>1, <1>3, <1>4, <1>7 DEF yypop_buffer_state, IsCurrent
<1>9. /\ Globals(F, m') /\ DOMAIN m'.buf = DOMAIN m.buf \ {Cur} /\ YY_CURRENT_BUFFER(m') = None
      /\ \A o \in DOMAIN m'.buf : m'.buf[o] = m.buf[o]
  BY <1>6, <1>7, <1>8 DEF IsDeleted, IsCurrent
<1>10. StillOff(m, m', {})
  BY <1>5, <1>6, <1>7, <1>8 DEF IsDeleted, IsCurrent, StillOff, OffStack
<1>11. Honest(View(m, Rested(m)), rest, owed) /\ Owns(m, owed)
  BY <1>1, TextAtRest
<1>12. SeenAlike(m, Rested(m), m', Rested(m'), DOMAIN owed \ {Cur})
  BY <1>5, <1>9, Seens DEF SeenAlike, Cur
<1>13. Honest(View(m', Rested(m')), rest, owed')
  <2>1. DOMAIN m.buf \ {Cur} \subseteq DOMAIN m'.buf
    BY <1>9
  <2> QED BY <1>1, <1>11, <1>12, <2>1, TextWithout
<1>14. Owns(m', owed')
  <2>1. DOMAIN owed' = DOMAIN owed \ {Cur}
    BY <1>1 DEF Restrict
  <2> QED BY <1>5, <1>9, <1>10, <1>11, <2>1, StillOwns
<1>15. Pointing(m')
  BY <1>9 DEF Pointing
<1> QED BY <1>1, <1>13, <1>14, <1>15, TextRests

LEMMA DestroyStackText ==
  ASSUME IInv, TextInv, DestroyStack
  PROVE  TextInv'
<1>1. /\ pc = "destroy" /\ Cur = None /\ m' = yy_init_globals(m) /\ pc' = "idle"
      /\ owed' = Restrict(owed, Held) /\ UNCHANGED <<client, rest, local, tok>>
  BY DEF DestroyStack
<1>2. PICK F : F = client.files
  OBVIOUS
<1>3. /\ Framed(F, m) /\ Globals(F, m) /\ Record(m)
      /\ DOMAIN owed \subseteq DOMAIN m.buf /\ None \notin DOMAIN m.buf
  BY <1>2, ClientKnown, NoneIsNoBuffer DEF Globals
<1>4. m'.buf = m.buf /\ m'.stack = <<>>
  BY <1>1, <1>3 DEF Record, yy_init_globals
<1>5. YY_CURRENT_BUFFER(m') = None
  BY <1>4 DEF YY_CURRENT_BUFFER
<1>6. Honest(View(m, Rested(m)), rest, owed) /\ Owns(m, owed)
  BY <1>1, TextAtRest
<1>7. SeenAlike(m, Rested(m), m', Rested(m'), DOMAIN owed)
  BY <1>1, <1>3, <1>4, <1>5, Seens DEF SeenAlike, Cur
<1>8. DOMAIN owed' \subseteq DOMAIN owed /\ \A c \in DOMAIN owed' : owed'[c] = owed[c]
  BY <1>1 DEF Restrict, Held
<1>9. Honest(View(m', Rested(m')), rest, owed')
  <2>1. None \notin DOMAIN owed'
    BY <1>3, <1>8
  <2>2. SeenAlike(m, Rested(m), m', Rested(m'), DOMAIN owed' \ {None})
    BY <1>7, <1>8 DEF SeenAlike
  <2>3. SameOwed(m, Rested(m), rest, owed, rest, owed', DOMAIN owed' \ {None})
    BY <1>8 DEF SameOwed
  <2>4. DOMAIN owed' \subseteq DOMAIN m'.buf
    BY <1>3, <1>4, <1>8
  <2> QED BY <1>6, <2>1, <2>2, <2>3, <2>4, SeenBut
<1>10. Owns(m', owed')
  BY <1>4 DEF Owns, OffStack
<1>11. Pointing(m')
  BY <1>5 DEF Pointing
<1> QED BY <1>1, <1>9, <1>10, <1>11, TextRests
-----------------------------------------------------------------------------
(* During a call. *)

(* The current buffer is owed, and says so. *)
LEMMA TextNow ==
  ASSUME IInv, TextInv, pc # "fatal", Cur # None
  PROVE  /\ Cur \in DOMAIN m.buf /\ m.buf[Cur] = B(m) /\ Cur \in DOMAIN owed
         /\ Told(Active(m, Ahead), rest, owed[Cur])
<1>1. PICK F : F = client.files
  OBVIOUS
<1>2. Framed(F, m) /\ Globals(F, m) /\ DOMAIN owed \subseteq DOMAIN m.buf /\ YY_CURRENT_BUFFER(m) = Cur
  BY <1>1, ClientKnown DEF Cur
<1>3. Cur \in DOMAIN m.buf /\ m.buf[Cur] = B(m)
  BY <1>2, CurrentHeld DEF B
<1>4. ~OffStack(m, Cur)
  BY <1>2, CurrentHeld DEF OffStack, YY_CURRENT_BUFFER, Globals, Stacked
<1>5. Honest(View(m, Ahead), rest, owed) /\ Owns(m, owed)
  BY DEF TextInv
<1>6. Cur \in DOMAIN owed
  BY <1>3, <1>4, <1>5 DEF Owns
<1>7. PICK s : s = Ahead
  OBVIOUS
<1>8. Told(Seen(m, s, Cur), rest, owed[Cur])
  BY <1>5, <1>6, <1>7, HonestSeen
<1>9. Seen(m, s, Cur) = Active(m, s)
  BY <1>2, Seens
<1> QED BY <1>3, <1>6, <1>7, <1>8, <1>9

(* What its stream will add. *)
Coming(w, R) == IF B(w).fill THEN R[w.in] ELSE <<>>
LEMMA ToldActive ==
  ASSUME NEW w, NEW s, NEW R, NEW t
  PROVE  Told(Active(w, s), R, t) <=>
           s \o Coming(w, R) = t /\ (B(w).fill /\ B(w).status = "pending" => R[w.in] = <<>>)
<1>1. PICK v : v = Active(w, s)
  OBVIOUS
<1>2. v.left = s /\ v.in = w.in /\ v.fill = B(w).fill /\ v.status = B(w).status
  BY <1>1, Fields
<1>3. More(v, R) = Coming(w, R)
  BY <1>2 DEF More, Coming
<1> QED BY <1>1, <1>2, <1>3 DEF Told

LEMMA ComingText ==
  ASSUME IInv, Awake(client.files, m)
  PROVE  Coming(m, rest) \in Seq(Char)
<1>1. rest \in [client.files -> Seq(Char)] /\ (B(m).fill => m.in \in client.files)
  BY ClientKnown DEF Awake
<1>2. CASE B(m).fill
  BY <1>1, <1>2 DEF Coming
<1>3. CASE ~B(m).fill
  BY <1>3 DEF Coming
<1> QED BY <1>2, <1>3

(* A step that touches the current buffer alone, and its stream. *)
Within ==
  /\ Beside(m, m') /\ m'.init /\ m'.in = m.in /\ B(m').fill = B(m).fill
  /\ DOMAIN owed' = DOMAIN owed /\ \A c \in DOMAIN owed \ {Cur} : owed'[c] = owed[c]
  /\ rest' = rest \/ (B(m).fill /\ \A f \in client.files \ {m.in} : rest'[f] = rest[f])
LEMMA TextGoesOn ==
  ASSUME IInv, TextInv, pc # "fatal", Cur # None, Within, Told(Active(m', Ahead'), rest', owed'[Cur])
  PROVE  TextInv'
<1>1. PICK F : F = client.files
  OBVIOUS
<1>2. PICK s : s = Ahead
  OBVIOUS
<1>3. PICK t : t = Ahead'
  OBVIOUS
<1>4. PICK D : D = DOMAIN owed \ {Cur}
  OBVIOUS
<1>5. /\ Framed(F, m) /\ Globals(F, m) /\ DOMAIN owed \subseteq DOMAIN m.buf
      /\ YY_CURRENT_BUFFER(m) = Cur /\ YY_CURRENT_BUFFER(m') = Cur
      /\ DOMAIN m'.buf = DOMAIN m.buf /\ \A o \in D : m'.buf[o] = m.buf[o]
      /\ StillOff(m, m', {Cur})
  BY <1>1, <1>4, ClientKnown DEF Within, Beside, Cur
<1>6. Honest(View(m, s), rest, owed) /\ Owns(m, owed) /\ Cur \in DOMAIN owed
  BY <1>2, TextNow DEF TextInv
<1>7. \A c \in D : Seen(m, s, c) = Stored(m.buf[c]) /\ Seen(m', t, c) = Stored(m.buf[c])
  BY <1>4, <1>5, Seens
<1>8. Seen(m, s, Cur) = Active(m, s) /\ Seen(m', t, Cur) = Active(m', t)
  BY <1>5, Seens
<1>9. SeenAlike(m, s, m', t, D)
  BY <1>7 DEF SeenAlike
<1>10. ASSUME NEW c \in D PROVE ~Clash(Active(m, s), Stored(m.buf[c]))
  <2>1. c \in DOMAIN owed /\ Cur # c
    BY <1>4
  <2>2. ~Clash(Seen(m, s, Cur), Seen(m, s, c))
    BY <1>6, <2>1, HonestSeen
  <2> QED BY <1>7, <1>8, <2>2
<1>11. ASSUME NEW c \in D, m.buf[c].fill PROVE rest'[m.buf[c].file] = rest[m.buf[c].file]
  <2>1. CASE rest' = rest
    BY <2>1
  <2>2. CASE B(m).fill /\ \A f \in client.files \ {m.in} : rest'[f] = rest[f]
    <3>1. m.buf[c].file # m.in
      BY <1>10, <1>11, <2>2, Fields DEF Clash
    <3>2. Whole(F, m.buf[c])
      BY <1>4, <1>5 DEF Globals
    <3>3. m.buf[c].file \in client.files
      BY <1>1, <1>11, <3>2 DEF Whole
    <3> QED BY <2>2, <3>1, <3>3
  <2> QED BY <2>1, <2>2 DEF Within
<1>12. SameOwed(m, s, rest, owed, rest', owed', D)
  <2>1. \A c \in D : c \in DOMAIN owed /\ owed'[c] = owed[c]
    BY <1>4 DEF Within
  <2>2. \A c \in D : Seen(m, s, c).fill = m.buf[c].fill /\ Seen(m, s, c).in = m.buf[c].file
    BY <1>7, Fields
  <2> QED BY <1>11, <2>1, <2>2 DEF SameOwed
<1>13. NoClash(m', t, Cur, D)
  <2>1. ASSUME NEW c \in D PROVE ~Clash(Active(m', t), Stored(m.buf[c]))
    <3>1. /\ Active(m', t).fill = Active(m, s).fill /\ Active(m', t).in = Active(m, s).in
      BY Fields DEF Within
    <3> QED BY <1>10, <3>1 DEF Clash
  <2> QED BY <1>7, <1>8, <2>1 DEF NoClash
<1>14. Told(Seen(m', t, Cur), rest', owed'[Cur])
  BY <1>3, <1>8
<1>15. DOMAIN owed' \subseteq DOMAIN m'.buf /\ DOMAIN owed' \ {Cur} = D
  BY <1>4, <1>5 DEF Within
<1>16. Honest(View(m', t), rest', owed')
  BY <1>6, <1>9, <1>12, <1>13, <1>14, <1>15, SeenBut
<1>17. Owns(m', owed')
  <2>1. ASSUME NEW b \in DOMAIN m'.buf \ DOMAIN owed' PROVE OffStack(m', b)
    <3>1. b \in DOMAIN m.buf \ DOMAIN owed /\ b # Cur /\ b \in Buf
      BY <1>5, <1>6, <2>1 DEF Within, Globals
    <3> QED BY <1>5, <1>6, <3>1 DEF Owns, StillOff
  <2> QED BY <2>1 DEF Owns
<1>18. Pointing(m')
  BY DEF Within, Pointing
<1> QED BY <1>3, <1>16, <1>17, <1>18 DEF TextInv

(* What the reader took, or gave back. *)
Undisturbed ==
  Within /\ rest' = rest /\ (B(m').status = "pending" => B(m).status = "pending")
LEMMA TextSaid ==
  ASSUME IInv, TextInv, pc # "fatal", Cur # None, Undisturbed,
         Ahead' \o Coming(m, rest) = owed'[Cur]
  PROVE  TextInv'
<1>1. PICK v : v = m'
  OBVIOUS
<1>2. PICK s : s = Ahead
  OBVIOUS
<1>3. PICK t : t = Ahead'
  OBVIOUS
<1>4. PICK x : x = owed'[Cur]
  OBVIOUS
<1>5. PICK o : o = owed[Cur]
  OBVIOUS
<1>6. Told(Active(m, s), rest, o)
  BY <1>2, <1>5, TextNow
<1>7. B(m).fill /\ B(m).status = "pending" => rest[m.in] = <<>>
  BY <1>6, ToldActive
<1>8. /\ v.in = m.in /\ B(v).fill = B(m).fill /\ (B(v).status = "pending" => B(m).status = "pending")
  BY <1>1 DEF Undisturbed, Within
<1>9. t \o Coming(v, rest) = x /\ (B(v).fill /\ B(v).status = "pending" => rest[v.in] = <<>>)
  BY <1>3, <1>4, <1>7, <1>8 DEF Coming
<1>10. Told(Active(v, t), rest, x)
  BY <1>9, ToldActive
<1>11. rest' = rest /\ Within
  BY DEF Undisturbed
<1> QED BY <1>1, <1>3, <1>4, <1>10, <1>11, TextGoesOn

LEMMA OwedNow ==
  ASSUME IInv, TextInv, pc # "fatal", Cur # None
  PROVE  Ahead \o Coming(m, rest) = owed[Cur] /\ Cur \in DOMAIN owed
<1>1. PICK s : s = Ahead
  OBVIOUS
<1>2. PICK o : o = owed[Cur]
  OBVIOUS
<1>3. Told(Active(m, s), rest, o) /\ Cur \in DOMAIN owed
  BY <1>1, <1>2, TextNow
<1>4. s \o Coming(m, rest) = o
  BY <1>3, ToldActive
<1> QED BY <1>1, <1>2, <1>3, <1>4

LEMMA TextStays ==
  ASSUME IInv, TextInv, pc # "fatal", Cur # None, Undisturbed, owed' = owed, Ahead' = Ahead
  PROVE  TextInv'
  BY OwedNow, TextSaid

LEMMA TextTaken ==
  ASSUME IInv, TextInv, pc # "fatal", Cur # None, Awake(client.files, m), Undisturbed,
         NEW p \in Seq(Char), Ahead' \in Seq(Char), Ahead = p \o Ahead',
         owed' = [owed EXCEPT ![Cur] = Drop(@, Len(p))]
  PROVE  TextInv'
<1>1. PICK t \in Seq(Char) : t = Ahead'
  OBVIOUS
<1>2. PICK c \in Seq(Char) : c = Coming(m, rest)
  BY ComingText
<1>3. owed[Cur] = (p \o t) \o c /\ Cur \in DOMAIN owed
  BY <1>1, <1>2, OwedNow
<1>4. PICK u \in Seq(Char) : u = t \o c
  BY ConcatProperties
<1>5. (p \o t) \o c = p \o (t \o c)
  BY ConcatAssociative, SMTT(30)
<1>6. owed'[Cur] = Drop(p \o u, Len(p))
  BY <1>3, <1>4, <1>5
<1>7. Drop(p \o u, Len(p)) = u
  BY DropFirst
<1>8. Ahead' \o Coming(m, rest) = owed'[Cur]
  BY <1>1, <1>2, <1>4, <1>6, <1>7
<1> QED BY <1>8, TextSaid

LEMMA TextBack ==
  ASSUME IInv, TextInv, pc # "fatal", Cur # None, Awake(client.files, m), Undisturbed,
         NEW p \in Seq(Char), Ahead \in Seq(Char), Ahead' = p \o Ahead,
         owed' = [owed EXCEPT ![Cur] = p \o @]
  PROVE  TextInv'
<1>1. PICK s \in Seq(Char) : s = Ahead
  OBVIOUS
<1>2. PICK c \in Seq(Char) : c = Coming(m, rest)
  BY ComingText
<1>3. owed[Cur] = s \o c /\ Cur \in DOMAIN owed
  BY <1>1, <1>2, OwedNow
<1>4. owed'[Cur] = p \o (s \o c)
  BY <1>3
<1>5. (p \o s) \o c = p \o (s \o c)
  BY ConcatAssociative, SMTT(30)
<1>6. Ahead' \o Coming(m, rest) = owed'[Cur]
  BY <1>1, <1>2, <1>4, <1>5
<1> QED BY <1>6, TextSaid

(* Once the scanner has given up nothing is promised. *)
LEMMA TextGivesUp ==
  ASSUME pc' = "fatal", m'.init
  PROVE  TextInv'
  BY DEF TextInv, Pointing
-----------------------------------------------------------------------------
(* At the beginning and the end of a call, what is ahead begins at yy_c_buf_p. *)
LEMMA AheadAtRest ==
  ASSUME pc \in {"idle", "destroy"}, Cur # None
  PROVE  Ahead = Piece(Restored(m), m.cp, m.n)
  BY DEF Ahead, Rested, Cur

(* The text of a buffer at rest, from yytext or yy_c_buf_p on. *)
LEMMA RestHolds ==
  ASSUME NEW F, NEW w, Framed(F, w), Between(F, w), NEW i \in Nat, i >= w.cp \/ i >= w.text, i <= w.n
  PROVE  Holds(Char, Restored(w), i, w.n)
<1>1. w.n \in Nat /\ w.cp \in Nat /\ w.text \in Nat
  BY Bounds DEF Between
<1>2. \A x \in i..w.n - 1 : x \in 0..w.n + 1 /\ (x >= w.cp \/ x >= w.text)
  BY <1>1
<1> QED BY <1>1, <1>2 DEF Holds, Between

LEMMA PieceParts ==
  ASSUME NEW S, NEW a, NEW i, NEW j, NEW n, Holds(S, a, i, j), Holds(S, a, j, n)
  PROVE  /\ Piece(a, i, n) = Piece(a, i, j) \o Piece(a, j, n)
         /\ Piece(a, i, j) \in Seq(S) /\ Piece(a, j, n) \in Seq(S) /\ Piece(a, i, n) \in Seq(S)
<1>1. i \in Int /\ j \in Int /\ n \in Int /\ i <= j /\ j <= n
  BY DEF Holds
<1>2. Holds(S, a, i, n)
  <2>1. \A x \in i..n - 1 : x \in i..j - 1 \/ x \in j..n - 1
    BY <1>1
  <2> QED BY <1>1, <2>1 DEF Holds
<1>3. /\ IsPiece(S, a, i, j, Piece(a, i, j)) /\ IsPiece(S, a, j, n, Piece(a, j, n))
      /\ IsPiece(S, a, i, n, Piece(a, i, n))
  BY <1>2, PieceSeq
<1>4. Piece(a, i, n) = Piece(a, i, j) \o Piece(a, j, n)
  BY <1>1, <1>2, PieceSplit
<1> QED BY <1>3, <1>4 DEF IsPiece

LEMMA LessText ==
  ASSUME IInv, TextInv, Cur # None, NEW n \in 0..m.leng - 1, yyless(n)
  PROVE  TextInv'
<1>1. PICK F : F = client.files
  OBVIOUS
<1>2. PICK R : R = Restored(m)
  OBVIOUS
<1>3. PICK i : i = m.text + n
  OBVIOUS
<1>4. PICK back : back = [k \in 1..m.leng - n |-> Chars(m)[m.text + n + k - 1]]
  OBVIOUS
<1>5. /\ pc = "idle" /\ pc' = pc /\ rest' = rest /\ m.cp = m.text + m.leng
      /\ owed' = [owed EXCEPT ![Cur] = back \o @]
  BY <1>4 DEF yyless, Called
<1>6. IsCut(F, n, m')
  BY <1>1, Cuts
<1>7. Framed(F, m) /\ Between(F, m) /\ Awake(F, m) /\ YY_CURRENT_BUFFER(m) = Cur
  BY <1>1, <1>5, ClientKnown DEF AtRest, Between, Cur
<1>8. /\ m.n \in Nat /\ m.cp \in Nat /\ m.text \in Nat /\ m.leng \in Int /\ m.cp <= m.n
      /\ B(m).ch \in [0..B(m).size + 1 -> Slot] /\ n \in Nat
  BY <1>7, Bounds DEF Between
<1>9. i \in Nat /\ i < m.cp /\ i <= m.n /\ i >= m.text
  BY <1>3, <1>6, <1>8 DEF IsCut
<1>10. Holds(Char, R, i, m.n) /\ Holds(Char, R, m.cp, m.n) /\ Holds(Char, R, i, m.cp)
  <2>1. Holds(Char, R, i, m.n) /\ Holds(Char, R, m.cp, m.n)
    BY <1>2, <1>7, <1>8, <1>9, RestHolds
  <2> QED BY <1>8, <1>9, <2>1 DEF Holds
<1>11. back = Piece(R, i, m.cp)
  <2>1. m.cp - i = m.leng - n
    BY <1>3, <1>5, <1>8
  <2>2. ASSUME NEW k \in 1..m.leng - n PROVE B(m).ch[i + k - 1] = R[i + k - 1]
    <3>1. i + k - 1 # m.cp
      BY <1>8, <1>9, <2>1
    <3>2. DOMAIN B(m).ch = 0..B(m).size + 1
      BY <1>8
    <3> QED BY <1>2, <3>1, <3>2 DEF Restored
  <2>3. back = [k \in 1..m.leng - n |-> B(m).ch[i + k - 1]]
    BY <1>3, <1>4 DEF Chars, B
  <2> QED BY <2>1, <2>2, <2>3 DEF Piece
<1>12. Ahead = Piece(R, m.cp, m.n)
  BY <1>2, <1>5, AheadAtRest
<1>13. Ahead' = Piece(R, i, m.n)
  <2>1. Cur' # None /\ pc' = "idle" /\ Restored(m') = R /\ m'.cp = i /\ m'.n = m.n
    BY <1>2, <1>3, <1>5, <1>6, <1>7 DEF IsCut, Beside, Cur
  <2>2. Ahead' = Rested(m') /\ YY_CURRENT_BUFFER(m') # None
    BY <2>1 DEF Ahead, Cur
  <2> QED BY <2>1, <2>2 DEF Rested
<1>14. Piece(R, i, m.n) = back \o Piece(R, m.cp, m.n)
  <2>1. PICK p : p = m.cp
    OBVIOUS
  <2>2. Piece(R, i, m.n) = Piece(R, i, p) \o Piece(R, p, m.n)
    BY <1>10, <2>1, PieceParts
  <2> QED BY <1>11, <2>1, <2>2
<1>15. back \in Seq(Char) /\ Piece(R, m.cp, m.n) \in Seq(Char)
  BY <1>10, <1>11, PieceParts
<1>16. Undisturbed
  BY <1>5, <1>6 DEF IsCut, Undisturbed, Within, SameButText
<1>17. Ahead \in Seq(Char) /\ Ahead' = back \o Ahead /\ Awake(client.files, m)
  BY <1>1, <1>7, <1>12, <1>13, <1>14, <1>15
<1> QED BY <1>5, <1>15, <1>16, <1>17, TextBack

LEMMA UnputText ==
  ASSUME IInv, TextInv, NEW c \in PushBack, yyunput(c)
  PROVE  TextInv'
<1>1. PICK F : F = client.files
  OBVIOUS
<1>2. /\ pc = "idle" /\ m.init /\ Cur # None /\ rest' = rest
      /\ \/ pc' = "fatal" /\ m' = m
         \/ pc' = pc /\ owed' = [owed EXCEPT ![Cur] = <<c>> \o @]
  BY Zenon DEF yyunput, Called
<1>3. CASE pc' = "fatal" /\ m' = m
  BY <1>2, <1>3, TextGivesUp
<1>4. CASE pc' = pc /\ owed' = [owed EXCEPT ![Cur] = <<c>> \o @]
  <2>1. PICK d \in Nat : IsUnput(F, c, d, m')
    BY <1>1, <1>2, <1>4, Unputs
  <2>2. PICK R : R = Restored(m)
    OBVIOUS
  <2>3. PICK S : S = Restored(m')
    OBVIOUS
  <2>4. PICK e \in Nat : e = m'.cp
    BY <2>1 DEF IsUnput
  <2>5. Framed(F, m) /\ Between(F, m) /\ Awake(F, m) /\ YY_CURRENT_BUFFER(m) = Cur
    BY <1>1, <1>2, ClientKnown DEF AtRest, Between, Cur
  <2>6. m.n \in Nat /\ m.cp \in Nat /\ m.cp <= m.n
    BY <2>5, Bounds DEF Between
  <2>7. /\ e = m.cp + d - 1 /\ m'.n = m.n + d /\ S[e] = c /\ Framed(F, m') /\ Between(F, m')
        /\ \A i \in m.cp..m.n - 1 : S[i + d] = R[i]
    BY <2>1, <2>2, <2>3, <2>4 DEF IsUnput
  <2>8. Ahead = Piece(R, m.cp, m.n)
    BY <1>2, <2>2, AheadAtRest
  <2>9. Ahead' = Piece(S, e, m.n + d)
    <3>1. Ahead' = Rested(m') /\ YY_CURRENT_BUFFER(m') # None
      BY <1>2, <1>4, <2>1, <2>5 DEF Ahead, IsUnput, Beside
    <3> QED BY <2>3, <2>4, <2>7, <3>1 DEF Rested
  <2>10. Piece(S, m.cp + d, m.n + d) = Piece(R, m.cp, m.n)
    BY <2>6, <2>7, PieceMoved
  <2>11. Holds(Char, S, e, m.n + d) /\ Holds(Char, R, m.cp, m.n)
    <3>1. e <= m'.n /\ e >= m'.cp
      BY <2>4, <2>6, <2>7
    <3>2. Holds(Char, S, e, m'.n)
      BY <2>3, <2>7, <3>1, RestHolds
    <3>3. m.cp <= m.n /\ m.cp >= m.cp
      BY <2>6
    <3>4. Holds(Char, R, m.cp, m.n)
      BY <2>2, <2>5, <2>6, <3>3, RestHolds
    <3> QED BY <2>7, <3>2, <3>4
  <2>12. e + 1 = m.cp + d /\ e <= e + 1 /\ e + 1 <= m.n + d /\ e + 1 \in Int /\ m.n + d \in Int
    BY <2>6, <2>7
  <2>13. Piece(S, e, m.n + d) = Piece(S, e, e + 1) \o Piece(S, e + 1, m.n + d)
    <3>1. Holds(Char, S, e, e + 1) /\ Holds(Char, S, e + 1, m.n + d)
      BY <2>11, <2>12 DEF Holds
    <3> QED BY <3>1, PieceParts
  <2>14. Piece(S, e, e + 1) = <<c>>
    <3>1. 1..(e + 1) - e = 1..1 /\ \A k \in 1..1 : e + k - 1 = e
      OBVIOUS
    <3>2. Piece(S, e, e + 1) = [k \in 1..1 |-> S[e]]
      BY <3>1 DEF Piece
    <3> QED BY <2>7, <3>2
  <2>15. <<c>> \in Seq(Char) /\ Piece(R, m.cp, m.n) \in Seq(Char)
    <3>1. c \in Char
      BY ScannerAssumption
    <3>2. <<c>> \in Seq(Char)
      BY <3>1
    <3>3. IsPiece(Char, R, m.cp, m.n, Piece(R, m.cp, m.n))
      BY <2>11, PieceSeq
    <3> QED BY <3>2, <3>3 DEF IsPiece
  <2>16. Undisturbed
    BY <1>2, <1>4, <2>1 DEF IsUnput, Undisturbed, Within
  <2>17. Ahead \in Seq(Char) /\ Ahead' = <<c>> \o Ahead /\ Awake(client.files, m)
    BY <1>1, <2>5, <2>8, <2>9, <2>10, <2>12, <2>13, <2>14, <2>15
  <2> QED BY <1>2, <1>4, <2>15, <2>16, <2>17, TextBack
<1> QED BY <1>2, <1>3, <1>4, Zenon

-----------------------------------------------------------------------------
(* The running call. *)
LEMMA YylexText ==
  ASSUME IInv, TextInv, yylex
  PROVE  TextInv'
<1>1. PICK F : F = client.files
  OBVIOUS
<1>2. PICK e : e = ReadyToScan(m)
  OBVIOUS
<1>3. PICK b : b = YY_CURRENT_BUFFER(e)
  OBVIOUS
<1>4. /\ IsReady(F, e) /\ IsPoked(F, e, e.cp, e.hold, m') /\ B(m').ch = Restored(e)
      /\ pc = "idle" /\ (Cur = None => ~m.init /\ Unallocated /\ Unused(Pointed(m)))
      /\ bp' = e.cp /\ pc' = "match" /\ rest' = rest
      /\ owed' = (IF Cur = None THEN With(owed, NewBuffer(m), rest[Pointed(m)]) ELSE owed)
  <2>1. rest' = rest
    BY DEF yylex
  <2> QED BY <1>1, <1>2, <2>1, YylexLooks DEF IsLooking
<1>5. /\ Framed(F, e) /\ Globals(F, e) /\ b # None /\ e.init
      /\ Framed(F, m') /\ Globals(F, m') /\ Same(e, m') /\ SameButText(B(e), B(m'))
      /\ YY_CURRENT_BUFFER(m') = b /\ Beside(e, m')
  <2>1. Framed(F, e) /\ Awake(F, e) /\ e.init
    BY <1>4 DEF IsReady, AtRest
  <2>2. b # None /\ Globals(F, e)
    BY <1>3, <2>1 DEF Awake, Framed
  <2>3. /\ Framed(F, m') /\ Same(e, m') /\ SameButText(B(e), B(m'))
        /\ YY_CURRENT_BUFFER(m') = b /\ Beside(e, m')
    BY <1>3, <1>4 DEF IsPoked
  <2>4. Globals(F, m')
    BY <2>3 DEF Framed
  <2> QED BY <2>1, <2>2, <2>3, <2>4
<1>6. m'.init /\ m'.in = e.in /\ m'.n = e.n /\ B(m').fill = B(e).fill /\ B(m').status = B(e).status
  BY <1>5 DEF Same, SameButText
<1>7. Ahead' = Piece(Restored(e), e.cp, e.n)
  <2>1. Ahead' = Piece(B(m').ch, bp', m'.n)
    BY <1>4 DEF Ahead
  <2> QED BY <1>4, <1>6, <2>1
<1>8. Framed(F, m) /\ Globals(F, m) /\ DOMAIN owed \subseteq DOMAIN m.buf /\ None \notin DOMAIN m.buf
  BY <1>1, ClientKnown, NoneIsNoBuffer
<1>9. Honest(View(m, Rested(m)), rest, owed) /\ Owns(m, owed) /\ Pointing(m)
  BY <1>4, TextAtRest
<1>10. CASE Cur # None
  <2>1. /\ b = Cur /\ DOMAIN e.buf = DOMAIN m.buf /\ StillOff(m, e, {b})
        /\ \A o \in DOMAIN m.buf : e.buf[o] = m.buf[o]
        /\ e.n = m.n /\ e.cp = m.cp /\ Restored(e) = Restored(m)
        /\ e.in = (IF m.init THEN m.in ELSE B(m).file)
    BY <1>3, <1>4, <1>10 DEF IsReady
  <2>2. e.in = m.in
    BY <1>9, <1>10, <2>1 DEF Pointing, Cur
  <2>3. B(e) = B(m) /\ Beside(m, e)
    <3>1. Cur \in DOMAIN m.buf
      BY <1>8, <1>10, CurrentHeld DEF Cur
    <3> QED BY <1>3, <2>1, <3>1 DEF B, Beside, Cur
  <2>4. Undisturbed
    <3>1. Beside(m, m')
      BY <1>5, <2>3, BesideToo
    <3> QED BY <1>4, <1>6, <1>10, <2>2, <2>3, <3>1 DEF Undisturbed, Within
  <2>5. Ahead' = Ahead
    <3>1. Ahead = Piece(Restored(m), m.cp, m.n)
      BY <1>4, <1>10, AheadAtRest
    <3> QED BY <1>7, <2>1, <3>1
  <2> QED BY <1>4, <1>10, <2>4, <2>5, TextStays
<1>11. CASE Cur = None
  <2>1. PICK f : f = Pointed(m)
    OBVIOUS
  <2>2. /\ b = NewBuffer(m) /\ DOMAIN e.buf = DOMAIN m.buf \cup {b} /\ StillOff(m, e, {b})
        /\ \A o \in DOMAIN m.buf : e.buf[o] = m.buf[o]
        /\ Empty(B(e), f) /\ e.in = f /\ e.n = 0 /\ e.cp = 0 /\ f \in F
    BY <1>3, <1>4, <1>11, <2>1 DEF IsReady
  <2>3. Unused(f) /\ owed' = With(owed, b, rest[f]) /\ rest[f] \in Seq(Char)
    BY <1>1, <1>4, <1>11, <2>1, <2>2, ClientKnown
  <2>4. b \notin DOMAIN m.buf
    BY <1>4, <1>8, <1>11, <2>2, ClientKnown, NewBufferIsNew DEF Globals
  <2>5. /\ DOMAIN m'.buf = DOMAIN m.buf \cup {b} /\ StillOff(m, m', {b})
        /\ \A o \in DOMAIN m.buf : m'.buf[o] = m.buf[o]
    BY <1>3, <1>5, <2>2, <2>4 DEF Beside, StillOff
  <2>6. PICK t : t = Ahead'
    OBVIOUS
  <2>7. t = <<>>
    BY <1>7, <2>2, <2>6, PieceEmpty
  <2>8. Told(Active(m', t), rest, rest[f]) /\ Active(m', t).in = f
    <3>1. B(m').fill = TRUE /\ B(m').status = "new" /\ m'.in = f
      BY <1>6, <2>2 DEF Empty
    <3>2. Coming(m', rest) = rest[f]
      BY <3>1 DEF Coming
    <3>3. t \o Coming(m', rest) = rest[f]
      BY <2>3, <2>7, <3>2
    <3> QED BY <3>1, <3>3, ToldActive, Fields
  <2>9. Seen(m', t, b) = Active(m', t)
    BY <1>5, Seens
  <2>10. SeenAlike(m, Rested(m), m', t, DOMAIN owed \ {b})
    <3>1. \A c \in DOMAIN owed \ {b} : c # Cur /\ m'.buf[c] = m.buf[c]
      BY <1>8, <1>11, <2>5
    <3> QED BY <1>5, <3>1, Seens DEF SeenAlike, Cur
  <2>11. NoClash(m', t, b, DOMAIN owed \ {b})
    <3>1. \A c \in DOMAIN owed \ {b} : Seen(m, Rested(m), c).in # f
      BY <1>8, <1>11, <2>3, UnusedSeen
    <3> QED BY <2>8, <2>9, <2>10, <3>1 DEF NoClash, Clash, SeenAlike
  <2>12. DOMAIN owed' \subseteq DOMAIN m'.buf /\ DOMAIN owed' = DOMAIN owed \cup {b}
    BY <1>8, <2>3, <2>5 DEF With
  <2>13. Honest(View(m', t), rest, owed')
    BY <1>9, <2>3, <2>8, <2>9, <2>10, <2>11, <2>12, TextWith
  <2>14. Owns(m', owed')
    BY <1>5, <1>8, <1>9, <2>5, <2>12, StillOwns
  <2>15. Pointing(m')
    BY <1>6 DEF Pointing
  <2> QED BY <1>4, <2>6, <2>13, <2>14, <2>15 DEF TextInv
<1> QED BY <1>10, <1>11

LEMMA MatchText ==
  ASSUME IInv, TextInv, Match
  PROVE  TextInv'
<1>1. PICK F : F = client.files
  OBVIOUS
<1>2. /\ pc = "match" /\ m' = Accepting(st, m, lp) /\ pc' \in {"match", "find"}
      /\ rest' = rest /\ bp' = bp /\ owed' = owed
  BY DEF Match
<1>3. Framed(F, m) /\ Awake(F, m) /\ m.init /\ lp \in Nat /\ st \in 1..10 /\ Cur # None
  BY <1>1, <1>2 DEF IInv, AtMatch, Typed, Awake, Cur
<1>4. IsAccepted(F, m, st, lp, m')
  BY <1>2, <1>3, Accepts
<1>5. B(m') = B(m) /\ m'.buf = m.buf /\ SameStack(m, m') /\ SameCounts(m, m')
  BY <1>4 DEF IsAccepted
<1>6. Beside(m, m')
  BY <1>5, BesideSame
<1>7. Undisturbed
  BY <1>2, <1>3, <1>5, <1>6 DEF Undisturbed, Within, SameCounts
<1>8. Ahead' = Ahead
  BY <1>2, <1>5 DEF Ahead, SameCounts
<1> QED BY <1>2, <1>3, <1>7, <1>8, TextStays

LEMMA FindActionText ==
  ASSUME IInv, TextInv, FindAction
  PROVE  TextInv'
<1>1. PICK F : F = client.files
  OBVIOUS
<1>2. PICK a : a = B(m).ch
  OBVIOUS
<1>3. PICK end : end = IF yy_accept[st] = 0 THEN m.lac ELSE lp
  OBVIOUS
<1>4. PICK p : p = Piece(a, bp, end)
  OBVIOUS
<1>5. IsFound(F, end)
  BY <1>1, <1>3, Finds
<1>6. /\ pc = "find" /\ IsEnded(F, m, bp, end, m') /\ rest' = rest /\ m.init /\ Framed(F, m) /\ Awake(F, m)
      /\ Plain(a, bp, m.n) /\ bp \in Nat /\ end \in Nat /\ bp < end /\ m.n \in Nat /\ Cur # None
  BY <1>2, <1>5 DEF IsFound, Awake, Cur
<1>7. Undisturbed
  <2>1. DOMAIN owed' = DOMAIN owed /\ \A c \in DOMAIN owed \ {Cur} : owed'[c] = owed[c]
    BY <1>5 DEF IsFound
  <2> QED BY <1>6, <2>1 DEF IsEnded, Undisturbed, Within, SameButText
<1>8. Ahead = Piece(a, bp, m.n)
  BY <1>2, <1>6 DEF Ahead
<1>9. m'.n = m.n /\ m'.cp = end /\ Restored(m') = a /\ YY_CURRENT_BUFFER(m') = YY_CURRENT_BUFFER(m)
  BY <1>2, <1>6 DEF IsEnded
<1>10. CASE pc' = "eob" /\ bp' = bp /\ owed' = owed
  <2>1. Ahead' = Ahead
    BY <1>8, <1>9, <1>10 DEF Ahead
  <2> QED BY <1>6, <1>7, <1>10, <2>1, TextStays
<1>11. CASE /\ end <= m.n /\ pc' = "idle"
            /\ owed' = [owed EXCEPT ![Cur] = Drop(@, Len([i \in 1..end - bp |-> a[bp + i - 1]]))]
  <2>1. owed' = [owed EXCEPT ![Cur] = Drop(@, Len(p))]
    BY <1>4, <1>11, Zenon DEF Piece
  <2>2. Holds(Char, a, bp, end) /\ Holds(Char, a, end, m.n)
    <3>1. \A x \in bp..m.n + 1 : a[x] \in Char
      BY <1>6 DEF Plain
    <3> QED BY <1>6, <1>11, <3>1 DEF Holds
  <2>3. Ahead' = Piece(a, end, m.n)
    <3>1. Ahead' = Rested(m') /\ YY_CURRENT_BUFFER(m') # None
      BY <1>6, <1>9, <1>11 DEF Ahead, Cur
    <3> QED BY <1>9, <3>1 DEF Rested
  <2>4. /\ Piece(a, bp, m.n) = Piece(a, bp, end) \o Piece(a, end, m.n)
        /\ Piece(a, bp, end) \in Seq(Char) /\ Piece(a, end, m.n) \in Seq(Char)
    BY <2>2, PieceParts
  <2>5. p \in Seq(Char) /\ Ahead' \in Seq(Char) /\ Ahead = p \o Ahead' /\ Awake(client.files, m)
    BY <1>1, <1>4, <1>6, <1>8, <2>3, <2>4
  <2> QED BY <1>6, <1>7, <2>1, <2>5, TextTaken
<1> QED BY <1>2, <1>5, <1>10, <1>11 DEF IsFound
-----------------------------------------------------------------------------
LEMMA RealNulText ==
  ASSUME IInv, TextInv, RealNul
  PROVE  TextInv'
<1>1. IsNulled
  BY RealNulStep
<1>2. Cur # None /\ pc # "fatal"
  BY <1>1 DEF IsNulled, IInv, AtEob, Awake, Cur
<1>3. Undisturbed
  BY <1>1 DEF IsNulled, Undisturbed, Within
<1>4. Ahead = Piece(Restored(m), bp, m.n)
  BY <1>1 DEF IsNulled, Ahead
<1>5. Ahead' = Piece(B(m').ch, bp', m'.n)
  BY <1>1 DEF IsNulled, Ahead
<1>6. Ahead' = Ahead /\ owed' = owed
  BY <1>1, <1>4, <1>5 DEF IsNulled
<1> QED BY <1>2, <1>3, <1>6, TextStays

LEMMA EndOfBufferText ==
  ASSUME IInv, TextInv, EndOfBuffer
  PROVE  TextInv'
<1>1. IsBufferEnd
  BY EndOfBufferStep
<1>2. PICK R : R = Restored(m)
  OBVIOUS
<1>3. /\ pc = "eob" /\ Cur # None /\ Awake(client.files, m) /\ bp \in Nat /\ m.n \in Nat /\ bp <= m.n
      /\ YY_CURRENT_BUFFER(m') # None
  BY <1>1 DEF IsBufferEnd, Awake, Beside, Cur
<1>4. Ahead = Piece(R, bp, m.n)
  BY <1>2, <1>3 DEF Ahead
<1>5. CASE /\ pc' = "refill" /\ owed' = owed /\ Kept' = m.n - bp
           /\ \A i \in 0..m.n - bp - 1 : B(m').ch[i] = R[bp + i]
  <2>1. PICK a : a = B(m').ch
    OBVIOUS
  <2>2. Undisturbed
    <3>1. DOMAIN owed' = DOMAIN owed /\ \A c \in DOMAIN owed \ {Cur} : owed'[c] = owed[c]
      BY <1>5
    <3> QED BY <1>1, <3>1 DEF IsBufferEnd, Undisturbed, Within
  <2>3. Ahead' = Piece(a, 0, m.n - bp)
    BY <1>1, <1>5, <2>1 DEF IsBufferEnd, Ahead
  <2>4. \A x \in bp..m.n - 1 : a[x + (0 - bp)] = R[x]
    <3>1. ASSUME NEW x \in bp..m.n - 1 PROVE a[x + (0 - bp)] = R[x]
      <4>1. x - bp \in 0..m.n - bp - 1 /\ bp + (x - bp) = x /\ x + (0 - bp) = x - bp
        BY <1>3
      <4> QED BY <1>5, <2>1, <4>1
    <3> QED BY <3>1
  <2>5. bp \in Int /\ m.n \in Int /\ 0 - bp \in Int /\ bp + (0 - bp) = 0 /\ m.n + (0 - bp) = m.n - bp
    BY <1>3
  <2>6. Piece(a, bp + (0 - bp), m.n + (0 - bp)) = Piece(R, bp, m.n)
    <3>1. PICK n \in Int : n = m.n
      BY <2>5
    <3>2. PICK d \in Int : d = 0 - bp
      BY <2>5
    <3>3. \A x \in bp..n - 1 : a[x + d] = R[x]
      BY <2>4, <3>1, <3>2
    <3>4. Piece(a, bp + d, n + d) = Piece(R, bp, n)
      BY <2>5, <3>3, PieceMoved
    <3> QED BY <3>1, <3>2, <3>4
  <2>7. Ahead' = Ahead
    BY <1>4, <2>3, <2>5, <2>6
  <2> QED BY <1>3, <1>5, <2>2, <2>7, TextStays
<1>6. CASE /\ pc' = "idle" /\ bp = m.n /\ m'.cp = m.n
           /\ owed' = [owed EXCEPT ![Cur] = Drop(@, Len(EndToken.text))]
  <2>1. Undisturbed
    <3>1. DOMAIN owed' = DOMAIN owed /\ \A c \in DOMAIN owed \ {Cur} : owed'[c] = owed[c]
      BY <1>6
    <3> QED BY <1>1, <3>1 DEF IsBufferEnd, Undisturbed, Within
  <2>2. Ahead = <<>>
    BY <1>3, <1>4, <1>6, PieceEmpty
  <2>3. Ahead' = <<>>
    <3>1. m'.n = m.n
      BY <1>1 DEF IsBufferEnd
    <3>2. Ahead' = Piece(Restored(m'), m.n, m.n)
      BY <1>3, <1>6, <3>1 DEF Ahead, Rested
    <3> QED BY <1>3, <3>2, PieceEmpty
  <2>4. EndToken.text \in Seq(Char) /\ EndToken.text = <<>>
    BY DEF EndToken
  <2>5. PICK p \in Seq(Char) : p = EndToken.text
    BY <2>4
  <2>6. owed' = [owed EXCEPT ![Cur] = Drop(@, Len(p))]
    BY <1>6, <2>5
  <2>7. Ahead' \in Seq(Char) /\ Ahead = p \o Ahead'
    BY <2>2, <2>3, <2>4, <2>5
  <2> QED BY <1>3, <2>1, <2>6, <2>7, TextTaken
<1>7. CASE pc' = "find" /\ bp' = bp /\ owed' = owed /\ B(m').ch = R
  <2>1. Undisturbed
    <3>1. DOMAIN owed' = DOMAIN owed /\ \A c \in DOMAIN owed \ {Cur} : owed'[c] = owed[c]
      BY <1>7
    <3> QED BY <1>1, <3>1 DEF IsBufferEnd, Undisturbed, Within
  <2>2. Ahead' = Piece(B(m').ch, bp', m'.n)
    BY <1>7 DEF Ahead
  <2>3. Ahead' = Ahead
    BY <1>1, <1>4, <1>7, <2>2 DEF IsBufferEnd
  <2> QED BY <1>3, <1>7, <2>1, <2>3, TextStays
<1> QED BY <1>1, <1>2, <1>5, <1>6, <1>7 DEF IsBufferEnd

LEMMA InputText ==
  ASSUME IInv, TextInv, input
  PROVE  TextInv'
<1>1. IsInput
  BY InputStep
<1>2. PICK R : R = Restored(m)
  OBVIOUS
<1>3. PICK k : k = m.cp
  OBVIOUS
<1>4. /\ pc = "idle" /\ Cur # None /\ Framed(client.files, m) /\ Between(client.files, m)
      /\ Awake(client.files, m) /\ k \in Nat /\ m.n \in Nat /\ k <= m.n /\ YY_CURRENT_BUFFER(m') # None
  BY <1>1, <1>3 DEF IsInput, Between, Beside, Cur
<1>5. Ahead = Piece(R, k, m.n)
  BY <1>2, <1>3, <1>4, AheadAtRest
<1>6. CASE pc' = "refill" /\ by' = "input" /\ k = m.n /\ owed' = owed
  <2>1. Undisturbed
    <3>1. DOMAIN owed' = DOMAIN owed /\ \A c \in DOMAIN owed \ {Cur} : owed'[c] = owed[c]
      BY <1>6
    <3> QED BY <1>1, <3>1 DEF IsInput, Undisturbed, Within
  <2>2. Ahead = <<>>
    BY <1>4, <1>5, <1>6, PieceEmpty
  <2>3. Ahead' = <<>>
    BY <1>6 DEF Ahead
  <2> QED BY <1>4, <1>6, <2>1, <2>2, <2>3, TextStays
<1>7. CASE /\ pc' = "idle" /\ k < m.n /\ m'.cp = k + 1 /\ Restored(m') = [R EXCEPT ![k] = NUL]
           /\ owed' = [owed EXCEPT ![Cur] = Drop(@, 1)]
  <2>1. PICK S : S = Restored(m')
    OBVIOUS
  <2>2. Undisturbed
    <3>1. DOMAIN owed' = DOMAIN owed /\ \A c \in DOMAIN owed \ {Cur} : owed'[c] = owed[c]
      BY <1>7
    <3> QED BY <1>1, <3>1 DEF IsInput, Undisturbed, Within
  <2>3. m'.n = m.n
    BY <1>1 DEF IsInput
  <2>4. Ahead' = Piece(S, k + 1, m.n)
    BY <1>4, <1>7, <2>1, <2>3 DEF Ahead, Rested
  <2>5. Piece(S, k + 1, m.n) = Piece(R, k + 1, m.n)
    <3>1. \A x \in k + 1..m.n - 1 : S[x] = R[x]
      <4>1. \A x \in k + 1..m.n - 1 : x # k
        BY <1>4
      <4> QED BY <1>7, <2>1, <4>1
    <3> QED BY <1>4, <3>1, PieceSame
  <2>6. Holds(Char, R, k, k + 1) /\ Holds(Char, R, k + 1, m.n)
    <3>1. Holds(Char, R, k, m.n)
      BY <1>2, <1>3, <1>4, RestHolds
    <3> QED BY <1>4, <1>7, <3>1 DEF Holds
  <2>7. /\ Piece(R, k, m.n) = Piece(R, k, k + 1) \o Piece(R, k + 1, m.n)
        /\ Piece(R, k, k + 1) \in Seq(Char) /\ Piece(R, k + 1, m.n) \in Seq(Char)
    BY <2>6, PieceParts
  <2>8. PICK p \in Seq(Char) : p = Piece(R, k, k + 1)
    BY <2>7
  <2>9. Len(p) = 1
    <3>1. IsPiece(Char, R, k, k + 1, Piece(R, k, k + 1))
      BY <2>6, PieceSeq
    <3>2. IsPiece(Char, R, k, k + 1, p)
      BY <2>8, <3>1
    <3>3. Len(p) = (k + 1) - k
      BY <3>2 DEF IsPiece
    <3> QED BY <1>4, <3>3
  <2>10. owed' = [owed EXCEPT ![Cur] = Drop(@, Len(p))]
    BY <1>7, <2>9
  <2>11. Ahead' \in Seq(Char) /\ Ahead = p \o Ahead'
    BY <1>5, <2>4, <2>5, <2>7, <2>8
  <2> QED BY <1>4, <2>2, <2>10, <2>11, TextTaken
<1> QED BY <1>1, <1>2, <1>3, <1>6, <1>7 DEF IsInput

LEMMA GrowText ==
  ASSUME IInv, TextInv, Grow
  PROVE  TextInv'
<1>1. IsGrown
  BY GrowStep
<1>2. CASE pc' = "fatal"
  BY <1>1, <1>2, TextGivesUp DEF IsGrown
<1>3. CASE /\ pc' = pc /\ Beside(m, m') /\ Same(m, m')
           /\ B(m').fill = B(m).fill /\ B(m').status = B(m).status
           /\ \A i \in 0..Kept - 1 : B(m').ch[i] = B(m).ch[i]
  <2>1. pc = "refill" /\ rest' = rest /\ by' = by /\ owed' = owed /\ m'.init
    BY <1>1 DEF IsGrown
  <2>2. Cur # None /\ Kept \in Nat
    BY <2>1, RefillKnown
  <2>3. Undisturbed
    <3>1. DOMAIN owed' = DOMAIN owed /\ \A c \in DOMAIN owed \ {Cur} : owed'[c] = owed[c]
      BY <2>1
    <3> QED BY <1>3, <2>1, <3>1 DEF Same, Undisturbed, Within
  <2>4. Kept' = Kept
    BY <1>3 DEF Same, Kept
  <2>5. Piece(B(m').ch, 0, Kept) = Piece(B(m).ch, 0, Kept)
    BY <1>3, <2>2, PieceSame
  <2>6. Ahead' = Ahead
    BY <1>3, <2>1, <2>4, <2>5 DEF Ahead
  <2> QED BY <2>1, <2>2, <2>3, <2>6, TextStays
<1> QED BY <1>1, <1>2, <1>3 DEF IsGrown

LEMMA ReadFailsText ==
  ASSUME IInv, TextInv, ReadFails
  PROVE  TextInv'
<1>1. pc = "refill" /\ pc' = "fatal" /\ m' = m
  BY DEF ReadFails
<1>2. m.init
  BY <1>1, RefillKnown
<1> QED BY <1>1, <1>2, TextGivesUp
-----------------------------------------------------------------------------
(* Text that came to lie d places further on. *)
Shifted(a, b, i, j, d) ==
  i \in Int /\ j \in Int /\ d \in Int /\ \A x \in i..j - 1 : b[x + d] = a[x]
LEMMA PieceShifted ==
  ASSUME NEW a, NEW b, NEW i, NEW j, NEW d, Shifted(a, b, i, j, d)
  PROVE  Piece(b, i + d, j + d) = Piece(a, i, j)
  BY PieceMoved DEF Shifted

(* The first of r characters read is handed out, the others stay ahead. *)
LEMMA DropMore ==
  ASSUME NEW S, NEW s \in Seq(S), NEW r \in Nat, r > 0, r <= Len(s)
  PROVE  Piece(s, 2, r + 1) \o Drop(s, r) = Drop(s, 1) /\ Piece(s, 2, r + 1) \in Seq(S)
<1>1. Holds(S, s, 1, 2) /\ Holds(S, s, 2, r + 1)
  <2>1. \A x \in 1..r + 1 - 1 : s[x] \in S
    OBVIOUS
  <2>2. \A x \in 1..2 - 1 : x \in 1..r + 1 - 1
    OBVIOUS
  <2>3. \A x \in 2..r + 1 - 1 : x \in 1..r + 1 - 1
    OBVIOUS
  <2>4. 2 <= r + 1 /\ r + 1 \in Int
    OBVIOUS
  <2> QED BY <2>1, <2>2, <2>3, <2>4 DEF Holds
<1>2. PICK h \in Int : h = 2
  OBVIOUS
<1>3. PICK n \in Int : n = r + 1
  OBVIOUS
<1>4. Holds(S, s, 1, h) /\ Holds(S, s, h, n)
  BY <1>1, <1>2, <1>3
<1>5. /\ Piece(s, 1, n) = Piece(s, 1, h) \o Piece(s, h, n)
      /\ Piece(s, 1, h) \in Seq(S) /\ Piece(s, h, n) \in Seq(S)
  BY <1>4, PieceParts
<1>6. PICK p \in Seq(S) : p = Piece(s, 1, h)
  BY <1>5
<1>7. PICK q \in Seq(S) : q = Piece(s, h, n)
  BY <1>5
<1>8. Len(p) = 1
  <2>1. IsPiece(S, s, 1, h, Piece(s, 1, h))
    BY <1>4, PieceSeq
  <2>2. IsPiece(S, s, 1, h, p)
    BY <1>6, <2>1
  <2>3. Len(p) = h - 1
    BY <2>2, Zenon DEF IsPiece
  <2> QED BY <1>2, <2>3
<1>9. r \in 0..Len(s)
  OBVIOUS
<1>10. Piece(s, 1, r + 1) \o Drop(s, r) = s /\ Drop(s, r) \in Seq(S)
  BY <1>9, DropRest
<1>11. PICK t \in Seq(S) : t = Drop(s, r)
  BY <1>10
<1>12. (p \o q) \o t = s
  BY <1>3, <1>5, <1>6, <1>7, <1>10, <1>11
<1>13. (p \o q) \o t = p \o (q \o t)
  BY ConcatAssociative, SMTT(30)
<1>14. PICK u \in Seq(S) : u = q \o t
  BY ConcatProperties
<1>15. Drop(p \o u, Len(p)) = u
  BY DropFirst
<1>16. s = p \o u
  BY <1>12, <1>13, <1>14
<1>17. Drop(s, 1) = u
  BY <1>8, <1>15, <1>16
<1>18. Piece(s, 2, r + 1) = q
  BY <1>2, <1>3, <1>7
<1> QED BY <1>11, <1>14, <1>17, <1>18

(* While a buffer is refilled its reader is owed what was kept and all that
   its stream still holds. *)
LEMMA RefillOwes ==
  ASSUME IInv, TextInv, pc = "refill"
  PROVE  /\ rest \in [client.files -> Seq(Char)] /\ m.in \in client.files /\ B(m).fill /\ Cur # None
         /\ Cur \in DOMAIN owed /\ owed[Cur] = Ahead \o rest[m.in]
         /\ (Pending => rest[m.in] = <<>>) /\ (Pending <=> B(m).status = "pending")
<1>1. /\ rest \in [client.files -> Seq(Char)] /\ m.in \in client.files /\ B(m).fill /\ Cur # None
      /\ m.buf[Cur] = B(m)
  BY ClientKnown, RefillKnown
<1>2. PICK s : s = Ahead
  OBVIOUS
<1>3. PICK o : o = owed[Cur]
  OBVIOUS
<1>4. Told(Active(m, s), rest, o) /\ Cur \in DOMAIN owed
  BY <1>1, <1>2, <1>3, TextNow
<1>5. s \o Coming(m, rest) = o /\ (B(m).status = "pending" => rest[m.in] = <<>>)
  BY <1>1, <1>4, ToldActive
<1>6. Coming(m, rest) = rest[m.in]
  BY <1>1 DEF Coming
<1> QED BY <1>1, <1>2, <1>3, <1>4, <1>5, <1>6 DEF Pending

(* A read touches the current buffer and its stream. *)
LEMMA ReadWithin ==
  ASSUME IInv, TextInv, NEW r \in Nat, IsRead(r), NEW left, left = rest[m.in],
         DOMAIN owed' = DOMAIN owed /\ \A c \in DOMAIN owed \ {Cur} : owed'[c] = owed[c]
  PROVE  Within /\ left \in Seq(Char) /\ Coming(m', rest') = Drop(left, r) /\ rest'[m'.in] = Drop(left, r)
<1>1. /\ pc = "refill" /\ rest' = [rest EXCEPT ![m.in] = Drop(@, r)]
      /\ Beside(m, m') /\ m'.init /\ m'.in = m.in /\ B(m').fill
  BY DEF IsRead
<1>2. rest \in [client.files -> Seq(Char)] /\ m.in \in client.files /\ B(m).fill
  BY <1>1, RefillOwes
<1>3. rest'[m.in] = Drop(left, r) /\ \A f \in client.files \ {m.in} : rest'[f] = rest[f]
  BY <1>1, <1>2
<1>4. Within
  BY <1>1, <1>2, <1>3 DEF Within
<1> QED BY <1>1, <1>2, <1>3, <1>4 DEF Coming

LEMMA ReadText ==
  ASSUME IInv, TextInv, Read
  PROVE  TextInv'
<1>1. PICK r \in Nat : IsRead(r)
  BY ReadStep
<1>2. PICK left : left = rest[m.in]
  OBVIOUS
<1>3. /\ pc = "refill" /\ r <= Len(left) /\ (r > 0 <=> ~(Pending \/ left = <<>>))
      /\ Beside(m, m') /\ m'.init /\ m'.in = m.in /\ B(m').fill
  BY <1>1, <1>2 DEF IsRead
<1>4. /\ Cur # None /\ Cur \in DOMAIN owed /\ owed[Cur] = Ahead \o left /\ left \in Seq(Char)
      /\ (Pending => left = <<>>) /\ (Pending <=> B(m).status = "pending") /\ Kept \in Nat
      /\ \A i \in 0..Kept - 1 : B(m).ch[i] \in Char
  BY <1>2, <1>3, RefillOwes, RefillKnown
<1>5. YY_CURRENT_BUFFER(m') # None
  BY <1>3, <1>4 DEF Beside, Cur
<1>6. PICK rem \in Seq(Char) : rem = Drop(left, r)
  BY <1>3, <1>4, DropRest
<1>7. r = 0 => left = <<>> /\ rem = <<>>
  <2> SUFFICES ASSUME r = 0 PROVE left = <<>> /\ rem = <<>>
    OBVIOUS
  <2>1. left = <<>>
    BY <1>3, <1>4
  <2>2. Drop(left, 0) = left
    BY <1>4, DropNone
  <2> QED BY <1>6, <2>1, <2>2
<1>8. PICK t : t = Ahead'
  OBVIOUS
<1>9. PICK x : x = owed'[Cur]
  OBVIOUS
<1>10. PICK v : v = m'
  OBVIOUS
<1>11. PICK k \in Nat : k = Kept
  BY <1>4
<1>12. ASSUME DOMAIN owed' = DOMAIN owed /\ \A c \in DOMAIN owed \ {Cur} : owed'[c] = owed[c],
              t \o rem = x, B(v).status = "pending" => rem = <<>>
       PROVE  TextInv'
  <2>1. Within /\ Coming(m', rest') = rem /\ rest'[m'.in] = rem
    BY <1>1, <1>2, <1>6, <1>12, ReadWithin
  <2>2. PICK Q : Q = rest'
    OBVIOUS
  <2>3. Coming(v, Q) = rem /\ Q[v.in] = rem
    BY <1>10, <2>1, <2>2
  <2>4. Told(Active(v, t), Q, x)
    BY <1>12, <2>3, ToldActive
  <2> QED BY <1>3, <1>4, <1>8, <1>9, <1>10, <2>1, <2>2, <2>4, TextGoesOn
<1>13. CASE by = "yylex" /\ pc' \in {"match", "find"} /\ bp' = 0 /\ owed' = owed /\ Grows(r)
  <2>1. PICK a : a = B(m).ch
    OBVIOUS
  <2>2. PICK b : b = B(v).ch
    OBVIOUS
  <2>3. /\ v.n = k + r /\ (\A i \in 0..k - 1 : b[i] = a[i])
        /\ (\A i \in k..k + r - 1 : b[i] = left[i - k + 1])
        /\ B(v).status = (IF r > 0 THEN B(m).status ELSE "pending")
    BY <1>2, <1>10, <1>11, <1>13, <2>1, <2>2 DEF Grows
  <2>4. Ahead = Piece(a, 0, k)
    BY <1>3, <1>11, <1>13, <2>1 DEF Ahead
  <2>5. t = Piece(b, 0, k + r)
    BY <1>8, <1>10, <1>13, <2>2, <2>3 DEF Ahead
  <2>6. Holds(Char, a, 0, k) /\ Holds(Char, b, 0, k) /\ Holds(Char, b, k, k + r)
    <3>1. \A i \in 0..k - 1 : a[i] \in Char
      BY <1>4, <1>11, <2>1
    <3>2. ASSUME NEW i \in k..k + r - 1 PROVE b[i] \in Char
      <4>1. i - k + 1 \in 1..Len(left)
        BY <1>3, <1>4
      <4>2. left[i - k + 1] \in Char
        BY <1>4, <4>1
      <4> QED BY <2>3, <4>2
    <3>3. k \in Int /\ 0 \in Int /\ k + r \in Int /\ 0 <= k /\ k <= k + r
      OBVIOUS
    <3> QED BY <2>3, <3>1, <3>2, <3>3 DEF Holds
  <2>7. PICK s \in Seq(Char) : s = Piece(a, 0, k)
    BY <2>6, PieceSeq DEF IsPiece
  <2>8. PICK q \in Seq(Char) : q = Piece(b, k, k + r)
    BY <2>6, PieceSeq DEF IsPiece
  <2>9. t = s \o q
    <3>1. Piece(b, 0, k + r) = Piece(b, 0, k) \o Piece(b, k, k + r)
      BY <2>6, PieceParts
    <3>2. Piece(b, 0, k) = Piece(a, 0, k)
      BY <2>3, PieceSame
    <3> QED BY <2>5, <2>7, <2>8, <3>1, <3>2
  <2>10. q \o rem = left
    <3>1. PICK d \in Int : d = k - 1
      OBVIOUS
    <3>2. PICK j \in Int : j = r + 1
      OBVIOUS
    <3>3. PICK h \in Int : h = 1
      OBVIOUS
    <3>4. ASSUME NEW i \in h..j - 1 PROVE b[i + d] = left[i]
      <4>1. i + d \in k..k + r - 1 /\ i + d - k + 1 = i
        BY <3>1, <3>2, <3>3
      <4> QED BY <2>3, <4>1
    <3>5. Shifted(left, b, h, j, d)
      BY <3>4 DEF Shifted
    <3>6. Piece(b, h + d, j + d) = Piece(left, h, j)
      BY <3>5, PieceShifted
    <3>7. h + d = k /\ j + d = k + r
      BY <3>1, <3>2, <3>3
    <3>8. q = Piece(left, 1, r + 1)
      BY <2>8, <3>2, <3>3, <3>6, <3>7
    <3>9. r \in 0..Len(left)
      BY <1>3, <1>4
    <3>10. Piece(left, 1, r + 1) \o Drop(left, r) = left
      BY <1>4, <3>9, DropRest
    <3> QED BY <1>6, <3>8, <3>10
  <2>11. (s \o q) \o rem = s \o (q \o rem)
    BY ConcatAssociative, SMTT(30)
  <2>12. t \o rem = x
    BY <1>4, <1>9, <1>13, <2>4, <2>7, <2>9, <2>10, <2>11
  <2>13. B(v).status = "pending" => rem = <<>>
    <3>1. ASSUME r > 0 PROVE B(v).status # "pending"
      BY <1>3, <1>4, <2>3, <3>1
    <3>2. r > 0 \/ r = 0
      OBVIOUS
    <3> QED BY <1>7, <3>1, <3>2
  <2> QED BY <1>12, <1>13, <2>12, <2>13
<1>14. CASE /\ by = "input" /\ r > 0 /\ pc' = "idle" /\ v.n = k + r /\ v.cp = k + 1
            /\ \A i \in k + 1..k + r - 1 : Restored(v)[i] = left[i - k + 1]
            /\ B(v).status = B(m).status /\ owed' = [owed EXCEPT ![Cur] = Drop(@, 1)]
  <2>1. PICK b : b = Restored(v)
    OBVIOUS
  <2>2. Ahead = <<>> /\ owed[Cur] = left
    <3>1. Ahead = <<>>
      BY <1>3, <1>14 DEF Ahead
    <3> QED BY <1>4, <3>1, ConcatProperties
  <2>3. t = Piece(b, k + 1, k + r)
    BY <1>5, <1>8, <1>10, <1>14, <2>1 DEF Ahead, Rested
  <2>4. t = Piece(left, 2, r + 1)
    <3>1. PICK d \in Int : d = k - 1
      OBVIOUS
    <3>2. PICK j \in Int : j = r + 1
      OBVIOUS
    <3>3. PICK h \in Int : h = 2
      OBVIOUS
    <3>4. ASSUME NEW i \in h..j - 1 PROVE b[i + d] = left[i]
      <4>1. i + d \in k + 1..k + r - 1 /\ i + d - k + 1 = i
        BY <3>1, <3>2, <3>3
      <4> QED BY <1>14, <2>1, <4>1
    <3>5. Shifted(left, b, h, j, d)
      BY <3>4 DEF Shifted
    <3>6. Piece(b, h + d, j + d) = Piece(left, h, j)
      BY <3>5, PieceShifted
    <3>7. h + d = k + 1 /\ j + d = k + r
      BY <3>1, <3>2, <3>3
    <3> QED BY <2>3, <3>2, <3>3, <3>6, <3>7
  <2>5. t \o rem = Drop(left, 1)
    BY <1>3, <1>4, <1>6, <1>14, <2>4, DropMore
  <2>6. x = Drop(left, 1)
    BY <1>4, <1>9, <1>14, <2>2
  <2>7. B(v).status # "pending"
    BY <1>3, <1>4, <1>14
  <2> QED BY <1>12, <1>14, <2>5, <2>6, <2>7
<1>15. CASE /\ r = 0 /\ (by = "yylex" => k = 0) /\ pc' = "idle" /\ v.n = 0 /\ v.cp = 0
            /\ B(v).status = "new" /\ owed' = [owed EXCEPT ![Cur] = Drop(@, Len(EndToken.text))]
  <2>1. t = <<>>
    <3>1. t = Piece(Restored(v), 0, 0)
      BY <1>5, <1>8, <1>10, <1>15 DEF Ahead, Rested
    <3> QED BY <3>1, PieceEmpty
  <2>2. Ahead = <<>>
    <3>1. by \in {"yylex", "input"}
      BY DEF IInv, Typed
    <3>2. CASE by = "yylex"
      <4>1. Ahead = Piece(B(m).ch, 0, 0)
        BY <1>3, <1>11, <1>15, <3>2 DEF Ahead
      <4> QED BY <4>1, PieceEmpty
    <3>3. CASE by = "input"
      BY <1>3, <3>3 DEF Ahead
    <3> QED BY <3>1, <3>2, <3>3
  <2>3. owed[Cur] = <<>> /\ rem = <<>>
    BY <1>4, <1>7, <1>15, <2>2
  <2>4. x = <<>>
    <3>1. Len(EndToken.text) = 0
      BY DEF EndToken
    <3>2. x = Drop(owed[Cur], 0)
      BY <1>4, <1>9, <1>15, <3>1
    <3>3. <<>> \in Seq(Char)
      BY EmptySeq
    <3>4. Drop(<<>>, 0) = <<>>
      BY <3>3, DropNone
    <3> QED BY <2>3, <3>2, <3>4
  <2>5. t \o rem = x
    BY <2>1, <2>3, <2>4
  <2> QED BY <1>12, <1>15, <2>5
<1> QED BY <1>1, <1>2, <1>10, <1>11, <1>13, <1>14, <1>15 DEF IsRead, LastOf
-----------------------------------------------------------------------------
LEMMA InitText == Init => TextInv
<1> SUFFICES ASSUME Init PROVE TextInv
  OBVIOUS
<1>1. m.buf = <<>> /\ m.stack = <<>> /\ owed = <<>>
  BY DEF Init, Start, yy_init_globals
<1>2. DOMAIN m.buf = {} /\ DOMAIN owed = {} /\ YY_CURRENT_BUFFER(m) = None
  BY <1>1 DEF YY_CURRENT_BUFFER
<1>3. Honest(View(m, Ahead), rest, owed)
  BY <1>2 DEF Honest
<1>4. Owns(m, owed) /\ Pointing(m)
  BY <1>2 DEF Owns, Pointing
<1> QED BY <1>3, <1>4 DEF TextInv

LEMMA StepText ==
  ASSUME IInv, TextInv, Step
  PROVE  TextInv'
  BY MatchText, FindActionText, RealNulText, EndOfBufferText, GrowText, ReadText, ReadFailsText,
     DestroyTopText, DestroyStackText DEF Step

LEMMA ClientText ==
  ASSUME IInv, TextInv, Client
  PROVE  TextInv'
<1>1. CASE yylex \/ input \/ Pop \/ Destroy
  BY <1>1, YylexText, InputText, PopText, DestroyText
<1>2. CASE \E c \in PushBack : yyunput(c)
  BY <1>2, UnputText
<1>3. CASE Cur # None /\ \E n \in 0..m.leng - 1 : yyless(n)
  BY <1>3, LessText
<1>4. CASE \E s \in client.texts : ScanBytes(s)
  BY <1>4, ScanText
<1>5. CASE \E b \in Buf : Push(b) \/ Switch(b) \/ Delete(b) \/ Flush(b)
  BY <1>5, PushText, DeleteText, FlushText
<1>6. CASE \E f \in client.files : Restart(f) \/ yyset_in(f) \/ \E z \in Sizes : CreateBuffer(f, z)
  BY <1>6, RestartText, SetInText, CreateText
<1> QED BY <1>1, <1>2, <1>3, <1>4, <1>5, <1>6 DEF Client

LEMMA StuttersText ==
  ASSUME TextInv, UNCHANGED vars
  PROVE  TextInv'
<1>1. UNCHANGED <<client, m, rest, pc, st, bp, lp, by, tok, owed>>
  BY DEF vars
<1>2. Kept' = Kept /\ m' = m /\ rest' = rest /\ owed' = owed /\ pc' = pc /\ bp' = bp /\ by' = by
  BY <1>1 DEF Kept
<1>3. Ahead' = Ahead
  BY <1>2 DEF Ahead
<1>4. PICK s : s = Ahead
  OBVIOUS
<1>5. (pc # "fatal" => Honest(View(m, s), rest, owed) /\ Owns(m, owed)) /\ Pointing(m)
  BY <1>4 DEF TextInv
<1> QED BY <1>2, <1>3, <1>4, <1>5 DEF TextInv

(* What Unread says of a buffer is what the invariant says of it. *)
LEMMA UnreadSeen ==
  ASSUME IInv, pc = "idle", NEW b \in DOMAIN owed
  PROVE  /\ b = Cur => Unread(b) = Rested(m) \o
              (IF B(m).fill /\ B(m).status # "pending" THEN rest[m.in] ELSE <<>>)
         /\ b # Cur => Unread(b) = Piece(m.buf[b].ch, m.buf[b].pos, m.buf[b].n) \o
              (IF m.buf[b].fill /\ m.buf[b].status # "pending" THEN rest[m.buf[b].file] ELSE <<>>)
<1>1. PICK F : F = client.files
  OBVIOUS
<1>2. Framed(F, m) /\ Globals(F, m) /\ AtRest(F, m) /\ YY_CURRENT_BUFFER(m) = Cur
  BY <1>1, ClientKnown DEF Cur
<1>3. CASE b = Cur
  <2>1. b # None /\ m.buf[b] = B(m)
    BY <1>2, <1>3, ClientKnown, NoneIsNoBuffer DEF B
  <2>2. Between(F, m)
    BY <1>2, <1>3, <2>1 DEF AtRest
  <2>3. m.cp \in 0..B(m).size + 1 /\ m.hold \in Slot
    <3>1. m.n \in Nat /\ m.cp \in Nat /\ m.cp <= m.n /\ m.n <= B(m).size /\ B(m).size \in Nat /\ Counts(F, m)
      BY <1>2, <2>2, Bounds DEF Between
    <3> QED BY <3>1 DEF Counts
  <2>4. PICK v : v = Poke(m, m.cp, m.hold)
    OBVIOUS
  <2>5. IsPoked(F, m, m.cp, m.hold, v)
    BY <1>2, <1>3, <2>1, <2>3, <2>4, Poked
  <2>6. v.buf[b].ch = Restored(m)
    BY <1>2, <1>3, <2>5 DEF IsPoked, Restored, B
  <2>7. Rested(m) = Piece(Restored(m), m.cp, m.n)
    BY <1>2, <1>3, <2>1 DEF Rested
  <2>8. Unread(b) = [i \in 1..m.n - m.cp |-> v.buf[b].ch[m.cp + i - 1]]
           \o (IF m.buf[b].fill /\ m.buf[b].status # "pending" THEN rest[m.in] ELSE <<>>)
    BY <1>3, <2>4 DEF Unread
  <2>9. Unread(b) = Piece(v.buf[b].ch, m.cp, m.n)
           \o (IF m.buf[b].fill /\ m.buf[b].status # "pending" THEN rest[m.in] ELSE <<>>)
    BY <2>8 DEF Piece
  <2> QED BY <1>3, <2>1, <2>6, <2>7, <2>9
<1>4. CASE b # Cur
  BY <1>4, Zenon DEF Unread, Piece
<1> QED BY <1>3, <1>4

(***************************************************************************)
(* Between calls every buffer still holds, or will still read from its     *)
(* stream, exactly the text its reader was not given yet: no token, refill, *)
(* growth, short read, push, pop, switch, unput or yyless loses, repeats or *)
(* reorders a character, whatever the sizes of buffers and reads           *)
(* (lex.yy.c, 674-885, 924-1019, 1078-1118, 1193-1456).                    *)
(***************************************************************************)
THEOREM TextAlwaysIntact == Spec => []TextIntact
<1>1. ASSUME IInv, TextInv, pc = "idle", NEW b \in DOMAIN owed PROVE Unread(b) = owed[b]
  <2>1. Honest(View(m, Rested(m)), rest, owed)
    BY <1>1, TextAtRest
  <2>2. PICK s : s = Rested(m)
    OBVIOUS
  <2>3. Told(Seen(m, s, b), rest, owed[b])
    BY <1>1, <2>1, <2>2, HonestSeen
  <2>4. CASE b = Cur
    <3>1. Seen(m, s, b) = Active(m, s)
      BY <2>4, Seens DEF Cur
    <3>2. PICK o : o = owed[b]
      OBVIOUS
    <3>3. Told(Active(m, s), rest, o)
      BY <2>3, <3>1, <3>2
    <3>4. s \o Coming(m, rest) = o /\ (B(m).fill /\ B(m).status = "pending" => rest[m.in] = <<>>)
      BY <3>3, ToldActive
    <3>5. Coming(m, rest) = IF B(m).fill /\ B(m).status # "pending" THEN rest[m.in] ELSE <<>>
      BY <3>4 DEF Coming
    <3>6. Unread(b) = s \o Coming(m, rest)
      BY <1>1, <2>2, <2>4, <3>5, UnreadSeen
    <3> QED BY <3>2, <3>4, <3>6
  <2>5. CASE b # Cur
    <3>1. PICK r : r = m.buf[b]
      OBVIOUS
    <3>2. PICK v : v = Stored(r)
      OBVIOUS
    <3>3. v.left = Piece(r.ch, r.pos, r.n) /\ v.in = r.file /\ v.fill = r.fill /\ v.status = r.status
      BY <3>2, Fields
    <3>4. Told(v, rest, owed[b])
      BY <2>3, <2>5, <3>1, <3>2, Seens DEF Cur
    <3>5. v.left \o More(v, rest) = owed[b] /\ (v.fill /\ v.status = "pending" => rest[v.in] = <<>>)
      BY <3>4 DEF Told
    <3>6. More(v, rest) = IF r.fill /\ r.status # "pending" THEN rest[r.file] ELSE <<>>
      BY <3>3, <3>5 DEF More
    <3>7. Unread(b) = Piece(r.ch, r.pos, r.n) \o More(v, rest)
      BY <1>1, <2>5, <3>1, <3>6, UnreadSeen
    <3> QED BY <3>3, <3>5, <3>7
  <2> QED BY <2>4, <2>5
<1>2. IInv /\ TextInv => TextIntact
  BY <1>1 DEF TextIntact
<1>3. IInv /\ TextInv /\ [Next]_vars => TextInv'
  BY StepText, ClientText, StuttersText DEF Next, Ended
<1> QED BY <1>2, <1>3, InitText, Invariance, PTL DEF Spec
-----------------------------------------------------------------------------
(* Where a token ends: behind one character, or behind the last of its digits. *)
Digits(a, i, j) == i < j /\ \A x \in i..j - 1 : a[x] \in Digit
NoDigit(w, R, i) == IF i < w.n THEN B(w).ch[i] \notin Digit ELSE Coming(w, R) = <<>>
Stopped(w, R, from, s, end) ==
  \/ s = 3
  \/ s \in {4, 5, 6} /\ end = from + 1 /\ TextClass(B(w).ch[from]) = s - 3
  \/ s \in {7, 8} /\ Digits(B(w).ch, from, end) /\ NoDigit(w, R, end)
FoundInv ==
  pc = "find" =>
    IF yy_accept[st] = 0 THEN Stopped(m, rest, bp, m.las, m.lac) ELSE Stopped(m, rest, bp, st, lp)

(* A run of the automaton that nothing continues ends a token. *)
LEMMA RunStops ==
  ASSUME NEW w, NEW R, NEW from \in Nat, NEW end \in Nat, NEW s,
         Run(B(w).ch, from, end, s), s # 1, s \in {7, 8} => NoDigit(w, R, end)
  PROVE  Stopped(w, R, from, s, end)
<1>1. PICK a : a = B(w).ch
  OBVIOUS
<1>2. s \in {7, 8} => Digits(a, from, end)
  BY <1>1 DEF Run, Digits
<1>3. s = 4 => end = from + 1 /\ TextClass(a[from]) = 1
  BY <1>1 DEF Run
<1> QED BY <1>1, <1>2, <1>3 DEF Stopped, Run

LEMMA MatchFound ==
  ASSUME IInv, Match, pc' = "find"
  PROVE  FoundInv'
<1>1. PICK a : a = B(m).ch
  OBVIOUS
<1>2. PICK c : c = yy_ec(a[lp])
  OBVIOUS
<1>3. PICK F : F = client.files
  OBVIOUS
<1>4. /\ pc = "match" /\ m' = Accepting(st, m, lp) /\ st' = yy_trans[<<st, c>>] /\ lp' = lp + 1
      /\ (pc' = "find" => Jams(st')) /\ rest' = rest /\ bp' = bp
  BY <1>1, <1>2 DEF Match, Chars, B
<1>5. /\ Framed(F, m) /\ AtMatch /\ Awake(F, m) /\ bp <= lp /\ Plain(a, bp, m.n)
      /\ bp \in Nat /\ lp \in Nat /\ st \in 1..10
  BY <1>1, <1>3, <1>4 DEF IInv, AtMatch, Typed
<1>6. m.n \in Nat
  BY <1>5, Bounds
<1>7. IsAccepted(F, m, st, lp, m')
  BY <1>4, <1>5, Accepts
<1>8. B(m').ch = a /\ m'.n = m.n
  BY <1>1, <1>7 DEF IsAccepted, SameCounts
<1>9. /\ c \in 0..4 /\ (c = 0 <=> a[lp] = NUL) /\ (c = 4 <=> a[lp] \in Digit)
      /\ (c # 0 => TextClass(a[lp]) = c)
  BY <1>2, Classes DEF TextClass
<1>10. st' = StateAfter(st, c) /\ Jams(st')
  BY <1>4, <1>5, <1>9, Trans
<1>11. PICK v : v = m'
  OBVIOUS
<1>12. PICK R : R = rest'
  OBVIOUS
<1>13. yy_accept[st'] = IF st' = 9 THEN 0 ELSE yy_accept[st']
  BY Tables
<1>14. CASE st = 3
  <2>1. st' = 9 /\ v.las = 3
    BY <1>7, <1>10, <1>11, <1>14, Tables DEF StateAfter, IsAccepted
  <2> QED BY <1>11, <2>1, Tables DEF FoundInv, Stopped
<1>15. CASE st \in {1, 4, 7, 8} /\ lp <= m.n /\ Run(a, bp, lp, st)
  <2>1. c # 0
    BY <1>10, <1>15, Jamming DEF StateAfter
  <2>2. CASE st = 1
    <3>1. lp = bp
      BY <1>5, <1>15, <2>2 DEF Run
    <3>2. st' = c + 3 /\ c \in {1, 2, 3}
      BY <1>9, <1>10, <2>1, <2>2, Jamming DEF StateAfter
    <3>3. Stopped(v, R, bp, st', lp')
      BY <1>4, <1>8, <1>9, <1>11, <2>1, <3>1, <3>2 DEF Stopped
    <3>4. yy_accept[st'] # 0
      BY <3>2, Tables
    <3> QED BY <1>4, <1>11, <1>12, <3>3, <3>4 DEF FoundInv
  <2>3. CASE st # 1
    <3>1. st' = 9 /\ (st \in {7, 8} => c # 4)
      BY <1>9, <1>10, <1>15, <2>1, <2>3, Jamming DEF StateAfter
    <3>2. v.las = st /\ v.lac = lp
      BY <1>7, <1>11, <1>15, <2>3, Tables DEF IsAccepted
    <3>3. a[m.n] = NUL /\ a[lp] # NUL
      BY <1>5, <1>9, <2>1 DEF Plain
    <3>4. lp < m.n
      BY <1>5, <1>6, <1>15, <3>3
    <3>5. st \in {7, 8} => NoDigit(v, R, lp)
      BY <1>8, <1>9, <1>11, <3>1, <3>4 DEF NoDigit
    <3>6. Run(B(v).ch, bp, lp, st)
      BY <1>8, <1>11, <1>15
    <3>7. Stopped(v, R, bp, st, lp)
      BY <1>5, <2>3, <3>5, <3>6, RunStops
    <3>8. yy_accept[st'] = 0
      BY <3>1, Tables
    <3> QED BY <1>4, <1>11, <1>12, <3>2, <3>7, <3>8 DEF FoundInv
  <2> QED BY <2>2, <2>3
<1> QED BY <1>1, <1>5, <1>14, <1>15 DEF AtMatch

(* yylex comes to the end of what there is: no digit follows. *)
LEMMA FoundAt ==
  ASSUME NEW v, v = m', NEW R, R = rest', bp' \in Nat, lp' \in Nat,
         Run(B(v).ch, bp', lp', st'), bp' < lp',
         NoDigit(v, R, lp')
  PROVE  FoundInv'
<1>1. PICK s : s = st'
  OBVIOUS
<1>2. PICK i \in Nat : i = bp'
  OBVIOUS
<1>3. PICK j \in Nat : j = lp'
  OBVIOUS
<1>4. Run(B(v).ch, i, j, s) /\ i < j /\ NoDigit(v, R, j)
  BY <1>1, <1>2, <1>3
<1>5. s \in {4, 7, 8}
  BY <1>4 DEF Run
<1>6. Stopped(v, R, i, s, j)
  BY <1>4, <1>5, RunStops
<1>7. yy_accept[s] # 0
  BY <1>5, Tables
<1> QED BY <1>1, <1>2, <1>3, <1>6, <1>7 DEF FoundInv

LEMMA RealNulFound ==
  ASSUME IInv, RealNul, pc' = "find"
  PROVE  FoundInv'
<1>1. IsNulled
  BY RealNulStep
<1>2. PICK v : v = m'
  OBVIOUS
<1>3. PICK R : R = rest'
  OBVIOUS
<1>4. /\ pc = "eob" /\ bp' = bp /\ v.n = m.n /\ B(v).ch = Restored(m) /\ lp' \in Nat /\ lp' < m.n
      /\ B(v).ch[lp'] = NUL /\ st' \in {4, 7, 8} /\ Run(B(v).ch, bp', lp', st')
  BY <1>1, <1>2 DEF IsNulled
<1>5. bp' \in Nat
  BY <1>4 DEF IInv, Typed
<1>6. bp' < lp'
  BY <1>4, <1>5 DEF Run
<1>7. NoDigit(v, R, lp')
  <2>1. NUL \notin Digit
    BY DEF NUL, Digit
  <2> QED BY <1>4, <2>1 DEF NoDigit
<1> QED BY <1>2, <1>3, <1>4, <1>5, <1>6, <1>7, FoundAt

LEMMA EndOfBufferFound ==
  ASSUME IInv, EndOfBuffer, pc' = "find"
  PROVE  FoundInv'
<1>1. IsBufferEnd
  BY EndOfBufferStep
<1>2. PICK v : v = m'
  OBVIOUS
<1>3. PICK R : R = rest'
  OBVIOUS
<1>4. /\ bp \in Nat /\ m.n \in Nat /\ bp' = bp /\ v.n = m.n /\ ~B(v).fill /\ lp' = m.n /\ bp < m.n
      /\ Run(B(v).ch, bp', lp', st')
  BY <1>1, <1>2 DEF IsBufferEnd
<1>5. NoDigit(v, R, lp')
  BY <1>4 DEF NoDigit, Coming
<1> QED BY <1>2, <1>3, <1>4, <1>5, FoundAt

LEMMA ReadFound ==
  ASSUME IInv, TextInv, Read, pc' = "find"
  PROVE  FoundInv'
<1>1. PICK r \in Nat : IsRead(r)
  BY ReadStep
<1>2. PICK v : v = m'
  OBVIOUS
<1>3. PICK R : R = rest'
  OBVIOUS
<1>4. PICK left : left = rest[m.in]
  OBVIOUS
<1>5. /\ pc = "refill" /\ LastOf(r) /\ Grows(r) /\ bp' = 0 /\ m'.in = m.in
      /\ (r > 0 <=> ~(Pending \/ left = <<>>)) /\ rest' = [rest EXCEPT ![m.in] = Drop(@, r)]
  BY <1>1, <1>4 DEF IsRead
<1>6. Kept \in Nat
  BY <1>5, RefillKnown
<1>7. /\ r = 0 /\ lp' = Kept /\ bp' < lp' /\ v.n = Kept /\ Run(B(v).ch, bp', lp', st')
  BY <1>2, <1>5, <1>6 DEF LastOf, Grows
<1>8. /\ rest \in [client.files -> Seq(Char)] /\ m.in \in client.files
      /\ (Pending => left = <<>>)
  BY <1>4, <1>5, RefillOwes
<1>9. left \in Seq(Char) /\ left = <<>> /\ rest'[m.in] = Drop(left, 0)
  BY <1>4, <1>5, <1>7, <1>8
<1>10. R[v.in] = <<>>
  BY <1>2, <1>3, <1>5, <1>9, DropNone
<1>11. NoDigit(v, R, lp')
  BY <1>6, <1>7, <1>10 DEF NoDigit, Coming
<1> QED BY <1>2, <1>3, <1>5, <1>6, <1>7, <1>11, FoundAt

LEMMA OnlyFoundThere ==
  ASSUME Next, pc' = "find"
  PROVE  Match \/ RealNul \/ EndOfBuffer \/ Read \/ UNCHANGED vars
<1>1. ASSUME FindAction PROVE FALSE
  BY <1>1 DEF FindAction, Return
<1>2. ASSUME Grow \/ ReadFails PROVE FALSE
  BY <1>2 DEF Grow, ReadFails
<1>3. ASSUME DestroyTop \/ DestroyStack PROVE FALSE
  BY <1>3 DEF DestroyTop, DestroyStack
<1>4. ASSUME yylex PROVE FALSE
  BY <1>4 DEF yylex
<1>5. ASSUME input PROVE FALSE
  <2>1. CASE Give(Poke(m, m.cp, m.hold))
    BY <2>1 DEF Give, Return
  <2>2. CASE \E w : yy_get_next_buffer("input", w)
    <3>1. PICK w : yy_get_next_buffer("input", w)
      BY <2>2
    <3>2. ASSUME NEW answer, NEW k, Resume("input", w, answer, k) PROVE FALSE
      BY <3>2 DEF Resume, Give, Return
    <3> QED BY <3>1, <3>2 DEF yy_get_next_buffer
  <2> QED BY <1>5, <2>1, <2>2 DEF input
<1>6. ASSUME NEW f, NEW w, NEW o, Manage(f, w, o) PROVE FALSE
  BY <1>6 DEF Manage, Called
<1>7. ASSUME Pop \/ Destroy PROVE FALSE
  BY <1>6, <1>7 DEF Pop, Destroy
<1>8. ASSUME NEW c, yyunput(c) PROVE FALSE
  BY <1>8 DEF yyunput, Called
<1>9. ASSUME NEW n, yyless(n) PROVE FALSE
  BY <1>9 DEF yyless, Called
<1>10. ASSUME NEW s, ScanBytes(s) PROVE FALSE
  BY <1>6, <1>10 DEF ScanBytes
<1>11. ASSUME NEW b, Push(b) \/ Switch(b) \/ Delete(b) \/ Flush(b) PROVE FALSE
  BY <1>6, <1>11 DEF Push, Switch, Delete, Flush
<1>12. ASSUME NEW f, NEW z, Restart(f) \/ yyset_in(f) \/ CreateBuffer(f, z) PROVE FALSE
  BY <1>6, <1>12 DEF Restart, yyset_in, CreateBuffer
<1> QED BY <1>1, <1>2, <1>3, <1>4, <1>5, <1>7, <1>8, <1>9, <1>10, <1>11, <1>12 DEF Next, Step, Client, Ended

LEMMA FoundKept ==
  ASSUME IInv, TextInv, FoundInv, [Next]_vars
  PROVE  FoundInv'
<1>1. CASE UNCHANGED vars
  BY <1>1 DEF FoundInv, Stopped, NoDigit, Coming, B, YY_CURRENT_BUFFER, vars
<1>2. CASE Next /\ pc' = "find" /\ ~UNCHANGED vars
  BY <1>2, OnlyFoundThere, MatchFound, RealNulFound, EndOfBufferFound, ReadFound
<1>3. CASE pc' # "find"
  BY <1>3 DEF FoundInv
<1> QED BY <1>1, <1>2, <1>3

(* The longest match at the head of a text: all of its first digits, or one
   character. *)
LEMMA FirstNumber ==
  ASSUME NEW p \in Seq(Char), NEW u \in Seq(Char), p # <<>>, \A i \in 1..Len(p) : p[i] \in Digit,
         u = <<>> \/ u[1] \notin Digit
  PROVE  FirstToken(p \o u) = [type |-> T_NUM, text |-> p]
<1>1. PICK s : s = p \o u
  OBVIOUS
<1>2. PICK e : e = Len(p)
  OBVIOUS
<1>3. e \in Nat /\ Len(u) \in Nat /\ e # 0
  BY <1>2, LenProperties, EmptySeq
<1>4. /\ s \in Seq(Char) /\ Len(s) = e + Len(u)
      /\ \A k \in 1..Len(s) : s[k] = IF k <= e THEN p[k] ELSE u[k - e]
  BY <1>1, <1>2, ConcatProperties
<1>5. PICK S : S = {k \in 1..Len(s) : \A i \in 1..k : s[i] \in Digit}
  OBVIOUS
<1>6. e \in S
  <2>1. \A i \in 1..e : s[i] \in Digit
    BY <1>2, <1>3, <1>4
  <2> QED BY <1>3, <1>4, <1>5, <2>1
<1>7. ASSUME NEW k \in S PROVE e >= k
  <2> SUFFICES ASSUME e < k PROVE FALSE
    BY <1>3, <1>4, <1>5
  <2>1. e + 1 \in 1..k /\ e + 1 \in 1..Len(s) /\ s[e + 1] \in Digit
    BY <1>3, <1>4, <1>5
  <2>2. s[e + 1] = u[1]
    BY <1>3, <1>4, <2>1
  <2>3. u # <<>>
    <3>1. Len(u) # 0
      BY <1>3, <1>4, <2>1
    <3> QED BY <3>1, EmptySeq
  <2> QED BY <2>1, <2>2, <2>3
<1>8. Max(S) = e
  <2>1. S \subseteq Int
    BY <1>5
  <2>2. \A x, y \in S : x >= y /\ y >= x => x = y
    BY <2>1
  <2>3. Max(S) \in S /\ \A y \in S : Max(S) >= y
    BY <1>6, <1>7 DEF Max
  <2> QED BY <1>6, <1>7, <2>2, <2>3
<1>9. SubSeq(s, 1, e) = p
  <2>1. PICK v : v = SubSeq(s, 1, e)
    OBVIOUS
  <2>2. \A i \in 1..e : s[i] \in Char
    <3>1. \A i \in 1..Len(s) : s[i] \in Char
      BY <1>4, ElementOfSeq
    <3> QED BY <1>3, <1>4, <3>1
  <2>3. v \in Seq(Char) /\ Len(v) = e /\ \A k \in 1..e : v[k] = s[k]
    <3>1. /\ v \in Seq(Char) /\ Len(v) = IF 1 <= e THEN e - 1 + 1 ELSE 0
          /\ \A k \in 1..e - 1 + 1 : v[k] = s[1 + k - 1]
      BY <1>3, <2>1, <2>2, SubSeqProperties
    <3> QED BY <1>3, <3>1
  <2>4. \A k \in 1..e : v[k] = p[k]
    BY <1>3, <1>4, <2>3
  <2>5. v = p
    BY <1>2, <2>3, <2>4, SeqEqual
  <2> QED BY <2>1, <2>5
<1>10. s # <<>> /\ s[1] \in Digit
  <2>1. Len(s) # 0 /\ 1 \in 1..e
    BY <1>3, <1>4
  <2>2. s # <<>>
    BY <2>1, EmptySeq
  <2> QED BY <1>2, <1>3, <1>4, <2>1, <2>2
<1>11. FirstToken(s) = [type |-> T_NUM, text |-> SubSeq(s, 1, Max(S))]
  BY <1>5, <1>10 DEF FirstToken
<1> QED BY <1>1, <1>8, <1>9, <1>11

LEMMA FirstSingle ==
  ASSUME NEW p \in Seq(Char), NEW u \in Seq(Char), Len(p) = 1, p[1] \notin Digit
  PROVE  FirstToken(p \o u)
           = [type |-> IF p[1] \in Operator \cup {"\n"} THEN p[1] ELSE "END", text |-> p]
<1>1. PICK s : s = p \o u
  OBVIOUS
<1>2. /\ s \in Seq(Char) /\ Len(s) = 1 + Len(u) /\ Len(u) \in Nat
      /\ \A k \in 1..Len(s) : s[k] = IF k <= 1 THEN p[k] ELSE u[k - 1]
  <2>1. Len(u) \in Nat
    BY LenProperties
  <2>2. s \in Seq(Char) /\ Len(s) = Len(p) + Len(u)
    BY <1>1, ConcatProperties
  <2>3. \A k \in 1..Len(p) + Len(u) : s[k] = IF k <= Len(p) THEN p[k] ELSE u[k - Len(p)]
    BY <1>1, ConcatProperties
  <2> QED BY <2>1, <2>2, <2>3
<1>3. s # <<>> /\ s[1] = p[1]
  <2>1. 1 \in 1..Len(s) /\ Len(s) # 0
    BY <1>2
  <2> QED BY <1>2, <2>1, EmptySeq
<1>4. p = <<p[1]>>
  BY SeqEqual
<1>5. FirstToken(s) = [type |-> IF s[1] \in Operator \cup {"\n"} THEN s[1] ELSE "END", text |-> <<s[1]>>]
  BY <1>3 DEF FirstToken
<1> QED BY <1>1, <1>3, <1>4, <1>5

LEMMA FindActionToken ==
  ASSUME IInv, TextInv, FoundInv, FindAction, pc' = "idle"
  PROVE  tok' = FirstToken(owed[Cur])
<1>1. PICK F : F = client.files
  OBVIOUS
<1>2. PICK a : a = B(m).ch
  OBVIOUS
<1>3. PICK end : end = IF yy_accept[st] = 0 THEN m.lac ELSE lp
  OBVIOUS
<1>4. PICK s : s = IF yy_accept[st] = 0 THEN m.las ELSE st
  OBVIOUS
<1>5. PICK p : p = Piece(a, bp, end)
  OBVIOUS
<1>6. IsFound(F, end)
  BY <1>1, <1>3, Finds
<1>7. /\ pc = "find" /\ Awake(F, m) /\ Plain(a, bp, m.n) /\ bp \in Nat /\ end \in Nat /\ bp < end
      /\ m.n \in Nat /\ Cur # None
  BY <1>2, <1>6 DEF IsFound, Awake, Cur
<1>8. end <= m.n /\ tok' = Token(yy_accept[s], p)
  BY <1>2, <1>4, <1>5, <1>6, Zenon DEF IsFound, Piece
<1>9. yy_accept[s] # 5
  BY <1>4 DEF FindAction
<1>10. Stopped(m, rest, bp, s, end)
  BY <1>3, <1>4, <1>7 DEF FoundInv
<1>11. s # 3
  BY <1>9, Tables
<1>12. Holds(Char, a, bp, end) /\ Holds(Char, a, end, m.n)
  <2>1. \A x \in bp..m.n + 1 : a[x] \in Char
    BY <1>7 DEF Plain
  <2> QED BY <1>7, <1>8, <2>1 DEF Holds
<1>13. PICK q \in Seq(Char) : q = Piece(a, end, m.n)
  BY <1>12, PieceParts
<1>14. PICK c \in Seq(Char) : c = Coming(m, rest)
  BY <1>1, <1>7, ComingText
<1>15. p \in Seq(Char) /\ Len(p) = end - bp /\ \A k \in 1..end - bp : p[k] = a[bp + k - 1]
  BY <1>5, <1>12, PieceSeq DEF IsPiece
<1>16. owed[Cur] = (p \o q) \o c
  <2>1. Ahead = Piece(a, bp, m.n)
    BY <1>2, <1>7 DEF Ahead
  <2>2. Piece(a, bp, m.n) = p \o q
    <3>1. Piece(a, bp, m.n) = Piece(a, bp, end) \o Piece(a, end, m.n)
      BY <1>12, PieceParts
    <3> QED BY <1>5, <1>13, <3>1
  <2>3. Ahead \o Coming(m, rest) = owed[Cur]
    BY <1>7, OwedNow
  <2> QED BY <1>14, <2>1, <2>2, <2>3
<1>17. PICK u \in Seq(Char) : u = q \o c
  BY ConcatProperties
<1>18. (p \o q) \o c = p \o (q \o c)
  BY <1>15, ConcatAssociative, SMTT(30)
<1>19. owed[Cur] = p \o u
  BY <1>16, <1>17, <1>18
<1>20. CASE s \in {4, 5, 6} /\ end = bp + 1 /\ TextClass(a[bp]) = s - 3
  <2>1. Len(p) = 1 /\ p[1] = a[bp]
    BY <1>7, <1>15, <1>20
  <2>2. /\ TextClass(p[1]) \in {1, 2, 3} /\ p[1] \notin Digit
        /\ (TextClass(p[1]) = 1 <=> p[1] \notin Operator \cup {"\n"})
    <3>1. TextClass(p[1]) \in {1, 2, 3} /\ p[1] \notin Digit
      BY <1>20, <2>1, Classes
    <3> QED BY <3>1 DEF TextClass, yy_ec, NUL, Operator
  <2>3. FirstToken(p \o u) = [type |-> IF p[1] \in Operator \cup {"\n"} THEN p[1] ELSE "END", text |-> p]
    BY <1>15, <2>1, <2>2, FirstSingle
  <2>4. yy_accept[s] = IF s = 4 THEN 3 ELSE 2
    BY <1>20, Tables
  <2> QED BY <1>8, <1>19, <1>20, <2>1, <2>2, <2>3, <2>4 DEF Token
<1>21. CASE s \in {7, 8} /\ Digits(a, bp, end) /\ NoDigit(m, rest, end)
  <2>1. p # <<>>
    BY <1>7, <1>15, EmptySeq
  <2>2. ASSUME NEW i \in 1..Len(p) PROVE p[i] \in Digit
    <3>1. bp + i - 1 \in bp..end - 1
      BY <1>7, <1>15
    <3> QED BY <1>15, <1>21, <3>1 DEF Digits
  <2>3. u = <<>> \/ u[1] \notin Digit
    <3>1. CASE end < m.n
      <4>1. Len(q) = m.n - end /\ \A k \in 1..m.n - end : q[k] = a[end + k - 1]
        BY <1>12, <1>13, PieceSeq DEF IsPiece
      <4>2. 1 \in 1..Len(q) /\ q[1] = a[end]
        BY <1>7, <3>1, <4>1
      <4>3. u[1] = q[1]
        <5>1. /\ Len(q) \in Nat /\ Len(c) \in Nat /\ 1 \in 1..Len(q) + Len(c)
              /\ \A k \in 1..Len(q) + Len(c) : u[k] = IF k <= Len(q) THEN q[k] ELSE c[k - Len(q)]
          BY <1>17, <4>2, ConcatProperties, LenProperties
        <5> QED BY <4>2, <5>1
      <4> QED BY <1>2, <1>21, <3>1, <4>2, <4>3 DEF NoDigit
    <3>2. CASE ~(end < m.n)
      <4>1. end = m.n /\ c = <<>>
        BY <1>7, <1>8, <1>14, <1>21, <3>2 DEF NoDigit
      <4>2. q = <<>>
        BY <1>7, <1>13, <4>1, PieceEmpty
      <4> QED BY <1>17, <4>1, <4>2
    <3> QED BY <3>1, <3>2
  <2>4. FirstToken(p \o u) = [type |-> T_NUM, text |-> p]
    BY <1>15, <2>1, <2>2, <2>3, FirstNumber
  <2>5. yy_accept[s] = 1
    BY <1>21, Tables
  <2> QED BY <1>8, <1>19, <2>4, <2>5 DEF Token
<1> QED BY <1>2, <1>10, <1>11, <1>20, <1>21 DEF Stopped

LEMMA EndOfBufferToken ==
  ASSUME IInv, TextInv, EndOfBuffer, pc' = "idle"
  PROVE  tok' = FirstToken(owed[Cur])
<1>1. IsBufferEnd
  BY EndOfBufferStep
<1>2. /\ pc = "eob" /\ Cur # None /\ bp = m.n /\ m.n \in Nat /\ ~B(m).fill /\ tok' = EndToken
  BY <1>1 DEF IsBufferEnd, Awake, Cur
<1>3. Ahead = <<>>
  BY <1>2, PieceEmpty DEF Ahead
<1>4. Coming(m, rest) = <<>>
  BY <1>2 DEF Coming
<1>5. owed[Cur] = <<>>
  BY <1>2, <1>3, <1>4, OwedNow
<1> QED BY <1>2, <1>5 DEF FirstToken

LEMMA ReadToken ==
  ASSUME IInv, TextInv, Read, pc' = "idle", by = "yylex"
  PROVE  tok' = FirstToken(owed[Cur])
<1>1. PICK r \in Nat : IsRead(r)
  BY ReadStep
<1>2. /\ pc = "refill" /\ r = 0 /\ Kept = 0 /\ tok' = EndToken
      /\ (r > 0 <=> ~(Pending \/ rest[m.in] = <<>>))
  BY <1>1 DEF IsRead, LastOf
<1>3. owed[Cur] = Ahead \o rest[m.in] /\ (Pending => rest[m.in] = <<>>)
  BY <1>2, RefillOwes
<1>4. rest[m.in] = <<>>
  BY <1>2, <1>3
<1>5. Ahead = <<>>
  BY <1>2, PieceEmpty DEF Ahead
<1>6. owed[Cur] = <<>>
  BY <1>3, <1>4, <1>5
<1> QED BY <1>2, <1>6 DEF FirstToken

LEMMA OnlyReturnsThere ==
  ASSUME Next, pc \notin {"idle", "destroy"}, pc' = "idle"
  PROVE  FindAction \/ EndOfBuffer \/ Read
<1>1. ASSUME Match \/ RealNul PROVE FALSE
  BY <1>1 DEF Match, RealNul
<1>2. ASSUME Grow \/ ReadFails PROVE FALSE
  BY <1>2 DEF Grow, ReadFails
<1>3. ASSUME DestroyTop \/ DestroyStack PROVE FALSE
  BY <1>3 DEF DestroyTop, DestroyStack
<1>4. ASSUME Client PROVE FALSE
  <2>1. Client => pc = "idle"
    BY DEF Client, yylex, input, Pop, Destroy, yyunput, yyless, ScanBytes, Push, Switch, Delete,
           Flush, Restart, yyset_in, CreateBuffer, Manage, Called
  <2> QED BY <1>4, <2>1
<1>5. ASSUME Ended PROVE FALSE
  BY <1>5 DEF Ended, vars
<1> QED BY <1>1, <1>2, <1>3, <1>4, <1>5 DEF Next, Step

(***************************************************************************)
(* yylex returns the longest match of the rules of calc.1 at the head of   *)
(* the text the current buffer owes, however the reads and the buffer's    *)
(* size cut it, and the end again and again once the text is over          *)
(* (lex.yy.c, 674-885).                                                    *)
(***************************************************************************)
THEOREM TokenAlwaysNext == Spec => TokenIsNext
<1>1. Init => FoundInv
  BY DEF Init, FoundInv
<1>2. IInv /\ TextInv /\ FoundInv /\ [Next]_vars => FoundInv'
  BY FoundKept
<1>3. IInv /\ TextInv /\ [Next]_vars => TextInv'
  BY StepText, ClientText, StuttersText DEF Next, Ended
<1>4. ASSUME IInv, TextInv, FoundInv, Next
      PROVE  pc # "idle" /\ pc' = "idle" /\ by = "yylex" /\ pc # "destroy"
               => tok' = FirstToken(owed[Cur])
  BY <1>4, OnlyReturnsThere, FindActionToken, EndOfBufferToken, ReadToken
<1>5. IInv /\ TextInv /\ FoundInv /\ [Next]_vars
        => [pc # "idle" /\ pc' = "idle" /\ by = "yylex" /\ pc # "destroy"
              => tok' = FirstToken(owed[Cur])]_vars
  BY <1>4
<1> QED BY <1>1, <1>2, <1>3, <1>5, InitText, Invariance, PTL DEF Spec, TokenIsNext
=============================================================================
