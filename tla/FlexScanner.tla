---------------------------- MODULE FlexScanner -----------------------------
(***************************************************************************)
(* The scanner of the calculator (lex.yy.c): yylex and the other entry     *)
(* points over the buffers of FlexBuffers.  yylex runs in small steps: one *)
(* character matched, one action found, one end of buffer handled, one     *)
(* doubling of the buffer, one read.  yywrap always says that there is no  *)
(* next file, so yy_did_buffer_switch_on_eof is never looked at.           *)
(***************************************************************************)
EXTENDS FlexBuffers, SequencesExt

CONSTANTS
  Char,              (* what texts are made of                             *)
  YY_READ_BUF_SIZE,  (* most characters one read asks for                  *)
  Clients,  (* the programs around the scanner: the entry points they call, *)
            (* the streams they have, what streams hold and strings say, *)
            (* and the number of buffers they make                       *)
  Sizes,             (* sizes of the buffers a caller makes                *)
  PushBack, MaxOwed  (* characters for unput; nothing goes back beyond MaxOwed *)

ASSUME ScannerAssumption ==
  /\ NUL \in Char /\ Junk \notin Char
  /\ YY_READ_BUF_SIZE \in Nat \ {0} /\ Sizes \subseteq Nat /\ PushBack \subseteq Char
  /\ \A c \in Clients : /\ Stdin \in c.files /\ c.files \subseteq File
                        /\ c.texts \subseteq Seq(Char)
                        /\ c.buffers \in 0..Cardinality(Buf)
  /\ IsFiniteSet(Buf)

VARIABLES
  client,  (* the program around the scanner                               *)
  m,     (* globals and buffers                                            *)
  rest,  (* what is left in every stream                                   *)
  pc,    (* "idle" between calls                                           *)
  st,    (* yy_current_state                                               *)
  bp,    (* yy_bp                                                          *)
  lp,    (* yy_cp of yylex                                                 *)
  by,    (* the function that called yy_get_next_buffer                    *)
  tok,   (* what the last call returned                                    *)
  owed   (* history: the text every buffer still owes its reader           *)

vars == <<client, m, rest, pc, st, bp, lp, by, tok, owed>>
local == <<st, bp, lp, by>>

Cur == YY_CURRENT_BUFFER(m)
OnStack == ToSet(m.stack) \ {None}
Held == DOMAIN owed \ OnStack  \* buffers off the stack that the caller keeps
Drop(s, k) == SubSeq(s, k + 1, Len(s))

Init ==
  /\ client \in Clients
  /\ m = Start
  /\ rest \in [client.files -> client.texts]
  /\ pc = "idle" /\ st = 1 /\ bp = 0 /\ lp = 0 /\ by = "yylex"
  /\ tok = EndToken /\ owed = <<>>

Called(f) == pc = "idle" /\ f \in client.calls
Unallocated == Cardinality(DOMAIN m.buf) < client.buffers
(* Two buffers never share a stream. *)
Unused(f) == \A b \in DOMAIN owed \ {Cur} : m.buf[b].file # f

(* The call returns t, and its locals are gone. *)
Return(t) ==
  /\ pc' = "idle" /\ tok' = t
  /\ st' = 1 /\ bp' = 0 /\ lp' = 0
  /\ owed' = [owed EXCEPT ![Cur] = Drop(@, Len(t.text))]
-----------------------------------------------------------------------------
(* yylex *)
yylex ==
  LET i == [m EXCEPT !.init = TRUE, !.in = IF @ = None THEN Stdin ELSE @]
      e == IF m.init THEN m ELSE yy_load_buffer_state(EnsureCurrent(i))
  IN  /\ Called("yylex")
      /\ Cur = None => ~m.init /\ Unallocated /\ Unused(i.in)
      /\ m' = Poke(e, e.cp, e.hold)
      /\ bp' = e.cp /\ lp' = e.cp /\ st' = 1 /\ pc' = "match" /\ by' = "yylex"
      /\ owed' = IF Cur = None THEN With(owed, NewBuffer(m), rest[i.in]) ELSE owed
      /\ UNCHANGED <<client, rest, tok>>

(* The run of the automaton behind yy_cp = at, remembering where it could stop. *)
Accepting(s, w, at) == IF yy_accept[s] = 0 THEN w ELSE [w EXCEPT !.las = s, !.lac = at]

Match ==
  /\ pc = "match"
  /\ m' = Accepting(st, m, lp)
  /\ st' = yy_trans[<<st, yy_ec(Chars(m)[lp])>>]
  /\ lp' = lp + 1
  /\ pc' = IF Jams(st') THEN "find" ELSE "match"
  /\ UNCHANGED <<client, rest, bp, by, tok, owed>>

(* yy_find_action, YY_DO_BEFORE_ACTION and the rules of calc.1. *)
FindAction ==
  LET back == yy_accept[st] = 0
      end == IF back THEN m.lac ELSE lp
      act == yy_accept[IF back THEN m.las ELSE st]
      yytext == [i \in 1..end - bp |-> Chars(m)[bp + i - 1]]
  IN  /\ pc = "find"
      /\ m' = [Poke(m, end, NUL) EXCEPT
                 !.text = bp, !.leng = end - bp, !.hold = Chars(m)[end], !.cp = end]
      /\ \/ act = 1 /\ Return([type |-> T_NUM, text |-> yytext])
         \/ act = 2 /\ Return([type |-> yytext[1], text |-> yytext])
         \/ act = 3 /\ Return([type |-> "END", text |-> yytext])
         \/ act = 5 /\ lp' = end /\ pc' = "eob" /\ UNCHANGED <<st, bp, tok, owed>>
      /\ UNCHANGED <<client, rest, by>>

(* yy_get_previous_state: the automaton's state before position i, run again
   from yytext; and w with the last place it could stop. *)
yy_get_previous_state(w, at) ==
  LET s[i \in w.text..at] ==
        IF i = w.text THEN 1 ELSE yy_trans[<<s[i - 1], TextClass(Chars(w)[i - 1])>>]
      stops == {i \in w.text..at - 1 : yy_accept[s[i]] # 0}
  IN  [st |-> s[at],
       w |-> IF stops = {} THEN w ELSE Accepting(s[Max(stops)], w, Max(stops))]

(* Go on scanning at position at. *)
ScanOn(w, at, next) ==
  \E p \in {yy_get_previous_state(w, at)} :
    /\ m' = [p.w EXCEPT !.cp = at] /\ st' = p.st /\ lp' = at /\ bp' = w.text /\ pc' = next
    /\ UNCHANGED <<tok, owed>>

(* input() hands out one character and keeps yytext a string. *)
Give(w) ==
  /\ m' = [Poke(w, w.cp, NUL) EXCEPT !.hold = Chars(w)[w.cp + 1], !.cp = @ + 1]
  /\ Return([type |-> "CHAR", text |-> <<Chars(w)[w.cp]>>])

LastMatch_goesOn(w) == ScanOn(w, w.n, "match")
LastMatch(w) == ScanOn(w, w.n, "find")

(* What yylex and input make of the answer of yy_get_next_buffer, which kept
   k characters. *)
Resume(caller, w, answer, k) ==
  \/ caller = "yylex" /\ answer = "continue" /\ ScanOn(w, w.text + k, "match")
  \/ caller = "yylex" /\ answer = "last" /\ LastMatch(w)
  \/ caller = "input" /\ answer = "continue" /\ Give([w EXCEPT !.cp = w.text + k])
  \/ /\ answer = "eof" \/ (caller = "input" /\ answer = "last")
     /\ m' = IF caller = "yylex" THEN [w EXCEPT !.cp = w.text]
             ELSE IF answer = "eof" THEN w ELSE yyrestart(w, w.in)
     /\ Return(EndToken)

(* yy_get_next_buffer up to the read; the text kept moves to the front. *)
yy_get_next_buffer(caller, w) ==
  LET k == w.cp - w.text - 1
  IN  /\ by' = caller
      /\ IF w.cp > w.n + 1 THEN pc' = "fatal" /\ m' = w /\ UNCHANGED <<st, bp, lp, tok, owed>>
         ELSE IF ~w.buf[Cur].fill THEN Resume(caller, w, IF k = 0 THEN "eof" ELSE "last", k)
         ELSE /\ m' = [w EXCEPT !.buf[Cur].ch =
                         [i \in DOMAIN @ |-> IF i < k THEN @[w.text + i] ELSE @[i]]]
              /\ pc' = "refill" /\ UNCHANGED <<st, bp, lp, tok, owed>>

(* case YY_END_OF_BUFFER: undo yytext, adopt the counts of a new buffer. *)
Undone ==
  LET w == Poke(m, lp, m.hold)
  IN  IF w.buf[Cur].status # "new" THEN w
      ELSE [w EXCEPT !.n = w.buf[Cur].n, !.buf[Cur].file = w.in, !.buf[Cur].status = "normal"]

IsNul_strict(w) == w.cp < w.n
IsNul(w) == w.cp <= w.n

RealNul ==
  LET at == lp - 1
      p == yy_get_previous_state(Undone, at)
      next == yy_trans[<<p.st, 1>>]  \* yy_try_NUL_trans
      w == [Accepting(p.st, p.w, at) EXCEPT !.cp = at]
  IN  /\ pc = "eob" /\ IsNul(Undone)
      /\ IF next # JamState
         THEN m' = [w EXCEPT !.cp = at + 1] /\ st' = next /\ lp' = at + 1 /\ pc' = "match"
         ELSE m' = w /\ st' = p.st /\ lp' = at /\ pc' = "find"
      /\ bp' = m.text
      /\ UNCHANGED <<client, rest, by, tok, owed>>

EndOfBuffer ==
  /\ pc = "eob" /\ ~IsNul(Undone)
  /\ \E w \in {Undone} : yy_get_next_buffer("yylex", w)
  /\ UNCHANGED <<client, rest>>

(* num_to_read, while the buffer is refilled. *)
Kept == m.cp - m.text - 1
Pending == m.buf[Cur].status = "pending"
Room_whole == m.buf[Cur].size
Room == m.buf[Cur].size - Kept - 1

Grow ==
  /\ pc = "refill" /\ ~Pending /\ Room <= 0
  /\ IF ~m.buf[Cur].ours THEN pc' = "fatal" /\ UNCHANGED m
     ELSE LET size == 2 * m.buf[Cur].size
          IN  /\ m' = [m EXCEPT !.buf[Cur].size = size, !.buf[Cur].ch =
                         [i \in 0..size + 1 |-> IF i \in DOMAIN @ THEN @[i] ELSE Junk]]
              /\ UNCHANGED pc
  /\ UNCHANGED <<client, rest, local, tok, owed>>

(* YY_INPUT: a terminal, as the buffer's stream was when the buffer was last
   initialised, gives a line, a file as much as is asked for, and less when a
   signal interrupts fread. *)
Amounts ==
  LET left == rest[m.in]
      most == Min({Room, YY_READ_BUF_SIZE, Len(left)})
      line == {i \in 1..most : left[i] = "\n"}
  IN  IF Pending \/ left = <<>> THEN {0}
      ELSE IF ~m.buf[Cur].tty THEN 1..most
      ELSE {IF line = {} THEN most ELSE Min(line)}

(* Two end marks behind the text. *)
Marked_once(w) == Poke(w, w.n + 1, NUL)
Marked(w) == Poke(Poke(w, w.n, NUL), w.n + 1, NUL)

(* The rest of yy_get_next_buffer, after r characters were read. *)
Filled(r) ==
  LET k == Kept
      b == [m EXCEPT !.n = r, !.buf[Cur].n = r, !.buf[Cur].ch =
              [i \in DOMAIN @ |-> IF i \in k..k + r - 1 THEN rest[m.in][i - k + 1] ELSE @[i]]]
      c == IF r > 0 THEN b ELSE IF k = 0 THEN yyrestart(b, b.in)
           ELSE [b EXCEPT !.buf[Cur].status = "pending"]
      w == [c EXCEPT !.n = @ + k, !.text = 0]
  IN  Marked(w)

Read ==
  /\ pc = "refill" /\ (Pending \/ Room > 0)
  /\ \E r \in Amounts : \E w \in {Filled(r)} :
       /\ rest' = [rest EXCEPT ![m.in] = Drop(@, r)]
       /\ Resume(by, w, IF r > 0 THEN "continue" ELSE IF Kept = 0 THEN "eof" ELSE "last", Kept)
  /\ UNCHANGED <<client, by>>

(* fread fails and it was no signal. *)
ReadFails ==
  /\ pc = "refill" /\ ~Pending /\ Room > 0 /\ "fail" \in client.calls
  /\ pc' = "fatal"
  /\ UNCHANGED <<client, m, rest, local, tok, owed>>
-----------------------------------------------------------------------------
(* The other entry points.  The rules may call input and unput, so yylex has
   run by then. *)

(* The caller's rule: at the end of a string input would go on to read from no
   stream, and in a buffer that yylex has not seen since it was made or restarted
   yylex would miss what input kept in front of a second read (lines 763-776). *)
MayRefill == m.buf[Cur].fill /\ (m.buf[Cur].status = "new" => m.cp = m.text)

input ==
  LET w == Poke(m, m.cp, m.hold)
      end == m.hold = NUL /\ m.cp >= m.n
  IN  /\ Called("input") /\ m.init /\ Cur # None
      /\ end => MayRefill
      /\ IF end
         THEN yy_get_next_buffer("input", [w EXCEPT !.cp = @ + 1])
         ELSE Give(w) /\ UNCHANGED by
      /\ UNCHANGED <<client, rest>>

yyunput(c) ==
  LET w == Poke(m, m.cp, m.hold)
      d == IF m.cp < 2 THEN w.buf[Cur].size - m.n ELSE 0  \* shift to make room
      x == [w EXCEPT !.buf[Cur].ch =
              [i \in DOMAIN @ |-> IF i - d \in 0..m.n + 1 THEN @[i - d] ELSE @[i]],
              !.n = @ + d, !.cp = @ + d, !.text = @ + d,
              !.buf[Cur].n = IF m.cp < 2 THEN w.buf[Cur].size ELSE @]
  IN  /\ Called("unput") /\ m.init /\ Cur # None /\ Len(owed[Cur]) < MaxOwed
      /\ IF x.cp < 2 THEN pc' = "fatal" /\ UNCHANGED <<m, owed>>
         ELSE /\ m' = [Poke(x, x.cp - 1, c) EXCEPT !.hold = c, !.cp = @ - 1]
              /\ owed' = [owed EXCEPT ![Cur] = <<c>> \o @]
              /\ UNCHANGED pc
      /\ UNCHANGED <<client, rest, local, tok>>

(* yyless, outside the rules: of the last token only n characters are taken. *)
yyless(n) ==
  LET w == [Poke(m, m.cp, m.hold) EXCEPT !.cp = m.text + n, !.leng = n]
      back == [i \in 1..m.leng - n |-> Chars(m)[m.text + n + i - 1]]
  IN  /\ Called("less") /\ m.cp = m.text + m.leng /\ Len(owed[Cur]) + Len(back) <= MaxOwed
      /\ m' = [Poke(w, w.cp, NUL) EXCEPT !.hold = Chars(w)[w.cp]]
      /\ owed' = [owed EXCEPT ![Cur] = back \o @]
      /\ UNCHANGED <<client, rest, pc, local, tok>>

(* A call that is one step: what it does to m, and to what is owed.  A caller
   that pointed yyin elsewhere calls yylex first: only that makes the buffer
   remember its new stream (lines 763-776). *)
Manage(f, w, o) ==
  /\ Called(f) /\ (Cur # None => m.in = m.buf[Cur].file)
  /\ m' = w /\ owed' = o
  /\ UNCHANGED <<client, rest, pc, local, tok>>

CreateBuffer(f, size) ==
  /\ Unallocated /\ Unused(f) /\ m.in # f
  /\ Manage("create", yy_create_buffer(m, f, size), With(owed, NewBuffer(m), rest[f]))

ScanBytes(s) ==
  /\ Unallocated
  /\ Manage("scan", yy_scan_bytes(m, s), With(owed, NewBuffer(m), s))

Push(b) == b \in Held /\ Manage("push", yypush_buffer_state(m, b), owed)
Switch(b) == b \in Held /\ Manage("switch", yy_switch_to_buffer(m, b), owed)
Pop == Cur # None /\ Manage("pop", yypop_buffer_state(m), Restrict(owed, DOMAIN owed \ {Cur}))

Delete(b) ==
  /\ b \in (Held \cup {Cur}) \ {None}
  /\ Manage("delete", yy_delete_buffer(m, b), Restrict(owed, DOMAIN owed \ {b}))

(* What was buffered is discarded. *)
Flush(b) ==
  /\ b \in DOMAIN owed /\ m.buf[b].fill
  /\ Manage("flush", yy_flush_buffer(m, b), [owed EXCEPT ![b] = rest[m.buf[b].file]])

Restart(f) ==
  LET b == IF Cur = None THEN NewBuffer(m) ELSE Cur
  IN  /\ Cur # None \/ Unallocated
      /\ Unused(f)
      /\ Manage("restart", yyrestart(m, f), With(owed, b, rest[f]))

(* The reader points yyin at a new stream at the end of the old one, once yylex
   has initialised (which would set yyin again). *)
yyset_in(f) ==
  /\ m.init /\ Unused(f) /\ Cur # None /\ owed[Cur] = <<>> /\ m.buf[Cur].status = "new" /\ m.buf[Cur].fill
  /\ Manage("set_in", [m EXCEPT !.in = f], [owed EXCEPT ![Cur] = rest[f]])

(* yylex_destroy, one turn of its loop at a time. *)
Destroy ==
  /\ Called("destroy") /\ m.stack # <<>>
  /\ pc' = "destroy"
  /\ UNCHANGED <<client, m, rest, local, tok, owed>>

DestroyTop ==
  /\ pc = "destroy" /\ Cur # None
  /\ m' = yypop_buffer_state(SetCurrent(yy_delete_buffer(m, Cur), None))
  /\ owed' = Restrict(owed, DOMAIN owed \ {Cur})
  /\ UNCHANGED <<client, rest, pc, local, tok>>

DestroyStack ==
  /\ pc = "destroy" /\ Cur = None
  /\ m' = yy_init_globals(m)
  /\ pc' = "idle" /\ owed' = Restrict(owed, Held)
  /\ UNCHANGED <<client, rest, local, tok>>
-----------------------------------------------------------------------------
Step ==
  \/ Match \/ FindAction \/ RealNul \/ EndOfBuffer \/ Grow \/ Read \/ ReadFails
  \/ DestroyTop \/ DestroyStack

Client ==
  \/ yylex \/ input \/ Pop \/ Destroy
  \/ \E c \in PushBack : yyunput(c)
  \/ Cur # None /\ \E n \in 0..m.leng - 1 : yyless(n)
  \/ \E s \in client.texts : ScanBytes(s)
  \/ \E b \in Buf : Push(b) \/ Switch(b) \/ Delete(b) \/ Flush(b)
  \/ \E f \in client.files : Restart(f) \/ yyset_in(f) \/ \E z \in Sizes : CreateBuffer(f, z)

(* Between calls, and once the scanner has given up, the program may end. *)
Resting == pc \in {"idle", "fatal"}
Ended == Resting /\ UNCHANGED vars

Next == Step \/ Client \/ Ended

(* A call that was made runs on; nobody has to make one.  Step is enabled as
   long as a call runs (no state but a resting one may be the last), so this is
   its weak fairness. *)

RunsOn == []<>Resting \/ []<><<Step>>_vars
Spec == Init /\ [][Next]_vars /\ RunsOn
-----------------------------------------------------------------------------
(* Properties *)

(* Every variable has its type; the globals point into the current buffer. *)
TypeOK ==
  /\ DOMAIN m.buf \subseteq Buf /\ DOMAIN owed \subseteq DOMAIN m.buf
  /\ \A b \in DOMAIN m.buf :
       /\ m.buf[b].n \in 0..m.buf[b].size /\ m.buf[b].pos \in 0..m.buf[b].size
       /\ m.buf[b].status \in {"new", "normal", "pending"}
       /\ m.buf[b].file \in File \cup {None}
  /\ m.top \in 0..Len(m.stack) /\ m.in \in File \cup {None}
  /\ Cur # None => m.n \in 0..m.buf[Cur].size /\ m.cp \in 0..m.buf[Cur].size + 2
  /\ pc \in {"idle", "match", "find", "eob", "refill", "destroy", "fatal"}
  /\ st \in 1..10 /\ by \in {"yylex", "input"}

(* Only memory inside the buffer that was written before is matched: the moved
   text, what was read and the two end marks (lines 924-1017). *)
ReadsInside == pc = "match" => lp \in DOMAIN Chars(m) /\ Chars(m)[lp] # Junk

(* The stack never overflows its array, names no freed buffer and none twice
   (lines 1416-1456, 1291-1304). *)
StackSound ==
  /\ m.stack # <<>> => m.top < Len(m.stack)
  /\ OnStack \subseteq DOMAIN m.buf
  /\ \A i, j \in DOMAIN m.stack : m.stack[i] = m.stack[j] /\ m.stack[i] # None => i = j
  /\ \A i \in DOMAIN m.stack : i > m.top + 1 => m.stack[i] = None

(* No pointer leads out of the memory it is meant for. *)
MemorySound == ReadsInside /\ StackSound

(* What a buffer has not handed out yet, the character under the hold put back. *)
Unread(b) ==
  LET p == IF b = Cur THEN [at |-> m.cp, n |-> m.n, ch |-> Poke(m, m.cp, m.hold).buf[b].ch]
           ELSE [at |-> m.buf[b].pos, n |-> m.buf[b].n, ch |-> m.buf[b].ch]
      f == IF b = Cur THEN m.in ELSE m.buf[b].file
  IN  [i \in 1..p.n - p.at |-> p.ch[p.at + i - 1]]
      \o (IF m.buf[b].fill /\ m.buf[b].status # "pending" THEN rest[f] ELSE <<>>)

(* Between calls every buffer still holds, or will still read, exactly what its
   reader was not given: no refill, growth, push, pop, switch or unput loses,
   repeats or reorders a character (lines 924-1019, 1090-1117, 1236-1255,
   1372-1408). *)
TextIntact == pc = "idle" => \A b \in DOMAIN owed : Unread(b) = owed[b]

(* yylex returns the longest match of the rules at the head of the text, however
   the reads and the buffer's size cut it, and the end again and again once
   the text is over (lines 674-885, 835-841). *)
TokenIsNext ==
  [][pc # "idle" /\ pc' = "idle" /\ by = "yylex" /\ pc # "destroy"
       => tok' = FirstToken(owed[Cur])]_vars

(* A call of yylex or input comes back, unless the scanner gave up. *)
CallReturns == pc # "idle" ~> Resting
=============================================================================
