---------------------------- MODULE FlexBuffers -----------------------------
(***************************************************************************)
(* The scanner's globals and input buffers (lex.yy.c), as one record m, and *)
(* the functions that manage the buffers, each from an m to an m:          *)
(*   buf      the allocated yy_buffer_states, by address                   *)
(*   stack    yy_buffer_stack, <<>> for NULL; its length is the capacity   *)
(*   top      yy_buffer_stack_top                                          *)
(*   n        yy_n_chars              cp    yy_c_buf_p, an index           *)
(*   text     yytext_ptr, an index    leng  yyleng                         *)
(*   hold     yy_hold_char            in    yyin                           *)
(*   init     yy_init                 las, lac  yy_last_accepting_state    *)
(*                                              and its cpos               *)
(***************************************************************************)
EXTENDS FlexTables, Functions

CONSTANTS
  Buf,          (* addresses for buffers                                   *)
  File,         (* input streams                                           *)
  Stdin,        (* the one yylex starts with                               *)
  Tty,          (* the streams that are terminals                          *)
  YY_BUF_SIZE,  (* size of the buffer yylex makes                          *)
  StackGrow     (* slots by which the buffer stack grows, 8 in the code    *)

None == "none"

ASSUME BuffersAssumption ==
  /\ Stdin \in File /\ Tty \subseteq File /\ None \notin File \cup Buf
  /\ YY_BUF_SIZE \in Nat \ {0} /\ StackGrow \in Nat \ {0}

(* The function f with the value v at x. *)
With(f, x, v) == [y \in DOMAIN f \cup {x} |-> IF y = x THEN v ELSE f[y]]

yy_init_globals(m) ==
  [m EXCEPT !.stack = <<>>, !.top = 0, !.cp = 0, !.init = FALSE, !.in = None]

Start == yy_init_globals([buf |-> <<>>, stack |-> <<>>, top |-> 0, n |-> 0, cp |-> 0,
  text |-> 0, leng |-> 0, hold |-> NUL, init |-> FALSE, in |-> None, las |-> 1, lac |-> 0])

YY_CURRENT_BUFFER(m) == IF m.stack = <<>> THEN None ELSE m.stack[m.top + 1]
SetCurrent(m, b) == [m EXCEPT !.stack[m.top + 1] = b]
Chars(m) == m.buf[YY_CURRENT_BUFFER(m)].ch
Poke(m, i, c) == [m EXCEPT !.buf[YY_CURRENT_BUFFER(m)].ch[i] = c]

yyensure_buffer_stack(m) ==
  IF m.stack = <<>> THEN [m EXCEPT !.stack = <<None>>, !.top = 0]
  ELSE IF m.top < Len(m.stack) - 1 THEN m
  ELSE [m EXCEPT !.stack = @ \o [i \in 1..StackGrow |-> None]]

yy_load_buffer_state(m) ==
  LET b == m.buf[YY_CURRENT_BUFFER(m)]
  IN  [m EXCEPT !.n = b.n, !.text = b.pos, !.cp = b.pos, !.in = b.file, !.hold = b.ch[b.pos]]

(* Write the globals back to the buffer they belong to. *)
SaveCurrent_keepsHold(m) ==
  LET b == YY_CURRENT_BUFFER(m)
  IN  IF b = None THEN m ELSE [m EXCEPT !.buf[b].pos = m.cp, !.buf[b].n = m.n]
SaveCurrent(m) ==
  LET b == YY_CURRENT_BUFFER(m)
  IN  IF b = None THEN m ELSE [Poke(m, m.cp, m.hold) EXCEPT !.buf[b].pos = m.cp, !.buf[b].n = m.n]

yy_flush_buffer(m, b) ==
  LET f == [m EXCEPT !.buf[b].n = 0, !.buf[b].ch[0] = NUL, !.buf[b].ch[1] = NUL,
                     !.buf[b].pos = 0, !.buf[b].status = "new"]
  IN  IF b = YY_CURRENT_BUFFER(m) THEN yy_load_buffer_state(f) ELSE f

yy_init_buffer(m, b, f) ==
  [yy_flush_buffer(m, b) EXCEPT !.buf[b] = [@ EXCEPT !.file = f, !.fill = TRUE, !.tty = f \in Tty]]

NewBuffer(m) == CHOOSE b \in Buf : b \notin DOMAIN m.buf

(* A buffer over the characters ch, size of them beside the two end marks: of a
   stream, and empty at first, or full and the caller's, and never refilled. *)
yy_buffer_state(ch, size, full) ==
  [file |-> None, ch |-> ch, pos |-> 0, size |-> size, n |-> IF full THEN size ELSE 0,
   ours |-> ~full, fill |-> ~full, tty |-> FALSE, status |-> "new"]

yy_create_buffer(m, f, size) ==
  LET blank == yy_buffer_state([i \in 0..size + 1 |-> Junk], size, FALSE)
  IN  yy_init_buffer([m EXCEPT !.buf = With(@, NewBuffer(m), blank)], NewBuffer(m), f)

yy_delete_buffer(m, b) ==
  IF b = None THEN m
  ELSE [(IF b = YY_CURRENT_BUFFER(m) THEN SetCurrent(m, None) ELSE m)
          EXCEPT !.buf = Restrict(@, DOMAIN @ \ {b})]

(* A buffer for yyin when there is none yet. *)
EnsureCurrent(m) ==
  IF YY_CURRENT_BUFFER(m) # None THEN m
  ELSE LET e == yyensure_buffer_stack(m)
       IN  SetCurrent(yy_create_buffer(e, m.in, YY_BUF_SIZE), NewBuffer(e))

yyrestart(m, f) ==
  LET e == EnsureCurrent(m)
  IN  yy_load_buffer_state(yy_init_buffer(e, YY_CURRENT_BUFFER(e), f))

yy_switch_to_buffer(m, b) ==
  LET e == yyensure_buffer_stack(m)
  IN  IF YY_CURRENT_BUFFER(e) = b THEN e
      ELSE yy_load_buffer_state(SetCurrent(SaveCurrent(e), b))

yypush_buffer_state(m, b) ==
  LET e == SaveCurrent(yyensure_buffer_stack(m))
      up == IF YY_CURRENT_BUFFER(e) = None THEN e ELSE [e EXCEPT !.top = @ + 1]
  IN  yy_load_buffer_state(SetCurrent(up, b))

yypop_buffer_state(m) ==
  IF YY_CURRENT_BUFFER(m) = None THEN m
  ELSE LET d == SetCurrent(yy_delete_buffer(m, YY_CURRENT_BUFFER(m)), None)
           e == IF m.top > 0 THEN [d EXCEPT !.top = @ - 1] ELSE d
       IN  IF YY_CURRENT_BUFFER(e) = None THEN e ELSE yy_load_buffer_state(e)

(* base holds the text and two end marks; without them the code returns NULL. *)
yy_scan_buffer(m, base) ==
  LET size == Len(base)
      b == yy_buffer_state(Array(base), size - 2, TRUE)
  IN  IF size < 2 \/ base[size - 1] # NUL \/ base[size] # NUL THEN m
      ELSE yy_switch_to_buffer([m EXCEPT !.buf = With(@, NewBuffer(m), b)], NewBuffer(m))

yy_scan_bytes(m, bytes) ==
  [yy_scan_buffer(m, bytes \o <<NUL, NUL>>) EXCEPT !.buf[NewBuffer(m)].ours = TRUE]
=============================================================================
