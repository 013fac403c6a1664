--------------------------- MODULE CalculatorSpec ---------------------------
(***************************************************************************)
(* What the calculator promises its user (calc.y): it takes tokens one     *)
(* after the other, gives the answer of every line before it takes the     *)
(* next, and its exit tells whether the input was well formed.             *)
(***************************************************************************)
EXTENDS Naturals, Sequences

CONSTANTS
  Token,       (* what the user may type, EndOfInput included              *)
  EndOfInput,
  Viable(_),   (* some correct input begins like this                      *)
  Dies(_),     (* it holds a division that has no result                   *)
  Answers(_)   (* the answers of its lines                                 *)

VARIABLES read, printed, status
vars == <<read, printed, status>>

Running == "running"
OutOfMemory == "2"

Init == read = <<>> /\ printed = <<>> /\ status = Running

Sound == IF Viable(read) THEN read ELSE SubSeq(read, 1, Len(read) - 1)
Ended == read # <<>> /\ read[Len(read)] = EndOfInput

Take ==
  /\ \E t \in Token : read' = Append(read, t)
  /\ status = Running /\ ~Ended /\ Viable(read) /\ ~Dies(read) /\ printed = Answers(read)
  /\ UNCHANGED <<printed, status>>

Answer ==
  /\ printed' # printed
  /\ status = Running /\ Viable(read) /\ Len(printed) < Len(Answers(read))
  /\ printed' = Append(printed, Answers(read)[Len(printed) + 1])
  /\ UNCHANGED <<read, status>>

Exit ==
  /\ status = Running /\ status' # Running
  /\ \/ status' = "0" /\ Ended /\ Viable(read) /\ printed = Answers(read)
     \/ status' = "1" /\ ~Viable(read) /\ printed = Answers(Sound)
     \/ status' = "killed" /\ Dies(read)
     \/ status' = OutOfMemory
  /\ UNCHANGED <<read, printed>>

Next == Take \/ Answer \/ Exit
Spec == Init /\ [][Next]_vars
=============================================================================
