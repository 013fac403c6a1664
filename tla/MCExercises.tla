---------------------------- MODULE MCExercises -----------------------------
(* Small instances of Exercises for TLC. *)
EXTENDS Exercises

(* The first levels that libstdc++'s default engine draws. *)
MCLevels == <<3, 1, 1, 3, 1>>
MCPositions == 0..5
MCOperands == {<<1, 2>>, <<0, 0>>}
=============================================================================
