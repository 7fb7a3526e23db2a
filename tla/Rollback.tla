------------------------------ MODULE Rollback ------------------------------
(***************************************************************************)
(* What a saga promises: the steps that succeeded are on a stack. Either   *)
(* the scope commits, and nothing of it is ever undone, or it fails, does  *)
(* nothing new, and undoes the stack from the top to the bottom. Steps are *)
(* numbers, in the order they succeed, so a stack is the set of its steps. *)
(***************************************************************************)
EXTENDS Integers

CONSTANT Steps  \* a set of numbers

VARIABLES
  phase,  \* "forward", "rollback", "committed" or "rolledBack"
  stack   \* the steps that succeeded and are not undone

Init == phase = "forward" /\ stack = {}

Succeed ==
  /\ phase = "forward"
  /\ \E s \in Steps : (\A t \in stack : t < s) /\ stack' = stack \cup {s}
  /\ UNCHANGED phase

Commit == phase = "forward" /\ phase' = "committed" /\ UNCHANGED stack

Fail == phase = "forward" /\ phase' = "rollback" /\ UNCHANGED stack

Undo ==
  /\ phase = "rollback"
  /\ \E s \in stack : (\A t \in stack : t <= s) /\ stack' = stack \ {s}
  /\ UNCHANGED phase

Finish ==
  /\ phase = "rollback"
  /\ stack = {}
  /\ phase' = "rolledBack"
  /\ UNCHANGED stack

Next == Succeed \/ Commit \/ Fail \/ Undo \/ Finish

Spec == Init /\ [][Next]_<<phase, stack>>
=============================================================================
