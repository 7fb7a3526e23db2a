---------------------------- MODULE FiredInstants ----------------------------
(***************************************************************************)
(* What a schedule promises of its timeline: an instant fires at most      *)
(* once, and only in the step that moves the cursor past it. A cursor that *)
(* is set anew, or dropped, fires nothing.                                 *)
(***************************************************************************)
EXTENDS Integers

CONSTANT None  \* there is no schedule

VARIABLES
  cursor,  \* the next instant of the timeline, or None
  fired    \* the instants an execution was started for

Init == cursor = None /\ fired = {}

\* One pass of a scheduler, over any number of instants.
Pass ==
  /\ cursor # None
  /\ cursor' # None
  /\ cursor' > cursor
  /\ fired \subseteq fired'
  /\ fired' \ fired \subseteq cursor..(cursor' - 1)

\* Registration, redefinition and removal.
Reset == cursor' # cursor /\ UNCHANGED fired

Next == Pass \/ Reset

Spec == Init /\ [][Next]_<<cursor, fired>>
=============================================================================
