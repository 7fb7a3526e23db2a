-------------------------- MODULE ActivityReceipt ---------------------------
(***************************************************************************)
(* What the activity transport promises, whatever workers, leases, permits *)
(* and dead letters do: a business attempt gets at most one receipt, the   *)
(* engine gets at most one answer, the answer is the receipt, or           *)
(* 'cancelled' once the run is closed, and a closed run stays closed.      *)
(***************************************************************************)
CONSTANTS Acts, Runs, RunOf, Results, Cancelled, None

VARIABLES receipt, answer, closed

Init ==
  /\ receipt = [a \in Acts |-> None]
  /\ answer = [a \in Acts |-> None]
  /\ closed = [r \in Runs |-> FALSE]

\* An invocation commits the outcome of the attempt.
Commit(a, o) ==
  /\ receipt[a] = None
  /\ o \in Results \/ (o = Cancelled /\ closed[RunOf[a]])
  /\ receipt' = [receipt EXCEPT ![a] = o]
  /\ UNCHANGED <<answer, closed>>

\* The engine learns the outcome.
Answer(a, o) ==
  /\ answer[a] = None
  /\ (o = receipt[a] /\ o # None) \/ (o = Cancelled /\ closed[RunOf[a]])
  /\ answer' = [answer EXCEPT ![a] = o]
  /\ UNCHANGED <<receipt, closed>>

\* The run is cancelled or ends.
CloseRun(r) ==
  /\ ~closed[r]
  /\ closed' = [closed EXCEPT ![r] = TRUE]
  /\ UNCHANGED <<receipt, answer>>

Next ==
  \/ \E a \in Acts, o \in Results \cup {Cancelled} : Commit(a, o) \/ Answer(a, o)
  \/ \E r \in Runs : CloseRun(r)

Spec == Init /\ [][Next]_<<receipt, answer, closed>>
=============================================================================
