----------------------- MODULE ActivityDeliveryProofs -----------------------
(***************************************************************************)
(* Theorems about ActivityDelivery, for every number of runs, attempts,    *)
(* worker turns, requeues, every lease and every limit: types, receipts    *)
(* and their refinement; letters and blocked runs; the numbers that fence  *)
(* claims; the permits of shared limits.                                   *)
(***************************************************************************)
EXTENDS ActivityDelivery, FiniteSetTheorems, TLAPS

USE DEF rows, vars

-----------------------------------------------------------------------------
(* Type correctness. TypeOK alone is not inductive: a turn that is not idle  *)
(* has a delivery at hand, and its row is read and written.                  *)

BusyHasDelivery == \A i \in Invocations : worker[i].at # "idle" => worker[i].act \in Acts

TypeInv == TypeOK /\ BusyHasDelivery

LEMMA TypeInit == Init => TypeInv
  BY ActsAssumption, TokenAssumption, BoundsAssumption
  DEF Init, TypeInv, TypeOK, BusyHasDelivery, Deliveries, NoDelivery, NoClaim,
      NoPermit, Idle, Outcomes, TerminalStates, WorkerSteps, DeliveryRow, LetterState,
      ClaimRow, PermitRow, RunRow, WorkerTurn

\* The rows the transport writes are delivery rows.
LEMMA RowTypes ==
  ASSUME NEW d \in DeliveryRow
  PROVE  /\ Pend(d) \in DeliveryRow /\ Unattempt(d) \in DeliveryRow
         /\ Older(d) \in DeliveryRow
         /\ \A s \in {"completed", "failed"} : Close(d, s) \in DeliveryRow
         /\ \A i \in Invocations : CanTake(d) => Acquire(d, i) \in DeliveryRow
         /\ \A n \in 0..MaxAttempts : Pending(n) \in DeliveryRow
<1> USE BoundsAssumption
<1>1. Pend(d) \in DeliveryRow BY DEF DeliveryRow, Pend, Pending
<1>2. Unattempt(d) \in DeliveryRow BY DEF DeliveryRow, Pending, Unattempt
<1>3. Older(d) \in DeliveryRow BY DEF DeliveryRow, Older
<1>4. \A s \in {"completed", "failed"} : Close(d, s) \in DeliveryRow
  BY DEF DeliveryRow, Close
<1>5. \A i \in Invocations : CanTake(d) => Acquire(d, i) \in DeliveryRow
  BY DEF DeliveryRow, Acquire, CanTake, Expired
<1>6. \A n \in 0..MaxAttempts : Pending(n) \in DeliveryRow
  BY DEF DeliveryRow, Pending
<1> QED BY <1>1, <1>2, <1>3, <1>4, <1>5, <1>6

\* An update of a run row by SetRun is well typed.
LEMMA SetRunType ==
  ASSUME run \in [Runs -> RunRow], NEW r \in Runs,
         NEW s \in {"waiting", "running", "blocked"} \cup TerminalStates,
         NEW w \in Acts \cup {NoAct}, SetRun(r, s, w)
  PROVE  run' \in [Runs -> RunRow]
  BY DEF SetRun, RunRow, TerminalStates

LEMMA TypeInterpreter ==
  ASSUME TypeInv, NEW a \in Acts, Interpreter(a)
  PROVE  TypeInv'
<1> USE ActsAssumption, BoundsAssumption DEF TypeInv, TypeOK, BusyHasDelivery
<1>0. RunOf[a] \in Runs /\ 0 \in Deliveries BY DEF Deliveries
<1>1. CASE Gate(a) BY <1>1 DEF Gate, Advance
<1>2. CASE BeginCommand(a)
  <2>1. run' \in [Runs -> RunRow] BY <1>0, <1>2, SetRunType DEF BeginCommand
  <2> QED BY <1>2, <2>1 DEF BeginCommand, Advance
<1>3. CASE GateAttempt(a) BY <1>3 DEF GateAttempt, Advance
<1>4. CASE Offer(a)
  <2>1. Pending(0) \in DeliveryRow BY DEF DeliveryRow, Pending
  <2>2. delivery' \in [Acts -> [Deliveries -> DeliveryRow]]
    BY <1>0, <1>4, <2>1 DEF Offer
  <2> QED BY <1>4, <2>2 DEF Offer, Advance
<1>5. CASE FinishCommand(a)
  <2>1. run' \in [Runs -> RunRow] BY <1>0, <1>5, SetRunType DEF FinishCommand
  <2> QED BY <1>5, <2>1 DEF FinishCommand, Advance
<1> QED BY <1>1, <1>2, <1>3, <1>4, <1>5 DEF Interpreter

LEMMA FailDeliveriesType ==
  ASSUME delivery \in [Acts -> [Deliveries -> DeliveryRow]], NEW r \in Runs, FailDeliveries(r)
  PROVE  delivery' \in [Acts -> [Deliveries -> DeliveryRow]]
  BY RowTypes DEF FailDeliveries

LEMMA DiscardLettersType ==
  ASSUME dead \in [Acts -> [Deliveries -> LetterState]], NEW r \in Runs, DiscardLetters(r)
  PROVE  dead' \in [Acts -> [Deliveries -> LetterState]]
  BY DEF DiscardLetters, LetterState

LEMMA CreateDeadLetterType ==
  ASSUME TypeInv, NEW a \in Acts, NEW k \in Deliveries, CreateDeadLetter(a, k)
  PROVE  /\ delivery' \in [Acts -> [Deliveries -> DeliveryRow]]
         /\ dead' \in [Acts -> [Deliveries -> LetterState]]
         /\ run' \in [Runs -> RunRow]
<1> USE DEF TypeInv, TypeOK, CreateDeadLetter
<1>0. RunOf[a] \in Runs BY ActsAssumption
<1>1. delivery' \in [Acts -> [Deliveries -> DeliveryRow]] BY RowTypes
<1>2. dead' \in [Acts -> [Deliveries -> LetterState]] BY DEF LetterState
<1>3. run' \in [Runs -> RunRow] BY <1>0, SetRunType
<1> QED BY <1>1, <1>2, <1>3

LEMMA TypeLifecycle ==
  ASSUME TypeInv, NEW r \in Runs, Lifecycle(r)
  PROVE  TypeInv'
<1> USE DEF TypeInv, TypeOK, BusyHasDelivery
<1>1. CASE NewRound(r)
  <2>1. run' \in [Runs -> RunRow] BY <1>1, SetRunType DEF NewRound
  <2> QED BY <1>1, <2>1 DEF NewRound
<1>2. CASE CompleteRun(r)
  <2>1. run' \in [Runs -> RunRow] BY <1>2, SetRunType DEF CompleteRun, TerminalStates
  <2> QED BY <1>2, <2>1 DEF CompleteRun
<1>3. CASE RequestCancel(r)
  <2>1. run' \in [Runs -> RunRow] BY <1>3 DEF RequestCancel, RunRow
  <2> QED BY <1>3, <2>1 DEF RequestCancel
<1>4. CASE CompleteCancelled(r)
  <2>1. run' \in [Runs -> RunRow] BY <1>4, SetRunType DEF CompleteCancelled, TerminalStates
  <2> QED BY <1>4, <2>1, FailDeliveriesType, DiscardLettersType DEF CompleteCancelled
<1>5. ASSUME NEW result \in {"completed", "failed"}, EndWorkflow(r, result) PROVE TypeInv'
  BY <1>5 DEF EndWorkflow
<1> QED BY <1>1, <1>2, <1>3, <1>4, <1>5 DEF Lifecycle

LEMMA TypeLetters ==
  ASSUME TypeInv, NEW a \in Acts, NEW k \in Deliveries,
         Exhausted(a, k) \/ Requeue(a, k) \/ Discard(a, k)
  PROVE  TypeInv'
<1> USE DEF TypeInv, TypeOK, BusyHasDelivery
<1>0. RunOf[a] \in Runs BY ActsAssumption
<1>1. CASE Exhausted(a, k) BY <1>1, CreateDeadLetterType DEF Exhausted
<1>2. CASE Requeue(a, k)
  <2>1. delivery[a][k] \in DeliveryRow /\ delivery[a][k].attempts \in 0..MaxAttempts
    BY DEF DeliveryRow
  <2>2. delivery' \in [Acts -> [Deliveries -> DeliveryRow]]
    BY <1>2, <2>1, RowTypes DEF Requeue, InitialAttempt
  <2>3. dead' \in [Acts -> [Deliveries -> LetterState]] BY <1>2 DEF Requeue, LetterState
  <2> QED BY <1>2, <2>2, <2>3 DEF Requeue
<1>3. CASE Discard(a, k)
  <2>1. run' \in [Runs -> RunRow] BY <1>0, <1>3 DEF Discard, RunRow, TerminalStates
  <2>2. UNCHANGED <<claim, permit, ended, step, answer, worker>> BY <1>3 DEF Discard
  <2>3. DiscardLetters(RunOf[a]) /\ FailDeliveries(RunOf[a]) BY <1>3 DEF Discard
  <2> QED BY <1>0, <2>1, <2>2, <2>3, FailDeliveriesType, DiscardLettersType
<1> QED BY <1>1, <1>2, <1>3

LEMMA PermitTypes ==
  ASSUME permit \in [Acts -> PermitRow], NEW a \in Acts
  PROVE  /\ Purged(a) \in [Acts -> PermitRow]
         /\ \A i \in Invocations : ReleasePermit(a, i) \in [Acts -> PermitRow]
<1> USE BoundsAssumption DEF PermitRow, NoPermit
<1>1. Purged(a) \in [Acts -> PermitRow] BY DEF Purged
<1>2. \A i \in Invocations : ReleasePermit(a, i) \in [Acts -> PermitRow]
  BY DEF ReleasePermit
<1> QED BY <1>1, <1>2

LEMMA OlderTypes ==
  /\ \A c \in ClaimRow : Older(c) \in ClaimRow
  /\ \A p \in PermitRow : Older(p) \in PermitRow
<1> USE BoundsAssumption DEF Older
<1>1. ASSUME NEW c \in ClaimRow PROVE Older(c) \in ClaimRow BY DEF ClaimRow
<1>2. ASSUME NEW p \in PermitRow PROVE Older(p) \in PermitRow BY DEF PermitRow
<1> QED BY <1>1, <1>2

LEMMA TypeTick == ASSUME TypeInv, Tick PROVE TypeInv'
<1> USE DEF TypeInv, TypeOK, BusyHasDelivery
<1>1. delivery' \in [Acts -> [Deliveries -> DeliveryRow]] BY RowTypes DEF Tick
<1>2. claim' \in [Acts -> ClaimRow] BY OlderTypes DEF Tick
<1>3. permit' \in [Acts -> PermitRow] BY OlderTypes DEF Tick
<1> QED BY <1>1, <1>2, <1>3 DEF Tick

\* Updates of one column.
LEMMA ColumnTypes ==
  /\ \A f \in [Runs -> RunRow] : \A r \in Runs :
       [f EXCEPT ![r].state = "waiting"] \in [Runs -> RunRow]
  /\ \A f \in [Acts -> ClaimRow] : \A a \in Acts :
       [f EXCEPT ![a].left = Lease] \in [Acts -> ClaimRow]
  /\ \A f \in [Acts -> PermitRow] : \A a \in Acts :
       [f EXCEPT ![a].left = Lease] \in [Acts -> PermitRow]
  /\ \A f \in [Invocations -> WorkerTurn] : \A i \in Invocations, at \in WorkerSteps,
        o \in Outcomes \cup {"none"} :
       [f EXCEPT ![i].at = at, ![i].outcome = o] \in [Invocations -> WorkerTurn]
<1>0. Lease \in 0..Lease BY BoundsAssumption
<1>1. ASSUME NEW f \in [Runs -> RunRow], NEW r \in Runs
      PROVE  [f EXCEPT ![r].state = "waiting"] \in [Runs -> RunRow]
  BY DEF RunRow
<1>2. ASSUME NEW f \in [Acts -> ClaimRow], NEW a \in Acts
      PROVE  [f EXCEPT ![a].left = Lease] \in [Acts -> ClaimRow]
  BY <1>0 DEF ClaimRow
<1>3. ASSUME NEW f \in [Acts -> PermitRow], NEW a \in Acts
      PROVE  [f EXCEPT ![a].left = Lease] \in [Acts -> PermitRow]
  BY <1>0 DEF PermitRow
<1>4. ASSUME NEW f \in [Invocations -> WorkerTurn], NEW i \in Invocations,
             NEW at \in WorkerSteps, NEW o \in Outcomes \cup {"none"}
      PROVE  [f EXCEPT ![i].at = at, ![i].outcome = o] \in [Invocations -> WorkerTurn]
  BY DEF WorkerTurn
<1> QED BY <1>1, <1>2, <1>3, <1>4

\* The three ways a turn moves on.
LEMMA TurnTypes ==
  ASSUME TypeInv, NEW i \in Invocations
  PROVE  /\ EndTurn(i) => worker' \in [Invocations -> WorkerTurn] /\ BusyHasDelivery'
         /\ worker[i].at # "idle" => \A at \in WorkerSteps :
              /\ Goto(i, at) => worker' \in [Invocations -> WorkerTurn] /\ BusyHasDelivery'
              /\ \A o \in Outcomes \cup {"none"} : GotoWith(i, at, o) =>
                   worker' \in [Invocations -> WorkerTurn] /\ BusyHasDelivery'
<1> USE DEF TypeInv, TypeOK, BusyHasDelivery
<1>1. Idle \in WorkerTurn
  BY BoundsAssumption DEF Idle, WorkerTurn, WorkerSteps, Deliveries
<1>2. EndTurn(i) => worker' \in [Invocations -> WorkerTurn] /\ BusyHasDelivery'
  BY <1>1 DEF EndTurn, Idle
<1>3. ASSUME worker[i].at # "idle", NEW at \in WorkerSteps, Goto(i, at)
      PROVE  worker' \in [Invocations -> WorkerTurn] /\ BusyHasDelivery'
  BY <1>3 DEF Goto, WorkerTurn
<1>4. ASSUME worker[i].at # "idle", NEW at \in WorkerSteps, NEW o \in Outcomes \cup {"none"},
             GotoWith(i, at, o)
      PROVE  worker' \in [Invocations -> WorkerTurn] /\ BusyHasDelivery'
  <2>0. worker' = [worker EXCEPT ![i].at = at, ![i].outcome = o] BY <1>4 DEF GotoWith
  <2>1. worker' \in [Invocations -> WorkerTurn]
    <3>1. worker \in [Invocations -> WorkerTurn] OBVIOUS
    <3> HIDE DEF TypeInv, TypeOK, BusyHasDelivery
    <3>2. [worker EXCEPT ![i].at = at, ![i].outcome = o] \in [Invocations -> WorkerTurn]
      BY <1>4, <3>1, ColumnTypes
    <3> QED BY <2>0, <3>2
  <2>2. \A j \in Invocations : worker'[j].act = worker[j].act BY <1>4 DEF GotoWith, WorkerTurn
  <2>3. \A j \in Invocations : j # i => worker'[j] = worker[j] BY <1>4 DEF GotoWith
  <2> QED BY <1>4, <2>1, <2>2, <2>3
<1> QED BY <1>2, <1>3, <1>4

LEMMA TypeTake == ASSUME TypeInv, NEW i \in Invocations, Take(i) PROVE TypeInv'
<1> USE DEF TypeInv, TypeOK, BusyHasDelivery
<1>1. PICK a \in Acts, k \in Deliveries :
        /\ CanTake(delivery[a][k])
        /\ delivery' = [delivery EXCEPT ![a][k] = Acquire(@, i)]
        /\ worker' = [worker EXCEPT ![i] =
             [at |-> "taken", act |-> a, gen |-> k, outcome |-> "none",
              number |-> delivery[a][k].attempts + 1]]
  BY DEF Take
<1>2. delivery' \in [Acts -> [Deliveries -> DeliveryRow]] BY <1>1, RowTypes
<1>3. delivery[a][k].attempts + 1 \in 0..MaxAttempts
  BY <1>1, BoundsAssumption DEF CanTake, DeliveryRow
<1>4. worker' \in [Invocations -> WorkerTurn]
  BY <1>1, <1>3 DEF WorkerTurn, WorkerSteps
<1>5. BusyHasDelivery' BY <1>1
<1> QED BY <1>2, <1>4, <1>5 DEF Take

LEMMA HandBackType ==
  ASSUME TypeInv, NEW i \in Invocations, worker[i].at # "idle", NEW d \in DeliveryRow,
         HandBack(i, d)
  PROVE  TypeInv'
<1>1. worker[i].act \in Acts /\ worker[i].gen \in Deliveries
  BY DEF TypeInv, TypeOK, BusyHasDelivery, WorkerTurn
<1>2. delivery' \in [Acts -> [Deliveries -> DeliveryRow]]
  BY <1>1 DEF HandBack, TypeInv, TypeOK
<1> QED BY <1>2, TurnTypes DEF HandBack, TypeInv, TypeOK

LEMMA TypeTurn == ASSUME TypeInv, NEW i \in Invocations, Turn(i) PROVE TypeInv'
<1> DEFINE a == worker[i].act
           k == worker[i].gen
<1> USE DEF TypeInv, TypeOK, BusyHasDelivery
<1>0. /\ worker[i].at # "idle" => a \in Acts /\ RunOf[a] \in Runs
      /\ k \in Deliveries /\ worker[i].number \in 0..MaxAttempts
      /\ worker[i].outcome \in Outcomes \cup {"none"}
      /\ WorkerSteps = {"idle", "taken", "admit", "blocked", "working", "finishing",
                        "lost", "retry", "settle", "ack"}
      /\ Outcomes = {"ok", "fail", "cancelled"}
  BY ActsAssumption DEF WorkerTurn, WorkerSteps, Outcomes
<1>1. CASE DeadLetterUnroutable(i)
  BY <1>0, <1>1, TurnTypes, CreateDeadLetterType DEF DeadLetterUnroutable
<1>2. CASE ReadRun(i) BY <1>0, <1>2, TurnTypes DEF ReadRun
<1>3. CASE ClaimClosed(i) BY <1>0, <1>3, TurnTypes DEF ClaimClosed
<1>4. CASE ClaimReceipt(i)
  <2>1. a \in Acts /\ worker[i].at # "idle" BY <1>0, <1>4 DEF ClaimReceipt
  <2>2. claim[a].outcome \in Outcomes \cup {"none"} BY <2>1 DEF ClaimRow
  <2> QED BY <1>0, <1>4, <2>1, <2>2, TurnTypes DEF ClaimReceipt
<1>5. CASE ClaimStale(i) BY <1>0, <1>5, TurnTypes DEF ClaimStale
<1>6. CASE ClaimBlocked(i)
  BY <1>0, <1>6, TurnTypes, PermitTypes DEF ClaimBlocked, MayClaim
<1>7. CASE ClaimGranted(i)
  <2>1. a \in Acts /\ worker[i].at # "idle" BY <1>0, <1>7 DEF ClaimGranted, MayClaim
  <2>2. Running(worker[i].number, i) \in ClaimRow
    BY <1>0, BoundsAssumption DEF Running, ClaimRow
  <2>3. claim' \in [Acts -> ClaimRow] BY <1>7, <2>1, <2>2 DEF ClaimGranted
  <2>4. [owner |-> i, left |-> Lease] \in PermitRow BY BoundsAssumption DEF PermitRow
  <2>5. permit' \in [Acts -> PermitRow]
    BY <1>7, <2>1, <2>4, PermitTypes DEF ClaimGranted
  <2> QED BY <1>0, <1>7, <2>1, <2>3, <2>5, TurnTypes DEF ClaimGranted
<1>8. CASE RenewFails(i) BY <1>0, <1>8, TurnTypes DEF RenewFails
<1>9. CASE MonitorSeesCancel(i) BY <1>0, <1>9, TurnTypes DEF MonitorSeesCancel
<1>10. ASSUME NEW o \in {"ok", "fail"}, HandlerEnds(i, o) PROVE TypeInv'
  BY <1>0, <1>10, TurnTypes DEF HandlerEnds
<1>11. CASE Finish(i)
  <2>1. a \in Acts /\ worker[i].at # "idle" BY <1>0, <1>11 DEF Finish
  <2>2. \A c \in ClaimRow : Receipt(c, worker[i].outcome) \in ClaimRow
    BY <1>0, BoundsAssumption DEF Receipt, ClaimRow
  <2>3. claim' \in [Acts -> ClaimRow] BY <1>11, <2>1, <2>2 DEF Finish
  <2>4. permit' \in [Acts -> PermitRow] BY <1>11, <2>1, PermitTypes DEF Finish
  <2> QED BY <1>0, <1>11, <2>1, <2>3, <2>4, TurnTypes DEF Finish
<1>12. CASE ScopeCloses(i)
  <2>1. a \in Acts /\ worker[i].at # "idle" BY <1>0, <1>12 DEF ScopeCloses
  <2>2. permit' \in [Acts -> PermitRow] BY <1>12, <2>1, PermitTypes DEF ScopeCloses
  <2> QED BY <1>0, <1>12, <2>1, <2>2, TurnTypes DEF ScopeCloses
<1>13. CASE Retry(i)
  <2>1. a \in Acts /\ worker[i].at # "idle" BY <1>0, <1>13 DEF Retry
  <2>2. Pend(Row(i)) \in DeliveryRow BY <1>0, <2>1, RowTypes DEF Row
  <2> QED BY <1>13, <2>1, <2>2, HandBackType DEF Retry
<1>14. CASE Release(i)
  <2>1. a \in Acts /\ worker[i].at # "idle" BY <1>0, <1>14 DEF Release
  <2>2. Unattempt(Row(i)) \in DeliveryRow BY <1>0, <2>1, RowTypes DEF Row
  <2> QED BY <1>14, <2>1, <2>2, HandBackType DEF Release
<1>15. CASE Settle(i)
  <2>1. a \in Acts /\ worker[i].at # "idle" BY <1>0, <1>15 DEF Settle
  <2>2. answer' \in [Acts -> Outcomes \cup {"none"}] BY <1>0, <1>15, <2>1 DEF Settle
  <2> QED BY <1>0, <1>15, <2>1, <2>2, TurnTypes DEF Settle
<1>16. CASE Ack(i)
  <2>1. a \in Acts /\ RunOf[a] \in Runs BY <1>0, <1>16 DEF Ack
  <2>2. CASE ~Holds(i) BY <1>16, <2>2, TurnTypes DEF Ack
  <2>3. CASE Holds(i)
    <3>1. delivery' = [delivery EXCEPT ![a][k] = Close(@, "completed")]
      BY <1>16, <2>3 DEF Ack
    <3>2. delivery' \in [Acts -> [Deliveries -> DeliveryRow]]
      BY <1>0, <2>1, <3>1, RowTypes
    <3>3. dead' \in [Acts -> [Deliveries -> LetterState]]
      <4>1. CASE dead' = dead BY <4>1
      <4>2. CASE k > 0 /\ dead' = [dead EXCEPT ![a][k - 1] = "resolved"]
        <5>1. k - 1 \in Deliveries BY <1>0, <4>2, BoundsAssumption DEF Deliveries
        <5> QED BY <2>1, <4>2, <5>1 DEF LetterState
      <4> QED BY <1>16, <2>3, <4>1, <4>2 DEF Ack
    <3>4. run' \in [Runs -> RunRow]
      <4>1. CASE run' = run BY <4>1
      <4>2. CASE run' = [run EXCEPT ![RunOf[a]].state = "waiting"]
        BY <2>1, <4>2, ColumnTypes
      <4> QED BY <1>16, <2>3, <4>1, <4>2 DEF Ack
    <3> QED BY <1>16, <3>2, <3>3, <3>4, TurnTypes DEF Ack
  <2> QED BY <2>2, <2>3
<1> QED
  BY <1>1, <1>2, <1>3, <1>4, <1>5, <1>6, <1>7, <1>8, <1>9, <1>10, <1>11, <1>12, <1>13,
     <1>14, <1>15, <1>16 DEF Turn, Claiming, Working, Concluding

LEMMA TypeOtherTurn ==
  ASSUME TypeInv, NEW i \in Invocations, Renew(i) \/ Crash(i) \/ Unwind(i)
  PROVE  TypeInv'
<1> DEFINE a == worker[i].act
<1> USE DEF TypeInv, TypeOK, BusyHasDelivery
<1>1. CASE Renew(i)
  <2>1. a \in Acts BY <1>1 DEF Renew
  <2>3. claim' = [claim EXCEPT ![a].left = Lease] BY <1>1 DEF Renew
  <2>4. claim' \in [Acts -> ClaimRow] BY <2>1, <2>3, ColumnTypes
  <2>5. permit' = permit \/ permit' = [permit EXCEPT ![a].left = Lease] BY <1>1 DEF Renew
  <2>6. permit' \in [Acts -> PermitRow]
    <3>1. CASE permit' = permit BY <3>1
    <3>2. CASE permit' = [permit EXCEPT ![a].left = Lease] BY <2>1, <3>2, ColumnTypes
    <3> QED BY <2>5, <3>1, <3>2
  <2> QED BY <1>1, <2>4, <2>6 DEF Renew
<1>2. CASE Crash(i) BY <1>2, TurnTypes DEF Crash
<1>3. CASE Unwind(i)
  <2>1. a \in Acts BY <1>3 DEF Unwind
  <2> QED BY <1>3, <2>1, TurnTypes, PermitTypes DEF Unwind
<1> QED BY <1>1, <1>2, <1>3

LEMMA TypeStep == TypeInv /\ [Next]_vars => TypeInv'
<1> SUFFICES ASSUME TypeInv, [Next]_vars PROVE TypeInv' OBVIOUS
<1>1. CASE UNCHANGED vars BY <1>1 DEF TypeInv, TypeOK, BusyHasDelivery
<1>2. CASE Next
  BY <1>2, TypeInterpreter, TypeLifecycle, TypeLetters, TypeTake, TypeTurn,
     TypeOtherTurn, TypeTick DEF Next
<1> QED BY <1>1, <1>2

\* Every reachable row is one the code can write: in particular no attempt counter
\* passes MaxAttempts, although permit waits count it down and requeues carry it over.
THEOREM TypeCorrect == Spec => []TypeOK
<1>1. TypeInv => TypeOK BY DEF TypeInv
<1> QED BY <1>1, TypeInit, TypeStep, PTL DEF Spec

-----------------------------------------------------------------------------
(* Which actions write what. *)

LEMMA AnswerWriters ==
  ASSUME [Next]_vars
  PROVE  answer' = answer \/ \E i \in Invocations : Settle(i)
  BY DEF Next, Interpreter, Gate, BeginCommand, GateAttempt, Offer, FinishCommand,
     Lifecycle, NewRound, CompleteRun, RequestCancel, CompleteCancelled, EndWorkflow,
     Exhausted, Requeue, Discard, Take, Turn, DeadLetterUnroutable, ReadRun, Claiming,
     ClaimClosed, ClaimReceipt, ClaimStale, ClaimBlocked, ClaimGranted, Working,
     RenewFails, MonitorSeesCancel, HandlerEnds, Concluding, Finish, ScopeCloses, Retry,
     Release, HandBack, Ack, Renew, Crash, Unwind, Tick

LEMMA ClaimWriters ==
  ASSUME [Next]_vars
  PROVE  \/ claim' = claim
         \/ Tick
         \/ \E i \in Invocations : ClaimGranted(i) \/ Finish(i) \/ Renew(i)
  BY DEF Next, Interpreter, Gate, BeginCommand, GateAttempt, Offer, FinishCommand,
     Lifecycle, NewRound, CompleteRun, RequestCancel, CompleteCancelled, EndWorkflow,
     Exhausted, Requeue, Discard, Take, Turn, DeadLetterUnroutable, ReadRun, Claiming,
     ClaimClosed, ClaimReceipt, ClaimStale, ClaimBlocked, Working,
     RenewFails, MonitorSeesCancel, HandlerEnds, Concluding, ScopeCloses, Retry,
     Release, HandBack, Settle, Ack, Crash, Unwind

LEMMA WorkerWriters ==
  ASSUME [Next]_vars, TypeInv, NEW i \in Invocations
  PROVE  worker'[i] = worker[i] \/ Take(i) \/ Turn(i) \/ Crash(i) \/ Unwind(i)
<1> USE DEF TypeInv, TypeOK
<1>1. ASSUME NEW j \in Invocations, j # i, Take(j) \/ Turn(j) \/ Crash(j) \/ Unwind(j)
      PROVE  worker'[i] = worker[i]
  BY <1>1 DEF Take, Turn, DeadLetterUnroutable, ReadRun, Claiming, ClaimClosed,
     ClaimReceipt, ClaimStale, ClaimBlocked, ClaimGranted, Working, RenewFails,
     MonitorSeesCancel, HandlerEnds, Concluding, Finish, ScopeCloses, Retry, Release,
     HandBack, Settle, Ack, Crash, Unwind, Goto, GotoWith, EndTurn
<1>2. \/ worker' = worker
      \/ \E j \in Invocations : Take(j) \/ Turn(j) \/ Crash(j) \/ Unwind(j)
  BY DEF Next, Interpreter, Gate, BeginCommand, GateAttempt, Offer, FinishCommand,
     Lifecycle, NewRound, CompleteRun, RequestCancel, CompleteCancelled, EndWorkflow,
     Exhausted, Requeue, Discard, Renew, Tick
<1> QED BY <1>1, <1>2

\* No step reopens a run.
LEMMA SetRunKeepsClosed ==
  ASSUME run \in [Runs -> RunRow], NEW r \in Runs, NEW q \in Runs, NEW st, NEW w,
         SetRun(q, st, w), Closed(r)
  PROVE  Closed(r)'
  BY DEF SetRun, Closed, Terminal, RunRow

LEMMA CreateKeepsClosed ==
  ASSUME run \in [Runs -> RunRow], NEW r \in Runs, NEW a \in Acts, NEW k \in Deliveries,
         CreateDeadLetter(a, k), Closed(r)
  PROVE  Closed(r)'
<1>1. RunOf[a] \in Runs BY ActsAssumption
<1>2. run' = run \/ SetRun(RunOf[a], "blocked", a) BY DEF CreateDeadLetter
<1>3. CASE run' = run BY <1>3 DEF Closed, Terminal
<1> QED BY <1>1, <1>2, <1>3, SetRunKeepsClosed

LEMMA ClosedStable ==
  ASSUME TypeInv, [Next]_vars, NEW r \in Runs, Closed(r)
  PROVE  Closed(r)'
<1> USE DEF TypeInv, TypeOK
<1>0. CASE run' = run BY <1>0 DEF Closed, Terminal
<1>1. ASSUME NEW a \in Acts, Interpreter(a) PROVE Closed(r)'
  <2>1. RunOf[a] \in Runs BY ActsAssumption
  <2>2. run' = run \/ \E st, w : SetRun(RunOf[a], st, w)
    BY <1>1 DEF Interpreter, Gate, BeginCommand, GateAttempt, Offer, FinishCommand
  <2> QED BY <1>0, <2>1, <2>2, SetRunKeepsClosed
<1>2. ASSUME NEW q \in Runs, Lifecycle(q) PROVE Closed(r)'
  <2>1. CASE RequestCancel(q) BY <2>1 DEF RequestCancel, Closed, Terminal, RunRow
  <2>2. ~RequestCancel(q) => run' = run \/ \E st, w : SetRun(q, st, w)
    BY <1>2 DEF Lifecycle, NewRound, CompleteRun, CompleteCancelled, EndWorkflow
  <2> QED BY <1>0, <2>1, <2>2, SetRunKeepsClosed
<1>3. ASSUME NEW a \in Acts, NEW k \in Deliveries, Exhausted(a, k) PROVE Closed(r)'
  BY <1>3, CreateKeepsClosed DEF Exhausted
<1>4. ASSUME NEW a \in Acts, NEW k \in Deliveries, Discard(a, k) PROVE Closed(r)'
  BY <1>4, ActsAssumption DEF Discard, Closed, Terminal, RunRow, TerminalStates
<1>5. ASSUME NEW i \in Invocations, DeadLetterUnroutable(i) PROVE Closed(r)'
  <2>1. worker[i].act \in Acts /\ worker[i].gen \in Deliveries
    BY <1>5 DEF DeadLetterUnroutable, BusyHasDelivery, WorkerTurn
  <2> QED BY <1>0, <1>5, <2>1, CreateKeepsClosed DEF DeadLetterUnroutable
<1>6. ASSUME NEW i \in Invocations, Ack(i) PROVE Closed(r)'
  <2>1. \/ run' = run
        \/ /\ run[RunOf[worker[i].act]].state = "blocked"
           /\ run' = [run EXCEPT ![RunOf[worker[i].act]].state = "waiting"]
    BY <1>6 DEF Ack
  <2> QED BY <1>0, <2>1 DEF Closed, Terminal, RunRow, TerminalStates
<1>7. ASSUME NEW i \in Invocations, Turn(i), ~DeadLetterUnroutable(i), ~Ack(i)
      PROVE  run' = run
  BY <1>7 DEF Turn, ReadRun, Claiming, ClaimClosed, ClaimReceipt, ClaimStale,
     ClaimBlocked, ClaimGranted, Working, RenewFails, MonitorSeesCancel, HandlerEnds,
     Concluding, Finish, ScopeCloses, Retry, Release, HandBack, Settle
<1>8. \/ \E a \in Acts : Interpreter(a)
      \/ \E q \in Runs : Lifecycle(q)
      \/ \E a \in Acts, k \in Deliveries : Exhausted(a, k) \/ Discard(a, k)
      \/ \E i \in Invocations : Turn(i)
      \/ run' = run
  BY DEF Next, Requeue, Take, Renew, Crash, Unwind, Tick
<1> QED BY <1>0, <1>1, <1>2, <1>3, <1>4, <1>5, <1>6, <1>7, <1>8

-----------------------------------------------------------------------------
(* Receipts and answers. The strengthening says where an answer comes from:  *)
(* from the receipt a turn has read or written, or from a closed run.        *)

\* What a turn is about to commit or to answer.
OutcomeOfTurn ==
  \A i \in Invocations :
    /\ worker[i].at \in {"finishing", "settle"} =>
         /\ worker[i].outcome \in Outcomes
         /\ worker[i].outcome = "cancelled" => Closed(RunOf[worker[i].act])
    /\ worker[i].at = "settle" /\ worker[i].outcome # "cancelled"
         => claim[worker[i].act].outcome = worker[i].outcome
    /\ worker[i].at = "ack" => answer[worker[i].act] # "none"

ReceiptOfClaim ==
  \A a \in Acts :
    /\ claim[a].outcome # "none" <=> claim[a].state = "completed"
    /\ claim[a].outcome = "cancelled" => Closed(RunOf[a])

ReceiptInv == OutcomeOfTurn /\ ReceiptOfClaim /\ AckAfterAnswer /\ AnswerIsReceipt

LEMMA ReceiptInit == Init => ReceiptInv
  BY DEF Init, ReceiptInv, OutcomeOfTurn, ReceiptOfClaim, AckAfterAnswer, AnswerIsReceipt,
     Idle, NoClaim, NoDelivery

\* A receipt is final.
LEMMA ReceiptStable ==
  ASSUME TypeInv, ReceiptOfClaim, [Next]_vars, NEW a \in Acts, claim[a].state = "completed"
  PROVE  claim'[a].state = "completed" /\ claim'[a].outcome = claim[a].outcome
<1> USE DEF TypeInv, TypeOK
<1>1. CASE Tick BY <1>1 DEF Tick, Older, ClaimRow
<1>2. ASSUME NEW i \in Invocations, ClaimGranted(i) PROVE claim'[a] = claim[a]
  BY <1>2 DEF ClaimGranted, MayClaim
<1>3. ASSUME NEW i \in Invocations, Finish(i) PROVE claim'[a] = claim[a]
  BY <1>3 DEF Finish, LiveClaim
<1>4. ASSUME NEW i \in Invocations, Renew(i) PROVE claim'[a] = claim[a]
  BY <1>4 DEF Renew, LiveClaim
<1> QED BY <1>1, <1>2, <1>3, <1>4, ClaimWriters

\* An answer is final.
LEMMA AnswerStable ==
  ASSUME TypeInv, [Next]_vars, NEW a \in Acts, answer[a] # "none"
  PROVE  answer'[a] = answer[a]
  BY AnswerWriters DEF Settle, TypeInv, TypeOK

LEMMA OutcomeOfTurnStep ==
  ASSUME TypeInv, ReceiptInv, [Next]_vars
  PROVE  OutcomeOfTurn'
<1> SUFFICES ASSUME NEW i \in Invocations
             PROVE (/\ worker[i].at \in {"finishing", "settle"} =>
                         /\ worker[i].outcome \in Outcomes
                         /\ worker[i].outcome = "cancelled" => Closed(RunOf[worker[i].act])
                    /\ worker[i].at = "settle" /\ worker[i].outcome # "cancelled"
                         => claim[worker[i].act].outcome = worker[i].outcome
                    /\ worker[i].at = "ack" => answer[worker[i].act] # "none")'
  BY DEF OutcomeOfTurn
<1> DEFINE a == worker[i].act
<1> USE DEF TypeInv, TypeOK, ReceiptInv
<1>0. /\ worker[i].at # "idle" => a \in Acts /\ RunOf[a] \in Runs
      /\ worker[i] \in WorkerTurn
      /\ Outcomes = {"ok", "fail", "cancelled"}
  BY ActsAssumption DEF BusyHasDelivery, Outcomes
<1>1. \A r \in Runs : Closed(r) => Closed(r)' BY ClosedStable
<1>2. worker[i].at # "idle" /\ claim[a].outcome # "none"
        => claim'[a].outcome = claim[a].outcome
  BY <1>0, ReceiptStable DEF ReceiptOfClaim
<1>3. worker[i].at # "idle" /\ answer[a] # "none" => answer'[a] # "none"
  BY <1>0, AnswerStable
<1>4. CASE worker'[i] = worker[i]
  BY <1>0, <1>1, <1>2, <1>3, <1>4 DEF OutcomeOfTurn
<1>5. CASE Take(i) BY <1>5 DEF Take
<1>6. CASE Crash(i) \/ Unwind(i) BY <1>6 DEF Crash, Unwind, EndTurn, Idle
<1>7. CASE Turn(i)
  <2>1. CASE DeadLetterUnroutable(i) \/ Retry(i) \/ Release(i) \/ Ack(i)
    BY <2>1 DEF DeadLetterUnroutable, Retry, Release, Ack, HandBack, EndTurn, Idle
  <2>2. CASE ReadRun(i)
    <3>1. \/ worker'[i].at = "admit"
          \/ /\ worker'[i].at = "settle" /\ worker'[i].act = a
             /\ worker'[i].outcome = "cancelled" /\ Closed(RunOf[a])
      BY <1>0, <2>2 DEF ReadRun, Goto, GotoWith, WorkerTurn
    <3> QED BY <1>0, <1>1, <2>2, <3>1 DEF ReadRun
  <2>3. CASE ClaimClosed(i)
    BY <1>0, <1>1, <2>3 DEF ClaimClosed, GotoWith, WorkerTurn
  <2>4. CASE ClaimReceipt(i)
    BY <1>0, <1>1, <1>2, <2>4 DEF ClaimReceipt, GotoWith, WorkerTurn, ReceiptOfClaim, ClaimRow
  <2>5. CASE ClaimStale(i) \/ ClaimBlocked(i) \/ ClaimGranted(i) \/ RenewFails(i)
             \/ ScopeCloses(i)
    <3>1. worker'[i].at \in {"retry", "blocked", "working", "lost"}
      BY <2>5 DEF ClaimStale, ClaimBlocked, ClaimGranted, RenewFails, ScopeCloses, Goto,
         WorkerTurn
    <3> QED BY <3>1
  <2>6. CASE MonitorSeesCancel(i)
    BY <1>0, <1>1, <2>6 DEF MonitorSeesCancel, GotoWith, WorkerTurn, Closed, Terminal,
       TerminalStates
  <2>7. CASE \E o \in {"ok", "fail"} : HandlerEnds(i, o)
    <3>1. worker'[i].at = "finishing" /\ worker'[i].outcome \in {"ok", "fail"}
      BY <2>7 DEF HandlerEnds, GotoWith, WorkerTurn
    <3> QED BY <1>0, <3>1
  <2>8. CASE Finish(i)
    <3>1. worker'[i].at = "lost" \/ (worker'[i].at = "settle"
             /\ worker'[i].act = a /\ worker'[i].outcome = worker[i].outcome
             /\ claim'[a] = Receipt(claim[a], worker[i].outcome))
      BY <1>0, <2>8 DEF Finish, Goto, WorkerTurn
    <3> QED BY <1>0, <1>1, <2>8, <3>1 DEF Finish, Receipt, OutcomeOfTurn
  <2>9. CASE Settle(i)
    <3>1. worker'[i].at = "ack" /\ worker'[i].act = a /\ answer'[a] # "none"
      BY <1>0, <2>9 DEF Settle, Goto, OutcomeOfTurn, WorkerTurn
    <3> QED BY <3>1
  <2> QED
    BY <1>7, <2>1, <2>2, <2>3, <2>4, <2>5, <2>6, <2>7, <2>8, <2>9 DEF Turn, Claiming,
       Working, Concluding
<1> QED BY <1>4, <1>5, <1>6, <1>7, WorkerWriters

LEMMA ReceiptOfClaimStep ==
  ASSUME TypeInv, ReceiptInv, [Next]_vars
  PROVE  ReceiptOfClaim'
<1> SUFFICES ASSUME NEW a \in Acts
             PROVE (/\ claim[a].outcome # "none" <=> claim[a].state = "completed"
                    /\ claim[a].outcome = "cancelled" => Closed(RunOf[a]))'
  BY DEF ReceiptOfClaim
<1> USE DEF TypeInv, TypeOK, ReceiptInv
<1>0. RunOf[a] \in Runs BY ActsAssumption
<1>1. Closed(RunOf[a]) => Closed(RunOf[a])' BY <1>0, ClosedStable
<1>2. CASE claim'[a] = claim[a] BY <1>1, <1>2 DEF ReceiptOfClaim
<1>3. CASE Tick
  <2>1. claim'[a].outcome = claim[a].outcome /\ claim'[a].state = claim[a].state
    BY <1>3 DEF Tick, Older, ClaimRow
  <2> QED BY <1>1, <2>1 DEF ReceiptOfClaim
<1>4. ASSUME NEW i \in Invocations, ClaimGranted(i), claim'[a] # claim[a]
      PROVE  claim'[a] = Running(worker[i].number, i)
  BY <1>4 DEF ClaimGranted
<1>5. ASSUME NEW i \in Invocations, Renew(i)
      PROVE  claim'[a].outcome = claim[a].outcome /\ claim'[a].state = claim[a].state
  BY <1>5 DEF Renew, ClaimRow
<1>6. ASSUME NEW i \in Invocations, Finish(i), claim'[a] # claim[a]
      PROVE  /\ claim'[a] = Receipt(claim[a], worker[i].outcome) /\ worker[i].act = a
             /\ worker[i].outcome \in Outcomes
             /\ worker[i].outcome = "cancelled" => Closed(RunOf[a])
  BY <1>6 DEF Finish, OutcomeOfTurn
<1>7. ASSUME NEW i \in Invocations, ClaimGranted(i) \/ Finish(i) \/ Renew(i),
             claim'[a] # claim[a]
      PROVE (/\ claim[a].outcome # "none" <=> claim[a].state = "completed"
             /\ claim[a].outcome = "cancelled" => Closed(RunOf[a]))'
  <2>1. CASE ClaimGranted(i)
    <3>1. claim'[a] = Running(worker[i].number, i) BY <1>4, <1>7, <2>1
    <3>2. claim'[a].state = "running" /\ claim'[a].outcome = "none" BY <3>1 DEF Running
    <3> QED BY <3>2
  <2>2. CASE Finish(i)
    <3>1. claim'[a] = Receipt(claim[a], worker[i].outcome) BY <1>6, <1>7, <2>2
    <3>2. claim'[a].state = "completed" /\ claim'[a].outcome = worker[i].outcome
      BY <3>1 DEF Receipt
    <3> QED BY <1>1, <1>6, <1>7, <2>2, <3>2 DEF Outcomes
  <2>3. CASE Renew(i) BY <1>1, <1>5, <2>3 DEF ReceiptOfClaim
  <2> QED BY <1>7, <2>1, <2>2, <2>3
<1> QED BY <1>2, <1>3, <1>7, ClaimWriters

LEMMA CompletedByAck ==
  ASSUME TypeInv, [Next]_vars, NEW b \in Acts, NEW n \in Deliveries,
         delivery'[b][n].state = "completed"
  PROVE  \/ delivery[b][n].state = "completed"
         \/ \E i \in Invocations : worker[i].at = "ack" /\ worker[i].act = b
<1> USE DEF TypeInv, TypeOK
<1> DEFINE Kept == delivery[b][n].state = "completed"
<1>1. ASSUME NEW r \in Runs, FailDeliveries(r) PROVE Kept
  BY <1>1 DEF FailDeliveries, Close
<1>2. ASSUME NEW a \in Acts, NEW k \in Deliveries, CreateDeadLetter(a, k) PROVE Kept
  BY <1>2 DEF CreateDeadLetter, Close
<1>3. ASSUME NEW a \in Acts, Offer(a) PROVE Kept BY <1>3 DEF Offer, Pending
<1>4. ASSUME NEW a \in Acts, NEW k \in Deliveries, Requeue(a, k) PROVE Kept
  BY <1>4 DEF Requeue, Pending
<1>5. ASSUME NEW i \in Invocations, Take(i) PROVE Kept BY <1>5 DEF Take, Acquire
<1>6. ASSUME NEW i \in Invocations, NEW d \in {Pend(Row(i)), Unattempt(Row(i))},
             HandBack(i, d)
      PROVE  Kept
  BY <1>6 DEF HandBack, Pend, Unattempt, Pending
<1>7. ASSUME NEW i \in Invocations, Ack(i), worker[i].act # b PROVE Kept
  BY <1>7 DEF Ack
<1>8. CASE Tick
  <2>1. delivery'[b][n] = Older(delivery[b][n]) /\ delivery[b][n] \in DeliveryRow
    BY <1>8 DEF Tick
  <2> QED BY <2>1 DEF Older, DeliveryRow
<1>9. \/ delivery' = delivery
      \/ Tick
      \/ \E r \in Runs : FailDeliveries(r)
      \/ \E a \in Acts, k \in Deliveries : CreateDeadLetter(a, k) \/ Requeue(a, k)
      \/ \E a \in Acts : Offer(a)
      \/ \E i \in Invocations : Take(i) \/ Ack(i)
      \/ \E i \in Invocations : \E d \in {Pend(Row(i)), Unattempt(Row(i))} : HandBack(i, d)
  <2>1. ASSUME NEW i \in Invocations, DeadLetterUnroutable(i)
        PROVE  delivery' = delivery \/ \E a \in Acts, k \in Deliveries : CreateDeadLetter(a, k)
    BY <2>1 DEF DeadLetterUnroutable, BusyHasDelivery, WorkerTurn
  <2> QED
    BY <2>1, ActsAssumption DEF Next, Interpreter, Gate, BeginCommand, GateAttempt, FinishCommand,
       Lifecycle, NewRound, CompleteRun, RequestCancel, CompleteCancelled, EndWorkflow,
       Exhausted, Discard, Turn, ReadRun, Claiming, ClaimClosed, ClaimReceipt, ClaimStale,
       ClaimBlocked, ClaimGranted, Working, RenewFails, MonitorSeesCancel, HandlerEnds,
       Concluding, Finish, ScopeCloses, Retry, Release, Settle, Renew, Crash, Unwind
<1> QED BY <1>1, <1>2, <1>3, <1>4, <1>5, <1>6, <1>7, <1>8, <1>9 DEF Ack

LEMMA AckAfterAnswerStep ==
  ASSUME TypeInv, ReceiptInv, [Next]_vars
  PROVE  AckAfterAnswer'
<1> SUFFICES ASSUME NEW a \in Acts, NEW k \in Deliveries,
                    delivery'[a][k].state = "completed"
             PROVE  answer'[a] # "none"
  BY DEF AckAfterAnswer
<1>1. answer[a] # "none"
  BY CompletedByAck DEF ReceiptInv, AckAfterAnswer, OutcomeOfTurn
<1> QED BY <1>1, AnswerStable

LEMMA AnswerIsReceiptStep ==
  ASSUME TypeInv, ReceiptInv, [Next]_vars
  PROVE  AnswerIsReceipt'
<1> SUFFICES ASSUME NEW a \in Acts
             PROVE (/\ answer[a] \in {"ok", "fail"} =>
                         claim[a].state = "completed" /\ claim[a].outcome = answer[a]
                    /\ answer[a] = "cancelled" => Closed(RunOf[a]))'
  BY DEF AnswerIsReceipt
<1> USE DEF TypeInv, TypeOK, ReceiptInv
<1>0. RunOf[a] \in Runs BY ActsAssumption
<1>1. Closed(RunOf[a]) => Closed(RunOf[a])' BY <1>0, ClosedStable
<1>2. claim[a].state = "completed"
        => claim'[a].state = "completed" /\ claim'[a].outcome = claim[a].outcome
  BY ReceiptStable
<1>3. \/ answer'[a] = answer[a]
      \/ \E i \in Invocations : /\ worker[i].at = "settle" /\ worker[i].act = a
                                /\ answer'[a] = worker[i].outcome
  BY AnswerWriters DEF Settle
<1>4. CASE answer'[a] = answer[a] BY <1>1, <1>2, <1>4 DEF AnswerIsReceipt
<1>5. ASSUME NEW i \in Invocations, worker[i].at = "settle", worker[i].act = a,
             answer'[a] = worker[i].outcome
      PROVE  /\ answer'[a] = "cancelled" => Closed(RunOf[a])
             /\ answer'[a] \in {"ok", "fail"} =>
                  claim[a].state = "completed" /\ claim[a].outcome = answer'[a]
  BY <1>5 DEF OutcomeOfTurn, ReceiptOfClaim
<1> QED BY <1>1, <1>2, <1>3, <1>4, <1>5

LEMMA ReceiptStep == TypeInv /\ ReceiptInv /\ [Next]_vars => ReceiptInv'
  BY OutcomeOfTurnStep, ReceiptOfClaimStep, AckAfterAnswerStep, AnswerIsReceiptStep
  DEF ReceiptInv

LEMMA Invariants == Spec => [](TypeInv /\ ReceiptInv)
  BY TypeInit, TypeStep, ReceiptInit, ReceiptStep, PTL DEF Spec

\* Whatever workers crash, lose their lease or are overtaken, a delivery is only
\* acknowledged once the engine has its answer.
THEOREM AcknowledgedIsAnswered == Spec => []AckAfterAnswer
<1>1. ReceiptInv => AckAfterAnswer BY DEF ReceiptInv
<1> QED BY <1>1, Invariants, PTL

\* The engine learns what the fenced claim recorded, or 'cancelled' of a closed run.
THEOREM AnswersAreReceipts == Spec => []AnswerIsReceipt
<1>1. ReceiptInv => AnswerIsReceipt BY DEF ReceiptInv
<1> QED BY <1>1, Invariants, PTL

\* What closes a run.
LEMMA ClosedBy ==
  ASSUME TypeInv, [Next]_vars, NEW q \in Runs, ~Closed(q), Closed(q)'
  PROVE  \/ RequestCancel(q) \/ CompleteRun(q)
         \/ \E a \in Acts, k \in Deliveries : RunOf[a] = q /\ Discard(a, k)
<1> USE DEF TypeInv, TypeOK
<1>0. run' # run BY DEF Closed, Terminal
<1>1. ASSUME NEW r \in Runs, NEW st \in {"waiting", "running", "blocked"}, NEW w,
             SetRun(r, st, w)
      PROVE  FALSE
  BY <1>1 DEF SetRun, Closed, Terminal, TerminalStates, RunRow
<1>2. ASSUME NEW a \in Acts, Interpreter(a) PROVE FALSE
  <2>1. RunOf[a] \in Runs BY ActsAssumption
  <2>2. run' = run \/ \E st \in {"waiting", "running", "blocked"} : \E w : SetRun(RunOf[a], st, w)
    BY <1>2 DEF Interpreter, Gate, BeginCommand, GateAttempt, Offer, FinishCommand
  <2> QED BY <1>0, <1>1, <2>1, <2>2
<1>3. ASSUME NEW a \in Acts, NEW k \in Deliveries, CreateDeadLetter(a, k) PROVE FALSE
  <2>1. RunOf[a] \in Runs BY ActsAssumption
  <2>2. run' = run \/ SetRun(RunOf[a], "blocked", a) BY <1>3 DEF CreateDeadLetter
  <2> QED BY <1>0, <1>1, <2>1, <2>2
<1>4. ASSUME NEW r \in Runs, r # q, RequestCancel(r) \/ CompleteRun(r) \/ CompleteCancelled(r)
      PROVE  FALSE
  BY <1>4 DEF RequestCancel, CompleteRun, CompleteCancelled, SetRun, Closed, Terminal
<1>5. ASSUME CompleteCancelled(q) PROVE FALSE
  BY <1>5 DEF CompleteCancelled, Closed
<1>6. ASSUME NEW r \in Runs, NewRound(r) PROVE FALSE
  <2>1. \E st \in {"waiting", "running", "blocked"} : \E w : SetRun(r, st, w)
    BY <1>6 DEF NewRound
  <2> QED BY <1>1, <2>1
<1>7. ASSUME NEW a \in Acts, NEW k \in Deliveries, Discard(a, k), RunOf[a] # q PROVE FALSE
  BY <1>7, ActsAssumption DEF Discard, Closed, Terminal
<1>8. ASSUME NEW i \in Invocations, Ack(i) PROVE FALSE
  <2>1. run' = run \/ run' = [run EXCEPT ![RunOf[worker[i].act]].state = "waiting"]
    BY <1>8 DEF Ack
  <2> QED BY <1>0, <2>1 DEF Closed, Terminal, RunRow, TerminalStates
<1>9. ASSUME NEW i \in Invocations, DeadLetterUnroutable(i) PROVE FALSE
  BY <1>0, <1>3, <1>9 DEF DeadLetterUnroutable, BusyHasDelivery, WorkerTurn
<1>10. ASSUME NEW i \in Invocations, Turn(i), ~DeadLetterUnroutable(i), ~Ack(i)
       PROVE  run' = run
  BY <1>10 DEF Turn, ReadRun, Claiming, ClaimClosed, ClaimReceipt, ClaimStale,
     ClaimBlocked, ClaimGranted, Working, RenewFails, MonitorSeesCancel, HandlerEnds,
     Concluding, Finish, ScopeCloses, Retry, Release, HandBack, Settle
<1>11. \/ \E a \in Acts, k \in Deliveries : CreateDeadLetter(a, k) \/ Discard(a, k)
       \/ \E r \in Runs : RequestCancel(r) \/ CompleteRun(r) \/ CompleteCancelled(r)
                          \/ NewRound(r)
  BY <1>0, <1>2, <1>8, <1>9, <1>10
  DEF Next, Lifecycle, EndWorkflow, Exhausted, Requeue, Take, Renew, Crash, Unwind, Tick
<1> QED BY <1>3, <1>4, <1>5, <1>6, <1>7, <1>11

\* Who writes a receipt.
LEMMA ReceiptBy ==
  ASSUME TypeInv, ReceiptInv, [Next]_vars, NEW a \in Acts,
         claim'[a].outcome # claim[a].outcome
  PROVE  \E i \in Invocations :
           /\ Finish(i) /\ worker[i].act = a /\ worker[i].outcome \in Outcomes
           /\ claim[a].outcome = "none"
           /\ claim' = [claim EXCEPT ![a] = Receipt(@, worker[i].outcome)]
<1> USE DEF TypeInv, TypeOK, ReceiptInv
<1>1. ~Tick
  <2>1. Tick => claim'[a] = Older(claim[a]) /\ claim[a] \in ClaimRow BY DEF Tick
  <2> QED BY <2>1 DEF Older, ClaimRow
<1>2. ASSUME NEW i \in Invocations, ClaimGranted(i) PROVE FALSE
  <2>1. claim'[a] = claim[a] \/ (claim'[a] = Running(worker[i].number, i)
                                  /\ claim[a].state # "completed")
    BY <1>2 DEF ClaimGranted, MayClaim
  <2>2. Running(worker[i].number, i).outcome = "none" BY DEF Running
  <2> QED BY <2>1, <2>2 DEF ReceiptOfClaim
<1>3. ASSUME NEW i \in Invocations, Renew(i) PROVE FALSE BY <1>3 DEF Renew, ClaimRow
<1>4. PICK i \in Invocations : Finish(i) BY <1>1, <1>2, <1>3, ClaimWriters
<1>5. /\ worker[i].act = a /\ LiveClaim(a, i)
      /\ claim' = [claim EXCEPT ![a] = Receipt(@, worker[i].outcome)]
  BY <1>4 DEF Finish
<1>6. worker[i].outcome \in Outcomes BY <1>4 DEF Finish, OutcomeOfTurn
<1>7. claim[a].outcome = "none" BY <1>5 DEF LiveClaim, ReceiptOfClaim
<1> QED BY <1>4, <1>5, <1>6, <1>7

\* The transport implements ActivityReceipt: every step is a commit, an answer, the
\* closing of a run, or a stutter.
THEOREM ImplementsReceipts == Spec => ReceiptSpec
<1> DEFINE receipts == [a \in Acts |-> claim[a].outcome]
           closed == [r \in Runs |-> Closed(r)]
<1>1. Init => Receipts!Init
  <2> SUFFICES ASSUME Init PROVE Receipts!Init OBVIOUS
  <2>1. \A a \in Acts : claim[a].outcome = "none" BY DEF Init, NoClaim
  <2>2. \A r \in Runs : Closed(r) = FALSE
    BY DEF Init, Closed, Terminal, TerminalStates
  <2>3. answer = [a \in Acts |-> "none"] BY DEF Init
  <2> QED BY <2>1, <2>2, <2>3, Zenon DEF Receipts!Init
<1>2. TypeInv /\ ReceiptInv /\ [Next]_vars
        => [Receipts!Next]_<<receipts, answer, closed>>
  <2> SUFFICES ASSUME TypeInv, ReceiptInv, [Next]_vars
               PROVE  [Receipts!Next]_<<receipts, answer, closed>>
    OBVIOUS
  <2> USE DEF TypeInv, TypeOK, ReceiptInv
  <2>1. CASE answer' # answer
    <3>1. PICK i \in Invocations : Settle(i) BY <2>1, AnswerWriters
    <3>2. worker[i].act \in Acts /\ worker[i].outcome \in Outcomes
      BY <3>1 DEF Settle, BusyHasDelivery, OutcomeOfTurn
    <3>3. answer[worker[i].act] = "none" BY <2>1, <3>1, <3>2 DEF Settle
    <3>4. answer' = [answer EXCEPT ![worker[i].act] = worker[i].outcome]
      BY <3>1, <3>3 DEF Settle
    <3>5. receipts' = receipts /\ closed' = closed BY <3>1 DEF Settle, Closed, Terminal
    <3>6. \/ /\ worker[i].outcome = receipts[worker[i].act] /\ worker[i].outcome # "none"
          \/ /\ worker[i].outcome = "cancelled" /\ closed[RunOf[worker[i].act]]
      BY <3>1, <3>2, ActsAssumption DEF Settle, OutcomeOfTurn, Outcomes
    <3>7. Receipts!Answer(worker[i].act, worker[i].outcome)
      BY <3>3, <3>4, <3>5, <3>6 DEF Receipts!Answer
    <3> QED BY <3>2, <3>7 DEF Receipts!Next, Outcomes
  <2>2. CASE answer' = answer /\ receipts' # receipts
    <3>1. PICK a \in Acts : claim'[a].outcome # claim[a].outcome BY <2>2
    <3>2. PICK i \in Invocations :
            /\ Finish(i) /\ worker[i].act = a /\ worker[i].outcome \in Outcomes
            /\ claim[a].outcome = "none"
            /\ claim' = [claim EXCEPT ![a] = Receipt(@, worker[i].outcome)]
      BY <3>1, ReceiptBy
    <3>3. receipts[a] = "none" BY <3>2
    <3>4. receipts' = [receipts EXCEPT ![a] = worker[i].outcome]
      <4>1. Receipt(claim[a], worker[i].outcome).outcome = worker[i].outcome BY DEF Receipt
      <4> QED BY <3>2, <4>1
    <3>5. closed' = closed BY <3>2 DEF Finish, Closed, Terminal
    <3>6. PICK o \in Outcomes : o = worker[i].outcome BY <3>2
    <3>7. o = "cancelled" => closed[RunOf[a]]
      BY <3>2, <3>6, ActsAssumption DEF Finish, OutcomeOfTurn
    <3>8. Receipts!Commit(a, o)
      BY <2>2, <3>3, <3>4, <3>5, <3>6, <3>7 DEF Receipts!Commit, Outcomes
    <3> QED BY <3>1, <3>8 DEF Receipts!Next, Outcomes
  <2>3. CASE answer' = answer /\ receipts' = receipts /\ closed' # closed
    <3>1. PICK q \in Runs : Closed(q)' # Closed(q) BY <2>3
    <3>2. ~Closed(q) /\ Closed(q)' BY <3>1, ClosedStable DEF Closed
    <3>3. \A r \in Runs : r # q => run'[r] = run[r]
      <4>1. CASE RequestCancel(q) BY <4>1 DEF RequestCancel
      <4>2. CASE CompleteRun(q) BY <4>2 DEF CompleteRun, SetRun
      <4>3. ASSUME NEW a \in Acts, NEW k \in Deliveries, RunOf[a] = q, Discard(a, k)
            PROVE  \A r \in Runs : r # q => run'[r] = run[r]
        BY <4>3 DEF Discard
      <4> QED BY <3>2, <4>1, <4>2, <4>3, ClosedBy
    <3>4. \A r \in Runs : r # q => Closed(r)' = Closed(r)
      BY <3>3 DEF Closed, Terminal
    <3>5. closed[q] = FALSE /\ Closed(q)' = TRUE BY <3>2 DEF Closed
    <3>6. closed' = [closed EXCEPT ![q] = TRUE] BY <3>4, <3>5
    <3>7. Receipts!CloseRun(q) BY <2>3, <3>5, <3>6 DEF Receipts!CloseRun
    <3> QED BY <3>7 DEF Receipts!Next
  <2> QED BY <2>1, <2>2, <2>3
<1> QED BY <1>1, <1>2, Invariants, PTL DEF Spec, ReceiptSpec, Receipts!Spec

-----------------------------------------------------------------------------
(* Letters and blocked runs. The rows of an attempt are offered in order and *)
(* only the latest may be under way; an active dead letter is one of the     *)
(* latest row, or of the one before, which is under way.                     *)

Offered(a, k) == delivery[a][k].state # "none"
Latest(a, k) == Offered(a, k) /\ \A j \in Deliveries : j > k => ~Offered(a, j)

RowsInOrder ==
  \A a \in Acts : \A j, k \in Deliveries :
    j < k /\ Offered(a, k) => Offered(a, j) /\ ~Live(delivery[a][j])

LettersMatch ==
  \A a \in Acts, k \in Deliveries :
    /\ dead[a][k] = "open" => Latest(a, k) /\ ~Live(delivery[a][k])
    /\ dead[a][k] = "requeued" =>
         k + 1 \in Deliveries /\ Latest(a, k + 1) /\ Live(delivery[a][k + 1])

CancelledIsClean == \A r \in Runs : run[r].state = "cancelled" => ~HasActive(dead, r)

LetterInv == RowsInOrder /\ LettersMatch /\ CancelledIsClean

LEMMA LetterInit == Init => LetterInv /\ BlockedIffActiveLetter
  BY DEF Init, LetterInv, RowsInOrder, LettersMatch, CancelledIsClean, Offered, HasActive,
     ActsOf, ActiveStates, NoDelivery, BlockedIffActiveLetter

LEMMA LettersFollow == LetterInv => LettersTrackDeliveries
<1> SUFFICES ASSUME LetterInv PROVE LettersTrackDeliveries OBVIOUS
<1>1. ASSUME NEW a \in Acts, NEW k \in Deliveries, dead[a][k] = "open", NEW j \in Deliveries
      PROVE  ~Live(delivery[a][j])
  <2>1. j \in Nat /\ k \in Nat BY BoundsAssumption DEF Deliveries
  <2>2. CASE j < k BY <1>1, <2>1, <2>2 DEF LetterInv, RowsInOrder, LettersMatch, Latest
  <2>3. CASE j > k BY <1>1, <2>3 DEF LetterInv, LettersMatch, Latest, Offered, Live
  <2>4. CASE j = k BY <1>1, <2>4 DEF LetterInv, LettersMatch
  <2> QED BY <2>1, <2>2, <2>3, <2>4
<1>2. ASSUME NEW a \in Acts, NEW k \in Deliveries, Live(delivery[a][k]),
             NEW j \in Deliveries \ {k}
      PROVE  ~Live(delivery[a][j])
  <2>1. j \in Nat /\ k \in Nat BY BoundsAssumption DEF Deliveries
  <2>2. CASE j < k BY <1>2, <2>2 DEF LetterInv, RowsInOrder, Offered, Live
  <2>3. CASE k < j BY <1>2, <2>3 DEF LetterInv, RowsInOrder, Offered, Live
  <2> QED BY <1>2, <2>1, <2>2, <2>3
<1>3. ASSUME NEW a \in Acts, NEW k \in Deliveries, dead[a][k] = "requeued"
      PROVE  k + 1 \in Deliveries /\ Live(delivery[a][k + 1])
  BY <1>3 DEF LetterInv, LettersMatch
<1> QED BY <1>1, <1>2, <1>3 DEF LettersTrackDeliveries, LetterInv, CancelledIsClean

-----------------------------------------------------------------------------
(* The steps, by what they do to rows and letters. Most are quiet: they      *)
(* neither offer a row nor start or end one.                                 *)

Quiet ==
  /\ dead' = dead
  /\ \A a \in Acts, k \in Deliveries :
       Offered(a, k)' = Offered(a, k) /\ Live(delivery[a][k])' = Live(delivery[a][k])

LEMMA QuietSteps ==
  ASSUME TypeInv, NEW i \in Invocations,
         Tick \/ Take(i) \/ Retry(i) \/ Release(i) \/ UNCHANGED <<delivery, dead>>
  PROVE  Quiet
<1> USE DEF TypeInv, TypeOK
<1>1. CASE Tick
  <2>1. dead' = dead BY <1>1 DEF Tick
  <2>2. ASSUME NEW a \in Acts, NEW k \in Deliveries
        PROVE  delivery'[a][k].state = delivery[a][k].state
    <3>1. delivery'[a][k] = Older(delivery[a][k]) /\ delivery[a][k] \in DeliveryRow
      BY <1>1 DEF Tick
    <3> QED BY <3>1 DEF Older, DeliveryRow
  <2> QED BY <2>1, <2>2 DEF Quiet, Offered, Live
<1>2. CASE Take(i)
  <2>1. PICK a \in Acts, k \in Deliveries :
          CanTake(delivery[a][k]) /\ delivery' = [delivery EXCEPT ![a][k] = Acquire(@, i)]
    BY <1>2 DEF Take
  <2>2. delivery[a][k].state \in {"pending", "processing"} BY <2>1 DEF CanTake, Expired
  <2>3. delivery'[a][k].state = "processing" BY <2>1 DEF Acquire
  <2>4. \A b \in Acts, n \in Deliveries : b # a \/ n # k => delivery'[b][n] = delivery[b][n]
    BY <2>1
  <2> QED BY <1>2, <2>2, <2>3, <2>4 DEF Take, Quiet, Offered, Live
<1>3. CASE Retry(i) \/ Release(i)
  <2>1. PICK d \in {Pend(Row(i)), Unattempt(Row(i))} : HandBack(i, d)
    BY <1>3 DEF Retry, Release
  <2>2. d.state = "pending" BY <2>1 DEF Pend, Unattempt, Pending
  <2>3. CASE ~Holds(i) BY <2>1, <2>3 DEF HandBack, Quiet, Offered, Live
  <2>4. CASE Holds(i)
    <3>1. delivery' = [delivery EXCEPT ![worker[i].act][worker[i].gen] = d] /\ dead' = dead
      BY <2>1, <2>4 DEF HandBack
    <3>2. worker[i].act \in Acts /\ worker[i].gen \in Deliveries
      BY <1>3 DEF Retry, Release, BusyHasDelivery, WorkerTurn
    <3>3. delivery[worker[i].act][worker[i].gen].state = "processing"
      BY <2>4 DEF Holds, Row
    <3>4. \A b \in Acts, n \in Deliveries : b # worker[i].act \/ n # worker[i].gen
            => delivery'[b][n] = delivery[b][n]
      BY <3>1
    <3>5. delivery'[worker[i].act][worker[i].gen] = d BY <3>1, <3>2
    <3> QED BY <2>2, <3>1, <3>2, <3>3, <3>4, <3>5 DEF Quiet, Offered, Live
  <2> QED BY <2>3, <2>4
<1>4. CASE UNCHANGED <<delivery, dead>> BY <1>4 DEF Quiet, Offered, Live
<1> QED BY <1>1, <1>2, <1>3, <1>4

LEMMA LetterSteps ==
  ASSUME TypeInv, [Next]_vars
  PROVE  \/ Quiet
         \/ \E a \in Acts : Offer(a)
         \/ \E a \in Acts, k \in Deliveries :
              \/ Requeue(a, k)
              \/ CreateDeadLetter(a, k) /\ Live(delivery[a][k])
         \/ \E r \in Runs : FailDeliveries(r) /\ DiscardLetters(r)
         \/ \E i \in Invocations : Ack(i) /\ Holds(i)
<1>1. ASSUME NEW i \in Invocations, Turn(i), ~DeadLetterUnroutable(i), ~Ack(i)
      PROVE  Quiet
  <2>1. Retry(i) \/ Release(i) \/ UNCHANGED <<delivery, dead>>
    BY <1>1 DEF Turn, ReadRun, Claiming, ClaimClosed, ClaimReceipt, ClaimStale, ClaimBlocked,
       ClaimGranted, Working, RenewFails, MonitorSeesCancel, HandlerEnds, Concluding, Finish,
       ScopeCloses, Settle
  <2> QED BY <2>1, QuietSteps
<1>2. ASSUME NEW i \in Invocations, DeadLetterUnroutable(i)
      PROVE  \/ Quiet
             \/ \E a \in Acts, k \in Deliveries :
                  CreateDeadLetter(a, k) /\ Live(delivery[a][k])
  <2>1. worker[i].act \in Acts /\ worker[i].gen \in Deliveries
    BY <1>2 DEF DeadLetterUnroutable, TypeInv, TypeOK, BusyHasDelivery, WorkerTurn
  <2>2. Holds(i) => Live(delivery[worker[i].act][worker[i].gen]) BY DEF Holds, Row, Live
  <2>3. CASE ~Holds(i) BY <1>2, <2>3, QuietSteps DEF DeadLetterUnroutable
  <2>4. CASE Holds(i) BY <1>2, <2>1, <2>2, <2>4 DEF DeadLetterUnroutable
  <2> QED BY <2>3, <2>4
<1>3. ASSUME NEW i \in Invocations, Ack(i), ~Holds(i) PROVE Quiet
  BY <1>3, QuietSteps DEF Ack
<1>4. ASSUME NEW a \in Acts, NEW k \in Deliveries, Exhausted(a, k)
      PROVE  CreateDeadLetter(a, k) /\ Live(delivery[a][k])
  BY <1>4 DEF Exhausted, Spent, Expired, Live
<1>5. ASSUME UNCHANGED <<delivery, dead>> PROVE Quiet BY <1>5 DEF Quiet, Offered, Live
<1>6. Tick => Quiet
  <2>1. CASE Tick /\ Invocations # {} BY <2>1, QuietSteps
  <2>2. CASE Tick /\ Invocations = {}
    <3>1. ASSUME NEW a \in Acts, NEW k \in Deliveries
          PROVE  delivery'[a][k].state = delivery[a][k].state
      <4>1. delivery'[a][k] = Older(delivery[a][k]) /\ delivery[a][k] \in DeliveryRow
        BY <2>2 DEF Tick, TypeInv, TypeOK
      <4> QED BY <4>1 DEF Older, DeliveryRow
    <3> QED BY <2>2, <3>1 DEF Quiet, Offered, Live, Tick
  <2> QED BY <2>1, <2>2
<1>7. ASSUME NEW a \in Acts, Interpreter(a), ~Offer(a) PROVE Quiet
  BY <1>5, <1>7 DEF Interpreter, Gate, BeginCommand, GateAttempt, FinishCommand
<1>8. ASSUME NEW r \in Runs, Lifecycle(r)
      PROVE  Quiet \/ (FailDeliveries(r) /\ DiscardLetters(r))
  BY <1>5, <1>8 DEF Lifecycle, NewRound, CompleteRun, RequestCancel, CompleteCancelled,
     EndWorkflow
<1>9. ASSUME NEW a \in Acts, NEW k \in Deliveries, Discard(a, k)
      PROVE  \E r \in Runs : FailDeliveries(r) /\ DiscardLetters(r)
  BY <1>9, ActsAssumption DEF Discard
<1>10. ASSUME NEW i \in Invocations, Take(i) \/ Renew(i) \/ Crash(i) \/ Unwind(i) PROVE Quiet
  BY <1>5, <1>10, QuietSteps DEF Renew, Crash, Unwind
<1>11. UNCHANGED vars => Quiet BY <1>5
<1> QED BY <1>1, <1>2, <1>3, <1>4, <1>6, <1>7, <1>8, <1>9, <1>10, <1>11 DEF Next

-----------------------------------------------------------------------------
(* Each kind of step keeps the rows in order and the letters matched.        *)

RowInv == RowsInOrder /\ LettersMatch

LEMMA QuietKeeps == ASSUME TypeInv, RowInv, Quiet PROVE RowInv'
  BY DEF RowInv, RowsInOrder, LettersMatch, Quiet, Latest

LEMMA OfferKeeps == ASSUME TypeInv, RowInv, NEW a \in Acts, Offer(a) PROVE RowInv'
<1> USE DEF TypeInv, TypeOK
<1>0. 0 \in Deliveries /\ Deliveries \subseteq Nat BY BoundsAssumption DEF Deliveries
<1>1. CASE delivery' = delivery
  BY <1>1, QuietKeeps DEF Offer, Quiet, Offered, Live
<1>2. CASE delivery[a][0].state = "none" /\ delivery' = [delivery EXCEPT ![a][0] = Pending(0)]
  <2>1. \A k \in Deliveries : ~Offered(a, k)
    <3>1. ASSUME NEW k \in Deliveries, Offered(a, k) PROVE k > 0
      BY <1>0, <1>2, <3>1 DEF Offered
    <3> QED BY <1>0, <1>2, <3>1 DEF RowInv, RowsInOrder, Offered
  <2>2. \A k \in Deliveries : dead[a][k] \notin {"open", "requeued"}
    BY <2>1 DEF RowInv, LettersMatch, Latest
  <2>3. delivery'[a][0].state = "pending" BY <1>0, <1>2 DEF Pending
  <2>4. \A b \in Acts, k \in Deliveries : b # a \/ k # 0 => delivery'[b][k] = delivery[b][k]
    BY <1>2
  <2>5. dead' = dead BY DEF Offer
  <2>6. RowsInOrder'
    BY <1>0, <2>1, <2>3, <2>4 DEF RowInv, RowsInOrder, Offered, Live
  <2>7. LettersMatch'
    <3> SUFFICES ASSUME NEW b \in Acts, NEW k \in Deliveries
                 PROVE (/\ dead[b][k] = "open" => Latest(b, k) /\ ~Live(delivery[b][k])
                        /\ dead[b][k] = "requeued" =>
                             k + 1 \in Deliveries /\ Latest(b, k + 1) /\ Live(delivery[b][k + 1]))'
      BY DEF LettersMatch
    <3>1. CASE b = a BY <2>2, <2>5, <3>1
    <3>2. CASE b # a
      <4>1. \A n \in Deliveries : delivery'[b][n] = delivery[b][n] BY <2>4, <3>2
      <4> QED BY <2>5, <4>1 DEF RowInv, LettersMatch, Latest, Offered, Live
    <3> QED BY <3>1, <3>2
  <2> QED BY <2>6, <2>7 DEF RowInv
<1> QED BY <1>1, <1>2 DEF Offer

LEMMA RequeueKeeps ==
  ASSUME TypeInv, RowInv, NEW a \in Acts, NEW k \in Deliveries, Requeue(a, k)
  PROVE  RowInv'
<1> USE DEF TypeInv, TypeOK
<1>0. Deliveries \subseteq Nat BY BoundsAssumption DEF Deliveries
<1>1. /\ k + 1 \in Deliveries
      /\ dead[a][k] = "open"
      /\ delivery[a][k + 1].state = "none"
      /\ dead' = [dead EXCEPT ![a][k] = "requeued"]
      /\ delivery' = [delivery EXCEPT ![a][k + 1] = Pending(InitialAttempt(a, k))]
  BY DEF Requeue
<1>2. Latest(a, k) /\ ~Live(delivery[a][k]) BY <1>1 DEF RowInv, LettersMatch
<1>3. delivery'[a][k + 1].state = "pending" BY <1>1 DEF Pending
<1>4. \A b \in Acts, n \in Deliveries : b # a \/ n # k + 1 => delivery'[b][n] = delivery[b][n]
  BY <1>1
<1>5. \A b \in Acts, n \in Deliveries : b # a \/ n # k => dead'[b][n] = dead[b][n]
  BY <1>1
<1>6. RowsInOrder'
  <2> SUFFICES ASSUME NEW b \in Acts, NEW j \in Deliveries, NEW n \in Deliveries,
                      j < n, Offered(b, n)'
               PROVE  Offered(b, j)' /\ ~Live(delivery'[b][j])
    BY DEF RowsInOrder
  <2>1. CASE b # a \/ n # k + 1
    <3>1. Offered(b, n) BY <1>4, <2>1 DEF Offered
    <3>2. Offered(b, j) /\ ~Live(delivery[b][j]) BY <3>1 DEF RowInv, RowsInOrder
    <3>3. b # a \/ j # k + 1
      BY <1>1, <3>2 DEF Offered
    <3> QED BY <1>4, <3>2, <3>3 DEF Offered, Live
  <2>2. CASE b = a /\ n = k + 1
    <3>1. j \in Nat /\ k \in Nat BY <1>0
    <3>2. j < k \/ j = k BY <2>2, <3>1
    <3>3. Offered(a, j) /\ ~Live(delivery[a][j])
      BY <1>2, <3>2 DEF RowInv, RowsInOrder, Latest
    <3>4. j # k + 1 BY <3>1, <3>2
    <3> QED BY <1>4, <2>2, <3>3, <3>4 DEF Offered, Live
  <2> QED BY <2>1, <2>2
<1>7. LettersMatch'
  <2> SUFFICES ASSUME NEW b \in Acts, NEW n \in Deliveries
               PROVE (/\ dead[b][n] = "open" => Latest(b, n) /\ ~Live(delivery[b][n])
                      /\ dead[b][n] = "requeued" =>
                           n + 1 \in Deliveries /\ Latest(b, n + 1) /\ Live(delivery[b][n + 1]))'
    BY DEF LettersMatch
  <2>1. CASE b # a
    <3>1. \A j \in Deliveries : delivery'[b][j] = delivery[b][j] BY <1>4, <2>1
    <3>2. dead'[b][n] = dead[b][n] BY <1>5, <2>1
    <3> QED BY <3>1, <3>2 DEF RowInv, LettersMatch, Latest, Offered, Live
  <2>2. CASE b = a /\ n = k
    <3>1. \A j \in Deliveries : j > k + 1 => ~Offered(a, j)'
      <4> SUFFICES ASSUME NEW j \in Deliveries, j > k + 1 PROVE ~Offered(a, j)' OBVIOUS
      <4>1. j > k /\ j # k + 1 BY <1>0
      <4> QED BY <1>2, <1>4, <4>1 DEF Latest, Offered
    <3>2. dead'[a][k] = "requeued" BY <1>1
    <3> QED BY <1>1, <1>3, <2>2, <3>1, <3>2 DEF Latest, Offered, Live
  <2>3. CASE b = a /\ n # k
    <3>1. dead'[a][n] = dead[a][n] BY <1>5, <2>3
    <3>2. dead[a][n] # "open"
      <4> SUFFICES ASSUME dead[a][n] = "open" PROVE FALSE OBVIOUS
      <4>1. Latest(a, n) BY DEF RowInv, LettersMatch
      <4> QED BY <1>0, <1>2, <2>3, <4>1 DEF Latest
    <3>3. dead[a][n] # "requeued"
      <4> SUFFICES ASSUME dead[a][n] = "requeued" PROVE FALSE OBVIOUS
      <4>1. n + 1 \in Deliveries /\ Latest(a, n + 1) /\ Live(delivery[a][n + 1])
        BY DEF RowInv, LettersMatch
      <4>2. n + 1 # k BY <1>2, <4>1
      <4> QED BY <1>0, <1>2, <2>3, <4>1, <4>2 DEF Latest
    <3> QED BY <2>3, <3>1, <3>2, <3>3
  <2> QED BY <2>1, <2>2, <2>3
<1> QED BY <1>6, <1>7 DEF RowInv

\* A row that ends, and what becomes of the letter it was requeued for.
LEMMA CreateKeeps ==
  ASSUME TypeInv, RowInv, NEW a \in Acts, NEW k \in Deliveries, CreateDeadLetter(a, k),
         Live(delivery[a][k])
  PROVE  RowInv'
<1> USE DEF TypeInv, TypeOK
<1>0. Deliveries \subseteq Nat BY BoundsAssumption DEF Deliveries
<1>1. delivery' = [delivery EXCEPT ![a][k] = Close(@, "failed")] BY DEF CreateDeadLetter
<1>2. delivery'[a][k].state = "failed" BY <1>1 DEF Close
<1>3. \A b \in Acts, n \in Deliveries : b # a \/ n # k => delivery'[b][n] = delivery[b][n]
  BY <1>1
<1>4. \A b \in Acts, n \in Deliveries : Offered(b, n)' = Offered(b, n)
  BY <1>2, <1>3 DEF Offered, Live
<1>5. \A b \in Acts, n \in Deliveries : Live(delivery'[b][n]) => Live(delivery[b][n])
  BY <1>2, <1>3 DEF Live
<1>6. RowsInOrder' BY <1>4, <1>5 DEF RowInv, RowsInOrder
<1>7. Latest(a, k)
  <2>1. ASSUME NEW j \in Deliveries, j > k PROVE ~Offered(a, j)
    BY <1>0, <2>1 DEF RowInv, RowsInOrder
  <2> QED BY <2>1 DEF Latest, Offered, Live
<1>8. /\ \A b \in Acts, n \in Deliveries : b # a => dead'[b][n] = dead[b][n]
      /\ dead'[a][k] \in {"open", "discarded"}
      /\ \A n \in Deliveries : n # k =>
           dead'[a][n] = IF n + 1 = k /\ dead[a][n] = "requeued" THEN "resolved" ELSE dead[a][n]
  BY DEF CreateDeadLetter
<1>9. LettersMatch'
  <2> SUFFICES ASSUME NEW b \in Acts, NEW n \in Deliveries
               PROVE (/\ dead[b][n] = "open" => Latest(b, n) /\ ~Live(delivery[b][n])
                      /\ dead[b][n] = "requeued" =>
                           n + 1 \in Deliveries /\ Latest(b, n + 1) /\ Live(delivery[b][n + 1]))'
    BY DEF LettersMatch
  <2>0. \A c \in Acts, j \in Deliveries : Latest(c, j) => Latest(c, j)' BY <1>4 DEF Latest
  <2>1. CASE b # a
    <3>1. \A j \in Deliveries : delivery'[b][j] = delivery[b][j] BY <1>3, <2>1
    <3>2. dead'[b][n] = dead[b][n] BY <1>8, <2>1
    <3> QED BY <2>0, <3>1, <3>2 DEF RowInv, LettersMatch, Live
  <2>2. CASE b = a /\ n = k
    <3>1. ~Live(delivery'[a][k]) BY <1>2 DEF Live
    <3> QED BY <1>7, <1>8, <2>0, <2>2, <3>1
  <2>3. CASE b = a /\ n # k
    <3>1. dead[a][n] # "open"
      <4> SUFFICES ASSUME dead[a][n] = "open" PROVE FALSE OBVIOUS
      <4>1. Latest(a, n) BY DEF RowInv, LettersMatch
      <4> QED BY <1>0, <1>7, <2>3, <4>1 DEF Latest
    <3>2. dead[a][n] = "requeued" => n + 1 = k
      <4> SUFFICES ASSUME dead[a][n] = "requeued" PROVE n + 1 = k OBVIOUS
      <4>1. n + 1 \in Deliveries /\ Latest(a, n + 1) BY DEF RowInv, LettersMatch
      <4> QED BY <1>0, <1>7, <4>1 DEF Latest
    <3>3. dead'[a][n] \notin {"open", "requeued"} BY <1>8, <2>3, <3>1, <3>2
    <3> QED BY <2>3, <3>3
  <2> QED BY <2>1, <2>2, <2>3
<1> QED BY <1>6, <1>9 DEF RowInv

LEMMA AckKeeps ==
  ASSUME TypeInv, RowInv, NEW i \in Invocations, Ack(i), Holds(i)
  PROVE  RowInv'
<1> DEFINE a == worker[i].act
           k == worker[i].gen
<1> USE DEF TypeInv, TypeOK
<1>0. Deliveries \subseteq Nat /\ a \in Acts /\ k \in Deliveries
  BY BoundsAssumption DEF Deliveries, Ack, BusyHasDelivery, WorkerTurn
<1>01. \A n \in Deliveries : n + 1 = k => k > 0 /\ n = k - 1
  <2>1. \A n \in Nat, j \in Nat : n + 1 = j => j > 0 /\ n = j - 1 OBVIOUS
  <2>2. k \in Nat BY <1>0
  <2> HIDE DEF k
  <2> QED BY <1>0, <2>1, <2>2
<1>1. delivery' = [delivery EXCEPT ![a][k] = Close(@, "completed")] BY DEF Ack
<1>2. delivery'[a][k].state = "completed" BY <1>0, <1>1 DEF Close
<1>3. \A b \in Acts, n \in Deliveries : b # a \/ n # k => delivery'[b][n] = delivery[b][n]
  BY <1>1
<1>4. Live(delivery[a][k]) BY DEF Holds, Row, Live
<1>5. \A b \in Acts, n \in Deliveries : Offered(b, n)' = Offered(b, n)
  BY <1>2, <1>3, <1>4 DEF Offered, Live
<1>6. \A b \in Acts, n \in Deliveries : Live(delivery'[b][n]) => Live(delivery[b][n])
  BY <1>2, <1>3 DEF Live
<1>7. RowsInOrder' BY <1>5, <1>6 DEF RowInv, RowsInOrder
<1>8. Latest(a, k)
  <2>1. ASSUME NEW j \in Deliveries, j > k PROVE ~Offered(a, j)
    BY <1>0, <1>4, <2>1 DEF RowInv, RowsInOrder
  <2> QED BY <1>4, <2>1 DEF Latest, Offered, Live
<1>9. /\ \A b \in Acts, n \in Deliveries :
           dead'[b][n] \in {"open", "requeued"} => dead'[b][n] = dead[b][n]
      /\ \A n \in Deliveries : n + 1 = k /\ dead[a][n] = "requeued" => dead'[a][n] = "resolved"
  <2>1. CASE k > 0 /\ dead[a][k - 1] = "requeued"
    <3>1. dead' = [dead EXCEPT ![a][k - 1] = "resolved"] BY <2>1 DEF Ack
    <3>2. k - 1 \in Deliveries BY <1>0, <2>1, BoundsAssumption DEF Deliveries
    <3>3. dead'[a][k - 1] = "resolved" BY <1>0, <3>1, <3>2
    <3>4. \A b \in Acts, n \in Deliveries : b # a \/ n # k - 1 => dead'[b][n] = dead[b][n]
      BY <3>1
    <3>5. ASSUME NEW n \in Deliveries, n + 1 = k PROVE n = k - 1
      BY <1>01, <3>5
    <3> QED BY <3>3, <3>4, <3>5
  <2>2. CASE ~(k > 0 /\ dead[a][k - 1] = "requeued")
    <3>1. dead' = dead BY <2>2 DEF Ack
    <3>2. ASSUME NEW n \in Deliveries, n + 1 = k PROVE k > 0 /\ n = k - 1
      BY <1>01, <3>2
    <3> QED BY <2>2, <3>1, <3>2
  <2> QED BY <2>1, <2>2
<1>10. LettersMatch'
  <2> SUFFICES ASSUME NEW b \in Acts, NEW n \in Deliveries
               PROVE (/\ dead[b][n] = "open" => Latest(b, n) /\ ~Live(delivery[b][n])
                      /\ dead[b][n] = "requeued" =>
                           n + 1 \in Deliveries /\ Latest(b, n + 1) /\ Live(delivery[b][n + 1]))'
    BY DEF LettersMatch
  <2>0. \A c \in Acts, j \in Deliveries : Latest(c, j) => Latest(c, j)' BY <1>5 DEF Latest
  <2>1. dead'[b][n] = "open" => Latest(b, n) /\ ~Live(delivery[b][n])
    BY <1>9 DEF RowInv, LettersMatch
  <2>2. ASSUME dead'[b][n] = "requeued"
        PROVE  n + 1 \in Deliveries /\ Latest(b, n + 1) /\ Live(delivery'[b][n + 1])
    <3>1. dead[b][n] = "requeued" BY <1>9, <2>2
    <3>2. n + 1 \in Deliveries /\ Latest(b, n + 1) /\ Live(delivery[b][n + 1])
      BY <3>1 DEF RowInv, LettersMatch
    <3>3. b # a \/ n + 1 # k BY <1>9, <2>2, <3>1
    <3> QED BY <1>3, <3>2, <3>3 DEF Live
  <2> QED BY <1>6, <2>0, <2>1, <2>2
<1> QED BY <1>7, <1>10 DEF RowInv

\* A run that is cancelled or discarded.
LEMMA SweepKeeps ==
  ASSUME TypeInv, RowInv, NEW r \in Runs, FailDeliveries(r), DiscardLetters(r)
  PROVE  RowInv'
<1> USE DEF TypeInv, TypeOK
<1>1. \A b \in Acts, n \in Deliveries :
        delivery'[b][n].state = IF RunOf[b] = r /\ Live(delivery[b][n]) THEN "failed"
                                ELSE delivery[b][n].state
  BY DEF FailDeliveries, Close
<1>2. \A b \in Acts, n \in Deliveries :
        dead'[b][n] = IF RunOf[b] = r /\ dead[b][n] \in ActiveStates THEN "discarded"
                      ELSE dead[b][n]
  BY DEF DiscardLetters
<1>3. \A b \in Acts, n \in Deliveries : Offered(b, n)' = Offered(b, n)
  BY <1>1 DEF Offered, Live
<1>4. \A b \in Acts, n \in Deliveries : Live(delivery'[b][n]) => Live(delivery[b][n])
  BY <1>1 DEF Live
<1>5. \A b \in Acts, n \in Deliveries :
        RunOf[b] # r => Live(delivery'[b][n]) = Live(delivery[b][n])
  BY <1>1 DEF Live
<1>6. RowsInOrder' BY <1>3, <1>4 DEF RowInv, RowsInOrder
<1>7. LettersMatch'
  <2> SUFFICES ASSUME NEW b \in Acts, NEW n \in Deliveries
               PROVE (/\ dead[b][n] = "open" => Latest(b, n) /\ ~Live(delivery[b][n])
                      /\ dead[b][n] = "requeued" =>
                           n + 1 \in Deliveries /\ Latest(b, n + 1) /\ Live(delivery[b][n + 1]))'
    BY DEF LettersMatch
  <2>0. \A c \in Acts, j \in Deliveries : Latest(c, j) => Latest(c, j)' BY <1>3 DEF Latest
  <2>1. CASE RunOf[b] = r
    <3>1. dead'[b][n] \notin {"open", "requeued"} BY <1>2, <2>1 DEF ActiveStates
    <3> QED BY <3>1
  <2>2. CASE RunOf[b] # r
    <3>1. dead'[b][n] = dead[b][n] BY <1>2, <2>2
    <3> QED BY <1>5, <2>0, <2>2, <3>1 DEF RowInv, LettersMatch
  <2> QED BY <2>1, <2>2
<1> QED BY <1>6, <1>7 DEF RowInv

LEMMA RowStep == ASSUME TypeInv, RowInv, [Next]_vars PROVE RowInv'
  BY LetterSteps, QuietKeeps, OfferKeeps, RequeueKeeps, CreateKeeps, AckKeeps, SweepKeeps

-----------------------------------------------------------------------------
(* Runs and their letters.                                                   *)

\* Discarding the letters of one run leaves those of the others active.
LEMMA SweepElsewhere ==
  ASSUME TypeInv, NEW r \in Runs, NEW q \in Runs, q # r, DiscardLetters(q)
  PROVE  HasActive(dead', r) = HasActive(dead, r)
<1>1. \A b \in ActsOf(r), n \in Deliveries : dead'[b][n] = dead[b][n]
  BY DEF DiscardLetters, ActsOf, TypeInv, TypeOK
<1> QED BY <1>1 DEF HasActive

\* Whose letters a step makes active or inactive.
LEMMA ActiveSteps ==
  ASSUME TypeInv, [Next]_vars, NEW r \in Runs
  PROVE  \/ HasActive(dead', r) = HasActive(dead, r)
         \/ \E a \in Acts, k \in Deliveries : RunOf[a] = r /\ CreateDeadLetter(a, k)
         \/ DiscardLetters(r)
         \/ \E i \in Invocations : RunOf[worker[i].act] = r /\ Ack(i)
<1> USE DEF TypeInv, TypeOK
<1>0. CASE dead' = dead BY <1>0 DEF HasActive
<1>1. ASSUME \A a \in ActsOf(r), k \in Deliveries :
               dead'[a][k] \in ActiveStates <=> dead[a][k] \in ActiveStates
      PROVE  HasActive(dead', r) = HasActive(dead, r)
  BY <1>1 DEF HasActive
<1>2. ASSUME NEW a \in Acts, NEW k \in Deliveries, Requeue(a, k)
      PROVE  HasActive(dead', r) = HasActive(dead, r)
  <2>1. dead[a][k] = "open" /\ dead' = [dead EXCEPT ![a][k] = "requeued"]
    BY <1>2 DEF Requeue
  <2>2. \A b \in Acts, n \in Deliveries :
          dead'[b][n] \in ActiveStates <=> dead[b][n] \in ActiveStates
    BY <2>1 DEF ActiveStates
  <2> QED BY <1>1, <2>2 DEF ActsOf
<1>3. ASSUME NEW a \in Acts, NEW k \in Deliveries, CreateDeadLetter(a, k), RunOf[a] # r
      PROVE  HasActive(dead', r) = HasActive(dead, r)
  <2>1. \A b \in ActsOf(r) : dead'[b] = dead[b] BY <1>3 DEF CreateDeadLetter, ActsOf
  <2> QED BY <1>1, <2>1
<1>4. ASSUME NEW q \in Runs, DiscardLetters(q), q # r
      PROVE  HasActive(dead', r) = HasActive(dead, r)
  BY <1>4, SweepElsewhere
<1>5. ASSUME NEW i \in Invocations, Ack(i), RunOf[worker[i].act] # r
      PROVE  HasActive(dead', r) = HasActive(dead, r)
  <2>1. \A b \in ActsOf(r) : dead'[b] = dead[b] BY <1>5 DEF Ack, ActsOf
  <2> QED BY <1>1, <2>1
<1>6. ASSUME NEW a \in Acts, Offer(a) PROVE dead' = dead BY <1>6 DEF Offer
<1>7. Quiet => dead' = dead BY DEF Quiet
<1> QED BY <1>0, <1>2, <1>3, <1>4, <1>5, <1>6, <1>7, LetterSteps

\* Terminal states are final.
LEMMA CancelledBy ==
  ASSUME TypeInv, [Next]_vars, NEW r \in Runs, run'[r].state = "cancelled"
  PROVE  run[r].state = "cancelled" \/ CompleteCancelled(r)
<1> USE DEF TypeInv, TypeOK
<1>1. ASSUME NEW q \in Runs, NEW st \in {"waiting", "running", "blocked", "completed", "failed"},
             NEW w, SetRun(q, st, w)
      PROVE  run[r].state = "cancelled"
  BY <1>1 DEF SetRun, RunRow
<1>2. CASE run' = run BY <1>2
<1>3. ASSUME NEW a \in Acts, Interpreter(a) PROVE run[r].state = "cancelled"
  <2>1. RunOf[a] \in Runs BY ActsAssumption
  <2>2. run' = run \/ \E st \in {"waiting", "running", "blocked"} : \E w : SetRun(RunOf[a], st, w)
    BY <1>3 DEF Interpreter, Gate, BeginCommand, GateAttempt, Offer, FinishCommand
  <2> QED BY <1>1, <1>2, <2>1, <2>2
<1>4. ASSUME NEW q \in Runs, Lifecycle(q)
      PROVE  run[r].state = "cancelled" \/ CompleteCancelled(r)
  <2>1. CASE NewRound(q)
    <3>1. \E st \in {"running", "blocked"} : SetRun(q, st, NoAct) BY <2>1 DEF NewRound
    <3> QED BY <1>1, <3>1
  <2>2. CASE CompleteRun(q)
    <3>1. ended[q] \in {"completed", "failed"} /\ SetRun(q, ended[q], NoAct)
      BY <2>2 DEF CompleteRun
    <3> QED BY <1>1, <3>1
  <2>3. CASE RequestCancel(q) BY <2>3 DEF RequestCancel, RunRow
  <2>4. CASE CompleteCancelled(q) BY <2>4 DEF CompleteCancelled, SetRun, RunRow
  <2>5. CASE \E result \in {"completed", "failed"} : EndWorkflow(q, result)
    BY <1>2, <2>5 DEF EndWorkflow
  <2> QED BY <1>4, <2>1, <2>2, <2>3, <2>4, <2>5 DEF Lifecycle
<1>5. ASSUME NEW a \in Acts, NEW k \in Deliveries, CreateDeadLetter(a, k)
      PROVE  run[r].state = "cancelled"
  <2>1. RunOf[a] \in Runs /\ (run' = run \/ SetRun(RunOf[a], "blocked", a))
    BY <1>5, ActsAssumption DEF CreateDeadLetter
  <2> QED BY <1>1, <1>2, <2>1
<1>6. ASSUME NEW a \in Acts, NEW k \in Deliveries, Discard(a, k)
      PROVE  run[r].state = "cancelled"
  BY <1>6, ActsAssumption DEF Discard
<1>7. ASSUME NEW i \in Invocations, Ack(i) PROVE run[r].state = "cancelled"
  <2>1. run' = run \/ run' = [run EXCEPT ![RunOf[worker[i].act]].state = "waiting"]
    BY <1>7 DEF Ack
  <2> QED BY <2>1 DEF RunRow
<1>8. ASSUME NEW i \in Invocations, Turn(i) PROVE run[r].state = "cancelled"
  <2>1. CASE DeadLetterUnroutable(i)
    BY <1>2, <1>5, <2>1 DEF DeadLetterUnroutable, BusyHasDelivery, WorkerTurn
  <2>2. CASE ~DeadLetterUnroutable(i) /\ ~Ack(i)
    <3>1. run' = run
      BY <1>8, <2>2 DEF Turn, ReadRun, Claiming, ClaimClosed, ClaimReceipt, ClaimStale,
         ClaimBlocked, ClaimGranted, Working, RenewFails, MonitorSeesCancel, HandlerEnds,
         Concluding, Finish, ScopeCloses, Retry, Release, HandBack, Settle
    <3> QED BY <1>2, <3>1
  <2> QED BY <1>7, <2>1, <2>2
<1>9. \/ run' = run
      \/ \E a \in Acts : Interpreter(a)
      \/ \E q \in Runs : Lifecycle(q)
      \/ \E a \in Acts, k \in Deliveries : CreateDeadLetter(a, k) \/ Discard(a, k)
      \/ \E i \in Invocations : Turn(i)
  BY DEF Next, Exhausted, Requeue, Take, Renew, Crash, Unwind, Tick
<1> QED BY <1>2, <1>3, <1>4, <1>5, <1>6, <1>8, <1>9

LEMMA CleanStep ==
  ASSUME TypeInv, LetterInv, [Next]_vars
  PROVE  CancelledIsClean'
<1> SUFFICES ASSUME NEW r \in Runs, run'[r].state = "cancelled" PROVE ~HasActive(dead', r)
  BY DEF CancelledIsClean
<1> USE DEF TypeInv, TypeOK
<1>1. DiscardLetters(r) => ~HasActive(dead', r)
  BY DEF DiscardLetters, HasActive, ActsOf, ActiveStates
<1>2. CASE CompleteCancelled(r) BY <1>1, <1>2 DEF CompleteCancelled
<1>3. CASE run[r].state = "cancelled"
  <2>1. ~HasActive(dead, r) BY <1>3 DEF LetterInv, CancelledIsClean
  <2>2. ASSUME NEW a \in Acts, NEW k \in Deliveries, RunOf[a] = r, CreateDeadLetter(a, k)
        PROVE  ~HasActive(dead', r)
    <3>1. Closed(r) BY <1>3 DEF Closed, Terminal, TerminalStates
    <3>2. \A b \in Acts, n \in Deliveries :
            dead'[b][n] \in {dead[b][n], "discarded", "resolved"}
      BY <2>2, <3>1 DEF CreateDeadLetter
    <3> QED BY <2>1, <3>2 DEF HasActive, ActsOf, ActiveStates
  <2>3. ASSUME NEW i \in Invocations, Ack(i) PROVE ~HasActive(dead', r)
    <3>1. \A b \in Acts, n \in Deliveries : dead'[b][n] \in {dead[b][n], "resolved"}
      <4>1. CASE dead' = dead BY <4>1
      <4>2. CASE \E c \in Acts, j \in Deliveries : dead' = [dead EXCEPT ![c][j] = "resolved"]
        BY <4>2
      <4>3. worker[i].act \in Acts /\ worker[i].gen \in Deliveries
        BY <2>3 DEF Ack, BusyHasDelivery, WorkerTurn
      <4>4. worker[i].gen > 0 => worker[i].gen - 1 \in Deliveries
        BY <4>3, BoundsAssumption DEF Deliveries
      <4> QED BY <2>3, <4>1, <4>2, <4>3, <4>4 DEF Ack
    <3> QED BY <2>1, <3>1 DEF HasActive, ActsOf, ActiveStates
  <2> QED BY <1>1, <2>1, <2>2, <2>3, ActiveSteps
<1> QED BY <1>2, <1>3, CancelledBy

LEMMA LetterStep == TypeInv /\ LetterInv /\ [Next]_vars => LetterInv'
<1> SUFFICES ASSUME TypeInv, LetterInv, [Next]_vars PROVE LetterInv' OBVIOUS
<1>1. RowInv BY DEF LetterInv, RowInv
<1>2. RowInv' BY <1>1, RowStep
<1> QED BY <1>2, CleanStep DEF LetterInv, RowInv

LEMMA LettersAlways == Spec => [](TypeInv /\ LetterInv)
<1>1. Init => LetterInv BY LetterInit
<1> QED BY <1>1, TypeInit, TypeStep, LetterStep, PTL DEF Spec

\* However often letters are requeued, discarded or run out again, work is neither
\* dropped nor under way twice, and a cancelled run keeps no letter.
THEOREM LettersTrack == Spec => []LettersTrackDeliveries
  BY LettersAlways, LettersFollow, PTL

-----------------------------------------------------------------------------
(* The status of an open run. BlockedIffActiveLetter is inductive by itself. *)

LEMMA SetRunState ==
  ASSUME TypeInv, NEW r \in Runs, NEW q \in Runs, NEW st, NEW w, SetRun(q, st, w), ~Closed(r)
  PROVE  run'[r].state = IF q = r THEN st ELSE run[r].state
  BY DEF SetRun, Closed, Terminal, TypeInv, TypeOK, RunRow

\* A dead letter that is created for an open run blocks it.
LEMMA CreateBlocks ==
  ASSUME TypeInv, BlockedIffActiveLetter, NEW a \in Acts, NEW k \in Deliveries,
         CreateDeadLetter(a, k), NEW r \in Runs, ~Closed(r)
  PROVE  run'[r].state = "blocked" <=> HasActive(dead', r)
<1> USE DEF TypeInv, TypeOK
<1>0. RunOf[a] \in Runs BY ActsAssumption
<1>1. CASE RunOf[a] = r
  <2>1. run'[r].state = "blocked" BY <1>0, <1>1, SetRunState DEF CreateDeadLetter
  <2>2. dead'[a][k] = "open" BY <1>1 DEF CreateDeadLetter
  <2> QED BY <1>1, <2>1, <2>2 DEF HasActive, ActsOf, ActiveStates
<1>2. CASE RunOf[a] # r
  <2>1. run'[r].state = run[r].state BY <1>0, <1>2, SetRunState DEF CreateDeadLetter
  <2>2. \A b \in ActsOf(r) : dead'[b] = dead[b] BY <1>2 DEF CreateDeadLetter, ActsOf
  <2>3. HasActive(dead', r) = HasActive(dead, r) BY <2>2 DEF HasActive
  <2> QED BY <2>1, <2>3 DEF BlockedIffActiveLetter
<1> QED BY <1>1, <1>2

\* An acknowledgement that resolves the last active letter unblocks the run.
LEMMA AckUnblocks ==
  ASSUME TypeInv, BlockedIffActiveLetter, NEW i \in Invocations, Ack(i),
         NEW r \in Runs, ~Closed(r)
  PROVE  run'[r].state = "blocked" <=> HasActive(dead', r)
<1> DEFINE a == worker[i].act
           k == worker[i].gen
<1> USE DEF TypeInv, TypeOK
<1>0. a \in Acts /\ RunOf[a] \in Runs /\ k \in Deliveries
  BY ActsAssumption DEF Ack, BusyHasDelivery, WorkerTurn
<1>1. CASE dead' = dead
  <2>1. HasActive(dead', r) = HasActive(dead, r) BY <1>1
  <2>2. CASE run' = run BY <2>1, <2>2 DEF BlockedIffActiveLetter
  <2>3. CASE /\ ~HasActive(dead', RunOf[a]) /\ run[RunOf[a]].state = "blocked"
             /\ run' = [run EXCEPT ![RunOf[a]].state = "waiting"]
    <3>1. RunOf[a] # r BY <2>1, <2>3 DEF BlockedIffActiveLetter
    <3>2. run'[r] = run[r] BY <2>3, <3>1
    <3> QED BY <2>1, <3>2 DEF BlockedIffActiveLetter
  <2> QED BY <2>2, <2>3 DEF Ack
<1>2. CASE k > 0 /\ dead[a][k - 1] = "requeued" /\ Holds(i)
  <2>1. k - 1 \in Deliveries BY <1>0, <1>2, BoundsAssumption DEF Deliveries
  <2>2. HasActive(dead, RunOf[a]) BY <1>0, <1>2, <2>1 DEF HasActive, ActsOf, ActiveStates
  <2>3. dead' = [dead EXCEPT ![a][k - 1] = "resolved"] BY <1>2 DEF Ack
  <2>4. run' = IF ~HasActive(dead', RunOf[a]) /\ run[RunOf[a]].state = "blocked"
               THEN [run EXCEPT ![RunOf[a]].state = "waiting"] ELSE run
    BY <1>2 DEF Ack
  <2>5. CASE RunOf[a] = r
    <3>1. run[r].state = "blocked" BY <2>2, <2>5 DEF BlockedIffActiveLetter
    <3>2. run'[r].state = IF HasActive(dead', r) THEN "blocked" ELSE "waiting"
      BY <2>4, <2>5, <3>1 DEF RunRow
    <3> QED BY <3>2
  <2>6. CASE RunOf[a] # r
    <3>1. run'[r] = run[r] BY <2>4, <2>6
    <3>2. \A b \in ActsOf(r) : dead'[b] = dead[b] BY <2>3, <2>6 DEF ActsOf
    <3>3. HasActive(dead', r) = HasActive(dead, r) BY <3>2 DEF HasActive
    <3> QED BY <3>1, <3>3 DEF BlockedIffActiveLetter
  <2> QED BY <2>5, <2>6
<1> QED BY <1>1, <1>2 DEF Ack

LEMMA BlockedStep == TypeInv /\ BlockedIffActiveLetter /\ [Next]_vars => BlockedIffActiveLetter'
<1> SUFFICES ASSUME TypeInv, BlockedIffActiveLetter, [Next]_vars, NEW r \in Runs, ~Closed(r)'
             PROVE  run'[r].state = "blocked" <=> HasActive(dead', r)
  BY DEF BlockedIffActiveLetter
<1> USE DEF TypeInv, TypeOK
<1>1. ~Closed(r) BY ClosedStable
<1>2. run[r].state = "blocked" <=> HasActive(dead, r) BY <1>1 DEF BlockedIffActiveLetter
<1>3. ASSUME run'[r].state = run[r].state, HasActive(dead', r) = HasActive(dead, r)
      PROVE  run'[r].state = "blocked" <=> HasActive(dead', r)
  BY <1>2, <1>3
<1>4. ASSUME NEW a \in Acts, Interpreter(a)
      PROVE  run'[r].state = "blocked" <=> HasActive(dead', r)
  <2>1. RunOf[a] \in Runs BY ActsAssumption
  <2>2. dead' = dead
    BY <1>4 DEF Interpreter, Gate, BeginCommand, GateAttempt, Offer, FinishCommand
  <2>3. CASE run' = run BY <1>3, <2>2, <2>3
  <2>4. CASE \E st \in {"waiting", "running"} : \E w :
               SetRun(RunOf[a], IF HasActive(dead, RunOf[a]) THEN "blocked" ELSE st, w)
    <3>1. PICK st \in {"waiting", "running"} : \E w :
            SetRun(RunOf[a], IF HasActive(dead, RunOf[a]) THEN "blocked" ELSE st, w)
      BY <2>4
    <3>2. run'[r].state = IF RunOf[a] = r
                          THEN IF HasActive(dead, RunOf[a]) THEN "blocked" ELSE st
                          ELSE run[r].state
      BY <1>1, <2>1, <3>1, SetRunState
    <3> QED BY <1>2, <2>2, <3>2
  <2> QED BY <1>4, <2>3, <2>4
      DEF Interpreter, Gate, BeginCommand, GateAttempt, Offer, FinishCommand
<1>5. ASSUME NEW q \in Runs, Lifecycle(q)
      PROVE  run'[r].state = "blocked" <=> HasActive(dead', r)
  <2>1. CASE NewRound(q)
    <3>1. dead' = dead BY <2>1 DEF NewRound
    <3>2. run'[r].state = IF q = r THEN IF HasActive(dead, q) THEN "blocked" ELSE "running"
                          ELSE run[r].state
      BY <1>1, <2>1, SetRunState DEF NewRound
    <3> QED BY <1>2, <3>1, <3>2
  <2>2. CASE CompleteRun(q)
    <3>1. dead' = dead /\ ended[q] \in {"completed", "failed"} BY <2>2 DEF CompleteRun
    <3>2. run'[r].state = IF q = r THEN ended[q] ELSE run[r].state
      BY <1>1, <2>2, SetRunState DEF CompleteRun
    <3>3. q # r BY <3>1, <3>2 DEF Closed, Terminal, TerminalStates
    <3> QED BY <1>3, <3>1, <3>2, <3>3
  <2>3. CASE RequestCancel(q)
    <3>1. dead' = dead /\ run'[r].state = run[r].state BY <2>3 DEF RequestCancel, RunRow
    <3> QED BY <1>3, <3>1
  <2>4. CASE CompleteCancelled(q)
    <3>1. q # r BY <1>1, <2>4 DEF CompleteCancelled, Closed
    <3>2. run'[r].state = run[r].state BY <1>1, <2>4, <3>1, SetRunState DEF CompleteCancelled
    <3> QED BY <1>3, <2>4, <3>1, <3>2, SweepElsewhere DEF CompleteCancelled
  <2>5. CASE \E result \in {"completed", "failed"} : EndWorkflow(q, result)
    BY <1>3, <2>5 DEF EndWorkflow
  <2> QED BY <1>5, <2>1, <2>2, <2>3, <2>4, <2>5 DEF Lifecycle
<1>6. ASSUME NEW a \in Acts, NEW k \in Deliveries, CreateDeadLetter(a, k)
      PROVE  run'[r].state = "blocked" <=> HasActive(dead', r)
  BY <1>1, <1>6, CreateBlocks
<1>7. ASSUME NEW a \in Acts, NEW k \in Deliveries, Requeue(a, k)
      PROVE  run'[r].state = "blocked" <=> HasActive(dead', r)
  <2>1. dead[a][k] = "open" /\ dead' = [dead EXCEPT ![a][k] = "requeued"] /\ run' = run
    BY <1>7 DEF Requeue
  <2>2. \A b \in Acts, n \in Deliveries :
          dead'[b][n] \in ActiveStates <=> dead[b][n] \in ActiveStates
    BY <2>1 DEF ActiveStates
  <2>3. HasActive(dead', r) = HasActive(dead, r) BY <2>2 DEF HasActive, ActsOf
  <2> QED BY <1>3, <2>1, <2>3
<1>8. ASSUME NEW a \in Acts, NEW k \in Deliveries, Discard(a, k)
      PROVE  run'[r].state = "blocked" <=> HasActive(dead', r)
  <2>1. RunOf[a] \in Runs BY ActsAssumption
  <2>2. RunOf[a] # r BY <1>1, <1>8 DEF Discard, Closed, Terminal, TerminalStates
  <2>3. run'[r].state = run[r].state BY <1>8, <2>2 DEF Discard
  <2> QED BY <1>3, <1>8, <2>1, <2>2, <2>3, SweepElsewhere DEF Discard
<1>9. ASSUME NEW i \in Invocations, Turn(i)
      PROVE  run'[r].state = "blocked" <=> HasActive(dead', r)
  <2>1. CASE Ack(i) BY <1>1, <2>1, AckUnblocks
  <2>2. CASE DeadLetterUnroutable(i)
    <3>1. worker[i].act \in Acts /\ worker[i].gen \in Deliveries
      BY <2>2 DEF DeadLetterUnroutable, BusyHasDelivery, WorkerTurn
    <3> QED BY <1>3, <1>6, <2>2, <3>1 DEF DeadLetterUnroutable
  <2>3. CASE ~Ack(i) /\ ~DeadLetterUnroutable(i)
    <3>1. dead' = dead /\ run' = run
      BY <1>9, <2>3 DEF Turn, ReadRun, Claiming, ClaimClosed, ClaimReceipt, ClaimStale,
         ClaimBlocked, ClaimGranted, Working, RenewFails, MonitorSeesCancel, HandlerEnds,
         Concluding, Finish, ScopeCloses, Retry, Release, HandBack, Settle
    <3> QED BY <1>3, <3>1
  <2> QED BY <2>1, <2>2, <2>3
<1>10. \/ UNCHANGED <<run, dead>>
       \/ \E a \in Acts : Interpreter(a)
       \/ \E q \in Runs : Lifecycle(q)
       \/ \E a \in Acts, k \in Deliveries :
            CreateDeadLetter(a, k) \/ Requeue(a, k) \/ Discard(a, k)
       \/ \E i \in Invocations : Turn(i)
  BY DEF Next, Exhausted, Take, Renew, Crash, Unwind, Tick
<1> QED BY <1>3, <1>4, <1>5, <1>6, <1>7, <1>8, <1>9, <1>10

\* An open run is reported as blocked exactly while one of its letters is open or
\* requeued, however rounds, commands, requeues and acknowledgements interleave.
THEOREM BlockedTellsTheTruth == Spec => []BlockedIffActiveLetter
  BY LetterInit, TypeInit, TypeStep, BlockedStep, PTL DEF Spec

-----------------------------------------------------------------------------
(* The numbers. The number of a claim, or of a delivery at hand, never       *)
(* passes the attempts of the attempt's latest row, and stays below them     *)
(* while another turn holds that row.                                        *)

NumberBelow(a, n, i) ==
  \A k \in Deliveries : Latest(a, k) =>
    /\ n <= delivery[a][k].attempts
    /\ delivery[a][k].state = "processing" /\ delivery[a][k].by # i
         => n < delivery[a][k].attempts

ClaimsBelow ==
  \A a \in Acts : claim[a].state = "running" =>
    Offered(a, 0) /\ NumberBelow(a, claim[a].number, claim[a].owner)

TurnsBelow ==
  \A i \in Invocations : worker[i].at # "idle" =>
    /\ Offered(worker[i].act, worker[i].gen)
    /\ NumberBelow(worker[i].act, worker[i].number, i)
    /\ Holds(i) => worker[i].number = Row(i).attempts

\* A turn that has not claimed yet owns no claim, and its token is on one row only.
UnclaimedOwnsNothing ==
  \A i \in Invocations : worker[i].at \in {"taken", "admit", "blocked"} =>
    \A a \in Acts : claim[a].owner # i
TokenOnOwnRow ==
  \A i \in Invocations : worker[i].at # "idle" =>
    \A a \in Acts, k \in Deliveries :
      delivery[a][k].by = i => a = worker[i].act /\ k = worker[i].gen

NumberInv == ClaimsBelow /\ TurnsBelow /\ UnclaimedOwnsNothing /\ TokenOnOwnRow

LEMMA NumberInit == Init => NumberInv
  BY DEF Init, NumberInv, ClaimsBelow, TurnsBelow, UnclaimedOwnsNothing, TokenOnOwnRow,
     NoClaim, Idle

LEMMA NeverStaleFollows ==
  ASSUME TypeInv, RowInv, NumberInv
  PROVE  HolderNeverStale
<1> SUFFICES ASSUME NEW i \in Invocations, worker[i].at = "admit", Holds(i),
                    Fenced(worker[i].act, worker[i].number, i)
             PROVE  FALSE
  BY DEF HolderNeverStale
<1> DEFINE a == worker[i].act
           k == worker[i].gen
<1>1. a \in Acts /\ k \in Deliveries BY DEF TypeInv, TypeOK, BusyHasDelivery, WorkerTurn
<1>2. Latest(a, k) BY <1>1 DEF RowInv, RowsInOrder, Holds, Row, Latest, Offered, Live
<1>3. claim[a].state = "running" /\ claim[a].number >= worker[i].number /\ claim[a].owner # i
  BY DEF Fenced
<1>4. claim[a].number < delivery[a][k].attempts
  BY <1>1, <1>2, <1>3 DEF NumberInv, ClaimsBelow, NumberBelow, Holds, Row
<1>5. worker[i].number = delivery[a][k].attempts
  BY DEF NumberInv, TurnsBelow, Row
<1>6. claim[a].number \in Nat /\ worker[i].number \in Nat
  BY <1>1, BoundsAssumption DEF TypeInv, TypeOK, ClaimRow, WorkerTurn
<1> QED BY <1>3, <1>4, <1>5, <1>6

\* What a step does to one row.
RowUntouched(a, k) ==
  /\ delivery'[a][k].state = delivery[a][k].state
  /\ delivery'[a][k].attempts = delivery[a][k].attempts
  /\ delivery'[a][k].by = delivery[a][k].by
RowReturned(a, k) ==
  /\ Live(delivery[a][k]) /\ delivery'[a][k].state \in {"pending", "completed", "failed"}
  /\ delivery'[a][k].attempts = delivery[a][k].attempts
  /\ delivery'[a][k].by = Nobody
RowTaken(a, k, i) ==
  /\ Take(i) /\ Live(delivery[a][k]) /\ delivery'[a][k].state = "processing"
  /\ delivery'[a][k].attempts = delivery[a][k].attempts + 1
  /\ delivery'[a][k].by = i
  /\ worker'[i] = [at |-> "taken", act |-> a, gen |-> k, outcome |-> "none",
                   number |-> delivery[a][k].attempts + 1]
RowReleased(a, k, i) ==
  /\ Release(i) /\ delivery[a][k].state = "processing" /\ delivery[a][k].by = i
  /\ delivery'[a][k] = Unattempt(delivery[a][k])
RowOffered(a, k) ==
  /\ delivery[a][k].state = "none" /\ delivery'[a][k].state = "pending"
  /\ delivery'[a][k].by = Nobody
  /\ \/ k = 0 /\ Offer(a)
     \/ \E j \in Deliveries : k = j + 1 /\ Requeue(a, j)
RowChange(a, k) ==
  \/ RowUntouched(a, k) \/ RowReturned(a, k) \/ RowOffered(a, k)
  \/ \E i \in Invocations : RowTaken(a, k, i) \/ RowReleased(a, k, i)

LEMMA RowChanges ==
  ASSUME TypeInv, [Next]_vars, NEW a \in Acts, NEW k \in Deliveries
  PROVE  RowChange(a, k)
<1> USE DEF TypeInv, TypeOK
<1>0. delivery'[a][k] = delivery[a][k] => RowUntouched(a, k) BY DEF RowUntouched
<1>1. ASSUME NEW s \in {"completed", "failed"}, Live(delivery[a][k]),
             delivery'[a][k] = Close(delivery[a][k], s)
      PROVE  RowReturned(a, k)
  BY <1>1 DEF RowReturned, Close
<1>2. ASSUME NEW b \in Acts, NEW n \in Deliveries, CreateDeadLetter(b, n),
             Live(delivery[b][n])
      PROVE  RowChange(a, k)
  <2>1. delivery' = [delivery EXCEPT ![b][n] = Close(@, "failed")] BY <1>2 DEF CreateDeadLetter
  <2>2. CASE a = b /\ k = n BY <1>1, <1>2, <2>1, <2>2 DEF RowChange
  <2>3. CASE ~(a = b /\ k = n) BY <1>0, <2>1, <2>3 DEF RowChange
  <2> QED BY <2>2, <2>3
<1>3. ASSUME NEW r \in Runs, FailDeliveries(r) PROVE RowChange(a, k)
  <2>1. delivery'[a][k] = IF RunOf[a] = r /\ Live(delivery[a][k])
                          THEN Close(delivery[a][k], "failed") ELSE delivery[a][k]
    BY <1>3 DEF FailDeliveries
  <2> QED BY <1>0, <1>1, <2>1 DEF RowChange
<1>4. ASSUME NEW i \in Invocations, worker[i].at # "idle"
      PROVE  /\ worker[i].act \in Acts /\ worker[i].gen \in Deliveries
             /\ Holds(i) => Live(delivery[worker[i].act][worker[i].gen])
  BY <1>4 DEF BusyHasDelivery, WorkerTurn, Holds, Row, Live
<1>5. ASSUME NEW i \in Invocations, Ack(i) PROVE RowChange(a, k)
  <2>1. CASE ~Holds(i) BY <1>0, <1>5, <2>1 DEF Ack, RowChange
  <2>2. CASE Holds(i)
    <3>1. delivery' = [delivery EXCEPT ![worker[i].act][worker[i].gen] = Close(@, "completed")]
      BY <1>5, <2>2 DEF Ack
    <3>2. worker[i].at # "idle" BY <1>5 DEF Ack
    <3>3. CASE a = worker[i].act /\ k = worker[i].gen
      BY <1>1, <1>4, <2>2, <3>1, <3>2, <3>3 DEF RowChange
    <3>4. CASE ~(a = worker[i].act /\ k = worker[i].gen) BY <1>0, <3>1, <3>4 DEF RowChange
    <3> QED BY <3>3, <3>4
  <2> QED BY <2>1, <2>2
<1>6. ASSUME NEW i \in Invocations, worker[i].at # "idle", NEW d, HandBack(i, d),
             d = Pend(Row(i)) \/ (Release(i) /\ d = Unattempt(Row(i)))
      PROVE  RowChange(a, k)
  <2>1. CASE ~Holds(i) BY <1>0, <1>6, <2>1 DEF HandBack, RowChange
  <2>2. CASE Holds(i)
    <3>1. delivery' = [delivery EXCEPT ![worker[i].act][worker[i].gen] = d]
      BY <1>6, <2>2 DEF HandBack
    <3>2. CASE a = worker[i].act /\ k = worker[i].gen
      <4>1. delivery'[a][k] = d /\ Row(i) = delivery[a][k] /\ Live(delivery[a][k])
        BY <1>4, <1>6, <2>2, <3>1, <3>2 DEF Row
      <4>2. CASE d = Pend(Row(i)) BY <4>1, <4>2 DEF RowChange, RowReturned, Pend, Pending
      <4>3. CASE Release(i) /\ d = Unattempt(Row(i))
        BY <2>2, <4>1, <4>3 DEF RowChange, RowReleased, Holds
      <4> QED BY <1>6, <4>2, <4>3
    <3>3. CASE ~(a = worker[i].act /\ k = worker[i].gen) BY <1>0, <3>1, <3>3 DEF RowChange
    <3> QED BY <3>2, <3>3
  <2> QED BY <2>1, <2>2
<1>61. ASSUME NEW i \in Invocations, Retry(i) PROVE RowChange(a, k)
  BY <1>6, <1>61 DEF Retry
<1>62. ASSUME NEW i \in Invocations, Release(i) PROVE RowChange(a, k)
  <2>1. worker[i].at # "idle" /\ HandBack(i, Unattempt(Row(i))) BY <1>62 DEF Release
  <2> QED BY <1>6, <1>62, <2>1
<1>7. ASSUME NEW i \in Invocations, Take(i) PROVE RowChange(a, k)
  <2>1. PICK b \in Acts, n \in Deliveries :
          /\ CanTake(delivery[b][n])
          /\ delivery' = [delivery EXCEPT ![b][n] = Acquire(@, i)]
          /\ worker' = [worker EXCEPT ![i] =
               [at |-> "taken", act |-> b, gen |-> n, outcome |-> "none",
                number |-> delivery[b][n].attempts + 1]]
    BY <1>7 DEF Take
  <2>2. CASE a = b /\ k = n
    <3>1. delivery'[a][k] = Acquire(delivery[a][k], i) /\ Live(delivery[a][k])
      BY <2>1, <2>2 DEF CanTake, Expired, Live
    <3>2. worker'[i] = [at |-> "taken", act |-> a, gen |-> k, outcome |-> "none",
                        number |-> delivery[a][k].attempts + 1]
      BY <2>1, <2>2
    <3> QED BY <1>7, <3>1, <3>2 DEF Acquire, RowChange, RowTaken
  <2>3. CASE ~(a = b /\ k = n) BY <1>0, <2>1, <2>3 DEF RowChange
  <2> QED BY <2>2, <2>3
<1>8. ASSUME NEW b \in Acts, Offer(b) PROVE RowChange(a, k)
  <2>1. delivery' = delivery \/ (/\ delivery[b][0].state = "none"
                                 /\ delivery' = [delivery EXCEPT ![b][0] = Pending(0)])
    BY <1>8 DEF Offer
  <2>2. CASE a = b /\ k = 0
    BY <1>0, <1>8, <2>1, <2>2 DEF RowChange, RowOffered, Pending
  <2>3. CASE ~(a = b /\ k = 0) BY <1>0, <2>1, <2>3 DEF RowChange
  <2> QED BY <2>2, <2>3
<1>9. ASSUME NEW b \in Acts, NEW n \in Deliveries, Requeue(b, n) PROVE RowChange(a, k)
  <2>1. /\ delivery[b][n + 1].state = "none" /\ n + 1 \in Deliveries
        /\ delivery' = [delivery EXCEPT ![b][n + 1] = Pending(InitialAttempt(b, n))]
    BY <1>9 DEF Requeue
  <2>2. CASE a = b /\ k = n + 1
    <3>1. delivery'[a][k] = Pending(InitialAttempt(b, n)) BY <2>1, <2>2
    <3> QED BY <1>9, <2>1, <2>2, <3>1 DEF RowChange, RowOffered, Pending
  <2>3. CASE ~(a = b /\ k = n + 1) BY <1>0, <2>1, <2>3 DEF RowChange
  <2> QED BY <2>2, <2>3
<1>10. CASE Tick
  <2>1. delivery'[a][k] = Older(delivery[a][k]) /\ delivery[a][k] \in DeliveryRow
    BY <1>10 DEF Tick
  <2> QED BY <2>1 DEF Older, DeliveryRow, RowChange, RowUntouched
<1>11. ASSUME NEW i \in Invocations, DeadLetterUnroutable(i) PROVE RowChange(a, k)
  BY <1>0, <1>2, <1>4, <1>11 DEF DeadLetterUnroutable, RowChange
<1>12. \/ delivery' = delivery
       \/ \E b \in Acts : Offer(b)
       \/ \E r \in Runs : FailDeliveries(r)
       \/ \E b \in Acts, n \in Deliveries :
            \/ CreateDeadLetter(b, n) /\ Live(delivery[b][n])
            \/ Requeue(b, n)
       \/ \E i \in Invocations : \/ DeadLetterUnroutable(i) \/ Take(i) \/ Retry(i)
                                 \/ Release(i) \/ Ack(i)
       \/ Tick
  <2>1. \A b \in Acts, n \in Deliveries : Exhausted(b, n) =>
          CreateDeadLetter(b, n) /\ Live(delivery[b][n])
    BY DEF Exhausted, Spent, Expired, Live
  <2>2. \A b \in Acts, n \in Deliveries : Discard(b, n) => \E r \in Runs : FailDeliveries(r)
    BY ActsAssumption DEF Discard
  <2> QED BY <2>1, <2>2 DEF Next, Interpreter, Gate, BeginCommand, GateAttempt, FinishCommand,
     Lifecycle, NewRound, CompleteRun, RequestCancel, CompleteCancelled, EndWorkflow,
     Turn, ReadRun, Claiming, ClaimClosed, ClaimReceipt, ClaimStale, ClaimBlocked,
     ClaimGranted, Working, RenewFails, MonitorSeesCancel, HandlerEnds, Concluding, Finish,
     ScopeCloses, Settle, Renew, Crash, Unwind
<1> QED BY <1>0, <1>2, <1>3, <1>5, <1>61, <1>62, <1>7, <1>8, <1>9, <1>10, <1>11, <1>12
    DEF RowChange

\* A row is offered once, and the rows of an attempt from the first one on.
LEMMA OfferedStays ==
  ASSUME TypeInv, [Next]_vars, NEW a \in Acts, NEW k \in Deliveries, Offered(a, k)
  PROVE  Offered(a, k)'
<1>1. RowChange(a, k) BY RowChanges
<1> QED BY <1>1 DEF RowChange, RowUntouched, RowReturned, RowTaken, RowReleased, RowOffered,
     Offered, Unattempt, Pending

\* The bound of a number survives every step but the release by the turn it belongs to.
LEMMA BelowStays ==
  ASSUME TypeInv, RowInv, [Next]_vars, NEW a \in Acts, NEW n \in Nat, NEW i,
         Offered(a, 0), NumberBelow(a, n, i), i \in Invocations => ~Release(i)
  PROVE  NumberBelow(a, n, i)'
<1> SUFFICES ASSUME NEW k \in Deliveries, Latest(a, k)'
             PROVE  /\ n <= delivery'[a][k].attempts
                    /\ delivery'[a][k].state = "processing" /\ delivery'[a][k].by # i
                         => n < delivery'[a][k].attempts
  BY DEF NumberBelow
<1>0. /\ Deliveries \subseteq Nat /\ 0 \in Deliveries
      /\ \A j \in Deliveries : delivery[a][j].attempts \in Nat
  BY BoundsAssumption DEF Deliveries, TypeInv, TypeOK, DeliveryRow
<1>1. RowChange(a, k) BY RowChanges
<1>2. \A j \in Deliveries : j > k => ~Offered(a, j)
  BY OfferedStays DEF Latest
<1>3. ASSUME Offered(a, k)
      PROVE  /\ n <= delivery[a][k].attempts
             /\ delivery[a][k].state = "processing" /\ delivery[a][k].by # i
                  => n < delivery[a][k].attempts
  BY <1>2, <1>3 DEF NumberBelow, Latest
<1>4. CASE RowUntouched(a, k)
  <2>1. Offered(a, k) BY <1>4 DEF RowUntouched, Latest, Offered
  <2> QED BY <1>3, <1>4, <2>1 DEF RowUntouched
<1>5. CASE RowReturned(a, k)
  <2>1. Offered(a, k) BY <1>5 DEF RowReturned, Live, Offered
  <2> QED BY <1>3, <1>5, <2>1 DEF RowReturned
<1>6. ASSUME NEW j \in Invocations, RowTaken(a, k, j)
      PROVE  n <= delivery'[a][k].attempts /\ n < delivery'[a][k].attempts
  <2>1. Offered(a, k) BY <1>6 DEF RowTaken, Live, Offered
  <2> QED BY <1>0, <1>3, <1>6, <2>1 DEF RowTaken
<1>7. ASSUME NEW j \in Invocations, RowReleased(a, k, j)
      PROVE  n <= delivery'[a][k].attempts /\ delivery'[a][k].state = "pending"
  <2>1. Offered(a, k) BY <1>7 DEF RowReleased, Offered
  <2>2. delivery[a][k].by # i BY <1>7 DEF RowReleased
  <2>3. n < delivery[a][k].attempts BY <1>3, <1>7, <2>1, <2>2 DEF RowReleased
  <2>4. /\ delivery'[a][k].attempts = delivery[a][k].attempts - 1
        /\ delivery'[a][k].state = "pending"
    BY <1>0, <1>7, <2>3 DEF RowReleased, Unattempt, Pending
  <2> QED BY <1>0, <2>3, <2>4
<1>8. CASE RowOffered(a, k)
  <2>1. PICK j \in Deliveries : k = j + 1 /\ Requeue(a, j)
    BY <1>8 DEF RowOffered, Offered
  <2>2. Latest(a, j) BY <2>1 DEF Requeue, RowInv, LettersMatch
  <2>3. delivery'[a][k] = Pending(delivery[a][j].attempts)
    BY <2>1 DEF Requeue, InitialAttempt, TypeInv, TypeOK
  <2>4. n <= delivery[a][j].attempts BY <2>2 DEF NumberBelow
  <2> QED BY <2>3, <2>4 DEF Pending
<1> QED BY <1>1, <1>4, <1>5, <1>6, <1>7, <1>8 DEF RowChange

\* A busy turn keeps its delivery and its number; it is only new when it took one.
LEMMA TurnKeeps ==
  ASSUME TypeInv, [Next]_vars, NEW i \in Invocations, worker'[i].at # "idle"
  PROVE  \/ Take(i)
         \/ /\ worker[i].at # "idle" /\ ~Release(i)
            /\ worker'[i].act = worker[i].act /\ worker'[i].gen = worker[i].gen
            /\ worker'[i].number = worker[i].number
            /\ worker'[i].at \in {"taken", "admit", "blocked"} =>
                 worker[i].at \in {"taken", "admit", "blocked"} /\ ~ClaimGranted(i)
<1> USE DEF TypeInv, TypeOK, WorkerTurn
<1>1. ~Release(i) BY DEF Release, HandBack, EndTurn, Idle
<1>2. ClaimGranted(i) => worker'[i].at = "working" BY DEF ClaimGranted, Goto
<1>3. CASE worker'[i] = worker[i] BY <1>1, <1>2, <1>3
<1>4. CASE Turn(i)
  <2>1. ASSUME NEW at, Goto(i, at) \/ \E o : GotoWith(i, at, o)
        PROVE  /\ worker'[i].act = worker[i].act /\ worker'[i].gen = worker[i].gen
               /\ worker'[i].number = worker[i].number /\ worker'[i].at = at
    BY <2>1 DEF Goto, GotoWith
  <2>2. CASE EndTurn(i) BY <2>2 DEF EndTurn, Idle
  <2>3. CASE ReadRun(i)
    <3>1. Goto(i, "admit") \/ GotoWith(i, "settle", "cancelled") BY <2>3 DEF ReadRun
    <3> QED BY <1>1, <1>2, <2>1, <2>3, <3>1 DEF ReadRun
  <2>4. CASE Claiming(i)
    <3>1. worker[i].at = "admit"
      BY <2>4 DEF Claiming, ClaimClosed, ClaimReceipt, ClaimStale, ClaimBlocked, ClaimGranted,
         MayClaim
    <3>2. \E at : Goto(i, at) \/ \E o : GotoWith(i, at, o)
      BY <2>4 DEF Claiming, ClaimClosed, ClaimReceipt, ClaimStale, ClaimBlocked, ClaimGranted
    <3> QED BY <1>1, <1>2, <2>1, <3>1, <3>2
  <2>5. CASE Working(i)
    <3>1. worker[i].at = "working"
      BY <2>5 DEF Working, RenewFails, MonitorSeesCancel, HandlerEnds
    <3>2. Goto(i, "lost") \/ \E o : GotoWith(i, "finishing", o)
      BY <2>5 DEF Working, RenewFails, MonitorSeesCancel, HandlerEnds
    <3>3. worker'[i].at \in {"lost", "finishing"} BY <2>1, <3>2
    <3> QED BY <1>1, <2>1, <3>1, <3>2, <3>3
  <2>6. CASE Finish(i) \/ ScopeCloses(i) \/ Settle(i)
    <3>1. worker[i].at \in {"finishing", "lost", "settle"}
      BY <2>6 DEF Finish, ScopeCloses, Settle
    <3>2. Goto(i, "settle") \/ Goto(i, "lost") \/ Goto(i, "retry") \/ Goto(i, "ack")
      BY <2>6 DEF Finish, ScopeCloses, Settle
    <3> QED BY <1>1, <2>1, <3>1, <3>2
  <2>7. DeadLetterUnroutable(i) \/ Retry(i) \/ Release(i) \/ Ack(i) => EndTurn(i)
    BY DEF DeadLetterUnroutable, Retry, Release, HandBack, Ack
  <2> QED BY <1>4, <2>2, <2>3, <2>4, <2>5, <2>6, <2>7 DEF Turn, Concluding
<1>5. CASE Crash(i) \/ Unwind(i) BY <1>5 DEF Crash, Unwind, EndTurn, Idle
<1> QED BY <1>3, <1>4, <1>5, WorkerWriters

\* What a step does to a claim.
LEMMA ClaimKeeps ==
  ASSUME TypeInv, [Next]_vars, NEW a \in Acts
  PROVE  \/ /\ claim'[a].state = claim[a].state /\ claim'[a].number = claim[a].number
            /\ claim'[a].owner = claim[a].owner
         \/ claim'[a].state # "running" /\ claim'[a].owner = Nobody
         \/ \E i \in Invocations :
              /\ ClaimGranted(i) /\ a = worker[i].act
              /\ claim'[a].number = worker[i].number /\ claim'[a].owner = i
<1> USE DEF TypeInv, TypeOK
<1>1. CASE Tick
  <2>1. claim'[a] = Older(claim[a]) /\ claim[a] \in ClaimRow BY <1>1 DEF Tick
  <2> QED BY <2>1 DEF Older, ClaimRow
<1>2. ASSUME NEW i \in Invocations, Finish(i), claim'[a] # claim[a]
      PROVE  claim'[a].state # "running" /\ claim'[a].owner = Nobody
  BY <1>2 DEF Finish, Receipt
<1>3. ASSUME NEW i \in Invocations, Renew(i)
      PROVE  /\ claim'[a].state = claim[a].state /\ claim'[a].number = claim[a].number
             /\ claim'[a].owner = claim[a].owner
  BY <1>3 DEF Renew, ClaimRow
<1>4. ASSUME NEW i \in Invocations, ClaimGranted(i), claim'[a] # claim[a]
      PROVE  /\ a = worker[i].act
             /\ claim'[a].number = worker[i].number /\ claim'[a].owner = i
  BY <1>4 DEF ClaimGranted, Running
<1> QED BY <1>1, <1>2, <1>3, <1>4, ClaimWriters

LEMMA OfferedFromFirst ==
  ASSUME RowInv, NEW a \in Acts, NEW k \in Deliveries, Offered(a, k)
  PROVE  Offered(a, 0)
<1>1. 0 \in Deliveries /\ k \in Nat BY BoundsAssumption DEF Deliveries
<1> QED BY <1>1 DEF RowInv, RowsInOrder

LEMMA NumberStep ==
  ASSUME TypeInv, RowInv, NumberInv, [Next]_vars
  PROVE  NumberInv'
<1> USE DEF TypeInv, TypeOK
<1>0. /\ \A i \in Invocations : i # Nobody /\ worker[i].number \in Nat
      /\ \A a \in Acts : claim[a].number \in Nat
      /\ \A i \in Invocations : worker[i].at # "idle" =>
           worker[i].act \in Acts /\ worker[i].gen \in Deliveries
      /\ 0 \in Deliveries
  BY TokenAssumption, BoundsAssumption DEF WorkerTurn, ClaimRow, BusyHasDelivery, Deliveries
\* A busy turn that is not the one taking a row: what it knows of its delivery.
<1>1. ASSUME NEW i \in Invocations, worker[i].at # "idle"
      PROVE  /\ Offered(worker[i].act, worker[i].gen) /\ Offered(worker[i].act, 0)
             /\ NumberBelow(worker[i].act, worker[i].number, i)
             /\ Holds(i) => worker[i].number = Row(i).attempts
             /\ ~Take(i)
             /\ \A a \in Acts, k \in Deliveries :
                  delivery[a][k].by = i => a = worker[i].act /\ k = worker[i].gen
  BY <1>0, <1>1, OfferedFromFirst DEF NumberInv, TurnsBelow, TokenOnOwnRow, Take, Fresh
<1>2. ASSUME NEW i \in Invocations, Take(i)
      PROVE  /\ worker'[i].at = "taken"
             /\ \A a \in Acts : claim[a].owner # i
             /\ \A a \in Acts, k \in Deliveries : delivery[a][k].by # i
             /\ RowTaken(worker'[i].act, worker'[i].gen, i)
             /\ worker'[i].act \in Acts /\ worker'[i].gen \in Deliveries
  <2>1. PICK a \in Acts, k \in Deliveries :
          /\ CanTake(delivery[a][k])
          /\ delivery' = [delivery EXCEPT ![a][k] = Acquire(@, i)]
          /\ worker' = [worker EXCEPT ![i] =
               [at |-> "taken", act |-> a, gen |-> k, outcome |-> "none",
                number |-> delivery[a][k].attempts + 1]]
    BY <1>2 DEF Take
  <2>2. worker'[i] = [at |-> "taken", act |-> a, gen |-> k, outcome |-> "none",
                      number |-> delivery[a][k].attempts + 1]
    BY <2>1
  <2>3. delivery'[a][k] = Acquire(delivery[a][k], i) /\ Live(delivery[a][k])
    BY <2>1 DEF CanTake, Expired, Live
  <2>4. RowTaken(a, k, i) BY <1>2, <2>2, <2>3 DEF RowTaken, Acquire
  <2> QED BY <1>2, <2>2, <2>4 DEF Take, Fresh
<1>3. ClaimsBelow'
  <2> SUFFICES ASSUME NEW a \in Acts, claim'[a].state = "running"
               PROVE  Offered(a, 0)' /\ NumberBelow(a, claim[a].number, claim[a].owner)'
    BY DEF ClaimsBelow
  <2>1. CASE /\ claim'[a].state = claim[a].state /\ claim'[a].number = claim[a].number
             /\ claim'[a].owner = claim[a].owner
    <3>1. Offered(a, 0) /\ NumberBelow(a, claim[a].number, claim[a].owner)
      BY <2>1 DEF NumberInv, ClaimsBelow
    <3>2. claim[a].owner \in Invocations => ~Release(claim[a].owner)
      BY DEF NumberInv, UnclaimedOwnsNothing, Release
    <3>3. PICK n \in Nat : n = claim[a].number BY <1>0
    <3>4. PICK i : i = claim[a].owner OBVIOUS
    <3>5. NumberBelow(a, n, i)' BY <3>1, <3>2, <3>3, <3>4, BelowStays
    <3>6. claim'[a].number = n /\ claim'[a].owner = i BY <2>1, <3>3, <3>4
    <3>7. Offered(a, 0)' BY <1>0, <3>1, OfferedStays
    <3> QED BY <3>5, <3>6, <3>7 DEF NumberBelow
  <2>2. ASSUME NEW i \in Invocations, ClaimGranted(i), a = worker[i].act,
               claim'[a].number = worker[i].number, claim'[a].owner = i
        PROVE  Offered(a, 0)' /\ NumberBelow(a, claim[a].number, claim[a].owner)'
    <3>1. worker[i].at = "admit" BY <2>2 DEF ClaimGranted, MayClaim
    <3>2. PICK n \in Nat : n = worker[i].number BY <1>0
    <3>3. Offered(a, 0) /\ NumberBelow(a, n, i) /\ ~Release(i)
      BY <1>1, <2>2, <3>1, <3>2 DEF Release
    <3>4. NumberBelow(a, n, i)' BY <3>3, BelowStays
    <3> QED BY <1>0, <2>2, <3>2, <3>3, <3>4, OfferedStays DEF NumberBelow
  <2> QED BY <2>1, <2>2, ClaimKeeps
<1>4. TurnsBelow'
  <2> SUFFICES ASSUME NEW i \in Invocations, worker'[i].at # "idle"
               PROVE  /\ Offered(worker[i].act, worker[i].gen)'
                      /\ NumberBelow(worker[i].act, worker[i].number, i)'
                      /\ Holds(i)' => worker'[i].number = Row(i)'.attempts
    BY DEF TurnsBelow
  <2>1. CASE Take(i)
    <3>1. PICK a \in Acts, k \in Deliveries : a = worker'[i].act /\ k = worker'[i].gen
      BY <1>2, <2>1
    <3>2. RowTaken(a, k, i) BY <1>2, <2>1, <3>1
    <3>3. Offered(a, k)' BY <3>2 DEF RowTaken, Offered
    <3>4. \A j \in Deliveries : Latest(a, j)' => j = k
      <4>1. RowInv' BY RowStep
      <4>2. Live(delivery'[a][k]) BY <3>2 DEF RowTaken, Live
      <4>3. Deliveries \subseteq Nat BY BoundsAssumption DEF Deliveries
      <4> QED BY <3>3, <4>1, <4>2, <4>3 DEF RowInv, RowsInOrder, Latest
    <3>5. worker'[i].number = delivery'[a][k].attempts /\ delivery'[a][k].by = i
      BY <3>2 DEF RowTaken
    <3>6. delivery'[a][k].attempts \in Nat
      BY <3>2, BoundsAssumption DEF RowTaken, DeliveryRow
    <3>7. NumberBelow(worker[i].act, worker[i].number, i)'
      BY <3>1, <3>4, <3>5, <3>6 DEF NumberBelow
    <3> QED BY <3>1, <3>3, <3>5, <3>7 DEF Row
  <2>2. CASE ~Take(i)
    <3>1. /\ worker[i].at # "idle" /\ ~Release(i)
          /\ worker'[i].act = worker[i].act /\ worker'[i].gen = worker[i].gen
          /\ worker'[i].number = worker[i].number
      BY <2>2, TurnKeeps
    <3>2. PICK a \in Acts, k \in Deliveries, n \in Nat :
            a = worker[i].act /\ k = worker[i].gen /\ n = worker[i].number
      BY <1>0, <3>1
    <3>3. Offered(a, k) /\ Offered(a, 0) /\ NumberBelow(a, n, i) BY <1>1, <3>1, <3>2
    <3>4. Offered(a, k)' /\ NumberBelow(a, n, i)' BY <3>1, <3>3, BelowStays, OfferedStays
    <3>5. NumberBelow(worker[i].act, worker[i].number, i)' BY <3>1, <3>2, <3>4 DEF NumberBelow
    <3>6. ASSUME delivery'[a][k].state = "processing", delivery'[a][k].by = i
          PROVE  n = delivery'[a][k].attempts
      <4>1. RowChange(a, k) BY RowChanges
      <4>2. ~RowReturned(a, k) /\ ~RowOffered(a, k) BY <3>6 DEF RowReturned, RowOffered
      <4>3. ASSUME NEW j \in Invocations PROVE ~RowTaken(a, k, j) /\ ~RowReleased(a, k, j)
        <5>1. ~RowTaken(a, k, j) BY <2>2, <3>6 DEF RowTaken
        <5>2. ~RowReleased(a, k, j) BY <3>6 DEF RowReleased, Unattempt, Pending
        <5> QED BY <5>1, <5>2
      <4>4. RowUntouched(a, k) BY <4>1, <4>2, <4>3 DEF RowChange
      <4> QED BY <1>1, <3>1, <3>2, <3>6, <4>4 DEF RowUntouched, Holds, Row
    <3> QED BY <3>1, <3>2, <3>4, <3>5, <3>6 DEF Holds, Row
  <2> QED BY <2>1, <2>2
<1>5. UnclaimedOwnsNothing'
  <2> SUFFICES ASSUME NEW i \in Invocations, worker'[i].at \in {"taken", "admit", "blocked"},
                      NEW a \in Acts
               PROVE  claim'[a].owner # i
    BY DEF UnclaimedOwnsNothing
  <2>1. claim[a].owner # i
    BY <1>2, TurnKeeps DEF NumberInv, UnclaimedOwnsNothing
  <2>2. ~ClaimGranted(i)
    BY <1>0, TurnKeeps DEF Take, Fresh, ClaimGranted, MayClaim
  <2> QED BY <1>0, <2>1, <2>2, ClaimKeeps
<1>6. TokenOnOwnRow'
  <2> SUFFICES ASSUME NEW i \in Invocations, worker'[i].at # "idle",
                      NEW a \in Acts, NEW k \in Deliveries, delivery'[a][k].by = i
               PROVE  a = worker'[i].act /\ k = worker'[i].gen
    BY DEF TokenOnOwnRow
  <2>1. RowChange(a, k) BY RowChanges
  <2>2. ~RowReturned(a, k) /\ ~RowOffered(a, k) BY <1>0 DEF RowReturned, RowOffered
  <2>3. \A j \in Invocations : ~RowReleased(a, k, j)
    BY <1>0 DEF RowReleased, Unattempt, Pending
  <2>4. CASE RowTaken(a, k, i) BY <2>4 DEF RowTaken
  <2>5. CASE RowUntouched(a, k)
    <3>1. delivery[a][k].by = i BY <2>5 DEF RowUntouched
    <3>2. ~Take(i) BY <1>2, <3>1
    <3> QED BY <1>1, <3>1, <3>2, TurnKeeps
  <2>6. \A j \in Invocations : RowTaken(a, k, j) => j = i BY DEF RowTaken
  <2> QED BY <2>1, <2>2, <2>3, <2>4, <2>5, <2>6 DEF RowChange
<1> QED BY <1>3, <1>4, <1>5, <1>6 DEF NumberInv

LEMMA NumbersAlways == Spec => [](TypeInv /\ LetterInv /\ NumberInv)
<1>1. LetterInv => RowInv BY DEF LetterInv, RowInv
<1> QED BY <1>1, TypeInit, LetterInit, NumberInit, TypeStep, LetterStep, NumberStep, PTL DEF Spec

\* A worker that still holds its delivery is never refused as stale, however attempts
\* were counted back, carried over by requeues or taken over from crashed workers.
THEOREM HoldersAreNeverStale == Spec => []HolderNeverStale
<1>1. LetterInv => RowInv BY DEF LetterInv, RowInv
<1> QED BY <1>1, NumbersAlways, NeverStaleFollows, PTL

-----------------------------------------------------------------------------
(* The shared limits. A claim that is live is covered by a permit that lives *)
(* at least as long, and the live permits are bounded: a purge only deletes  *)
(* dead ones, and a claim is granted only while the others leave room.       *)

Executing(i, a) == worker[i].at \in {"working", "finishing"} /\ worker[i].act = a
Covered(i, a) == permit[a].owner = i /\ permit[a].left >= claim[a].left

ClaimsCovered ==
  UsesPermits => \A i \in Invocations, a \in Acts :
                   Executing(i, a) /\ LiveClaim(a, i) => Covered(i, a)

HeldPermits == {a \in Acts : permit[a].owner # Nobody}
LivePermits == {a \in HeldPermits : permit[a].left > 0}
WithKey(S, b) == {a \in S : KeyOf[a] = KeyOf[b]}

PermitsBounded ==
  /\ IsFiniteSet(HeldPermits)
  /\ GlobalLimit # NoLimit => Cardinality(LivePermits) <= GlobalLimit
  /\ KeyLimit # NoLimit => \A b \in Acts : Cardinality(WithKey(LivePermits, b)) <= KeyLimit

PermitInv == ClaimsCovered /\ PermitsBounded

\* A bound that holds with room for one more, holds with one more.
LEMMA RoomForOne ==
  ASSUME NEW T, IsFiniteSet(T), NEW x, NEW S \in SUBSET (T \cup {x}), NEW L \in Nat,
         Cardinality(T) < L
  PROVE  Cardinality(S) <= L
<1>1. IsFiniteSet(T \cup {x}) /\ Cardinality(T \cup {x}) <= Cardinality(T) + 1
  <2>1. Cardinality(T) \in Nat BY FS_CardinalityType
  <2>2. Cardinality(T \cup {x}) \in {Cardinality(T), Cardinality(T) + 1} BY FS_AddElement
  <2> QED BY <2>1, <2>2, FS_AddElement
<1>2. Cardinality(S) <= Cardinality(T \cup {x}) BY <1>1, FS_Subset
<1>3. /\ Cardinality(S) \in Nat /\ Cardinality(T) \in Nat
      /\ Cardinality(T \cup {x}) \in Nat
  BY <1>1, FS_Subset, FS_CardinalityType
<1> QED BY <1>1, <1>2, <1>3

LEMMA BoundOfSubset ==
  ASSUME NEW T, IsFiniteSet(T), NEW S \in SUBSET T, NEW L \in Nat, Cardinality(T) <= L
  PROVE  Cardinality(S) <= L
<1>1. Cardinality(S) <= Cardinality(T) BY FS_Subset
<1>2. Cardinality(S) \in Nat /\ Cardinality(T) \in Nat BY FS_Subset, FS_CardinalityType
<1> QED BY <1>1, <1>2

LEMMA LimitTypes ==
  /\ GlobalLimit # NoLimit => GlobalLimit \in Nat
  /\ KeyLimit # NoLimit => KeyLimit \in Nat
  BY LimitsAssumption DEF Limits

LEMMA PermitInit == Init => PermitInv
<1> SUFFICES ASSUME Init PROVE PermitInv OBVIOUS
<1>1. HeldPermits = {} BY DEF Init, HeldPermits, NoPermit
<1>2. LivePermits = {} /\ \A b \in Acts : WithKey(LivePermits, b) = {}
  BY <1>1 DEF LivePermits, WithKey
<1>3. PermitsBounded BY <1>1, <1>2, FS_EmptySet, LimitTypes DEF PermitsBounded
<1>4. ClaimsCovered BY DEF Init, ClaimsCovered, Executing, Idle
<1> QED BY <1>3, <1>4 DEF PermitInv

LEMMA BoundFollows ==
  ASSUME TypeInv, PermitInv
  PROVE  AdmissionBound
<1> USE DEF TypeInv, TypeOK
<1>1. ASSUME UsesPermits PROVE CurrentActs \subseteq LivePermits
  <2> SUFFICES ASSUME NEW a \in Acts, Current(a) PROVE a \in LivePermits
    BY DEF CurrentActs
  <2>1. PICK i \in Invocations : Executing(i, a) /\ LiveClaim(a, i)
    BY DEF Current, Executing
  <2>2. Covered(i, a) BY <1>1, <2>1 DEF PermitInv, ClaimsCovered
  <2>3. claim[a].left \in Nat /\ permit[a].left \in Nat /\ i # Nobody
    BY TokenAssumption, BoundsAssumption DEF ClaimRow, PermitRow
  <2> QED BY <2>1, <2>2, <2>3 DEF Covered, LiveClaim, LivePermits, HeldPermits
<1>2. IsFiniteSet(LivePermits) BY FS_Subset DEF PermitInv, PermitsBounded, LivePermits
<1>3. ASSUME GlobalLimit # NoLimit PROVE Cardinality(CurrentActs) <= GlobalLimit
  <2>1. CurrentActs \in SUBSET LivePermits BY <1>1, <1>3 DEF UsesPermits
  <2> QED BY <1>2, <1>3, <2>1, BoundOfSubset, LimitTypes DEF PermitInv, PermitsBounded
<1>4. ASSUME KeyLimit # NoLimit, NEW b \in Acts
      PROVE  Cardinality({a \in CurrentActs : KeyOf[a] = KeyOf[b]}) <= KeyLimit
  <2>1. {a \in CurrentActs : KeyOf[a] = KeyOf[b]} \in SUBSET WithKey(LivePermits, b)
    BY <1>1, <1>4 DEF UsesPermits, WithKey
  <2>2. IsFiniteSet(WithKey(LivePermits, b)) BY <1>2, FS_Subset DEF WithKey
  <2> QED BY <1>4, <2>1, <2>2, BoundOfSubset, LimitTypes DEF PermitInv, PermitsBounded
<1> QED BY <1>3, <1>4 DEF AdmissionBound

\* Which steps write claims and permits.
LEMMA PermitWriters ==
  ASSUME [Next]_vars
  PROVE  \/ UNCHANGED <<claim, permit>>
         \/ Tick
         \/ \E i \in Invocations : \/ ClaimGranted(i) \/ ClaimBlocked(i) \/ Renew(i)
                                   \/ Finish(i) \/ ScopeCloses(i) \/ Unwind(i)
  BY DEF Next, Interpreter, Gate, BeginCommand, GateAttempt, Offer, FinishCommand,
     Lifecycle, NewRound, CompleteRun, RequestCancel, CompleteCancelled, EndWorkflow,
     Exhausted, Requeue, Discard, Take, Turn, DeadLetterUnroutable, ReadRun, Claiming,
     ClaimClosed, ClaimReceipt, ClaimStale, Working, RenewFails, MonitorSeesCancel,
     HandlerEnds, Concluding, Retry, Release, HandBack, Settle, Ack, Crash

\* A turn executes because it was granted its claim, or because it executed before.
LEMMA ExecutingFrom ==
  ASSUME TypeInv, [Next]_vars, NEW i \in Invocations, NEW a, Executing(i, a)'
  PROVE  ClaimGranted(i) \/ Executing(i, a)
<1> USE DEF TypeInv, TypeOK, WorkerTurn
<1>1. CASE Take(i)
  <2>1. worker'[i].at = "taken" BY <1>1 DEF Take
  <2> QED BY <2>1 DEF Executing
<1>2. CASE ~Take(i)
  <2>1. worker[i].at # "idle" /\ worker'[i].act = worker[i].act
    BY <1>2, TurnKeeps DEF Executing
  <2>2. CASE worker[i].at \in {"working", "finishing"} BY <2>1, <2>2 DEF Executing
  <2>3. CASE worker[i].at \notin {"working", "finishing"} /\ Turn(i)
    <3>1. ASSUME EndTurn(i) PROVE FALSE BY <3>1 DEF EndTurn, Idle, Executing
    <3>2. ASSUME NEW at \in {"settle", "admit", "retry", "blocked", "ack"},
                 Goto(i, at) \/ \E o : GotoWith(i, at, o)
          PROVE  FALSE
      BY <3>2 DEF Goto, GotoWith, Executing
    <3> QED BY <2>3, <3>1, <3>2 DEF Turn, DeadLetterUnroutable, ReadRun, Claiming, ClaimClosed,
         ClaimReceipt, ClaimStale, ClaimBlocked, Working, RenewFails, MonitorSeesCancel,
         HandlerEnds, Concluding, Finish, ScopeCloses, Retry, Release, HandBack, Settle, Ack
  <2>4. CASE worker'[i] = worker[i] BY <2>4 DEF Executing
  <2>5. CASE Crash(i) \/ Unwind(i) BY <2>5 DEF Crash, Unwind, EndTurn, Idle, Executing
  <2> QED BY <1>2, <2>2, <2>3, <2>4, <2>5, WorkerWriters
<1> QED BY <1>1, <1>2

LEMMA CoveredStep ==
  ASSUME TypeInv, ClaimsCovered, [Next]_vars
  PROVE  ClaimsCovered'
<1> SUFFICES ASSUME UsesPermits, NEW i \in Invocations, NEW a \in Acts,
                    Executing(i, a)', LiveClaim(a, i)'
             PROVE  Covered(i, a)'
  BY DEF ClaimsCovered, UsesPermits
<1> USE DEF TypeInv, TypeOK
<1>0. /\ claim[a].left \in Nat /\ permit[a].left \in Nat /\ Lease \in Nat \ {0}
      /\ i # Nobody
      /\ claim[a] \in ClaimRow /\ permit[a] \in PermitRow
  BY BoundsAssumption, TokenAssumption DEF ClaimRow, PermitRow
<1>1. ASSUME LiveClaim(a, i), Executing(i, a)
      PROVE  permit[a].owner = i /\ permit[a].left >= claim[a].left /\ permit[a].left > 0
  BY <1>0, <1>1 DEF ClaimsCovered, Covered, LiveClaim
<1>2. ASSUME NEW j \in Invocations, ClaimGranted(j) PROVE Covered(i, a)'
  <2> DEFINE b == worker[j].act
  <2>1. b \in Acts BY <1>2 DEF ClaimGranted, MayClaim, BusyHasDelivery
  <2>2. /\ claim' = [claim EXCEPT ![b] = Running(worker[j].number, j)]
        /\ permit' = [Purged(b) EXCEPT ![b] = [owner |-> j, left |-> Lease]]
    BY <1>2 DEF ClaimGranted
  <2>3. CASE a = b
    <3>1. claim'[a] = Running(worker[j].number, j) BY <2>1, <2>2, <2>3
    <3>2. permit'[a] = [owner |-> j, left |-> Lease] BY <2>1, <2>2, <2>3 DEF Purged
    <3> QED BY <1>0, <3>1, <3>2 DEF LiveClaim, Covered, Running
  <2>4. CASE a # b
    <3>1. claim'[a] = claim[a] /\ permit'[a] = Purged(b)[a] BY <2>2, <2>4 DEF Purged
    <3>2. LiveClaim(a, i) BY <3>1 DEF LiveClaim
    <3>3. Executing(i, a)
      <4>1. CASE j = i
        <5>1. worker'[i].act = b BY <1>2, <4>1 DEF ClaimGranted, Goto, WorkerTurn
        <5> QED BY <2>4, <5>1 DEF Executing
      <4>2. CASE j # i
        <5>1. worker'[i] = worker[i] BY <1>2, <4>2 DEF ClaimGranted, Goto
        <5> QED BY <5>1 DEF Executing
      <4> QED BY <4>1, <4>2
    <3>4. permit'[a] = permit[a] BY <1>0, <1>1, <3>1, <3>2, <3>3 DEF Purged
    <3> QED BY <1>1, <3>1, <3>2, <3>3, <3>4 DEF Covered
  <2> QED BY <2>3, <2>4
<1>3. CASE ~\E j \in Invocations : ClaimGranted(j)
  <2>1. Executing(i, a) BY <1>3, ExecutingFrom
  <2>2. CASE Tick
    <3>1. claim'[a] = Older(claim[a]) /\ permit'[a] = Older(permit[a]) BY <2>2 DEF Tick
    <3>2. /\ claim'[a].state = claim[a].state /\ claim'[a].owner = claim[a].owner
          /\ claim'[a].left = IF claim[a].left > 0 THEN claim[a].left - 1 ELSE 0
          /\ permit'[a].owner = permit[a].owner
          /\ permit'[a].left = IF permit[a].left > 0 THEN permit[a].left - 1 ELSE 0
      BY <1>0, <3>1 DEF Older, ClaimRow, PermitRow
    <3>3. LiveClaim(a, i) BY <1>0, <3>2 DEF LiveClaim
    <3> QED BY <1>0, <1>1, <2>1, <3>2, <3>3 DEF Covered
  <2>3. ASSUME NEW j \in Invocations, ClaimBlocked(j) PROVE Covered(i, a)'
    <3>1. claim'[a] = claim[a] /\ permit'[a] = Purged(worker[j].act)[a]
      BY <2>3 DEF ClaimBlocked
    <3>2. LiveClaim(a, i) BY <3>1 DEF LiveClaim
    <3>3. permit'[a] = permit[a] BY <1>1, <2>1, <3>1, <3>2 DEF Purged
    <3> QED BY <1>1, <2>1, <3>1, <3>2, <3>3 DEF Covered
  <2>4. ASSUME NEW j \in Invocations, Renew(j) PROVE Covered(i, a)'
    <3>1. CASE worker[j].act = a
      <4>1. LiveClaim(a, j) /\ permit[a].owner = j BY <2>4, <3>1 DEF Renew, LivePermit
      <4>2. /\ claim'[a].owner = claim[a].owner /\ claim'[a].left = Lease
            /\ permit'[a].owner = permit[a].owner /\ permit'[a].left = Lease
        BY <1>0, <2>4, <3>1 DEF Renew, ClaimRow, PermitRow
      <4> QED BY <1>0, <4>1, <4>2 DEF Covered, LiveClaim
    <3>2. CASE worker[j].act # a
      <4>1. claim'[a] = claim[a] /\ permit'[a] = permit[a] BY <2>4, <3>2 DEF Renew
      <4> QED BY <1>1, <2>1, <4>1 DEF Covered, LiveClaim
    <3> QED BY <3>1, <3>2
  <2>5. ASSUME NEW j \in Invocations, Finish(j) \/ ScopeCloses(j) \/ Unwind(j)
        PROVE  Covered(i, a)'
    <3>1. j # i
      <4>1. worker'[j].at \notin {"working", "finishing"}
        BY <2>5 DEF Finish, ScopeCloses, Unwind, Goto, EndTurn, Idle, WorkerTurn
      <4> QED BY <4>1 DEF Executing
    <3>2. permit' = permit \/ permit' = ReleasePermit(worker[j].act, j)
      BY <2>5 DEF Finish, ScopeCloses, Unwind
    <3>3. claim'[a] = claim[a]
      <4>1. claim'[a] = claim[a] \/ claim'[a].state = "completed"
        BY <2>5 DEF Finish, ScopeCloses, Unwind, Receipt
      <4> QED BY <4>1 DEF LiveClaim
    <3>4. LiveClaim(a, i) BY <3>3 DEF LiveClaim
    <3>5. permit'[a] = permit[a] BY <1>1, <2>1, <3>1, <3>2, <3>4 DEF ReleasePermit
    <3> QED BY <1>1, <2>1, <3>3, <3>4, <3>5 DEF Covered
  <2>6. CASE UNCHANGED <<claim, permit>>
    BY <1>1, <2>1, <2>6 DEF Covered, LiveClaim
  <2> QED BY <1>3, <2>2, <2>3, <2>4, <2>5, <2>6, PermitWriters
<1> QED BY <1>2, <1>3

\* Only a granted claim adds a permit, or brings one back to life.
LEMMA PermitsFrom ==
  ASSUME TypeInv, [Next]_vars, NEW a \in Acts
  PROVE  /\ permit'[a].owner # Nobody =>
              \/ permit[a].owner # Nobody
              \/ \E i \in Invocations : ClaimGranted(i) /\ UsesPermits /\ a = worker[i].act
         /\ permit'[a].owner # Nobody /\ permit'[a].left > 0 =>
              \/ permit[a].owner # Nobody /\ permit[a].left > 0
              \/ \E i \in Invocations : ClaimGranted(i) /\ UsesPermits /\ a = worker[i].act
<1> USE DEF TypeInv, TypeOK
<1>0. permit[a] \in PermitRow /\ permit[a].left \in Nat
  BY BoundsAssumption DEF PermitRow
<1>1. CASE permit'[a] = permit[a] \/ permit'[a] = NoPermit BY <1>1 DEF NoPermit
<1>2. CASE Tick
  <2>1. permit'[a] = Older(permit[a]) BY <1>2 DEF Tick
  <2> QED BY <1>0, <2>1 DEF Older, PermitRow
<1>3. ASSUME NEW i \in Invocations, ClaimBlocked(i)
      PROVE  permit'[a] = permit[a] \/ permit'[a] = NoPermit
  BY <1>3 DEF ClaimBlocked, Purged
<1>4. ASSUME NEW i \in Invocations, Finish(i) \/ ScopeCloses(i) \/ Unwind(i)
      PROVE  permit'[a] = permit[a] \/ permit'[a] = NoPermit
  <2>1. permit' = permit \/ permit' = ReleasePermit(worker[i].act, i)
    BY <1>4 DEF Finish, ScopeCloses, Unwind
  <2> QED BY <2>1 DEF ReleasePermit
<1>5. ASSUME NEW i \in Invocations, Renew(i), permit'[a] # permit[a]
      PROVE  permit[a].owner # Nobody /\ permit[a].left > 0
  BY <1>5, TokenAssumption DEF Renew, LivePermit
<1>6. ASSUME NEW i \in Invocations, ClaimGranted(i)
      PROVE  \/ permit'[a] = permit[a] \/ permit'[a] = NoPermit
             \/ UsesPermits /\ a = worker[i].act
  BY <1>6 DEF ClaimGranted, Purged
<1> QED BY <1>1, <1>2, <1>3, <1>4, <1>5, <1>6, PermitWriters

LEMMA BoundedStep ==
  ASSUME TypeInv, PermitsBounded, [Next]_vars
  PROVE  PermitsBounded'
<1> USE DEF TypeInv, TypeOK
<1>0. IsFiniteSet(HeldPermits) BY DEF PermitsBounded
<1>1. IsFiniteSet(LivePermits) /\ \A b \in Acts : IsFiniteSet(WithKey(LivePermits, b))
  BY <1>0, FS_Subset DEF LivePermits, WithKey
<1>2. CASE ~\E i \in Invocations : ClaimGranted(i) /\ UsesPermits
  <2>1. HeldPermits' \in SUBSET HeldPermits BY <1>2, PermitsFrom DEF HeldPermits
  <2>2. LivePermits' \in SUBSET LivePermits
    BY <1>2, PermitsFrom DEF LivePermits, HeldPermits
  <2>3. IsFiniteSet(HeldPermits') BY <1>0, <2>1, FS_Subset
  <2>4. GlobalLimit # NoLimit => Cardinality(LivePermits') <= GlobalLimit
    BY <1>1, <2>2, BoundOfSubset, LimitTypes DEF PermitsBounded
  <2>5. ASSUME KeyLimit # NoLimit, NEW b \in Acts
        PROVE  Cardinality(WithKey(LivePermits, b)') <= KeyLimit
    <3>1. WithKey(LivePermits, b)' \in SUBSET WithKey(LivePermits, b) BY <2>2 DEF WithKey
    <3> QED BY <1>1, <2>5, <3>1, BoundOfSubset, LimitTypes DEF PermitsBounded
  <2> QED BY <2>3, <2>4, <2>5 DEF PermitsBounded
<1>3. ASSUME NEW i \in Invocations, ClaimGranted(i), UsesPermits
      PROVE  PermitsBounded'
  <2> DEFINE a == worker[i].act
  <2>1. a \in Acts /\ Admissible(a)
    BY <1>3 DEF ClaimGranted, MayClaim, BusyHasDelivery
  <2>2. permit' = [Purged(a) EXCEPT ![a] = [owner |-> i, left |-> Lease]]
    BY <1>3 DEF ClaimGranted
  <2>3. \A b \in Acts : b # a => permit'[b] = Purged(a)[b] BY <2>2 DEF Purged
  <2>4. HeldPermits' \subseteq Competing(a) \cup {a} BY <2>3 DEF HeldPermits, Competing
  <2>5. Competing(a) \subseteq HeldPermits
    BY DEF Competing, HeldPermits, Purged, NoPermit
  <2>6. IsFiniteSet(Competing(a)) BY <1>0, <2>5, FS_Subset
  <2>7. IsFiniteSet(HeldPermits') BY <2>4, <2>6, FS_AddElement, FS_Subset
  <2>8. LivePermits' \in SUBSET (Competing(a) \cup {a}) BY <2>4 DEF LivePermits
  <2>9. ASSUME GlobalLimit # NoLimit PROVE Cardinality(LivePermits') <= GlobalLimit
    <3>1. Cardinality(Competing(a)) < GlobalLimit BY <2>1, <2>9 DEF Admissible
    <3> QED BY <2>6, <2>8, <2>9, <3>1, RoomForOne, LimitTypes
  <2>10. ASSUME KeyLimit # NoLimit, NEW b \in Acts
         PROVE  Cardinality(WithKey(LivePermits, b)') <= KeyLimit
    <3>1. CASE KeyOf[a] = KeyOf[b]
      <4> DEFINE C == {c \in Competing(a) : KeyOf[c] = KeyOf[a]}
      <4>1. Cardinality(C) < KeyLimit BY <2>1, <2>10 DEF Admissible
      <4>2. IsFiniteSet(C) BY <2>6, FS_Subset
      <4>3. WithKey(LivePermits, b)' \in SUBSET (C \cup {a}) BY <2>8, <3>1 DEF WithKey
      <4> HIDE DEF C
      <4> QED BY <2>10, <4>1, <4>2, <4>3, RoomForOne, LimitTypes
    <3>2. CASE KeyOf[a] # KeyOf[b]
      <4>1. \A c \in LivePermits' : c = a \/ c \in LivePermits
        BY <2>3 DEF LivePermits, HeldPermits, Purged, NoPermit
      <4>2. WithKey(LivePermits, b)' \in SUBSET WithKey(LivePermits, b)
        BY <3>2, <4>1 DEF WithKey
      <4> QED BY <1>1, <2>10, <4>2, BoundOfSubset, LimitTypes DEF PermitsBounded
    <3> QED BY <3>1, <3>2
  <2> QED BY <2>7, <2>9, <2>10 DEF PermitsBounded
<1> QED BY <1>2, <1>3

\* The shared limits bound the activities under a live claim, in total and per key,
\* whatever leases expire, workers crash or claims are fenced.
THEOREM AdmissionIsBounded == Spec => []AdmissionBound
  BY TypeInit, TypeStep, PermitInit, CoveredStep, BoundedStep, BoundFollows, PTL
  DEF Spec, PermitInv
=============================================================================
