-------------------------- MODULE StructuredScopes --------------------------
(***************************************************************************)
(* A saga whose steps are durable commands or groups of branches, as the   *)
(* interpreter carries them through rounds: a round replays the handler    *)
(* from the start, reuses what the journal and the engine have recorded,   *)
(* does what is new and suspends where a result is missing.                *)
(*                                                                         *)
(* A leaf is one durable command: an activity with business retries or a   *)
(* sleep. A step may hand in two at once, as Promise.all does: the bridge  *)
(* runs what is submitted one after the other on the fiber of the step, so *)
(* the second waits for the first, also through a suspension.              *)
(*                                                                         *)
(* The transport that answers activities is ActivityDelivery; pause and    *)
(* cancel are RunLifecycle. Every transaction is one action. Steps are     *)
(* called in the order 1, 2, ..., so a step is its own ordinal.            *)
(***************************************************************************)
EXTENDS Integers, Sequences, FiniteSets

CONSTANTS
  Steps,        \* number of steps of the saga
  Body,         \* of each step: "activity", "timer", "all" (two activities) or "group"
  Branches,     \* number of branches of a group
  Concurrency,  \* branches of a group that may be admitted at a time
  MaxAttempts,  \* business attempts of each leaf
  Caught,       \* failures the handler catches after each step, to go on
  MaxCrashes,   \* bound of the model: rounds that are lost
  None          \* NULL

Forward ==
  ({"forward"} \X {s \in 1..Steps : Body[s] # "group"})
    \cup ({"also"} \X {s \in 1..Steps : Body[s] = "all"})
Branch == {"branch"} \X (1..Branches)
Undo == {"undo"} \X (1..Steps)
Leaves == Forward \cup Branch \cup Undo
Timers == {c \in Forward : Body[c[2]] = "timer"}

\* How a step, the handler or the scope may end: well, with the failure of the
\* leaf of that name, or with a failure of the scope.
Ok == <<"ok", 0>>
CompensationFailed == <<"COMPENSATION_FAILED", 0>>
NonDeterministic == <<"NON_DETERMINISTIC_WORKFLOW", 0>>

ASSUME StepAssumption ==
  /\ Steps \in Nat \ {0} /\ Branches \in Nat /\ Concurrency \in Nat \ {0}
  /\ Body \in [1..Steps -> {"activity", "timer", "all", "group"}]
  /\ \A s, t \in 1..Steps : Body[s] = "group" /\ Body[t] = "group" => s = t
ASSUME AttemptAssumption == MaxAttempts \in [Leaves -> Nat \ {0}] /\ MaxCrashes \in Nat
ASSUME CaughtAssumption == Caught \in [1..Steps -> SUBSET Leaves]
ASSUME NullAssumption == None \notin Leaves \cup {Ok, CompensationFailed, NonDeterministic}

VARIABLES
  command,  \* better_workflows_commands, by leaf
  work,     \* what the engine and the workers know of the latest attempt
  alarm,    \* better_workflows_retries and _timers, for the latest attempt
  branch,   \* better_workflows_branches
  saga,     \* better_workflows_sagas
  undo,     \* better_workflows_compensations, by step
  round,    \* the round of the interpreter
  wake,     \* external: a deferred was completed since the round began
  result,   \* external: how the execution ended, or None
  crashes

leaves == <<command, work, alarm>>
scopes == <<branch, saga, undo>>
vars == <<command, work, alarm, branch, saga, undo, round, wake, result, crashes>>

\* attempt: offered to the transport; answer: its receipt; heard, rung: the
\* deferreds of the attempt and of its retry (or of the timer).
Unasked == [attempt |-> 0, answer |-> "none", heard |-> FALSE, rung |-> FALSE]
Off == [c \in Leaves |-> "off"]
Idle == [at |-> "idle"]

\* row: the saga as the round has read it; called: steps the handler called;
\* outcome: None, Ok or the failure at hand; tried: the attempted branches;
\* commands: what the step has submitted and the fiber has not taken up.
Round == [at |-> "open", row |-> None, called |-> 0, outcome |-> None, tried |-> {},
          commands |-> <<>>, leaf |-> Off]

Init ==
  /\ command = [c \in Leaves |-> "none"]
  /\ work = [c \in Leaves |-> Unasked]
  /\ alarm = [c \in Leaves |-> "none"]
  /\ branch = [b \in 1..Branches |-> "none"]
  /\ saga = [state |-> "none", failure |-> None]
  /\ undo = [s \in 1..Steps |-> "none"]
  /\ round = Idle
  /\ wake = TRUE
  /\ result = None
  /\ crashes = 0

At(p) == round.at = p
Goto(p) == round' = [round EXCEPT !.at = p]
Yield(p, o) == round' = [round EXCEPT !.at = p, !.outcome = o, !.commands = <<>>, !.leaf = Off]
Suspend == round' = Idle /\ UNCHANGED <<leaves, scopes, wake, result, crashes>>
-----------------------------------------------------------------------------
\* A leaf inside a round. The gate before a command only reads the run, so it
\* is not a step of its own.

In(c, p) == ~At("idle") /\ round.leaf[c] = p
Leaf(c, p) == round' = [round EXCEPT !.leaf[c] = p]

BeginCommand(c) ==
  /\ In(c, "begin")
  /\ command' = [command EXCEPT ![c] = IF @ = "none" THEN "scheduled" ELSE @]
  /\ Leaf(c, "offer")
  /\ UNCHANGED <<work, alarm, scopes, wake, result, crashes>>

\* transport.offer and AdvancedJournal.timer do nothing the second time.
Hand(c) == work' = [work EXCEPT ![c].attempt = IF @ = 0 THEN 1 ELSE @] /\ UNCHANGED alarm
Arm(c) == alarm' = [alarm EXCEPT ![c] = IF @ = "none" THEN "armed" ELSE @] /\ UNCHANGED work
Offer(c) ==
  /\ In(c, "offer")
  /\ IF c \in Timers THEN Arm(c) ELSE Hand(c)
  /\ Leaf(c, "await")
  /\ UNCHANGED <<command, scopes, wake, result, crashes>>

Succeeds(c) == IF c \in Timers THEN work[c].rung ELSE work[c].heard /\ work[c].answer = "ok"
Fails(c) ==
  /\ c \notin Timers /\ work[c].heard
  /\ work[c].answer = "fatal" \/ (work[c].answer = "retryable" /\ work[c].attempt = MaxAttempts[c])
MayRetry(c) ==
  /\ c \notin Timers /\ work[c].heard
  /\ work[c].answer = "retryable" /\ work[c].attempt < MaxAttempts[c]
  /\ work[c].rung

\* The deferreds and the retry row of an attempt carry its number.
RetrySharedDeferred(c) ==  \* mutant
  /\ In(c, "await") /\ MayRetry(c)
  /\ work' = [work EXCEPT ![c] = [Unasked EXCEPT !.attempt = work[c].attempt + 1, !.rung = TRUE]]
  /\ alarm' = [alarm EXCEPT ![c] = "none"]
  /\ UNCHANGED <<command, scopes, round, wake, result, crashes>>
Retry(c) ==
  /\ In(c, "await") /\ MayRetry(c)
  /\ work' = [work EXCEPT ![c] = [Unasked EXCEPT !.attempt = work[c].attempt + 1]]
  /\ alarm' = [alarm EXCEPT ![c] = "none"]
  /\ UNCHANGED <<command, scopes, round, wake, result, crashes>>

FinishCommand(c) ==
  /\ In(c, "await")
  /\ Succeeds(c) \/ Fails(c)
  /\ command' = [command EXCEPT ![c] = IF Succeeds(c) THEN "completed" ELSE "failed"]
  /\ Leaf(c, IF Succeeds(c) THEN "ok" ELSE "failed")
  /\ UNCHANGED <<work, alarm, scopes, wake, result, crashes>>

Blocked(c) == In(c, "await") /\ ~Succeeds(c) /\ ~Fails(c) /\ ~MayRetry(c)
Perform(c) == BeginCommand(c) \/ Offer(c) \/ Retry(c) \/ FinishCommand(c)
-----------------------------------------------------------------------------
\* A group of branches, each on a fiber of its own.

Rows(s) == {b \in 1..Branches : branch[b] = s}
Settled == Rows("completed") \cup Rows("failed") = 1..Branches
Least(S) == CHOOSE b \in S : \A d \in S : b <= d
Admits(n) == {b \in Rows("pending") : Cardinality({d \in Rows("pending") : d <= b}) <= n}

InitializeBranches ==
  /\ At("group")
  /\ branch' = [b \in 1..Branches |-> IF branch[b] = "none" THEN "pending" ELSE branch[b]]
  /\ Goto("admit")
  /\ UNCHANGED <<leaves, saga, undo, wake, result, crashes>>

AdmittedAnew(b) == b \in Rows("running") \cup Admits(Concurrency)  \* mutant
Admitted(b) == b \in Rows("running") \cup Admits(Concurrency - Cardinality(Rows("running")))
Admission == {b \in 1..Branches : Admitted(b)}

AdmitBranches ==
  /\ At("admit")
  /\ branch' = [b \in 1..Branches |-> IF b \in Admission THEN "running" ELSE branch[b]]
  /\ round' = [round EXCEPT !.at = "branches", !.tried = @ \cup Admission,
       !.leaf = [c \in Leaves |->
          IF c \in Branch /\ c[2] \in Admission \ round.tried THEN "begin" ELSE "off"]]
  /\ UNCHANGED <<leaves, saga, undo, wake, result, crashes>>

\* A branch that suspends leaves its siblings alone and stays admitted.
LeaveBranch(c) ==
  /\ At("branches")
  /\ c \in Branch /\ Blocked(c)
  /\ Leaf(c, "off")
  /\ UNCHANGED <<leaves, scopes, wake, result, crashes>>

FinishBranch(c) ==
  /\ At("branches")
  /\ c \in Branch /\ round.leaf[c] \in {"ok", "failed"}
  /\ branch' = [branch EXCEPT ![c[2]] =
       IF @ # "running" THEN @ ELSE IF round.leaf[c] = "ok" THEN "completed" ELSE "failed"]
  /\ Leaf(c, "off")
  /\ UNCHANGED <<leaves, saga, undo, wake, result, crashes>>

Observed == At("branches") /\ round.leaf = Off

ReturnsGroup == Settled
SuspendsAlways == TRUE  \* mutant
Suspends == Rows("pending") = {} \/ Cardinality(Rows("running")) >= Concurrency

ReturnGroup ==
  /\ Observed /\ ReturnsGroup
  /\ Yield("body", IF Rows("failed") = {} THEN Ok ELSE <<"branch", Least(Rows("failed"))>>)
  /\ UNCHANGED <<leaves, scopes, wake, result, crashes>>
SuspendGroup == Observed /\ ~ReturnsGroup /\ Suspends /\ Suspend
AdmitMore ==
  /\ Observed /\ ~ReturnsGroup /\ ~Suspends
  /\ Goto("admit")
  /\ UNCHANGED <<leaves, scopes, wake, result, crashes>>
Group ==
  \/ InitializeBranches \/ AdmitBranches
  \/ \E c \in Branch : LeaveBranch(c) \/ FinishBranch(c)
  \/ ReturnGroup \/ SuspendGroup \/ AdmitMore
-----------------------------------------------------------------------------
\* The saga.

Called == round.called
Final == {"completed", "compensated", "compensation-failed"}

\* AdvancedJournal.saga, and what an ended scope answers on replay.
Opened == IF saga.state = "none" THEN [saga EXCEPT !.state = "running"] ELSE saga
OpenSaga ==
  /\ At("open")
  /\ saga' = Opened
  /\ round' = IF Opened.state \in Final
              THEN [round EXCEPT !.at = "return", !.outcome = IF saga.failure = None THEN Ok ELSE saga.failure]
              ELSE [round EXCEPT !.at = "step", !.row = Opened]
  /\ UNCHANGED <<leaves, branch, undo, wake, result, crashes>>

\* What the handler of a step calls. It submits its commands in the order of the
\* calls; the fiber takes up the first and comes back for the next.
Calls(s) ==
  IF Body[s] = "all" THEN <<<<"forward", s>>, <<"also", s>>>> ELSE <<<<"forward", s>>>>
Submit(state, commands) == [state EXCEPT !.at = "leaf", !.commands = commands]
Take(state) ==
  [state EXCEPT !.commands = Tail(@), !.leaf = [Off EXCEPT ![Head(state.commands)] = "begin"]]
CallGroup(state) == [state EXCEPT !.at = "group"]

\* saga.step: a registered step answers from its row; a scope that rolls back
\* starts nothing and answers with the failure of the scope.
CallStep ==
  /\ At("step") /\ Called < Steps
  /\ LET s == Called + 1
         enter == [round EXCEPT !.called = s]
     IN round' = IF undo[s] # "none" THEN enter
                 ELSE IF round.row.state # "running"
                 THEN [enter EXCEPT !.at = "body", !.outcome = round.row.failure]
                 ELSE IF Body[s] = "group" THEN CallGroup(enter)
                 ELSE Take(Submit(enter, Calls(s)))
  /\ UNCHANGED <<leaves, scopes, wake, result, crashes>>

\* A failed command rejects, and its step ends before the next is taken up.
LeafEnds(c) ==
  /\ At("leaf")
  /\ \/ In(c, "ok") /\ round.commands # <<>> /\ round' = Take(round)
     \/ In(c, "ok") /\ round.commands = <<>> /\ Yield("body", Ok)
     \/ In(c, "failed") /\ Yield("body", c)
  /\ UNCHANGED <<leaves, scopes, wake, result, crashes>>

\* A step that is a group has nothing of its own to undo. Mutant.
RegisterLeaves ==
  /\ At("body") /\ round.outcome = Ok
  /\ undo' = [undo EXCEPT ![Called] = IF @ = "none" /\ Body[Called] # "group" THEN "registered" ELSE @]
  /\ Yield("step", None)
  /\ UNCHANGED <<leaves, branch, saga, wake, result, crashes>>
RegisterCompensation ==
  /\ At("body") /\ round.outcome = Ok
  /\ undo' = [undo EXCEPT ![Called] = IF @ = "none" THEN "registered" ELSE @]
  /\ Yield("step", None)
  /\ UNCHANGED <<leaves, branch, saga, wake, result, crashes>>

\* The handler catches the failure of a step and goes on, or lets it out.
StepFails ==
  /\ At("body") /\ round.outcome # Ok
  /\ IF round.outcome \in Caught[Called] THEN Yield("step", None) ELSE Goto("close")
  /\ UNCHANGED <<leaves, scopes, wake, result, crashes>>

HandlerReturns ==
  /\ At("step") /\ Called = Steps
  /\ Yield("close", Ok)
  /\ UNCHANGED <<leaves, scopes, wake, result, crashes>>

\* A transition is made once.
SagaState(state, failure) ==
  saga' = IF saga.state = state THEN saga ELSE [state |-> state, failure |-> failure]

Commits ==
  /\ At("close")
  /\ round.outcome = Ok /\ round.row.state = "running"
  /\ SagaState("completed", None)
  /\ Goto("return")
  /\ UNCHANGED <<leaves, branch, undo, wake, result, crashes>>

RollsBack ==
  /\ At("close")
  /\ ~(round.outcome = Ok /\ round.row.state = "running")
  /\ LET original == IF round.row.failure # None THEN round.row.failure ELSE round.outcome
     IN /\ SagaState("compensating", original)
        /\ Yield("undo", original)
  /\ UNCHANGED <<leaves, branch, undo, wake, result, crashes>>

Registered == {s \in 1..Steps : undo[s] = "registered"}
Missing == \E s \in 1..Steps : undo[s] # "none" /\ s > Called
FirstUndo == CHOOSE s \in Registered : \A t \in Registered : s <= t  \* mutant
NextUndo == CHOOSE s \in Registered : \A t \in Registered : t <= s

MissingCallback ==
  /\ At("undo") /\ Missing
  /\ Yield("return", NonDeterministic)
  /\ UNCHANGED <<leaves, scopes, wake, result, crashes>>

Compensate ==
  /\ At("undo") /\ ~Missing /\ Registered # {}
  /\ round' = [round EXCEPT !.at = "undoing", !.leaf[<<"undo", NextUndo>>] = "begin"]
  /\ UNCHANGED <<leaves, scopes, wake, result, crashes>>

Outcome(p) == IF p = "ok" THEN "completed" ELSE "failed"
FinishCompensation(s) ==
  /\ At("undoing")
  /\ \E p \in {"ok", "failed"} :
       /\ In(<<"undo", s>>, p)
       /\ undo' = [undo EXCEPT ![s] = IF @ = "registered" THEN Outcome(p) ELSE @]
       /\ Yield("undo", round.outcome)
  /\ UNCHANGED <<leaves, branch, saga, wake, result, crashes>>

Conclude ==
  /\ At("undo") /\ ~Missing /\ Registered = {}
  /\ IF \E s \in 1..Steps : undo[s] = "failed"
     THEN SagaState("compensation-failed", CompensationFailed)
     ELSE SagaState("compensated", round.outcome)
  /\ Yield("return", saga'.failure)
  /\ UNCHANGED <<leaves, branch, undo, wake, result, crashes>>

\* The engine records how the execution ended.
Return ==
  /\ At("return")
  /\ result' = round.outcome
  /\ round' = Idle
  /\ UNCHANGED <<leaves, scopes, wake, crashes>>

SuspendLeaf ==
  /\ At("leaf") \/ At("undoing")
  /\ \E c \in Leaves : Blocked(c)
  /\ Suspend

Saga ==
  \/ OpenSaga \/ CallStep \/ RegisterCompensation \/ StepFails \/ HandlerReturns
  \/ Commits \/ RollsBack \/ MissingCallback \/ Compensate \/ Conclude \/ Return \/ SuspendLeaf
  \/ \E c \in Forward : LeafEnds(c)
  \/ \E s \in 1..Steps : FinishCompensation(s)
-----------------------------------------------------------------------------
\* The engine, the workers and the dispatcher.

StartRound ==
  /\ At("idle") /\ wake /\ result = None
  /\ round' = Round
  /\ wake' = FALSE
  /\ UNCHANGED <<leaves, scopes, result, crashes>>

Crash ==
  /\ ~At("idle")
  /\ crashes < MaxCrashes
  /\ crashes' = crashes + 1
  /\ round' = Idle
  /\ wake' = TRUE
  /\ UNCHANGED <<leaves, scopes, result>>

\* A receipt is committed, with the retry row of a failure that has attempts
\* left; then the engine hears of it.
Answer(c) ==
  /\ work[c].attempt > 0 /\ work[c].answer = "none"
  /\ \E a \in {"ok", "retryable", "fatal"} :
       /\ work' = [work EXCEPT ![c].answer = a]
       /\ alarm' = IF a = "retryable" /\ work[c].attempt < MaxAttempts[c]
                   THEN [alarm EXCEPT ![c] = "armed"] ELSE alarm
  /\ UNCHANGED <<command, scopes, round, wake, result, crashes>>

Tell(c) ==
  /\ work[c].answer # "none" /\ ~work[c].heard
  /\ work' = [work EXCEPT ![c].heard = TRUE]
  /\ wake' = TRUE
  /\ UNCHANGED <<command, alarm, scopes, round, result, crashes>>

\* The deadline of a sleep or of a retry passes.
Elapse(c) ==
  /\ alarm[c] = "armed"
  /\ alarm' = [alarm EXCEPT ![c] = "due"]
  /\ UNCHANGED <<command, work, scopes, round, wake, result, crashes>>

\* The dispatcher reads what is due, completes the deferred, then marks the row;
\* it may die in between and come again.
DueTimers == {c \in Timers : alarm[c] = "due"}
PendingRetries == {c \in Leaves \ Timers : alarm[c] = "due"}
Deliver(c) ==
  /\ c \in DueTimers \cup PendingRetries
  /\ work' = [work EXCEPT ![c].rung = TRUE]
  /\ wake' = (wake \/ ~work[c].rung)
  /\ UNCHANGED <<command, alarm, scopes, round, result, crashes>>

Delivered(c) ==
  /\ alarm[c] = "due" /\ work[c].rung
  /\ alarm' = [alarm EXCEPT ![c] = "delivered"]
  /\ UNCHANGED <<command, work, scopes, round, wake, result, crashes>>

Progress == StartRound \/ Saga \/ Group \/ \E c \in Leaves : Perform(c)
Outside(c) == Answer(c) \/ Tell(c) \/ Elapse(c) \/ Deliver(c) \/ Delivered(c)

Next ==
  \/ StartRound \/ Saga \/ Group \/ Crash
  \/ \E c \in Leaves : Perform(c) \/ Outside(c)

Spec == Init /\ [][Next]_vars

\* Rounds run on, workers answer, time passes and the dispatcher comes round.
Fairness ==
  /\ WF_vars(Progress)
  /\ \A c \in Leaves :
       WF_vars(Answer(c)) /\ WF_vars(Tell(c)) /\ WF_vars(Elapse(c)) /\ WF_vars(Deliver(c))
FairSpec == Spec /\ Fairness
-----------------------------------------------------------------------------
Failures == Leaves \cup {CompensationFailed, NonDeterministic}

\* The journal and the engine hold what they should; no attempt beyond the
\* policy is offered.
TypeOK ==
  /\ command \in [Leaves -> {"none", "scheduled", "completed", "failed"}]
  /\ \A c \in Leaves :
       /\ work[c] \in [attempt: 0..MaxAttempts[c], answer: {"none", "ok", "retryable", "fatal"},
                       heard: BOOLEAN, rung: BOOLEAN]
       /\ command[c] = "none" => work[c] = Unasked /\ alarm[c] = "none"
  /\ alarm \in [Leaves -> {"none", "armed", "due", "delivered"}]
  /\ branch \in [1..Branches -> {"none", "pending", "running", "completed", "failed"}]
  /\ saga.state \in {"none", "running", "compensating"} \cup Final
  /\ saga.failure \in Failures \cup {None}
  /\ undo \in [1..Steps -> {"none", "registered", "completed", "failed"}]
  /\ round = Idle \/ DOMAIN round = DOMAIN Round
  /\ result \in Failures \cup {None, Ok}
  /\ crashes \in 0..MaxCrashes

\* A group never has more branches admitted than its limit: a waiting branch keeps
\* its place through a suspension, a crash and inside a round. It answers when all
\* its branches have ended, with the failure of the first in key order, whichever
\* came first in time; a saga step that succeeded had every branch succeed.
AdmissionBound == Cardinality(Rows("running")) <= Concurrency
GroupSettles ==
  /\ \A s \in 1..Steps : Body[s] = "group" /\ undo[s] # "none" => Rows("completed") = 1..Branches
  /\ saga.failure \in Branch => Settled /\ saga.failure[2] = Least(Rows("failed"))
GroupIsSound == AdmissionBound /\ GroupSettles

\* The next attempt of an activity starts after the deadline the failure of
\* this one has set, never on what woke an earlier attempt.
BackoffIsWaited ==
  [][\A c \in Leaves : work'[c].attempt > work[c].attempt /\ work[c].attempt > 0 =>
       work[c].answer = "retryable" /\ alarm[c] \in {"due", "delivered"}]_vars

\* When the scope has failed, every step that took effect was undone, or its
\* undo has failed for good: through suspensions, crashes between the result
\* of a step and its registration, and undos that fail.
TookEffect(s) ==
  IF Body[s] = "group" THEN Rows("completed") = 1..Branches /\ Branches > 0
  ELSE \A c \in Forward : c[2] = s => command[c] = "completed"
EffectsUndone ==
  result \notin {None, Ok, NonDeterministic} =>
    \A s \in 1..Steps : TookEffect(s) => undo[s] \in {"completed", "failed"}

\* "Replay reconstructs callbacks from the same versioned handler"
\* (docs/architecture.md:146): no rollback ends for want of a callback. Does not
\* hold for a handler that has caught the failure of a step (README, section 6).
CallbacksReconstructed == result # NonDeterministic

\* StructuredScopes implements Rollback.
Stack == INSTANCE Rollback WITH
  Steps <- 1..Steps,
  phase <- CASE saga.state \in {"none", "running"} -> "forward"
             [] saga.state = "compensating" -> "rollback"
             [] saga.state = "completed" -> "committed"
             [] OTHER -> "rolledBack",
  stack <- Registered
RollbackSpec == Stack!Spec

\* No order of answers, suspensions, wake-ups and crashes leaves a scope
\* asleep with free places or undone work.
ScopeEnds == <>(result # None)
=============================================================================
