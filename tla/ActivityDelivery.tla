-------------------------- MODULE ActivityDelivery --------------------------
(***************************************************************************)
(* The activity transport of better-workflows: the delivery rows of one    *)
(* queue, the claim rows that fence business attempts, the leased permits  *)
(* of a queue with shared limits, the dead letters, the worker loop that   *)
(* walks through them, and as much of the owning run and of the command    *)
(* interpreter as decides whether an activity may still be answered.       *)
(*                                                                         *)
(* A SQL transaction is one action: those that touch a run start by        *)
(* updating its row (Journal.lockRun), the others are single statements.   *)
(* Between two transactions a worker, the interpreter, the dispatcher and  *)
(* an administrator interleave freely.                                     *)
(*                                                                         *)
(* A lease is the time it has left: lease_until > now is left > 0, and     *)
(* acquired_at <= now - lease is left = 0. Tick lets time pass.            *)
(***************************************************************************)
EXTENDS Naturals, FiniteSets

CONSTANTS
  Runs,          \* workflow executions
  Acts,          \* business attempts of activity steps: (execution, step, attempt)
  RunOf,         \* the execution that owns each attempt
  KeyOf,         \* the concurrency key of each attempt
  Invocations,   \* one turn of a worker loop, with the two tokens it draws
  Nobody,        \* a NULL owner column
  NoAct,         \* a NULL wait_step
  NoLimit,       \* a NULL global_limit or key_limit
  GlobalLimit,   \* globalConcurrency of the queue, or NoLimit
  KeyLimit,      \* perKeyConcurrency of the queue, or NoLimit
  MaxAttempts,   \* deadLetter.maxDeliveryAttempts
  Lease,         \* lease.duration, in ticks
  MaxRequeues,   \* bound of the model: requeues of one attempt
  Unroutable     \* attempts some deployed workers have no handler for

Limits == (Nat \ {0}) \cup {NoLimit}

ASSUME ActsAssumption == RunOf \in [Acts -> Runs] /\ NoAct \notin Acts
ASSUME TokenAssumption == Nobody \notin Invocations
ASSUME LimitsAssumption == GlobalLimit \in Limits /\ KeyLimit \in Limits
ASSUME BoundsAssumption ==
  MaxAttempts \in Nat \ {0} /\ Lease \in Nat \ {0} /\ MaxRequeues \in Nat
ASSUME RoutingAssumption == Unroutable \subseteq Acts

\* Delivery 0 is the interpreter's offer; delivery k is the k-th requeue, offered
\* for the dead letter of delivery k - 1 (its dead_letter_id).
Deliveries == 0..MaxRequeues

VARIABLES
  delivery,   \* better_workflows_activity_deliveries
  dead,       \* better_workflows_dead_letters: state of the one of each delivery
  claim,      \* better_workflows_claims
  permit,     \* better_workflows_permits
  run,        \* better_workflows_runs: state, control, wait_step
  ended,      \* better_workflows_reconciliations: how the engine finished the run
  step,       \* interpreter: how far the command of each attempt has come
  answer,     \* external: the DurableDeferred the interpreter awaits
  worker      \* worker: program counter, delivery at hand and outcome

rows == <<delivery, dead, claim, permit>>
vars == <<delivery, dead, claim, permit, run, ended, step, answer, worker>>

Outcomes == {"ok", "fail", "cancelled"}
TerminalStates == {"completed", "failed", "cancelled"}
WorkerSteps == {"idle", "taken", "admit", "blocked", "working", "finishing",
                "lost", "retry", "settle", "ack"}

NoDelivery == [state |-> "none", attempts |-> 0, by |-> Nobody, left |-> 0]
NoClaim == [state |-> "none", number |-> 0, owner |-> Nobody, left |-> 0,
            outcome |-> "none"]
NoPermit == [owner |-> Nobody, left |-> 0]
Idle == [at |-> "idle", act |-> NoAct, gen |-> 0, number |-> 0,
         outcome |-> "none"]

DeliveryRow == [state : {"none", "pending", "processing", "completed", "failed"},
                attempts : 0..MaxAttempts, by : Invocations \cup {Nobody}, left : 0..Lease]
LetterState == {"none", "open", "requeued", "resolved", "discarded"}
ClaimRow == [state : {"none", "running", "completed"}, number : 0..MaxAttempts,
             owner : Invocations \cup {Nobody}, left : 0..Lease,
             outcome : Outcomes \cup {"none"}]
PermitRow == [owner : Invocations \cup {Nobody}, left : 0..Lease]
RunRow == [state : {"accepted", "waiting", "running", "blocked"} \cup TerminalStates,
           control : {"run", "cancel"}, wait : Acts \cup {NoAct}]
WorkerTurn == [at : WorkerSteps, act : Acts \cup {NoAct}, gen : Deliveries,
               number : 0..MaxAttempts, outcome : Outcomes \cup {"none"}]

\* Every row and program counter is one the code can write.
TypeOK ==
  /\ delivery \in [Acts -> [Deliveries -> DeliveryRow]]
  /\ dead \in [Acts -> [Deliveries -> LetterState]]
  /\ claim \in [Acts -> ClaimRow]
  /\ permit \in [Acts -> PermitRow]
  /\ run \in [Runs -> RunRow]
  /\ ended \in [Runs -> {"none", "completed", "failed"}]
  /\ step \in [Acts -> {"idle", "gated", "begun", "cleared", "offered", "done"}]
  /\ answer \in [Acts -> Outcomes \cup {"none"}]
  /\ worker \in [Invocations -> WorkerTurn]

Init ==
  /\ delivery = [a \in Acts |-> [k \in Deliveries |-> NoDelivery]]
  /\ dead = [a \in Acts |-> [k \in Deliveries |-> "none"]]
  /\ claim = [a \in Acts |-> NoClaim]
  /\ permit = [a \in Acts |-> NoPermit]
  /\ run = [r \in Runs |-> [state |-> "accepted", control |-> "run", wait |-> NoAct]]
  /\ ended = [r \in Runs |-> "none"]
  /\ step = [a \in Acts |-> "idle"]
  /\ answer = [a \in Acts |-> "none"]
  /\ worker = [i \in Invocations |-> Idle]

-----------------------------------------------------------------------------
(* Helpers: runs and dead letters. *)

Terminal(r) == run[r].state \in TerminalStates
Closed(r) == run[r].control = "cancel" \/ Terminal(r)
ActsOf(r) == {a \in Acts : RunOf[a] = r}

ActiveStates == {"open", "requeued"}
HasActive(d, r) == \E a \in ActsOf(r), k \in Deliveries : d[a][k] \in ActiveStates

\* An update of the run row that every caller guards with a non-terminal state.
SetRun(r, state, wait) ==
  run' = IF Terminal(r) THEN run
         ELSE [run EXCEPT ![r].state = state, ![r].wait = wait]

\* The tokens of an invocation are fresh UUIDs: i may start a turn only when no
\* row still carries it. The owner of a completed claim is never compared again.
Fresh(i) ==
  /\ worker[i].at = "idle"
  /\ \A a \in Acts : /\ \A k \in Deliveries : delivery[a][k].by # i
                     /\ claim[a].owner # i
                     /\ permit[a].owner # i

-----------------------------------------------------------------------------
(* Helpers: delivery rows. *)

Pending(n) == [state |-> "pending", attempts |-> n, by |-> Nobody, left |-> 0]
Live(d) == d.state \in {"pending", "processing"}
Expired(d) == d.state = "processing" /\ d.left = 0
Acquire(d, i) == [state |-> "processing", attempts |-> d.attempts + 1,
                  by |-> i, left |-> Lease]
Pend(d) == Pending(d.attempts)
Unattempt(d) == Pending(IF d.attempts > 0 THEN d.attempts - 1 ELSE 0)
Close(d, state) == [state |-> state, attempts |-> d.attempts, by |-> Nobody, left |-> 0]

\* Fault: the attempt limit is not checked.
CanTakeUncapped(d) == d.state = "pending" \/ Expired(d)
CanTake(d) == d.attempts < MaxAttempts /\ (d.state = "pending" \/ Expired(d))

\* Fault: deliveries whose worker died on the last attempt are not swept.
SpentPendingOnly(d) == d.attempts >= MaxAttempts /\ d.state = "pending"
Spent(d) == d.attempts >= MaxAttempts /\ (d.state = "pending" \/ Expired(d))

\* Fault: a requeued delivery counts its attempts from zero.
RequeueFromZero(a, k) == 0
\* The attempt counter a requeued delivery starts with.
InitialAttempt(a, k) == delivery[a][k].attempts

\* The worker's delivery row: does it still belong to it (state and acquired_by)?
Row(i) == delivery[worker[i].act][worker[i].gen]
Holds(i) == Row(i).state = "processing" /\ Row(i).by = i

\* Fail every unfinished delivery, and discard every active dead letter, of a run.
FailDeliveries(r) ==
  delivery' = [a \in Acts |-> [k \in Deliveries |->
    IF RunOf[a] = r /\ Live(delivery[a][k]) THEN Close(delivery[a][k], "failed")
    ELSE delivery[a][k]]]
DiscardLetters(r) ==
  dead' = [a \in Acts |-> [k \in Deliveries |->
    IF RunOf[a] = r /\ dead[a][k] \in ActiveStates THEN "discarded"
    ELSE dead[a][k]]]

-----------------------------------------------------------------------------
(* Helpers: claims and permits. *)

UsesPermits == GlobalLimit # NoLimit \/ KeyLimit # NoLimit

Running(n, i) == [state |-> "running", number |-> n, owner |-> i, left |-> Lease,
                  outcome |-> "none"]
Receipt(c, o) == [state |-> "completed", number |-> c.number, owner |-> Nobody,
                  left |-> 0, outcome |-> o]

Fenced(a, n, i) == /\ claim[a].state = "running"
                   /\ claim[a].number >= n
                   /\ claim[a].owner # i

\* Expired permits are deleted queue-wide under a global limit, per key otherwise.
Purged(a) == [b \in Acts |->
  IF permit[b].left = 0 /\ (GlobalLimit # NoLimit \/ KeyOf[b] = KeyOf[a])
  THEN NoPermit ELSE permit[b]]

Competing(a) == {b \in Acts \ {a} : Purged(a)[b].owner # Nobody}
\* Fault: the key limit is forgotten beside a global one.
AdmissibleGlobalOnly(a) ==
  IF GlobalLimit # NoLimit THEN Cardinality(Competing(a)) < GlobalLimit
  ELSE Cardinality({b \in Competing(a) : KeyOf[b] = KeyOf[a]}) < KeyLimit
Admissible(a) ==
  /\ GlobalLimit # NoLimit => Cardinality(Competing(a)) < GlobalLimit
  /\ KeyLimit # NoLimit =>
       Cardinality({b \in Competing(a) : KeyOf[b] = KeyOf[a]}) < KeyLimit

LiveClaim(a, i) == claim[a].state = "running" /\ claim[a].owner = i /\ claim[a].left > 0
LivePermit(a, i) == UsesPermits => permit[a].owner = i /\ permit[a].left > 0

ReleasePermit(a, i) ==
  IF permit[a].owner = i THEN [permit EXCEPT ![a] = NoPermit] ELSE permit

-----------------------------------------------------------------------------
(* The command interpreter, one activity command per attempt. *)

\* A fresh round of the workflow (first start, resume after a deferred or after
\* a crash of the runner) replays every command from the beginning.
NewRound(r) ==
  /\ ended[r] = "none" /\ ~Closed(r)
  /\ step' = [a \in Acts |-> IF RunOf[a] = r THEN "idle" ELSE step[a]]
  /\ SetRun(r, IF HasActive(dead, r) THEN "blocked" ELSE "running", NoAct)
  /\ UNCHANGED <<rows, ended, answer, worker>>

\* Move a's command forward; the workflow function has not returned yet.
Advance(a, from, to) ==
  /\ ended[RunOf[a]] = "none"
  /\ step[a] = from
  /\ step' = [step EXCEPT ![a] = to]

\* Commands are replayed once the round has set the run running.
Gate(a) ==
  /\ run[RunOf[a]].state # "accepted"
  /\ Advance(a, "idle", "gated") /\ ~Closed(RunOf[a])
  /\ UNCHANGED <<rows, run, ended, answer, worker>>

\* Fault: a replayed command sets the run waiting whatever its dead letters say.
BeginCommandWaiting(a) ==
  /\ Advance(a, "gated", "begun")
  /\ SetRun(RunOf[a], "waiting", a)
  /\ UNCHANGED <<rows, ended, answer, worker>>

BeginCommand(a) ==
  /\ Advance(a, "gated", "begun")
  /\ SetRun(RunOf[a], IF HasActive(dead, RunOf[a]) THEN "blocked" ELSE "waiting", a)
  /\ UNCHANGED <<rows, ended, answer, worker>>

GateAttempt(a) ==
  /\ Advance(a, "begun", "cleared") /\ ~Closed(RunOf[a])
  /\ UNCHANGED <<rows, run, ended, answer, worker>>

\* The gate was read earlier: the run may have been closed since.
Offer(a) ==
  /\ Advance(a, "cleared", "offered")
  /\ delivery' = IF delivery[a][0].state = "none"
                 THEN [delivery EXCEPT ![a][0] = Pending(0)] ELSE delivery
  /\ UNCHANGED <<dead, claim, permit, run, ended, answer, worker>>

FinishCommand(a) ==
  /\ answer[a] # "none"
  /\ Advance(a, "offered", "done")
  /\ IF run[RunOf[a]].wait = a
     THEN SetRun(RunOf[a], IF HasActive(dead, RunOf[a]) THEN "blocked" ELSE "running", NoAct)
     ELSE UNCHANGED run
  /\ UNCHANGED <<rows, ended, answer, worker>>

-----------------------------------------------------------------------------
(* The end of a run: engine result, reconciliation, cancellation. *)

\* The workflow function returned or threw and its result row is enqueued. It may
\* throw at any point of a round, while parallel commands are outstanding.
EndWorkflow(r, result) ==
  /\ ended[r] = "none" /\ run[r].state # "accepted"
  /\ result = "completed" => \A a \in ActsOf(r) : step[a] = "done"
  /\ ended' = [ended EXCEPT ![r] = result]
  /\ UNCHANGED <<rows, run, step, answer, worker>>

CompleteRun(r) ==
  /\ ended[r] # "none" /\ ~Terminal(r)
  /\ SetRun(r, ended[r], NoAct)
  /\ UNCHANGED <<rows, ended, step, answer, worker>>

RequestCancel(r) ==
  /\ ~Closed(r)
  /\ run' = [run EXCEPT ![r].control = "cancel"]
  /\ UNCHANGED <<rows, ended, step, answer, worker>>

\* The dispatcher applies the cancel request: Journal.complete(.., cancelled).
CompleteCancelled(r) ==
  /\ run[r].control = "cancel" /\ ~Terminal(r)
  /\ SetRun(r, "cancelled", NoAct)
  /\ DiscardLetters(r)
  /\ FailDeliveries(r)
  /\ UNCHANGED <<claim, permit, ended, step, answer, worker>>

-----------------------------------------------------------------------------
(* Dead letters. *)

\* Fault: the dead letter is opened without looking at the run.
CreateOpenLetter(a, k) ==
  /\ delivery' = [delivery EXCEPT ![a][k] = Close(@, "failed")]
  /\ dead' = [dead EXCEPT ![a][k] = "open"]
  /\ SetRun(RunOf[a], "blocked", a)

CreateDeadLetter(a, k) ==
  LET r == RunOf[a] IN
  /\ delivery' = [delivery EXCEPT ![a][k] = Close(@, "failed")]
  /\ dead' = [dead EXCEPT ![a] = [j \in Deliveries |->
       IF j = k THEN IF Closed(r) THEN "discarded" ELSE "open"
       ELSE IF j + 1 = k /\ dead[a][j] = "requeued" THEN "resolved"
       ELSE dead[a][j]]]
  /\ IF Closed(r) THEN UNCHANGED run ELSE SetRun(r, "blocked", a)

\* A polling worker found nothing to take and sweeps the spent deliveries.
Exhausted(a, k) ==
  /\ Spent(delivery[a][k])
  /\ CreateDeadLetter(a, k)
  /\ UNCHANGED <<claim, permit, ended, step, answer, worker>>

\* The run stays blocked: its dead letter is still active, as requeued.
Requeue(a, k) ==
  /\ k + 1 \in Deliveries
  /\ dead[a][k] = "open" /\ ~Closed(RunOf[a])
  /\ delivery[a][k + 1].state = "none"
  /\ delivery' = [delivery EXCEPT ![a][k + 1] = Pending(InitialAttempt(a, k))]
  /\ dead' = [dead EXCEPT ![a][k] = "requeued"]
  /\ UNCHANGED <<claim, permit, run, ended, step, answer, worker>>

Discard(a, k) ==
  LET r == RunOf[a] IN
  /\ dead[a][k] \in ActiveStates
  /\ DiscardLetters(r)
  /\ FailDeliveries(r)
  /\ run' = IF Closed(r) THEN run
            ELSE [run EXCEPT ![r] = [state |-> "failed", control |-> "cancel", wait |-> NoAct]]
  /\ UNCHANGED <<claim, permit, ended, step, answer, worker>>

-----------------------------------------------------------------------------
(* The worker loop. *)

Goto(i, at) == worker' = [worker EXCEPT ![i].at = at]
GotoWith(i, at, o) == worker' = [worker EXCEPT ![i].at = at, ![i].outcome = o]
EndTurn(i) == worker' = [worker EXCEPT ![i] = Idle]

Take(i) ==
  /\ Fresh(i)
  /\ \E a \in Acts, k \in Deliveries :
       /\ CanTake(delivery[a][k])
       /\ delivery' = [delivery EXCEPT ![a][k] = Acquire(@, i)]
       /\ worker' = [worker EXCEPT ![i] =
            [at |-> "taken", act |-> a, gen |-> k, outcome |-> "none",
             number |-> delivery[a][k].attempts + 1]]
  /\ UNCHANGED <<dead, claim, permit, run, ended, step, answer>>

\* No handler registered here for the envelope's activity and version.
DeadLetterUnroutable(i) ==
  LET a == worker[i].act IN
  /\ worker[i].at = "taken" /\ a \in Unroutable
  /\ IF Holds(i) THEN CreateDeadLetter(a, worker[i].gen)
                 ELSE UNCHANGED <<delivery, dead, run>>
  /\ EndTurn(i)
  /\ UNCHANGED <<claim, permit, ended, step, answer>>

ReadRun(i) ==
  /\ worker[i].at = "taken"
  /\ IF Closed(RunOf[worker[i].act]) THEN GotoWith(i, "settle", "cancelled")
                                     ELSE Goto(i, "admit")
  /\ UNCHANGED <<rows, run, ended, step, answer>>

ClaimClosed(i) ==
  /\ worker[i].at = "admit" /\ Closed(RunOf[worker[i].act])
  /\ GotoWith(i, "settle", "cancelled")
  /\ UNCHANGED <<rows, run, ended, step, answer>>

\* Fault: a receipt is taken for an answer already given.
AckReceipt(i) ==
  LET a == worker[i].act IN
  /\ worker[i].at = "admit" /\ ~Closed(RunOf[a])
  /\ claim[a].state = "completed"
  /\ GotoWith(i, "ack", claim[a].outcome)
  /\ UNCHANGED <<rows, run, ended, step, answer>>

ClaimReceipt(i) ==
  LET a == worker[i].act IN
  /\ worker[i].at = "admit" /\ ~Closed(RunOf[a])
  /\ claim[a].state = "completed"
  /\ GotoWith(i, "settle", claim[a].outcome)
  /\ UNCHANGED <<rows, run, ended, step, answer>>

ClaimStale(i) ==
  LET a == worker[i].act IN
  /\ worker[i].at = "admit" /\ ~Closed(RunOf[a])
  /\ Fenced(a, worker[i].number, i)
  /\ Goto(i, "retry")
  /\ UNCHANGED <<rows, run, ended, step, answer>>

\* Fault: a completed claim may be claimed again.
MayReclaim(i) ==
  LET a == worker[i].act IN
  /\ worker[i].at = "admit" /\ ~Closed(RunOf[a])
  /\ ~Fenced(a, worker[i].number, i)

\* The claim is admitted to the limits, if the queue has any.
MayClaim(i) ==
  LET a == worker[i].act IN
  /\ worker[i].at = "admit" /\ ~Closed(RunOf[a])
  /\ claim[a].state # "completed" /\ ~Fenced(a, worker[i].number, i)

ClaimBlocked(i) ==
  LET a == worker[i].act IN
  /\ MayClaim(i)
  /\ UsesPermits /\ ~Admissible(a)
  /\ permit' = Purged(a)
  /\ Goto(i, "blocked")
  /\ UNCHANGED <<delivery, dead, claim, run, ended, step, answer>>

ClaimGranted(i) ==
  LET a == worker[i].act IN
  /\ MayClaim(i)
  /\ UsesPermits => Admissible(a)
  /\ claim' = [claim EXCEPT ![a] = Running(worker[i].number, i)]
  /\ permit' = IF UsesPermits
               THEN [Purged(a) EXCEPT ![a] = [owner |-> i, left |-> Lease]]
               ELSE permit
  /\ Goto(i, "working")
  /\ UNCHANGED <<delivery, dead, run, ended, step, answer>>

\* Fault: only the claim is renewed.
RenewClaimOnly(i) ==
  LET a == worker[i].act IN
  /\ worker[i].at = "working"
  /\ LiveClaim(a, i) /\ LivePermit(a, i)
  /\ claim' = [claim EXCEPT ![a].left = Lease]
  /\ UNCHANGED <<delivery, dead, permit, run, ended, step, answer, worker>>

\* The monitor renews the claim and the permit; the delivery row keeps its lease.
Renew(i) ==
  LET a == worker[i].act IN
  /\ worker[i].at = "working"
  /\ LiveClaim(a, i) /\ LivePermit(a, i)
  /\ claim' = [claim EXCEPT ![a].left = Lease]
  /\ permit' = IF UsesPermits THEN [permit EXCEPT ![a].left = Lease] ELSE permit
  /\ UNCHANGED <<delivery, dead, run, ended, step, answer, worker>>

RenewFails(i) ==
  LET a == worker[i].act IN
  /\ worker[i].at = "working"
  /\ ~(LiveClaim(a, i) /\ LivePermit(a, i))
  /\ Goto(i, "lost")
  /\ UNCHANGED <<rows, run, ended, step, answer>>

HandlerEnds(i, o) ==
  /\ worker[i].at = "working"
  /\ GotoWith(i, "finishing", o)
  /\ UNCHANGED <<rows, run, ended, step, answer>>

MonitorSeesCancel(i) ==
  LET r == RunOf[worker[i].act] IN
  /\ worker[i].at = "working"
  /\ run[r].control = "cancel" \/ run[r].state = "cancelled"
  /\ GotoWith(i, "finishing", "cancelled")
  /\ UNCHANGED <<rows, run, ended, step, answer>>

\* Fault: the worker does not look whether its commit was accepted.
FinishUnchecked(i) ==
  LET a == worker[i].act IN
  /\ worker[i].at = "finishing"
  /\ claim' = IF LiveClaim(a, i) /\ LivePermit(a, i)
              THEN [claim EXCEPT ![a] = Receipt(@, worker[i].outcome)]
              ELSE claim
  /\ permit' = IF UsesPermits THEN ReleasePermit(a, i) ELSE permit
  /\ Goto(i, "settle")
  /\ UNCHANGED <<delivery, dead, run, ended, step, answer>>

Finish(i) ==
  LET a == worker[i].act IN
  /\ worker[i].at = "finishing"
  /\ IF LiveClaim(a, i) /\ LivePermit(a, i)
     THEN /\ claim' = [claim EXCEPT ![a] = Receipt(@, worker[i].outcome)]
          /\ permit' = IF UsesPermits THEN ReleasePermit(a, i) ELSE permit
          /\ Goto(i, "settle")
     ELSE Goto(i, "lost") /\ UNCHANGED <<claim, permit>>
  /\ UNCHANGED <<delivery, dead, run, ended, step, answer>>

\* The scope of execute closes: the finalizer gives the permit back.
ScopeCloses(i) ==
  LET a == worker[i].act IN
  /\ worker[i].at = "lost"
  /\ permit' = IF UsesPermits THEN ReleasePermit(a, i) ELSE permit
  /\ Goto(i, "retry")
  /\ UNCHANGED <<delivery, dead, claim, run, ended, step, answer>>

\* Put the delivery back as row d, if it is still ours.
HandBack(i, d) ==
  /\ delivery' = IF Holds(i)
                 THEN [delivery EXCEPT ![worker[i].act][worker[i].gen] = d]
                 ELSE delivery
  /\ EndTurn(i)
  /\ UNCHANGED <<dead, claim, permit, run, ended, step, answer>>

Retry(i) == worker[i].at = "retry" /\ HandBack(i, Pend(Row(i)))
Release(i) == worker[i].at = "blocked" /\ HandBack(i, Unattempt(Row(i)))

\* External: the engine keeps the first exit a deferred is completed with.
Settle(i) ==
  LET a == worker[i].act IN
  /\ worker[i].at = "settle"
  /\ answer' = [answer EXCEPT ![a] = IF @ = "none" THEN worker[i].outcome ELSE @]
  /\ Goto(i, "ack")
  /\ UNCHANGED <<rows, run, ended, step>>

\* ActivityTransport.complete: acknowledge, resolve the dead letter this delivery
\* was requeued for, unblock the run when no other dead letter is active.
Ack(i) ==
  LET a == worker[i].act  k == worker[i].gen  r == RunOf[a] IN
  /\ worker[i].at = "ack"
  /\ IF Holds(i)
     THEN /\ delivery' = [delivery EXCEPT ![a][k] = Close(@, "completed")]
          /\ dead' = IF k > 0 /\ dead[a][k - 1] = "requeued"
                     THEN [dead EXCEPT ![a][k - 1] = "resolved"] ELSE dead
          /\ run' = IF k > 0 /\ ~HasActive(dead', r) /\ run[r].state = "blocked"
                    THEN [run EXCEPT ![r].state = "waiting"] ELSE run
     ELSE UNCHANGED <<delivery, dead, run>>
  /\ EndTurn(i)
  /\ UNCHANGED <<claim, permit, ended, step, answer>>

\* The process dies: every row stays as it is.
Crash(i) ==
  /\ worker[i].at # "idle"
  /\ EndTurn(i)
  /\ UNCHANGED <<rows, run, ended, step, answer>>

\* A SQL failure or a shutdown unwinds the turn of a claimed activity: only the
\* finalizer runs. Before the claim, unwinding leaves what a crash leaves.
Unwind(i) ==
  /\ worker[i].at \in {"working", "finishing"}
  /\ permit' = IF UsesPermits THEN ReleasePermit(worker[i].act, i) ELSE permit
  /\ EndTurn(i)
  /\ UNCHANGED <<delivery, dead, claim, run, ended, step, answer>>

\* Database time passes for every lease at once, while any lease is running.
Older(x) == [x EXCEPT !.left = IF @ > 0 THEN @ - 1 ELSE 0]

Tick ==
  /\ \E a \in Acts : \/ claim[a].left > 0 \/ permit[a].left > 0
                     \/ \E k \in Deliveries : delivery[a][k].left > 0
  /\ delivery' = [a \in Acts |-> [k \in Deliveries |-> Older(delivery[a][k])]]
  /\ claim' = [a \in Acts |-> Older(claim[a])]
  /\ permit' = [a \in Acts |-> Older(permit[a])]
  /\ UNCHANGED <<dead, run, ended, step, answer, worker>>

-----------------------------------------------------------------------------
Interpreter(a) ==
  Gate(a) \/ BeginCommand(a) \/ GateAttempt(a) \/ Offer(a) \/ FinishCommand(a)
Lifecycle(r) ==
  \/ NewRound(r) \/ CompleteRun(r) \/ RequestCancel(r) \/ CompleteCancelled(r)
  \/ \E result \in {"completed", "failed"} : EndWorkflow(r, result)
Claiming(i) ==
  ClaimClosed(i) \/ ClaimReceipt(i) \/ ClaimStale(i) \/ ClaimBlocked(i) \/ ClaimGranted(i)
Working(i) ==
  RenewFails(i) \/ MonitorSeesCancel(i) \/ \E o \in {"ok", "fail"} : HandlerEnds(i, o)
Concluding(i) ==
  Finish(i) \/ ScopeCloses(i) \/ Retry(i) \/ Release(i) \/ Settle(i) \/ Ack(i)
Turn(i) ==
  DeadLetterUnroutable(i) \/ ReadRun(i) \/ Claiming(i) \/ Working(i) \/ Concluding(i)

Next ==
  \/ \E a \in Acts : Interpreter(a)
  \/ \E r \in Runs : Lifecycle(r)
  \/ \E a \in Acts, k \in Deliveries : Exhausted(a, k) \/ Requeue(a, k) \/ Discard(a, k)
  \/ \E i \in Invocations : Take(i) \/ Turn(i) \/ Renew(i) \/ Crash(i) \/ Unwind(i)
  \/ Tick

Spec == Init /\ [][Next]_vars

\* Worker loops keep turning, handlers end (an activity has a timeout), time
\* passes, and a loop that finds nothing to take sweeps the spent deliveries.
\* Renewals, crashes, requeues, cancellations and replays owe nobody anything.
Fairness ==
  /\ \A i \in Invocations : WF_vars(Turn(i))
  /\ WF_vars(\E i \in Invocations : Take(i))
  /\ \A a \in Acts, k \in Deliveries : WF_vars(Exhausted(a, k))
  /\ WF_vars(Tick)

FairSpec == Spec /\ Fairness

-----------------------------------------------------------------------------
(* Properties. *)

\* A worker that still holds its delivery is never refused as stale: however
\* attempts were counted back by permit waits, carried over by requeues or taken
\* over from crashed workers, the number of the delivery at hand exceeds the one
\* of the running claim. Otherwise a healthy delivery would burn its attempts.
HolderNeverStale ==
  \A i \in Invocations :
    worker[i].at = "admit" /\ Holds(i) => ~Fenced(worker[i].act, worker[i].number, i)

\* An acknowledged delivery has been answered: the engine's deferred was completed
\* before the row became 'completed', so no crash can lose the answer.
AckAfterAnswer ==
  \A a \in Acts, k \in Deliveries : delivery[a][k].state = "completed" => answer[a] # "none"

\* The engine is only told what the claim's receipt says; it is told 'cancelled'
\* only when the run is closed, even if a receipt exists.
AnswerIsReceipt ==
  \A a \in Acts :
    CASE answer[a] \in {"ok", "fail"} ->
           claim[a].state = "completed" /\ claim[a].outcome = answer[a]
      [] answer[a] = "cancelled" -> Closed(RunOf[a])
      [] OTHER -> TRUE

\* A requeued dead letter always has its delivery under way, and an open one has
\* no other delivery under way: work is neither dropped nor delivered twice. A
\* cancelled run leaves no letter behind, not even one created by a worker that
\* had taken its delivery before the cancellation.
LettersTrackDeliveries ==
  /\ \A a \in Acts, k \in Deliveries :
       /\ dead[a][k] = "requeued" => k + 1 \in Deliveries /\ Live(delivery[a][k + 1])
       /\ dead[a][k] = "open" => \A j \in Deliveries : ~Live(delivery[a][j])
       /\ Live(delivery[a][k]) => \A j \in Deliveries \ {k} : ~Live(delivery[a][j])
  /\ \A r \in Runs : run[r].state = "cancelled" => ~HasActive(dead, r)

\* The status of an open run tells the truth about its dead letters: it is
\* 'blocked' exactly while one of them is open or requeued.
BlockedIffActiveLetter ==
  \A r \in Runs : ~Closed(r) => (run[r].state = "blocked" <=> HasActive(dead, r))

\* Invocations that could still commit now: their claim, and permit, are live.
Current(a) == \E i \in Invocations :
                /\ worker[i].at \in {"working", "finishing"} /\ worker[i].act = a
                /\ LiveClaim(a, i)
CurrentActs == {a \in Acts : Current(a)}

\* The shared limits bound the leased ownership: the activities whose invocation
\* holds a live claim, across every process, whatever expired, crashed or was
\* fenced before.
AdmissionBound ==
  /\ GlobalLimit # NoLimit => Cardinality(CurrentActs) <= GlobalLimit
  /\ KeyLimit # NoLimit => \A b \in Acts :
       Cardinality({a \in CurrentActs : KeyOf[a] = KeyOf[b]}) <= KeyLimit

\* Every offered delivery eventually leaves the queue: it is acknowledged or fails
\* into a dead letter, whatever workers crash or wait for permits.
DeliveryEnds ==
  \A a \in Acts, k \in Deliveries : Live(delivery[a][k]) ~> ~Live(delivery[a][k])


\* A dead letter can be requeued with effect (the repository's README.md:310, "can be recovered
\* after a deployment fix"): the delivery it is requeued as may still be taken. Does
\* not hold for letters of exhausted deliveries (README, section 6).
RequeueRecovers ==
  [][\A a \in Acts, k \in Deliveries :
       dead[a][k] = "open" /\ dead'[a][k] = "requeued"
         => CanTake(delivery'[a][k + 1])]_vars

-----------------------------------------------------------------------------
(* The transport implements what ActivityReceipt promises. *)

Receipts == INSTANCE ActivityReceipt WITH
  Results <- {"ok", "fail"}, Cancelled <- "cancelled", None <- "none",
  receipt <- [a \in Acts |-> claim[a].outcome],
  closed <- [r \in Runs |-> Closed(r)]

\* One receipt per attempt, one answer per attempt, the answer is the receipt.
ReceiptSpec == Receipts!Spec

=============================================================================
