---------------------------- MODULE RunLifecycle ----------------------------
(***************************************************************************)
(* The life of workflow executions: acceptance, rounds, control requests,  *)
(* continue-as-new, child workflows and their close policy, the outbox     *)
(* loop that carries all of this between the journal and the workflow      *)
(* engine, the reconciliations and the safety sweep.                       *)
(*                                                                         *)
(* A run is <<chain, generation>>. A handler is deterministic: it starts   *)
(* the child of its run, if there is one, and then does what its plan      *)
(* says. A transaction is one action.                                      *)
(***************************************************************************)
EXTENDS Naturals, FiniteSets

CONSTANTS
  Chains,         \* chains of executions
  Generations,    \* bound of the model: generations of a chain
  Plans,          \* what the handler of each run may do after its child
  Caller,         \* the run that starts a chain as its child, or None
  Detached,       \* chains started with parentClosePolicy: 'abandon'
  Awaited,        \* chains started with child(), not startChild()
  Slots,          \* what execution.workflows.concurrency may be
  Dispatchers,    \* runtimes that run the dispatch loop
  Controls,       \* requests users make: subset of {"run", "pause", "cancel"}
  MaxControls,    \* bound of the model: requests on one run
  MaxCrashes,     \* bound of the model: crashes of rounds and dispatchers
  ReadCommitted,  \* statements of a transaction see commits of others (PostgreSQL)
  None            \* NULL

Runs == Chains \X (1..Generations)
Outcomes == {"completed", "failed", "continue"}

ASSUME CallerAssumption == Caller \in [Chains -> Runs \cup {None}] /\ None \notin Runs
ASSUME ChildAssumption ==
  \A c, d \in Chains : Caller[c] = Caller[d] /\ Caller[c] # None => c = d
ASSUME PlansAssumption ==
  /\ Plans \in [Runs -> SUBSET Outcomes]
  /\ \A r \in Runs : "continue" \in Plans[r] => r[2] < Generations
ASSUME PolicyAssumption == Detached \subseteq Chains /\ Awaited \subseteq Chains
ASSUME RequestAssumption == Controls \subseteq {"run", "pause", "cancel"} /\ ReadCommitted \in BOOLEAN
ASSUME BoundAssumption == Generations \in Nat \ {0} /\ MaxControls \in Nat /\ MaxCrashes \in Nat
ASSUME SlotsAssumption == Slots \subseteq Nat \ {0}

VARIABLES
  run,      \* better_workflows_runs
  link,     \* better_workflows_children, by the chain of the child
  receipt,  \* better_workflows_reconciliations
  plan,     \* what the handler does after its child
  slots,    \* rounds the process runs at a time
  round,    \* the engine's execution and how far its round is
  wake,     \* external: the execution was resumed since its round began
  stop,     \* external: the execution was interrupted
  told,     \* external: the engine's deferred for the end of a child
  job,      \* dispatcher: what it is doing, with the row it has read
  crashes

journal == <<run, link, receipt>>
engine == <<round, wake, stop, told>>
chosen == <<plan, slots>>
vars == <<run, link, receipt, chosen, round, wake, stop, told, job, crashes>>

Open == {"accepted", "running", "waiting"}
Ends == {"completed", "failed", "cancelled"}
ASSUME NullAssumption == None \notin Ends
Exits == {"completed", "failed", "interrupted"}
Live == {"start", "begin", "call", "schedule", "link", "await", "finish", "next", "continue",
         "return", "answer", "raise", "returned", "raised", "suspend", "stop"}
Suspended == {"paused", "parked"}

RunRow == [state : Open \cup Ends \cup {"none", "continued"}, control : {"run", "pause", "cancel"},
           revision : Nat, applied : Nat, dispatched : BOOLEAN]
Unaccepted == [state |-> "none", control |-> "run", revision |-> 0, applied |-> 0, dispatched |-> FALSE]
Idle == [at |-> "idle"]
Jobs == {Idle}
  \cup [at : {"apply", "cancel", "mark", "sweep"}, run : Runs, row : RunRow]
  \cup [at : {"settled"}, run : Runs]
  \cup [at : {"tell", "delivered"}, child : Chains]
  \cup [at : {"close"}, child : Chains, owner : Runs]

TypeOK ==
  /\ run \in [Runs -> RunRow]
  /\ link \in [Chains -> [linked : BOOLEAN, delivered : BOOLEAN, closed : BOOLEAN]]
  /\ receipt \in [Runs -> [exit : {None, "completed", "failed"}, delivered : BOOLEAN]]
  /\ plan \in [Runs -> Outcomes] /\ slots \in Slots
  /\ round \in [Runs -> {"absent"} \cup Live \cup Suspended \cup Exits]
  /\ wake \in [Runs -> BOOLEAN] /\ stop \in [Runs -> BOOLEAN]
  /\ told \in [Chains -> Ends \cup {None}]
  /\ job \in [Dispatchers -> Jobs]
  /\ crashes \in 0..MaxCrashes

Init ==
  /\ run = [r \in Runs |-> Unaccepted]
  /\ link = [c \in Chains |-> [linked |-> FALSE, delivered |-> FALSE, closed |-> FALSE]]
  /\ receipt = [r \in Runs |-> [exit |-> None, delivered |-> FALSE]]
  /\ plan \in [Runs -> Outcomes] /\ \A r \in Runs : plan[r] \in Plans[r]
  /\ slots \in Slots
  /\ round = [r \in Runs |-> "absent"]
  /\ wake = [r \in Runs |-> FALSE] /\ stop = [r \in Runs |-> FALSE]
  /\ told = [c \in Chains |-> None]
  /\ job = [d \in Dispatchers |-> Idle]
  /\ crashes = 0

-----------------------------------------------------------------------------
(* The journal. *)

First(c) == <<c, 1>>
NextOf(r) == <<r[1], r[2] + 1>>
IsOpen(r) == run[r].state \in Open
Terminal(r) == run[r].state \in Ends \cup {"continued"}
\* followContinuation: the generation that was not continued.
Last(c) == CHOOSE r \in Runs : /\ r[1] = c /\ run[r].state # "none"
                               /\ run[r].state # "continued"
Accepted(state) == [Unaccepted EXCEPT !.state = state]
Children(r) == {c \in Chains : Caller[c] = r}

SetState(r, state) == run' = [run EXCEPT ![r].state = state]
\* Updates guarded by "state NOT IN ('continued', 'completed', 'failed', 'cancelled')".
SetOpen(r, state) == run' = IF IsOpen(r) THEN [run EXCEPT ![r].state = state] ELSE run
Complete(r, end) == SetOpen(r, end)

Requestable(r, action) == IsOpen(r) /\ run[r].control \notin {action, "cancel"}
\* Journal.control, of a user or of closeChildren.
Request(r, action) ==
  run' = IF Requestable(r, action)
         THEN [run EXCEPT ![r].control = action, ![r].revision = @ + 1] ELSE run

-----------------------------------------------------------------------------
(* Clients. *)

Accept(c) ==
  /\ Caller[c] = None /\ run[First(c)].state = "none"
  /\ run' = [run EXCEPT ![First(c)] = Accepted("accepted")]
  /\ UNCHANGED <<link, receipt, chosen, engine, job, crashes>>

Control(r, action) ==
  /\ Requestable(r, action) /\ run[r].revision < MaxControls
  /\ Request(r, action)
  /\ UNCHANGED <<link, receipt, chosen, engine, job, crashes>>

-----------------------------------------------------------------------------
(* Rounds: runtime.execute and the interpreter. *)

Go(r, at) == round' = [round EXCEPT ![r] = at]
\* A round holds a slot of the process from its first gate to its end; an execution
\* that is suspended holds none.
Occupying == Live \ {"start", "returned", "raised"}
\* Fault: an execution keeps its slot while it is suspended.
SlotKept(r) ==
  round[r] = "start" => Cardinality({x \in Runs : round[x] \in Occupying \cup {"parked"}}) < slots
HasSlot(r) ==
  round[r] = "start" => Cardinality({x \in Runs : round[x] \in Occupying}) < slots
Gated == [start |-> "begin", call |-> "schedule", next |-> "continue", return |-> "answer"]

\* Fault: a pause interrupts like a cancel.
GateStops(r) ==
  /\ round[r] \in DOMAIN Gated /\ HasSlot(r)
  /\ Go(r, IF run[r].control # "run" \/ Terminal(r) THEN "stop" ELSE Gated[round[r]])
  /\ UNCHANGED <<journal, chosen, wake, stop, told, job, crashes>>

\* gate: stop a cancelled or ended run, suspend a paused one, or go on. The step
\* that follows acts on what was read here.
Gate(r) ==
  /\ round[r] \in DOMAIN Gated /\ HasSlot(r)
  /\ Go(r, CASE run[r].control = "cancel" \/ Terminal(r) -> "stop"
             [] run[r].control = "pause" /\ ~Terminal(r) -> "suspend"
             [] OTHER -> Gated[round[r]])
  /\ UNCHANGED <<journal, chosen, wake, stop, told, job, crashes>>

\* After the child, the handler does what it planned.
Planned(r) == CASE plan[r] = "continue" -> "next"
                [] plan[r] = "completed" -> "return"
                [] OTHER -> "raise"

\* Journal.running.
Running(r) ==
  /\ round[r] = "begin"
  /\ SetOpen(r, "running")
  /\ Go(r, IF Children(r) = {} THEN Planned(r) ELSE "call")
  /\ UNCHANGED <<link, receipt, chosen, wake, stop, told, job, crashes>>

BeginCommand(r) ==
  /\ round[r] = "schedule"
  /\ SetOpen(r, "waiting") /\ Go(r, "link")
  /\ UNCHANGED <<link, receipt, chosen, wake, stop, told, job, crashes>>

\* linkChild: accept the child and link it, once; the parent may have ended.
LinkChild(r) ==
  \E c \in Children(r) :
    /\ round[r] = "link"
    /\ run' = IF run[First(c)].state = "none"
              THEN [run EXCEPT ![First(c)] = Accepted("accepted")] ELSE run
    /\ link' = [link EXCEPT ![c].linked = TRUE]
    /\ Go(r, IF c \in Awaited THEN "await" ELSE "finish")
    /\ UNCHANGED <<receipt, chosen, wake, stop, told, job, crashes>>

\* Fault: the row of the child is asked instead of the deferred.
AwaitFirst(r) ==
  \E c \in Children(r) :
    /\ round[r] = "await"
    /\ Go(r, IF Terminal(First(c)) THEN "finish" ELSE "parked")
    /\ UNCHANGED <<journal, chosen, wake, stop, told, job, crashes>>

AwaitChild(r) ==
  \E c \in Children(r) :
    /\ round[r] = "await"
    /\ Go(r, IF told[c] = None THEN "parked" ELSE "finish")
    /\ UNCHANGED <<journal, chosen, wake, stop, told, job, crashes>>

FinishCommand(r) ==
  /\ round[r] = "finish"
  /\ run' = IF run[r].state = "waiting" THEN [run EXCEPT ![r].state = "running"] ELSE run
  /\ Go(r, Planned(r))
  /\ UNCHANGED <<link, receipt, chosen, wake, stop, told, job, crashes>>

\* Fault: a control request is not looked at again.
UncheckedContinue(r) ==
  /\ round[r] = "continue"
  /\ IF IsOpen(r)
     THEN /\ run' = [run EXCEPT ![r].state = "continued", ![NextOf(r)] = Accepted("accepted")]
          /\ Go(r, "stop")
     ELSE run' = run /\ Go(r, "raise")
  /\ UNCHANGED <<link, receipt, chosen, wake, stop, told, job, crashes>>

\* continueAsNew: open the next generation, or reject the handler's promise when
\* the run was closed or any control request came after the gate. The handler may
\* catch the rejection and return.
ContinueAsNew(r) ==
  /\ round[r] = "continue"
  /\ \/ /\ IsOpen(r) /\ run[r].control = "run"
        /\ run' = [run EXCEPT ![r].state = "continued", ![NextOf(r)] = Accepted("accepted")]
        /\ Go(r, "stop")
     \/ /\ ~IsOpen(r) \/ run[r].control # "run"
        /\ run' = run
        /\ \E at \in {"raise", "return"} : Go(r, at)
  /\ UNCHANGED <<link, receipt, chosen, wake, stop, told, job, crashes>>

\* enqueueReconciliation keeps the first result. A handler that returned has passed
\* the gate once more.
Enqueue(r) ==
  /\ round[r] \in {"answer", "raise"}
  /\ receipt' = IF receipt[r].exit # None THEN receipt
                ELSE [receipt EXCEPT ![r].exit = IF round[r] = "answer" THEN "completed" ELSE "failed"]
  /\ Go(r, IF round[r] = "answer" THEN "returned" ELSE "raised")
  /\ UNCHANGED <<run, link, chosen, wake, stop, told, job, crashes>>

-----------------------------------------------------------------------------
(* External: the engine. *)

Exit(r) ==
  /\ \/ round[r] = "returned" /\ Go(r, "completed")
     \/ round[r] = "raised" /\ Go(r, "failed")
     \/ round[r] = "suspend" /\ Go(r, "paused")
     \/ round[r] = "stop" /\ Go(r, "interrupted")
  /\ UNCHANGED <<journal, chosen, wake, stop, told, job, crashes>>

\* An interrupt reaches the round, wherever it is.
Interrupted(r) ==
  /\ stop[r] /\ round[r] \in Live \cup Suspended
  /\ Go(r, "interrupted")
  /\ UNCHANGED <<journal, chosen, wake, stop, told, job, crashes>>

Replay(r) ==
  /\ wake[r] /\ round[r] \in Suspended
  /\ Go(r, "start") /\ wake' = [wake EXCEPT ![r] = FALSE]
  /\ UNCHANGED <<journal, chosen, stop, told, job, crashes>>

\* The process of a round dies: the engine begins the round again elsewhere.
CrashRound(r) ==
  /\ round[r] \in Live /\ crashes < MaxCrashes
  /\ Go(r, "start") /\ crashes' = crashes + 1
  /\ UNCHANGED <<journal, chosen, wake, stop, told, job>>

Execute(r) == round' = [round EXCEPT ![r] = IF @ = "absent" THEN "start" ELSE @]
Resume(r) == wake' = [wake EXCEPT ![r] = @ \/ round[r] \in Live \cup Suspended]
Interrupt(r) == stop' = [stop EXCEPT ![r] = @ \/ round[r] \in Live \cup Suspended]

-----------------------------------------------------------------------------
(* The dispatch loop. *)

Work(d, j) == job' = [job EXCEPT ![d] = j]
At(d, at) == job[d].at = at

\* pendingDispatch: runs not dispatched yet or with requests not applied yet.
PendingDispatch == {r \in Runs :
  /\ ~run[r].dispatched \/ run[r].revision > run[r].applied
  /\ run[r].control # "pause"
  /\ \/ IsOpen(r)
     \/ run[r].state = "failed" /\ run[r].control = "cancel" /\ run[r].revision > run[r].applied}

Fetch(d) ==
  /\ At(d, "idle")
  /\ \E r \in PendingDispatch : Work(d, [at |-> "apply", run |-> r, row |-> run[r]])
  /\ UNCHANGED <<journal, chosen, engine, crashes>>

\* Tell the engine what the row, as it was read, asks for.
Apply(d) ==
  LET r == job[d].run  row == job[d].row IN
  /\ At(d, "apply")
  /\ \/ /\ row.control = "cancel"
        /\ IF row.dispatched THEN Interrupt(r) ELSE UNCHANGED stop
        /\ Work(d, [job[d] EXCEPT !.at = IF row.state = "failed" THEN "mark" ELSE "cancel"])
        /\ UNCHANGED <<round, wake>>
     \/ /\ row.control # "cancel" /\ ~row.dispatched
        /\ Execute(r)
        /\ Work(d, [job[d] EXCEPT !.at = "mark"])
        /\ UNCHANGED <<wake, stop>>
     \/ /\ row.control # "cancel" /\ row.dispatched
        /\ Resume(r)
        /\ Work(d, [job[d] EXCEPT !.at = "mark"])
        /\ UNCHANGED <<round, stop>>
  /\ UNCHANGED <<journal, chosen, told, crashes>>

\* Journal.dispatched, with the revision that was read.
Mark(d) ==
  LET r == job[d].run  row == job[d].row IN
  /\ At(d, "mark")
  /\ run' = IF run[r].applied <= row.revision
            THEN [run EXCEPT ![r].dispatched = TRUE, ![r].applied = row.revision] ELSE run
  /\ Work(d, Idle)
  /\ UNCHANGED <<link, receipt, chosen, engine, crashes>>

CompleteCancelled(d) ==
  /\ At(d, "cancel")
  /\ Complete(job[d].run, "cancelled")
  /\ Work(d, Idle)
  /\ UNCHANGED <<link, receipt, chosen, engine, crashes>>

\* pendingReconciliations: end the run as its handler did, then mark the receipt.
Settle(d) ==
  /\ At(d, "idle")
  /\ \E r \in Runs : /\ receipt[r].exit # None /\ ~receipt[r].delivered
                     /\ Complete(r, receipt[r].exit)
                     /\ Work(d, [at |-> "settled", run |-> r])
  /\ UNCHANGED <<link, receipt, chosen, engine, crashes>>

ReconciliationDelivered(d) ==
  /\ At(d, "settled")
  /\ receipt' = [receipt EXCEPT ![job[d].run].delivered = TRUE]
  /\ Work(d, Idle)
  /\ UNCHANGED <<run, link, chosen, engine, crashes>>

\* The safety sweep, for executions that ended without a reconciliation: read the
\* row, poll the engine, end the run by what the row said.
Sweep(d) ==
  /\ At(d, "idle")
  /\ \E r \in Runs : /\ run[r].dispatched /\ IsOpen(r)
                     /\ Work(d, [at |-> "sweep", run |-> r, row |-> run[r]])
  /\ UNCHANGED <<journal, chosen, engine, crashes>>

ReconcileSweep(d) ==
  LET r == job[d].run  row == job[d].row IN
  /\ At(d, "sweep")
  /\ IF round[r] \notin Exits THEN run' = run
     ELSE Complete(r, CASE round[r] = "completed" -> "completed"
                        [] round[r] # "completed" /\ row.control = "cancel" -> "cancelled"
                        [] OTHER -> "failed")
  /\ Work(d, Idle)
  /\ UNCHANGED <<link, receipt, chosen, engine, crashes>>

\* readyChildren and followContinuation: the chain of the child has ended.
Ready(c) ==
  LET parent == Caller[c] IN
  /\ link[c].linked /\ ~link[c].delivered
  /\ IsOpen(parent) /\ run[parent].control # "cancel"
  /\ Terminal(First(c)) /\ run[Last(c)].state \in Ends

FetchReady(d) ==
  /\ At(d, "idle")
  /\ \E c \in Chains : Ready(c) /\ Work(d, [at |-> "tell", child |-> c])
  /\ UNCHANGED <<journal, chosen, engine, crashes>>

\* The parent may have ended since it was read. A deferred keeps its first exit.
TellParent(d) ==
  LET c == job[d].child IN
  /\ At(d, "tell")
  /\ told' = [told EXCEPT ![c] = IF @ = None THEN run[Last(c)].state ELSE @]
  /\ Resume(Caller[c])
  /\ Work(d, [job[d] EXCEPT !.at = "delivered"])
  /\ UNCHANGED <<journal, chosen, round, stop, crashes>>

ChildDelivered(d) ==
  /\ At(d, "delivered")
  /\ link' = [link EXCEPT ![job[d].child].delivered = TRUE]
  /\ Work(d, Idle)
  /\ UNCHANGED <<run, receipt, chosen, engine, crashes>>

\* Fault: a parent that ends does not close its children.
OrphanedByCancel(c) == link[c].linked /\ ~link[c].closed /\ run[Caller[c]].control = "cancel"
Orphaned(c) ==
  LET parent == Caller[c] IN
  link[c].linked /\ ~link[c].closed /\ (run[parent].control = "cancel" \/ Terminal(parent))

\* Fault: the continuation is not followed.
CloseFirst(c, owner) ==
  /\ IF c \in Detached THEN run' = run ELSE Request(First(c), "cancel")
  /\ link' = [link EXCEPT ![c].closed = TRUE]

CloseChild(c, owner) ==
  /\ IF c \in Detached THEN run' = run ELSE Request(owner, "cancel")
  /\ link' = [link EXCEPT ![c].closed = TRUE]

\* closeChildren looks up the open generation of the child and cancels it, one
\* transaction that takes effect when it commits. When statements see other commits,
\* the generation it looked up may have been continued by then.
FollowContinuation(d) ==
  /\ At(d, "idle")
  /\ \E c \in Chains : Orphaned(c) /\ Work(d, [at |-> "close", child |-> c, owner |-> Last(c)])
  /\ UNCHANGED <<journal, chosen, engine, crashes>>

CloseChildren(d) ==
  LET c == job[d].child IN
  /\ At(d, "close")
  /\ CloseChild(c, IF ReadCommitted THEN job[d].owner ELSE Last(c))
  /\ Work(d, Idle)
  /\ UNCHANGED <<receipt, chosen, engine, crashes>>

CrashDispatcher(d) ==
  /\ ~At(d, "idle") /\ crashes < MaxCrashes
  /\ Work(d, Idle) /\ crashes' = crashes + 1
  /\ UNCHANGED <<journal, chosen, engine>>

-----------------------------------------------------------------------------
Command(r) == Gate(r) \/ Running(r) \/ BeginCommand(r) \/ LinkChild(r) \/ AwaitChild(r)
  \/ FinishCommand(r) \/ ContinueAsNew(r) \/ Enqueue(r)
Engine(r) == Exit(r) \/ Interrupted(r) \/ Replay(r)
Continued(d) == Apply(d) \/ Mark(d) \/ CompleteCancelled(d) \/ ReconciliationDelivered(d)
  \/ ReconcileSweep(d) \/ TellParent(d) \/ ChildDelivered(d) \/ CloseChildren(d)

Next ==
  \/ \E c \in Chains : Accept(c)
  \/ \E r \in Runs : Command(r) \/ Engine(r) \/ CrashRound(r) \/ \E a \in Controls : Control(r, a)
  \/ \E d \in Dispatchers : \/ Fetch(d) \/ Settle(d) \/ Sweep(d) \/ FetchReady(d) \/ FollowContinuation(d)
                            \/ Continued(d) \/ CrashDispatcher(d)

Spec == Init /\ [][Next]_vars

\* Rounds run on, and a dispatch loop visits every kind of work in each pass. Nobody
\* has to start, control or crash anything; the sweep may be too late.
Fairness ==
  /\ \A r \in Runs : WF_vars(Command(r)) /\ WF_vars(Engine(r))
  /\ \A d \in Dispatchers : /\ SF_vars(Fetch(d)) /\ SF_vars(Settle(d)) /\ SF_vars(FetchReady(d))
                            /\ SF_vars(FollowContinuation(d)) /\ WF_vars(Continued(d))

FairSpec == Spec /\ Fairness

-----------------------------------------------------------------------------
(* Properties. *)

\* A run fails only when its handler raised, or a request came in its way: one that
\* hit continueAsNew, or a cancel that the sweep had not seen.
FailureHasCause ==
  \A r \in Runs : run[r].state = "failed" =>
    \/ plan[r] = "failed"
    \/ plan[r] = "continue" /\ run[r].revision > 0
    \/ run[r].control = "cancel"

\* A parent goes on past child() only when the chain of the child has ended, and ends
\* completed only with that answer.
ParentWaits ==
  \A c \in Chains \cap Awaited :
    Caller[c] # None => LET p == Caller[c] IN
      /\ run[p].state \in {"completed", "continued"} => told[c] # None
      /\ told[c] # None => run[Last(c)].state = told[c]

\* No resume is lost between the journal and the engine: while a run that is not
\* paused any more sits suspended by its pause, it is to be dispatched again. Does
\* not hold once a dispatcher dies between execute and its mark (README, section 6).
NoLostResume ==
  \A r \in Runs :
    round[r] = "paused" /\ IsOpen(r) /\ run[r].control = "run" =>
      \/ wake[r]
      \/ ~run[r].dispatched \/ run[r].revision > run[r].applied

\* Once the close policy was applied, no open generation of the child is left that
\* was not asked to cancel.
ClosePolicyReachesLast ==
  \A c \in Chains \ Detached :
    link[c].closed => ~IsOpen(Last(c)) \/ run[Last(c)].control = "cancel"

\* A parent that awaits its child is told how the chain of it ended and is not left
\* parked, unless it is cancelled or ends first, or the child is paused: the slots
\* they share, and a child that continues as new, never keep them waiting on each other.
ParentIsAnswered ==
  \A c \in Chains \cap Awaited : link[c].linked ~>
    \/ ~IsOpen(Caller[c]) \/ run[Caller[c]].control = "cancel"
    \/ told[c] # None /\ round[Caller[c]] # "parked"
    \/ \E r \in Runs : r[1] = c /\ run[r].control = "pause"

\* The close policy reaches the children of every parent that ended or continued as
\* new, those it linked after it was cancelled too, and the request to cancel ends
\* them, however it meets their dispatch and their rounds.
ChildrenAreClosed ==
  \A c \in Chains \ Detached :
    link[c].linked /\ Terminal(Caller[c]) ~> link[c].closed /\ Terminal(Last(c))

-----------------------------------------------------------------------------
\* The journal implements chains that end once.
Outcome == INSTANCE ChainOutcome WITH
  Cancelled <- "cancelled",
  generation <- [c \in Chains |-> Cardinality({r \in Runs : r[1] = c /\ run[r].state # "none"})],
  cancelling <- [c \in Chains |-> \E r \in Runs : r[1] = c /\ run[r].control = "cancel"],
  end <- [c \in Chains |-> IF \E r \in Runs : r[1] = c /\ run[r].state \in Ends
                           THEN run[Last(c)].state ELSE None]

\* A chain has one open execution at most and ends once, cancelled only on request.
OutcomeSpec == Outcome!Spec
=============================================================================
