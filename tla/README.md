# better-workflows in TLA+

A verification development for the durable-workflow library in `src/`: models of its concurrent
core, model-checked with TLC on small instances, and theorems about them checked by TLAPS.
File names below are relative to `src/src/internal/` of the repository unless they say otherwise.

## 1. The system

A *run* (workflow execution) is a row of the SQL journal. A workflow function is replayed from the
start in *rounds* by the Effect workflow engine (a library outside this repository); each durable
command first looks at the journal, so a replay repeats nothing that was decided. Work that leaves
the workflow is written to the database and picked up by polling loops in any number of processes:

| component | state it keeps | operations | hard behaviour |
|---|---|---|---|
| activity transport (`activity-transport.ts`) | delivery rows: state, attempts, `acquired_at`, `acquired_by` | offer, take, retry, release, complete, exhausted | lease expiry, redelivery, attempts counted up, down and carried over |
| permits and claims (`permits.ts`, `journal.ts`) | claim rows with owner token and lease; leased permits | claim, renew, finish, release | fencing of late workers, limits shared by processes |
| worker (`worker.ts`) | one program counter per loop | execute, process, monitor, finalizer | crash and unwinding between any two transactions |
| dead letters (`activity-transport.ts`) | a letter per failed delivery | create, requeue, discard | racing with cancellation and with each other |
| interpreter (`interpreter.ts`, `bridge.ts`, `async-round.ts`) | ordinals and promises of one round | command protocol, activity, signal, sleep, group, child, saga | replay, suspension, parallel branches, retries with a backoff |
| journal (`journal.ts`) | runs, commands, events, signals, waits, retries, reconciliations | accept, control, begin/finish command, complete, continueAsNew, signal, wait | every writer locks the run row; what was read before the lock is stale |
| structured journal (`advanced-journal.ts`) | branches, children, sagas, compensations, timers | admit, finish, link, close, compensate | restart between steps; a child that continues as new |
| dispatcher (`runtime.ts`) | none of its own: an outbox loop | dispatch, deliver, reconcile, sweep | repeats deliveries; batches read before they are used |
| schedules (`schedule-store.ts`, `scheduler.ts`) | schedule row, occurrences, manual keys, owner leases | register, materialize, pause, resume, redefine, remove, trigger, reconcile | several schedulers, bounded passes over a backlog, overlap, retention |
| results (`notifier.ts`, `client.ts`) | waiters by run | result, wait, publish, reconnect, shutdown | register/read race, hints that are early, late or lost |
| administration (`administration.ts`, `admin.ts`) | tombstones; a plan in the operator's hands | preview, prune, limits | plans applied to a changed state |
| catalog (`registry.ts`, `feature.ts`, `module.ts`) | owners of queues, workflows, activities, schedules | discover, visibility, layers of settings | an order the framework chooses, cyclic imports |
| storage (`migrations.ts`, `schema-admin.ts`, `infrastructure.ts`) | tables, columns, three ledgers | migrate, validate, inspect | processes that start together, older and newer releases |
| the rest | values, wire, telemetry, CLI, testing | encoding, counters, entry points | none that needs a state machine |

The interpreter *offers* a delivery and awaits a deferred; a worker *takes* the delivery, *claims*
the business attempt, runs the handler, *finishes* the claim (the receipt), completes the deferred
and *acknowledges* the delivery. The dispatcher resolves waits, timers and retries, applies
cancellation, tells parents of their children and moves engine results into the journal. Schedulers
accept executions as clients do. Callers of `result()` read the journal and are woken by hints. An
administrator requeues and discards letters and prunes what has ended.

Per component, what makes it correct: one receipt and one answer per business attempt, and the
answer is the receipt; a healthy delivery is never mistaken for a stale one; every delivery ends;
limits bound live ownership; dead letters, deliveries and run state agree (delivery and letters);
signals are consumed in order, once, and by the deadline rule, and no wake-up is lost (signals);
a run ends once, cancellation reaches the last generation, and parent and child never wait on each other
(lifecycle); no more admitted branches than the limit, every branch admitted in the end, each
compensation once and in reverse order, no effect left without one (structure); an instant fires once
and none is lost, whatever policy, pause, retention or owner (schedules); a caller is told once the chain
has ended and never depends on the fallback timer (results); nothing that is left refers to what was pruned
(retention); what an application may use does not depend on order, and processes that serve find the schema they use
(start-up).

## 2. Modules

| module | what it is |
|---|---|
| `ActivityReceipt` | abstract: one receipt and one answer per business attempt |
| `ActivityDelivery` | deliveries, claims, permits, dead letters, the worker loop, the command protocol around an activity and the run columns these touch |
| `RenewedLeases` | `ActivityDelivery` with a history of which worker renewed its lease in time |
| `ActivityDeliveryProofs` | theorems about `ActivityDelivery`: types, receipts, refinement; letters, blocked runs, fencing, limits |
| `SignalQueue` | abstract: signals given out in order, one answer per wait |
| `SignalWaits` | signals and waits of a run, parallel branches, dispatch loops, deferreds and replay |
| `SignalWaitsProofs` | theorems about `SignalWaits` |
| `ChainOutcome` | abstract: chains of executions that end once, and parents told of it |
| `RunLifecycle` | runs, rounds and their slots, controls, continue-as-new, children and close policies, the dispatch loop, reconciliations, the sweep |
| `RunLifecycleProofs` | theorems about `RunLifecycle` |
| `FiredInstants` | abstract: an instant of a timeline fires at most once, as the cursor passes it |
| `Schedules` | one schedule: its row, occurrences, manual keys, owners, schedulers, operators, retention |
| `SchedulesProofs` | theorems about `Schedules` |
| `Rollback` | abstract: a stack of steps that is committed, or undone from the top |
| `StructuredScopes` | a saga of activities with business retries, sleeps, groups of branches and concurrent commands, through rounds |
| `StructuredScopesProofs` | theorems about `StructuredScopes` |
| `ExecutionResults` | `result()` over a chain of generations, waiters, local and PostgreSQL hints, stop |
| `ExecutionResultsProofs` | theorems about `ExecutionResults` |
| `Retention` | preview and prune of executions beside clients, late rounds and another operator |
| `RetentionProofs` | theorems about `Retention` |
| `Upgrades` | the schema as each version leaves it, inspections, the guard and the transaction of the migrator (operators) |
| `Registry` | discovery of features, owners, visibility, settings, what a process runs (operators) |
| `Startup` | processes that start, migrate or validate, serve, are probed, stop and die; composes `Upgrades` and `Registry` |
| `StartupProofs` | theorems about `Startup`: types, processes that serve, starts on released databases, catalogs of any application |
| `MC*` | the instances TLC checks |

Names follow the source: `Take`, `Release`, `Exhausted`, `Requeue`, `BeginCommand`, ... are the methods
of those names; `Register`, `Consume`, `Expire`, `SleepAgain` are `Journal.wait` and the exits of
`Journal.resolveWait`. Operators introduced by a comment "Fault" (or "mutant") are seeded bugs: the development
checks that each property notices one. They are not part of any specification. Type invariants that no run lists are
stated for the proofs of section 4.

### 2.1 How ActivityDelivery corresponds to the code

A SQL transaction is one action. Those that touch a run update its row first (`lockRun`), so they
are serialised; the others are single statements. Everything between two transactions interleaves.

* `delivery[a][k]` is a row of `better_workflows_activity_deliveries`: `a` the business attempt, `k` the
  generation; `k = 0` is the interpreter's offer and `k + 1` the delivery requeued for the dead
  letter of `k`, which is `dead[a][k]`.
* `claim`, `permit`, `run`, `ended` are the claim, permit and run rows and the reconciliation row.
* `step` is how far the command of an attempt has come in the current round; `answer` is the engine's
  deferred, which keeps the first exit it is given (external).
* `worker[i]` is one turn of a worker loop: the two tokens a turn draws (acquired_by and owner) are
  the identity `i`. An identity may be used for another turn only when no row carries it.
* Leases count the ticks they have left; `Tick` ages all of them.

Left out, and why it does not matter here: the order in which `take` prefers deliveries and
`visible_at` (any deliverable row may be taken: more behaviours); the local semaphore, which is as
large as the number of loops and so never blocks; heartbeats and pause; the `remaining` count of
requeue, which always includes the letter itself, so requeue never unblocks the run; the owner column
of a completed claim, which no statement compares, is NULL. A business retry is a further attempt,
that is, another member of `Acts` (`StructuredScopes` shows how one leads to the next). `Discard` with a cancel request
outstanding leaves the run state as it was, as the code does; `BlockedIffActiveLetter` speaks of runs that are not closed.
The attempts of a run advance independently, as they do in `ctx.map` and `ctx.parallel` branches (commands of one
branch are sequential: fewer behaviours). `EndWorkflow("failed")` may come at any point of a round: a
non-determinism failure ends the workflow while branches are outstanding. `Crash` leaves every row as
it is; `Unwind` is a SQL failure or shutdown inside `execute`, where only the permit finalizer runs.

### 2.2 How SignalWaits corresponds to the code

One run and one signal name. `Waits` are naturals because statements order waits by `step_id`; each is a
command of a branch, and `After` makes waits of one branch sequential. A signal is its
`signal_sequence`. Each of `Journal.wait`, `signal`, `resolveWait` and `delivered` is a transaction or a
statement; a dispatcher reads a batch, then resolves, completes the deferred and marks each
candidate, in three steps that other dispatchers, rounds, senders and crashes interleave. A key seen
before and conflicting payloads change nothing and are left out, as is the batch limit of 100.

External, from how `runtime.ts` and `interpreter.ts` use it: a deferred keeps its first exit, and completing
one makes the engine replay the run when the round at hand has suspended. `NoLostWakeup` depends on
the replay: a signal wakes one wait only, which may time out, and only the `Journal.wait` of the next
round wakes the other one.

### 2.3 How RunLifecycle corresponds to the code

A run is `<<chain, generation>>`; `run[r]` is its row of `better_workflows_runs`, `link[c]` the child link of the chain
`c`, `receipt[r]` the reconciliation row. `round[r]` is how far the current round of `runtime.execute` and the interpreter
has come; each step between two transactions is an action of its own, so what `gate` has read may be
stale in the transaction after it. A handler starts its child (if `Caller` gives it one) and then completes, fails or
continues as new, as `plan` says, and passes the gate once more when it returns; `Awaited` and `Detached` stand for
`child()` against `startChild()` and for `parentClosePolicy`. `job[d]` is a dispatcher with the row it holds: a row is
fetched, told to the engine and marked in separate steps. Reading a reconciliation and ending its run are one step: its row
never changes and a second end is a no-op. `closeChildren` looks up a generation and cancels it: under `ReadCommitted`
(PostgreSQL) other commits come in between; otherwise (SQLite) it acts on the generation that is open when it commits.

A round holds one of `slots` from its first gate to its end, as the semaphores around `executeAndEnqueue` do
(`execution.workflows.concurrency`; the limit of a feature is such a semaphore, too, taken first and given back
together with the other, so with all workflows in one feature the smaller of both acts). An execution that
is suspended holds none: `ParentIsAnswered` is checked with a single slot.

External, as the code uses it: `execute` starts an execution that does not exist yet and changes nothing otherwise
(docs/architecture.md:22); `resume`, and the completion of a deferred, make a suspended execution replay and are remembered while
a round runs; `interrupt` ends a round anywhere; an execution whose process dies is begun again.

Left out: `blocked` (in `ActivityDelivery`), deduplication keys and payload checks of `accept`, the batch limit of 100, the
order of rows, the storage-integrity checks that fail on states no transaction writes, and commands other than one
child, whose waiting `SignalWaits`, `StructuredScopes` and `ActivityDelivery` show.

### 2.4 How Schedules corresponds to the code

One schedule. `row`, `occurrences`, `keys`, `owners` are the rows of its four tables. `materialize` is one transaction:
`Claim` locks the row and reads what is due, `AlreadyRecorded`, `Misfire`, `Overlap`, `StartDue` and `FailDue` decide one instant
each, `Commit` writes; `tx` is what it has done and nobody sees yet, `Rollback` a failed statement, `Crash` the end of the process.
Executions go on meanwhile: an instant is skipped for overlap by what the statement reads then. Registration,
renewal of ownership, `reconcileMissing`, pause, resume, redefinition, removal, manual trigger (with a key or without) and
retention are transactions of one action. The chain an occurrence has started (`chains`) may continue as new, end, and be pruned.

A cron expression is a period here: which instants it gives is the business of a library, and nothing the store does depends on them
beyond that they increase. `held` and `retired` are histories for the properties. The `MCSame` redefinition installs the same
definition again, which resets the timeline.

### 2.5 How StructuredScopes corresponds to the code

A leaf is one durable command with its row, its latest attempt (`work`), the alarm of a retry or a sleep, and the deferreds of
both. `round` is what the interpreter holds in memory: the saga row it has read, the steps it has called, the outcome at hand,
the branches it attempts, and the commands that are submitted and not taken up (`bridge.ts`): one fiber runs
them in order, so a suspended command keeps back those behind it. A round starts over, reuses what is
recorded and suspends where a result is missing; `Crash` loses it anywhere. A group answers when all its branches have ended;
a saga step that succeeded is registered in a transaction of its own, after its result was recorded. A failed `Promise.all` step is not
undone even if one of its activities took effect: it did not succeed (`TookEffect`).

`Answer` stands for the transport (`ActivityDelivery`), `Deliver` and `Delivered` for the dispatcher, which completes the deferred and then marks the
row. `Caught` makes the handler go on after a failure of its choice.

### 2.6 How ExecutionResults corresponds to the code

`client[c]` is a call of `result()`: it reads the row, follows continuations, reads the revision, registers a waiter, reads
again, and sleeps until a hint, the fallback timer, its deadline, its `AbortSignal` or the end of the runtime. `Journal.event`
publishes to the process inside the transaction, which may roll back (`Rollback`); PostgreSQL notifies at commit, into `notes`, if
the listener has its LISTEN. `shared` is an SQLite file other processes write, too. A transaction holds the one connection
of SQLite; its semaphore serves waiters in turn. A read and what the caller does with it are two steps.

### 2.7 How Retention corresponds to the code

`preview` reads candidates, then each chain with the reasons that block it; `prune` locks keys and rows in the order
of its statements, checks the plan once more and removes. `LockParent` .. `Link` is an acceptance (of a child: inside the parent's
transaction), with the reading of the tombstone before its insertion. `busy` stands for live deliveries, claims, permits, dead letters,
waits, timers and retries of a run; it only drains, because a terminal run gets no new ones (a late event is `LateEvent`). The cutoff falls
between the ends of runs; the order in which chains are read is left open (more behaviours). `Victim` is the database ending a deadlock.

### 2.8 How Startup, Upgrades and Registry correspond to the code

`Discover` is `Registry.discover` over the features in the order the framework hands them over: contracts of clients, names, queues, overrides, the
checks of each feature, exports. A catalog records owners, the settings that win, and which handlers and schedules the root and the
feature enable; `Workers`, `Dispatches` and `HasScheduler` say what the bootstrap then forks. `Acceptable` and `ServesWhatIsAllowed` are the reference: owners, chains of exports
and layers, with no order in them. A recursive traversal of the code is a recursive function of where it is and where it has been (`Walks`). `src/src/module.ts` says that import order never decides conflicting policies; `CatalogIsSound` checks it.
A loop of `discover` over the features is a stage (`Each`, `Step`, `Visit`), and what is between the loops a step of the whole (`RegisterRoot`, `Settle`, `Identify`); what follows a failure is skipped (`Unless`), as the exception does it. A setting of a later layer replaces that of an earlier one (`Over`), as in
`mergeActivityDefaults` and `resolveQueue`. `IsApplication` and `IsOrder` say which records are applications, and which sequences orders of their features: finitely many modules, whose imports are modules and may be cyclic; the layers
each contract and queue has; every feature once. They are assumed of all situations (`StartupAssumption`), so TLC evaluates them on each.

A database is its tables, the columns later versions added, and three ledgers. `migrateAll` is one transaction behind an advisory lock
(`Lock`, `Commit`); `migrationStatus`, for validation and readiness, is a statement per step, so upgrades of others come in between
(PostgreSQL, READ COMMITTED). `NewerRelease` only adds to what this release knows. `SetQueueLimits` comes only while every process is down, as docs/advanced.md:279-288
require. `Exit` ends a process, stopped or killed, in one step. A probe finds the loops of the process alive or stale as it pleases.

## 3. Runs

| run | instance | shows |
|---|---|---|
| `fencing` | 1 attempt, 3 turns, 2 deliveries x 2 attempts, leases of 2 ticks, requeue and discard | types; no healthy holder is stale; acknowledged implies answered; the answer is the receipt; letters, deliveries and run state agree; `ActivityReceipt` is implemented |
| `permits` | 2 attempts with one key, global limit 2, key limit 1, crashes, fair | both limits hold over leases, crashes and expiry; every delivery is acknowledged or fails |
| `signals` | 2 parallel waits (one with a deadline), 2 signals, 1 dispatcher, 1 crash, fair | `SignalQueue` is implemented, an earlier signal beats the timeout, no lost wake-up, a due or signalled wait is answered in the workflow |
| `lifecycle` | 1 chain of 2 executions, 2 dispatchers, 2 requests per run, 1 crash | a failed run has a cause; a chain ends once and for a reason, cancelled chains do not grow (`ChainOutcome`) |
| `children` | parent and awaited child that may continue, 1 slot or 4, cancel requests, fair | the parent hears how the whole chain of the child ended, and does hear, also with one slot; close policies are applied, reach the open generation and end it |
| `schedule_passes` | 1 scheduler, instants 1 to 3, catch-up and skip of overlap, redefinition, 1 manual key, retention, a clock set back, 1 fault | no instant is lost, the keys of the history hold, no overlap, `FiredInstants` is implemented |
| `schedule_owners` | 3 runtimes, one without the schedule, `latest` and passes of 1, redefinition, 1 fault, fair | `latest` is not missed over several passes; instants are decided only while active; what is due is decided; an abandoned schedule is orphaned |
| `scopes` | saga of a group (3 branches, limit 2), a sleep and two activities at once (3 attempts of the first), 1 crash, fair | groups keep their limit and settle in key order; effects are undone; backoffs are waited for; `Rollback` is implemented; the scope ends |
| `results` | 1 caller, 2 generations of up to 2 revisions and an end, each storage, 1 lost connection, fair | a hint is always on its way; a caller is told |
| `retention` | parent of 2 generations and its child, 2 operators, plans of 2, 1 late event | nothing refers to what was removed; links outlive what needs them; keys stay reserved |
| `startup` | 2 processes; see below | processes that serve find their schema and agree on limits; no start fails because of others; the catalog is what its definition says, in every order |
| `renewed_lease` | 1 attempt, 2 turns | violated, see 6 |

Bounds. Two workers are what a takeover needs; the third lets a takeover be taken over. A lease of two
ticks lets a renewal matter. Two generations of a delivery give a requeue, and the acknowledgement or exhaustion
of what was requeued. `permits` starts with offered deliveries and a running run. Symmetry is used only where no property or constant tells the members apart,
and never in a liveness run. Two generations of a run are what a stale row, a close policy or a waiting parent can miss; two
requests are a pause and its resume or cancel; two dispatchers hold different rows of one run. In `children` the parent
completes and the child may continue once. `signals` has one dispatcher: that any number of them may overlap is proved.
`schedule_passes` needs one scheduler because the lock of the row serialises schedulers; passes of up to 3 instants meet `maxCatchUp` 2. `schedule_owners` has two
old owners and a new one, so the leases end one after the other. In `scopes` three branches over two places need an admission after a
settlement. In `results` callers do not interact, so one is enough. `retention` has a chain whose second generation has the
smaller identifier, so a plan of two cuts a chain. `startup` chooses a situation: a database of a release the guard knows, with three starts (two processes racing and
one of them again), a damaged one or one of versions 1 to 5, with two, both with a single feature (the catalog does not depend on the database), or an application with one: each graph of imports and exports
of a queue among three features and a module, one defect of each other kind, the layers of a limit, and restrictions of what runs where, in all six orders.
Deadlock is not checked where a run that ended leaves nothing to do, and in `startup`, where the number of starts is bounded.

Fairness. A worker loop is a fiber that keeps polling; a handler ends because activities have a
timeout; `take` is tried by some idle loop, and a loop that finds nothing calls `exhausted` for the
spent rows. Database time passes. Nothing is assumed of renewals, crashes, requeues,
cancellations, senders or replays beyond the engine assumption above. In `permits` crashes may recur,
but each costs an attempt, so they cannot recur for ever. In `signals`, `scopes` and the schedules the number of crashes is bounded:
a process that dies in every round makes no promise. In `RunLifecycle` a dispatch pass visits every kind of work
(strong fairness of each kind for a loop that is idle again and again), what it has fetched it finishes, and rounds run on;
requests, crashes and the sweep are not fair, so nothing relies on the sweep coming in time. In `Schedules` loops of a runtime that runs come round, leases of
one that does not expire, and time passes. In `ExecutionResults` steps of a caller are strongly fair, since the connection serves its queue in turn; nothing is asked of the
listener and the writers.

## 4. Proofs

Every safety property the runs check, invariant, action property or refinement, is proved for every value of the constants;
what follows says along which argument. The theorems assume the `ASSUME`s of the module they are about (the ranges of constants, and that `None` is
none of the values it stands beside), and where it says so, one thing more. Each `[]Inv` is proved from an inductive invariant that TLC had checked on the instance
of the run first; a step that preserves it has a lemma per action or per kind of write.

`ActivityDeliveryProofs`, for any runs, attempts, turns, requeues, leases and limits:

* `TypeCorrect`: `Spec => []TypeOK`; a turn that is not idle has a delivery at hand.
* `AcknowledgedIsAnswered`, `AnswersAreReceipts`. `AckAfterAnswer` is not inductive. `ReceiptInv` says of every turn in `settle` or `ack` that its
  outcome is the receipt or a cancellation of a closed run, that an answer, once given, is one of these, and that a completed claim never changes.
* `ImplementsReceipts`: `Spec => ReceiptSpec`, with `receipt` the outcome column of the claim and `closed` derived from the run row.
* `LettersTrack`. `LetterInv`: the rows of an attempt are offered in order and only the latest is under way; an open letter is one of the latest row, a requeued
  one of the row before. `BlockedTellsTheTruth` adds that a cancelled run has no letter left.
* `HoldersAreNeverStale`. `NumberInv` relates the attempt numbers of all generations: the number of a claim or a turn is not above that of the attempt's rows, and below it
  once another turn processes the row; a turn that has not claimed yet owns no claim, and its token is on its own row only.
* `AdmissionIsBounded`. `PermitInv`: a live claim has a live permit that ends no earlier, and admission counts permits, so claims are bounded with them (cardinalities).

`SignalWaitsProofs`, for any waits, deadlines, signals, dispatchers and crashes (the waits of a run are finitely many):

* `SignalTypes`; a dispatcher at work has a batch of registered waits (`BatchInv`).
* `EarlierSignalsWin`. `ClockInv` orders signals by the clock: when the oldest unconsumed signal is
  too late for a wait, all later ones are, which is what `resolveWait` relies on in looking at one signal only.
* `SignalsAreQueued`: `Spec => QueueSpec`. `DeliveryInv` says that a dispatcher delivers what is decided for the wait at
  hand, which needs that a decision is never changed (`DecisionKept`).
* `NoWakeupLost`. Counts of signals and wakes change by one together; a dispatcher that puts a wait to sleep has seen no
  signal at all (by `ClockInv`); a timeout that leaves a signal behind makes the engine replay (by `ToldInv`).

`RunLifecycleProofs`, for any chains, generations, handlers, dispatchers, slots, requests and crashes:

* `LifecycleTypes`, and `FailuresHaveCauses`, `ParentsWait`. `ChainInv`: what comes before an accepted generation was continued, and a chain that began has a generation that
  was not. `RoundInv` says what a round, a receipt and a row may hold given what was requested; `JobInv` what a dispatcher has read and is still true of the
  row; `LinkInv` that a parent was told how the chain has ended. Writes to the rows come in five kinds, with a lemma each.
* `ClosePolicyReaches`, where transactions see the journal as of one moment (`~ReadCommitted`, SQLite). Under READ COMMITTED it does not hold, see 6.
* `ChainsEndOnce`: `Spec => OutcomeSpec`.

`SchedulesProofs`, for any policies, definitions, bounds of a pass, runtimes and faults:

* `ScheduleTypes`, `CursorLosesNothing`, `HistoryKeepsItsKeys`. The invariant follows one materialization from its claim to its commit: what it is
  through with has an occurrence among the new ones (`NewInv`), and the row it has locked is the one it commits to (`BatchInv`).
* `LatestStarts`, where the clock is not set back (`~SetsBack`; the code compares with the clock of the database, so a clock set back may pass an instant over): the cursor is ahead of every occurrence.
* `PassesDecideWhileActive`, `StartsDoNotOverlap`: the second is about every chain that an occurrence links once the pass is committed, those the pass has accepted itself
  among them. It needs that what a pass has accepted runs alone (`AcceptedInv`), and that a chain that had ended by its decision does not begin again.
* `TimelineFires`: `Spec => TimelineSpec`. The instants of a timeline are the least ones of sets of naturals, so this needs well-founded minima.

`StructuredScopesProofs`, for any saga with at most one group (`StepAssumption`), any branches, limits, attempts, caught failures and crashes:

* `ScopeTypes`, `GroupsAreSound`, `NothingStaysDone`, `RetriesWait`. `LeafInv`: what the journal says of a leaf, the engine still says. `ControlInv`: at each place of a round, what it has read of the saga is what
  the saga is, and at most the one leaf in its turn is at work. `ReplayInv` is the argument of replay: a step that was touched has only steps before it that a
  replay gets past, because they are registered or failed with what the handler catches; how a step ended, once recorded, stays (`RecordsStay`) and is one way only (`Exclusive`, `FailsOnce`).
  So when a failure gets out of the handler, nothing after the failed step was touched and everything before it that took effect is registered (`EffectsRegistered`).
* `ScopeIsRollback`: `Spec => RollbackSpec`. `Rollback` keeps its stack as the set of its steps, which are numbered in the order they succeed; a sequence would need
  induction over `SelectSeq`. That a step is pushed above all registered ones is `ReplayInv` once more.

`RetentionProofs`, for any chains, identifiers, operators and limits:

* `RetentionTypes` (no lock has two holders), `NothingDangles`, `LinksOutliveChains`, `KeysStayReserved`. The argument is about locks: `PruneInv` says that what an operator has checked it holds, key and row, and
  that it has settled for good; `StartInv` that an acceptance past its look for a tombstone holds the key. `ChainInv` keeps generations in order and removed together.

`ExecutionResultsProofs`, for any callers, length of a chain and lost connections:

* `HintsAlwaysSuffice`. `EarlyHint` is the strengthening: while a transaction of a process with one connection is open, whoever waits for its run was told of it already or has yet to read. `HintsSuffice` excepts
  an SQLite file that other processes write, where only the fallback timer helps.

`StartupProofs`, for any processes, starts, limits and any database of `Databases`, whole or damaged:

* `StartupTypes`; `TypeInv` adds that an inspection reads only what is there (`ReadIsThere`), which stays true because nobody removes tables (`DatabaseGrows`).
* `ServingProcessesAreSound`. `SafeInv`: the holder of the lock migrates what it has read (`LockIsHeld`), so what `MigrateFailure` accepts becomes complete; what only validates has read each entry at some
  time before; a probe that a newer release had preceded finds its version in the ledger or no ledger at all (`NewerIsFound`), and neither is ready.
* `StartsAreHealthy`. `HealthInv`: a database that a release has left stays one of a release (`LeftByRelease`), so every ledger, whenever it is read, is a whole prefix of versions, and an inspection finds
  no gaps. It needs what the migrator makes of each release the guard accepts: `HealthyMigrates`, from the tables and columns of the eleven versions.
* `CatalogsAreSound`, for any application, any graph of imports and any order. `CatalogInv` is small: what a process holds is what `Discover` made of the application, in some order, and it connects only
  without a failure. The work is in the lemmas about `Discover`, in four layers, none of which uses an induction rule; where one is needed, it is a least counterexample, which well-foundedness of `<` on the naturals gives (`LeastOf`).
  1. Traversals. `FirstMetIs` and `ImportsExportIs` give the two recursive functions in closed form: what lies in every set that is closed under passing on. The closed form satisfies the equation of the recursion (`MetStep`,
     `ChainedStep`), and the equation has one solution, because two would differ where less is left to visit (`SameWalks`). So `SearchFindsWhatIsReached`: the search of the code finds an owner exactly if a chain of exports leads to it, cycles or not;
     and `ClientsAreSeen` the same for the clients of workflows.
  2. Layers of settings. `QueueIs` and `LimitIs`: replacing one layer after another gives the most specific one that says something.
  3. Single steps. `AcceptableIs` takes the reference apart into what concerns the whole and what concerns a feature. Each operation of `Registry` keeps what the catalog says of the features so far and fails
     exactly if its part of the reference does not hold (`QueuesRegistered`, `OverridesRegistered`, `ActivitiesRegistered`, ...).
  4. Stages. `Holds` says what the catalog is after some features of a stage, `Sound` that it is this, or has failed for an application that is not acceptable. `VisitIsSound` is one feature, `EachIsSound` a loop in
     any order, `DiscoveryIsSound` all five stages; `WhatIsAllowedIsServed` is what the bootstrap makes of the catalog.

  The theorem is about the failure being there, not about which of several defects an application is told first: that does depend on the order.
* `OrderDecidesNothing` compares two orders (docs/modules.md:173: "Import order does not decide the winner"): both are accepted or neither, and accepted catalogs have the same owners, limits, handlers, schedules
  and work, because `Holds` says every field of a catalog without its order (`SameCatalog`).

Only model-checked. Liveness, which is out of the prover's reach: `DeliveryEnds`, `WaitIsAnswered`, `ParentIsAnswered`, `ChildrenAreClosed`, `DueIsDecided`, `OrphanedAtLast`, `ScopeEnds`, `ResultIsTold`.

## 5. Plan

1. Done: every component with control of its own is modelled, each with its hazards.
2. Done: the safety properties of all modules are proved.
3. Larger instances: two groups in a saga, sub-scopes within branches.

## 6. Where code and documentation disagree

* `renewed_lease`. `types.ts:400` says the worker renews leases automatically. The monitor renews the claim and the
  permit; `acquired_at` of the delivery is never renewed, so an activity longer than one lease is handed
  to a second worker, which fences the first one.

More, each shown by a property the modules keep for it; give it to TLC in the configuration named:

* `RequeueRecovers` (`fencing.cfg`). README.md:310 says exhausted deliveries can be recovered after a deployment fix. `requeue` gives
  the new delivery the attempt number of the dead letter (`activity-transport.ts:499`); after exhaustion that is the
  maximum, `take` never hands it out, and the next sweep dead-letters it again.
* `NoLostResume` (`lifecycle.cfg`, one crash). client.ts:153 says resume clears a pause "so the engine can continue" and that restart recovery "needs no manual
  resume". A row still marked undispatched takes the `execute` branch even if it carries a newer revision
  (`runtime.ts:1232`), which is then marked applied. When a dispatcher dies after `execute`, a pause and a resume before the next
  pass leave the execution suspended with nothing to do for any dispatcher.
* `ClosePolicyReachesLast` (`children.cfg` with `ReadCommitted = TRUE`). docs/architecture.md:144 says parent termination applies the close policy. Under READ COMMITTED the child may
  continue as new between `followContinuation` and the cancel of the generation it returned (`advanced-journal.ts:199`); the
  link is marked closed and the new generation runs on.
* `PauseHolds` (`schedule_owners.cfg`). An operator pauses a schedule; its owner is away for longer than the lease, another runtime orphans it, and the owner
  registers it again as active (`schedule-store.ts:452`): the pause is lost.
* `ContinuationsFollowed` (`schedule_passes.cfg`). Overlap is decided over the occurrences that are left; retention may have removed the one whose chain goes on. `OverlapSkipped`, which holds,
  speaks of the chains that an occurrence links when the pass is committed.
* `CallbacksReconstructed` (`scopes.cfg`). docs/architecture.md:146 says replay reconstructs callbacks from the same handler. The replay of a saga that compensates answers a
  step it has no record of with the failure of the scope (`interpreter.ts:658`); a handler that had caught another failure there takes another way, its later steps are not called,
  and the rollback ends `NON_DETERMINISTIC_WORKFLOW`.
* `HealthyStarts` (`startup.cfg`, with `Upgradable == 0..JournalVersion` in `Upgrades`). docs/advanced.md:166 says forward migrations are applied. The guard
  (`schema-admin.ts:254`) refuses intact databases of versions 1 to 5 with `SCHEMA_CORRUPT`; tests/admin.test.ts:180 makes an old schema by deleting ledger rows only.

Noted, each a consequence of a definition rather than a run:

* a pause between the gate and the transaction of `continueAsNew` makes it throw `CONTROL_CONFLICT` into the handler
  (`journal.ts:511`), so the run may fail; `FailureHasCause` names this cause;
* the sweep may end a run *failed* that was cancelled after the sweep had read its row (the same property);
* docs/architecture.md:40 says an event accepted at the deadline wins; a wait timed out at the deadline (`now >= deadline`)
  is not reopened by a signal accepted later in that millisecond (`EarlierSignalWins` says *before*);
* a run that ends *failed* keeps dead letters opened before its end (only cancellation discards them, `journal.ts:783`);
* `release` gives an attempt back although docs/architecture.md:30 calls the delivery attempt monotonically
  increasing (no two live holders ever share a number: `HolderNeverStale`);
* a manual trigger does not compare the definition of the caller with that of the row, and a redefinition activates a paused schedule;
* `readyChildren` reads 100 links and then drops those whose chain goes on, so 100 of these keep back the others (`runtime.ts:1168`);
* one item that fails ends the whole dispatch iteration; the next one begins with the same item;
* `Journal.event` publishes to its process before the transaction commits; waiters read again, so nothing depends on it (`HintsSuffice`);
* a preview takes the first `limit` ended runs by identifier, blocked ones included, so runs that stay blocked keep back the rest;
* prune locks keys before rows, a late `linkChild` the row of the parent before the key of the child: the database ends the deadlock (`Victim`);
* `permits.claim` reads the limits before it locks: limits changed online would act late; they are changed offline (section 2.8);
* a start that is refused because of a limit (`QUEUE_LIMIT_CONFLICT`) has already registered its schedules and taken their leases;
* a readiness probe that is under way when `stop` begins may still answer ready (`runtime.ts:462`): `stopping` is looked at first only.

## 7. Not modelled

Of the interpreter: signatures of commands and `assertEnd` (replay by a changed handler), `UNAWAITED_COMMAND`, promises awaited in a foreign context, the microtask queue, sub-scopes
within branches. Of schedules: cron arithmetic and time zones. Of administration: lists, pages and statistics, which only read. Of the registry: metadata of decorators, validation of
definitions, scopes of injection. Of a process: the order of `stop` and bootstrap inside one process (a stop while the infrastructure is made finds nothing to dispose; the next call to the database is refused, and the
bootstrap disposes what it made), the freshness of its loops. Values, wire format, telemetry, the command line and the testing module have no interleavings to check (see
`PROJECT.json`). The Effect engine, the SQL databases and the cron library are external: modelled only as far as the code uses them.

Narrower than the code, where no property depends on it:

* Transactions that read before they lock are one step. `ReconcileMissing` and `Register` look for owners and then update the row with no guard on its state (`schedule-store.ts:557`, `:475`): on PostgreSQL an
  owner that renews in between is orphaned although its lease is live, until its next renewal. So `OrphanedAtLast` says that an abandoned schedule is orphaned, and nothing says that no other one is. `Discard` reads its
  letter before `lockRun` (`activity-transport.ts:597`): a letter resolved in between is discarded in the code only.
* `CompleteCancelled` ends a run that is open; `Journal.complete` also discards letters of one that has ended (`journal.ts:769`). The refusal of a missing key in admission (`permits.ts:74`), a pause that
  suspends rounds at their gate (`runtime.ts:880`; in `SignalWaits`, so `WaitIsAnswered` is about runs that are not paused), and defects of a round, which end the run as a failed handler does (`runtime.ts:915`), are left out.
* `children` has no crash, which would take it past a few minutes: `ChildrenAreClosed` is about live processes; what crashes may not change is `OutcomeSpec`, with crashes in `lifecycle` and proved.
* `Connect` fails as migration and validation do, not otherwise (`runtime.ts:191`), and the lock of the migrator is the advisory lock of PostgreSQL; SQLite is documented for a single process.
