---------------------------- MODULE SignalWaits ----------------------------
(***************************************************************************)
(* ctx.waitForSignal and handle.signal: the waits and the signals of one   *)
(* name in one run, the interpreter that registers and awaits them in      *)
(* parallel branches, the dispatchers that resolve and deliver them, and   *)
(* the engine that keeps the deferreds and replays the run.                *)
(*                                                                         *)
(* A transaction is one action; all of them lock the run row. An event key *)
(* that was seen before changes nothing, so a signal is its sequence. Time *)
(* is the journal's clock.                                                 *)
(***************************************************************************)
EXTENDS Naturals, FiniteSets

CONSTANTS
  Waits,        \* waits, as naturals in the order of their step_id
  After,        \* the waits that must have returned before a wait is reached
  Timeout,      \* the timeout of each wait, or NoTimeout
  NoTimeout,    \* no timeout option; a NULL deadline
  MaxSignals,   \* bound of the model: signals accepted
  MaxTime,      \* bound of the model: clock
  Dispatchers,  \* runtimes that run the dispatch loop
  MaxCrashes,   \* bound of the model: crashes of dispatchers and rounds
  NoWait,       \* a NULL consumed_by
  None,         \* a deferred that is not completed
  TimedOut      \* the exit SIGNAL_TIMEOUT

ASSUME WaitsAssumption == Waits \subseteq Nat /\ IsFiniteSet(Waits) /\ NoWait \notin Waits
ASSUME AfterAssumption == After \in [Waits -> SUBSET Waits]
ASSUME TimeoutAssumption == Timeout \in [Waits -> Nat \cup {NoTimeout}] /\ NoTimeout \notin Nat
ASSUME BoundsAssumption == MaxSignals \in Nat /\ MaxTime \in Nat /\ MaxCrashes \in Nat
ASSUME ExitsAssumption == None \notin Nat /\ TimedOut \notin Nat /\ None # TimedOut

Sequences == 1..MaxSignals

VARIABLES
  now,         \* the journal's clock
  sequence,    \* signal_sequence of the run
  signal,      \* better_workflows_signals: accepted_at and consumed_by, by sequence
  wait,        \* better_workflows_waits
  closed,      \* the run is cancelled or terminal
  deferred,    \* external: the engine's deferred of each wait
  resume,      \* external: a deferred was completed since the round began
  branch,      \* interpreter: how far the round is with each wait
  dispatcher,  \* dispatcher: program counter, batch and the exit to deliver
  crashes

interpreter == <<branch, resume>>
journal == <<now, sequence, signal, wait, closed>>
vars == <<now, sequence, signal, wait, closed, deferred, resume, branch, dispatcher, crashes>>

Exits == Sequences \cup {TimedOut}
Asleep == [at |-> "idle", batch |-> {}, exit |-> None]
Unregistered == [state |-> "none", deadline |-> NoTimeout, wake |-> FALSE,
                 delivered |-> FALSE, result |-> None]

WaitRow == [state : {"none", "pending", "success", "timeout"},
            deadline : Nat \cup {NoTimeout}, wake : BOOLEAN, delivered : BOOLEAN,
            result : Sequences \cup {None}]
SignalRow == [at : Nat, by : Waits \cup {NoWait}]
Dispatch == [at : {"idle", "resolve", "deliver", "mark"}, batch : SUBSET Waits,
             exit : Exits \cup {None}]

\* Every row and program counter is one the code can write; a wait has a payload
\* exactly when it succeeded, and a timeout had a deadline.
TypeOK ==
  /\ now \in Nat
  /\ sequence \in 0..MaxSignals
  /\ signal \in [Sequences -> SignalRow]
  /\ wait \in [Waits -> WaitRow]
  /\ \A w \in Waits : /\ wait[w].result # None <=> wait[w].state = "success"
                      /\ wait[w].state = "timeout" => wait[w].deadline # NoTimeout
  /\ closed \in BOOLEAN /\ resume \in BOOLEAN
  /\ deferred \in [Waits -> Exits \cup {None}]
  /\ branch \in [Waits -> {"idle", "gated", "registered", "parked", "returned"}]
  /\ dispatcher \in [Dispatchers -> Dispatch]
  /\ crashes \in Nat

Init ==
  /\ now = 0 /\ sequence = 0
  /\ signal = [s \in Sequences |-> [at |-> 0, by |-> NoWait]]
  /\ wait = [w \in Waits |-> Unregistered]
  /\ closed = FALSE /\ resume = FALSE
  /\ deferred = [w \in Waits |-> None]
  /\ branch = [w \in Waits |-> "idle"]
  /\ dispatcher = [d \in Dispatchers |-> Asleep]
  /\ crashes = 0

-----------------------------------------------------------------------------
(* Waits and signals. *)

Unconsumed == {s \in Sequences : s <= sequence /\ signal[s].by = NoWait}
IsPending(w) == wait[w].state = "pending"
Woken == {w \in Waits : IsPending(w) /\ wait[w].wake}
Sleeping == {w \in Waits : IsPending(w) /\ ~wait[w].wake}
Lowest(S) == CHOOSE x \in S : \A y \in S : x <= y
DueBy(w, t) == wait[w].deadline # NoTimeout /\ wait[w].deadline <= t

\* What resolveWait finds for wait w: the oldest signal, if it was not too late.
InTime(w, s) == wait[w].deadline # NoTimeout => signal[s].at <= wait[w].deadline
HasSignal(w) == Unconsumed # {} /\ InTime(w, Lowest(Unconsumed))

\* What was decided for wait w, as the exit its deferred is completed with.
Decision(w) == CASE wait[w].state = "success" -> wait[w].result
                 [] wait[w].state = "timeout" -> TimedOut
                 [] OTHER -> None

Deadline(w) == IF Timeout[w] = NoTimeout THEN NoTimeout ELSE now + Timeout[w]

-----------------------------------------------------------------------------
(* The interpreter: each wait is a command of its own branch. *)

Gate(w) ==
  /\ branch[w] = "idle" /\ \A v \in After[w] : branch[v] = "returned"
  /\ ~closed
  /\ branch' = [branch EXCEPT ![w] = "gated"]
  /\ UNCHANGED <<journal, deferred, resume, dispatcher, crashes>>

\* Fault: a wait registered earlier is left alone.
RegisterOnce(w) ==
  /\ branch[w] = "gated"
  /\ branch' = [branch EXCEPT ![w] = "registered"]
  /\ wait' = IF wait[w].state = "none"
             THEN [wait EXCEPT ![w] = [Unregistered EXCEPT !.state = "pending",
                     !.deadline = Deadline(w),
                     !.wake = Cardinality(Unconsumed) > Cardinality(Woken)]]
             ELSE wait
  /\ UNCHANGED <<now, sequence, signal, closed, deferred, resume, dispatcher, crashes>>

\* Journal.wait: the first round inserts the row; every round wakes the wait when
\* there are more signals than waits woken for them.
Register(w) ==
  /\ branch[w] = "gated"
  /\ branch' = [branch EXCEPT ![w] = "registered"]
  /\ LET surplus == Cardinality(Unconsumed) > Cardinality(Woken) IN
     wait' = CASE wait[w].state = "none" ->
                    [wait EXCEPT ![w] = [Unregistered EXCEPT
                       !.state = "pending", !.deadline = Deadline(w), !.wake = surplus]]
               [] IsPending(w) -> [wait EXCEPT ![w].wake = @ \/ surplus]
               [] OTHER -> wait
  /\ UNCHANGED <<now, sequence, signal, closed, deferred, resume, dispatcher, crashes>>

\* DurableDeferred.await: return what the deferred holds, or suspend the branch.
Await(w) ==
  /\ branch[w] = "registered"
  /\ branch' = [branch EXCEPT ![w] = IF deferred[w] = None THEN "parked" ELSE "returned"]
  /\ UNCHANGED <<journal, deferred, resume, dispatcher, crashes>>

Suspended == \A w \in Waits :
  \/ branch[w] \in {"parked", "returned"}
  \/ branch[w] = "idle" /\ \E v \in After[w] : branch[v] # "returned"

\* External: completing a deferred makes the engine replay the run once the
\* round at hand has suspended.
Replay ==
  /\ resume /\ Suspended /\ ~closed
  /\ branch' = [w \in Waits |-> "idle"]
  /\ resume' = FALSE
  /\ UNCHANGED <<journal, deferred, dispatcher, crashes>>

\* The process that runs the round dies; the engine starts the round again.
CrashRound ==
  /\ ~Suspended /\ ~closed /\ crashes < MaxCrashes
  /\ branch' = [w \in Waits |-> "idle"]
  /\ crashes' = crashes + 1
  /\ UNCHANGED <<journal, deferred, resume, dispatcher>>

-----------------------------------------------------------------------------
(* Senders, time and the end of the run. *)

\* Journal.signal: accept the signal and wake the first wait that is not woken.
Signal ==
  /\ ~closed /\ sequence < MaxSignals
  /\ sequence' = sequence + 1
  /\ signal' = [signal EXCEPT ![sequence + 1] = [at |-> now, by |-> NoWait]]
  /\ wait' = IF Sleeping = {} THEN wait ELSE [wait EXCEPT ![Lowest(Sleeping)].wake = TRUE]
  /\ UNCHANGED <<now, closed, deferred, interpreter, dispatcher, crashes>>

Tick ==
  /\ now < MaxTime /\ now' = now + 1
  /\ UNCHANGED <<sequence, signal, wait, closed, deferred, interpreter, dispatcher, crashes>>

Close ==
  /\ ~closed /\ closed' = TRUE
  /\ UNCHANGED <<now, sequence, signal, wait, deferred, interpreter, dispatcher, crashes>>

-----------------------------------------------------------------------------
(* The dispatch loop: a batch of waits, each resolved, delivered and marked. *)

\* Fault: only undecided waits are looked for.
OutboxPending == {w \in Waits : IsPending(w) /\ (wait[w].wake \/ DueBy(w, now))}
\* pendingWaits: woken waits, decided ones not delivered yet, and expired ones.
Outbox == {w \in Waits : /\ wait[w].state # "none" /\ ~wait[w].delivered
                         /\ wait[w].wake \/ DueBy(w, now)}

Fetch(d) ==
  /\ dispatcher[d].at = "idle" /\ ~closed /\ Outbox # {}
  /\ dispatcher' = [dispatcher EXCEPT ![d] = [at |-> "resolve", batch |-> Outbox, exit |-> None]]
  /\ UNCHANGED <<journal, deferred, interpreter, crashes>>

Candidate(d) == Lowest(dispatcher[d].batch)
Deliver(d, exit) ==
  dispatcher' = [dispatcher EXCEPT ![d].at = "deliver", ![d].exit = exit]
\* On to the next candidate of the batch, or back to sleep.
Proceed(d) ==
  LET rest == dispatcher[d].batch \ {Candidate(d)} IN
  dispatcher' = [dispatcher EXCEPT ![d] =
    IF rest = {} THEN Asleep ELSE [at |-> "resolve", batch |-> rest, exit |-> None]]

\* resolveWait, another dispatcher was faster: deliver what it decided.
AlreadyResolved(d) ==
  LET w == Candidate(d) IN
  /\ dispatcher[d].at = "resolve" /\ ~IsPending(w)
  /\ Deliver(d, Decision(w))
  /\ UNCHANGED <<journal, deferred, interpreter, crashes>>

\* Faults: a decided wait is decided again; the timeout is looked at first.
Redecidable(w) == HasSignal(w)
TimeoutFirst(w) == IsPending(w) /\ HasSignal(w) /\ ~DueBy(w, now)
\* resolveWait consumes the oldest signal, in time or without a deadline.
Consumable(w) == IsPending(w) /\ HasSignal(w)

Consume(d) ==
  LET w == Candidate(d)  s == Lowest(Unconsumed) IN
  /\ dispatcher[d].at = "resolve" /\ Consumable(w)
  /\ signal' = [signal EXCEPT ![s].by = w]
  /\ wait' = [wait EXCEPT ![w].state = "success", ![w].result = s, ![w].wake = TRUE]
  /\ Deliver(d, s)
  /\ UNCHANGED <<now, sequence, closed, deferred, interpreter, crashes>>

Expire(d) ==
  LET w == Candidate(d) IN
  /\ dispatcher[d].at = "resolve" /\ IsPending(w) /\ ~Consumable(w) /\ DueBy(w, now)
  /\ wait' = [wait EXCEPT ![w].state = "timeout", ![w].wake = TRUE]
  /\ Deliver(d, TimedOut)
  /\ UNCHANGED <<now, sequence, signal, closed, deferred, interpreter, crashes>>

\* Nothing for the wait: put it back to sleep and go on.
SleepAgain(d) ==
  LET w == Candidate(d) IN
  /\ dispatcher[d].at = "resolve" /\ IsPending(w) /\ ~Consumable(w) /\ ~DueBy(w, now)
  /\ wait' = [wait EXCEPT ![w].wake = FALSE]
  /\ Proceed(d)
  /\ UNCHANGED <<now, sequence, signal, closed, deferred, interpreter, crashes>>

\* External: the engine keeps the first exit, and will replay a run it was new to.
Done(d) ==
  LET w == Candidate(d) IN
  /\ dispatcher[d].at = "deliver"
  /\ deferred' = [deferred EXCEPT ![w] = IF @ = None THEN dispatcher[d].exit ELSE @]
  /\ resume' = (resume \/ deferred[w] = None)
  /\ dispatcher' = [dispatcher EXCEPT ![d].at = "mark"]
  /\ UNCHANGED <<journal, branch, crashes>>

Mark(d) ==
  /\ dispatcher[d].at = "mark"
  /\ wait' = [wait EXCEPT ![Candidate(d)].delivered = TRUE, ![Candidate(d)].wake = FALSE]
  /\ Proceed(d)
  /\ UNCHANGED <<now, sequence, signal, closed, deferred, interpreter, crashes>>

CrashDispatcher(d) ==
  /\ dispatcher[d].at # "idle" /\ crashes < MaxCrashes
  /\ dispatcher' = [dispatcher EXCEPT ![d] = Asleep]
  /\ crashes' = crashes + 1
  /\ UNCHANGED <<journal, deferred, interpreter>>

-----------------------------------------------------------------------------
Command(w) == Gate(w) \/ Register(w) \/ Await(w)
Resolve(d) == AlreadyResolved(d) \/ Consume(d) \/ Expire(d) \/ SleepAgain(d)
Loop(d) == Fetch(d) \/ Resolve(d) \/ Done(d) \/ Mark(d)

Next ==
  \/ \E w \in Waits : Command(w)
  \/ \E d \in Dispatchers : Loop(d) \/ CrashDispatcher(d)
  \/ Replay \/ CrashRound \/ Signal \/ Tick \/ Close

Spec == Init /\ [][Next]_vars

\* Rounds run on, dispatch loops poll, time passes and the engine replays. Senders,
\* cancellations and crashes owe nobody anything.
Fairness ==
  /\ \A w \in Waits : WF_vars(Command(w))
  /\ \A d \in Dispatchers : WF_vars(Loop(d))
  /\ WF_vars(Replay) /\ WF_vars(Tick)

FairSpec == Spec /\ Fairness

-----------------------------------------------------------------------------
(* Properties. *)

\* A signal accepted before the deadline of a wait wins over its timeout, however
\* late the dispatcher looks: a wait only times out when other waits took them all.
EarlierSignalWins ==
  \A w \in Waits, s \in Sequences :
    wait[w].state = "timeout" /\ s <= sequence /\ signal[s].at < wait[w].deadline
      => signal[s].by # NoWait

\* A decision is on its way to the engine, or has reached it in this round.
ReplayDue == resume \/ \E w \in Waits : Decision(w) # None /\ deferred[w] = None

\* No wake-up is lost although a signal wakes one wait only, which may time out
\* instead of consuming it: while a wait sleeps beside a signal nobody was woken
\* for, this round has yet to register the wait or another round will.
NoLostWakeup ==
  \A w \in Sleeping :
    \/ Cardinality(Unconsumed) <= Cardinality(Woken)
    \/ branch[w] \in {"idle", "gated"}
    \/ ReplayDue

\* A wait does not stay pending beyond its deadline, nor beside a signal unless
\* another wait takes it: its branch returns, unless the run is closed.
WaitIsAnswered ==
  \A w \in Waits :
    /\ IsPending(w) /\ DueBy(w, MaxTime) ~> closed \/ branch[w] = "returned"
    /\ IsPending(w) /\ Unconsumed # {}
         ~> closed \/ branch[w] = "returned" \/ Unconsumed = {}

-----------------------------------------------------------------------------
\* The journal implements the queue of signals.
Queue == INSTANCE SignalQueue WITH
  accepted <- sequence,
  consumer <- [s \in Sequences |-> signal[s].by],
  outcome <- [w \in Waits |-> Decision(w)],
  told <- deferred

\* Signals are given out in order, each to one wait; a wait is answered once.
QueueSpec == Queue!Spec
=============================================================================
