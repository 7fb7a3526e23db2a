-------------------------- MODULE SignalWaitsProofs --------------------------
(* Theorems about SignalWaits, for any waits, deadlines, signals, dispatchers *)
(* and crashes.                                                               *)
EXTENDS SignalWaits, FiniteSetTheorems, WellFoundedInduction, TLAPS

USE DEF journal, interpreter, vars

-----------------------------------------------------------------------------
(* Lowest. *)

\* The sets of smaller elements, ordered by inclusion, have a minimal one: that
\* of the lowest element.
LEMMA LowestIn ==
  ASSUME NEW S \in SUBSET Nat, IsFiniteSet(S), S # {}
  PROVE  Lowest(S) \in S /\ \A y \in S : Lowest(S) <= y
<1> DEFINE Below(x) == {y \in S : y < x}
           Downs == {Below(x) : x \in S}
<1>1. \A x \in S : IsFiniteSet(Below(x)) /\ Below(x) \in SUBSET S
  BY FS_Subset
<1>2. Downs \subseteq FiniteSubsetsOf(S) /\ Downs # {}
  BY <1>1 DEF FiniteSubsetsOf
<1>3. IsWellFoundedOn(StrictSubsetOrdering(S), FiniteSubsetsOf(S))
  BY FS_StrictSubsetOrderingWellFounded
<1>4. PICK D \in Downs : \A E \in Downs : ~(<<E, D>> \in StrictSubsetOrdering(S))
  <2> HIDE DEF Downs
  <2> QED BY <1>2, <1>3, WFMin
<1>5. PICK x \in S : D = Below(x)
  BY <1>4
<1>6. \A y \in S : x <= y
  <2> SUFFICES ASSUME NEW y \in S, y < x PROVE FALSE
    OBVIOUS
  <2>1. y \in Below(x) /\ y \notin Below(y)
    OBVIOUS
  <2>2. \A z \in S : z < y => z < x
    OBVIOUS
  <2>3. Below(y) \subseteq Below(x)
    BY <2>2
  <2>4. <<Below(y), D>> \in StrictSubsetOrdering(S)
    BY <1>1, <1>5, <2>1, <2>3 DEF StrictSubsetOrdering
  <2> QED BY <1>4, <2>4
<1> QED BY <1>6 DEF Lowest

-----------------------------------------------------------------------------
(* Types. *)

LEMMA SequencesAreFinite ==
  /\ Sequences \subseteq Nat /\ IsFiniteSet(Sequences)
  /\ None \notin Sequences /\ TimedOut \notin Sequences
BY BoundsAssumption, ExitsAssumption, FS_Interval DEF Sequences

LEMMA OldestSignal ==
  ASSUME Unconsumed # {}
  PROVE  /\ Lowest(Unconsumed) \in Unconsumed
         /\ \A s \in Unconsumed : Lowest(Unconsumed) <= s
<1>1. Unconsumed \in SUBSET Sequences
  BY DEF Unconsumed
<1>2. Unconsumed \in SUBSET Nat /\ IsFiniteSet(Unconsumed)
  BY <1>1, SequencesAreFinite, FS_Subset
<1> QED BY <1>2, LowestIn

LEMMA CandidateIn ==
  ASSUME TypeOK, NEW d \in Dispatchers, dispatcher[d].batch # {}
  PROVE  Candidate(d) \in dispatcher[d].batch /\ Candidate(d) \in Waits
<1>1. dispatcher[d].batch \in SUBSET Waits
  BY DEF TypeOK, Dispatch
<1>2. dispatcher[d].batch \in SUBSET Nat /\ IsFiniteSet(dispatcher[d].batch)
  BY <1>1, WaitsAssumption, FS_Subset
<1> QED BY <1>1, <1>2, LowestIn DEF Candidate

\* A dispatcher at work has a batch of waits that were registered.
BatchInv ==
  \A d \in Dispatchers :
    /\ dispatcher[d].at # "idle" => dispatcher[d].batch # {}
    /\ \A w \in dispatcher[d].batch : wait[w].state # "none"

TypeInv == TypeOK /\ BatchInv

LEMMA TypeInit == Init => TypeInv
<1> SUFFICES ASSUME Init PROVE TypeInv
  OBVIOUS
<1>1. /\ Unregistered \in WaitRow
      /\ Asleep \in Dispatch
      /\ [at |-> 0, by |-> NoWait] \in SignalRow
  BY DEF SignalRow, WaitRow, Unregistered, Dispatch, Asleep
<1>2. TypeOK
  <2>1. closed \in BOOLEAN /\ resume \in BOOLEAN
    BY Zenon DEF Init
  <2>2. \A w \in Waits : wait[w] = Unregistered
    BY DEF Init
  <2>3. \A w \in Waits : /\ wait[w].result # None <=> wait[w].state = "success"
                         /\ wait[w].state = "timeout" => wait[w].deadline # NoTimeout
    BY <2>2 DEF Unregistered
  <2> QED BY <1>1, <2>1, <2>3, SequencesAreFinite, BoundsAssumption DEF Init, TypeOK
<1>3. BatchInv
  BY DEF Init, BatchInv, Asleep
<1> QED BY <1>2, <1>3 DEF TypeInv

\* What the statements on a wait row make of it.
LEMMA WaitRows ==
  ASSUME NEW r \in WaitRow, NEW b \in BOOLEAN
  PROVE  /\ [r EXCEPT !.wake = b] \in WaitRow
         /\ [r EXCEPT !.state = "timeout", !.wake = TRUE] \in WaitRow
         /\ [r EXCEPT !.delivered = TRUE, !.wake = FALSE] \in WaitRow
BY DEF WaitRow

LEMMA SuccessRow ==
  ASSUME NEW r \in WaitRow, NEW s \in Sequences
  PROVE  [r EXCEPT !.state = "success", !.result = s, !.wake = TRUE] \in WaitRow
BY DEF WaitRow

LEMMA RegisteredRow ==
  ASSUME TypeOK, NEW w \in Waits, NEW b \in BOOLEAN
  PROVE  [Unregistered EXCEPT !.state = "pending", !.deadline = Deadline(w), !.wake = b]
           \in WaitRow
<1>1. Deadline(w) \in Nat \cup {NoTimeout}
  BY TimeoutAssumption DEF Deadline, TypeOK
<1> QED BY <1>1 DEF WaitRow, Unregistered

\* A statement on one wait row keeps the table well typed, and the row in it.
RowsOK == /\ wait \in [Waits -> WaitRow]
          /\ \A w \in Waits : /\ wait[w].result # None <=> wait[w].state = "success"
                              /\ wait[w].state = "timeout" => wait[w].deadline # NoTimeout

LEMMA RowUpdate ==
  ASSUME TypeInv, NEW w \in Waits, NEW r \in WaitRow, wait' = [wait EXCEPT ![w] = r],
         r.result # None <=> r.state = "success",
         r.state = "timeout" => r.deadline # NoTimeout,
         r.state # "none"
  PROVE  /\ RowsOK'
         /\ \A v \in Waits : wait[v].state # "none" => wait'[v].state # "none"
BY DEF TypeInv, TypeOK, RowsOK

\* Waking a wait, or putting it to sleep.
LEMMA RewakeUpdate ==
  ASSUME TypeInv, NEW w \in Waits, NEW b \in BOOLEAN, IsPending(w),
         wait' = [wait EXCEPT ![w].wake = b]
  PROVE  /\ RowsOK'
         /\ \A v \in Waits : wait[v].state # "none" => wait'[v].state # "none"
<1> DEFINE r == [wait[w] EXCEPT !.wake = b]
<1>1. wait[w] \in WaitRow
  BY DEF TypeInv, TypeOK
<1>2. r \in WaitRow
  BY <1>1, WaitRows, Zenon
<1>3. r.state = "pending" /\ r.result = None
  <2>1. wait[w].result = None
    BY DEF IsPending, TypeInv, TypeOK
  <2> QED BY <1>1, <2>1 DEF IsPending, WaitRow
<1>4. wait' = [wait EXCEPT ![w] = r]
  OBVIOUS
<1> HIDE DEF r
<1> QED BY <1>2, <1>3, <1>4, RowUpdate

LEMMA TypeRegister ==
  ASSUME TypeInv, NEW w \in Waits, Register(w)
  PROVE  TypeInv'
<1>1. PICK b \in BOOLEAN : wait' =
        CASE wait[w].state = "none" ->
               [wait EXCEPT ![w] = [Unregistered EXCEPT
                  !.state = "pending", !.deadline = Deadline(w), !.wake = b]]
          [] IsPending(w) -> [wait EXCEPT ![w].wake = @ \/ b]
          [] OTHER -> wait
  <2> DEFINE surplus == Cardinality(Unconsumed) > Cardinality(Woken)
  <2>1. surplus \in BOOLEAN
    OBVIOUS
  <2> QED BY <2>1, Zenon DEF Register
<1>2. wait[w] \in WaitRow /\ wait \in [Waits -> WaitRow]
  BY DEF TypeInv, TypeOK
<1>3. /\ RowsOK'
      /\ \A v \in Waits : wait[v].state # "none" => wait'[v].state # "none"
  <2>1. CASE wait[w].state = "none"
    <3> DEFINE r == [Unregistered EXCEPT !.state = "pending", !.deadline = Deadline(w), !.wake = b]
    <3>1. wait[w].state = "none" => ~IsPending(w)
      BY DEF IsPending
    <3>2. wait' = [wait EXCEPT ![w] = r]
      BY <1>1, <2>1, <3>1, Zenon
    <3>3. r \in WaitRow
      BY RegisteredRow DEF TypeInv
    <3>4. r.state = "pending" /\ r.result = None
      BY DEF Unregistered
    <3> HIDE DEF r
    <3> QED BY <3>2, <3>3, <3>4, RowUpdate
  <2>2. CASE IsPending(w)
    <3>1. PICK c \in BOOLEAN : wait' = [wait EXCEPT ![w].wake = c]
      BY <1>1, <1>2, <2>2 DEF IsPending, WaitRow
    <3> QED BY <2>2, <3>1, RewakeUpdate
  <2>3. CASE wait[w].state # "none" /\ ~IsPending(w)
    <3>1. wait' = wait
      BY <1>1, <2>3, Zenon
    <3> QED BY <3>1 DEF TypeInv, TypeOK, RowsOK
  <2> QED BY <2>1, <2>2, <2>3
<1>4. TypeOK'
  BY <1>3 DEF Register, TypeInv, TypeOK, RowsOK
<1>5. BatchInv'
  BY <1>3 DEF Register, TypeInv, TypeOK, Dispatch, BatchInv
<1> QED BY <1>4, <1>5 DEF TypeInv

LEMMA TypeInterpreter ==
  ASSUME TypeInv, NEW w \in Waits, Gate(w) \/ Await(w)
  PROVE  TypeInv'
<1>1. BatchInv'
  BY DEF TypeInv, BatchInv, Gate, Await
<1>2. branch' \in [Waits -> {"idle", "gated", "registered", "parked", "returned"}]
  BY DEF TypeInv, TypeOK, Gate, Await
<1>3. crashes' \in Nat
  BY DEF TypeInv, TypeOK, Gate, Await
<1>5. resume' \in BOOLEAN
  BY Zenon DEF TypeInv, TypeOK, Gate, Await
<1>4. UNCHANGED <<journal, deferred, dispatcher>>
  BY DEF Gate, Await
<1> QED BY <1>1, <1>2, <1>3, <1>4, <1>5 DEF TypeInv, TypeOK

LEMMA TypeWorld ==
  ASSUME TypeInv, Tick \/ Close
  PROVE  TypeInv'
<1>1. BatchInv'
  BY DEF TypeInv, BatchInv, Tick, Close
<1>2. now' \in Nat
  BY DEF TypeInv, TypeOK, Tick, Close
<1>5. closed' \in BOOLEAN
  BY Zenon DEF TypeInv, TypeOK, Tick, Close
<1>3. UNCHANGED <<sequence, signal, wait, deferred, interpreter, dispatcher, crashes>>
  BY DEF Tick, Close
<1> QED BY <1>1, <1>2, <1>3, <1>5 DEF TypeInv, TypeOK

\* signal() wakes the first sleeping wait, if there is one.
LEMMA WakesOne ==
  ASSUME TypeInv, Signal
  PROVE  \/ Sleeping = {} /\ wait' = wait
         \/ \E w \in Sleeping : wait' = [wait EXCEPT ![w].wake = TRUE]
<1>1. Sleeping \in SUBSET Waits
  BY DEF Sleeping
<1>2. Sleeping \in SUBSET Nat /\ IsFiniteSet(Sleeping)
  BY <1>1, WaitsAssumption, FS_Subset
<1>3. Sleeping # {} => Lowest(Sleeping) \in Sleeping
  BY <1>2, LowestIn
<1> QED BY <1>3 DEF Signal

LEMMA TypeSignal ==
  ASSUME TypeInv, Signal
  PROVE  TypeInv'
<1>1. sequence' \in 0..MaxSignals
  BY BoundsAssumption DEF Signal, TypeInv, TypeOK
<1>2. signal' \in [Sequences -> SignalRow]
  <2>1. [at |-> now, by |-> NoWait] \in SignalRow
    BY DEF TypeInv, TypeOK, SignalRow
  <2> QED BY <2>1 DEF Signal, TypeInv, TypeOK
<1>3. /\ RowsOK'
      /\ \A v \in Waits : wait[v].state # "none" => wait'[v].state # "none"
  <2>1. CASE wait' = wait
    BY <2>1 DEF TypeInv, TypeOK, RowsOK
  <2>2. ASSUME NEW w \in Sleeping, wait' = [wait EXCEPT ![w].wake = TRUE]
        PROVE  /\ RowsOK'
               /\ \A v \in Waits : wait[v].state # "none" => wait'[v].state # "none"
    <3>1. w \in Waits /\ IsPending(w)
      BY DEF Sleeping
    <3> QED BY <2>2, <3>1, RewakeUpdate
  <2> QED BY <2>1, <2>2, WakesOne
<1>4. UNCHANGED <<now, closed, deferred, interpreter, dispatcher, crashes>>
  BY DEF Signal
<1>5. TypeOK'
  BY <1>1, <1>2, <1>3, <1>4 DEF TypeInv, TypeOK, RowsOK
<1>6. BatchInv'
  BY <1>3, <1>4 DEF TypeInv, TypeOK, Dispatch, BatchInv
<1> QED BY <1>5, <1>6 DEF TypeInv

\* A dispatcher that keeps to its batch leaves the others alone.
LEMMA DispatcherUpdate ==
  ASSUME TypeInv, NEW d \in Dispatchers, NEW x \in Dispatch,
         dispatcher' = [dispatcher EXCEPT ![d] = x],
         x.at # "idle" => x.batch # {},
         \A w \in x.batch : wait[w].state # "none",
         \A w \in Waits : wait[w].state # "none" => wait'[w].state # "none"
  PROVE  dispatcher' \in [Dispatchers -> Dispatch] /\ BatchInv'
BY DEF TypeInv, TypeOK, BatchInv, Dispatch

LEMMA DeliverUpdate ==
  ASSUME TypeInv, NEW d \in Dispatchers, NEW e \in Exits \cup {None},
         dispatcher[d].at = "resolve", Deliver(d, e),
         \A w \in Waits : wait[w].state # "none" => wait'[w].state # "none"
  PROVE  dispatcher' \in [Dispatchers -> Dispatch] /\ BatchInv'
<1> DEFINE x == [dispatcher[d] EXCEPT !.at = "deliver", !.exit = e]
<1>1. dispatcher[d] \in Dispatch /\ dispatcher \in [Dispatchers -> Dispatch]
  BY DEF TypeInv, TypeOK
<1>2. x \in Dispatch /\ x.batch = dispatcher[d].batch
  BY <1>1 DEF Dispatch
<1>3. dispatcher' = [dispatcher EXCEPT ![d] = x]
  BY <1>1 DEF Deliver
<1> HIDE DEF x
<1> QED BY <1>2, <1>3, DispatcherUpdate DEF TypeInv, BatchInv

LEMMA ProceedUpdate ==
  ASSUME TypeInv, NEW d \in Dispatchers, Proceed(d),
         \A w \in Waits : wait[w].state # "none" => wait'[w].state # "none"
  PROVE  dispatcher' \in [Dispatchers -> Dispatch] /\ BatchInv'
<1> DEFINE rest == dispatcher[d].batch \ {Candidate(d)}
           x == IF rest = {} THEN Asleep ELSE [at |-> "resolve", batch |-> rest, exit |-> None]
<1>1. rest \in SUBSET dispatcher[d].batch /\ dispatcher[d].batch \in SUBSET Waits
  BY DEF TypeInv, TypeOK, Dispatch
<1>2. x \in Dispatch /\ x.batch \in SUBSET dispatcher[d].batch /\ (x.at # "idle" => x.batch # {})
  <2> HIDE DEF rest
  <2> QED BY <1>1 DEF Dispatch, Asleep
<1>3. dispatcher' = [dispatcher EXCEPT ![d] = x]
  BY DEF Proceed
<1> HIDE DEF x, rest
<1> QED BY <1>2, <1>3, DispatcherUpdate DEF TypeInv, BatchInv

LEMMA DecisionType ==
  ASSUME TypeInv, NEW w \in Waits
  PROVE  /\ Decision(w) \in Exits \cup {None}
         /\ Decision(w) # None <=> wait[w].state \in {"success", "timeout"}
BY ExitsAssumption, SequencesAreFinite DEF TypeInv, TypeOK, Decision, WaitRow, Exits

\* What the three exits of resolveWait do to the row of the candidate.
LEMMA TypeConsume ==
  ASSUME TypeInv, NEW d \in Dispatchers, Consume(d)
  PROVE  TypeInv'
<1> DEFINE w == Candidate(d)
           s == Lowest(Unconsumed)
           r == [wait[w] EXCEPT !.state = "success", !.result = s, !.wake = TRUE]
<1>1. w \in Waits
  BY CandidateIn DEF Consume, TypeInv, BatchInv
<1>2. s \in Sequences
  BY OldestSignal DEF Consume, Consumable, HasSignal, Unconsumed
<1>3. wait[w] \in WaitRow /\ wait \in [Waits -> WaitRow]
  BY <1>1 DEF TypeInv, TypeOK
<1>4. r \in WaitRow
  BY <1>2, <1>3, SuccessRow
<1>5. r.state = "success" /\ r.result = s
  BY <1>3 DEF WaitRow
<1>6. wait' = [wait EXCEPT ![w] = r]
  BY <1>1, <1>3 DEF Consume
<1>7. signal' \in [Sequences -> SignalRow]
  BY <1>1, <1>2 DEF Consume, TypeInv, TypeOK, SignalRow
<1>8. Deliver(d, s) /\ dispatcher[d].at = "resolve"
  BY DEF Consume
<1>9. UNCHANGED <<now, sequence, closed, deferred, interpreter, crashes>>
  BY DEF Consume
<1>10. s # None /\ s \in Exits \cup {None}
  BY <1>2, SequencesAreFinite DEF Exits
<1> HIDE DEF r, w, s
<1>11. /\ RowsOK'
       /\ \A v \in Waits : wait[v].state # "none" => wait'[v].state # "none"
  BY <1>1, <1>4, <1>5, <1>6, <1>10, RowUpdate
<1>12. dispatcher' \in [Dispatchers -> Dispatch] /\ BatchInv'
  BY <1>8, <1>10, <1>11, DeliverUpdate
<1> QED BY <1>7, <1>9, <1>11, <1>12 DEF TypeInv, TypeOK, RowsOK

LEMMA TypeExpire ==
  ASSUME TypeInv, NEW d \in Dispatchers, Expire(d)
  PROVE  TypeInv'
<1> DEFINE w == Candidate(d)
           r == [wait[w] EXCEPT !.state = "timeout", !.wake = TRUE]
<1>1. w \in Waits
  BY CandidateIn DEF Expire, TypeInv, BatchInv
<1>2. wait[w] \in WaitRow /\ wait \in [Waits -> WaitRow]
  BY <1>1 DEF TypeInv, TypeOK
<1>3. r \in WaitRow
  BY <1>2, WaitRows
<1>4. r.state = "timeout" /\ r.result = None /\ r.deadline # NoTimeout
  <2>1. wait[w].result = None /\ wait[w].deadline # NoTimeout
    BY <1>1 DEF Expire, IsPending, DueBy, TypeInv, TypeOK
  <2> QED BY <1>2, <2>1 DEF WaitRow
<1>5. wait' = [wait EXCEPT ![w] = r]
  BY <1>1, <1>2 DEF Expire
<1>6. Deliver(d, TimedOut) /\ dispatcher[d].at = "resolve"
  BY DEF Expire
<1>7. UNCHANGED <<now, sequence, signal, closed, deferred, interpreter, crashes>>
  BY DEF Expire
<1> HIDE DEF r, w
<1>8. /\ RowsOK'
      /\ \A v \in Waits : wait[v].state # "none" => wait'[v].state # "none"
  BY <1>1, <1>3, <1>4, <1>5, RowUpdate
<1>9. dispatcher' \in [Dispatchers -> Dispatch] /\ BatchInv'
  BY <1>6, <1>8, DeliverUpdate DEF Exits
<1> QED BY <1>7, <1>8, <1>9 DEF TypeInv, TypeOK, RowsOK

LEMMA TypeSleepAgain ==
  ASSUME TypeInv, NEW d \in Dispatchers, SleepAgain(d)
  PROVE  TypeInv'
<1>1. Candidate(d) \in Waits /\ IsPending(Candidate(d))
  BY CandidateIn DEF SleepAgain, TypeInv, BatchInv
<1>2. wait' = [wait EXCEPT ![Candidate(d)].wake = FALSE] /\ Proceed(d)
  BY DEF SleepAgain
<1>3. /\ RowsOK'
      /\ \A v \in Waits : wait[v].state # "none" => wait'[v].state # "none"
  BY <1>1, <1>2, RewakeUpdate
<1>4. dispatcher' \in [Dispatchers -> Dispatch] /\ BatchInv'
  BY <1>2, <1>3, ProceedUpdate
<1>5. UNCHANGED <<now, sequence, signal, closed, deferred, interpreter, crashes>>
  BY DEF SleepAgain
<1> QED BY <1>3, <1>4, <1>5 DEF TypeInv, TypeOK, RowsOK

LEMMA TypeFetch ==
  ASSUME TypeInv, NEW d \in Dispatchers, Fetch(d)
  PROVE  TypeInv'
<1> DEFINE x == [at |-> "resolve", batch |-> Outbox, exit |-> None]
<1>1. x \in Dispatch /\ x.batch = Outbox /\ \A w \in Outbox : wait[w].state # "none"
  BY DEF Outbox, Dispatch
<1>2. dispatcher' = [dispatcher EXCEPT ![d] = x] /\ Outbox # {}
  BY DEF Fetch
<1>3. UNCHANGED <<journal, deferred, interpreter, crashes>>
  BY DEF Fetch
<1> HIDE DEF x
<1>4. dispatcher' \in [Dispatchers -> Dispatch] /\ BatchInv'
  BY <1>1, <1>2, <1>3, DispatcherUpdate
<1> QED BY <1>3, <1>4 DEF TypeInv, TypeOK

LEMMA TypeAlreadyResolved ==
  ASSUME TypeInv, NEW d \in Dispatchers, AlreadyResolved(d)
  PROVE  TypeInv'
<1>1. Candidate(d) \in Waits
  BY CandidateIn DEF AlreadyResolved, TypeInv, BatchInv
<1>2. Deliver(d, Decision(Candidate(d))) /\ dispatcher[d].at = "resolve"
  BY DEF AlreadyResolved
<1>3. UNCHANGED <<journal, deferred, interpreter, crashes>>
  BY DEF AlreadyResolved
<1>4. Decision(Candidate(d)) \in Exits \cup {None}
  BY <1>1, DecisionType
<1>5. dispatcher' \in [Dispatchers -> Dispatch] /\ BatchInv'
  BY <1>2, <1>3, <1>4, DeliverUpdate
<1> QED BY <1>3, <1>5 DEF TypeInv, TypeOK

LEMMA TypeDone ==
  ASSUME TypeInv, NEW d \in Dispatchers, Done(d)
  PROVE  TypeInv'
<1>1. dispatcher[d] \in Dispatch /\ dispatcher \in [Dispatchers -> Dispatch]
  BY DEF TypeInv, TypeOK
<1> DEFINE x == [dispatcher[d] EXCEPT !.at = "mark"]
<1>2. x \in Dispatch /\ x.batch = dispatcher[d].batch
  BY <1>1 DEF Dispatch
<1>3. dispatcher' = [dispatcher EXCEPT ![d] = x] /\ dispatcher[d].at = "deliver"
  BY <1>1 DEF Done
<1>4. deferred' \in [Waits -> Exits \cup {None}]
  BY <1>1 DEF Done, TypeInv, TypeOK, Dispatch
<1>5. resume' \in BOOLEAN
  <2>1. resume' = (resume \/ deferred[Candidate(d)] = None)
    BY DEF Done
  <2> QED BY <2>1, Zenon
<1>6. UNCHANGED <<journal, branch, crashes>>
  BY DEF Done
<1> HIDE DEF x
<1>7. dispatcher' \in [Dispatchers -> Dispatch] /\ BatchInv'
  BY <1>2, <1>3, <1>6, DispatcherUpdate DEF TypeInv, BatchInv
<1> QED BY <1>4, <1>5, <1>6, <1>7 DEF TypeInv, TypeOK

LEMMA TypeMark ==
  ASSUME TypeInv, NEW d \in Dispatchers, Mark(d)
  PROVE  TypeInv'
<1> DEFINE w == Candidate(d)
           r == [wait[w] EXCEPT !.delivered = TRUE, !.wake = FALSE]
<1>1. w \in Waits /\ wait[w].state # "none"
  BY CandidateIn DEF Mark, TypeInv, BatchInv
<1>2. wait[w] \in WaitRow /\ wait \in [Waits -> WaitRow]
  BY <1>1 DEF TypeInv, TypeOK
<1>3. r \in WaitRow
  BY <1>2, WaitRows
<1>4. /\ r.result # None <=> r.state = "success"
      /\ r.state = "timeout" => r.deadline # NoTimeout
      /\ r.state # "none"
  <2>1. r.result = wait[w].result /\ r.state = wait[w].state /\ r.deadline = wait[w].deadline
    BY <1>2 DEF WaitRow
  <2> QED BY <1>1, <2>1 DEF TypeInv, TypeOK
<1>5. wait' = [wait EXCEPT ![w] = r] /\ Proceed(d)
  BY <1>1, <1>2 DEF Mark
<1>6. UNCHANGED <<now, sequence, signal, closed, deferred, interpreter, crashes>>
  BY DEF Mark
<1> HIDE DEF r, w
<1>7. /\ RowsOK'
      /\ \A v \in Waits : wait[v].state # "none" => wait'[v].state # "none"
  BY <1>1, <1>3, <1>4, <1>5, RowUpdate
<1>8. dispatcher' \in [Dispatchers -> Dispatch] /\ BatchInv'
  BY <1>5, <1>7, ProceedUpdate
<1> QED BY <1>6, <1>7, <1>8 DEF TypeInv, TypeOK, RowsOK

LEMMA TypeCrashDispatcher ==
  ASSUME TypeInv, NEW d \in Dispatchers, CrashDispatcher(d)
  PROVE  TypeInv'
<1>1. Asleep \in Dispatch /\ Asleep.at = "idle" /\ Asleep.batch = {}
  BY DEF Asleep, Dispatch
<1>2. dispatcher' = [dispatcher EXCEPT ![d] = Asleep]
  BY DEF CrashDispatcher
<1>3. UNCHANGED <<journal, deferred, interpreter>>
  BY DEF CrashDispatcher
<1>4. dispatcher' \in [Dispatchers -> Dispatch] /\ BatchInv'
  BY <1>1, <1>2, <1>3, DispatcherUpdate
<1>5. crashes' \in Nat
  BY DEF CrashDispatcher, TypeInv, TypeOK
<1> QED BY <1>3, <1>4, <1>5 DEF TypeInv, TypeOK

LEMMA TypeStep == TypeInv /\ [Next]_vars => TypeInv'
<1> SUFFICES ASSUME TypeInv, [Next]_vars PROVE TypeInv'
  OBVIOUS
<1>1. ASSUME NEW w \in Waits, Command(w) PROVE TypeInv'
  BY <1>1, TypeInterpreter, TypeRegister DEF Command
<1>2. ASSUME NEW d \in Dispatchers, Loop(d) PROVE TypeInv'
  BY <1>2, TypeFetch, TypeAlreadyResolved, TypeConsume, TypeExpire, TypeSleepAgain,
     TypeDone, TypeMark DEF Loop, Resolve
<1>3. ASSUME NEW d \in Dispatchers, CrashDispatcher(d) PROVE TypeInv'
  BY <1>3, TypeCrashDispatcher
<1>4. CASE Replay \/ CrashRound
  <2>1. BatchInv'
    BY <1>4 DEF TypeInv, BatchInv, Replay, CrashRound
  <2>2. /\ branch' \in [Waits -> {"idle", "gated", "registered", "parked", "returned"}]
        /\ crashes' \in Nat
    BY <1>4 DEF TypeInv, TypeOK, Replay, CrashRound
  <2>3. resume' \in BOOLEAN
    BY <1>4, Zenon DEF TypeInv, TypeOK, Replay, CrashRound
  <2>4. UNCHANGED <<journal, deferred, dispatcher>>
    BY <1>4 DEF Replay, CrashRound
  <2> QED BY <2>1, <2>2, <2>3, <2>4 DEF TypeInv, TypeOK
<1>5. CASE Signal \/ Tick \/ Close
  BY <1>5, TypeSignal, TypeWorld
<1>6. CASE UNCHANGED vars
  BY <1>6 DEF TypeInv, TypeOK, BatchInv
<1> QED BY <1>1, <1>2, <1>3, <1>4, <1>5, <1>6 DEF Next

\* Every row and program counter stays one the code can write; a wait carries a
\* signal exactly when it succeeded, and only a wait with a deadline times out.
THEOREM SignalTypes == Spec => []TypeOK
<1>1. Spec => []TypeInv
  BY TypeInit, TypeStep, PTL DEF Spec
<1> QED BY <1>1, PTL DEF TypeInv

-----------------------------------------------------------------------------
(* What the steps do to the rows. *)

\* Only waking and marking: nothing a decision depends on changes in the row.
SameRow(w) == /\ wait[w].state = wait'[w].state
              /\ wait[w].deadline = wait'[w].deadline
              /\ wait[w].result = wait'[w].result

LEMMA ConsumeStep ==
  ASSUME TypeInv, NEW d \in Dispatchers, Consume(d)
  PROVE  \E w \in Waits, s \in Unconsumed :
           /\ w = Candidate(d) /\ IsPending(w)
           /\ s \in Sequences /\ \A t \in Unconsumed : s <= t
           /\ wait'[w].state = "success" /\ wait'[w].result = s
           /\ \A v \in Waits \ {w} : wait'[v] = wait[v]
           /\ signal' = [signal EXCEPT ![s].by = w]
           /\ dispatcher' = [dispatcher EXCEPT ![d].at = "deliver", ![d].exit = s]
<1> DEFINE w == Candidate(d)
           s == Lowest(Unconsumed)
<1>1. w \in Waits
  BY CandidateIn DEF Consume, TypeInv, BatchInv
<1>2. s \in Unconsumed /\ s \in Sequences /\ \A t \in Unconsumed : s <= t
  BY OldestSignal DEF Consume, Consumable, HasSignal, Unconsumed
<1>3. wait[w] \in WaitRow /\ wait \in [Waits -> WaitRow]
  BY <1>1 DEF TypeInv, TypeOK
<1>4. /\ wait' = [wait EXCEPT ![w].state = "success", ![w].result = s, ![w].wake = TRUE]
      /\ signal' = [signal EXCEPT ![s].by = w]
      /\ dispatcher' = [dispatcher EXCEPT ![d].at = "deliver", ![d].exit = s]
      /\ IsPending(w)
  BY DEF Consume, Deliver, Consumable
<1>5. wait'[w].state = "success" /\ wait'[w].result = s
  BY <1>1, <1>3, <1>4 DEF WaitRow
<1>6. \A v \in Waits \ {w} : wait'[v] = wait[v]
  BY <1>3, <1>4
<1> HIDE DEF s
<1> QED BY <1>1, <1>2, <1>4, <1>5, <1>6

LEMMA ExpireStep ==
  ASSUME TypeInv, NEW d \in Dispatchers, Expire(d)
  PROVE  \E w \in Waits :
           /\ w = Candidate(d) /\ IsPending(w) /\ ~HasSignal(w) /\ DueBy(w, now)
           /\ wait'[w].state = "timeout"
           /\ wait'[w].deadline = wait[w].deadline /\ wait'[w].result = wait[w].result
           /\ \A v \in Waits \ {w} : wait'[v] = wait[v]
           /\ signal' = signal
           /\ dispatcher' = [dispatcher EXCEPT ![d].at = "deliver", ![d].exit = TimedOut]
<1> DEFINE w == Candidate(d)
<1>1. w \in Waits
  BY CandidateIn DEF Expire, TypeInv, BatchInv
<1>2. wait[w] \in WaitRow /\ wait \in [Waits -> WaitRow]
  BY <1>1 DEF TypeInv, TypeOK
<1>3. /\ wait' = [wait EXCEPT ![w].state = "timeout", ![w].wake = TRUE]
      /\ signal' = signal /\ IsPending(w) /\ ~HasSignal(w) /\ DueBy(w, now)
      /\ dispatcher' = [dispatcher EXCEPT ![d].at = "deliver", ![d].exit = TimedOut]
  BY DEF Expire, Deliver, Consumable
<1>4. /\ wait'[w].state = "timeout"
      /\ wait'[w].deadline = wait[w].deadline /\ wait'[w].result = wait[w].result
  BY <1>1, <1>2, <1>3 DEF WaitRow
<1>5. \A v \in Waits \ {w} : wait'[v] = wait[v]
  BY <1>2, <1>3
<1> QED BY <1>1, <1>3, <1>4, <1>5

LEMMA RegisterStep ==
  ASSUME TypeInv, NEW w \in Waits, Register(w)
  PROVE  /\ \A v \in Waits \ {w} : wait'[v] = wait[v]
         /\ \/ SameRow(w)
            \/ wait[w].state = "none" /\ wait'[w].state = "pending"
<1>1. wait[w] \in WaitRow /\ wait \in [Waits -> WaitRow]
  BY DEF TypeInv, TypeOK
<1>2. wait' \in [Waits -> WaitRow]
  BY TypeRegister DEF TypeInv, TypeOK
<1>3. CASE wait[w].state = "none"
  <2>1. PICK b \in BOOLEAN, t \in Nat \cup {NoTimeout} :
          wait' = [wait EXCEPT ![w] = [Unregistered EXCEPT
                     !.state = "pending", !.deadline = t, !.wake = b]]
    <3> DEFINE surplus == Cardinality(Unconsumed) > Cardinality(Woken)
    <3>1. surplus \in BOOLEAN
      OBVIOUS
    <3>2. Deadline(w) \in Nat \cup {NoTimeout}
      BY TimeoutAssumption DEF Deadline, TypeInv, TypeOK
    <3>3. ~IsPending(w)
      BY <1>3 DEF IsPending
    <3>4. wait' = [wait EXCEPT ![w] = [Unregistered EXCEPT
                    !.state = "pending", !.deadline = Deadline(w), !.wake = surplus]]
      BY <1>3, <3>3, Zenon DEF Register
    <3> QED BY <3>1, <3>2, <3>4, Zenon
  <2> QED BY <1>1, <1>3, <2>1 DEF Unregistered
<1>4. CASE wait[w].state # "none"
  <2>1. \/ wait' = wait
        \/ \E b \in BOOLEAN : wait' = [wait EXCEPT ![w].wake = @ \/ b]
    <3> DEFINE surplus == Cardinality(Unconsumed) > Cardinality(Woken)
    <3>1. surplus \in BOOLEAN
      OBVIOUS
    <3>2. wait' = wait \/ wait' = [wait EXCEPT ![w].wake = @ \/ surplus]
      BY <1>4, Zenon DEF Register
    <3> QED BY <3>1, <3>2, Zenon
  <2> QED BY <1>1, <2>1 DEF WaitRow, SameRow
<1> QED BY <1>3, <1>4

\* Only signal and resolveWait write signals; no other step decides a wait.
LEMMA OtherStep ==
  ASSUME TypeInv, [Next]_vars, ~Signal,
         \A w \in Waits : ~Register(w),
         \A d \in Dispatchers : ~Consume(d) /\ ~Expire(d)
  PROVE  /\ \A w \in Waits : SameRow(w)
         /\ sequence' = sequence /\ signal' = signal
         /\ now' = now \/ now' = now + 1
<1>1. ASSUME NEW d \in Dispatchers, SleepAgain(d)
      PROVE  /\ \A w \in Waits : SameRow(w)
             /\ sequence' = sequence /\ signal' = signal /\ now' = now
  BY <1>1 DEF SleepAgain, SameRow, TypeInv, TypeOK, WaitRow
<1>2. ASSUME NEW d \in Dispatchers, Mark(d)
      PROVE  /\ \A w \in Waits : SameRow(w)
             /\ sequence' = sequence /\ signal' = signal /\ now' = now
  BY <1>2 DEF Mark, SameRow, TypeInv, TypeOK, WaitRow
<1>3. ASSUME NEW d \in Dispatchers,
             Fetch(d) \/ AlreadyResolved(d) \/ Done(d) \/ CrashDispatcher(d)
      PROVE  UNCHANGED <<now, sequence, signal, wait>>
  BY <1>3 DEF Fetch, AlreadyResolved, Done, CrashDispatcher
<1>4. ASSUME NEW w \in Waits, Gate(w) \/ Await(w)
      PROVE  UNCHANGED <<now, sequence, signal, wait>>
  BY <1>4 DEF Gate, Await
<1>5. Replay \/ CrashRound \/ Tick \/ Close \/ UNCHANGED vars =>
        UNCHANGED <<sequence, signal, wait>> /\ (now' = now \/ now' = now + 1)
  BY DEF Replay, CrashRound, Tick, Close
<1>6. UNCHANGED wait => \A w \in Waits : SameRow(w)
  BY DEF SameRow
<1> QED BY <1>1, <1>2, <1>3, <1>4, <1>5, <1>6 DEF Next, Command, Loop, Resolve

-----------------------------------------------------------------------------
(* Signals against deadlines. *)

\* Signals are accepted in the order of the clock, and consumed after that; a wait
\* that timed out did so at its deadline.
ClockInv ==
  /\ \A s \in Sequences : s <= sequence => signal[s].at <= now
  /\ \A s \in Sequences : s > sequence => signal[s].by = NoWait
  /\ \A s, t \in Sequences : s < t /\ t <= sequence => signal[s].at <= signal[t].at
  /\ \A w \in Waits : wait[w].state = "timeout" => wait[w].deadline <= now

DeadlineInv == TypeInv /\ ClockInv /\ EarlierSignalWins

LEMMA DeadlineTypes ==
  ASSUME TypeOK
  PROVE  /\ now \in Nat /\ sequence \in Nat
         /\ \A s \in Sequences : s \in Nat /\ signal[s].at \in Nat
         /\ \A w \in Waits : wait[w].deadline \in Nat \cup {NoTimeout}
         /\ \A w \in Waits : wait[w].state = "timeout" => wait[w].deadline \in Nat
BY SequencesAreFinite DEF TypeOK, SignalRow, WaitRow

LEMMA DeadlineSignal ==
  ASSUME DeadlineInv, Signal
  PROVE  ClockInv' /\ EarlierSignalWins'
<1>1. \A w \in Waits : SameRow(w)
  <2>1. wait \in [Waits -> WaitRow]
    BY DEF DeadlineInv, TypeInv, TypeOK
  <2>2. CASE wait' = wait
    BY <2>2 DEF SameRow
  <2>3. ASSUME NEW v \in Sleeping, wait' = [wait EXCEPT ![v].wake = TRUE]
        PROVE  \A w \in Waits : SameRow(w)
    BY <2>1, <2>3 DEF SameRow, WaitRow
  <2> QED BY <2>2, <2>3, WakesOne DEF DeadlineInv
<1>2. /\ sequence' = sequence + 1 /\ now' = now /\ sequence' \in Sequences
      /\ signal' = [signal EXCEPT ![sequence + 1] = [at |-> now, by |-> NoWait]]
  BY BoundsAssumption DEF Signal, Sequences, DeadlineInv, TypeInv, TypeOK
<1>3. /\ signal'[sequence + 1].at = now /\ signal'[sequence + 1].by = NoWait
      /\ \A s \in Sequences : s # sequence + 1 => signal'[s] = signal[s]
  BY <1>2 DEF DeadlineInv, TypeInv, TypeOK
<1>4. ClockInv'
  BY <1>1, <1>2, <1>3, DeadlineTypes DEF SameRow, ClockInv, DeadlineInv, TypeInv
<1>5. EarlierSignalWins'
  BY <1>1, <1>2, <1>3, DeadlineTypes DEF SameRow, ClockInv, DeadlineInv, EarlierSignalWins, TypeInv
<1> QED BY <1>4, <1>5

LEMMA DeadlineConsume ==
  ASSUME DeadlineInv, NEW d \in Dispatchers, Consume(d)
  PROVE  ClockInv' /\ EarlierSignalWins'
<1>1. PICK w \in Waits, s \in Unconsumed :
        /\ s \in Sequences
        /\ wait'[w].state = "success"
        /\ \A v \in Waits \ {w} : wait'[v] = wait[v]
        /\ signal' = [signal EXCEPT ![s].by = w]
  BY ConsumeStep DEF DeadlineInv
<1>2. now' = now /\ sequence' = sequence
  BY DEF Consume
<1>3. signal \in [Sequences -> SignalRow]
  BY DEF DeadlineInv, TypeInv, TypeOK
<1>4. /\ signal'[s].by = w /\ signal'[s].at = signal[s].at
      /\ \A u \in Sequences \ {s} : signal'[u] = signal[u]
  BY <1>1, <1>3 DEF SignalRow
<1>5. s <= sequence /\ w # NoWait
  BY <1>1, WaitsAssumption DEF Unconsumed
<1>6. \A u \in Sequences : signal'[u].at = signal[u].at
  BY <1>4
<1>7. ClockInv'
  <2>1. \A u \in Sequences : u > sequence => u # s
    BY <1>1, <1>5, DeadlineTypes DEF DeadlineInv, TypeInv
  <2> QED BY <1>1, <1>2, <1>4, <1>6, <2>1 DEF ClockInv, DeadlineInv
<1>8. EarlierSignalWins'
  BY <1>1, <1>2, <1>4, <1>5 DEF EarlierSignalWins, DeadlineInv
<1> QED BY <1>7, <1>8

\* The timeout is decided only when no signal waits, or when the oldest one, and so
\* every later one, is too late.
LEMMA DeadlineExpire ==
  ASSUME DeadlineInv, NEW d \in Dispatchers, Expire(d)
  PROVE  ClockInv' /\ EarlierSignalWins'
<1>1. PICK w \in Waits :
        /\ ~HasSignal(w) /\ DueBy(w, now)
        /\ wait'[w].state = "timeout" /\ wait'[w].deadline = wait[w].deadline
        /\ \A v \in Waits \ {w} : wait'[v] = wait[v]
        /\ signal' = signal
  BY ExpireStep DEF DeadlineInv
<1>2. now' = now /\ sequence' = sequence
  BY DEF Expire
<1>3. ClockInv'
  BY <1>1, <1>2 DEF ClockInv, DeadlineInv, DueBy
<1>4. ASSUME NEW s \in Sequences, s <= sequence, signal[s].at < wait[w].deadline
      PROVE  signal[s].by # NoWait
  <2> SUFFICES ASSUME s \in Unconsumed PROVE FALSE
    BY <1>4 DEF Unconsumed
  <2> DEFINE o == Lowest(Unconsumed)
  <2>1. o \in Unconsumed /\ o <= s
    BY OldestSignal
  <2>2. o \in Sequences /\ o <= sequence
    BY <2>1 DEF Unconsumed
  <2>3. wait[w].deadline \in Nat
    BY <1>1, DeadlineTypes DEF DueBy, DeadlineInv, TypeInv
  <2>4. ~(signal[o].at <= wait[w].deadline)
    BY <1>1, <2>1 DEF HasSignal, InTime
  <2> HIDE DEF o
  <2>5. signal[o].at <= signal[s].at
    BY <1>4, <2>1, <2>2, DeadlineTypes DEF DeadlineInv, ClockInv, TypeInv
  <2> QED BY <1>4, <2>2, <2>3, <2>4, <2>5, DeadlineTypes DEF DeadlineInv, TypeInv
<1>5. EarlierSignalWins'
  BY <1>1, <1>2, <1>4 DEF EarlierSignalWins, DeadlineInv
<1> QED BY <1>3, <1>5

LEMMA DeadlineStep == DeadlineInv /\ [Next]_vars => DeadlineInv'
<1> SUFFICES ASSUME DeadlineInv, [Next]_vars PROVE ClockInv' /\ EarlierSignalWins'
  BY TypeStep DEF DeadlineInv
<1> USE DEF DeadlineInv
<1>1. CASE Signal
  BY <1>1, DeadlineSignal
<1>2. ASSUME NEW d \in Dispatchers, Consume(d) \/ Expire(d) PROVE ClockInv' /\ EarlierSignalWins'
  BY <1>2, DeadlineConsume, DeadlineExpire
<1>3. ASSUME NEW w \in Waits, Register(w) PROVE ClockInv' /\ EarlierSignalWins'
  <2>1. /\ \A v \in Waits \ {w} : wait'[v] = wait[v]
        /\ SameRow(w) \/ wait'[w].state = "pending"
    BY <1>3, RegisterStep
  <2>2. UNCHANGED <<now, sequence, signal>>
    BY <1>3 DEF Register
  <2> QED BY <2>1, <2>2 DEF SameRow, ClockInv, EarlierSignalWins
<1>4. CASE /\ ~Signal /\ \A w \in Waits : ~Register(w)
           /\ \A d \in Dispatchers : ~Consume(d) /\ ~Expire(d)
  <2>1. /\ \A w \in Waits : SameRow(w)
        /\ sequence' = sequence /\ signal' = signal
        /\ now' = now \/ now' = now + 1
    BY <1>4, OtherStep
  <2>2. ClockInv'
    BY <2>1, DeadlineTypes DEF SameRow, ClockInv, TypeInv
  <2>3. EarlierSignalWins'
    BY <2>1 DEF SameRow, EarlierSignalWins
  <2> QED BY <2>2, <2>3
<1> QED BY <1>1, <1>2, <1>3, <1>4

LEMMA DeadlineInitially == Init => DeadlineInv
<1> SUFFICES ASSUME Init PROVE DeadlineInv
  OBVIOUS
<1>1. \A w \in Waits : wait[w].state = "none"
  BY DEF Init, Unregistered
<1>2. /\ sequence = 0 /\ \A s \in Sequences : s \in Nat /\ s > 0
      /\ \A s \in Sequences : signal[s].by = NoWait
  BY BoundsAssumption DEF Init, Sequences
<1> QED BY <1>1, <1>2, TypeInit DEF DeadlineInv, ClockInv, EarlierSignalWins

\* For any timeouts, signals and dispatchers: while a signal accepted before a
\* wait's deadline is unconsumed, that wait does not time out.
THEOREM EarlierSignalsWin == Spec => []EarlierSignalWins
<1>1. Spec => []DeadlineInv
  BY DeadlineInitially, DeadlineStep, PTL DEF Spec
<1> QED BY <1>1, PTL DEF DeadlineInv

-----------------------------------------------------------------------------
(* What was decided stays decided, and is what the dispatchers deliver. *)

LEMMA DecisionKept ==
  ASSUME TypeInv, [Next]_vars, NEW w \in Waits
  PROVE  /\ Decision(w) # None => Decision(w)' = Decision(w)
         /\ (\A d \in Dispatchers : ~Consume(d) /\ ~Expire(d)) => Decision(w)' = Decision(w)
<1>1. Decision(w) # None <=> wait[w].state \in {"success", "timeout"}
  BY DecisionType
<1>2. SameRow(w) => Decision(w)' = Decision(w)
  BY DEF SameRow, Decision
<1>3. ASSUME wait[w].state = "none", wait'[w].state = "pending"
      PROVE  Decision(w) = None /\ Decision(w)' = None
  BY <1>3 DEF Decision
<1>4. wait'[w] = wait[w] => SameRow(w)
  BY DEF SameRow
<1>5. ASSUME NEW d \in Dispatchers, Consume(d)
      PROVE  Decision(w) # None => Decision(w)' = Decision(w)
  BY <1>1, <1>2, <1>4, <1>5, ConsumeStep DEF IsPending
<1>6. ASSUME NEW d \in Dispatchers, Expire(d)
      PROVE  Decision(w) # None => Decision(w)' = Decision(w)
  BY <1>1, <1>2, <1>4, <1>6, ExpireStep DEF IsPending
<1>7. ASSUME NEW v \in Waits, Register(v) PROVE Decision(w)' = Decision(w)
  <2>1. CASE w = v
    BY <1>2, <1>3, <1>7, <2>1, RegisterStep
  <2>2. CASE w # v
    BY <1>2, <1>4, <1>7, <2>2, RegisterStep
  <2> QED BY <2>1, <2>2
<1>8. CASE Signal
  <2>1. wait \in [Waits -> WaitRow]
    BY DEF TypeInv, TypeOK
  <2>2. SameRow(w)
    BY <1>8, <2>1, WakesOne DEF SameRow, WaitRow
  <2> QED BY <1>2, <2>2
<1>9. CASE /\ ~Signal /\ \A v \in Waits : ~Register(v)
           /\ \A d \in Dispatchers : ~Consume(d) /\ ~Expire(d)
  BY <1>2, <1>9, OtherStep
<1>10. ASSUME \A d \in Dispatchers : ~Consume(d) /\ ~Expire(d)
       PROVE  Decision(w)' = Decision(w)
  BY <1>7, <1>8, <1>9, <1>10
<1> QED BY <1>5, <1>6, <1>10

Delivering(d) == dispatcher[d].at \in {"deliver", "mark"}
\* A dispatcher delivers what was decided for the wait at hand.
DeliveryInv == \A d \in Dispatchers :
  Delivering(d) => /\ dispatcher[d].exit = Decision(Candidate(d))
                   /\ dispatcher[d].exit # None
\* The workflow is told of decided waits only.
ToldInv == \A w \in Waits : deferred[w] # None => Decision(w) # None
\* Signals that were not accepted yet were not consumed.
FreshInv == \A s \in Sequences : s > sequence => signal[s].by = NoWait

QueueInv == TypeInv /\ DeliveryInv /\ ToldInv /\ FreshInv

LEMMA CandidateDelivered ==
  ASSUME TypeInv, NEW d \in Dispatchers, dispatcher[d].at # "idle"
  PROVE  Candidate(d) \in Waits
BY CandidateIn DEF TypeInv, BatchInv

\* A dispatcher that a step leaves alone delivers on.
LEMMA OthersDeliver ==
  ASSUME TypeInv, DeliveryInv, [Next]_vars, NEW d \in Dispatchers,
         dispatcher'[d] = dispatcher[d]
  PROVE  Delivering(d)' => /\ dispatcher'[d].exit = Decision(Candidate(d))'
                           /\ dispatcher'[d].exit # None
<1> SUFFICES ASSUME Delivering(d) PROVE dispatcher[d].exit = Decision(Candidate(d))'
  BY DEF Delivering, DeliveryInv
<1>1. Candidate(d)' = Candidate(d)
  BY DEF Candidate
<1>2. Candidate(d) \in Waits /\ Decision(Candidate(d)) = dispatcher[d].exit
  BY CandidateDelivered DEF Delivering, DeliveryInv
<1>3. \A w \in Waits : Decision(w) # None => Decision(w)' = Decision(w)
  BY DecisionKept
<1>4. \A w : w = Candidate(d)' => Decision(Candidate(d))' = Decision(w)'
  BY DEF Decision
<1>5. dispatcher[d].exit # None
  BY DEF DeliveryInv
<1> QED BY <1>1, <1>2, <1>3, <1>4, <1>5

LEMMA DeliveryStep ==
  ASSUME QueueInv, [Next]_vars
  PROVE  DeliveryInv'
<1> USE DEF QueueInv
<1>0. dispatcher \in [Dispatchers -> Dispatch]
  BY DEF TypeInv, TypeOK
<1> SUFFICES ASSUME NEW d \in Dispatchers, dispatcher'[d] # dispatcher[d]
             PROVE  Delivering(d)' => /\ dispatcher'[d].exit = Decision(Candidate(d))'
                                      /\ dispatcher'[d].exit # None
  BY OthersDeliver DEF DeliveryInv
<1>1. Loop(d) \/ CrashDispatcher(d)
  <2>1. ASSUME NEW w \in Waits, Command(w) PROVE dispatcher' = dispatcher
    BY <2>1 DEF Command, Gate, Register, Await
  <2>2. Replay \/ CrashRound \/ Signal \/ Tick \/ Close \/ UNCHANGED vars => dispatcher' = dispatcher
    BY DEF Replay, CrashRound, Signal, Tick, Close
  <2>3. ASSUME NEW e \in Dispatchers, Loop(e) \/ CrashDispatcher(e) PROVE e = d
    BY <1>0, <2>3 DEF Loop, Resolve, CrashDispatcher, Fetch, AlreadyResolved, Consume, Expire,
       SleepAgain, Done, Mark, Deliver, Proceed
  <2> QED BY <2>1, <2>2, <2>3 DEF Next
<1>2. \A w : w = Candidate(d)' => Decision(Candidate(d))' = Decision(w)'
  BY DEF Decision
<1>3. ASSUME dispatcher'[d].batch = dispatcher[d].batch PROVE Candidate(d)' = Candidate(d)
  BY <1>3 DEF Candidate
<1>4. CASE Fetch(d) \/ SleepAgain(d) \/ Mark(d) \/ CrashDispatcher(d)
  <2>1. dispatcher'[d].at \in {"idle", "resolve"}
    BY <1>0, <1>4 DEF Fetch, SleepAgain, Mark, CrashDispatcher, Proceed, Asleep
  <2> QED BY <2>1 DEF Delivering
<1>5. CASE AlreadyResolved(d)
  <2>1. /\ dispatcher'[d].exit = Decision(Candidate(d)) /\ dispatcher'[d].batch = dispatcher[d].batch
        /\ UNCHANGED wait
    BY <1>0, <1>5 DEF AlreadyResolved, Deliver, Dispatch
  <2>2. Candidate(d) \in dispatcher[d].batch /\ Candidate(d) \in Waits
    BY <1>5, CandidateIn DEF AlreadyResolved, TypeInv, BatchInv
  <2>3. Decision(Candidate(d)) # None
    <3>1. wait[Candidate(d)].state \notin {"none", "pending"}
      BY <1>5, <2>2 DEF AlreadyResolved, IsPending, TypeInv, BatchInv
    <3> QED BY <2>2, <3>1, DecisionType DEF TypeInv, TypeOK, WaitRow
  <2>4. \A w : Decision(w)' = Decision(w)
    BY <2>1 DEF Decision
  <2> QED BY <1>2, <1>3, <2>1, <2>3, <2>4
<1>6. CASE Consume(d)
  <2>1. PICK w \in Waits, s \in Unconsumed :
          /\ w = Candidate(d) /\ s \in Sequences
          /\ wait'[w].state = "success" /\ wait'[w].result = s
          /\ dispatcher' = [dispatcher EXCEPT ![d].at = "deliver", ![d].exit = s]
    BY <1>6, ConsumeStep
  <2>2. dispatcher'[d].exit = s /\ dispatcher'[d].batch = dispatcher[d].batch
    BY <1>0, <2>1 DEF Dispatch
  <2>3. Decision(w)' = s /\ s # None
    BY <2>1, SequencesAreFinite DEF Decision
  <2> QED BY <1>2, <1>3, <2>1, <2>2, <2>3
<1>7. CASE Expire(d)
  <2>1. PICK w \in Waits :
          /\ w = Candidate(d) /\ wait'[w].state = "timeout"
          /\ dispatcher' = [dispatcher EXCEPT ![d].at = "deliver", ![d].exit = TimedOut]
    BY <1>7, ExpireStep
  <2>2. dispatcher'[d].exit = TimedOut /\ dispatcher'[d].batch = dispatcher[d].batch
    BY <1>0, <2>1 DEF Dispatch
  <2>3. Decision(w)' = TimedOut /\ TimedOut # None
    BY <2>1, ExitsAssumption DEF Decision
  <2> QED BY <1>2, <1>3, <2>1, <2>2, <2>3
<1>8. CASE Done(d)
  <2>1. /\ dispatcher'[d].exit = dispatcher[d].exit /\ dispatcher'[d].batch = dispatcher[d].batch
        /\ Delivering(d) /\ UNCHANGED wait
    BY <1>0, <1>8 DEF Done, Dispatch, Delivering
  <2>2. \A w : Decision(w)' = Decision(w)
    BY <2>1 DEF Decision
  <2> QED BY <1>2, <1>3, <2>1, <2>2 DEF DeliveryInv
<1> QED BY <1>1, <1>4, <1>5, <1>6, <1>7, <1>8 DEF Loop, Resolve

LEMMA ToldStep ==
  ASSUME QueueInv, [Next]_vars
  PROVE  ToldInv'
<1> USE DEF QueueInv
<1>1. \A w \in Waits : Decision(w) # None => Decision(w)' # None
  BY DecisionKept
<1>2. CASE deferred' = deferred
  BY <1>1, <1>2 DEF ToldInv
<1>3. ASSUME NEW d \in Dispatchers, Done(d) PROVE ToldInv'
  <2>1. Delivering(d) /\ Candidate(d) \in Waits
    BY <1>3, CandidateDelivered DEF Done, Delivering
  <2>2. Decision(Candidate(d)) # None
    BY <2>1 DEF DeliveryInv
  <2>3. \A w \in Waits : w # Candidate(d) => deferred'[w] = deferred[w]
    BY <1>3 DEF Done, TypeInv, TypeOK
  <2> QED BY <1>1, <2>2, <2>3 DEF ToldInv
<1>4. ASSUME \A d \in Dispatchers : ~Done(d) PROVE deferred' = deferred
  BY <1>4 DEF Next, Command, Loop, Resolve, Gate, Register, Await, Fetch, AlreadyResolved, Consume,
     Expire, SleepAgain, Mark, CrashDispatcher, Replay, CrashRound, Signal, Tick, Close
<1> QED BY <1>2, <1>3, <1>4

-----------------------------------------------------------------------------
(* The journal implements the queue of signals. *)

LEMMA FreshStep ==
  ASSUME QueueInv, [Next]_vars
  PROVE  FreshInv'
<1> USE DEF QueueInv
<1>1. sequence \in Nat /\ Sequences \subseteq Nat /\ signal \in [Sequences -> SignalRow]
  BY SequencesAreFinite DEF TypeInv, TypeOK
<1>2. CASE Signal
  BY <1>1, <1>2 DEF Signal, FreshInv
<1>3. ASSUME NEW d \in Dispatchers, Consume(d) PROVE FreshInv'
  <2>1. PICK w \in Waits, s \in Unconsumed : signal' = [signal EXCEPT ![s].by = w]
    BY <1>3, ConsumeStep
  <2>2. s <= sequence /\ sequence' = sequence /\ s \in Nat
    BY <1>1, <1>3 DEF Consume, Unconsumed
  <2> QED BY <1>1, <2>1, <2>2 DEF FreshInv
<1>4. ASSUME ~Signal, \A d \in Dispatchers : ~Consume(d) PROVE UNCHANGED <<signal, sequence>>
  BY <1>4 DEF Next, Command, Loop, Resolve, Gate, Register, Await, Fetch, AlreadyResolved, Expire,
     SleepAgain, Done, Mark, CrashDispatcher, Replay, CrashRound, Tick, Close
<1> QED BY <1>2, <1>3, <1>4 DEF FreshInv

LEMMA QueueInvInit == Init => QueueInv
<1> SUFFICES ASSUME Init PROVE QueueInv
  OBVIOUS
<1>1. FreshInv /\ ToldInv
  BY DEF Init, FreshInv, ToldInv
<1>2. DeliveryInv
  BY DEF Init, DeliveryInv, Delivering, Asleep
<1> QED BY <1>1, <1>2, TypeInit DEF QueueInv

LEMMA QueueInvStep == QueueInv /\ [Next]_vars => QueueInv'
BY TypeStep, DeliveryStep, ToldStep, FreshStep DEF QueueInv

LEMMA QueueInit == Init => Queue!Init
<1> SUFFICES ASSUME Init PROVE Queue!Init
  OBVIOUS
<1>1. \A w \in Waits : Decision(w) = None
  BY DEF Init, Unregistered, Decision
<1>2. \A s \in Sequences : signal[s].by = NoWait
  BY DEF Init
<1> QED BY <1>1, <1>2 DEF Init, Queue!Init

Outcomes == [w \in Waits |-> Decision(w)]
Consumers == [s \in Sequences |-> signal[s].by]

LEMMA QueueAccept ==
  ASSUME QueueInv, Signal
  PROVE  Queue!Accept
<1> USE DEF QueueInv
<1>1. sequence + 1 \in Sequences /\ sequence' = sequence + 1
  BY BoundsAssumption DEF Signal, Sequences, TypeInv, TypeOK
<1>2. sequence + 1 > sequence
  BY DEF TypeInv, TypeOK
<1>3. \A s \in Sequences : signal'[s].by = signal[s].by
  BY <1>1, <1>2 DEF Signal, FreshInv, TypeInv, TypeOK
<1>4. \A d \in Dispatchers : ~Consume(d) /\ ~Expire(d)
  <2>1. sequence' # sequence
    BY <1>1, <1>2 DEF TypeInv, TypeOK
  <2> QED BY <2>1 DEF Consume, Expire
<1>5. \A w \in Waits : Decision(w)' = Decision(w)
  BY <1>4, DecisionKept DEF Next
<1>6. deferred' = deferred
  BY DEF Signal
<1> QED BY <1>1, <1>3, <1>5, <1>6 DEF Queue!Accept

LEMMA QueueGive ==
  ASSUME QueueInv, NEW d \in Dispatchers, Consume(d)
  PROVE  \E w \in Waits, s \in Sequences : Queue!Give(w, s)
<1> USE DEF QueueInv
<1>1. PICK w \in Waits, s \in Unconsumed :
        /\ w = Candidate(d) /\ IsPending(w)
        /\ s \in Sequences /\ \A t \in Unconsumed : s <= t
        /\ wait'[w].state = "success" /\ wait'[w].result = s
        /\ \A v \in Waits \ {w} : wait'[v] = wait[v]
        /\ signal' = [signal EXCEPT ![s].by = w]
  BY ConsumeStep
<1>2. sequence' = sequence /\ deferred' = deferred
  BY DEF Consume
<1>3. sequence \in Nat /\ Sequences \subseteq Nat /\ signal \in [Sequences -> SignalRow]
  BY SequencesAreFinite DEF TypeInv, TypeOK
<1>4. Queue!Oldest(s)
  <2>1. s <= sequence /\ signal[s].by = NoWait
    BY <1>1 DEF Unconsumed
  <2>2. ASSUME NEW t \in Sequences, t < s PROVE signal[t].by # NoWait
    <3>1. t \notin Unconsumed /\ t <= sequence
      BY <1>1, <1>3, <2>1, <2>2
    <3> QED BY <3>1 DEF Unconsumed
  <2> QED BY <1>1, <2>1, <2>2 DEF Queue!Oldest
<1>5. Decision(w) = None /\ Decision(w)' = s /\ \A v \in Waits \ {w} : Decision(v)' = Decision(v)
  BY <1>1 DEF Decision, IsPending
<1>6. Outcomes' = [Outcomes EXCEPT ![w] = s]
  BY <1>5 DEF Outcomes
<1>7. Consumers' = [Consumers EXCEPT ![s] = w]
  <2>1. signal'[s].by = w /\ \A t \in Sequences \ {s} : signal'[t].by = signal[t].by
    BY <1>1, <1>3 DEF SignalRow
  <2> QED BY <2>1 DEF Consumers
<1>8. Outcomes[w] = None
  BY <1>5 DEF Outcomes
<1>9. Queue!Give(w, s)
  BY <1>2, <1>4, <1>6, <1>7, <1>8 DEF Queue!Give, Outcomes, Consumers
<1> QED BY <1>1, <1>9

LEMMA QueueExpire ==
  ASSUME QueueInv, NEW d \in Dispatchers, Expire(d)
  PROVE  \E w \in Waits : Queue!Expire(w)
<1> USE DEF QueueInv
<1>1. PICK w \in Waits :
        /\ IsPending(w) /\ wait'[w].state = "timeout"
        /\ \A v \in Waits \ {w} : wait'[v] = wait[v]
        /\ signal' = signal
  BY ExpireStep
<1>2. sequence' = sequence /\ deferred' = deferred
  BY DEF Expire
<1>3. Decision(w) = None /\ Decision(w)' = TimedOut /\ \A v \in Waits \ {w} : Decision(v)' = Decision(v)
  BY <1>1 DEF Decision, IsPending
<1>4. Outcomes' = [Outcomes EXCEPT ![w] = TimedOut] /\ Outcomes[w] = None
  BY <1>3 DEF Outcomes
<1>5. Consumers' = Consumers
  BY <1>1 DEF Consumers
<1>6. Queue!Expire(w)
  BY <1>2, <1>4, <1>5 DEF Queue!Expire, Outcomes, Consumers
<1> QED BY <1>6

LEMMA QueueTell ==
  ASSUME QueueInv, NEW d \in Dispatchers, Done(d)
  PROVE  \/ \E w \in Waits : Queue!Tell(w)
         \/ UNCHANGED Queue!vars
<1> USE DEF QueueInv
<1> DEFINE w == Candidate(d)
<1>1. w \in Waits /\ Delivering(d)
  BY CandidateDelivered DEF Done, Delivering
<1>2. dispatcher[d].exit = Decision(w) /\ Decision(w) # None
  BY <1>1 DEF DeliveryInv
<1>3. /\ UNCHANGED <<sequence, signal, wait>>
      /\ deferred' = [deferred EXCEPT ![w] = IF deferred[w] = None THEN dispatcher[d].exit ELSE deferred[w]]
  BY DEF Done
<1>4. Outcomes' = Outcomes /\ Consumers' = Consumers
  BY <1>3 DEF Outcomes, Consumers, Decision
<1>5. deferred \in [Waits -> Exits \cup {None}]
  BY DEF TypeInv, TypeOK
<1> HIDE DEF w
<1>6. Outcomes[w] = Decision(w)
  BY <1>1 DEF Outcomes
<1>7. CASE deferred[w] = None
  <2>1. deferred' = [deferred EXCEPT ![w] = Outcomes[w]]
    BY <1>2, <1>3, <1>6, <1>7
  <2>2. Queue!Tell(w)
    BY <1>2, <1>3, <1>4, <1>6, <1>7, <2>1 DEF Queue!Tell, Outcomes, Consumers
  <2> QED BY <1>1, <2>2
<1>8. CASE deferred[w] # None
  <2>1. deferred' = deferred
    BY <1>1, <1>3, <1>5, <1>8
  <2> QED BY <1>3, <1>4, <2>1 DEF Queue!vars, Outcomes, Consumers
<1> QED BY <1>7, <1>8

LEMMA QueueStep == QueueInv /\ [Next]_vars => [Queue!Next]_(Queue!vars)
<1> SUFFICES ASSUME QueueInv, [Next]_vars PROVE [Queue!Next]_(Queue!vars)
  OBVIOUS
<1>1. CASE Signal
  BY <1>1, QueueAccept DEF Queue!Next
<1>2. ASSUME NEW d \in Dispatchers, Consume(d) PROVE [Queue!Next]_(Queue!vars)
  BY <1>2, QueueGive DEF Queue!Next
<1>3. ASSUME NEW d \in Dispatchers, Expire(d) PROVE [Queue!Next]_(Queue!vars)
  BY <1>3, QueueExpire DEF Queue!Next
<1>4. ASSUME NEW d \in Dispatchers, Done(d) PROVE [Queue!Next]_(Queue!vars)
  BY <1>4, QueueTell DEF Queue!Next
<1>5. CASE /\ ~Signal
           /\ \A d \in Dispatchers : ~Consume(d) /\ ~Expire(d) /\ ~Done(d)
  <2>1. UNCHANGED <<signal, sequence, deferred>>
    BY <1>5 DEF Next, Command, Loop, Resolve, Gate, Register, Await, Fetch, AlreadyResolved,
       SleepAgain, Mark, CrashDispatcher, Replay, CrashRound, Tick, Close
  <2>2. \A w \in Waits : Decision(w)' = Decision(w)
    BY <1>5, DecisionKept DEF QueueInv
  <2>3. Outcomes' = Outcomes /\ Consumers' = Consumers
    BY <2>1, <2>2 DEF Outcomes, Consumers
  <2> QED BY <2>1, <2>3 DEF Queue!vars, Outcomes, Consumers
<1> QED BY <1>1, <1>2, <1>3, <1>4, <1>5

\* Signals are given to waits in the order of acceptance, each once; a wait is
\* answered once, and the workflow is told that answer.
THEOREM SignalsAreQueued == Spec => QueueSpec
<1>1. Spec => []QueueInv
  BY QueueInvInit, QueueInvStep, PTL DEF Spec
<1>2. QueueInv /\ [Next]_vars => [Queue!Next]_(Queue!vars)
  BY QueueStep
<1> QED BY <1>1, <1>2, QueueInit, PTL DEF Spec, QueueSpec, Queue!Spec

-----------------------------------------------------------------------------
(* No wake-up is lost. *)

WakeInv == DeadlineInv /\ QueueInv /\ NoLostWakeup

\* The counts that registering compares.
Signals == Cardinality(Unconsumed)
Wakes == Cardinality(Woken)

LEMMA FiniteWaits ==
  /\ Unconsumed \subseteq Sequences /\ IsFiniteSet(Unconsumed) /\ Signals \in Nat
  /\ Woken \subseteq Waits /\ IsFiniteSet(Woken) /\ Wakes \in Nat
<1>1. Unconsumed \subseteq Sequences /\ Woken \subseteq Waits
  BY DEF Unconsumed, Woken
<1>2. IsFiniteSet(Unconsumed) /\ IsFiniteSet(Woken)
  BY <1>1, SequencesAreFinite, WaitsAssumption, FS_Subset
<1> QED BY <1>1, <1>2, FS_CardinalityType DEF Signals, Wakes

\* Nothing that sleeping depends on changes.
LEMMA WakeUntouched ==
  ASSUME NoLostWakeup, UNCHANGED <<sequence, signal, deferred, resume>>,
         \A w \in Waits : wait'[w].state = wait[w].state /\ wait'[w].result = wait[w].result,
         \A w \in Waits : IsPending(w) => wait'[w].wake = wait[w].wake,
         \A w \in Sleeping : branch[w] \in {"idle", "gated"} => branch'[w] \in {"idle", "gated"}
  PROVE  NoLostWakeup'
<1>1. Unconsumed' = Unconsumed
  BY DEF Unconsumed
<1>2. Woken' = Woken /\ Sleeping' = Sleeping
  BY DEF Woken, Sleeping, IsPending
<1>3. \A w \in Waits : Decision(w)' = Decision(w)
  BY DEF Decision
<1>4. ReplayDue => ReplayDue'
  BY <1>3, Zenon DEF ReplayDue
<1> QED BY <1>1, <1>2, <1>4 DEF NoLostWakeup

\* A decision that the engine has not heard of makes it replay.
LEMMA WakeDecided ==
  ASSUME WakeInv, NEW w \in Waits, IsPending(w), Decision(w)' # None, deferred' = deferred
  PROVE  NoLostWakeup'
<1>1. Decision(w) = None
  BY DEF Decision, IsPending
<1>2. deferred[w] = None
  BY <1>1 DEF WakeInv, QueueInv, ToldInv
<1>3. ReplayDue'
  BY <1>2, Zenon DEF ReplayDue
<1> QED BY <1>3 DEF NoLostWakeup

LEMMA WakeResolve ==
  ASSUME WakeInv, [Next]_vars, NEW d \in Dispatchers, Consume(d) \/ Expire(d)
  PROVE  NoLostWakeup'
<1> USE DEF WakeInv, QueueInv
<1>1. CASE Consume(d)
  <2>1. PICK w \in Waits, s \in Unconsumed :
          /\ IsPending(w) /\ s \in Sequences
          /\ wait'[w].state = "success" /\ wait'[w].result = s
    BY <1>1, ConsumeStep
  <2>2. Decision(w)' # None
    BY <2>1, SequencesAreFinite DEF Decision
  <2>3. deferred' = deferred
    BY <1>1 DEF Consume
  <2> QED BY <2>1, <2>2, <2>3, WakeDecided
<1>2. CASE Expire(d)
  <2>1. PICK w \in Waits : IsPending(w) /\ wait'[w].state = "timeout"
    BY <1>2, ExpireStep
  <2>2. Decision(w)' # None
    BY <2>1, ExitsAssumption DEF Decision
  <2>3. deferred' = deferred
    BY <1>2 DEF Expire
  <2> QED BY <2>1, <2>2, <2>3, WakeDecided
<1> QED BY <1>1, <1>2

\* Only a dispatcher that found no signal at all puts a wait back to sleep.
LEMMA WakeSleepAgain ==
  ASSUME WakeInv, NEW d \in Dispatchers, SleepAgain(d)
  PROVE  NoLostWakeup'
<1> USE DEF WakeInv, DeadlineInv, QueueInv
<1> DEFINE w == Candidate(d)
<1>1. w \in Waits
  BY CandidateIn DEF SleepAgain, TypeInv, BatchInv
<1>2. ~HasSignal(w) /\ ~DueBy(w, now)
  BY DEF SleepAgain, Consumable
<1>3. Unconsumed = {}
  <2> SUFFICES ASSUME Unconsumed # {} PROVE FALSE
    OBVIOUS
  <2> DEFINE o == Lowest(Unconsumed)
  <2>1. o \in Unconsumed
    BY OldestSignal
  <2>2. o \in Sequences /\ signal[o].at <= now /\ signal[o].at \in Nat /\ now \in Nat
    BY <2>1, DeadlineTypes DEF Unconsumed, ClockInv, TypeInv
  <2>3. wait[w].deadline # NoTimeout /\ ~(signal[o].at <= wait[w].deadline)
    BY <1>2 DEF HasSignal, InTime
  <2>4. ~(wait[w].deadline <= now)
    BY <1>2, <2>3 DEF DueBy
  <2>5. wait[w].deadline \in Nat
    BY <1>1, <2>3, DeadlineTypes DEF TypeInv
  <2> HIDE DEF o, w
  <2> QED BY <2>2, <2>3, <2>4, <2>5
<1>4. UNCHANGED <<sequence, signal>>
  BY DEF SleepAgain
<1>5. Unconsumed' = {}
  BY <1>3, <1>4 DEF Unconsumed
<1>6. Signals' = 0
  BY <1>5, FS_EmptySet DEF Signals
<1>7. Wakes' \in Nat
  <2>1. Woken' \in SUBSET Waits
    BY DEF Woken
  <2>2. IsFiniteSet(Woken')
    BY <2>1, WaitsAssumption, FS_Subset
  <2> QED BY <2>2, FS_CardinalityType DEF Wakes
<1>8. Signals' <= Wakes'
  BY <1>6, <1>7
<1> QED BY <1>8 DEF NoLostWakeup, Signals, Wakes

\* A signal adds to the signals, and a wake-up to the wakes, if anybody sleeps.
LEMMA WakeSignal ==
  ASSUME WakeInv, Signal
  PROVE  NoLostWakeup'
<1> USE DEF WakeInv, QueueInv
<1>1. wait \in [Waits -> WaitRow] /\ signal \in [Sequences -> SignalRow] /\ sequence \in Nat
  BY SequencesAreFinite DEF TypeInv, TypeOK
<1>2. CASE Sleeping = {} /\ wait' = wait
  BY <1>2 DEF Sleeping, IsPending, NoLostWakeup
<1>3. ASSUME NEW w \in Sleeping, wait' = [wait EXCEPT ![w].wake = TRUE] PROVE NoLostWakeup'
  <2>1. w \in Waits /\ IsPending(w) /\ w \notin Woken
    BY DEF Sleeping, Woken
  <2>2. /\ \A v \in Waits : SameRow(v)
        /\ wait'[w].wake = TRUE /\ \A v \in Waits \ {w} : wait'[v] = wait[v]
    BY <1>1, <1>3, <2>1 DEF SameRow, WaitRow
  <2>3. Woken' = Woken \cup {w}
    BY <2>1, <2>2 DEF Woken, IsPending, SameRow
  <2>4. Wakes' = Wakes + 1
    BY <2>1, <2>3, FiniteWaits, FS_AddElement DEF Wakes
  <2>5. Unconsumed' = Unconsumed \cup {sequence + 1} /\ sequence + 1 \notin Unconsumed
    <3>1. sequence + 1 \in Sequences
      BY <1>1, BoundsAssumption DEF Signal, Sequences
    <3> QED BY <1>1, <3>1, SequencesAreFinite DEF Signal, Unconsumed
  <2>6. Signals' = Signals + 1
    BY <2>5, FiniteWaits, FS_AddElement DEF Signals
  <2>7. Signals <= Wakes => Signals' <= Wakes'
    BY <2>4, <2>6, FiniteWaits
  <2>8. Sleeping' \subseteq Sleeping
    BY <2>2 DEF Sleeping, IsPending, SameRow
  <2>9. branch' = branch /\ resume' = resume /\ deferred' = deferred
    BY DEF Signal
  <2>10. \A v \in Waits : Decision(v)' = Decision(v)
    BY <2>2 DEF SameRow, Decision
  <2>11. ReplayDue => ReplayDue'
    BY <2>9, <2>10, Zenon DEF ReplayDue
  <2> QED BY <2>7, <2>8, <2>9, <2>11 DEF NoLostWakeup, Signals, Wakes
<1> QED BY <1>2, <1>3, WakesOne

\* A wait that goes to sleep on registering has found enough waits woken.
LEMMA WakeRegister ==
  ASSUME WakeInv, [Next]_vars, NEW w \in Waits, Register(w)
  PROVE  NoLostWakeup'
<1> USE DEF WakeInv, QueueInv
<1>1. /\ UNCHANGED <<sequence, signal, deferred, resume>>
      /\ branch' = [branch EXCEPT ![w] = "registered"]
  BY DEF Register
<1>2. /\ \A v \in Waits \ {w} : wait'[v] = wait[v]
      /\ \/ SameRow(w)
         \/ wait[w].state = "none" /\ wait'[w].state = "pending"
  BY RegisterStep
<1>3. branch \in [Waits -> {"idle", "gated", "registered", "parked", "returned"}]
  BY DEF TypeInv, TypeOK
<1>4. \A v \in Waits : Decision(v)' = Decision(v)
  BY <1>2 DEF SameRow, Decision
<1>5. ReplayDue => ReplayDue'
  BY <1>1, <1>4, Zenon DEF ReplayDue
<1>6. Signals' = Signals
  BY <1>1 DEF Unconsumed, Signals
<1>7. \A v \in Sleeping' : v # w => v \in Sleeping /\ branch'[v] = branch[v]
  BY <1>1, <1>2, <1>3 DEF Sleeping, IsPending
<1>8. CASE w \notin Sleeping'
  <2>1. Woken \subseteq Woken'
    BY <1>2, <1>8 DEF Woken, Sleeping, IsPending, SameRow
  <2>2. IsFiniteSet(Woken') /\ Woken' \subseteq Waits
    <3>1. Woken' \in SUBSET Waits
      BY DEF Woken
    <3> QED BY <3>1, WaitsAssumption, FS_Subset
  <2>3. Wakes <= Wakes' /\ Wakes' \in Nat
    BY <2>1, <2>2, FS_Subset, FS_CardinalityType DEF Wakes
  <2>4. Signals <= Wakes => Signals' <= Wakes'
    BY <1>6, <2>3, FiniteWaits
  <2> QED BY <1>5, <1>7, <1>8, <2>4 DEF NoLostWakeup, Signals, Wakes
<1>9. CASE w \in Sleeping'
  <2>1. wait'[w].state = "pending" /\ ~wait'[w].wake
    BY <1>9 DEF Sleeping, IsPending
  <2>2. Signals <= Wakes /\ Woken' = Woken
    <3> DEFINE surplus == Cardinality(Unconsumed) > Cardinality(Woken)
    <3>1. wait \in [Waits -> WaitRow]
      BY DEF TypeInv, TypeOK
    <3>2. CASE wait[w].state = "none"
      <4>1. ~IsPending(w)
        BY <3>2 DEF IsPending
      <4>2. wait' = [wait EXCEPT ![w] = [Unregistered EXCEPT
                      !.state = "pending", !.deadline = Deadline(w), !.wake = surplus]]
        BY <3>2, <4>1, Zenon DEF Register
      <4> HIDE DEF surplus
      <4>3. wait'[w].wake = surplus
        BY <3>1, <4>2 DEF Unregistered
      <4>4. ~surplus
        BY <2>1, <4>3, Zenon
      <4>5. Signals <= Wakes
        BY <4>4, FiniteWaits DEF surplus, Signals, Wakes
      <4>6. Woken' = Woken
        BY <1>2, <2>1, <4>1 DEF Woken, IsPending
      <4> QED BY <4>5, <4>6
    <3>3. CASE IsPending(w)
      <4>1. wait' = [wait EXCEPT ![w].wake = @ \/ surplus]
        BY <3>3, Zenon DEF Register, IsPending
      <4> HIDE DEF surplus
      <4>2. wait'[w] = [wait[w] EXCEPT !.wake = wait[w].wake \/ surplus]
        BY <3>1, <4>1
      <4>3. wait'[w].wake = (wait[w].wake \/ surplus)
        BY <3>1, <4>2 DEF WaitRow
      <4>4. ~surplus /\ ~wait[w].wake
        BY <2>1, <4>3, Zenon
      <4>5. Signals <= Wakes
        BY <4>4, FiniteWaits DEF surplus, Signals, Wakes
      <4>6. Woken' = Woken
        BY <1>2, <2>1, <4>4 DEF Woken, IsPending
      <4> QED BY <4>5, <4>6
    <3>4. CASE wait[w].state # "none" /\ ~IsPending(w)
      BY <1>2, <2>1, <3>4 DEF SameRow, IsPending
    <3> QED BY <3>2, <3>3, <3>4
  <2>3. Signals' <= Wakes'
    BY <1>6, <2>2 DEF Wakes
  <2> QED BY <2>3 DEF NoLostWakeup, Signals, Wakes
<1> QED BY <1>8, <1>9

\* Delivering a decision the engine did not have resumes the run.
LEMMA WakeDeliver ==
  ASSUME WakeInv, NEW d \in Dispatchers, Done(d) \/ Mark(d)
  PROVE  NoLostWakeup'
<1> USE DEF WakeInv, QueueInv
<1> DEFINE w == Candidate(d)
<1>1. w \in Waits /\ Delivering(d)
  BY CandidateDelivered DEF Done, Mark, Delivering
<1>2. Decision(w) # None /\ dispatcher[d].exit # None
  BY <1>1 DEF DeliveryInv
<1>3. wait \in [Waits -> WaitRow] /\ deferred \in [Waits -> Exits \cup {None}]
  BY DEF TypeInv, TypeOK
<1>4. CASE Done(d)
  <2>1. /\ UNCHANGED <<sequence, signal, wait, branch>>
        /\ deferred' = [deferred EXCEPT ![w] = IF @ = None THEN dispatcher[d].exit ELSE @]
        /\ resume' = (resume \/ deferred[w] = None)
    BY <1>4 DEF Done
  <2>2. CASE deferred[w] = None
    <3>1. resume'
      BY <2>1, <2>2, Zenon
    <3> QED BY <3>1 DEF NoLostWakeup, ReplayDue
  <2>3. CASE deferred[w] # None
    <3>1. deferred' = deferred
      BY <1>1, <1>3, <2>1, <2>3
    <3>2. resume' = resume
      BY <2>1, <2>3, Zenon DEF TypeInv, TypeOK
    <3> QED BY <2>1, <3>1, <3>2, WakeUntouched
  <2> QED BY <2>2, <2>3
<1>5. CASE Mark(d)
  <2>1. UNCHANGED <<sequence, signal, deferred, resume, branch>>
    BY <1>5 DEF Mark
  <2>2. ~IsPending(w)
    BY <1>2 DEF Decision, IsPending
  <2>3. wait' = [wait EXCEPT ![w].delivered = TRUE, ![w].wake = FALSE]
    BY <1>5 DEF Mark
  <2> HIDE DEF w
  <2>4. \A v \in Waits : /\ wait'[v].state = wait[v].state /\ wait'[v].result = wait[v].result
                         /\ v # w => wait'[v].wake = wait[v].wake
    BY <1>3, <2>3 DEF WaitRow
  <2> QED BY <2>1, <2>2, <2>4, WakeUntouched
<1> QED BY <1>4, <1>5

LEMMA WakeStep == WakeInv /\ [Next]_vars => WakeInv'
<1> SUFFICES ASSUME WakeInv, [Next]_vars PROVE NoLostWakeup'
  BY DeadlineStep, QueueInvStep DEF WakeInv
<1>0. NoLostWakeup /\ branch \in [Waits -> {"idle", "gated", "registered", "parked", "returned"}]
  BY DEF WakeInv, QueueInv, TypeInv, TypeOK
<1>1. ASSUME NEW d \in Dispatchers, Resolve(d) \/ Done(d) \/ Mark(d) PROVE NoLostWakeup'
  <2>1. ASSUME AlreadyResolved(d) PROVE NoLostWakeup'
    BY <1>0, <2>1, WakeUntouched DEF AlreadyResolved
  <2> QED BY <1>1, <2>1, WakeResolve, WakeSleepAgain, WakeDeliver DEF Resolve
<1>2. ASSUME NEW d \in Dispatchers, Fetch(d) \/ CrashDispatcher(d) PROVE NoLostWakeup'
  BY <1>0, <1>2, WakeUntouched DEF Fetch, CrashDispatcher
<1>3. ASSUME NEW w \in Waits, Gate(w) \/ Await(w) PROVE NoLostWakeup'
  <2>1. UNCHANGED <<sequence, signal, wait, deferred, resume>>
    BY <1>3 DEF Gate, Await
  <2>2. \A v \in Waits : branch[v] \in {"idle", "gated"} => branch'[v] \in {"idle", "gated"}
    BY <1>0, <1>3 DEF Gate, Await
  <2>3. \A v \in Sleeping : v \in Waits
    BY DEF Sleeping
  <2> QED BY <1>0, <2>1, <2>2, <2>3, WakeUntouched
<1>4. ASSUME NEW w \in Waits, Register(w) PROVE NoLostWakeup'
  BY <1>4, WakeRegister
<1>5. CASE Replay \/ CrashRound
  <2>1. \A w \in Waits : branch'[w] = "idle"
    BY <1>5 DEF Replay, CrashRound
  <2>2. Sleeping' \subseteq Waits
    BY DEF Sleeping
  <2> QED BY <2>1, <2>2 DEF NoLostWakeup
<1>6. CASE Signal
  BY <1>6, WakeSignal
<1>7. CASE Tick \/ Close \/ UNCHANGED vars
  BY <1>0, <1>7, WakeUntouched DEF Tick, Close
<1> QED BY <1>1, <1>2, <1>3, <1>4, <1>5, <1>6, <1>7 DEF Next, Command, Loop

\* For any waits, signals and crashes: a wait sleeps beside a signal that nobody
\* was woken for only while it will be registered again.
THEOREM NoWakeupLost == Spec => []NoLostWakeup
<1>1. Init => WakeInv
  <2> SUFFICES ASSUME Init PROVE WakeInv
    OBVIOUS
  <2>1. \A w \in Waits : wait[w].state = "none"
    BY DEF Init, Unregistered
  <2>2. NoLostWakeup
    BY <2>1 DEF NoLostWakeup, Sleeping, IsPending
  <2>3. DeadlineInv
    BY DeadlineInitially
  <2> QED BY <2>2, <2>3, QueueInvInit DEF WakeInv
<1>2. Spec => []WakeInv
  BY <1>1, WakeStep, PTL DEF Spec
<1> QED BY <1>2, PTL DEF WakeInv
=============================================================================
