------------------------- MODULE RunLifecycleProofs -------------------------
(***************************************************************************)
(* The journal, for any number of chains, generations, handlers,           *)
(* dispatchers, requests and crashes: chains end once and grow only while  *)
(* nobody asked to cancel them, failures have a cause, parents wait for    *)
(* the chains of their children and the close policy reaches their last    *)
(* generation.                                                             *)
(***************************************************************************)
EXTENDS RunLifecycle, FiniteSetTheorems, TLAPS

USE DEF vars, journal, engine, chosen

-----------------------------------------------------------------------------
(* The inductive invariant. *)

Latest(state) == state \notin {"none", "continued"}

\* Whatever comes before an accepted generation was continued.
InOrder ==
  \A r, s \in Runs :
    r[1] = s[1] /\ r[2] < s[2] /\ run[s].state # "none" => run[r].state = "continued"

\* A chain has a generation that was not continued.
HasLatest ==
  \A c \in Chains :
    run[First(c)].state # "none" => \E r \in Runs : r[1] = c /\ Latest(run[r].state)

\* A cancel is final and never continued, and ends a run only on request.
RowSound(r) ==
  /\ run[r].state = "none" => run[r] = Unaccepted
  /\ run[r].state = "continued" => run[r].control = "run"
  /\ run[r].state = "cancelled" => run[r].control = "cancel"
  /\ run[r].control # "run" => run[r].revision > 0
RowShape == \A r \in Runs : RowSound(r)

ChainInv == InOrder /\ HasLatest /\ RowShape

\* A handler that was to continue went on to something else only after a request.
Excused(r) == plan[r] = "continue" => run[r].revision > 0
Answers == {"return", "answer", "returned", "completed"}
Raises == {"raise", "raised", "failed"}

RoundShape(r) ==
  /\ plan[r] \in Plans[r]
  /\ run[r].state = "none" => round[r] = "absent"
  /\ run[r].state = "continued" => round[r] \in {"start", "stop", "interrupted"}
  /\ stop[r] => run[r].control = "cancel"
  /\ round[r] \in {"stop", "interrupted"} => run[r].control = "cancel" \/ Terminal(r)
  /\ round[r] \in {"next", "continue"} => plan[r] = "continue"
  /\ round[r] \in Raises \/ receipt[r].exit = "failed" => plan[r] \in {"failed", "continue"}

\* What an execution has answered is excused, in the engine, the outbox and the journal.
AnswersExcused(r) ==
  round[r] \in Answers \cup Raises \/ receipt[r].exit # None \/ run[r].state \in Ends => Excused(r)

Cause(r) ==
  \/ plan[r] = "failed"
  \/ plan[r] = "continue" /\ run[r].revision > 0
  \/ run[r].control = "cancel"

\* A round that went past child() was told about it.
Past == {"finish", "next", "continue"} \cup Answers \cup Raises
Told(r) == \A c \in Chains \cap Awaited : Caller[c] = r => told[c] # None
PastIsTold(r) ==
  round[r] \in Past \/ receipt[r].exit # None \/ run[r].state \in {"completed", "continued"} => Told(r)

RoundSound(r) ==
  /\ RoundShape(r) /\ AnswersExcused(r) /\ PastIsTold(r)
  /\ run[r].state = "failed" => Cause(r)
RoundInv == \A r \in Runs : RoundSound(r)

Ended(c) == \E r \in Runs : r[1] = c /\ run[r].state \in Ends

\* What a dispatcher has read and is still true of the row.
JobSound(d) ==
  /\ job[d].at \in {"apply", "cancel", "mark", "sweep"} =>
       /\ run[job[d].run].state # "none"
       /\ job[d].row.control = "cancel" => run[job[d].run].control = "cancel"
  /\ job[d].at = "cancel" => job[d].row.control = "cancel"
  /\ job[d].at = "tell" => Ended(job[d].child)
  /\ job[d].at = "close" => run[First(job[d].child)].state # "none"
JobInv == \A d \in Dispatchers : JobSound(d)

LinkSound(c) ==
  /\ link[c].linked \/ link[c].closed => run[First(c)].state # "none"
  /\ told[c] # None => \E r \in Runs : r[1] = c /\ run[r].state = told[c]
LinkInv == \A c \in Chains : LinkSound(c)

IInv == ChainInv /\ RoundInv /\ JobInv /\ LinkInv
Inv == TypeOK /\ IInv

-----------------------------------------------------------------------------
(* How a transaction writes the rows of the runs. *)

Opened(r) ==
  /\ run[r].state = "none" /\ r[2] = 1
  /\ run' = [run EXCEPT ![r] = Accepted("accepted")]
Advanced(r, s) ==
  /\ IsOpen(r) /\ s \in {"running", "waiting"} \cup Ends
  /\ s = "cancelled" => run[r].control = "cancel"
  /\ run' = [run EXCEPT ![r].state = s]
Requested(r, a) ==
  /\ Requestable(r, a) /\ a \in {"run", "pause", "cancel"}
  /\ run' = [run EXCEPT ![r].control = a, ![r].revision = @ + 1]
Marked(r, n) ==
  /\ run[r].state # "none" /\ n \in Nat
  /\ run' = [run EXCEPT ![r].dispatched = TRUE, ![r].applied = n]
Renewed(r) ==
  /\ IsOpen(r) /\ run[r].control = "run" /\ NextOf(r) \in Runs
  /\ run' = [run EXCEPT ![r].state = "continued", ![NextOf(r)] = Accepted("accepted")]
Steps == {"running", "waiting"}
\* Why a run may end so.
Justified(r, s) ==
  /\ s \in Ends /\ Excused(r)
  /\ s = "failed" => Cause(r)
  /\ s = "completed" => Told(r)

\* Writes that neither end nor continue a run.
Quiet ==
  \/ run' = run
  \/ \E r \in Runs : Opened(r)
  \/ \E r \in Runs, s \in Steps : Advanced(r, s)
  \/ \E r \in Runs, a \in {"run", "pause", "cancel"} : Requested(r, a)
  \/ \E r \in Runs, n \in Nat : Marked(r, n)
Closing ==
  /\ \E r \in Runs, s \in Ends : Advanced(r, s) /\ Justified(r, s)
  /\ UNCHANGED <<link, receipt, plan, slots, round, wake, stop, told>>
Written == Quiet \/ Closing \/ \E r \in Runs : Renewed(r)

LEMMA FirstType == ASSUME NEW c \in Chains PROVE First(c) \in Runs /\ First(c)[1] = c /\ First(c)[2] = 1
BY BoundAssumption DEF First, Runs

\* The latest generation of a chain is the one generation that was not continued.
LEMMA LatestIsLast ==
  ASSUME InOrder, NEW r \in Runs, Latest(run[r].state)
  PROVE  Last(r[1]) = r
<1>1. ASSUME NEW s \in Runs, s[1] = r[1], Latest(run[s].state) PROVE s = r
  <2>1. ~(s[2] < r[2]) /\ ~(r[2] < s[2])
    BY <1>1 DEF InOrder, Latest
  <2>2. s[2] = r[2]
    BY <2>1, BoundAssumption DEF Runs
  <2> QED BY <1>1, <2>2 DEF Runs
<1>2. \A s \in Runs : s[1] = r[1] /\ run[s].state # "none" /\ run[s].state # "continued" <=> s = r
  BY <1>1 DEF Latest
<1> QED BY <1>2 DEF Last

LEMMA LastType ==
  ASSUME ChainInv, NEW c \in Chains, run[First(c)].state # "none"
  PROVE  /\ Last(c) \in Runs /\ Last(c)[1] = c
         /\ Latest(run[Last(c)].state)
<1>1. PICK r \in Runs : r[1] = c /\ Latest(run[r].state)
  BY DEF ChainInv, HasLatest
<1>2. Last(c) = r
  BY <1>1, LatestIsLast DEF ChainInv
<1> QED BY <1>1, <1>2

LEMMA JobTypes ==
  ASSUME TypeOK, NEW d \in Dispatchers
  PROVE  /\ job[d].at \in {"apply", "cancel", "mark", "sweep"} =>
              /\ job[d] \in [at : {"apply", "cancel", "mark", "sweep"}, run : Runs, row : RunRow]
              /\ job[d].run \in Runs /\ job[d].row \in RunRow
         /\ job[d].at = "settled" => job[d].run \in Runs
         /\ job[d].at \in {"tell", "delivered"} =>
              job[d] \in [at : {"tell", "delivered"}, child : Chains] /\ job[d].child \in Chains
         /\ job[d].at = "close" => job[d].child \in Chains /\ job[d].owner \in Runs
<1>1. job[d] \in Jobs BY DEF TypeOK
<1>2. CASE job[d] = Idle BY <1>2 DEF Idle
<1>3. CASE job[d] \in [at : {"apply", "cancel", "mark", "sweep"}, run : Runs, row : RunRow]
  BY <1>3
<1>4. CASE job[d] \in [at : {"settled"}, run : Runs] BY <1>4
<1>5. CASE job[d] \in [at : {"tell", "delivered"}, child : Chains] BY <1>5
<1>6. CASE job[d] \in [at : {"close"}, child : Chains, owner : Runs] BY <1>6
<1> QED BY <1>1, <1>2, <1>3, <1>4, <1>5, <1>6 DEF Jobs

LEMMA SetOpenWrites ==
  ASSUME NEW r \in Runs, NEW s \in {"running", "waiting"} \cup Ends, SetOpen(r, s),
         s = "cancelled" => run[r].control = "cancel"
  PROVE  run' = run \/ Advanced(r, s)
BY DEF SetOpen, Advanced

LEMMA RequestWrites ==
  ASSUME NEW r \in Runs, NEW a \in {"run", "pause", "cancel"}, Request(r, a)
  PROVE  run' = run \/ Requested(r, a)
BY DEF Request, Requested

LEMMA QuietRows ==
  ASSUME NEW r \in Runs
  PROVE  /\ \A a \in {"run", "pause", "cancel"} : Requested(r, a) => Quiet
         /\ \A n \in Nat : Marked(r, n) => Quiet
         /\ run' = run => Quiet
BY DEF Quiet

LEMMA CommandWrites ==
  ASSUME Inv, NEW r \in Runs, Command(r)
  PROVE  Quiet \/ (ContinueAsNew(r) /\ Renewed(r))
<1> USE DEF Quiet, Steps
<1>1. CASE Gate(r) BY <1>1 DEF Gate
<1>2. CASE Running(r) BY <1>2, SetOpenWrites DEF Running, Ends
<1>3. CASE BeginCommand(r) BY <1>3, SetOpenWrites DEF BeginCommand, Ends
<1>4. CASE LinkChild(r)
  <2>1. PICK c \in Children(r) :
          run' = IF run[First(c)].state = "none"
                 THEN [run EXCEPT ![First(c)] = Accepted("accepted")] ELSE run
    BY <1>4 DEF LinkChild
  <2>2. c \in Chains BY DEF Children
  <2>3. run' = run \/ Opened(First(c))
    BY <2>1, <2>2, FirstType DEF Opened
  <2> QED BY <2>2, <2>3, FirstType
<1>5. CASE AwaitChild(r) BY <1>5 DEF AwaitChild
<1>6. CASE FinishCommand(r)
  <2>1. run' = run \/ Advanced(r, "running")
    BY <1>6 DEF FinishCommand, Advanced, IsOpen, Open
  <2> QED BY <2>1
<1>7. CASE ContinueAsNew(r)
  <2>1. r[2] < Generations
    BY <1>7, PlansAssumption DEF ContinueAsNew, Inv, IInv, RoundInv, RoundSound, RoundShape
  <2>2. NextOf(r) \in Runs
    BY <2>1, BoundAssumption DEF NextOf, Runs
  <2>3. run' = run \/ Renewed(r)
    BY <1>7, <2>2 DEF ContinueAsNew, Renewed
  <2> QED BY <1>7, <2>3
<1>8. CASE Enqueue(r) BY <1>8 DEF Enqueue
<1> QED BY <1>1, <1>2, <1>3, <1>4, <1>5, <1>6, <1>7, <1>8 DEF Command

LEMMA EngineWrites ==
  ASSUME NEW r \in Runs, Engine(r) \/ CrashRound(r)
  PROVE  UNCHANGED <<run, link, receipt, plan, slots, told, stop, job>>
BY DEF Engine, Exit, Interrupted, Replay, CrashRound

LEMMA ClientWrites ==
  ASSUME (\E c \in Chains : Accept(c)) \/ (\E r \in Runs, a \in Controls : Control(r, a))
  PROVE  Quiet /\ UNCHANGED <<link, receipt, plan, slots, round, wake, stop, told, job, crashes>>
<1>1. \A c \in Chains : First(c) \in Runs /\ First(c)[2] = 1
  BY FirstType
<1>2. CASE \E c \in Chains : Accept(c)
  BY <1>1, <1>2 DEF Accept, Opened, Quiet
<1>3. CASE \E r \in Runs, a \in Controls : Control(r, a)
  <2>1. PICK r \in Runs, a \in Controls : Control(r, a) BY <1>3
  <2>2. a \in {"run", "pause", "cancel"} BY RequestAssumption
  <2>3. run' = run \/ Requested(r, a) BY <2>1, <2>2, RequestWrites DEF Control
  <2>4. Quiet BY <2>2, <2>3, QuietRows
  <2> QED BY <2>1, <2>4 DEF Control
<1> QED BY <1>2, <1>3

\* A run that its engine saw end without an answer was cancelled or has ended.
LEMMA SweepJustified ==
  ASSUME Inv, NEW r \in Runs, IsOpen(r), round[r] \in Exits
  PROVE  /\ round[r] = "completed" => Justified(r, "completed")
         /\ round[r] # "completed" => Justified(r, "failed")
         /\ round[r] # "completed" /\ run[r].control = "cancel" => Justified(r, "cancelled")
<1>1. RoundSound(r) /\ RowSound(r) /\ ~Terminal(r)
  BY DEF Inv, IInv, RoundInv, ChainInv, RowShape, IsOpen, Terminal, Open, Ends
<1>2. CASE round[r] = "completed"
  <2>1. Excused(r) BY <1>1, <1>2 DEF RoundSound, AnswersExcused, Answers
  <2>2. Told(r) BY <1>1, <1>2 DEF RoundSound, PastIsTold, Past, Answers
  <2> QED BY <1>2, <2>1, <2>2 DEF Justified, Ends
<1>3. CASE round[r] = "failed"
  <2>1. Excused(r) BY <1>1, <1>3 DEF RoundSound, AnswersExcused, Raises
  <2>2. plan[r] \in {"failed", "continue"} BY <1>1, <1>3 DEF RoundSound, RoundShape, Raises
  <2>3. Cause(r) BY <2>1, <2>2 DEF Cause, Excused
  <2> QED BY <1>3, <2>1, <2>3 DEF Justified, Ends
<1>4. CASE round[r] = "interrupted"
  <2>1. run[r].control = "cancel" BY <1>1, <1>4 DEF RoundSound, RoundShape
  <2>2. Excused(r) BY <1>1, <2>1 DEF RowSound, Excused
  <2> QED BY <1>4, <2>1, <2>2 DEF Justified, Ends, Cause
<1> QED BY <1>2, <1>3, <1>4 DEF Exits

\* The rows a dispatcher writes when it goes on with what it has read.
LEMMA ContinuedWrites ==
  ASSUME Inv, NEW d \in Dispatchers, Continued(d)
  PROVE  Quiet \/ Closing
<1> USE DEF Quiet
<1>1. CASE Apply(d) BY <1>1 DEF Apply
<1>2. CASE Mark(d)
  <2>1. /\ job[d].run \in Runs /\ job[d].row \in RunRow
        /\ run[job[d].run].state # "none"
    BY <1>2, JobTypes DEF Mark, At, Inv, IInv, JobInv, JobSound
  <2>2. job[d].row.revision \in Nat BY <2>1 DEF RunRow
  <2>3. run' = run \/ Marked(job[d].run, job[d].row.revision)
    BY <1>2, <2>1, <2>2 DEF Mark, Marked
  <2> QED BY <2>1, <2>2, <2>3, QuietRows
<1>3. CASE CompleteCancelled(d)
  <2> DEFINE r == job[d].run
  <2>1. r \in Runs /\ run[r].control = "cancel"
    BY <1>3, JobTypes DEF CompleteCancelled, At, Inv, IInv, JobInv, JobSound
  <2>2. SetOpen(r, "cancelled")
    BY <1>3 DEF CompleteCancelled, Complete
  <2>3. Justified(r, "cancelled")
    <3>1. RowSound(r) BY <2>1 DEF Inv, IInv, ChainInv, RowShape
    <3> QED BY <2>1, <3>1 DEF RowSound, Justified, Excused, Ends
  <2>4. run' = run \/ Advanced(r, "cancelled") BY <2>1, <2>2, SetOpenWrites DEF Ends
  <2> QED BY <1>3, <2>1, <2>3, <2>4 DEF Closing, CompleteCancelled, Ends
<1>4. CASE ReconciliationDelivered(d) BY <1>4 DEF ReconciliationDelivered
<1>5. CASE ReconcileSweep(d)
  <2> DEFINE r == job[d].run
  <2>1. /\ r \in Runs
        /\ job[d].row.control = "cancel" => run[r].control = "cancel"
    BY <1>5, JobTypes DEF ReconcileSweep, At, Inv, IInv, JobInv, JobSound
  <2>2. \/ run' = run
        \/ /\ round[r] \in Exits
           /\ \/ round[r] = "completed" /\ SetOpen(r, "completed")
              \/ round[r] # "completed" /\ SetOpen(r, "cancelled") /\ job[d].row.control = "cancel"
              \/ round[r] # "completed" /\ SetOpen(r, "failed")
    BY <1>5 DEF ReconcileSweep, Complete
  <2>4. IsOpen(r) \/ run' = run BY <2>2 DEF SetOpen
  <2>5. \A s \in Ends : Justified(r, s) /\ SetOpen(r, s) =>
          \/ run' = run \/ Advanced(r, s)
          \/ s = "cancelled" /\ run[r].control # "cancel"
    BY <2>1, SetOpenWrites
  <2>6. ASSUME IsOpen(r), round[r] \in Exits
        PROVE  run' = run \/ \E s \in Ends : Advanced(r, s) /\ Justified(r, s)
    <3>1. CASE round[r] = "completed" /\ SetOpen(r, "completed")
      BY <3>1, <2>1, <2>5, <2>6, SweepJustified DEF Ends
    <3>2. CASE round[r] # "completed" /\ SetOpen(r, "cancelled") /\ job[d].row.control = "cancel"
      BY <3>2, <2>1, <2>5, <2>6, SweepJustified DEF Ends
    <3>3. CASE round[r] # "completed" /\ SetOpen(r, "failed")
      BY <3>3, <2>1, <2>5, <2>6, SweepJustified DEF Ends
    <3> QED BY <2>2, <3>1, <3>2, <3>3
  <2>3. run' = run \/ \E s \in Ends : Advanced(r, s) /\ Justified(r, s)
    BY <2>2, <2>4, <2>6
  <2> QED BY <1>5, <2>1, <2>3 DEF Closing, ReconcileSweep
<1>6. CASE TellParent(d) BY <1>6 DEF TellParent
<1>7. CASE ChildDelivered(d) BY <1>7 DEF ChildDelivered
<1>8. CASE CloseChildren(d)
  <2> DEFINE c == job[d].child
             owner == IF ReadCommitted THEN job[d].owner ELSE Last(c)
  <2>1. c \in Chains /\ job[d].owner \in Runs /\ run[First(c)].state # "none"
    BY <1>8, JobTypes DEF CloseChildren, At, Inv, IInv, JobInv, JobSound
  <2>2. owner \in Runs
    BY <2>1, LastType DEF Inv, IInv
  <2>3. run' = run \/ Request(owner, "cancel")
    BY <1>8 DEF CloseChildren, CloseChild
  <2>4. run' = run \/ Requested(owner, "cancel") BY <2>2, <2>3, RequestWrites
  <2> QED BY <2>2, <2>4, QuietRows
<1> QED BY <1>1, <1>2, <1>3, <1>4, <1>5, <1>6, <1>7, <1>8 DEF Continued

LEMMA FetchWrites ==
  ASSUME Inv, NEW d \in Dispatchers,
         Fetch(d) \/ Settle(d) \/ Sweep(d) \/ FetchReady(d) \/ FollowContinuation(d) \/ CrashDispatcher(d)
  PROVE  /\ Quiet \/ Closing
         /\ UNCHANGED <<link, receipt, plan, slots, round, wake, stop, told>>
<1>1. CASE Settle(d)
  <2>1. PICK r \in Runs : receipt[r].exit # None /\ Complete(r, receipt[r].exit)
    BY <1>1 DEF Settle
  <2>2. receipt[r].exit \in {"completed", "failed"}
    BY <2>1 DEF Inv, TypeOK
  <2>3. Justified(r, receipt[r].exit)
    <3>1. RoundSound(r) BY DEF Inv, IInv, RoundInv
    <3>2. Excused(r) /\ Told(r) BY <2>1, <3>1 DEF RoundSound, AnswersExcused, PastIsTold
    <3>3. receipt[r].exit = "failed" => Cause(r)
      BY <3>1, <3>2 DEF RoundSound, RoundShape, Cause, Excused
    <3> QED BY <2>2, <3>2, <3>3 DEF Justified, Ends
  <2>4. run' = run \/ Advanced(r, receipt[r].exit)
    BY <2>1, <2>2, SetOpenWrites DEF Complete, Ends
  <2> QED BY <1>1, <2>2, <2>3, <2>4 DEF Settle, Closing, Quiet, Ends
<1> QED BY <1>1 DEF Fetch, Sweep, FetchReady, FollowContinuation, CrashDispatcher, Quiet

LEMMA RunWrites == ASSUME Inv, Next PROVE Written
BY CommandWrites, EngineWrites, ContinuedWrites, FetchWrites, ClientWrites DEF Next, Written, Quiet

-----------------------------------------------------------------------------
(* What every write keeps of every row. *)

RunTypes == run \in [Runs -> RunRow]
Keeps(r) ==
  /\ run[r].control = "cancel" => run'[r].control = "cancel"
  /\ run[r].revision > 0 => run'[r].revision > 0
  /\ run[r].state # "none" => run'[r].state # "none"
  /\ run[r].state \in Ends \cup {"continued"} => run'[r].state = run[r].state
  /\ run[r].state \in Open => run'[r].state \in Open \cup Ends \cup {"continued"}

\* A write changes one row, or two when it opens the next generation.
LEMMA OpenedRows ==
  ASSUME RunTypes, NEW q \in Runs, Opened(q)
  PROVE  /\ run' \in [Runs -> RunRow] /\ run'[q] = Accepted("accepted")
         /\ \A r \in Runs : r # q => run'[r] = run[r]
<1>1. Accepted("accepted") \in RunRow BY DEF Accepted, Unaccepted, RunRow, Open
<1> QED BY <1>1 DEF Opened, RunTypes

LEMMA AdvancedRows ==
  ASSUME RunTypes, NEW q \in Runs, NEW s \in {"running", "waiting"} \cup Ends, Advanced(q, s)
  PROVE  /\ run' \in [Runs -> RunRow] /\ run'[q] = [run[q] EXCEPT !.state = s]
         /\ \A r \in Runs : r # q => run'[r] = run[r]
<1>1. run[q] \in RunRow BY DEF RunTypes
<1>2. [run[q] EXCEPT !.state = s] \in RunRow BY <1>1 DEF RunRow, Open
<1> QED BY <1>2 DEF Advanced, RunTypes

LEMMA RequestedRows ==
  ASSUME RunTypes, NEW q \in Runs, NEW a \in {"run", "pause", "cancel"}, Requested(q, a)
  PROVE  /\ run' \in [Runs -> RunRow]
         /\ run'[q] = [run[q] EXCEPT !.control = a, !.revision = @ + 1]
         /\ \A r \in Runs : r # q => run'[r] = run[r]
<1>1. run[q] \in RunRow BY DEF RunTypes
<1>4. run[q].revision + 1 \in Nat BY <1>1 DEF RunRow
<1>2. [run[q] EXCEPT !.control = a, !.revision = @ + 1] \in RunRow BY <1>1, <1>4 DEF RunRow
<1>3. run' = [run EXCEPT ![q] = [run[q] EXCEPT !.control = a, !.revision = @ + 1]]
  BY <1>1 DEF Requested, RunTypes
<1> QED BY <1>2, <1>3 DEF RunTypes

LEMMA MarkedRows ==
  ASSUME RunTypes, NEW q \in Runs, NEW n \in Nat, Marked(q, n)
  PROVE  /\ run' \in [Runs -> RunRow]
         /\ run'[q] = [run[q] EXCEPT !.dispatched = TRUE, !.applied = n]
         /\ \A r \in Runs : r # q => run'[r] = run[r]
<1>1. run[q] \in RunRow BY DEF RunTypes
<1>2. [run[q] EXCEPT !.dispatched = TRUE, !.applied = n] \in RunRow BY <1>1 DEF RunRow
<1>3. run' = [run EXCEPT ![q] = [run[q] EXCEPT !.dispatched = TRUE, !.applied = n]]
  BY <1>1 DEF Marked, RunTypes
<1> QED BY <1>2, <1>3 DEF RunTypes

LEMMA RenewedRows ==
  ASSUME RunTypes, NEW q \in Runs, Renewed(q)
  PROVE  /\ run' \in [Runs -> RunRow] /\ NextOf(q) # q
         /\ run'[q] = [run[q] EXCEPT !.state = "continued"]
         /\ run'[NextOf(q)] = Accepted("accepted")
         /\ \A r \in Runs : r # q /\ r # NextOf(q) => run'[r] = run[r]
<1>1. run[q] \in RunRow BY DEF RunTypes
<1>2. [run[q] EXCEPT !.state = "continued"] \in RunRow BY <1>1 DEF RunRow
<1>3. NextOf(q) \in Runs /\ NextOf(q) # q
  BY BoundAssumption DEF Renewed, NextOf, Runs
<1>4. Accepted("accepted") \in RunRow BY DEF Accepted, Unaccepted, RunRow, Open
<1> QED BY <1>2, <1>3, <1>4 DEF Renewed, RunTypes

\* The next generation of a run that is open was not accepted.
LEMMA NextIsFree ==
  ASSUME InOrder, NEW q \in Runs, IsOpen(q), NextOf(q) \in Runs
  PROVE  run[NextOf(q)].state = "none"
BY BoundAssumption DEF InOrder, NextOf, Runs, IsOpen, Open

LEMMA OneRow ==
  ASSUME RowShape, NEW q \in Runs, \A r \in Runs : r # q => run'[r] = run[r],
         Keeps(q), RowSound(q)'
  PROVE  RowShape' /\ \A r \in Runs : Keeps(r)
<1>1. \A r \in Runs : run'[r] = run[r] => Keeps(r) /\ RowSound(r)'
  BY DEF Keeps, RowShape, RowSound, Open
<1> QED BY <1>1 DEF RowShape

LEMMA RowsKept ==
  ASSUME RunTypes, InOrder, RowShape, Written
  PROVE  /\ run' \in [Runs -> RunRow]
         /\ \A r \in Runs : Keeps(r)
         /\ RowShape'
<1> USE DEF RunTypes
<1>1. CASE run' = run
  <2>1. RowShape' BY <1>1 DEF RowShape, RowSound
  <2> QED BY <1>1, <2>1 DEF Keeps, Open
<1>2. ASSUME NEW q \in Runs, Opened(q) PROVE RunTypes' /\ RowShape' /\ \A r \in Runs : Keeps(r)
  <2>1. Keeps(q) /\ RowSound(q)'
    <3>1. run[q] = Unaccepted BY <1>2 DEF Opened, RowShape, RowSound
    <3> QED BY <1>2, <3>1, OpenedRows DEF Accepted, Unaccepted, Keeps, RowSound, Ends, Open
  <2> QED BY <1>2, <2>1, OneRow, OpenedRows
<1>3. ASSUME NEW q \in Runs, NEW s \in {"running", "waiting"} \cup Ends, Advanced(q, s)
      PROVE  RunTypes' /\ RowShape' /\ \A r \in Runs : Keeps(r)
  <2>1. run[q] \in RunRow OBVIOUS
  <2>2. /\ run'[q].state = s /\ run'[q].control = run[q].control
        /\ run'[q].revision = run[q].revision /\ run[q].state \in Open
    BY <1>3, <2>1, AdvancedRows DEF Advanced, IsOpen, RunRow
  <2>3. Keeps(q) BY <2>2 DEF Keeps, Ends, Open
  <2>4. s = "cancelled" => run[q].control = "cancel" BY <1>3 DEF Advanced
  <2>5. RowSound(q)' BY <2>2, <2>4 DEF RowShape, RowSound, Ends, Open
  <2> QED BY <1>3, <2>3, <2>5, OneRow, AdvancedRows
<1>4. ASSUME NEW q \in Runs, NEW a \in {"run", "pause", "cancel"}, Requested(q, a)
      PROVE  RunTypes' /\ RowShape' /\ \A r \in Runs : Keeps(r)
  <2>1. run[q] \in RunRow OBVIOUS
  <2>2. run'[q].state = run[q].state /\ run'[q].revision = run[q].revision + 1
    <3>1. run'[q] = [run[q] EXCEPT !.control = a, !.revision = @ + 1] BY <1>4, RequestedRows
    <3> QED BY <2>1, <3>1 DEF RunRow
  <2>3. run[q].state \in Open /\ run[q].control # "cancel" /\ run'[q].revision > 0
    BY <1>4, <2>1, <2>2 DEF Requested, Requestable, IsOpen, RunRow
  <2>4. Keeps(q) /\ RowSound(q)' BY <2>2, <2>3 DEF Keeps, RowSound, Open, Ends
  <2> QED BY <1>4, <2>4, OneRow, RequestedRows
<1>5. ASSUME NEW q \in Runs, NEW n \in Nat, Marked(q, n)
      PROVE  RunTypes' /\ RowShape' /\ \A r \in Runs : Keeps(r)
  <2>1. run[q] \in RunRow OBVIOUS
  <2>2. /\ run'[q].state = run[q].state
        /\ run'[q].revision = run[q].revision /\ run'[q].control = run[q].control
    <3>1. run'[q] = [run[q] EXCEPT !.dispatched = TRUE, !.applied = n] BY <1>5, MarkedRows
    <3> QED BY <2>1, <3>1 DEF RunRow
  <2>3. run[q].state # "none" BY <1>5 DEF Marked
  <2>4. Keeps(q) BY <2>2, <2>1 DEF Keeps, RunRow
  <2>5. RowSound(q)' BY <2>2, <2>3 DEF RowShape, RowSound
  <2> QED BY <1>5, <2>4, <2>5, OneRow, MarkedRows
<1>6. ASSUME NEW q \in Runs, Renewed(q)
      PROVE  RunTypes' /\ RowShape' /\ \A r \in Runs : Keeps(r)
  <2>1. run[q] \in RunRow OBVIOUS
  <2>2. /\ run'[q].state = "continued" /\ run'[q].revision = run[q].revision
        /\ run'[q].control = run[q].control
    <3>1. run'[q] = [run[q] EXCEPT !.state = "continued"] BY <1>6, RenewedRows
    <3> QED BY <2>1, <3>1 DEF RunRow
  <2>3. run[q].control = "run" /\ run[q].state \in Open BY <1>6 DEF Renewed, IsOpen
  <2>4. Keeps(q) /\ RowSound(q)' BY <2>2, <2>3 DEF Keeps, RowSound, Open, Ends
  <2>5. run[NextOf(q)].state = "none" /\ NextOf(q) \in Runs
    BY <1>6, NextIsFree DEF Renewed
  <2>6. run[NextOf(q)] = Unaccepted BY <2>5 DEF RowShape, RowSound
  <2>7. Keeps(NextOf(q)) /\ RowSound(NextOf(q))'
    <3>1. run'[NextOf(q)] = Accepted("accepted") BY <1>6, RenewedRows
    <3> QED BY <2>6, <3>1 DEF Keeps, RowSound, Accepted, Unaccepted, Ends, Open
  <2>8. \A r \in Runs : run'[r] = run[r] => Keeps(r) /\ RowSound(r)'
    BY DEF Keeps, RowShape, RowSound, Open
  <2>9. \A r \in Runs : r # q /\ r # NextOf(q) => run'[r] = run[r] BY <1>6, RenewedRows
  <2>10. RunTypes' BY <1>6, RenewedRows
  <2>11. \A r \in Runs : Keeps(r) /\ RowSound(r)'
    <3> TAKE r \in Runs
    <3>1. CASE r = q BY <3>1, <2>4
    <3>2. CASE r = NextOf(q) BY <3>2, <2>7
    <3>3. CASE r # q /\ r # NextOf(q) BY <3>3, <2>8, <2>9
    <3> QED BY <3>1, <3>2, <3>3
  <2> QED BY <2>10, <2>11 DEF RowShape
<1> QED BY <1>1, <1>2, <1>3, <1>4, <1>5, <1>6 DEF Written, Quiet, Closing, Steps

LEMMA OrderKept ==
  ASSUME RunTypes, ChainInv, Written
  PROVE  InOrder' /\ HasLatest'
<1> USE DEF ChainInv
<1>1. RunTypes' /\ \A r \in Runs : Keeps(r)
  BY RowsKept DEF RunTypes
<1>2. CASE run' = run BY <1>2 DEF InOrder, HasLatest
\* Writes that neither accept nor continue a run.
<1>3. ASSUME NEW q \in Runs, \A r \in Runs : r # q => run'[r] = run[r],
             run[q].state # "none", Latest(run'[q].state)
      PROVE  InOrder' /\ HasLatest'
  <2>1. InOrder'
    <3> SUFFICES ASSUME NEW r \in Runs, NEW s \in Runs,
                        r[1] = s[1], r[2] < s[2], run'[s].state # "none"
                 PROVE  run'[r].state = "continued"
      BY DEF InOrder
    <3>1. run[s].state # "none" BY <1>3
    <3>2. run[r].state = "continued" BY <3>1 DEF InOrder
    <3> QED BY <3>2, <1>1 DEF Keeps
  <2>2. HasLatest'
    <3> SUFFICES ASSUME NEW c \in Chains, run'[First(c)].state # "none"
                 PROVE  \E r \in Runs : r[1] = c /\ Latest(run'[r].state)
      BY DEF HasLatest, First
    <3>1. run[First(c)].state # "none" BY <1>3, FirstType
    <3>2. PICK r \in Runs : r[1] = c /\ Latest(run[r].state) BY <3>1 DEF HasLatest
    <3> QED BY <3>2, <1>3
  <2> QED BY <2>1, <2>2
<1>4. ASSUME NEW q \in Runs, Opened(q) PROVE InOrder' /\ HasLatest'
  <2>1. run'[q].state = "accepted" /\ \A r \in Runs : r # q => run'[r] = run[r]
    BY <1>4, OpenedRows DEF RunTypes, Accepted, Unaccepted
  <2>2. InOrder'
    <3> SUFFICES ASSUME NEW r \in Runs, NEW s \in Runs,
                        r[1] = s[1], r[2] < s[2], run'[s].state # "none"
                 PROVE  run'[r].state = "continued"
      BY DEF InOrder
    <3>1. s # q BY <1>4, BoundAssumption DEF Opened, Runs
    <3>2. run[r].state = "continued" BY <3>1, <2>1 DEF InOrder
    <3> QED BY <3>2, <1>1 DEF Keeps
  <2>3. HasLatest'
    <3> SUFFICES ASSUME NEW c \in Chains, run'[First(c)].state # "none"
                 PROVE  \E r \in Runs : r[1] = c /\ Latest(run'[r].state)
      BY DEF HasLatest, First
    <3>1. CASE First(c) = q BY <3>1, <2>1, FirstType DEF Latest
    <3>2. CASE First(c) # q
      <4>1. PICK r \in Runs : r[1] = c /\ Latest(run[r].state)
        BY <3>2, <2>1, FirstType DEF HasLatest
      <4>2. r # q BY <4>1, <1>4 DEF Opened, Latest
      <4> QED BY <4>1, <4>2, <2>1
    <3> QED BY <3>1, <3>2
  <2> QED BY <2>2, <2>3
<1>5. ASSUME NEW q \in Runs, Renewed(q) PROVE InOrder' /\ HasLatest'
  <2>1. /\ run'[q].state = "continued" /\ run'[NextOf(q)].state = "accepted"
        /\ \A r \in Runs : r # q /\ r # NextOf(q) => run'[r] = run[r]
    <3>1. run[q] \in RunRow BY DEF RunTypes
    <3>2. run'[q].state = "continued" BY <1>5, <3>1, RenewedRows DEF RunRow
    <3>3. run'[NextOf(q)].state = "accepted" BY <1>5, RenewedRows DEF Accepted, Unaccepted
    <3> QED BY <1>5, <3>2, <3>3, RenewedRows
  <2>2. NextOf(q) \in Runs /\ IsOpen(q) /\ NextOf(q)[1] = q[1] /\ NextOf(q)[2] = q[2] + 1
    BY <1>5 DEF Renewed, NextOf
  <2>3. InOrder'
    <3> SUFFICES ASSUME NEW r \in Runs, NEW s \in Runs,
                        r[1] = s[1], r[2] < s[2], run'[s].state # "none"
                 PROVE  run'[r].state = "continued"
      BY DEF InOrder
    <3>1. CASE s = NextOf(q)
      <4>1. r[1] = q[1] /\ (r[2] < q[2] \/ r[2] = q[2])
        BY <3>1, <2>2, BoundAssumption DEF Runs
      <4>2. CASE r[2] < q[2]
        <5>1. run[r].state = "continued" BY <4>1, <4>2, <2>2 DEF InOrder, IsOpen, Open
        <5> QED BY <5>1, <1>1 DEF Keeps
      <4>3. CASE r[2] = q[2]
        <5>1. r = q BY <4>1, <4>3 DEF Runs
        <5> QED BY <5>1, <2>1
      <4> QED BY <4>1, <4>2, <4>3
    <3>2. CASE s # NextOf(q)
      <4>1. run[s].state # "none" BY <3>2, <2>1, <2>2 DEF IsOpen, Open
      <4>2. run[r].state = "continued" BY <4>1 DEF InOrder
      <4> QED BY <4>2, <1>1 DEF Keeps
    <3> QED BY <3>1, <3>2
  <2>4. HasLatest'
    <3> SUFFICES ASSUME NEW c \in Chains, run'[First(c)].state # "none"
                 PROVE  \E r \in Runs : r[1] = c /\ Latest(run'[r].state)
      BY DEF HasLatest, First
    <3>1. CASE c = q[1] BY <3>1, <2>1, <2>2 DEF Latest
    <3>2. CASE c # q[1]
      <4>1. First(c) # q /\ First(c) # NextOf(q) BY <3>2, <2>2, FirstType
      <4>2. PICK r \in Runs : r[1] = c /\ Latest(run[r].state)
        BY <4>1, <2>1, FirstType DEF HasLatest
      <4> QED BY <4>2, <3>2, <2>1, <2>2
    <3> QED BY <3>1, <3>2
  <2> QED BY <2>3, <2>4
<1>6. ASSUME NEW q \in Runs, NEW s \in {"running", "waiting"} \cup Ends, Advanced(q, s)
      PROVE  InOrder' /\ HasLatest'
  <2>1. run[q] \in RunRow BY DEF RunTypes
  <2>2. run[q].state # "none" /\ Latest(run'[q].state) /\ \A r \in Runs : r # q => run'[r] = run[r]
    BY <1>6, <2>1, AdvancedRows DEF Advanced, IsOpen, Open, Ends, Latest, RunRow
  <2> QED BY <2>2, <1>3
<1>7. ASSUME NEW q \in Runs, NEW a \in {"run", "pause", "cancel"}, Requested(q, a)
      PROVE  InOrder' /\ HasLatest'
  <2>1. run[q] \in RunRow BY DEF RunTypes
  <2>2. run[q].state # "none" /\ Latest(run'[q].state) /\ \A r \in Runs : r # q => run'[r] = run[r]
    BY <1>7, <2>1, RequestedRows DEF Requested, Requestable, IsOpen, Open, Latest, RunRow
  <2> QED BY <2>2, <1>3
<1>8. ASSUME NEW q \in Runs, NEW n \in Nat, Marked(q, n) PROVE InOrder' /\ HasLatest'
  <2>1. run[q] \in RunRow BY DEF RunTypes
  <2>3. run'[q].state = run[q].state 
    <3>1. run'[q] = [run[q] EXCEPT !.dispatched = TRUE, !.applied = n] BY <1>8, MarkedRows
    <3> QED BY <2>1, <3>1 DEF RunRow
  <2>2. \A r \in Runs : run'[r].state = run[r].state
    BY <1>8, <2>3, MarkedRows
  <2> QED BY <2>2, FirstType DEF InOrder, HasLatest, First
<1> QED BY <1>2, <1>4, <1>5, <1>6, <1>7, <1>8 DEF Written, Quiet, Closing, Steps

\* A quiet write ends no run and continues none.
Fresh(r) == run'[r].state \in Ends \cup {"continued"} => run'[r].state = run[r].state

LEMMA QuietFresh ==
  ASSUME RunTypes, Quiet
  PROVE  \A r \in Runs : Fresh(r)
<1> USE DEF Fresh, Ends, Open
<1>1. CASE run' = run BY <1>1
<1>2. ASSUME NEW q \in Runs, Opened(q) PROVE \A r \in Runs : Fresh(r)
  BY <1>2, OpenedRows DEF Accepted, Unaccepted
<1>3. ASSUME NEW q \in Runs, NEW s \in Steps, Advanced(q, s) PROVE \A r \in Runs : Fresh(r)
  <2>1. run[q] \in RunRow BY DEF RunTypes
  <2>2. s \in {"running", "waiting"} \cup Ends /\ s \notin Ends \cup {"continued"} BY DEF Steps
  <2>3. run'[q] = [run[q] EXCEPT !.state = s] BY <1>3, <2>2, AdvancedRows
  <2>4. run'[q].state = s BY <2>1, <2>3 DEF RunRow
  <2> QED BY <1>3, <2>2, <2>4, AdvancedRows
<1>4. ASSUME NEW q \in Runs, NEW a \in {"run", "pause", "cancel"}, Requested(q, a)
      PROVE  \A r \in Runs : Fresh(r)
  <2>1. run[q] \in RunRow BY DEF RunTypes
  <2>2. run'[q] = [run[q] EXCEPT !.control = a, !.revision = @ + 1] BY <1>4, RequestedRows
  <2>3. run'[q].state = run[q].state BY <2>1, <2>2 DEF RunRow
  <2> QED BY <1>4, <2>3, RequestedRows
<1>5. ASSUME NEW q \in Runs, NEW n \in Nat, Marked(q, n) PROVE \A r \in Runs : Fresh(r)
  <2>1. run[q] \in RunRow BY DEF RunTypes
  <2>2. run'[q] = [run[q] EXCEPT !.dispatched = TRUE, !.applied = n] BY <1>5, MarkedRows
  <2>3. run'[q].state = run[q].state BY <2>1, <2>2 DEF RunRow
  <2> QED BY <1>5, <2>3, MarkedRows
<1> QED BY <1>1, <1>2, <1>3, <1>4, <1>5 DEF Quiet

LEMMA StepKeeps ==
  ASSUME Inv, Next
  PROVE  ChainInv' /\ RunTypes' /\ \A r \in Runs : Keeps(r)
<1>1. Written BY RunWrites
<1>2. RunTypes /\ ChainInv BY DEF Inv, IInv, TypeOK, RunTypes
<1> QED BY <1>1, <1>2, RowsKept, OrderKept DEF ChainInv, RunTypes

-----------------------------------------------------------------------------
(* What rounds have answered stays sound. *)

Sticks == \A c \in Chains : told[c] # None => told'[c] # None

LEMMA ToldSticks == ASSUME Sticks, NEW r \in Runs, Told(r) PROVE Told(r)'
BY DEF Sticks, Told

\* The row of an execution changes, the execution does not.
LEMMA RowChange ==
  ASSUME NEW r \in Runs, run[r] \in RunRow, RoundSound(r), Keeps(r), Sticks,
         Fresh(r) \/ \E s \in Ends : Justified(r, s) /\ run'[r].state = s,
         UNCHANGED <<plan, round[r], receipt[r].exit>>,
         stop'[r] => stop[r] \/ run[r].control = "cancel"
  PROVE  RoundSound(r)'
<1> USE DEF Keeps, Ends
<1>1. run'[r].state = "none" => run[r].state = "none" OBVIOUS
<1>2. Excused(r) => Excused(r)' BY DEF Excused
<1>3. Cause(r) => Cause(r)' BY DEF Cause
<1>4. Terminal(r) => Terminal(r)' BY DEF Terminal
<1>5. Told(r) => Told(r)' BY ToldSticks
<1>6. run'[r].state = "continued" => run[r].state = "continued"
  BY DEF Fresh
<1>7. RoundShape(r)' BY <1>1, <1>4, <1>6 DEF RoundShape, RoundSound
<1>8. run'[r].state \in Ends => run[r].state \in Ends \/ Excused(r)
  BY DEF Fresh, Justified
<1>9. run'[r].state = "completed" => run[r].state = "completed" \/ Told(r)
  BY DEF Fresh, Justified
<1>10. run'[r].state = "failed" => run[r].state = "failed" \/ Cause(r)
  BY DEF Fresh, Justified
<1>11. AnswersExcused(r)' BY <1>2, <1>8 DEF RoundSound, AnswersExcused
<1>12. PastIsTold(r)' BY <1>5, <1>6, <1>9 DEF RoundSound, PastIsTold
<1> QED BY <1>3, <1>7, <1>10, <1>11, <1>12 DEF RoundSound

\* The execution goes on, and its row is not ended by that.
Allowed(r, at) ==
  /\ run[r].state # "none" /\ at # "absent"
  /\ run[r].state = "continued" => at \in {"start", "stop", "interrupted"}
  /\ at \in {"stop", "interrupted"} => run[r].control = "cancel" \/ Terminal(r)
  /\ at \in {"next", "continue"} => plan[r] = "continue"
  /\ at \in Raises => plan[r] \in {"failed", "continue"}
  /\ at \in Answers \cup Raises => Excused(r)
  /\ at \in Past => Told(r)

LEMMA RoundChange ==
  ASSUME NEW r \in Runs, RoundSound(r), Keeps(r), Sticks, Fresh(r),
         NEW at, Allowed(r, at), round'[r] = at,
         UNCHANGED <<plan, stop[r]>>,
         \/ receipt'[r].exit = receipt[r].exit
         \/ /\ Excused(r) /\ Told(r)
            /\ receipt'[r].exit = "failed" => plan[r] \in {"failed", "continue"}
  PROVE  RoundSound(r)'
<1> USE DEF Keeps, Ends
<1>2. Excused(r) => Excused(r)' BY DEF Excused
<1>3. Cause(r) => Cause(r)' BY DEF Cause
<1>4. Terminal(r) => Terminal(r)' BY DEF Terminal
<1>5. Told(r) => Told(r)' BY ToldSticks
<1>6. \A s \in Ends \cup {"continued"} : run'[r].state = s => run[r].state = s
  BY DEF Fresh
<1>7. RoundShape(r)' BY <1>4, <1>6 DEF RoundShape, RoundSound, Allowed
<1>8. AnswersExcused(r)' BY <1>2, <1>6 DEF RoundSound, AnswersExcused, Allowed
<1>9. PastIsTold(r)' BY <1>5, <1>6 DEF RoundSound, PastIsTold, Allowed
<1> QED BY <1>3, <1>6, <1>7, <1>8, <1>9 DEF RoundSound

LEMMA OthersSound ==
  ASSUME Inv, Next, Quiet, Sticks, plan' = plan, NEW q \in Runs, RoundSound(q)',
         \A r \in Runs : r # q => UNCHANGED <<round[r], receipt[r].exit, stop[r]>>
  PROVE  RoundInv'
<1> SUFFICES ASSUME NEW r \in Runs, r # q PROVE RoundSound(r)'
  BY DEF RoundInv
<1>1. Keeps(r) BY StepKeeps
<1>2. Fresh(r) BY QuietFresh DEF Inv, TypeOK, RunTypes
<1>3. RoundSound(r) /\ run[r] \in RunRow BY DEF Inv, IInv, RoundInv, TypeOK
<1> QED BY <1>1, <1>2, <1>3, RowChange

\* A round goes on.
LEMMA GoSound ==
  ASSUME Inv, Next, Quiet, NEW r \in Runs, NEW at, Allowed(r, at), Go(r, at),
         UNCHANGED <<plan, receipt, stop, told>>
  PROVE  RoundInv'
<1>1. Sticks BY DEF Sticks
<1>2. round'[r] = at /\ \A q \in Runs : q # r => round'[q] = round[q]
  BY DEF Go, Inv, TypeOK
<1>3. Keeps(r) BY StepKeeps
<1>4. Fresh(r) BY QuietFresh DEF Inv, TypeOK, RunTypes
<1>5. RoundSound(r) BY DEF Inv, IInv, RoundInv
<1>6. RoundSound(r)' BY <1>1, <1>2, <1>3, <1>4, <1>5, RoundChange
<1> QED BY <1>1, <1>2, <1>6, OthersSound

\* No round goes on.
LEMMA StaySound ==
  ASSUME Inv, Next, Quiet \/ Closing, Sticks,
         \A r \in Runs : /\ UNCHANGED <<round[r], receipt[r].exit>>
                         /\ stop'[r] => stop[r] \/ run[r].control = "cancel",
         plan' = plan
  PROVE  RoundInv'
<1> SUFFICES ASSUME NEW r \in Runs PROVE RoundSound(r)'
  BY DEF RoundInv
<1>1. Keeps(r) BY StepKeeps
<1>2. RoundSound(r) /\ run[r] \in RunRow /\ RunTypes
  BY DEF Inv, IInv, RoundInv, TypeOK, RunTypes
<1>3. Fresh(r) \/ \E s \in Ends : Justified(r, s) /\ run'[r].state = s
  <2>1. CASE Quiet BY <2>1, <1>2, QuietFresh
  <2>2. CASE Closing
    <3>1. PICK q \in Runs, s \in Ends : Advanced(q, s) /\ Justified(q, s)
      BY <2>2 DEF Closing
    <3>2. s \in {"running", "waiting"} \cup Ends BY <3>1
    <3>3. run'[q] = [run[q] EXCEPT !.state = s] /\ (r # q => run'[r] = run[r])
      BY <1>2, <3>1, <3>2, AdvancedRows
    <3>4. r = q => run'[r].state = s BY <1>2, <3>3 DEF RunRow
    <3> QED BY <3>1, <3>3, <3>4 DEF Fresh
  <2> QED BY <2>1, <2>2
<1> QED BY <1>1, <1>2, <1>3, RowChange

LEMMA PlannedAllowed ==
  ASSUME Inv, NEW r \in Runs, Told(r), run[r].state \notin {"none", "continued"}
  PROVE  Allowed(r, Planned(r))
<1>1. plan[r] \in Outcomes BY DEF Inv, TypeOK
<1>2. CASE plan[r] = "continue" BY <1>2 DEF Planned, Allowed, Raises, Answers
<1>3. CASE plan[r] = "completed" BY <1>3 DEF Planned, Allowed, Raises, Answers, Excused
<1>4. CASE plan[r] = "failed" BY <1>4 DEF Planned, Allowed, Raises, Answers, Excused
<1> QED BY <1>1, <1>2, <1>3, <1>4 DEF Outcomes

LEMMA LiveRow ==
  ASSUME Inv, NEW r \in Runs, round[r] \notin {"absent", "start", "stop", "interrupted"}
  PROVE  run[r].state \notin {"none", "continued"}
BY DEF Inv, IInv, RoundInv, RoundSound, RoundShape

LEMMA GateSound ==
  ASSUME Inv, Next, NEW r \in Runs, Gate(r)
  PROVE  RoundInv'
<1>1. round[r] \in {"start", "call", "next", "return"}
  BY DEF Gate, Gated
<1>2. RoundSound(r) BY DEF Inv, IInv, RoundInv
<1>3. run[r].state # "none" BY <1>1, <1>2 DEF RoundSound, RoundShape
<1>4. PICK at : /\ Go(r, at)
                /\ \/ at = "stop" /\ (run[r].control = "cancel" \/ Terminal(r))
                   \/ at \in {"suspend", Gated[round[r]]} /\ ~Terminal(r)
  BY DEF Gate
<1>5. CASE at = "stop" /\ (run[r].control = "cancel" \/ Terminal(r))
  <2>1. Allowed(r, at) BY <1>3, <1>5 DEF Allowed, Raises, Answers, Past
  <2> QED BY <1>4, <2>1, GoSound DEF Gate, Quiet
<1>6. CASE at \in {"suspend", Gated[round[r]]} /\ ~Terminal(r)
  <2>1. \/ at = "suspend" \/ at = "begin" \/ at = "schedule"
        \/ round[r] = "next" /\ at = "continue"
        \/ round[r] = "return" /\ at = "answer"
    BY <1>1, <1>6 DEF Gated
  <2>2. run[r].state # "continued" BY <1>6 DEF Terminal
  <2>3. round[r] \in {"next", "return"} => Told(r)
    BY <1>2 DEF RoundSound, PastIsTold, Past, Answers
  <2>4. round[r] = "next" => plan[r] = "continue" BY <1>2 DEF RoundSound, RoundShape
  <2>5. round[r] = "return" => Excused(r) BY <1>2 DEF RoundSound, AnswersExcused, Answers
  <2>6. Allowed(r, at)
    BY <1>3, <2>1, <2>2, <2>3, <2>4, <2>5 DEF Allowed, Raises, Answers, Past
  <2> QED BY <1>4, <2>6, GoSound DEF Gate, Quiet
<1> QED BY <1>4, <1>5, <1>6

LEMMA ContinueSound ==
  ASSUME Inv, Next, NEW r \in Runs, ContinueAsNew(r)
  PROVE  RoundInv'
<1>1. RoundSound(r) /\ RowSound(r) /\ round[r] = "continue"
  BY DEF ContinueAsNew, Inv, IInv, RoundInv, ChainInv, RowShape
<1>2. plan[r] = "continue" /\ Told(r) /\ run[r].state \notin {"none", "continued"}
  BY <1>1, LiveRow DEF RoundSound, RoundShape, PastIsTold, Past
<1>3. CASE Quiet /\ (~IsOpen(r) \/ run[r].control # "run") /\ \E at \in {"raise", "return"} : Go(r, at)
  <2>1. PICK at \in {"raise", "return"} : Go(r, at) BY <1>3
  <2>2. run[r] \in RunRow BY DEF Inv, TypeOK
  <2>3. Excused(r)
    <3>1. CASE run[r].control # "run" BY <1>1, <3>1 DEF RowSound, Excused
    <3>2. CASE ~IsOpen(r)
      <4>1. run[r].state \in Ends BY <1>2, <2>2, <3>2 DEF RunRow, IsOpen
      <4> QED BY <1>1, <4>1 DEF RoundSound, AnswersExcused
    <3> QED BY <1>3, <3>1, <3>2
  <2>4. Allowed(r, at) BY <1>2, <2>3 DEF Allowed, Raises, Answers, Past
  <2> QED BY <1>3, <2>1, <2>4, GoSound DEF ContinueAsNew
<1>4. CASE Renewed(r) /\ Go(r, "stop")
  <2>1. RunTypes BY DEF Inv, TypeOK, RunTypes
  <2>2. Sticks BY DEF Sticks, ContinueAsNew
  <2>3. run'[r].state = "continued"
    <3>1. run[r] \in RunRow BY <2>1 DEF RunTypes
    <3>2. run'[r] = [run[r] EXCEPT !.state = "continued"] BY <1>4, <2>1, RenewedRows
    <3> QED BY <3>1, <3>2 DEF RunRow
  <2>4. round'[r] = "stop" /\ \A q \in Runs : q # r => round'[q] = round[q]
    BY <1>4 DEF Go, Inv, TypeOK
  <2>5. UNCHANGED <<plan, receipt, stop>> BY DEF ContinueAsNew
  <2>6. RoundSound(r)'
    <3>1. Keeps(r) BY StepKeeps
    <3>2. RoundShape(r)'
      BY <1>1, <1>2, <2>3, <2>4, <2>5, <3>1 DEF RoundSound, RoundShape, Raises, Terminal, Keeps
    <3>3. Excused(r) => Excused(r)' BY <2>5, <3>1 DEF Excused, Keeps
    <3>4. AnswersExcused(r)'
      BY <1>1, <2>3, <2>4, <2>5, <3>3 DEF RoundSound, AnswersExcused, Answers, Raises, Ends
    <3>5. PastIsTold(r)' BY <1>2, <2>2, ToldSticks DEF PastIsTold
    <3> QED BY <2>3, <3>2, <3>4, <3>5 DEF RoundSound
  <2>7. ASSUME NEW q \in Runs, q # r PROVE RoundSound(q)'
    <3>1. Keeps(q) BY StepKeeps
    <3>2. RoundSound(q) /\ run[q] \in RunRow BY DEF Inv, IInv, RoundInv, TypeOK
    <3>3. Fresh(q)
      BY <1>4, <2>1, <2>7, RenewedRows DEF Fresh, Accepted, Unaccepted, Ends
    <3> QED BY <2>2, <2>4, <2>5, <2>7, <3>1, <3>2, <3>3, RowChange
  <2> QED BY <2>6, <2>7 DEF RoundInv
<1> QED
  <2>1. \/ Renewed(r) /\ Go(r, "stop")
        \/ Quiet /\ (~IsOpen(r) \/ run[r].control # "run") /\ \E at \in {"raise", "return"} : Go(r, at)
    <3>1. r[2] < Generations
      BY <1>2, <1>1, PlansAssumption DEF RoundSound, RoundShape
    <3>2. NextOf(r) \in Runs BY <3>1, BoundAssumption DEF NextOf, Runs
    <3> QED BY <3>2 DEF ContinueAsNew, Renewed, Quiet
  <2> QED BY <1>3, <1>4, <2>1

LEMMA CommandSound ==
  ASSUME Inv, Next, NEW r \in Runs, Command(r)
  PROVE  RoundInv'
<1>1. RoundSound(r) BY DEF Inv, IInv, RoundInv
<1>2. CASE Gate(r) BY <1>2, GateSound
<1>3. CASE ContinueAsNew(r) BY <1>3, ContinueSound
<1>4. CASE ~ContinueAsNew(r) /\ ~Gate(r)
  <2>1. Quiet BY <1>4, CommandWrites
  <2>2. CASE Running(r)
    <3>1. run[r].state \notin {"none", "continued"} BY <2>2, LiveRow DEF Running
    <3>2. PICK at : /\ Go(r, at)
                    /\ at = "call" \/ (Children(r) = {} /\ at = Planned(r))
      BY <2>2 DEF Running
    <3>3. CASE at = "call"
      <4>1. Allowed(r, at) BY <3>1, <3>3 DEF Allowed, Raises, Answers, Past
      <4> QED BY <2>1, <2>2, <3>2, <4>1, GoSound DEF Running
    <3>4. CASE Children(r) = {} /\ at = Planned(r)
      <4>1. Told(r) BY <3>4 DEF Told, Children
      <4>2. Allowed(r, at) BY <3>1, <3>4, <4>1, PlannedAllowed
      <4> QED BY <2>1, <2>2, <3>2, <4>2, GoSound DEF Running
    <3> QED BY <3>2, <3>3, <3>4
  <2>3. CASE BeginCommand(r)
    <3>1. run[r].state \notin {"none", "continued"} BY <2>3, LiveRow DEF BeginCommand
    <3>2. Allowed(r, "link") BY <3>1 DEF Allowed, Raises, Answers, Past
    <3> QED BY <2>1, <2>3, <3>2, GoSound DEF BeginCommand
  <2>4. CASE LinkChild(r)
    <3>1. run[r].state \notin {"none", "continued"} BY <2>4, LiveRow DEF LinkChild
    <3>2. PICK c \in Children(r) : Go(r, IF c \in Awaited THEN "await" ELSE "finish")
      BY <2>4 DEF LinkChild
    <3>3. CASE c \in Awaited
      <4>1. Allowed(r, "await") BY <3>1 DEF Allowed, Raises, Answers, Past
      <4> QED BY <2>1, <2>4, <3>2, <3>3, <4>1, GoSound DEF LinkChild
    <3>4. CASE c \notin Awaited
      <4>1. Told(r)
        BY <3>2, <3>4, ChildAssumption, CallerAssumption DEF Told, Children
      <4>2. Allowed(r, "finish") BY <3>1, <4>1 DEF Allowed, Raises, Answers, Past
      <4> QED BY <2>1, <2>4, <3>2, <3>4, <4>2, GoSound DEF LinkChild
    <3> QED BY <3>3, <3>4
  <2>5. CASE AwaitChild(r)
    <3>1. run[r].state \notin {"none", "continued"} BY <2>5, LiveRow DEF AwaitChild
    <3>2. PICK c \in Children(r) : Go(r, IF told[c] = None THEN "parked" ELSE "finish")
      BY <2>5 DEF AwaitChild
    <3>3. CASE told[c] = None
      <4>1. Allowed(r, "parked") BY <3>1 DEF Allowed, Raises, Answers, Past
      <4> QED BY <2>1, <2>5, <3>2, <3>3, <4>1, GoSound DEF AwaitChild
    <3>4. CASE told[c] # None
      <4>1. Told(r)
        BY <3>2, <3>4, ChildAssumption, CallerAssumption DEF Told, Children
      <4>2. Allowed(r, "finish") BY <3>1, <4>1 DEF Allowed, Raises, Answers, Past
      <4> QED BY <2>1, <2>5, <3>2, <3>4, <4>2, GoSound DEF AwaitChild
    <3> QED BY <3>3, <3>4
  <2>6. CASE FinishCommand(r)
    <3>1. run[r].state \notin {"none", "continued"} BY <2>6, LiveRow DEF FinishCommand
    <3>2. Told(r) BY <1>1, <2>6 DEF FinishCommand, RoundSound, PastIsTold, Past
    <3>3. Allowed(r, Planned(r)) BY <3>1, <3>2, PlannedAllowed
    <3> QED BY <2>1, <2>6, <3>3, GoSound DEF FinishCommand
  <2>7. CASE Enqueue(r)
    <3> DEFINE at == IF round[r] = "answer" THEN "returned" ELSE "raised"
    <3>1. run[r].state \notin {"none", "continued"} /\ round[r] \in {"answer", "raise"}
      BY <2>7, LiveRow DEF Enqueue
    <3>2. Excused(r) /\ Told(r)
      BY <1>1, <3>1 DEF RoundSound, AnswersExcused, PastIsTold, Past, Answers, Raises
    <3>3. round[r] = "raise" => plan[r] \in {"failed", "continue"}
      BY <1>1 DEF RoundSound, RoundShape, Raises
    <3>4. Allowed(r, at) BY <3>1, <3>2, <3>3 DEF Allowed, Raises, Answers, Past
    <3>5. /\ receipt[r].exit # None => receipt'[r].exit = receipt[r].exit
          /\ receipt[r].exit = None =>
               receipt'[r].exit = IF round[r] = "answer" THEN "completed" ELSE "failed"
          /\ \A q \in Runs : q # r => receipt'[q] = receipt[q]
      BY <2>7 DEF Enqueue, Inv, TypeOK
    <3>6. round'[r] = at /\ \A q \in Runs : q # r => round'[q] = round[q]
      BY <2>7 DEF Enqueue, Go, Inv, TypeOK
    <3>7. Sticks BY <2>7 DEF Enqueue, Sticks
    <3>8. Keeps(r) BY StepKeeps
    <3>9. Fresh(r) BY <2>1, QuietFresh DEF Inv, TypeOK, RunTypes
    <3>10. RoundSound(r)'
      <4>1. \/ receipt'[r].exit = receipt[r].exit
            \/ /\ Excused(r) /\ Told(r)
               /\ receipt'[r].exit = "failed" => plan[r] \in {"failed", "continue"}
        BY <3>1, <3>2, <3>3, <3>5
      <4>2. UNCHANGED <<plan, stop[r]>> BY <2>7 DEF Enqueue
      <4> HIDE DEF at
      <4> QED BY <1>1, <3>4, <3>6, <3>7, <3>8, <3>9, <4>1, <4>2, RoundChange
    <3> QED BY <2>1, <2>7, <3>5, <3>6, <3>7, <3>10, OthersSound DEF Enqueue
  <2> QED BY <1>4, <2>2, <2>3, <2>4, <2>5, <2>6, <2>7 DEF Command
<1> QED BY <1>2, <1>3, <1>4

LEMMA EngineSound ==
  ASSUME Inv, Next, NEW r \in Runs, Engine(r) \/ CrashRound(r)
  PROVE  RoundInv'
<1>1. RoundSound(r) BY DEF Inv, IInv, RoundInv
<1>2. Quiet /\ UNCHANGED <<plan, receipt, stop, told>> BY EngineWrites DEF Quiet
<1>3. PICK at : /\ Go(r, at)
                /\ \/ round[r] = "returned" /\ at = "completed"
                   \/ round[r] = "raised" /\ at = "failed"
                   \/ round[r] = "suspend" /\ at = "paused"
                   \/ round[r] = "stop" /\ at = "interrupted"
                   \/ stop[r] /\ round[r] \in Live \cup Suspended /\ at = "interrupted"
                   \/ round[r] \in Live \cup Suspended /\ at = "start"
  BY DEF Engine, Exit, Interrupted, Replay, CrashRound
<1>4. round[r] # "absent" BY <1>3 DEF Live, Suspended
<1>5. run[r].state # "none" BY <1>1, <1>4 DEF RoundSound, RoundShape
<1>6. run[r].state = "continued" => round[r] \in {"start", "stop", "interrupted"}
  BY <1>1 DEF RoundSound, RoundShape
<1>7. CASE at \in {"completed", "failed"}
  <2>1. Excused(r) /\ Told(r)
    BY <1>1, <1>3, <1>7 DEF RoundSound, AnswersExcused, PastIsTold, Past, Answers, Raises
  <2>2. at = "failed" => plan[r] \in {"failed", "continue"}
    BY <1>1, <1>3, <1>7 DEF RoundSound, RoundShape, Raises
  <2>3. Allowed(r, at)
    BY <1>3, <1>5, <1>6, <1>7, <2>1, <2>2 DEF Allowed, Raises, Answers, Past
  <2> QED BY <1>2, <1>3, <2>3, GoSound
<1>8. CASE at \in {"paused", "start"}
  <2>1. Allowed(r, at) BY <1>3, <1>5, <1>6, <1>8 DEF Allowed, Raises, Answers, Past
  <2> QED BY <1>2, <1>3, <2>1, GoSound
<1>9. CASE at = "interrupted"
  <2>1. run[r].control = "cancel" \/ Terminal(r)
    BY <1>1, <1>3, <1>9 DEF RoundSound, RoundShape
  <2>2. Allowed(r, at) BY <1>5, <1>9, <2>1 DEF Allowed, Raises, Answers, Past
  <2> QED BY <1>2, <1>3, <2>2, GoSound
<1> QED BY <1>3, <1>7, <1>8, <1>9

LEMMA ApplySound ==
  ASSUME Inv, Next, NEW d \in Dispatchers, Apply(d)
  PROVE  RoundInv'
<1> DEFINE r == job[d].run
<1>1. /\ r \in Runs /\ run[r].state # "none"
      /\ job[d].row.control = "cancel" => run[r].control = "cancel"
  BY JobTypes DEF Apply, At, Inv, IInv, JobInv, JobSound
<1>2. Quiet /\ Sticks /\ UNCHANGED <<plan, receipt, told>> BY DEF Apply, Quiet, Sticks
<1>3. CASE round' = round
  <2>1. \A q \in Runs : stop'[q] => stop[q] \/ run[q].control = "cancel"
    <3>1. CASE stop' = stop BY <3>1
    <3>2. CASE Interrupt(r) /\ job[d].row.control = "cancel"
      <4>1. \A q \in Runs : q # r => stop'[q] = stop[q] BY <3>2 DEF Interrupt, Inv, TypeOK
      <4> QED BY <1>1, <3>2, <4>1
    <3> QED BY <3>1, <3>2 DEF Apply
  <2> QED BY <1>2, <1>3, <2>1, StaySound
<1>4. CASE round' # round
  <2>1. Execute(r) /\ UNCHANGED stop BY <1>4 DEF Apply
  <2>2. round[r] = "absent" /\ Go(r, "start")
    BY <1>1, <1>4, <2>1 DEF Execute, Go, Inv, TypeOK
  <2>3. run[r].state # "continued"
    BY <1>1, <2>2 DEF Inv, IInv, RoundInv, RoundSound, RoundShape
  <2>4. Allowed(r, "start") BY <1>1, <2>3 DEF Allowed, Raises, Answers, Past
  <2> QED BY <1>1, <1>2, <2>1, <2>2, <2>4, GoSound
<1> QED BY <1>3, <1>4

LEMMA RoundStep == ASSUME Inv, Next PROVE RoundInv'
<1>1. ASSUME NEW d \in Dispatchers, Continued(d) PROVE RoundInv'
  <2>1. CASE Apply(d) BY <2>1, ApplySound
  <2>2. CASE ~Apply(d)
    <3>1. Quiet \/ Closing BY <1>1, ContinuedWrites
    <3>2. UNCHANGED <<plan, round, stop>>
      BY <1>1, <2>2 DEF Continued, Mark, CompleteCancelled, ReconciliationDelivered,
        ReconcileSweep, TellParent, ChildDelivered, CloseChildren
    <3>3. \A r \in Runs : receipt'[r].exit = receipt[r].exit
      <4>1. CASE receipt' = receipt BY <4>1
      <4>2. CASE ReconciliationDelivered(d) BY <4>2 DEF ReconciliationDelivered, Inv, TypeOK
      <4> QED BY <1>1, <2>2, <4>1, <4>2 DEF Continued, Mark, CompleteCancelled,
            ReconcileSweep, TellParent, ChildDelivered, CloseChildren
    <3>4. Sticks
      <4>1. CASE told' = told BY <4>1 DEF Sticks
      <4>2. CASE TellParent(d) BY <4>2 DEF TellParent, Sticks, Inv, TypeOK
      <4> QED BY <1>1, <2>2, <4>1, <4>2 DEF Continued, Mark, CompleteCancelled,
            ReconciliationDelivered, ReconcileSweep, ChildDelivered, CloseChildren
    <3> QED BY <3>1, <3>2, <3>3, <3>4, StaySound
  <2> QED BY <2>1, <2>2
<1>2. ASSUME NEW d \in Dispatchers,
             Fetch(d) \/ Settle(d) \/ Sweep(d) \/ FetchReady(d) \/ FollowContinuation(d) \/ CrashDispatcher(d)
      PROVE  RoundInv'
  BY <1>2, FetchWrites, StaySound DEF Sticks
<1>3. ASSUME (\E c \in Chains : Accept(c)) \/ (\E r \in Runs, a \in Controls : Control(r, a))
      PROVE  RoundInv'
  BY <1>3, ClientWrites, StaySound DEF Sticks
<1> QED BY <1>1, <1>2, <1>3, CommandSound, EngineSound DEF Next

-----------------------------------------------------------------------------
(* What dispatchers have read, and the links of children. *)

LEMMA EndedStays ==
  ASSUME NEW c \in Chains, \A r \in Runs : Keeps(r), Ended(c)
  PROVE  Ended(c)'
BY DEF Ended, Keeps

LEMMA JobKept ==
  ASSUME Inv, Next, NEW d \in Dispatchers, job'[d] = job[d]
  PROVE  JobSound(d)'
<1>1. JobSound(d) /\ TypeOK BY DEF Inv, IInv, JobInv
<1>2. \A r \in Runs : Keeps(r) BY StepKeeps
<1>3. job[d].at \in {"apply", "cancel", "mark", "sweep"} =>
        /\ run'[job[d].run].state # "none"
        /\ job[d].row.control = "cancel" => run'[job[d].run].control = "cancel"
  BY <1>1, <1>2, JobTypes DEF JobSound, Keeps
<1>4. ASSUME job[d].at = "tell"
      PROVE  \E r \in Runs : r[1] = job[d].child /\ run'[r].state \in Ends
  <2>1. job[d].child \in Chains /\ Ended(job[d].child) BY <1>1, <1>4, JobTypes DEF JobSound
  <2> QED BY <1>2, <2>1 DEF Ended, Keeps
<1>5. job[d].at = "close" => run'[First(job[d].child)].state # "none"
  BY <1>1, <1>2, JobTypes, FirstType DEF JobSound, Keeps
<1>6. job[d].at = "cancel" => job[d].row.control = "cancel" BY <1>1 DEF JobSound
<1> QED BY <1>3, <1>4, <1>5, <1>6 DEF JobSound, Ended, First

LEMMA IdleSound == ASSUME NEW d \in Dispatchers, job'[d] = Idle PROVE JobSound(d)'
BY DEF JobSound, Idle

\* A dispatcher takes something up, or goes on with what it has read.
LEMMA WorkSound ==
  ASSUME Inv, Next, NEW d \in Dispatchers, NEW j \in Jobs, Work(d, j), JobSound(d)'
  PROVE  job' \in [Dispatchers -> Jobs] /\ JobInv'
<1>1. job \in [Dispatchers -> Jobs] BY DEF Inv, TypeOK
<1>2. \A e \in Dispatchers : e # d => job'[e] = job[e] BY <1>1 DEF Work
<1>3. job' \in [Dispatchers -> Jobs] BY <1>1 DEF Work
<1> QED BY <1>2, <1>3, JobKept DEF JobInv

LEMMA WorkIdle ==
  ASSUME Inv, Next, NEW d \in Dispatchers, Work(d, Idle)
  PROVE  job' \in [Dispatchers -> Jobs] /\ JobInv'
<1>1. job'[d] = Idle BY DEF Work, Inv, TypeOK
<1>2. Idle \in Jobs BY DEF Jobs
<1> QED BY <1>1, <1>2, IdleSound, WorkSound

LEMMA FetchJobs ==
  ASSUME Inv, Next, NEW d \in Dispatchers,
         Fetch(d) \/ Settle(d) \/ Sweep(d) \/ FetchReady(d) \/ FollowContinuation(d) \/ CrashDispatcher(d)
  PROVE  job' \in [Dispatchers -> Jobs] /\ JobInv'
<1>1. \A j : Work(d, j) => job'[d] = j BY DEF Work, Inv, TypeOK
<1>2. \A r \in Runs : Keeps(r) BY StepKeeps
<1>3. run \in [Runs -> RunRow] BY DEF Inv, TypeOK
<1>4. CASE Fetch(d)
  <2>1. PICK r \in PendingDispatch : Work(d, [at |-> "apply", run |-> r, row |-> run[r]])
    BY <1>4 DEF Fetch
  <2>2. r \in Runs /\ run[r].state # "none" BY DEF PendingDispatch, IsOpen, Open
  <2> DEFINE j == [at |-> "apply", run |-> r, row |-> run[r]]
  <2>3. j \in Jobs BY <1>3, <2>2 DEF Jobs
  <2>4. JobSound(d)' BY <1>1, <1>2, <2>1, <2>2 DEF JobSound, Keeps
  <2> QED BY <2>1, <2>3, <2>4, WorkSound
<1>5. CASE Settle(d)
  <2>1. PICK r \in Runs : Work(d, [at |-> "settled", run |-> r]) BY <1>5 DEF Settle
  <2>2. [at |-> "settled", run |-> r] \in Jobs BY DEF Jobs
  <2>3. JobSound(d)' BY <1>1, <2>1 DEF JobSound
  <2> QED BY <2>1, <2>2, <2>3, WorkSound
<1>6. CASE Sweep(d)
  <2>1. PICK r \in Runs : IsOpen(r) /\ Work(d, [at |-> "sweep", run |-> r, row |-> run[r]])
    BY <1>6 DEF Sweep
  <2>2. run[r].state # "none" BY <2>1 DEF IsOpen, Open
  <2> DEFINE j == [at |-> "sweep", run |-> r, row |-> run[r]]
  <2>3. j \in Jobs BY <1>3, <2>2 DEF Jobs
  <2>4. JobSound(d)' BY <1>1, <1>2, <2>1, <2>2 DEF JobSound, Keeps
  <2> QED BY <2>1, <2>3, <2>4, WorkSound
<1>7. CASE FetchReady(d)
  <2>1. PICK c \in Chains : Ready(c) /\ Work(d, [at |-> "tell", child |-> c])
    BY <1>7 DEF FetchReady
  <2>2. run[First(c)].state # "none" BY <2>1 DEF Ready, Terminal, Ends
  <2>3. Last(c) \in Runs /\ Last(c)[1] = c BY <2>2, LastType DEF Inv, IInv
  <2>4. Ended(c) BY <2>1, <2>3 DEF Ended, Ready
  <2>5. Ended(c)' BY <1>2, <2>4, EndedStays
  <2>6. [at |-> "tell", child |-> c] \in Jobs BY DEF Jobs
  <2>7. JobSound(d)'
    <3>1. job'[d].at = "tell" /\ job'[d].child = c BY <1>1, <2>1
    <3> QED BY <3>1, <2>5 DEF JobSound, Ended
  <2> QED BY <2>1, <2>6, <2>7, WorkSound
<1>8. CASE FollowContinuation(d)
  <2>1. PICK c \in Chains : Orphaned(c) /\ Work(d, [at |-> "close", child |-> c, owner |-> Last(c)])
    BY <1>8 DEF FollowContinuation
  <2>2. run[First(c)].state # "none" BY <2>1 DEF Orphaned, Inv, IInv, LinkInv, LinkSound
  <2>3. Last(c) \in Runs BY <2>2, LastType DEF Inv, IInv
  <2>4. [at |-> "close", child |-> c, owner |-> Last(c)] \in Jobs BY <2>3 DEF Jobs
  <2>5. JobSound(d)'
    <3>1. job'[d].at = "close" /\ job'[d].child = c BY <1>1, <2>1
    <3> QED BY <3>1, <1>2, <2>2, FirstType DEF JobSound, Keeps, First
  <2> QED BY <2>1, <2>4, <2>5, WorkSound
<1>9. CASE CrashDispatcher(d) BY <1>9, WorkIdle DEF CrashDispatcher
<1> QED BY <1>4, <1>5, <1>6, <1>7, <1>8, <1>9

LEMMA ContinuedJobs ==
  ASSUME Inv, Next, NEW d \in Dispatchers, Continued(d)
  PROVE  job' \in [Dispatchers -> Jobs] /\ JobInv'
<1>1. \A j : Work(d, j) => job'[d] = j BY DEF Work, Inv, TypeOK
<1>2. \A r \in Runs : Keeps(r) BY StepKeeps
<1>3. JobSound(d) /\ TypeOK BY DEF Inv, IInv, JobInv
<1>4. CASE Apply(d)
  <2>1. PICK at \in {"mark", "cancel"} :
          /\ Work(d, [job[d] EXCEPT !.at = at])
          /\ at = "cancel" => job[d].row.control = "cancel"
    BY <1>4 DEF Apply
  <2> DEFINE j == [job[d] EXCEPT !.at = at]
  <2>2. /\ job[d] \in [at : {"apply", "cancel", "mark", "sweep"}, run : Runs, row : RunRow]
        /\ job[d].at = "apply"
    BY <1>3, <1>4, JobTypes DEF Apply, At
  <2>3. j \in [at : {"apply", "cancel", "mark", "sweep"}, run : Runs, row : RunRow]
        /\ j.at = at /\ j.run = job[d].run /\ j.row = job[d].row
    BY <2>2
  <2>4. j \in Jobs BY <2>3 DEF Jobs
  <2>5. job'[d] = j BY <1>1, <2>1
  <2>6. JobSound(d)'
    BY <1>2, <1>3, <2>1, <2>2, <2>3, <2>5 DEF JobSound, Keeps
  <2> HIDE DEF j
  <2> QED BY <2>1, <2>4, <2>6, WorkSound DEF j
<1>5. CASE TellParent(d)
  <2> DEFINE j == [job[d] EXCEPT !.at = "delivered"]
  <2>1. job[d] \in [at : {"tell", "delivered"}, child : Chains]
    BY <1>3, <1>5, JobTypes DEF TellParent, At
  <2>2. j \in [at : {"tell", "delivered"}, child : Chains] /\ j.at = "delivered" BY <2>1
  <2>3. j \in Jobs BY <2>2 DEF Jobs
  <2>4. job'[d] = j /\ Work(d, j) BY <1>1, <1>5 DEF TellParent
  <2>5. JobSound(d)' BY <2>2, <2>4 DEF JobSound
  <2> HIDE DEF j
  <2> QED BY <2>3, <2>4, <2>5, WorkSound
<1>6. CASE ~Apply(d) /\ ~TellParent(d)
  <2>1. Work(d, Idle)
    BY <1>6 DEF Continued, Mark, CompleteCancelled, ReconciliationDelivered, ReconcileSweep,
      ChildDelivered, CloseChildren
  <2> QED BY <2>1, WorkIdle
<1> QED BY <1>4, <1>5, <1>6

LEMMA JobStep == ASSUME Inv, Next PROVE job' \in [Dispatchers -> Jobs] /\ JobInv'
<1>1. CASE job' = job
  <2>1. job \in [Dispatchers -> Jobs] BY DEF Inv, TypeOK
  <2> QED BY <1>1, <2>1, JobKept DEF JobInv
<1>2. ASSUME NEW r \in Runs, Command(r) PROVE job' = job
  BY <1>2 DEF Command, Gate, Running, BeginCommand, LinkChild, AwaitChild, FinishCommand,
    ContinueAsNew, Enqueue
<1> QED BY <1>1, <1>2, FetchJobs, ContinuedJobs, EngineWrites, ClientWrites DEF Next

LEMMA LinkKept ==
  ASSUME Inv, Next, NEW c \in Chains,
         link'[c].linked \/ link'[c].closed =>
           link[c].linked \/ link[c].closed \/ run'[First(c)].state # "none",
         told'[c] = told[c] \/ (told[c] = None /\ \E r \in Runs : r[1] = c /\ run'[r].state = told'[c])
  PROVE  LinkSound(c)'
<1>1. LinkSound(c) /\ told[c] \in Ends \cup {None} BY DEF Inv, IInv, LinkInv, TypeOK
<1>2. \A r \in Runs : Keeps(r) BY StepKeeps
<1>3. link'[c].linked \/ link'[c].closed => run'[First(c)].state # "none"
  BY <1>1, <1>2, FirstType DEF LinkSound, Keeps
<1>4. told'[c] # None => \E r \in Runs : r[1] = c /\ run'[r].state = told'[c]
  BY <1>1, <1>2 DEF LinkSound, Keeps
<1> QED BY <1>3, <1>4 DEF LinkSound, First

LEMMA ToldEnd ==
  ASSUME Inv, Next, NEW d \in Dispatchers, TellParent(d)
  PROVE  /\ told' \in [Chains -> Ends \cup {None}]
         /\ \A c \in Chains :
              told'[c] = told[c] \/ (told[c] = None /\ \E r \in Runs : r[1] = c /\ run'[r].state = told'[c])
<1> DEFINE c == job[d].child
<1>1. c \in Chains /\ Ended(c) BY JobTypes DEF TellParent, At, Inv, IInv, JobInv, JobSound
<1>2. PICK r \in Runs : r[1] = c /\ run[r].state \in Ends BY <1>1 DEF Ended
<1>3. Last(c) = r BY <1>2, LatestIsLast DEF Latest, Ends, Inv, IInv, ChainInv
<1>4. run' = run BY DEF TellParent
<1>5. told' = [told EXCEPT ![c] = IF @ = None THEN run[r].state ELSE @]
  BY <1>3 DEF TellParent
<1>6. told \in [Chains -> Ends \cup {None}] BY DEF Inv, TypeOK
<1> QED BY <1>1, <1>2, <1>4, <1>5, <1>6

LEMMA LinkStep ==
  ASSUME Inv, Next
  PROVE  /\ LinkInv'
         /\ link' \in [Chains -> [linked : BOOLEAN, delivered : BOOLEAN, closed : BOOLEAN]]
         /\ told' \in [Chains -> Ends \cup {None}]
<1> DEFINE LinkTypes == link \in [Chains -> [linked : BOOLEAN, delivered : BOOLEAN, closed : BOOLEAN]]
<1>0. LinkTypes /\ told \in [Chains -> Ends \cup {None}] BY DEF Inv, TypeOK
<1>1. CASE UNCHANGED <<link, told>>
  BY <1>0, <1>1, LinkKept DEF LinkInv
<1>2. ASSUME NEW r \in Runs, LinkChild(r)
      PROVE  LinkInv' /\ LinkTypes' /\ told' = told
  <2>1. PICK c \in Children(r) :
          /\ run' = IF run[First(c)].state = "none"
                    THEN [run EXCEPT ![First(c)] = Accepted("accepted")] ELSE run
          /\ link' = [link EXCEPT ![c].linked = TRUE]
    BY <1>2 DEF LinkChild
  <2>2. c \in Chains /\ First(c) \in Runs BY FirstType DEF Children
  <2>3. run'[First(c)].state # "none"
    BY <2>1, <2>2 DEF Accepted, Unaccepted, Inv, TypeOK
  <2>4. LinkTypes' /\ \A e \in Chains : e # c => link'[e] = link[e]
    BY <1>0, <2>1, <2>2
  <2>5. told' = told BY <1>2 DEF LinkChild
  <2> HIDE DEF LinkTypes
  <2>6. ASSUME NEW e \in Chains PROVE LinkSound(e)'
    BY <2>3, <2>4, <2>5, LinkKept
  <2> QED BY <2>4, <2>5, <2>6 DEF LinkInv
<1>3. ASSUME NEW d \in Dispatchers, TellParent(d) PROVE LinkInv' /\ LinkTypes'
  <2>1. link' = link BY <1>3 DEF TellParent
  <2> QED BY <1>0, <1>3, <2>1, ToldEnd, LinkKept DEF LinkInv
<1>4. ASSUME NEW d \in Dispatchers, ChildDelivered(d) PROVE LinkInv' /\ LinkTypes' /\ told' = told
  <2>1. /\ LinkTypes'
        /\ \A e \in Chains : link'[e].linked = link[e].linked /\ link'[e].closed = link[e].closed
    BY <1>0, <1>4 DEF ChildDelivered
  <2>2. told' = told BY <1>4 DEF ChildDelivered
  <2> QED BY <2>1, <2>2, LinkKept DEF LinkInv
<1>5. ASSUME NEW d \in Dispatchers, CloseChildren(d) PROVE LinkInv' /\ LinkTypes' /\ told' = told
  <2> DEFINE c == job[d].child
  <2>1. c \in Chains /\ run[First(c)].state # "none" /\ First(c) \in Runs
    BY <1>5, JobTypes, FirstType DEF CloseChildren, At, Inv, IInv, JobInv, JobSound
  <2>2. run'[First(c)].state # "none" BY <2>1, StepKeeps DEF Keeps
  <2>3. link' = [link EXCEPT ![c].closed = TRUE] /\ told' = told
    BY <1>5 DEF CloseChildren, CloseChild
  <2>4. LinkTypes' /\ \A e \in Chains : e # c => link'[e] = link[e]
    BY <1>0, <2>1, <2>3
  <2> HIDE DEF LinkTypes, c
  <2>5. ASSUME NEW e \in Chains PROVE LinkSound(e)'
    BY <2>2, <2>3, <2>4, LinkKept
  <2> QED BY <2>3, <2>4, <2>5 DEF LinkInv
<1>6. ASSUME NEW r \in Runs, Command(r), ~LinkChild(r) PROVE UNCHANGED <<link, told>>
  BY <1>6 DEF Command, Gate, Running, BeginCommand, AwaitChild, FinishCommand, ContinueAsNew, Enqueue
<1>7. ASSUME NEW d \in Dispatchers, Continued(d), ~TellParent(d), ~ChildDelivered(d), ~CloseChildren(d)
      PROVE  UNCHANGED <<link, told>>
  BY <1>7 DEF Continued, Apply, Mark, CompleteCancelled, ReconciliationDelivered, ReconcileSweep
<1>8. ASSUME NEW d \in Dispatchers, TellParent(d) PROVE told' \in [Chains -> Ends \cup {None}]
  BY <1>8, ToldEnd
<1>9. \/ UNCHANGED <<link, told>>
      \/ \E r \in Runs : LinkChild(r)
      \/ \E d \in Dispatchers : TellParent(d) \/ ChildDelivered(d) \/ CloseChildren(d)
  BY <1>6, <1>7, EngineWrites, ClientWrites, FetchWrites DEF Next
<1> QED BY <1>0, <1>1, <1>2, <1>3, <1>4, <1>5, <1>8, <1>9

-----------------------------------------------------------------------------
(* Types. *)

LEMMA CommandTypes ==
  ASSUME Inv, NEW r \in Runs, Command(r) \/ Engine(r) \/ CrashRound(r)
  PROVE  /\ receipt' \in [Runs -> [exit : {None, "completed", "failed"}, delivered : BOOLEAN]]
         /\ round' \in [Runs -> {"absent"} \cup Live \cup Suspended \cup Exits]
         /\ wake' \in [Runs -> BOOLEAN] /\ stop' \in [Runs -> BOOLEAN]
         /\ UNCHANGED <<plan, slots>> /\ crashes' \in 0..MaxCrashes
<1> DEFINE Places == {"absent"} \cup Live \cup Suspended \cup Exits
<1>1. /\ receipt \in [Runs -> [exit : {None, "completed", "failed"}, delivered : BOOLEAN]]
      /\ round \in [Runs -> Places] /\ wake \in [Runs -> BOOLEAN] /\ stop \in [Runs -> BOOLEAN]
      /\ crashes \in 0..MaxCrashes /\ MaxCrashes \in Nat
  BY BoundAssumption DEF Inv, TypeOK
<1>2. {"stop", "suspend", "begin", "schedule", "continue", "answer", "call", "next", "return", "raise",
       "link", "await", "finish", "parked", "returned", "raised", "completed", "failed", "paused",
       "interrupted", "start"} \subseteq Places
  BY DEF Live, Suspended, Exits
<1>3. Planned(r) \in {"next", "return", "raise"} BY DEF Planned
<1>4. \E at \in Places : Go(r, at)
  <2> HIDE DEF Places
  <2>1. CASE Gate(r)
    <3>1. round[r] \in {"start", "call", "next", "return"} BY <2>1 DEF Gate, Gated
    <3>2. Gated[round[r]] \in {"begin", "schedule", "continue", "answer"} BY <3>1 DEF Gated
    <3> QED BY <1>2, <2>1, <3>2 DEF Gate
  <2>2. CASE Running(r) BY <1>2, <1>3, <2>2 DEF Running
  <2>3. CASE BeginCommand(r) BY <1>2, <2>3 DEF BeginCommand
  <2>4. CASE LinkChild(r) BY <1>2, <2>4 DEF LinkChild
  <2>5. CASE AwaitChild(r) BY <1>2, <2>5 DEF AwaitChild
  <2>6. CASE FinishCommand(r) BY <1>2, <1>3, <2>6 DEF FinishCommand
  <2>7. CASE ContinueAsNew(r) BY <1>2, <2>7 DEF ContinueAsNew
  <2>8. CASE Enqueue(r) BY <1>2, <2>8 DEF Enqueue
  <2>9. CASE Engine(r) \/ CrashRound(r) BY <1>2, <2>9 DEF Engine, Exit, Interrupted, Replay, CrashRound
  <2> QED BY <2>1, <2>2, <2>3, <2>4, <2>5, <2>6, <2>7, <2>8, <2>9 DEF Command
<1>5. round' \in [Runs -> Places]
  BY <1>1, <1>4 DEF Go
<1>6. receipt' \in [Runs -> [exit : {None, "completed", "failed"}, delivered : BOOLEAN]]
  <2>1. CASE Enqueue(r) BY <1>1, <2>1 DEF Enqueue
  <2>2. CASE receipt' = receipt BY <1>1, <2>2
  <2> QED BY <2>1, <2>2, EngineWrites DEF Command, Gate, Running, BeginCommand, LinkChild,
        AwaitChild, FinishCommand, ContinueAsNew
<1>7. wake' = wake \/ wake' = [wake EXCEPT ![r] = FALSE]
  BY DEF Command, Gate, Running, BeginCommand, LinkChild, AwaitChild, FinishCommand, ContinueAsNew,
    Enqueue, Engine, Exit, Interrupted, Replay, CrashRound
<1>8. UNCHANGED <<plan, slots, stop>> /\ (crashes' = crashes \/ (crashes < MaxCrashes /\ crashes' = crashes + 1))
  BY DEF Command, Gate, Running, BeginCommand, LinkChild, AwaitChild, FinishCommand, ContinueAsNew,
    Enqueue, Engine, Exit, Interrupted, Replay, CrashRound
<1>9. crashes' \in 0..MaxCrashes BY <1>1, <1>8
<1>10. wake' \in [Runs -> BOOLEAN] BY <1>1, <1>7
<1>11. stop' \in [Runs -> BOOLEAN] BY <1>1, <1>8
<1> QED BY <1>5, <1>6, <1>8, <1>9, <1>10, <1>11

LEMMA DispatcherTypes ==
  ASSUME Inv, NEW d \in Dispatchers, Continued(d)
  PROVE  /\ receipt' \in [Runs -> [exit : {None, "completed", "failed"}, delivered : BOOLEAN]]
         /\ round' \in [Runs -> {"absent"} \cup Live \cup Suspended \cup Exits]
         /\ wake' \in [Runs -> BOOLEAN] /\ stop' \in [Runs -> BOOLEAN]
         /\ UNCHANGED <<plan, slots, crashes>>
<1>1. /\ receipt \in [Runs -> [exit : {None, "completed", "failed"}, delivered : BOOLEAN]]
      /\ round \in [Runs -> {"absent"} \cup Live \cup Suspended \cup Exits]
      /\ wake \in [Runs -> BOOLEAN] /\ stop \in [Runs -> BOOLEAN]
  BY DEF Inv, TypeOK
<1>2. CASE Apply(d)
  <2>1. UNCHANGED <<receipt, plan, slots, crashes>> BY <1>2 DEF Apply
  <2>2. \A r : Execute(r) => round' \in [Runs -> {"absent"} \cup Live \cup Suspended \cup Exits]
    BY <1>1 DEF Execute, Live
  <2>3. \A r : Resume(r) => wake' \in [Runs -> BOOLEAN]
    BY <1>1 DEF Resume
  <2>4. \A r : Interrupt(r) => stop' \in [Runs -> BOOLEAN]
    BY <1>1 DEF Interrupt
  <2>5. \/ Execute(job[d].run) /\ UNCHANGED <<wake, stop>>
        \/ Resume(job[d].run) /\ UNCHANGED <<round, stop>>
        \/ (Interrupt(job[d].run) \/ UNCHANGED stop) /\ UNCHANGED <<round, wake>>
    BY <1>2 DEF Apply
  <2> QED BY <1>1, <2>1, <2>2, <2>3, <2>4, <2>5
<1>3. CASE TellParent(d)
  <2>1. wake' \in [Runs -> BOOLEAN] BY <1>1, <1>3 DEF TellParent, Resume
  <2> QED BY <1>1, <1>3, <2>1 DEF TellParent
<1>4. CASE ReconciliationDelivered(d)
  BY <1>1, <1>4 DEF ReconciliationDelivered
<1> QED BY <1>1, <1>2, <1>3, <1>4 DEF Continued, Mark, CompleteCancelled, ReconcileSweep,
      ChildDelivered, CloseChildren

LEMMA TypeStep == ASSUME Inv, Next PROVE TypeOK'
<1> DEFINE Rest ==
      /\ receipt \in [Runs -> [exit : {None, "completed", "failed"}, delivered : BOOLEAN]]
      /\ plan \in [Runs -> Outcomes] /\ slots \in Slots
      /\ round \in [Runs -> {"absent"} \cup Live \cup Suspended \cup Exits]
      /\ wake \in [Runs -> BOOLEAN] /\ stop \in [Runs -> BOOLEAN]
      /\ crashes \in 0..MaxCrashes
<1>1. RunTypes' BY StepKeeps
<1>2. TypeOK /\ MaxCrashes \in Nat BY BoundAssumption DEF Inv
<1>3. Rest'
  <2>1. ASSUME NEW r \in Runs, Command(r) \/ Engine(r) \/ CrashRound(r) PROVE Rest'
    BY <1>2, <2>1, CommandTypes DEF TypeOK
  <2>2. ASSUME NEW d \in Dispatchers, Continued(d) PROVE Rest'
    BY <1>2, <2>2, DispatcherTypes DEF TypeOK
  <2>3. ASSUME NEW d \in Dispatchers,
               Fetch(d) \/ Settle(d) \/ Sweep(d) \/ FetchReady(d) \/ FollowContinuation(d) \/ CrashDispatcher(d)
        PROVE  Rest'
    <3>1. crashes' = crashes \/ (crashes < MaxCrashes /\ crashes' = crashes + 1)
      BY <2>3 DEF Fetch, Settle, Sweep, FetchReady, FollowContinuation, CrashDispatcher
    <3> QED BY <1>2, <2>3, <3>1, FetchWrites DEF TypeOK
  <2>4. ASSUME (\E c \in Chains : Accept(c)) \/ (\E r \in Runs, a \in Controls : Control(r, a))
        PROVE  Rest'
    BY <1>2, <2>4, ClientWrites DEF TypeOK
  <2> QED BY <2>1, <2>2, <2>3, <2>4 DEF Next
<1> QED BY <1>1, <1>2, <1>3, JobStep, LinkStep DEF TypeOK, RunTypes

-----------------------------------------------------------------------------
(* The invariant holds, and what it means. *)

LEMMA InvInit == ASSUME Init PROVE Inv
<1>1. \A r \in Runs : run[r] = Unaccepted /\ round[r] = "absent" /\ receipt[r].exit = None
  BY DEF Init
<1>2. \A c \in Chains : First(c) \in Runs BY FirstType
<1>3. TypeOK
  <2>1. Unaccepted \in RunRow BY DEF Unaccepted, RunRow
  <2>2. run \in [Runs -> RunRow] BY <2>1 DEF Init
  <2>3. job \in [Dispatchers -> Jobs] BY DEF Init, Jobs
  <2>4. crashes \in 0..MaxCrashes BY BoundAssumption DEF Init
  <2> QED BY <2>2, <2>3, <2>4 DEF Init, TypeOK
<1>4. ChainInv
  BY <1>1, <1>2 DEF ChainInv, InOrder, HasLatest, RowShape, RowSound, Unaccepted
<1>5. RoundInv
  <2> SUFFICES ASSUME NEW r \in Runs PROVE RoundSound(r)
    BY DEF RoundInv
  <2>1. plan[r] \in Plans[r] /\ ~stop[r] BY DEF Init
  <2>2. receipt[r].exit # "failed" BY <1>1, NullAssumption DEF Ends
  <2>3. RoundShape(r) BY <1>1, <2>1, <2>2 DEF RoundShape, Unaccepted, Raises
  <2>4. AnswersExcused(r) /\ PastIsTold(r)
    BY <1>1 DEF AnswersExcused, PastIsTold, Answers, Raises, Past, Unaccepted, Ends
  <2> QED BY <1>1, <2>3, <2>4 DEF RoundSound, Unaccepted
<1>6. JobInv BY DEF Init, JobInv, JobSound, Idle
<1>7. LinkInv BY DEF Init, LinkInv, LinkSound
<1> QED BY <1>3, <1>4, <1>5, <1>6, <1>7 DEF Inv, IInv

LEMMA InvStep == Inv /\ [Next]_vars => Inv'
<1> SUFFICES ASSUME Inv, [Next]_vars PROVE Inv'
  OBVIOUS
<1>1. CASE Next
  BY <1>1, TypeStep, StepKeeps, RoundStep, JobStep, LinkStep DEF Inv, IInv
<1>2. CASE UNCHANGED vars
  BY <1>2 DEF Inv, IInv, TypeOK, ChainInv, InOrder, HasLatest, RowShape, RowSound, RoundInv,
    RoundSound, RoundShape, AnswersExcused, PastIsTold, Told, Excused, Cause, Terminal, JobInv,
    JobSound, Ended, LinkInv, LinkSound, First
<1> QED BY <1>1, <1>2

LEMMA InvAlways == Spec => []Inv
BY InvInit, InvStep, PTL DEF Spec

\* Every reachable state of the journal, the engine and the dispatchers is well typed.
THEOREM LifecycleTypes == Spec => []TypeOK
<1>1. Inv => TypeOK BY DEF Inv
<1> QED BY <1>1, InvAlways, PTL

\* A run ends failed only for its handler's own failure, a request that hit
\* continueAsNew, or a cancel: no race of rounds, receipts, sweeps and crashes
\* invents a failure.
THEOREM FailuresHaveCauses == Spec => []FailureHasCause
<1>1. Inv => FailureHasCause
  BY DEF Inv, IInv, RoundInv, RoundSound, Cause, FailureHasCause
<1> QED BY <1>1, InvAlways, PTL

\* A parent goes past child() only with the answer of the last generation of the
\* child's chain, and that answer stays true.
THEOREM ParentsWait == Spec => []ParentWaits
<1>1. Inv => ParentWaits
  <2> SUFFICES ASSUME Inv, NEW c \in Chains \cap Awaited, Caller[c] # None
               PROVE  /\ run[Caller[c]].state \in {"completed", "continued"} => told[c] # None
                      /\ told[c] # None => run[Last(c)].state = told[c]
    BY DEF ParentWaits
  <2>1. Caller[c] \in Runs BY CallerAssumption
  <2>2. run[Caller[c]].state \in {"completed", "continued"} => told[c] # None
    BY <2>1 DEF Inv, IInv, RoundInv, RoundSound, PastIsTold, Told
  <2>3. ASSUME told[c] # None PROVE run[Last(c)].state = told[c]
    <3>1. PICK r \in Runs : r[1] = c /\ run[r].state = told[c]
      BY <2>3 DEF Inv, IInv, LinkInv, LinkSound
    <3>2. told[c] \in Ends BY <2>3 DEF Inv, TypeOK
    <3>3. Last(c) = r
      BY <3>1, <3>2, LatestIsLast DEF Latest, Ends, Inv, IInv, ChainInv
    <3> QED BY <3>1, <3>3
  <2> QED BY <2>2, <2>3
<1> QED BY <1>1, InvAlways, PTL

-----------------------------------------------------------------------------
(* The close policy. *)

ClosedSound ==
  \A c \in Chains \ Detached, r \in Runs :
    link[c].closed /\ r[1] = c /\ IsOpen(r) => run[r].control = "cancel"

LEMMA ClosedStep ==
  ASSUME ~ReadCommitted, Inv, ClosedSound, Next
  PROVE  ClosedSound'
<1> SUFFICES ASSUME NEW c \in Chains \ Detached, NEW r \in Runs,
                    link'[c].closed, r[1] = c, run'[r].state \in Open
             PROVE  run'[r].control = "cancel"
  BY DEF ClosedSound, IsOpen
<1>1. Keeps(r) /\ Written BY StepKeeps, RunWrites
<1>2. RunTypes /\ RowSound(r) /\ ChainInv
  BY DEF Inv, IInv, TypeOK, RunTypes, ChainInv, RowShape
\* A chain that was closed grows no more.
<1>3. CASE link[c].closed
  <2>1. run[First(c)].state # "none" BY <1>3 DEF Inv, IInv, LinkInv, LinkSound
  <2>2. CASE run[r].state = "none"
    <3>1. ASSUME NEW q \in Runs, Renewed(q) PROVE FALSE
      <4>1. r = NextOf(q)
        <5>1. r # q BY <2>2, <3>1 DEF Renewed, IsOpen, Open
        <5> QED BY <1>2, <2>2, <3>1, <5>1, RenewedRows DEF Open
      <4>2. q[1] = c BY <4>1 DEF NextOf
      <4> QED BY <1>3, <3>1, <4>2 DEF Renewed, ClosedSound
    <3>2. ASSUME NEW q \in Runs, Opened(q) PROVE FALSE
      <4>1. q = r BY <1>2, <2>2, <3>2, OpenedRows DEF Open
      <4>2. q = First(c) BY <3>2, <4>1 DEF Opened, First, Runs
      <4> QED BY <2>1, <2>2, <4>1, <4>2
    <3>3. run'[r].state # run[r].state BY <2>2 DEF Open
    <3>4. ASSUME NEW q \in Runs, NEW s \in {"running", "waiting"} \cup Ends, Advanced(q, s) PROVE FALSE
      <4>1. q # r BY <2>2, <3>4 DEF Advanced, IsOpen, Open
      <4> QED BY <1>2, <3>3, <3>4, <4>1, AdvancedRows
    <3>5. ASSUME NEW q \in Runs, NEW a \in {"run", "pause", "cancel"}, Requested(q, a) PROVE FALSE
      <4>1. q # r BY <2>2, <3>5 DEF Requested, Requestable, IsOpen, Open
      <4> QED BY <1>2, <3>3, <3>5, <4>1, RequestedRows
    <3>6. ASSUME NEW q \in Runs, NEW n \in Nat, Marked(q, n) PROVE FALSE
      <4>1. q # r BY <2>2, <3>6 DEF Marked
      <4> QED BY <1>2, <3>3, <3>6, <4>1, MarkedRows
    <3>7. run' # run BY <3>3
    <3> QED BY <1>1, <3>1, <3>2, <3>4, <3>5, <3>6, <3>7 DEF Written, Quiet, Closing, Steps
  <2>3. CASE run[r].state # "none"
    <3>1. run[r] \in RunRow BY <1>2 DEF RunTypes
    <3>2. IsOpen(r) BY <1>1, <2>3, <3>1 DEF Keeps, RunRow, IsOpen, Open, Ends
    <3>3. run[r].control = "cancel" BY <1>3, <3>2 DEF ClosedSound
    <3> QED BY <1>1, <3>3 DEF Keeps
  <2> QED BY <2>2, <2>3
\* The transaction that closes it reaches its open generation.
<1>4. CASE ~link[c].closed
  <2>1. PICK d \in Dispatchers : CloseChildren(d) /\ job[d].child = c
    <3>1. link' # link BY <1>4
    <3>2. ASSUME NEW q \in Runs, LinkChild(q) PROVE FALSE
      <4>1. PICK e \in Children(q) : link' = [link EXCEPT ![e].linked = TRUE]
        BY <3>2 DEF LinkChild
      <4>2. link \in [Chains -> [linked : BOOLEAN, delivered : BOOLEAN, closed : BOOLEAN]]
        BY DEF Inv, TypeOK
      <4> QED BY <1>4, <4>1, <4>2
    <3>3. ASSUME NEW d \in Dispatchers, ChildDelivered(d) PROVE FALSE
      <4>1. link' = [link EXCEPT ![job[d].child].delivered = TRUE]
        BY <3>3 DEF ChildDelivered
      <4>2. link \in [Chains -> [linked : BOOLEAN, delivered : BOOLEAN, closed : BOOLEAN]]
        BY DEF Inv, TypeOK
      <4> QED BY <1>4, <4>1, <4>2
    <3>4. ASSUME NEW q \in Runs, Command(q), ~LinkChild(q) PROVE link' = link
      BY <3>4 DEF Command, Gate, Running, BeginCommand, AwaitChild, FinishCommand, ContinueAsNew, Enqueue
    <3>5. ASSUME NEW d \in Dispatchers, Continued(d), ~ChildDelivered(d), ~CloseChildren(d)
          PROVE  link' = link
      BY <3>5 DEF Continued, Apply, Mark, CompleteCancelled, ReconciliationDelivered, ReconcileSweep,
        TellParent
    <3>6. PICK d \in Dispatchers : CloseChildren(d)
      BY <3>1, <3>2, <3>3, <3>4, <3>5, EngineWrites, ClientWrites, FetchWrites DEF Next
    <3>7. job[d].child = c
      <4>1. link' = [link EXCEPT ![job[d].child].closed = TRUE]
        BY <3>6 DEF CloseChildren, CloseChild
      <4>2. link \in [Chains -> [linked : BOOLEAN, delivered : BOOLEAN, closed : BOOLEAN]]
        BY DEF Inv, TypeOK
      <4> QED BY <1>4, <4>1, <4>2
    <3> QED BY <3>6, <3>7
  <2>2. Request(Last(c), "cancel") BY <2>1 DEF CloseChildren, CloseChild
  <2>3. run[First(c)].state # "none"
    BY <2>1 DEF CloseChildren, At, Inv, IInv, JobInv, JobSound
  <2>4. Last(c) \in Runs BY <2>3, LastType DEF Inv, IInv
  <2>5. run' = run \/ Requested(Last(c), "cancel") BY <2>2, <2>4, RequestWrites
  <2>6. run'[r].state = run[r].state
    <3>1. CASE run' = run BY <3>1
    <3>2. CASE Requested(Last(c), "cancel")
      <4>1. CASE r # Last(c) BY <1>2, <2>4, <3>2, <4>1, RequestedRows
      <4>2. CASE r = Last(c)
        <5>1. run[r] \in RunRow BY <1>2 DEF RunTypes
        <5>2. run'[r] = [run[r] EXCEPT !.control = "cancel", !.revision = @ + 1]
          BY <1>2, <2>4, <3>2, <4>2, RequestedRows
        <5> QED BY <5>1, <5>2 DEF RunRow
      <4> QED BY <4>1, <4>2
    <3> QED BY <2>5, <3>1, <3>2
  <2>7. IsOpen(r) BY <2>6 DEF IsOpen
  <2>8. Last(c) = r BY <1>2, <2>7, LatestIsLast DEF Latest, IsOpen, Open, ChainInv
  <2>9. CASE run[r].control = "cancel" BY <1>1, <2>9 DEF Keeps
  <2>10. CASE run[r].control # "cancel"
    <3>1. Requested(r, "cancel")
      BY <2>2, <2>7, <2>8, <2>10 DEF Request, Requestable, Requested
    <3>2. run[r] \in RunRow BY <1>2 DEF RunTypes
    <3>3. run'[r] = [run[r] EXCEPT !.control = "cancel", !.revision = @ + 1]
      BY <1>2, <3>1, RequestedRows
    <3> QED BY <3>2, <3>3 DEF RunRow
  <2> QED BY <2>9, <2>10
<1> QED BY <1>3, <1>4

\* When a transaction sees the journal as of one moment (SQLite), the close policy
\* that was applied has reached every open generation of the child, and no later
\* one appears. With READ COMMITTED it may miss a generation (README, section 6).
THEOREM ClosePolicyReaches ==
  ASSUME ~ReadCommitted PROVE Spec => []ClosePolicyReachesLast
<1>1. Init => ClosedSound BY DEF Init, ClosedSound
<1>2. Inv /\ ClosedSound /\ [Next]_vars => ClosedSound'
  <2>1. CASE UNCHANGED vars BY <2>1 DEF ClosedSound, IsOpen
  <2> QED BY <2>1, ClosedStep
<1>3. Inv /\ ClosedSound => ClosePolicyReachesLast
  <2> SUFFICES ASSUME Inv, ClosedSound, NEW c \in Chains \ Detached, link[c].closed
               PROVE  ~IsOpen(Last(c)) \/ run[Last(c)].control = "cancel"
    BY DEF ClosePolicyReachesLast
  <2>1. run[First(c)].state # "none" BY DEF Inv, IInv, LinkInv, LinkSound
  <2>2. Last(c) \in Runs /\ Last(c)[1] = c BY <2>1, LastType DEF Inv, IInv
  <2> QED BY <2>2 DEF ClosedSound
<1> QED BY <1>1, <1>2, <1>3, InvAlways, PTL DEF Spec

-----------------------------------------------------------------------------
(* The journal implements chains that end once (ChainOutcome).               *)

GenOf(R, c) == Cardinality({r \in Runs : r[1] = c /\ R[r].state # "none"})
CancelOf(R, c) == \E r \in Runs : r[1] = c /\ R[r].control = "cancel"
EndOf(R, c) ==
  IF \E r \in Runs : r[1] = c /\ R[r].state \in Ends
  THEN R[CHOOSE r \in Runs : r[1] = c /\ R[r].state # "none" /\ R[r].state # "continued"].state
  ELSE None

LEMMA ChainIsFinite ==
  ASSUME NEW c \in Chains, NEW S \in SUBSET {r \in Runs : r[1] = c}
  PROVE  IsFiniteSet(S)
<1> DEFINE G == 1..Generations
           T == {r \in Runs : r[1] = c}
           f == [i \in G |-> <<c, i>>]
<1>1. Generations \in Int BY BoundAssumption
<1>2. IsFiniteSet(G) BY <1>1, FS_Interval
<1>3. \A i \in G : <<c, i>> \in T BY DEF Runs
<1>4. \A t \in T : t[2] \in G /\ <<c, t[2]>> = t BY DEF Runs
<1>5. f \in Surjection(G, T)
  <2>1. f \in [G -> T] BY <1>3
  <2>2. \A t \in T : \E i \in G : f[i] = t BY <1>4
  <2> QED BY <2>1, <2>2 DEF Surjection
<1>6. IsFiniteSet(T)
  <2> HIDE DEF G, T, f
  <2> QED BY <1>2, <1>5, FS_Surjection
<1> QED BY <1>6, FS_Subset

LEMMA GenFacts ==
  ASSUME NEW R, NEW c \in Chains
  PROVE  /\ GenOf(R, c) \in Nat
         /\ GenOf(R, c) = 0 <=> \A r \in Runs : r[1] = c => R[r].state = "none"
<1> DEFINE A == {r \in Runs : r[1] = c /\ R[r].state # "none"}
<1>1. IsFiniteSet(A) BY ChainIsFinite
<1>2. Cardinality(A) \in Nat /\ (Cardinality(A) = 0 <=> A = {})
  BY <1>1, FS_CardinalityType, FS_EmptySet
<1>3. GenOf(R, c) = Cardinality(A) BY DEF GenOf
<1> QED BY <1>2, <1>3

LEMMA GenGrows ==
  ASSUME NEW R, NEW S, NEW q \in Runs, q[1] \in Chains,
         R[q].state = "none", S[q].state # "none",
         \A r \in Runs : r # q => (R[r].state = "none" <=> S[r].state = "none")
  PROVE  GenOf(S, q[1]) = GenOf(R, q[1]) + 1
<1> DEFINE A == {r \in Runs : r[1] = q[1] /\ R[r].state # "none"}
           B == {r \in Runs : r[1] = q[1] /\ S[r].state # "none"}
<1>1. B = A \cup {q} /\ q \notin A OBVIOUS
<1>2. IsFiniteSet(A) BY ChainIsFinite
<1>3. Cardinality(B) = Cardinality(A) + 1
  <2> HIDE DEF A, B
  <2> QED BY <1>1, <1>2, FS_AddElement
<1> QED BY <1>3 DEF GenOf

LEMMA GenSame ==
  ASSUME NEW R, NEW S, NEW c \in Chains,
         \A r \in Runs : r[1] = c => (R[r].state = "none" <=> S[r].state = "none")
  PROVE  GenOf(S, c) = GenOf(R, c)
<1>1. {r \in Runs : r[1] = c /\ R[r].state # "none"} = {r \in Runs : r[1] = c /\ S[r].state # "none"}
  OBVIOUS
<1> QED BY <1>1 DEF GenOf

\* Chains whose rows are in order end as their one ended generation.
LEMMA EndFacts ==
  ASSUME NEW R, NEW c \in Chains,
         \A r, s \in Runs : r[1] = s[1] /\ r[2] < s[2] /\ R[s].state # "none" => R[r].state = "continued"
  PROVE  /\ \A r \in Runs : r[1] = c /\ R[r].state \in Ends => EndOf(R, c) = R[r].state
         /\ (\A r \in Runs : r[1] = c => R[r].state \notin Ends) => EndOf(R, c) = None
<1>1. ASSUME NEW r \in Runs, r[1] = c, R[r].state \in Ends PROVE EndOf(R, c) = R[r].state
  <2>1. ASSUME NEW s \in Runs, s[1] = c, R[s].state # "none", R[s].state # "continued" PROVE s = r
    <3>1. ~(s[2] < r[2]) /\ ~(r[2] < s[2]) BY <1>1, <2>1 DEF Ends
    <3>2. s[2] = r[2] BY <3>1, BoundAssumption DEF Runs
    <3> QED BY <1>1, <2>1, <3>2 DEF Runs
  <2>2. \A s \in Runs : s[1] = c /\ R[s].state # "none" /\ R[s].state # "continued" <=> s = r
    BY <1>1, <2>1 DEF Ends
  <2>3. (CHOOSE s \in Runs : s[1] = c /\ R[s].state # "none" /\ R[s].state # "continued") = r
    BY <2>2
  <2> QED BY <1>1, <2>3 DEF EndOf
<1> QED BY <1>1 DEF EndOf

Gens == [c \in Chains |-> GenOf(run, c)]
Cancels == [c \in Chains |-> CancelOf(run, c)]
EndsAs == [c \in Chains |-> EndOf(run, c)]

LEMMA MappedInit ==
  ASSUME Gens = [c \in Chains |-> 0], Cancels = [c \in Chains |-> FALSE],
         EndsAs = [c \in Chains |-> None], told = [c \in Chains |-> None]
  PROVE  Outcome!Init
BY DEF Outcome!Init, Gens, Cancels, EndsAs, GenOf, CancelOf, EndOf, Last

LEMMA MappedAccept ==
  ASSUME NEW c \in Chains, Gens[c] = 0, Gens' = [Gens EXCEPT ![c] = 1],
         UNCHANGED <<Cancels, EndsAs, told>>
  PROVE  Outcome!Accept(c)
BY DEF Outcome!Accept, Gens, Cancels, EndsAs, GenOf, CancelOf, EndOf, Last

LEMMA MappedContinue ==
  ASSUME NEW c \in Chains, Gens[c] > 0, EndsAs[c] = None, ~Cancels[c],
         Gens' = [Gens EXCEPT ![c] = @ + 1], UNCHANGED <<Cancels, EndsAs, told>>
  PROVE  Outcome!Continue(c)
BY DEF Outcome!Continue, Gens, Cancels, EndsAs, GenOf, CancelOf, EndOf, Last

LEMMA MappedCancel ==
  ASSUME NEW c \in Chains, Gens[c] > 0, EndsAs[c] = None, ~Cancels[c],
         Cancels' = [Cancels EXCEPT ![c] = TRUE], UNCHANGED <<Gens, EndsAs, told>>
  PROVE  Outcome!Cancel(c)
BY DEF Outcome!Cancel, Gens, Cancels, EndsAs, GenOf, CancelOf, EndOf, Last

LEMMA MappedEnd ==
  ASSUME NEW c \in Chains, NEW e \in Ends, Gens[c] > 0, EndsAs[c] = None,
         e = "cancelled" => Cancels[c],
         EndsAs' = [EndsAs EXCEPT ![c] = e], UNCHANGED <<Gens, Cancels, told>>
  PROVE  Outcome!End(c, e)
BY DEF Outcome!End, Gens, Cancels, EndsAs, GenOf, CancelOf, EndOf, Last

LEMMA MappedTell ==
  ASSUME NEW c \in Chains, EndsAs[c] # None, told[c] = None,
         told' = [told EXCEPT ![c] = EndsAs[c]], UNCHANGED <<Gens, Cancels, EndsAs>>
  PROVE  Outcome!Tell(c)
BY DEF Outcome!Tell, Gens, Cancels, EndsAs, GenOf, CancelOf, EndOf, Last

LEMMA MappedStutter ==
  ASSUME UNCHANGED <<Gens, Cancels, EndsAs, told>>
  PROVE  UNCHANGED Outcome!vars
BY DEF Outcome!vars, Gens, Cancels, EndsAs, GenOf, CancelOf, EndOf, Last

\* What a write leaves of the mapped variables.
LEMMA GensKept ==
  ASSUME \A r \in Runs : run[r].state = "none" <=> run'[r].state = "none"
  PROVE  Gens' = Gens
<1>1. \A c \in Chains : GenOf(run', c) = GenOf(run, c)
  BY GenSame
<1> QED BY <1>1 DEF Gens

LEMMA GensGrow ==
  ASSUME NEW q \in Runs, run[q].state = "none", run'[q].state # "none",
         \A r \in Runs : r # q => (run[r].state = "none" <=> run'[r].state = "none")
  PROVE  Gens' = [Gens EXCEPT ![q[1]] = @ + 1]
<1>1. q[1] \in Chains BY DEF Runs
<1>2. GenOf(run', q[1]) = GenOf(run, q[1]) + 1 BY <1>1, GenGrows
<1>3. \A c \in Chains : c # q[1] => GenOf(run', c) = GenOf(run, c) BY GenSame
<1> QED BY <1>1, <1>2, <1>3 DEF Gens

LEMMA CancelsKept ==
  ASSUME \A r \in Runs : run[r].control = "cancel" <=> run'[r].control = "cancel"
  PROVE  Cancels' = Cancels
<1>1. \A c \in Chains : CancelOf(run', c) <=> CancelOf(run, c) BY DEF CancelOf
<1>2. \A c \in Chains : CancelOf(run', c) = CancelOf(run, c) BY <1>1 DEF CancelOf
<1> QED BY <1>2 DEF Cancels

LEMMA EndsKept ==
  ASSUME InOrder, InOrder',
         \A r \in Runs : \A s \in Ends : run[r].state = s <=> run'[r].state = s
  PROVE  EndsAs' = EndsAs
<1>1. ASSUME NEW c \in Chains PROVE EndOf(run', c) = EndOf(run, c)
  <2>1. /\ \A r \in Runs : r[1] = c /\ run[r].state \in Ends => EndOf(run, c) = run[r].state
        /\ (\A r \in Runs : r[1] = c => run[r].state \notin Ends) => EndOf(run, c) = None
    BY EndFacts DEF InOrder
  <2>2. /\ \A r \in Runs : r[1] = c /\ run'[r].state \in Ends => EndOf(run', c) = run'[r].state
        /\ (\A r \in Runs : r[1] = c => run'[r].state \notin Ends) => EndOf(run', c) = None
    BY EndFacts DEF InOrder
  <2> QED BY <2>1, <2>2
<1> QED BY <1>1 DEF EndsAs

\* The chain of a run that is open has not ended.
LEMMA OpenChain ==
  ASSUME InOrder, NEW q \in Runs, IsOpen(q)
  PROVE  /\ q[1] \in Chains /\ Gens[q[1]] \in Nat /\ Gens[q[1]] > 0 /\ EndsAs[q[1]] = None
         /\ \A r \in Runs : r[1] = q[1] /\ r # q => run[r].state \in {"none", "continued"}
<1>1. q[1] \in Chains BY DEF Runs
<1>2. Gens[q[1]] = GenOf(run, q[1]) /\ EndsAs[q[1]] = EndOf(run, q[1])
  BY <1>1 DEF Gens, EndsAs
<1>3. GenOf(run, q[1]) \in Nat /\ GenOf(run, q[1]) # 0
  BY <1>1, GenFacts DEF IsOpen, Open
<1>4. Last(q[1]) = q BY LatestIsLast DEF IsOpen, Latest, Open
<1>5. ASSUME NEW r \in Runs, r[1] = q[1], r # q PROVE run[r].state \in {"none", "continued"}
  BY <1>4, <1>5, LatestIsLast DEF Latest
<1>6. \A r \in Runs : r[1] = q[1] => run[r].state \notin Ends
  BY <1>5 DEF IsOpen, Open, Ends
<1>7. EndOf(run, q[1]) = None BY <1>1, <1>6, EndFacts DEF InOrder
<1> QED BY <1>1, <1>2, <1>3, <1>5, <1>7

LEMMA RunStepMapped ==
  ASSUME Inv, Next, told' = told
  PROVE  Outcome!Next \/ UNCHANGED Outcome!vars
<1>1. Written /\ RunTypes /\ InOrder /\ InOrder' /\ RowShape
  BY StepKeeps, RunWrites DEF Inv, IInv, TypeOK, RunTypes, ChainInv
<1>2. CASE run' = run
  <2>1. UNCHANGED <<Gens, Cancels, EndsAs>> BY <1>2 DEF Gens, Cancels, EndsAs, GenOf, CancelOf, EndOf
  <2> QED BY <2>1, MappedStutter
<1>3. ASSUME NEW q \in Runs, Opened(q) PROVE Outcome!Next
  <2>1. /\ run'[q] = Accepted("accepted") /\ run[q] = Unaccepted
        /\ \A r \in Runs : r # q => run'[r] = run[r]
    BY <1>1, <1>3, OpenedRows DEF Opened, RowShape, RowSound
  <2>2. q[1] \in Chains BY DEF Runs
  <2>3. \A r \in Runs : r[1] = q[1] => run[r].state = "none"
    <3> SUFFICES ASSUME NEW r \in Runs, r[1] = q[1], run[r].state # "none" PROVE FALSE
      OBVIOUS
    <3>1. r # q BY <2>1 DEF Unaccepted
    <3>2. q[2] < r[2] BY <1>3, <3>1, BoundAssumption DEF Opened, Runs
    <3> QED BY <1>1, <2>1, <3>2 DEF InOrder, Unaccepted
  <2>4. Gens[q[1]] = 0 BY <2>2, <2>3, GenFacts DEF Gens
  <2>5. Gens' = [Gens EXCEPT ![q[1]] = @ + 1]
    BY <2>1, GensGrow DEF Accepted, Unaccepted
  <2>6. Gens' = [Gens EXCEPT ![q[1]] = 1]
    BY <2>4, <2>5
  <2>7. Cancels' = Cancels BY <2>1, CancelsKept DEF Accepted, Unaccepted
  <2>8. EndsAs' = EndsAs BY <1>1, <2>1, EndsKept DEF Accepted, Unaccepted, Ends
  <2>9. Outcome!Accept(q[1]) BY <2>2, <2>4, <2>6, <2>7, <2>8, MappedAccept
  <2> QED BY <2>2, <2>9 DEF Outcome!Next
<1>4. ASSUME NEW q \in Runs, Renewed(q) PROVE Outcome!Next
  <2>1. IsOpen(q) /\ run[q].control = "run" /\ NextOf(q) \in Runs /\ NextOf(q)[1] = q[1]
    BY <1>4 DEF Renewed, NextOf
  <2>2. /\ NextOf(q) # q /\ run'[q] = [run[q] EXCEPT !.state = "continued"]
        /\ run'[NextOf(q)] = Accepted("accepted")
        /\ \A r \in Runs : r # q /\ r # NextOf(q) => run'[r] = run[r]
    BY <1>1, <1>4, RenewedRows
  <2>3. run[NextOf(q)] = Unaccepted
    BY <1>1, <2>1, NextIsFree DEF RowShape, RowSound
  <2>4. run'[q].state = "continued" /\ run'[q].control = "run"
    <3>1. run[q] \in RunRow BY <1>1 DEF RunTypes
    <3> QED BY <2>1, <2>2, <3>1 DEF RunRow
  <2>5. q[1] \in Chains /\ Gens[q[1]] > 0 /\ EndsAs[q[1]] = None
    BY <1>1, <2>1, OpenChain
  <2>6. ~Cancels[q[1]]
    <3>1. ASSUME NEW r \in Runs, r[1] = q[1] PROVE run[r].control = "run"
      <4>1. CASE r = q BY <2>1, <4>1
      <4>2. CASE r # q
        <5>1. run[r].state \in {"none", "continued"} BY <1>1, <2>1, <3>1, <4>2, OpenChain
        <5> QED BY <1>1, <5>1 DEF RowShape, RowSound, Unaccepted
      <4> QED BY <4>1, <4>2
    <3>2. ~CancelOf(run, q[1]) BY <3>1 DEF CancelOf
    <3> QED BY <2>5, <3>2 DEF Cancels
  <2>7. Gens' = [Gens EXCEPT ![q[1]] = @ + 1]
    <3>1. run[NextOf(q)].state = "none" /\ run'[NextOf(q)].state # "none"
      BY <2>2, <2>3 DEF Accepted, Unaccepted
    <3>2. \A r \in Runs : r # NextOf(q) => (run[r].state = "none" <=> run'[r].state = "none")
      BY <2>1, <2>2, <2>4 DEF IsOpen, Open
    <3> HIDE DEF Gens
    <3> QED BY <2>1, <3>1, <3>2, GensGrow
  <2>8. Cancels' = Cancels
    <3>1. \A r \in Runs : run[r].control = "cancel" <=> run'[r].control = "cancel"
      <4> TAKE r \in Runs
      <4>1. CASE r = q BY <2>1, <2>4, <4>1
      <4>2. CASE r = NextOf(q) BY <2>2, <2>3, <4>2 DEF Accepted, Unaccepted
      <4>3. CASE r # q /\ r # NextOf(q) BY <2>2, <4>3
      <4> QED BY <4>1, <4>2, <4>3
    <3> QED BY <3>1, CancelsKept
  <2>9. EndsAs' = EndsAs
    <3>1. \A r \in Runs : \A s \in Ends : run[r].state = s <=> run'[r].state = s
      <4> TAKE r \in Runs
      <4>1. CASE r = q BY <2>1, <2>4, <4>1 DEF IsOpen, Open, Ends
      <4>2. CASE r = NextOf(q) BY <2>2, <2>3, <4>2 DEF Accepted, Unaccepted, Ends
      <4>3. CASE r # q /\ r # NextOf(q) BY <2>2, <4>3
      <4> QED BY <4>1, <4>2, <4>3
    <3> QED BY <1>1, <3>1, EndsKept
  <2>10. Outcome!Continue(q[1]) BY <2>5, <2>6, <2>7, <2>8, <2>9, MappedContinue
  <2> QED BY <2>5, <2>10 DEF Outcome!Next
<1>5. ASSUME NEW q \in Runs, NEW s \in {"running", "waiting"} \cup Ends, Advanced(q, s)
      PROVE  Outcome!Next \/ UNCHANGED Outcome!vars
  <2>1. run[q] \in RunRow /\ IsOpen(q) /\ (s = "cancelled" => run[q].control = "cancel")
    BY <1>1, <1>5 DEF RunTypes, Advanced
  <2>2. run'[q] = [run[q] EXCEPT !.state = s] /\ \A r \in Runs : r # q => run'[r] = run[r]
    BY <1>1, <1>5, AdvancedRows
  <2>3. run'[q].state = s /\ run'[q].control = run[q].control
    BY <2>1, <2>2 DEF RunRow
  <2>4. Gens' = Gens
    <3>1. run[q].state # "none" /\ run'[q].state # "none" BY <2>1, <2>3 DEF IsOpen, Open, Ends
    <3> QED BY <2>2, <3>1, GensKept
  <2>5. Cancels' = Cancels BY <2>2, <2>3, CancelsKept
  <2>6. q[1] \in Chains /\ Gens[q[1]] > 0 /\ EndsAs[q[1]] = None
    BY <1>1, <2>1, OpenChain
  <2>7. CASE s \in Ends
    <3>1. \A c \in Chains : c # q[1] => EndOf(run', c) = EndOf(run, c)
      <4> TAKE c \in Chains
      <4>1. /\ \A r \in Runs : r[1] = c /\ run[r].state \in Ends => EndOf(run, c) = run[r].state
            /\ (\A r \in Runs : r[1] = c => run[r].state \notin Ends) => EndOf(run, c) = None
        BY <1>1, EndFacts DEF InOrder
      <4>2. /\ \A r \in Runs : r[1] = c /\ run'[r].state \in Ends => EndOf(run', c) = run'[r].state
            /\ (\A r \in Runs : r[1] = c => run'[r].state \notin Ends) => EndOf(run', c) = None
        BY <1>1, EndFacts DEF InOrder
      <4> QED BY <2>2, <4>1, <4>2
    <3>2. EndOf(run', q[1]) = s
      BY <1>1, <2>3, <2>6, <2>7, EndFacts DEF InOrder
    <3>3. EndsAs' = [EndsAs EXCEPT ![q[1]] = s]
      BY <2>6, <3>1, <3>2 DEF EndsAs
    <3>4. s = "cancelled" => Cancels[q[1]]
      <4>1. s = "cancelled" => CancelOf(run, q[1]) BY <2>1 DEF CancelOf
      <4> QED BY <2>6, <4>1 DEF Cancels
    <3>5. Outcome!End(q[1], s) BY <2>4, <2>5, <2>6, <2>7, <3>3, <3>4, MappedEnd
    <3> QED BY <2>6, <2>7, <3>5 DEF Outcome!Next
  <2>8. CASE s \notin Ends
    <3>1. run[q].state \notin Ends BY <2>1 DEF IsOpen, Open, Ends
    <3>2. EndsAs' = EndsAs BY <1>1, <2>2, <2>3, <2>8, <3>1, EndsKept
    <3> QED BY <2>4, <2>5, <3>2, MappedStutter
  <2> QED BY <2>7, <2>8
<1>6. ASSUME NEW q \in Runs, NEW a \in {"run", "pause", "cancel"}, Requested(q, a)
      PROVE  Outcome!Next \/ UNCHANGED Outcome!vars
  <2>1. run[q] \in RunRow /\ IsOpen(q) /\ run[q].control # "cancel"
    BY <1>1, <1>6 DEF RunTypes, Requested, Requestable
  <2>2. /\ run'[q] = [run[q] EXCEPT !.control = a, !.revision = @ + 1]
        /\ \A r \in Runs : r # q => run'[r] = run[r]
    BY <1>1, <1>6, RequestedRows
  <2>3. run'[q].state = run[q].state /\ run'[q].control = a
    BY <2>1, <2>2 DEF RunRow
  <2>4. Gens' = Gens BY <2>2, <2>3, GensKept
  <2>5. EndsAs' = EndsAs BY <1>1, <2>2, <2>3, EndsKept
  <2>6. q[1] \in Chains /\ Gens[q[1]] > 0 /\ EndsAs[q[1]] = None
    BY <1>1, <2>1, OpenChain
  <2>7. CASE a # "cancel"
    <3>1. Cancels' = Cancels BY <2>1, <2>2, <2>3, <2>7, CancelsKept
    <3> QED BY <2>4, <2>5, <3>1, MappedStutter
  <2>8. CASE a = "cancel"
    <3>1. ~CancelOf(run, q[1])
      <4>1. ASSUME NEW r \in Runs, r[1] = q[1], r # q PROVE run[r].control # "cancel"
        <5>1. run[r].state \in {"none", "continued"} BY <1>1, <2>1, <4>1, OpenChain
        <5> QED BY <1>1, <5>1 DEF RowShape, RowSound, Unaccepted
      <4> QED BY <2>1, <4>1 DEF CancelOf
    <3>2. \A c \in Chains : c # q[1] => CancelOf(run', c) = CancelOf(run, c)
      <4>1. \A c \in Chains : c # q[1] => (CancelOf(run', c) <=> CancelOf(run, c))
        BY <2>2 DEF CancelOf
      <4> QED BY <4>1 DEF CancelOf
    <3>3. CancelOf(run', q[1]) = TRUE BY <2>3, <2>8 DEF CancelOf
    <3>4. Cancels' = [Cancels EXCEPT ![q[1]] = TRUE]
      BY <2>6, <3>2, <3>3 DEF Cancels
    <3>5. ~Cancels[q[1]] BY <2>6, <3>1 DEF Cancels
    <3>6. Outcome!Cancel(q[1]) BY <2>4, <2>5, <2>6, <3>4, <3>5, MappedCancel
    <3> QED BY <2>6, <3>6 DEF Outcome!Next
  <2> QED BY <2>7, <2>8
<1>7. ASSUME NEW q \in Runs, NEW n \in Nat, Marked(q, n) PROVE UNCHANGED Outcome!vars
  <2>1. run[q] \in RunRow BY <1>1 DEF RunTypes
  <2>2. /\ run'[q] = [run[q] EXCEPT !.dispatched = TRUE, !.applied = n]
        /\ \A r \in Runs : r # q => run'[r] = run[r]
    BY <1>1, <1>7, MarkedRows
  <2>3. run'[q].state = run[q].state /\ run'[q].control = run[q].control
    BY <2>1, <2>2 DEF RunRow
  <2>4. Gens' = Gens BY <2>2, <2>3, GensKept
  <2>5. EndsAs' = EndsAs BY <1>1, <2>2, <2>3, EndsKept
  <2>6. Cancels' = Cancels BY <2>2, <2>3, CancelsKept
  <2> QED BY <2>4, <2>5, <2>6, MappedStutter
<1> QED BY <1>1, <1>2, <1>3, <1>4, <1>5, <1>6, <1>7 DEF Written, Quiet, Closing, Steps

LEMMA TellMapped ==
  ASSUME Inv, NEW d \in Dispatchers, TellParent(d)
  PROVE  Outcome!Next \/ UNCHANGED Outcome!vars
<1> DEFINE c == job[d].child
<1>1. c \in Chains /\ Ended(c) BY JobTypes DEF TellParent, At, Inv, IInv, JobInv, JobSound
<1>2. PICK r \in Runs : r[1] = c /\ run[r].state \in Ends BY <1>1 DEF Ended
<1>3. InOrder BY DEF Inv, IInv, ChainInv
<1>4. Last(c) = r BY <1>2, <1>3, LatestIsLast DEF Latest, Ends
<1>5. EndOf(run, c) = run[r].state BY <1>1, <1>2, <1>3, EndFacts DEF InOrder
<1>6. EndsAs[c] = run[Last(c)].state /\ EndsAs[c] # None
  BY <1>1, <1>2, <1>4, <1>5, NullAssumption DEF EndsAs
<1>7. UNCHANGED <<Gens, Cancels, EndsAs>>
  BY DEF TellParent, Gens, Cancels, EndsAs, GenOf, CancelOf, EndOf
<1>8. CASE told[c] = None
  <2>1. told' = [told EXCEPT ![c] = EndsAs[c]] BY <1>6, <1>8 DEF TellParent
  <2>2. Outcome!Tell(c) BY <1>1, <1>6, <1>7, <1>8, <2>1, MappedTell
  <2> QED BY <1>1, <2>2 DEF Outcome!Next
<1>9. CASE told[c] # None
  <2>1. told' = told BY <1>9 DEF TellParent, Inv, TypeOK
  <2> QED BY <1>7, <2>1, MappedStutter
<1> QED BY <1>8, <1>9

LEMMA OutcomeInit == Init => Outcome!Init
<1> SUFFICES ASSUME Init PROVE Outcome!Init
  OBVIOUS
<1>1. \A r \in Runs : run[r] = Unaccepted BY DEF Init
<1>2. Gens = [c \in Chains |-> 0]
  <2>1. \A c \in Chains : GenOf(run, c) = 0 BY <1>1, GenFacts DEF Unaccepted
  <2> QED BY <2>1 DEF Gens
<1>3. Cancels = [c \in Chains |-> FALSE]
  <2>1. \A c \in Chains : CancelOf(run, c) = FALSE BY <1>1 DEF CancelOf, Unaccepted
  <2> QED BY <2>1 DEF Cancels
<1>4. EndsAs = [c \in Chains |-> None]
  <2>1. \A c \in Chains : EndOf(run, c) = None BY <1>1 DEF EndOf, Unaccepted, Ends
  <2> QED BY <2>1 DEF EndsAs
<1> QED BY <1>2, <1>3, <1>4, MappedInit DEF Init

LEMMA OutcomeStep == Inv /\ [Next]_vars => [Outcome!Next]_(Outcome!vars)
<1> SUFFICES ASSUME Inv, [Next]_vars PROVE Outcome!Next \/ UNCHANGED Outcome!vars
  OBVIOUS
<1>1. CASE UNCHANGED vars
  <2>1. UNCHANGED <<Gens, Cancels, EndsAs, told>>
    BY <1>1 DEF Gens, Cancels, EndsAs, GenOf, CancelOf, EndOf
  <2> QED BY <2>1, MappedStutter
<1>2. CASE Next
  <2>1. CASE told' = told BY <1>2, <2>1, RunStepMapped
  <2>2. CASE \E d \in Dispatchers : TellParent(d) BY <2>2, TellMapped
  <2>3. ASSUME NEW r \in Runs, Command(r) PROVE told' = told
    BY <2>3 DEF Command, Gate, Running, BeginCommand, LinkChild, AwaitChild, FinishCommand,
      ContinueAsNew, Enqueue
  <2>4. ASSUME NEW d \in Dispatchers, Continued(d), ~TellParent(d) PROVE told' = told
    BY <2>4 DEF Continued, Apply, Mark, CompleteCancelled, ReconciliationDelivered, ReconcileSweep,
      ChildDelivered, CloseChildren
  <2> QED BY <1>2, <2>1, <2>2, <2>3, <2>4, EngineWrites, ClientWrites, FetchWrites DEF Next
<1> QED BY <1>1, <1>2

\* Whatever rounds, dispatchers, sweeps, requests and crashes interleave, a chain of
\* executions has one open execution at most, grows only while it was not asked to
\* cancel, ends once, cancelled only on request, and its parent is told that end.
THEOREM ChainsEndOnce == Spec => OutcomeSpec
BY InvAlways, OutcomeInit, OutcomeStep, PTL DEF Spec, OutcomeSpec, Outcome!Spec
=============================================================================
