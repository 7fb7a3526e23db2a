------------------------------ MODULE Schedules ------------------------------
(***************************************************************************)
(* One durable schedule: its row, its occurrences, the runtimes that       *)
(* register it and hold its ownership leases, the schedulers that          *)
(* materialize what is due, the operators that pause, resume, redefine,    *)
(* remove and trigger it, and the retention of what it left behind.        *)
(*                                                                         *)
(* materialize is one transaction of many statements. Its first one locks  *)
(* the row, so whoever writes the row waits; the executions of the         *)
(* schedule go on meanwhile. It is a step per instant here, and nothing of *)
(* it is visible to the others before it commits. Every other transaction  *)
(* is one action.                                                          *)
(***************************************************************************)
EXTENDS Integers, Sequences, FiniteSetsExt

CONSTANTS
  Runtimes,     \* processes with a scheduler
  Registers,    \* the definition in the catalog of each, or None
  Redefined,    \* the definitions operators may install
  Keys,         \* idempotency keys of manual triggers
  Grace,        \* misfireGraceMs
  PassLimit,    \* maxTimelineOccurrencesPerPass
  Retention,    \* operators prune the history of occurrences
  SetsBack,     \* the wall clock of the database may be set back
  Horizon,      \* bound of the model: the last value of the clock
  MaxSequence,  \* bound of the model: no manual trigger beyond this sequence
  MaxFaults,    \* bound of the model: crashes, temporary failures, clocks set back
  None          \* NULL

Definitions == ({Registers[r] : r \in Runtimes} \ {None}) \cup Redefined

ASSUME PolicyAssumption ==
  /\ Definitions \subseteq [misfire: {"skip", "latest", "catch-up"}, overlap: {"allow", "skip"},
                            maxCatchUp: Nat \ {0}, every: Nat \ {0}]
  /\ None \notin Redefined
ASSUME LimitAssumption == PassLimit \in Nat \ {0} /\ Grace \in Nat /\ {Retention, SetsBack} \subseteq BOOLEAN
ASSUME BoundAssumption ==
  Horizon \in Nat /\ MaxSequence \in Nat /\ MaxFaults \in Nat

VARIABLES
  clock,        \* the business clock, which is the clock of the database
  up,           \* runtimes that run
  owners,       \* runtimes whose ownership lease has not expired
  row,          \* better_workflows_schedules, or None
  occurrences,  \* better_workflows_schedule_occurrences
  keys,         \* better_workflows_schedule_manual_keys: the sequence, or 0
  retired,      \* history: instants whose occurrence retention removed
  chains,       \* the continuation chain each idempotency key started
  tx,           \* the materialization that holds the lock of the row, or None
  faults

history == <<occurrences, keys, retired, chains>>
vars == <<clock, up, owners, row, occurrences, keys, retired, chains, tx, faults>>

\* The idempotency key of an occurrence: its instant, or the manual key. A
\* manual trigger without a key draws a random one, here its sequence.
Due == {"due"} \X (0..Horizon)
Manual == {"manual"} \X (Keys \cup 1..MaxSequence)
Names == Due \cup Manual

\* The origin of an "open" chain is active; a "continued" chain is active in a
\* later generation.
Active == {"open", "continued"}
ChainStates == {"none", "ended", "pruned"} \cup Active

\* nextScheduleAt: strictly later. A cron expression is a regular timeline here, too.
NextAt(d, at) == at + d.every

\* held and since are history: an operator has paused the schedule and it was
\* not resumed; the first instant of the timeline.
Row(d, now) ==
  [state |-> "active", def |-> d, next |-> NextAt(d, now), since |-> NextAt(d, now), held |-> FALSE]

Init ==
  /\ clock = 0 /\ up = {} /\ owners = {} /\ row = None /\ tx = None
  /\ occurrences = {} /\ retired = {}
  /\ keys = [k \in Keys |-> 0]
  /\ chains = [n \in Names |-> "none"]
  /\ faults = 0

Occurrence(seq, at, trigger, state, reason, run) ==
  [seq |-> seq, at |-> at, trigger |-> trigger, state |-> state, reason |-> reason, run |-> run]

NextSequence == 1 + Max({0} \cup {o.seq : o \in occurrences})

Registered(r) == Registers[r] # None
Unlocked == tx = None
SetState(s) == row' = [row EXCEPT !.state = s]
Reactivate == row' = IF row.state = "orphaned" THEN [row EXCEPT !.state = "active"] ELSE row
-----------------------------------------------------------------------------
\* Ownership. A row no live owner protects is orphaned; its owner brings it
\* back. A runtime in whose catalog the definition differs does not start.

Orphan ==
  /\ Unlocked
  /\ SetState("orphaned")

\* Runtime.init: registerAll.
Register(r) ==
  /\ r \notin up
  /\ up' = up \cup {r}
  /\ \/ /\ Registered(r)
        /\ row = None
        /\ row' = Row(Registers[r], clock)
        /\ owners' = owners \cup {r}
     \/ /\ Registered(r)
        /\ row # None
        /\ row.def = Registers[r]
        /\ Reactivate
        /\ owners' = owners \cup {r}
     \/ /\ ~Registered(r)
        /\ IF row # None /\ owners = {} THEN Orphan ELSE UNCHANGED row
        /\ UNCHANGED owners
  /\ UNCHANGED <<clock, history, tx, faults>>

RenewOwnership(r) ==
  /\ r \in up /\ Registered(r)
  /\ row # None
  /\ owners' = owners \cup {r}
  /\ Reactivate
  /\ UNCHANGED <<clock, up, history, tx, faults>>

\* mutant
ReconcileActive(r) ==
  /\ r \in up /\ ~Registered(r)
  /\ row # None
  /\ row.state = "active"
  /\ owners = {}
  /\ Orphan
  /\ UNCHANGED <<clock, up, owners, history, tx, faults>>

ReconcileMissing(r) ==
  /\ r \in up /\ ~Registered(r)
  /\ row # None
  /\ row.state # "orphaned"
  /\ owners = {}
  /\ Orphan
  /\ UNCHANGED <<clock, up, owners, history, tx, faults>>

LeaseExpires(r) ==
  /\ r \in owners
  /\ owners' = owners \ {r}
  /\ UNCHANGED <<clock, up, row, history, tx, faults>>
-----------------------------------------------------------------------------
\* Materialization.

Count(d, next, now) == (now - next) \div d.every + 1
Limit(d) == IF d.misfire = "catch-up" /\ d.maxCatchUp < PassLimit THEN d.maxCatchUp ELSE PassLimit

\* The pass leaves due instants behind.
MoreIsLimit(d, next, now) == Count(d, next, now) >= Limit(d)  \* mutant
More(d, next, now) == Count(d, next, now) > Limit(d)

\* The due instants one pass takes on, and those of them that may start.
Batch(d, next, now) ==
  [i \in 1..Min({Count(d, next, now), Limit(d)}) |-> next + (i - 1) * d.every]

Selected(d, due, more, now) ==
  LET last == Len(due)
  IN CASE d.misfire = "catch-up" -> DOMAIN due
       [] d.misfire = "latest"   -> IF more THEN {} ELSE {last}
       [] d.misfire = "skip"     -> IF more \/ now - due[last] > Grace THEN {} ELSE {last}

\* due: the schedules of the catalog of this scheduler.
IsDue(r) == row # None /\ row.state = "active" /\ Registered(r) /\ row.next <= clock

Claim(r) ==
  /\ r \in up
  /\ Unlocked
  /\ IsDue(r)
  /\ row.def = Registers[r]
  /\ LET d == row.def
         due == Batch(d, row.next, clock)
     IN tx' = [by |-> r, def |-> d, due |-> due, done |-> 0, seq |-> NextSequence,
               selected |-> Selected(d, due, More(d, row.next, clock), clock),
               new |-> {}, accepted |-> {}]
  /\ UNCHANGED <<clock, up, owners, row, history, faults>>

Visible == occurrences \cup tx.new

\* mutant
HasActiveBefore ==
  \E o \in occurrences :
    /\ o.state = "started"
    /\ o.run # None
    /\ chains[o.run] \in Active

\* hasActiveExecution, which follows continuation chains.
HasActiveExecution ==
  \E o \in Visible :
    /\ o.state = "started"
    /\ o.run # None
    /\ o.run \in tx.accepted \/ chains[o.run] \in Active

Recorded(at) == \E o \in Visible : o.at = at /\ o.trigger = "recurring"
Instant == tx.due[tx.done + 1]

Take(state, reason, run, accepted) ==
  tx' = [tx EXCEPT !.done = @ + 1, !.seq = @ + 1, !.accepted = @ \cup accepted,
                   !.new = @ \cup {Occurrence(tx.seq, Instant, "recurring", state, reason, run)}]

Pending(r) == tx # None /\ tx.by = r /\ tx.done < Len(tx.due)
Selects == (tx.done + 1) \in tx.selected
Overlaps == tx.def.overlap = "skip" /\ HasActiveExecution

AlreadyRecorded(r) ==
  /\ Pending(r)
  /\ Recorded(Instant)
  /\ tx' = [tx EXCEPT !.done = @ + 1]
  /\ UNCHANGED <<clock, up, owners, row, history, faults>>

Misfire(r) ==
  /\ Pending(r)
  /\ ~Recorded(Instant)
  /\ ~Selects
  /\ Take("skipped", "misfire", None, {})
  /\ UNCHANGED <<clock, up, owners, row, history, faults>>

Overlap(r) ==
  /\ Pending(r)
  /\ ~Recorded(Instant)
  /\ Selects
  /\ Overlaps
  /\ Take("skipped", "overlap", None, {})
  /\ UNCHANGED <<clock, up, owners, row, history, faults>>

\* The execution is accepted under the key of its instant: one that exists is
\* found again, one that was pruned is refused for good.
StartDue(r) ==
  /\ Pending(r)
  /\ ~Recorded(Instant)
  /\ Selects
  /\ ~Overlaps
  /\ LET name == <<"due", Instant>>
     IN IF chains[name] = "pruned"
        THEN Take("failed", "EXECUTION_PRUNED", None, {})
        ELSE Take("started", None, name, IF chains[name] = "none" THEN {name} ELSE {})
  /\ UNCHANGED <<clock, up, owners, row, history, faults>>

\* The input resolver, its validation or the acceptance fails for good.
FailDue(r) ==
  /\ Pending(r)
  /\ ~Recorded(Instant)
  /\ Selects
  /\ ~Overlaps
  /\ Take("failed", "SCHEDULE_INPUT_ERROR", None, {})
  /\ UNCHANGED <<clock, up, owners, row, history, faults>>

\* mutant
CommitFromNow(r) ==
  /\ tx # None /\ tx.by = r /\ tx.done = Len(tx.due)
  /\ row' = [row EXCEPT !.next = NextAt(tx.def, clock)]
  /\ occurrences' = Visible
  /\ chains' = [n \in Names |-> IF n \in tx.accepted THEN "open" ELSE chains[n]]
  /\ tx' = None
  /\ UNCHANGED <<clock, up, owners, keys, retired, faults>>

Commit(r) ==
  /\ tx # None /\ tx.by = r /\ tx.done = Len(tx.due)
  /\ row' = [row EXCEPT !.next = NextAt(tx.def, tx.due[Len(tx.due)])]
  /\ occurrences' = Visible
  /\ chains' = [n \in Names |-> IF n \in tx.accepted THEN "open" ELSE chains[n]]
  /\ tx' = None
  /\ UNCHANGED <<clock, up, owners, keys, retired, faults>>

\* mutant
RollbackOccurrences(r) ==
  /\ tx # None /\ tx.by = r
  /\ faults < MaxFaults
  /\ faults' = faults + 1
  /\ chains' = [n \in Names |-> IF n \in tx.accepted THEN "open" ELSE chains[n]]
  /\ tx' = None
  /\ UNCHANGED <<clock, up, owners, row, occurrences, keys, retired>>

\* A temporary failure, a lost lease, a lost connection.
Rollback(r) ==
  /\ tx # None /\ tx.by = r
  /\ faults < MaxFaults
  /\ faults' = faults + 1
  /\ tx' = None
  /\ UNCHANGED <<clock, up, owners, row, history>>

\* mutant
CrashKeepsLock(r) ==
  /\ r \in up
  /\ faults < MaxFaults
  /\ faults' = faults + 1
  /\ up' = up \ {r}
  /\ tx' = IF tx # None /\ tx.by = r THEN [tx EXCEPT !.by = None] ELSE tx
  /\ UNCHANGED <<clock, owners, row, history>>

\* A stop leaves the ownership lease to expire, like a crash.
Crash(r) ==
  /\ r \in up
  /\ faults < MaxFaults
  /\ faults' = faults + 1
  /\ up' = up \ {r}
  /\ tx' = IF tx # None /\ tx.by = r THEN None ELSE tx
  /\ UNCHANGED <<clock, owners, row, history>>
-----------------------------------------------------------------------------
\* Operators.

\* mutant
PauseUnlocked ==
  /\ row # None /\ row.state = "active"
  /\ row' = [row EXCEPT !.state = "paused", !.held = TRUE]
  /\ UNCHANGED <<clock, up, owners, history, tx, faults>>

Pause ==
  /\ Unlocked /\ row # None /\ row.state = "active"
  /\ row' = [row EXCEPT !.state = "paused", !.held = TRUE]
  /\ UNCHANGED <<clock, up, owners, history, tx, faults>>

Resume ==
  /\ Unlocked /\ row # None /\ row.state = "paused"
  /\ row' = [row EXCEPT !.state = "active", !.held = FALSE]
  /\ UNCHANGED <<clock, up, owners, history, tx, faults>>

UpdateDefinition(d) ==
  /\ Unlocked /\ row # None
  /\ row' = Row(d, clock)
  /\ UNCHANGED <<clock, up, owners, history, tx, faults>>

Remove ==
  /\ Unlocked /\ row # None /\ row.state \in {"paused", "orphaned"}
  /\ row' = None
  /\ UNCHANGED <<clock, up, owners, history, tx, faults>>

KeyName(k) == <<"manual", IF k = None THEN NextSequence ELSE k>>
Reserve(k) == keys' = IF k = None THEN keys ELSE [keys EXCEPT ![k] = NextSequence]
Triggerable(k) ==
  /\ Unlocked /\ row # None /\ row.state # "orphaned"
  /\ k # None => keys[k] = 0
  /\ NextSequence <= MaxSequence

\* trigger: a key that is reserved answers with what it started before.
Trigger(k) ==
  /\ Triggerable(k)
  /\ occurrences' = occurrences \cup
       {Occurrence(NextSequence, clock, "manual", "started", None, KeyName(k))}
  /\ chains' = [chains EXCEPT ![KeyName(k)] = "open"]
  /\ Reserve(k)
  /\ UNCHANGED <<clock, up, owners, row, retired, tx, faults>>

\* Only a runtime with the schedule in its catalog resolves the input.
TriggerFails(k) ==
  /\ Triggerable(k)
  /\ \E r \in up : Registered(r)
  /\ occurrences' = occurrences \cup
       {Occurrence(NextSequence, clock, "manual", "failed", "SCHEDULE_INPUT_ERROR", None)}
  /\ Reserve(k)
  /\ UNCHANGED <<clock, up, owners, row, retired, chains, tx, faults>>

\* mutant
EligibleKeys(o) ==
  /\ \E p \in occurrences : p.seq > o.seq
  /\ o.run # None => chains[o.run] # "open"

\* What previewScheduleRetention lists and pruneScheduleRetention checks again.
Eligible(o) ==
  /\ \E p \in occurrences : p.seq > o.seq
  /\ \A k \in Keys : keys[k] # o.seq
  /\ o.run # None => chains[o.run] # "open"

PruneOccurrence(o) ==
  /\ Retention /\ Unlocked
  /\ Eligible(o)
  /\ occurrences' = occurrences \ {o}
  /\ retired' = retired \cup (IF o.trigger = "recurring" THEN {o.at} ELSE {})
  /\ UNCHANGED <<clock, up, owners, row, keys, chains, tx, faults>>
-----------------------------------------------------------------------------
\* The executions, which take no lock of the schedule.

SetChain(n, s) ==
  /\ chains' = [chains EXCEPT ![n] = s]
  /\ UNCHANGED <<clock, up, owners, row, keys, retired, tx, faults>>

ContinueAsNew(n) == chains[n] = "open" /\ SetChain(n, "continued") /\ UNCHANGED occurrences
End(n) == chains[n] \in Active /\ SetChain(n, "ended") /\ UNCHANGED occurrences

\* prune of an execution: the occurrence stays, its link is cleared.
PruneExecution(n) ==
  /\ chains[n] = "ended"
  /\ SetChain(n, "pruned")
  /\ occurrences' = {[o EXCEPT !.run = IF @ = n THEN None ELSE @] : o \in occurrences}

Tick ==
  /\ clock < Horizon
  /\ clock' = clock + 1
  /\ UNCHANGED <<up, owners, row, history, tx, faults>>

SetBack ==
  /\ SetsBack
  /\ clock > 0 /\ faults < MaxFaults
  /\ clock' = clock - 1 /\ faults' = faults + 1
  /\ UNCHANGED <<up, owners, row, history, tx>>
-----------------------------------------------------------------------------
Own(r) == Register(r) \/ RenewOwnership(r) \/ ReconcileMissing(r) \/ LeaseExpires(r)
Materialize(r) ==
  Claim(r) \/ AlreadyRecorded(r) \/ Misfire(r) \/ Overlap(r) \/ StartDue(r) \/ FailDue(r) \/ Commit(r)
Administer ==
  \/ Pause \/ Resume \/ Remove
  \/ \E d \in Redefined : UpdateDefinition(d)
  \/ \E k \in Keys \cup {None} : Trigger(k) \/ TriggerFails(k)
  \/ \E o \in occurrences : PruneOccurrence(o)
Execute == \E n \in Names : ContinueAsNew(n) \/ End(n) \/ PruneExecution(n)

Next ==
  \/ \E r \in Runtimes : Own(r) \/ Materialize(r) \/ Rollback(r) \/ Crash(r)
  \/ Administer
  \/ Execute
  \/ Tick \/ SetBack

Spec == Init /\ [][Next]_vars

\* The loops of a runtime that runs come round again, and time passes.
Fairness ==
  /\ \A r \in Runtimes : WF_vars(Materialize(r)) /\ WF_vars(LeaseExpires(r) /\ r \notin up)
                         /\ WF_vars(ReconcileMissing(r))
  /\ WF_vars(Tick)
FairSpec == Spec /\ Fairness
-----------------------------------------------------------------------------
Recurring == {o \in occurrences : o.trigger = "recurring"}

Rows == [state: {"active", "paused", "orphaned"}, def: Definitions, next: Nat, since: Nat, held: BOOLEAN]
Rec == [seq: Nat \ {0}, at: Nat, trigger: {"recurring", "manual"}, state: {"started", "skipped", "failed"},
        reason: {None, "misfire", "overlap", "EXECUTION_PRUNED", "SCHEDULE_INPUT_ERROR"}, run: Names \cup {None}]

ASSUME NullAssumption == None \notin Nat \cup Names \cup Rows \cup {"misfire"}

\* The states are well formed, and what a materialization works on is the row
\* as it is: the lock keeps everybody else from writing it.
TypeOK ==
  /\ clock \in 0..Horizon
  /\ up \subseteq Runtimes /\ owners \subseteq Runtimes
  /\ row # None => row \in Rows
  /\ occurrences \subseteq Rec
  /\ keys \in [Keys -> Nat] /\ retired \subseteq Nat
  /\ chains \in [Names -> ChainStates]
  /\ tx # None =>
       /\ tx.by \in up
       /\ tx.new \subseteq Rec /\ tx.accepted \subseteq Due
       /\ tx.done \in 0..Len(tx.due)
       /\ row # None /\ row.state = "active" /\ row.def = tx.def /\ row.next = tx.due[1]
       /\ \A o \in occurrences : o.seq < tx.seq
  /\ faults \in 0..MaxFaults

\* The cursor leaves nothing behind: every instant of the timeline it passed
\* has its occurrence, whatever the policies, the bounds of a pass, crashes
\* between its statements and pauses did.
NoInstantLost ==
  row # None =>
    \A t \in row.since..(row.next - 1) :
      (t - row.since) % row.def.every = 0 => t \in retired \/ \E o \in Recurring : o.at = t

\* The history has one occurrence per sequence and per recurring instant.
IdentitiesAreUnique ==
  \A o, p \in occurrences :
    o # p => o.seq # p.seq /\ ~(o.trigger = "recurring" /\ p.trigger = "recurring" /\ o.at = p.at)

\* A reserved manual key finds its occurrence, and its execution or the tombstone
\* of it.
KeysAreFound ==
  \A k \in Keys : keys[k] # 0 =>
    \E o \in occurrences :
      /\ o.seq = keys[k] /\ o.trigger = "manual"
      /\ o.state = "failed" \/ chains[<<"manual", k>>] # "none"

\* The keys of the history hold, whatever retention, removal and a clock that is
\* set back do in between: schedulers and manual triggers agree on sequences and
\* instants, of which a violation would fail every later pass, and trigger never
\* meets a key without what it started (STORAGE_INTEGRITY).
KeysHold == IdentitiesAreUnique /\ KeysAreFound

\* misfire: 'latest' starts something once a backlog is drained, also when the
\* backlog takes several passes: an instant right before the cursor was not
\* passed over unless more is due. (The clock is not set back.)
LatestIsNotMissed ==
  row # None /\ row.def.misfire = "latest" /\ row.next > row.since =>
    \A o \in Recurring :
      o.at = row.next - row.def.every /\ o.reason = "misfire" => row.next <= clock

\* A paused schedule stays paused until somebody resumes or redefines it. Does not
\* hold when the lease of its owner runs out meanwhile (README, section 6).
PauseHolds == row # None /\ row.held => row.state # "active"

\* Recurring occurrences are committed only while the schedule is active with
\* the definition they were computed from: no pause, redefinition, removal or
\* orphaning gets between the claim of a pass and its commit.
DecidedWhileActive ==
  [][\A o \in occurrences' :
       o.trigger = "recurring" /\ (\A p \in occurrences : p.seq # o.seq) =>
         row # None /\ row.state = "active" /\ row.def = tx.def]_vars

\* Under overlap: 'skip' no recurring execution starts beside a named chain of the
\* schedule that is active once the pass is committed.
StartsAlone(named) ==
  \A n \in Due : chains[n] = "none" /\ chains'[n] = "open" /\ tx.def.overlap = "skip" =>
    \A m \in named \ {n} : chains'[m] \notin Active

\* Over Names, not only the occurrences that are left, it does not hold: retention
\* may take the occurrence of a chain that goes on (README, section 6).
ContinuationsFollowed == [][StartsAlone(Names)]_vars

\* Under overlap: 'skip' no recurring execution starts while a chain is active that
\* an occurrence links when the pass is committed: of an earlier instant, of another
\* instant of the same pass, of a manual trigger, of a definition that was removed.
OverlapSkipped == [][StartsAlone({n \in Names : \E o \in occurrences' : o.run = n})]_vars

\* Schedules implements FiredInstants.
Timeline == INSTANCE FiredInstants WITH
  cursor <- IF row = None THEN None ELSE row.next,
  fired <- {t \in 0..Horizon : chains[<<"due", t>>] # "none"}
TimelineSpec == Timeline!Spec

Served(r) == r \in up /\ row # None /\ row.state = "active" /\ row.def = Registers[r]

\* What is due is decided, through crashes of the other scheduler and
\* temporary failures, if a runtime with this definition runs on.
DueIsDecided ==
  \A r \in Runtimes : (Served(r) /\ row.next <= clock) ~> (~Served(r) \/ row.next > clock)

\* A rolling deployment orphans a schedule it removed once the old owners are
\* gone.
OrphanedAtLast ==
  \A r \in Runtimes :
    <>[](r \in up /\ ~Registered(r) /\ \A q \in up : ~Registered(q)) =>
      []<>(row = None \/ row.state = "orphaned")
=============================================================================
