-------------------------- MODULE ExecutionResults --------------------------
(***************************************************************************)
(* WorkflowHandle.result(): callers of one process wait for the end of a   *)
(* chain of generations. A caller reads, registers a waiter, reads again,  *)
(* and is woken by a hint: a local publication inside the writing          *)
(* transaction, a PostgreSQL notification at its commit, the recovery of   *)
(* the listener, or the fallback timer. Hints may be early, late, lost or  *)
(* about transactions that roll back; the database alone decides.          *)
(*                                                                         *)
(* A read of the database and what the caller does with it are two steps.  *)
(* Time is counted in fallback intervals.                                  *)
(***************************************************************************)
EXTENDS Integers, Sequences

CONSTANTS
  Clients,      \* calls of result()
  Generations,  \* bound of the model: length of the chain
  MaxRevision,  \* bound of the model: events of a run before its last one
  Storages,     \* those checked: "postgres", "sqlite" of one process, "shared" SQLite of several
  MaxTimeout,   \* bound of the model: the longest timeout
  MaxLost,      \* bound of the model: lost connections of the listener
  None          \* undefined

ASSUME BoundAssumption ==
  /\ {Generations, MaxRevision, MaxTimeout} \subseteq Nat \ {0} /\ MaxLost \in Nat
  /\ Storages \subseteq {"postgres", "sqlite", "shared"}

VARIABLES
  storage,   \* the driver of the process
  run,       \* better_workflows_runs: the state of each generation
  revision,  \* their event_sequence
  tx,        \* a transaction of this process that holds the row, or None
  notes,     \* external: notifications queued by PostgreSQL for the listener
  listener,  \* its connection: "down", "joined" (LISTEN done), "listening"
  up,        \* the runtime is not stopped
  client,    \* the callers
  waiter,    \* the waiter registered for each, or None
  aborted,   \* callers whose AbortSignal has fired
  lost       \* history: lost connections

database == <<run, revision, tx>>
connection == <<notes, listener, lost>>
vars == <<storage, run, revision, tx, notes, listener, up, client, waiter, aborted, lost>>

Chain == 1..Generations
Ended == {"completed", "failed"}  \* "failed" also stands for "cancelled"
States == {"none", "open", "continued", "gone"} \cup Ended
Over == \E g \in Chain : run[g] \in Ended \cup {"gone"}

\* pc: the next step of result(). after: the revision of the row it has read.
\* left: fallback intervals to the deadline, None without one.
Idle == [pc |-> "idle", at |-> 1, after |-> 0, left |-> None, answer |-> None]

Init ==
  /\ storage \in Storages
  /\ run = [g \in Chain |-> IF g = 1 THEN "open" ELSE "none"]
  /\ revision = [g \in Chain |-> IF g = 1 THEN 1 ELSE 0]
  /\ tx = None
  /\ notes = <<>> /\ listener = "down" /\ lost = 0
  /\ up = TRUE
  /\ client = [c \in Clients |-> Idle]
  /\ waiter = [c \in Clients |-> None]
  /\ aborted = {}

At(c, pc) == client[c].pc = pc
Gone(g) == run[g] = "gone"

\* One connection serves a process under SQLite: it reads nothing while a
\* transaction of its own is open.
Readable == up /\ (storage = "postgres" \/ tx = None)
-----------------------------------------------------------------------------
\* The notifier. A settled waiter is unregistered and its caller goes on.

Waiters == {c \in Clients : waiter[c] # None}
Unregister(S) == waiter' = [c \in Clients |-> IF c \in S THEN None ELSE waiter[c]]
Resolve(S) ==
  /\ Unregister(S)
  /\ client' = [c \in Clients |-> IF c \in S THEN [client[c] EXCEPT !.pc = "check"] ELSE client[c]]
Answered(r, a) == [r EXCEPT !.pc = "told", !.answer = a]
Reject(S, a) ==
  /\ Unregister(S)
  /\ client' = [c \in Clients |-> IF c \in S THEN Answered(client[c], a) ELSE client[c]]

Shutdown == Reject(Waiters, "RUNTIME_SHUTDOWN")

Publish(g, rev) == Resolve({c \in Waiters : client[c].at = g /\ rev > waiter[c].after})
-----------------------------------------------------------------------------
\* result(), for each caller.

Go(c, pc) == client' = [client EXCEPT ![c].pc = pc]
Tell(c, a) == client' = [client EXCEPT ![c] = Answered(@, a)]

Ask(c) ==
  /\ At(c, "idle") /\ up
  /\ \E t \in {None} \cup 1..MaxTimeout :
       client' = [client EXCEPT ![c].pc = "check", ![c].left = t]
  /\ UNCHANGED <<storage, database, connection, up, waiter, aborted>>

Check(c) ==
  /\ At(c, "check")
  /\ IF c \in aborted THEN Tell(c, "WAIT_ABORTED") ELSE Go(c, "describe")
  /\ UNCHANGED <<storage, database, connection, up, waiter, aborted>>

\* The generation a read is about: describe also reads the next one.
Target(c) == IF At(c, "follow") THEN client[c].at + 1 ELSE client[c].at
Reads(c) == client[c].pc \in {"describe", "follow", "fetch", "row"}

Refuse(c) ==
  /\ Reads(c) /\ ~up
  /\ Tell(c, "RUNTIME_NOT_READY")
  /\ UNCHANGED <<storage, database, connection, up, waiter, aborted>>

NotFound(c) ==
  /\ Reads(c) /\ Readable /\ Gone(Target(c))
  /\ Tell(c, "EXECUTION_NOT_FOUND")
  /\ UNCHANGED <<storage, database, connection, up, waiter, aborted>>

Found(c, pc) == At(c, pc) /\ Readable /\ ~Gone(Target(c))

Describe(c) ==
  /\ Found(c, "describe")
  /\ CASE run[client[c].at] = "completed" -> Go(c, "fetch")
       [] run[client[c].at] = "failed"    -> Tell(c, "failed")
       [] run[client[c].at] = "continued" -> Go(c, "follow")
       [] run[client[c].at] = "open"      -> Go(c, "row")
  /\ UNCHANGED <<storage, database, connection, up, waiter, aborted>>

Follow(c) ==
  /\ Found(c, "follow")
  /\ IF client[c].left = 0 THEN Tell(c, "WAIT_TIMEOUT")
     ELSE client' = [client EXCEPT ![c].pc = "check", ![c].at = @ + 1]
  /\ UNCHANGED <<storage, database, connection, up, waiter, aborted>>

Fetch(c) ==
  /\ Found(c, "fetch")
  /\ Tell(c, "completed")
  /\ UNCHANGED <<storage, database, connection, up, waiter, aborted>>

\* A run that has ended since is described again.
ReadRow(c) ==
  /\ Found(c, "row")
  /\ IF run[client[c].at] = "open"
     THEN client' = [client EXCEPT ![c].pc = "wait", ![c].after = revision[client[c].at]]
     ELSE Go(c, "check")
  /\ UNCHANGED <<storage, database, connection, up, waiter, aborted>>

\* ExecutionNotifier.wait: the waiter is registered, and the revision is read
\* once more. The last timer of a waiter is its timeout.
Waiter(c, reading) == [after |-> client[c].after, reading |-> reading, last |-> client[c].left = 1]

TimedOut(c) ==
  /\ At(c, "wait") /\ client[c].left = 0
  /\ Tell(c, "WAIT_TIMEOUT")
  /\ UNCHANGED <<storage, database, connection, up, waiter, aborted>>

Turned(c) ==
  /\ At(c, "wait") /\ client[c].left # 0
  /\ ~up \/ c \in aborted
  /\ Tell(c, IF up THEN "WAIT_ABORTED" ELSE "RUNTIME_SHUTDOWN")
  /\ UNCHANGED <<storage, database, connection, up, waiter, aborted>>

\* mutant
WaitUnread(c) ==
  /\ At(c, "wait") /\ client[c].left # 0
  /\ up /\ c \notin aborted
  /\ waiter' = [waiter EXCEPT ![c] = Waiter(c, FALSE)]
  /\ Go(c, "waiting")
  /\ UNCHANGED <<storage, database, connection, up, aborted>>
Wait(c) ==
  /\ At(c, "wait") /\ client[c].left # 0
  /\ up /\ c \notin aborted
  /\ waiter' = [waiter EXCEPT ![c] = Waiter(c, TRUE)]
  /\ Go(c, "waiting")
  /\ UNCHANGED <<storage, database, connection, up, aborted>>

ReadRevision(c) ==
  /\ c \in Waiters /\ Readable
  /\ waiter[c].reading
  /\ IF Gone(client[c].at) THEN Reject({c}, "EXECUTION_NOT_FOUND")
     ELSE IF revision[client[c].at] > waiter[c].after THEN Resolve({c})
     ELSE waiter' = [waiter EXCEPT ![c].reading = FALSE] /\ UNCHANGED client
  /\ UNCHANGED <<storage, database, connection, up, aborted>>

Expire(c) ==
  /\ c \in Waiters
  /\ waiter[c].last
  /\ Reject({c}, "WAIT_TIMEOUT")
  /\ UNCHANGED <<storage, database, connection, up, aborted>>

Spend(t) == IF t \in {None, 0} THEN t ELSE t - 1
\* mutant
FallbackUnspent(c) ==
  /\ c \in Waiters
  /\ ~waiter[c].last
  /\ Resolve({c})
  /\ UNCHANGED <<storage, database, connection, up, aborted>>
Fallback(c) ==
  /\ c \in Waiters
  /\ ~waiter[c].last
  /\ Unregister({c})
  /\ client' = [client EXCEPT ![c].pc = "check", ![c].left = Spend(@)]
  /\ UNCHANGED <<storage, database, connection, up, aborted>>

\* Time also passes while the caller reads.
Elapse(c) ==
  /\ client[c].pc \notin {"idle", "waiting", "told"}
  /\ client[c].left \notin {None, 0}
  /\ client' = [client EXCEPT ![c].left = Spend(@)]
  /\ UNCHANGED <<storage, database, connection, up, waiter, aborted>>

Abort(c) ==
  /\ ~At(c, "idle") /\ ~At(c, "told") /\ c \notin aborted
  /\ aborted' = aborted \cup {c}
  /\ Reject({c} \cap Waiters, "WAIT_ABORTED")
  /\ UNCHANGED <<storage, database, connection, up>>
-----------------------------------------------------------------------------
\* The writers. Every event adds one to the revision of its run.

Writes(g, to) ==
  /\ tx = None
  /\ run[g] = "open"
  /\ CASE to = "open"      -> revision[g] < MaxRevision
       [] to = "continued" -> g < Generations
       [] OTHER            -> TRUE
Apply(g, to) ==
  LET new == IF to = "continued" THEN {g + 1} ELSE {}
  IN /\ run' = [h \in Chain |-> IF h = g THEN to ELSE IF h \in new THEN "open" ELSE run[h]]
     /\ revision' = [h \in Chain |-> IF h \in {g} \cup new THEN revision[h] + 1 ELSE revision[h]]
Notify(g) ==
  /\ notes' = IF storage = "postgres" /\ listener # "down"
              THEN Append(notes, [at |-> g, revision |-> revision[g] + 1]) ELSE notes
  /\ UNCHANGED <<listener, lost>>

\* Journal.event publishes to the process before its transaction commits.
Begin(g, to) ==
  /\ up /\ Writes(g, to)
  /\ tx' = [at |-> g, to |-> to]
  /\ Publish(g, revision[g] + 1)
  /\ UNCHANGED <<storage, run, revision, connection, up, aborted>>
Commit ==
  /\ tx # None
  /\ Apply(tx.at, tx.to)
  /\ tx' = None
  /\ Notify(tx.at)
  /\ UNCHANGED <<storage, up, client, waiter, aborted>>
Rollback ==
  /\ tx # None
  /\ tx' = None
  /\ UNCHANGED <<storage, run, revision, connection, up, client, waiter, aborted>>

WriteElsewhere(g, to) ==
  /\ storage # "sqlite"
  /\ Writes(g, to)
  /\ Apply(g, to)
  /\ Notify(g)
  /\ UNCHANGED <<storage, tx, up, client, waiter, aborted>>

\* Retention removes a chain that has ended, and tells nobody.
Prune ==
  /\ tx = None
  /\ \E g \in Chain : run[g] \in Ended
  /\ run' = [g \in Chain |-> IF run[g] = "none" THEN "none" ELSE "gone"]
  /\ UNCHANGED <<storage, revision, tx, connection, up, client, waiter, aborted>>
-----------------------------------------------------------------------------
\* The listener and the end of the process.

Join ==
  /\ storage = "postgres" /\ up
  /\ listener = "down"
  /\ listener' = "joined"
  /\ UNCHANGED <<storage, database, notes, lost, up, client, waiter, aborted>>

Reconnected ==
  /\ listener = "joined"
  /\ listener' = "listening"
  /\ Resolve(Waiters)
  /\ UNCHANGED <<storage, database, notes, lost, up, aborted>>

Receive ==
  /\ listener = "listening" /\ notes # <<>>
  /\ notes' = Tail(notes)
  /\ Publish(Head(notes).at, Head(notes).revision)
  /\ UNCHANGED <<storage, database, listener, lost, up, aborted>>

Lose ==
  /\ listener # "down"
  /\ lost < MaxLost
  /\ listener' = "down" /\ notes' = <<>> /\ lost' = lost + 1
  /\ UNCHANGED <<storage, database, up, client, waiter, aborted>>

\* Runtime.stop: shutdown settles every waiter in the same turn.
Stop ==
  /\ up
  /\ up' = FALSE
  /\ Shutdown
  /\ listener' = "down" /\ notes' = <<>>
  /\ UNCHANGED <<storage, database, lost, aborted>>
-----------------------------------------------------------------------------
Step(c) ==
  \/ Check(c) \/ Refuse(c) \/ NotFound(c) \/ Describe(c) \/ Follow(c) \/ Fetch(c) \/ ReadRow(c)
  \/ TimedOut(c) \/ Turned(c) \/ Wait(c) \/ ReadRevision(c)
Tick(c) == Expire(c) \/ Fallback(c) \/ Elapse(c)
Write == \E g \in Chain, to \in {"open", "continued"} \cup Ended : Begin(g, to) \/ WriteElsewhere(g, to)

Next ==
  \/ \E c \in Clients : Ask(c) \/ Step(c) \/ Tick(c) \/ Abort(c)
  \/ Write \/ Commit \/ Rollback \/ Prune
  \/ Join \/ Reconnected \/ Receive \/ Lose \/ Stop

Spec == Init /\ [][Next]_vars

\* Callers run on, also through the turns the connection gives to transactions;
\* transactions end, and time passes for whoever waits or has
\* a deadline. Nothing is asked of the listener and of the writers.
Fairness ==
  /\ \A c \in Clients : SF_vars(Step(c)) /\ WF_vars(Tick(c))
  /\ WF_vars(Commit \/ Rollback)
FairSpec == Spec /\ Fairness
-----------------------------------------------------------------------------
Answers == Ended \cup
  {"WAIT_TIMEOUT", "WAIT_ABORTED", "EXECUTION_NOT_FOUND", "RUNTIME_NOT_READY", "RUNTIME_SHUTDOWN"}

\* The states are well formed: a caller waits exactly while its waiter is
\* registered, on the revision it has read.
TypeOK ==
  /\ storage \in Storages /\ up \in BOOLEAN /\ aborted \subseteq Clients
  /\ run \in [Chain -> States] /\ revision \in [Chain -> 0..(MaxRevision + 1)]
  /\ tx # None => run[tx.at] = "open"
  /\ \A i \in DOMAIN notes : notes[i].revision <= revision[notes[i].at]
  /\ listener \in {"down", "joined", "listening"} /\ lost \in 0..MaxLost
  /\ \A c \in Clients :
       /\ client[c].at \in Chain /\ run[client[c].at] # "none"
       /\ client[c].left \in {None} \cup 0..MaxTimeout
       /\ client[c].answer \in Answers \cup {None}
       /\ At(c, "told") <=> client[c].answer # None
       /\ At(c, "waiting") <=> waiter[c] # None
       /\ waiter[c] # None => waiter[c].after \in 1..revision[client[c].at]

\* Unless other processes write an SQLite file, a hint is always on its way to
\* a waiter whose run has changed: its second read, a notification, or the
\* recovery of the listener. No order of reads, commits, rollbacks, early
\* publications and lost connections leaves it to the fallback timer.
HintsSuffice ==
  \A c \in Waiters :
    revision[client[c].at] > waiter[c].after =>
      \/ waiter[c].reading
      \/ storage = "shared"
      \/ /\ storage = "postgres"
         /\ \/ listener # "listening"
            \/ \E i \in DOMAIN notes : notes[i].at = client[c].at /\ notes[i].revision > waiter[c].after

\* Every caller is told once the chain has ended or was pruned, the runtime has
\* stopped, or it has a timeout: however hints are lost, late or early, generations
\* go by and hints restart the wait.
ResultIsTold ==
  \A c \in Clients :
    ~At(c, "idle") /\ (Over \/ ~up \/ client[c].left # None) ~> At(c, "told")
=============================================================================
