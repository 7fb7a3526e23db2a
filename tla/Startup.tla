------------------------------ MODULE Startup ------------------------------
(***************************************************************************)
(* The start of application processes against one database: the catalog is *)
(* discovered, the schema migrated or validated, the shared limits of the  *)
(* queue registered, and only then does a process serve. Several processes *)
(* start, stop, die and are started again, are probed, and a newer release *)
(* of the package may upgrade the database at any time.                    *)
(***************************************************************************)
EXTENDS Upgrades, Registry

CONSTANTS
  Processes,
  Situations,   \* what Init chooses from: [db, app, starts]; the last is a bound of
                \* the model: how often processes are started
  Limits,       \* what a deployment may configure for the queue
  Orders(_)     \* the orders in which the features of an application may come

ASSUME StartupAssumption ==
  /\ None \notin Processes \cup Limits
  /\ \A s \in Situations :
       /\ s.starts \in Nat /\ s.db \in Databases /\ IsApplication(s.app)
       /\ \A order \in Orders(s.app) : IsOrder(order, s.app)

VARIABLES
  db,        \* the database: tables and ledgers
  limit,     \* better_workflows_limits of the queue
  advisory,  \* holder of the advisory lock of the migrators
  situation, \* what Init chose
  launches,  \* starts so far
  pc,        \* of each process: where its bootstrap is
  mode,      \* its option migrations: "run" or "validate"
  wanted,    \* the limit it configures
  catalog,   \* its catalog, until the bootstrap goes on
  at,        \* the statement its inspection of the schema comes to
  reading,   \* what the inspection has read
  failure,   \* why its bootstrap failed; "CATALOG" if the catalog has the failure
  probe      \* its last readiness probe: [ready, newer]

database == <<db, limit, advisory>>
process == <<pc, mode, wanted, catalog, at, reading, failure, probe>>
vars == <<database, situation, launches, process>>

Newer == JournalVersion + 1
NewerIsHere == Newer \in db.ledger["journal"]
NoProbe == [ready |-> FALSE, newer |-> FALSE]
Inspections == {"idle", "names", "journal", "cluster", "queue", "done"} \cup DOMAIN Columns

Init ==
  /\ situation \in Situations
  /\ db = situation.db
  /\ limit = None /\ advisory = None /\ launches = 0
  /\ pc = [p \in Processes |-> "down"]
  /\ mode = [p \in Processes |-> "run"]
  /\ wanted = [p \in Processes |-> None]
  /\ catalog = [p \in Processes |-> EmptyCatalog]
  /\ at = [p \in Processes |-> "idle"]
  /\ reading = [p \in Processes |-> Nothing]
  /\ failure = [p \in Processes |-> "none"]
  /\ probe = [p \in Processes |-> NoProbe]

(***************************************************************************)
(* The bootstrap up to the storage. A failure disposes what there is and   *)
(* is thrown; the process ends.                                            *)
(***************************************************************************)
Refuse(p, code) ==
  /\ pc' = [pc EXCEPT ![p] = "refused"]
  /\ failure' = [failure EXCEPT ![p] = code]
Launch(p, m, l) ==
  /\ pc[p] = "down" /\ launches < situation.starts
  /\ launches' = launches + 1
  /\ pc' = [pc EXCEPT ![p] = "discover"]
  /\ mode' = [mode EXCEPT ![p] = m]
  /\ wanted' = [wanted EXCEPT ![p] = l]
  /\ UNCHANGED <<database, situation, catalog, at, reading, failure, probe>>
DiscoverFeatures(p, order) ==
  /\ pc[p] = "discover"
  /\ catalog' = [catalog EXCEPT ![p] = Discover(situation.app, order)]
  /\ IF catalog'[p].failure = "none"
     THEN pc' = [pc EXCEPT ![p] = "connect"] /\ UNCHANGED failure
     ELSE Refuse(p, "CATALOG")
  /\ UNCHANGED <<database, situation, launches, mode, wanted, at, reading, probe>>
\* makeInfrastructure returns; the first use of its runtime prepares the database.
Connect(p) ==
  /\ pc[p] = "connect"
  /\ pc' = [pc EXCEPT ![p] = IF mode[p] = "run" THEN "migrate" ELSE "validate"]
  /\ at' = [at EXCEPT ![p] = IF mode[p] = "run" THEN "idle" ELSE "names"]
  /\ catalog' = [catalog EXCEPT ![p] = EmptyCatalog]
  /\ UNCHANGED <<database, situation, launches, mode, wanted, reading, failure, probe>>

(***************************************************************************)
(* migrateAll: one transaction, which first waits for the lock. A database *)
(* that another has changed since it was read makes it fail, since both    *)
(* create the same relations.                                              *)
(***************************************************************************)
NoLock == TRUE
LockIsFree == advisory = None
Lock(p) ==
  /\ pc[p] = "migrate" /\ LockIsFree
  /\ advisory' = p
  /\ pc' = [pc EXCEPT ![p] = "migrating"]
  /\ reading' = [reading EXCEPT ![p] = ReadingOf(db)]
  /\ UNCHANGED <<db, limit, situation, launches, mode, wanted, catalog, at, failure, probe>>
Commit(p) ==
  LET outcome == IF ReadingOf(db) = reading[p] THEN MigrateFailure(db) ELSE "SQL_ERROR" IN
  /\ pc[p] = "migrating"
  /\ advisory' = None
  /\ reading' = [reading EXCEPT ![p] = Nothing]
  /\ IF outcome = "none"
     THEN /\ db' = Migrated(db)
          /\ pc' = [pc EXCEPT ![p] = "limits"] /\ UNCHANGED failure
     ELSE Refuse(p, outcome) /\ UNCHANGED db
  /\ UNCHANGED <<limit, situation, launches, mode, wanted, catalog, at, probe>>

(***************************************************************************)
(* migrationStatus outside a transaction, for validateMigrations and for   *)
(* readiness: statements of their own.                                     *)
(***************************************************************************)
After(statement) ==
  CASE statement = "names" -> "journal" [] statement = "journal" -> "cluster"
    [] statement = "cluster" -> "queue" [] statement = "queue" -> "runs"
    [] statement = "runs" -> "commands" [] statement = "commands" -> "waits"
    [] statement = "waits" -> "schedule_manual_keys" [] statement = "schedule_manual_keys" -> "done"
\* What p has read once the statement it has come to returns.
Observed(p) ==
  LET s == at[p]
      seen == reading[p]
  IN IF s = "names" THEN [seen EXCEPT !.names = NamesOf(db)]
     ELSE IF s \in Ledgers THEN [seen EXCEPT !.ledger[s] = LedgerOf(db, seen.names, s)]
     ELSE [seen EXCEPT !.columns = @ \cup ColumnsOf(db, seen.names, s)]
Read(p) ==
  /\ pc[p] \in {"validate", "serving"} /\ at[p] \notin {"idle", "done"}
  /\ reading' = [reading EXCEPT ![p] = Observed(p)]
  /\ at' = [at EXCEPT ![p] =
       IF at[p] = "queue" /\ StatusFailure(Observed(p)) # "none" THEN "done" ELSE After(at[p])]
  /\ UNCHANGED <<database, situation, launches, pc, mode, wanted, catalog, failure, probe>>
EndReading(p) ==
  /\ at' = [at EXCEPT ![p] = "idle"]
  /\ reading' = [reading EXCEPT ![p] = Nothing]
Validate(p) ==
  LET status == StatusFailure(reading[p]) IN
  /\ pc[p] = "validate" /\ at[p] = "done"
  /\ IF status # "none" THEN Refuse(p, status)
     ELSE IF ~Valid(reading[p]) THEN Refuse(p, "MIGRATIONS_REQUIRED")
     ELSE pc' = [pc EXCEPT ![p] = "limits"] /\ UNCHANGED failure
  /\ EndReading(p)
  /\ UNCHANGED <<database, situation, launches, mode, wanted, catalog, probe>>

\* Permits.register, after which the workers and the dispatcher are forked.
Stored(l) == IF limit = None THEN l ELSE limit
Register(p) ==
  /\ pc[p] = "limits"
  /\ IF Stored(wanted[p]) = wanted[p]
     THEN /\ limit' = Stored(wanted[p])
          /\ pc' = [pc EXCEPT ![p] = "serving"] /\ UNCHANGED failure
     ELSE Refuse(p, "QUEUE_LIMIT_CONFLICT") /\ UNCHANGED limit
  /\ UNCHANGED <<db, advisory, situation, launches, mode, wanted, catalog, at, reading, probe>>

(***************************************************************************)
(* A process that serves is probed, stopped, or dies.                      *)
(***************************************************************************)
StartProbe(p) ==
  /\ pc[p] = "serving" /\ at[p] = "idle"
  /\ at' = [at EXCEPT ![p] = "names"]
  /\ probe' = [probe EXCEPT ![p] = [ready |-> FALSE, newer |-> NewerIsHere]]
  /\ UNCHANGED <<database, situation, launches, pc, mode, wanted, catalog, reading, failure>>
\* The other checks look at the memory of the process: a loop that has not succeeded
\* for long is down.
AnswerProbe(p) ==
  /\ pc[p] = "serving" /\ at[p] = "done"
  /\ \E stale \in BOOLEAN :
       probe' = [probe EXCEPT ![p].ready = StatusFailure(reading[p]) = "none" /\ Valid(reading[p]) /\ ~stale]
  /\ EndReading(p)
  /\ UNCHANGED <<database, situation, launches, pc, mode, wanted, catalog, failure>>
\* The end of a process at any point, stopped or killed: what it had not
\* committed is rolled back, and its lock released.
Exit(p) ==
  /\ pc[p] # "down"
  /\ pc' = [pc EXCEPT ![p] = "down"]
  /\ advisory' = IF advisory = p THEN None ELSE advisory
  /\ mode' = [mode EXCEPT ![p] = "run"]
  /\ wanted' = [wanted EXCEPT ![p] = None]
  /\ catalog' = [catalog EXCEPT ![p] = EmptyCatalog]
  /\ failure' = [failure EXCEPT ![p] = "none"]
  /\ probe' = [probe EXCEPT ![p] = NoProbe]
  /\ EndReading(p)
  /\ UNCHANGED <<db, limit, situation, launches>>
\* A newer release, which only adds to a database that this one accepts, and
\* takes the same lock.
NewerRelease ==
  /\ advisory = None /\ MigrateFailure(db) = "none"
  /\ db' = [Migrated(db) EXCEPT !.ledger["journal"] = @ \cup {Newer}]
  /\ UNCHANGED <<limit, advisory, situation, launches, process>>

\* setQueueLimits, which the operator may use when every process is stopped; it
\* changes nothing while runs are active or permits out.
SetQueueLimits(l) ==
  /\ \A p \in Processes : pc[p] = "down"
  /\ limit # None /\ limit' = l
  /\ UNCHANGED <<db, advisory, situation, launches, process>>

Next ==
  \/ \E p \in Processes :
       \/ \E m \in {"run", "validate"}, l \in Limits : Launch(p, m, l)
       \/ \E order \in Orders(situation.app) : DiscoverFeatures(p, order)
       \/ Connect(p) \/ Lock(p) \/ Commit(p) \/ Read(p) \/ Validate(p) \/ Register(p)
       \/ StartProbe(p) \/ AnswerProbe(p) \/ Exit(p)
  \/ \E l \in Limits : SetQueueLimits(l)
  \/ NewerRelease
Spec == Init /\ [][Next]_vars

(***************************************************************************)
(* Properties.                                                             *)
(***************************************************************************)
TypeOK ==
  /\ db \in Databases
  /\ limit \in Limits \cup {None} /\ advisory \in Processes \cup {None}
  /\ launches \in 0..situation.starts
  /\ pc \in [Processes -> {"down", "discover", "connect", "migrate", "migrating", "validate",
                           "limits", "serving", "refused"}]
  /\ mode \in [Processes -> {"run", "validate"}]
  /\ wanted \in [Processes -> Limits \cup {None}]
  /\ at \in [Processes -> Inspections]

\* A process that serves finds every table and column it uses, however its
\* inspection fell among the upgrades of others; all that serve enforce the
\* same limits; and none answers a probe that it is ready if a newer release
\* had upgraded the database before it was asked.
ServingIsSound ==
  \A p \in Processes :
    /\ pc[p] = "serving" => Complete(db) /\ wanted[p] = limit
    /\ probe[p].ready => pc[p] = "serving" /\ ~probe[p].newer

\* On a database that a release which the guard knows has left (the guard refuses
\* those of versions 1 to 5), no process is refused because others start at the
\* same time: one that may migrate starts unless a newer release came
\* first, and one that only validates is told to wait for a migration, never
\* that the database is damaged.
HealthyStarts ==
  (\E v \in Upgradable : situation.db = Released(v)) =>
    \A p \in Processes :
      /\ failure[p] \notin {"SCHEMA_CORRUPT", "SQL_ERROR"}
      /\ failure[p] = "MIGRATIONS_REQUIRED" => mode[p] = "validate"
      /\ failure[p] = "SCHEMA_TOO_NEW" => NewerIsHere

\* Whatever the order the framework hands its features in, an application is
\* accepted exactly if every name has one owner and every use of a queue or an
\* activity is allowed by a chain of exports that leads to its owner, with a key
\* where the queue in the end limits per key; and its features may then call
\* exactly what such chains, or clients, show them. The process does the kinds of
\* work that its settings allow, and no other.
CatalogIsSound ==
  LET app == situation.app IN
  \A p \in Processes :
    /\ catalog[p].failure # "none" => ~Acceptable(app)
    /\ pc[p] = "connect" =>
         /\ Acceptable(app)
         /\ \A f \in FeaturesOf(app) : \A a \in DOMAIN catalog[p].activity :
              SeesActivity(app, catalog[p], f, a) <=> catalog[p].activity[a] \in {f} \cup Reached(app, a, f)
         /\ \A f \in FeaturesOf(app) : \A w \in catalog[p].contracts :
              SeesWorkflow(app, f, w) <=> \E g \in Imported(app, f) \cup {f} : w \in Clients(app, g)
         /\ \A q \in DOMAIN catalog[p].queue : catalog[p].perKey[q] = LimitsPerKey(app, q)
         /\ ServesWhatIsAllowed(app, catalog[p])
=============================================================================
