------------------------------ MODULE Upgrades ------------------------------
(***************************************************************************)
(* The schema of the database and its upgrades: which tables and columns   *)
(* each version of the journal has, what an inspection reports of a        *)
(* database, when the migrator refuses one, and what its transaction makes *)
(* of it. Start-up, in module Startup, uses these operators.               *)
(*                                                                         *)
(* A database is [tables, ledger]: the tables it has, with the columns     *)
(* that later versions added as entries "table.column" of their own (one   *)
(* for all the columns a version adds to a table), and the versions        *)
(* recorded in its three ledgers. The tables of the engine, which migrates *)
(* itself, are one entry for each of its ledgers.                          *)
(***************************************************************************)
EXTENDS Naturals, FiniteSets

JournalVersion == 11
Latest == [journal |-> JournalVersion, cluster |-> 3, queue |-> 2]
Ledgers == DOMAIN Latest
LedgerTable == [journal |-> "schema", cluster |-> "cluster", queue |-> "queue"]

\* What each version of the journal adds.
BaseTables == {"schema", "runs", "commands", "events", "signals", "waits", "retries", "claims"}
AdvancedTables == {"branches", "children", "sagas", "compensations", "timers", "limits",
                   "permits", "tombstones"}
DeliveryTables == {"activity_deliveries", "dead_letters"}
ScheduleTables == {"schedules", "schedule_occurrences"}
TriggerTables == {"schedule_inputs", "schedule_manual_keys"}
OwnerTables == {"schedule_owners"}
ScopeColumns == {"commands.scope"}
WakeColumns == {"waits.wake_requested"}
ChainColumns == {"runs.chain_id"}
SequenceColumns == {"schedule_manual_keys.sequence"}
TraceColumns == {"runs.trace_id"}
AddedBy ==
  << BaseTables, AdvancedTables \cup ScopeColumns, WakeColumns, {"reconciliations"}, ChainColumns,
     DeliveryTables, ScheduleTables, TriggerTables, SequenceColumns, OwnerTables, TraceColumns >>

Columns == [runs |-> ChainColumns \cup TraceColumns, commands |-> ScopeColumns,
            waits |-> WakeColumns, schedule_manual_keys |-> SequenceColumns]
AllColumns == UNION {Columns[t] : t \in DOMAIN Columns}
JournalEntries == UNION {AddedBy[v] : v \in 1..JournalVersion}
EngineTables == {"cluster", "queue"}
Tables == (JournalEntries \ AllColumns) \cup EngineTables
Entries == Tables \cup AllColumns

\* The databases of this release, of older ones and of the one to come.
Databases == [tables: SUBSET Entries, ledger: [Ledgers -> SUBSET (1..(JournalVersion + 1))]]

\* What release v leaves; v = 0 is an empty database.
Released(v) ==
  [tables |-> (UNION {AddedBy[w] : w \in 1..v}) \cup (IF v = 0 THEN {} ELSE EngineTables),
   ledger |-> [l \in Ledgers |-> IF v = 0 THEN {} ELSE IF l = "journal" THEN 1..v ELSE 1..Latest[l]]]
\* What an incomplete restore of a backup makes of it: one entry is lost.
Without(db, entry) ==
  [tables |-> db.tables \ ({entry} \cup IF entry \in DOMAIN Columns THEN Columns[entry] ELSE {}),
   ledger |-> [l \in Ledgers |-> IF entry = LedgerTable[l] THEN {} ELSE db.ledger[l]]]
\* The releases whose gaps the guard of the migrator knows: an empty database and
\* those from version 6 on. It refuses an intact database of versions 1 to 5.
Upgradable == {0} \cup 6..JournalVersion
Complete(db) == Entries \subseteq db.tables

(***************************************************************************)
(* An inspection reads the names of the tables, each ledger, and the       *)
(* columns of each table, in statements of their own: it is a reading      *)
(* [names, ledger, columns].                                               *)
(***************************************************************************)
Nothing == [names |-> {}, ledger |-> [l \in Ledgers |-> {}], columns |-> {}]
NamesOf(db) == db.tables \cap Tables
LedgerOf(db, names, l) == IF LedgerTable[l] \in names THEN db.ledger[l] ELSE {}
ColumnsOf(db, names, t) == IF t \in names THEN db.tables \cap Columns[t] ELSE {}

TooNew(reading, l) == \E v \in reading.ledger[l] : v > Latest[l]
HasGaps(reading, l) == reading.ledger[l] # 1..Cardinality(reading.ledger[l])
MissingTables(reading) == Tables \ reading.names
Missing(reading) ==
  (Tables \ reading.names) \cup
  UNION {Columns[t] \ reading.columns : t \in (DOMAIN Columns) \cap reading.names}
Valid(reading) == Missing(reading) = {} /\ \A l \in Ledgers : reading.ledger[l] = 1..Latest[l]

\* The failure of migrationStatus, or "none": that of the first ledger with one.
LedgerFailure(reading, l) ==
  IF TooNew(reading, l) THEN "SCHEMA_TOO_NEW" ELSE IF HasGaps(reading, l) THEN "SCHEMA_CORRUPT" ELSE "none"
StatusFailure(reading) ==
  LET FailureOf(l) == LedgerFailure(reading, l) IN
  IF FailureOf("journal") # "none" THEN FailureOf("journal")
  ELSE IF FailureOf("cluster") # "none" THEN FailureOf("cluster") ELSE FailureOf("queue")

(***************************************************************************)
(* migrateAll reads the database in its transaction, and refuses one that  *)
(* lacks what a version in its ledger must have left.                      *)
(***************************************************************************)
ReadingOf(db) ==
  LET names == NamesOf(db) IN
  [names |-> names, ledger |-> [l \in Ledgers |-> LedgerOf(db, names, l)],
   columns |-> UNION {ColumnsOf(db, names, t) : t \in DOMAIN Columns}]

BaseColumns == Columns["runs"] \cup Columns["commands"] \cup Columns["waits"]
StillToCome(v) ==
  (CASE v = 2 -> WakeColumns
     [] v = 4 -> ChainColumns
     [] v = 5 -> DeliveryTables
     [] v = 6 -> ScheduleTables \cup TriggerTables \cup SequenceColumns \cup OwnerTables
     [] v = 7 -> TriggerTables \cup SequenceColumns \cup OwnerTables
     [] v = 8 -> SequenceColumns \cup OwnerTables
     [] v = 9 -> OwnerTables
     [] OTHER -> {})
  \cup IF v < 11 THEN TraceColumns ELSE {}
LostBase(reading) ==
  (Missing(reading) \cap (BaseTables \cup BaseColumns)) \ (WakeColumns \cup TraceColumns \cup ScopeColumns)
Inconsistent(reading) ==
  LET applied == Cardinality(reading.ledger["journal"]) IN
  \/ applied = 1 /\ LostBase(reading) # {}
  \/ applied >= 2 /\ (Missing(reading) \cap JournalEntries) \ StillToCome(applied) # {}

\* migrateBase and migrateAdvanced: the versions that are applied, of which the
\* second and the third do not tolerate what they are about to create.
Pending(db) ==
  LET journal == db.ledger["journal"] \cup {1} IN
  IF JournalVersion \in journal THEN {}
  ELSE (1..JournalVersion) \ (journal \cup IF 3 \in journal THEN {2} ELSE {})
Collides(db) ==
  \/ 2 \in Pending(db) /\ AdvancedTables \cap db.tables # {}
  \/ 3 \in Pending(db) /\ WakeColumns \subseteq db.tables
\* The engine's migrators, run first, bring its own tables and ledgers up to date.
EngineMigrated(db) ==
  [tables |-> db.tables \cup EngineTables,
   ledger |-> [l \in Ledgers |-> IF l = "journal" THEN db.ledger[l] ELSE 1..Latest[l]]]
Migrated(db) ==
  [EngineMigrated(db) EXCEPT
     !.tables = @ \cup BaseTables \cup UNION {AddedBy[v] : v \in Pending(db)},
     !.ledger["journal"] = @ \cup {1} \cup Pending(db)]

\* The failure of migrateAll on a database it has for itself, or "none".
MigrateFailure(db) ==
  LET before == ReadingOf(db) IN
  IF StatusFailure(before) # "none" THEN StatusFailure(before)
  ELSE IF Inconsistent(before) THEN "SCHEMA_CORRUPT"
  ELSE IF Collides(db) THEN "SQL_ERROR"
  ELSE IF ~Valid(ReadingOf(Migrated(db))) THEN "MIGRATIONS_REQUIRED"
  ELSE "none"
=============================================================================
