--------------------------- MODULE StartupProofs ---------------------------
(***************************************************************************)
(* Theorems about the start of processes and the upgrades of the schema,   *)
(* for every number of processes, starts and limits, and for every         *)
(* database that this release, an older one or the one to come can leave,  *)
(* whole or damaged; and about the catalog of every application, in every   *)
(* order of its features.                                                  *)
(***************************************************************************)
EXTENDS Startup, FiniteSetTheorems, WellFoundedInduction, TLAPS

USE DEF database, process, vars

-----------------------------------------------------------------------------
(* The entries of the schema, version by version.                            *)

LEMMA EachVersion ==
  /\ AddedBy[1] = BaseTables /\ AddedBy[2] = AdvancedTables \cup ScopeColumns
  /\ AddedBy[3] = WakeColumns /\ AddedBy[4] = {"reconciliations"} /\ AddedBy[5] = ChainColumns
  /\ AddedBy[6] = DeliveryTables /\ AddedBy[7] = ScheduleTables /\ AddedBy[8] = TriggerTables
  /\ AddedBy[9] = SequenceColumns /\ AddedBy[10] = OwnerTables /\ AddedBy[11] = TraceColumns
  BY DEF AddedBy

LEMMA VersionsAre == 1..JournalVersion = {1, 2, 3, 4, 5, 6, 7, 8, 9, 10, 11} /\ JournalVersion = 11 /\ Newer = 12
  BY DEF JournalVersion, Newer

LEMMA LedgersAre ==
  /\ Ledgers = {"journal", "cluster", "queue"}
  /\ Latest["journal"] = 11 /\ Latest["cluster"] = 3 /\ Latest["queue"] = 2
  /\ LedgerTable["journal"] = "schema" /\ LedgerTable["cluster"] = "cluster" /\ LedgerTable["queue"] = "queue"
  BY DEF Ledgers, Latest, LedgerTable, JournalVersion

LEMMA ColumnsAre ==
  /\ DOMAIN Columns = {"runs", "commands", "waits", "schedule_manual_keys"}
  /\ Columns["runs"] = {"runs.chain_id", "runs.trace_id"} /\ Columns["commands"] = {"commands.scope"}
  /\ Columns["waits"] = {"waits.wake_requested"} /\ Columns["schedule_manual_keys"] = {"schedule_manual_keys.sequence"}
  BY DEF Columns, ChainColumns, TraceColumns, ScopeColumns, WakeColumns, SequenceColumns

LEMMA AllColumnsAre ==
  AllColumns = {"runs.chain_id", "runs.trace_id", "commands.scope", "waits.wake_requested",
                "schedule_manual_keys.sequence"}
  <1>1. ASSUME NEW e PROVE e \in AllColumns <=> \E t \in DOMAIN Columns : e \in Columns[t]
    BY DEF AllColumns
  <1>. QED BY <1>1, ColumnsAre

LEMMA TablesHaveColumns == DOMAIN Columns \subseteq Tables /\ "schema" \in Tables /\ EngineTables \subseteq Tables
  <1>1. BaseTables \subseteq JournalEntries /\ TriggerTables \subseteq JournalEntries
    BY EachVersion, VersionsAre DEF JournalEntries
  <1>. QED BY <1>1, ColumnsAre, AllColumnsAre DEF Tables, EngineTables, BaseTables, TriggerTables

LEMMA LedgerTablesAreTables == \A l \in Ledgers : LedgerTable[l] \in Tables
  BY LedgersAre, TablesHaveColumns DEF EngineTables

LEMMA EntriesAre == Entries = JournalEntries \cup EngineTables
  <1>1. AllColumns \subseteq JournalEntries
    BY EachVersion, VersionsAre, AllColumnsAre
    DEF JournalEntries, ScopeColumns, ChainColumns, WakeColumns, SequenceColumns, TraceColumns
  <1>. QED BY <1>1 DEF Entries, Tables

LEMMA AfterIsInspection ==
  ASSUME NEW s \in Inspections \ {"idle", "done"}
  PROVE  After(s) \in Inspections \ {"idle"}
  BY ColumnsAre DEF After, Inspections

-----------------------------------------------------------------------------
(* Inspections: what is read was there, and a database grows.                *)

Readings == [names: SUBSET Tables, ledger: [Ledgers -> SUBSET (1..Newer)], columns: SUBSET AllColumns]

LEMMA NothingIsReading == Nothing \in Readings
  BY DEF Nothing, Readings

LEMMA ColumnsOfAreColumns ==
  ASSUME NEW d, NEW n, NEW t \in DOMAIN Columns
  PROVE  ColumnsOf(d, n, t) \subseteq AllColumns /\ ColumnsOf(d, n, t) \subseteq d.tables
  BY DEF ColumnsOf, AllColumns

LEMMA ReadingOfIsReading ==
  ASSUME NEW d \in Databases
  PROVE  /\ ReadingOf(d) \in Readings
         /\ ReadingOf(d).names \subseteq d.tables /\ ReadingOf(d).columns \subseteq d.tables
  <1>. DEFINE cs == UNION {ColumnsOf(d, NamesOf(d), t) : t \in DOMAIN Columns}
              ls == [l \in Ledgers |-> LedgerOf(d, NamesOf(d), l)]
  <1>1. cs \subseteq AllColumns /\ cs \subseteq d.tables
    BY ColumnsOfAreColumns
  <1>2. ls \in [Ledgers -> SUBSET (1..Newer)]
    <2>1. \A l \in Ledgers : d.ledger[l] \in SUBSET (1..Newer)
      BY DEF Databases, Newer
    <2>. QED BY <2>1 DEF LedgerOf
  <1>3. NamesOf(d) \subseteq Tables /\ NamesOf(d) \subseteq d.tables
    BY DEF NamesOf
  <1>4. ReadingOf(d) = [names |-> NamesOf(d), ledger |-> ls, columns |-> cs]
    BY DEF ReadingOf
  <1>. HIDE DEF cs, ls
  <1>. QED BY <1>1, <1>2, <1>3, <1>4 DEF Readings

LEMMA ValidIsComplete ==
  ASSUME NEW d, NEW r \in Readings, r.names \subseteq d.tables, r.columns \subseteq d.tables, Valid(r)
  PROVE  Complete(d)
  <1>1. Tables \subseteq r.names
    BY DEF Valid, Missing
  <1>2. ASSUME NEW t \in DOMAIN Columns PROVE Columns[t] \subseteq r.columns
    <2>1. t \in (DOMAIN Columns) \cap r.names
      BY <1>1, TablesHaveColumns
    <2>2. UNION {Columns[u] \ r.columns : u \in (DOMAIN Columns) \cap r.names} = {}
      BY DEF Valid, Missing
    <2>. QED BY <2>1, <2>2
  <1>3. AllColumns \subseteq r.columns
    BY <1>2 DEF AllColumns
  <1>. QED BY <1>1, <1>3 DEF Complete, Entries

LEMMA PendingAreVersions == ASSUME NEW d PROVE Pending(d) \subseteq 1..JournalVersion
  BY DEF Pending

\* The migrator only adds.
LEMMA MigratedIsDatabase ==
  ASSUME NEW d \in Databases
  PROVE  /\ Migrated(d) \in Databases
         /\ d.tables \subseteq Migrated(d).tables
         /\ d.ledger["journal"] \subseteq Migrated(d).ledger["journal"]
  <1>. DEFINE e == EngineMigrated(d)
              ts == e.tables \cup BaseTables \cup UNION {AddedBy[v] : v \in Pending(d)}
              js == e.ledger["journal"] \cup {1} \cup Pending(d)
  <1>1. /\ e = [tables |-> d.tables \cup EngineTables, ledger |-> e.ledger]
        /\ e.ledger \in [Ledgers -> SUBSET (1..(JournalVersion + 1))] /\ e.ledger["journal"] = d.ledger["journal"]
    <2>1. \A l \in Ledgers : 1..Latest[l] \subseteq 1..(JournalVersion + 1)
      BY LedgersAre, VersionsAre
    <2>2. \A l \in Ledgers : d.ledger[l] \in SUBSET (1..(JournalVersion + 1))
      BY DEF Databases
    <2>. QED BY <2>1, <2>2, LedgersAre DEF EngineMigrated
  <1>2. ts \subseteq Entries /\ d.tables \subseteq ts
    <2>1. UNION {AddedBy[v] : v \in Pending(d)} \subseteq JournalEntries
      BY PendingAreVersions DEF JournalEntries
    <2>2. BaseTables \subseteq JournalEntries
      BY EachVersion, VersionsAre DEF JournalEntries
    <2>3. d.tables \subseteq Entries
      BY DEF Databases
    <2>. QED BY <1>1, <2>1, <2>2, <2>3, EntriesAre
  <1>3. js \in SUBSET (1..(JournalVersion + 1)) /\ d.ledger["journal"] \subseteq js
    <2>1. e.ledger["journal"] \in SUBSET (1..(JournalVersion + 1))
      BY <1>1, LedgersAre
    <2>2. Pending(d) \subseteq 1..(JournalVersion + 1)
      BY PendingAreVersions, VersionsAre
    <2>3. 1 \in 1..(JournalVersion + 1)
      BY VersionsAre
    <2>. QED BY <1>1, <2>1, <2>2, <2>3
  <1>4. Migrated(d) = [e EXCEPT !.tables = ts, !.ledger["journal"] = js]
    BY DEF Migrated
  <1>5. Migrated(d) = [tables |-> ts, ledger |-> [e.ledger EXCEPT !["journal"] = js]]
    <2>. HIDE DEF e, ts, js
    <2>1. e = [tables |-> e.tables, ledger |-> e.ledger]
      BY <1>1 DEF e
    <2>. QED BY <2>1, <1>4
  <1>. HIDE DEF e, ts, js
  <1>6. [e.ledger EXCEPT !["journal"] = js] \in [Ledgers -> SUBSET (1..(JournalVersion + 1))]
    BY <1>1, <1>3
  <1>7. [e.ledger EXCEPT !["journal"] = js]["journal"] = js
    BY <1>1, LedgersAre
  <1>. QED BY <1>2, <1>3, <1>5, <1>6, <1>7 DEF Databases

LEMMA MigrationCompletes ==
  ASSUME NEW d \in Databases, MigrateFailure(d) = "none"
  PROVE  Complete(Migrated(d))
  <1>1. Valid(ReadingOf(Migrated(d)))
    BY DEF MigrateFailure
  <1>. QED BY <1>1, MigratedIsDatabase, ReadingOfIsReading, ValidIsComplete

LEMMA NewerKeepsAll ==
  ASSUME NEW d \in Databases, NEW n, n = [Migrated(d) EXCEPT !.ledger["journal"] = @ \cup {Newer}]
  PROVE  /\ n \in Databases /\ n.tables = Migrated(d).tables
         /\ n.ledger["journal"] = Migrated(d).ledger["journal"] \cup {Newer}
  <1>. DEFINE m == Migrated(d)
  <1>1. m \in Databases
    BY MigratedIsDatabase
  <1>. HIDE DEF m
  <1>2. n = [tables |-> m.tables, ledger |-> [m.ledger EXCEPT !["journal"] = @ \cup {Newer}]]
    BY <1>1 DEF Databases, m
  <1>3. m.ledger["journal"] \cup {Newer} \in SUBSET (1..(JournalVersion + 1))
    <2>1. m.ledger["journal"] \in SUBSET (1..(JournalVersion + 1))
      BY <1>1, LedgersAre DEF Databases
    <2>. QED BY <2>1, VersionsAre
  <1>4. [m.ledger EXCEPT !["journal"] = @ \cup {Newer}] \in [Ledgers -> SUBSET (1..(JournalVersion + 1))]
    BY <1>1, <1>3 DEF Databases
  <1>5. [m.ledger EXCEPT !["journal"] = @ \cup {Newer}]["journal"] = m.ledger["journal"] \cup {Newer}
    BY <1>1, LedgersAre DEF Databases
  <1>. QED BY <1>1, <1>2, <1>4, <1>5 DEF Databases, m

-----------------------------------------------------------------------------
(* Type correctness.                                                         *)

Failures == {"none", "CATALOG", "SQL_ERROR", "SCHEMA_TOO_NEW", "SCHEMA_CORRUPT",
             "MIGRATIONS_REQUIRED", "QUEUE_LIMIT_CONFLICT"}
Probes == [ready: BOOLEAN, newer: BOOLEAN]

\* An inspection reads only what is there, and what it has read stays there.
ReadIsThere(p) == reading[p].names \subseteq db.tables /\ reading[p].columns \subseteq db.tables

TypeInv ==
  /\ TypeOK
  /\ situation \in Situations
  /\ reading \in [Processes -> Readings]
  /\ failure \in [Processes -> Failures]
  /\ probe \in [Processes -> Probes]
  /\ \A p \in Processes : ReadIsThere(p)

LEMMA StatusIsFailure == ASSUME NEW r PROVE StatusFailure(r) \in Failures
  BY DEF StatusFailure, LedgerFailure, Failures
LEMMA MigrateFailureIsFailure == ASSUME NEW d PROVE MigrateFailure(d) \in Failures
  BY StatusIsFailure DEF MigrateFailure, Failures

LEMMA TypeInit == Init => TypeInv
  <1>. SUFFICES ASSUME Init PROVE TypeInv
    OBVIOUS
  <1>1. NoProbe \in Probes /\ Nothing.names = {} /\ Nothing.columns = {}
    BY DEF NoProbe, Probes, Nothing
  <1>2. situation.starts \in Nat /\ situation.db \in Databases
    BY StartupAssumption DEF Init
  <1>. QED BY <1>1, <1>2, NothingIsReading DEF Init, TypeInv, TypeOK, Failures, ReadIsThere, Inspections

\* What no step of one process does to the database.
Grows == db' \in Databases /\ db.tables \subseteq db'.tables /\ db.ledger["journal"] \subseteq db'.ledger["journal"]

LEMMA DatabaseGrows == ASSUME TypeInv, Next PROVE Grows
  <1>. db \in Databases
    BY DEF TypeInv, TypeOK
  <1>1. ASSUME NEW p \in Processes, Commit(p) PROVE Grows
    BY <1>1, MigratedIsDatabase DEF Commit, Grows
  <1>2. ASSUME NewerRelease PROVE Grows
    <2>1. db' = [Migrated(db) EXCEPT !.ledger["journal"] = @ \cup {Newer}]
      BY <1>2 DEF NewerRelease
    <2>2. db' \in Databases /\ db'.tables = Migrated(db).tables
          /\ db'.ledger["journal"] = Migrated(db).ledger["journal"] \cup {Newer}
      BY <2>1, NewerKeepsAll
    <2>. QED BY <2>2, MigratedIsDatabase DEF Grows
  <1>3. ASSUME UNCHANGED db PROVE Grows
    BY <1>3 DEF Grows
  <1>. QED BY <1>1, <1>2, <1>3
    DEF Next, Launch, DiscoverFeatures, Connect, Lock, Read, Validate, Register, StartProbe, AnswerProbe, Exit, SetQueueLimits

\* What one process reads.
LEMMA ObservedIsThere ==
  ASSUME TypeInv, NEW p \in Processes, Read(p)
  PROVE  /\ Observed(p) \in Readings /\ Observed(p).names \subseteq db.tables /\ Observed(p).columns \subseteq db.tables
         /\ at[p] # "names" => Observed(p).names = reading[p].names
         /\ at[p] # "journal" => Observed(p).ledger["journal"] = reading[p].ledger["journal"]
         /\ at[p] = "journal" => Observed(p).ledger["journal"] = LedgerOf(db, reading[p].names, "journal")
         /\ \A l \in Ledgers : Observed(p).ledger[l] \in {reading[p].ledger[l], LedgerOf(db, reading[p].names, l)}
  <1>. PICK d, r, s, n : d = db /\ r = reading[p] /\ s = at[p] /\ n = Observed(p)
    OBVIOUS
  <1>. DEFINE Goal ==
         /\ n \in Readings /\ n.names \subseteq d.tables /\ n.columns \subseteq d.tables
         /\ s # "names" => n.names = r.names
         /\ s # "journal" => n.ledger["journal"] = r.ledger["journal"]
         /\ s = "journal" => n.ledger["journal"] = LedgerOf(d, r.names, "journal")
         /\ \A l \in Ledgers : n.ledger[l] \in {r.ledger[l], LedgerOf(d, r.names, l)}
  <1>a. d \in Databases /\ r \in Readings /\ s \in Inspections \ {"idle", "done"}
        /\ r.names \subseteq d.tables /\ r.columns \subseteq d.tables
    BY DEF TypeInv, TypeOK, ReadIsThere, Read
  <1>b. n = IF s = "names" THEN [r EXCEPT !.names = NamesOf(d)]
            ELSE IF s \in Ledgers THEN [r EXCEPT !.ledger[s] = LedgerOf(d, r.names, s)]
            ELSE [r EXCEPT !.columns = @ \cup ColumnsOf(d, r.names, s)]
    BY DEF Observed
  <1>0. r = [names |-> r.names, ledger |-> r.ledger, columns |-> r.columns]
        /\ r.names \in SUBSET Tables /\ r.ledger \in [Ledgers -> SUBSET (1..Newer)] /\ r.columns \in SUBSET AllColumns
    BY <1>a DEF Readings
  <1>1. ASSUME s = "names" PROVE n = [names |-> NamesOf(d), ledger |-> r.ledger, columns |-> r.columns]
    BY <1>0, <1>1, <1>b
  <1>2. ASSUME s \in Ledgers
        PROVE  n = [names |-> r.names, ledger |-> [r.ledger EXCEPT ![s] = LedgerOf(d, r.names, s)], columns |-> r.columns]
    BY <1>0, <1>2, <1>b, LedgersAre
  <1>3. ASSUME s \in DOMAIN Columns
        PROVE  n = [names |-> r.names, ledger |-> r.ledger, columns |-> r.columns \cup ColumnsOf(d, r.names, s)]
    BY <1>0, <1>3, <1>b, LedgersAre, ColumnsAre
  <1>4. s = "names" \/ s \in Ledgers \/ s \in DOMAIN Columns
    BY <1>a, LedgersAre DEF Inspections
  <1>5. ASSUME s = "names" PROVE Goal
    <2>1. NamesOf(d) \subseteq Tables /\ NamesOf(d) \subseteq d.tables
      BY DEF NamesOf
    <2>. QED BY <1>a, <1>0, <1>1, <1>5, <2>1 DEF Readings
  <1>6. ASSUME s \in Ledgers PROVE Goal
    <2>1. LedgerOf(d, r.names, s) \in SUBSET (1..Newer)
      BY <1>6, <1>a DEF LedgerOf, Databases, Newer
    <2>2. [r.ledger EXCEPT ![s] = LedgerOf(d, r.names, s)] \in [Ledgers -> SUBSET (1..Newer)]
      BY <1>0, <2>1
    <2>. QED BY <1>a, <1>0, <1>2, <1>6, <2>2, LedgersAre DEF Readings
  <1>7. ASSUME s \in DOMAIN Columns PROVE Goal
    <2>1. s # "names" /\ s \notin Ledgers
      BY <1>7, LedgersAre, ColumnsAre
    <2>. QED BY <1>a, <1>0, <1>3, <1>7, <2>1, ColumnsOfAreColumns, LedgersAre DEF Readings
  <1>8. Goal
    BY <1>4, <1>5, <1>6, <1>7
  <1>. QED BY <1>8

LEMMA ReadStep ==
  ASSUME TypeInv, NEW p \in Processes, Read(p)
  PROVE  /\ reading'[p] \in Readings /\ at'[p] \in Inspections \ {"idle"} /\ at[p] \in Inspections \ {"idle", "done"}
         /\ reading' = [reading EXCEPT ![p] = reading'[p]] /\ at' = [at EXCEPT ![p] = at'[p]]
         /\ reading'[p].names \subseteq db.tables /\ reading'[p].columns \subseteq db.tables
         /\ at'[p] = "done" \/ at'[p] = After(at[p])
         /\ at[p] # "names" => reading'[p].names = reading[p].names
         /\ at[p] # "journal" => reading'[p].ledger["journal"] = reading[p].ledger["journal"]
         /\ at[p] = "journal" => reading'[p].ledger["journal"] = LedgerOf(db, reading[p].names, "journal")
         /\ \A l \in Ledgers : reading'[p].ledger[l] \in {reading[p].ledger[l], LedgerOf(db, reading[p].names, l)}
  <1>. DEFINE s == at[p]
  <1>2. s \in Inspections \ {"idle", "done"}
    BY DEF TypeInv, TypeOK, Read
  <1>3. reading' = [reading EXCEPT ![p] = Observed(p)]
    BY DEF Read
  <1>4. at' = [at EXCEPT ![p] = IF s = "queue" /\ StatusFailure(Observed(p)) # "none" THEN "done" ELSE After(s)]
    BY DEF Read
  <1>5. reading \in [Processes -> Readings] /\ at \in [Processes -> Inspections]
    BY DEF TypeInv, TypeOK
  <1>6. reading'[p] = Observed(p)
    BY <1>3, <1>5
  <1>7. at'[p] = "done" \/ at'[p] = After(s)
    BY <1>4, <1>5
  <1>8. at'[p] \in Inspections \ {"idle"}
    BY <1>2, <1>7, AfterIsInspection DEF Inspections
  <1>9. reading' = [reading EXCEPT ![p] = reading'[p]] /\ at' = [at EXCEPT ![p] = at'[p]]
    BY <1>3, <1>4, <1>5
  <1>. QED BY <1>2, <1>6, <1>7, <1>8, <1>9, ObservedIsThere

LEMMA TypeStep == ASSUME TypeInv, [Next]_vars PROVE TypeInv'
  <1>1. ASSUME Next PROVE TypeInv'
    <2>0. /\ db \in Databases /\ limit \in Limits \cup {None} /\ advisory \in Processes \cup {None}
          /\ launches \in 0..situation.starts /\ situation \in Situations /\ situation.starts \in Nat
          /\ pc \in [Processes -> {"down", "discover", "connect", "migrate", "migrating", "validate",
                                   "limits", "serving", "refused"}]
          /\ mode \in [Processes -> {"run", "validate"}] /\ wanted \in [Processes -> Limits \cup {None}]
          /\ at \in [Processes -> Inspections] /\ reading \in [Processes -> Readings]
          /\ failure \in [Processes -> Failures] /\ probe \in [Processes -> Probes]
      BY StartupAssumption DEF TypeInv, TypeOK
    <2>1. Grows
      BY <1>1, DatabaseGrows
    <2>2. "idle" \in Inspections /\ "names" \in Inspections /\ NoProbe \in Probes /\ {"none", "CATALOG", "SQL_ERROR",
            "MIGRATIONS_REQUIRED", "QUEUE_LIMIT_CONFLICT"} \subseteq Failures
      BY DEF Inspections, NoProbe, Probes, Failures
    <2>3. Nothing \in Readings /\ Nothing.names = {} /\ Nothing.columns = {}
      BY NothingIsReading DEF Nothing
    <2>4. situation' = situation /\ launches' \in 0..situation.starts
      BY <1>1, <2>0 DEF Next, Launch, DiscoverFeatures, Connect, Lock, Commit, Read, Validate, Register,
        StartProbe, AnswerProbe, Exit, SetQueueLimits, NewerRelease
    <2>5. limit' \in Limits \cup {None} /\ advisory' \in Processes \cup {None}
      <3>1. ASSUME NEW p \in Processes, Register(p) PROVE limit' \in Limits \cup {None} /\ advisory' \in Processes \cup {None}
        BY <2>0, <3>1 DEF Register, Stored
      <3>2. ASSUME NEW p \in Processes, Lock(p) \/ Commit(p) \/ Exit(p) PROVE limit' \in Limits \cup {None} /\ advisory' \in Processes \cup {None}
        BY <2>0, <3>2 DEF Lock, Commit, Exit
      <3>3. ASSUME NEW l \in Limits, SetQueueLimits(l) PROVE limit' \in Limits \cup {None} /\ advisory' \in Processes \cup {None}
        BY <2>0, <3>3 DEF SetQueueLimits
      <3>4. ASSUME UNCHANGED <<limit, advisory>> PROVE limit' \in Limits \cup {None} /\ advisory' \in Processes \cup {None}
        BY <2>0, <3>4
      <3>. QED BY <1>1, <3>1, <3>2, <3>3, <3>4
        DEF Next, Launch, DiscoverFeatures, Connect, Read, Validate, StartProbe, AnswerProbe, NewerRelease
    <2>6. /\ pc' \in [Processes -> {"down", "discover", "connect", "migrate", "migrating", "validate",
                                    "limits", "serving", "refused"}]
          /\ mode' \in [Processes -> {"run", "validate"}] /\ wanted' \in [Processes -> Limits \cup {None}]
      BY <1>1, <2>0 DEF Next, Launch, DiscoverFeatures, Connect, Lock, Commit, Read, Validate, Register,
        StartProbe, AnswerProbe, Exit, SetQueueLimits, NewerRelease, Refuse
    <2>7. failure' \in [Processes -> Failures]
      <3>1. ASSUME NEW p \in Processes, NEW c \in Failures, Refuse(p, c) PROVE failure' \in [Processes -> Failures]
        BY <2>0, <3>1 DEF Refuse
      <3>2. ASSUME NEW p \in Processes, Commit(p) PROVE failure' \in [Processes -> Failures]
        BY <2>0, <2>2, <3>1, <3>2, MigrateFailureIsFailure DEF Commit
      <3>3. ASSUME NEW p \in Processes, Validate(p) PROVE failure' \in [Processes -> Failures]
        BY <2>0, <2>2, <3>1, <3>3, StatusIsFailure DEF Validate
      <3>4. ASSUME NEW p \in Processes, NEW o, DiscoverFeatures(p, o) PROVE failure' \in [Processes -> Failures]
        BY <2>0, <2>2, <3>1, <3>4 DEF DiscoverFeatures
      <3>5. ASSUME NEW p \in Processes, Register(p) PROVE failure' \in [Processes -> Failures]
        BY <2>0, <2>2, <3>1, <3>5 DEF Register
      <3>6. ASSUME NEW p \in Processes, Exit(p) PROVE failure' \in [Processes -> Failures]
        BY <2>0, <2>2, <3>6 DEF Exit
      <3>. QED BY <1>1, <2>0, <3>2, <3>3, <3>4, <3>5, <3>6
        DEF Next, Launch, Connect, Lock, Read, StartProbe, AnswerProbe, SetQueueLimits, NewerRelease
    <2>8. probe' \in [Processes -> Probes]
      <3>1. ASSUME NEW p \in Processes, StartProbe(p) PROVE probe' \in [Processes -> Probes]
        <4>1. [ready |-> FALSE, newer |-> NewerIsHere] \in Probes
          BY DEF Probes, NewerIsHere
        <4>. QED BY <2>0, <3>1, <4>1 DEF StartProbe
      <3>2. ASSUME NEW p \in Processes, AnswerProbe(p) PROVE probe' \in [Processes -> Probes]
        <4>1. PICK b \in BOOLEAN : probe' = [probe EXCEPT ![p].ready = b]
          BY <3>2 DEF AnswerProbe
        <4>2. [probe[p] EXCEPT !.ready = b] \in Probes
          BY <2>0 DEF Probes
        <4>. QED BY <2>0, <4>1, <4>2
      <3>3. ASSUME NEW p \in Processes, Exit(p) PROVE probe' \in [Processes -> Probes]
        BY <2>0, <2>2, <3>3 DEF Exit
      <3>. QED BY <1>1, <2>0, <3>1, <3>2, <3>3
        DEF Next, Launch, DiscoverFeatures, Connect, Lock, Commit, Read, Validate, Register, SetQueueLimits, NewerRelease
    <2>. DEFINE InspectionsAreTyped ==
           /\ at' \in [Processes -> Inspections] /\ reading' \in [Processes -> Readings]
           /\ \A q \in Processes : reading'[q].names \subseteq db'.tables /\ reading'[q].columns \subseteq db'.tables
    <2>9. InspectionsAreTyped
      <3>0. \A q \in Processes : reading[q].names \subseteq db'.tables /\ reading[q].columns \subseteq db'.tables
        BY <2>1 DEF TypeInv, ReadIsThere, Grows
      <3>1. ASSUME NEW p \in Processes, Read(p) PROVE InspectionsAreTyped
        BY <2>0, <2>1, <3>0, <3>1, ReadStep DEF Grows
      <3>2. ASSUME NEW p \in Processes, Lock(p) PROVE InspectionsAreTyped
        BY <2>0, <2>1, <3>0, <3>2, ReadingOfIsReading DEF Lock, Grows
      <3>3. ASSUME NEW p \in Processes, Commit(p) PROVE InspectionsAreTyped
        BY <2>0, <2>2, <2>3, <3>0, <3>3 DEF Commit
      <3>4. ASSUME NEW p \in Processes, EndReading(p) PROVE InspectionsAreTyped
        BY <2>0, <2>2, <2>3, <3>0, <3>4 DEF EndReading
      <3>5. ASSUME NEW p \in Processes, Connect(p) \/ StartProbe(p) PROVE InspectionsAreTyped
        BY <2>0, <2>2, <3>0, <3>5 DEF Connect, StartProbe
      <3>6. ASSUME UNCHANGED <<at, reading>> PROVE InspectionsAreTyped
        BY <2>0, <3>0, <3>6
      <3>. QED BY <1>1, <3>1, <3>2, <3>3, <3>4, <3>5, <3>6
        DEF Next, Launch, DiscoverFeatures, Validate, Register, AnswerProbe, Exit, SetQueueLimits, NewerRelease
    <2>. QED BY <2>0, <2>1, <2>4, <2>5, <2>6, <2>7, <2>8, <2>9 DEF TypeInv, TypeOK, ReadIsThere, Grows
  <1>2. ASSUME UNCHANGED vars PROVE TypeInv'
    BY <1>2 DEF TypeInv, TypeOK, ReadIsThere
  <1>. QED BY <1>1, <1>2

\* The state of the database and of every process is of the declared type, and
\* no more starts happen than the situation has.
THEOREM StartupTypes == Spec => []TypeOK
  <1>1. TypeInv => TypeOK
    BY DEF TypeInv
  <1>. QED BY <1>1, TypeInit, TypeStep, PTL DEF Spec

-----------------------------------------------------------------------------
(* Who serves finds the whole schema. The migrator that holds the lock has   *)
(* read the database as it is; an inspection without a lock reads a database *)
(* that only grows; and one that a newer release had preceded finds either   *)
(* the newer version in the ledger, or no ledger at all.                     *)

PastJournal == Inspections \ {"idle", "names", "journal"}

LockIsHeld(p) ==
  /\ advisory = p <=> pc[p] = "migrating"
  /\ pc[p] = "migrating" => reading[p] = ReadingOf(db)
SchemaIsThere(p) == pc[p] \in {"limits", "serving"} => Complete(db)
LimitIsAgreed(p) ==
  /\ pc[p] # "down" => wanted[p] \in Limits
  /\ pc[p] = "serving" => wanted[p] = limit
InspectsOnly(p) == pc[p] \notin {"validate", "serving"} => at[p] = "idle"
NewerIsFound(p) ==
  probe[p].newer = TRUE =>
    /\ NewerIsHere
    /\ at[p] \in PastJournal => Newer \in reading[p].ledger["journal"] \/ "schema" \notin reading[p].names
ReadyIsSound(p) == probe[p].ready = TRUE => pc[p] = "serving" /\ probe[p].newer = FALSE

SafeAt(p) ==
  /\ LockIsHeld(p) /\ SchemaIsThere(p) /\ LimitIsAgreed(p) /\ InspectsOnly(p) /\ NewerIsFound(p) /\ ReadyIsSound(p)
SafeInv == \A p \in Processes : SafeAt(p)

LEMMA SafeInit == Init => SafeInv
  <1>. SUFFICES ASSUME Init, NEW p \in Processes PROVE SafeAt(p)
    BY DEF SafeInv
  <1>1. p # None
    BY StartupAssumption
  <1>. QED BY <1>1 DEF Init, SafeAt, LockIsHeld, SchemaIsThere, LimitIsAgreed, InspectsOnly, NewerIsFound, ReadyIsSound, NoProbe

\* A process that a step is not about.
Same(q) ==
  /\ pc'[q] = pc[q] /\ wanted'[q] = wanted[q] /\ at'[q] = at[q] /\ reading'[q] = reading[q] /\ probe'[q] = probe[q]
  /\ advisory' = q <=> advisory = q
  /\ pc[q] = "migrating" => db' = db
  /\ pc[q] = "serving" => limit' = limit

LEMMA SameIsSafe ==
  ASSUME NEW q \in Processes, SafeAt(q), Same(q), Grows
  PROVE  SafeAt(q)'
  <1>1. Complete(db) => Complete(db)'
    BY DEF Grows, Complete
  <1>2. NewerIsHere => NewerIsHere'
    BY DEF Grows, NewerIsHere
  <1>3. LockIsHeld(q)'
    BY DEF SafeAt, Same, LockIsHeld
  <1>4. SchemaIsThere(q)' /\ LimitIsAgreed(q)' /\ InspectsOnly(q)' /\ ReadyIsSound(q)'
    BY <1>1 DEF SafeAt, Same, SchemaIsThere, LimitIsAgreed, InspectsOnly, ReadyIsSound
  <1>5. NewerIsFound(q)'
    BY <1>2 DEF SafeAt, Same, NewerIsFound
  <1>. QED BY <1>3, <1>4, <1>5 DEF SafeAt

LEMMA OthersAreSame ==
  ASSUME TypeInv, SafeInv, NEW p \in Processes, NEW q \in Processes \ {p},
         \/ \E m \in {"run", "validate"}, l \in Limits : Launch(p, m, l)
         \/ \E order \in Orders(situation.app) : DiscoverFeatures(p, order)
         \/ Connect(p) \/ Lock(p) \/ Commit(p) \/ Read(p) \/ Validate(p) \/ Register(p)
         \/ StartProbe(p) \/ AnswerProbe(p) \/ Exit(p)
  PROVE  Same(q)
  <1>0. /\ pc \in [Processes -> {"down", "discover", "connect", "migrate", "migrating", "validate",
                                 "limits", "serving", "refused"}]
        /\ wanted \in [Processes -> Limits \cup {None}] /\ at \in [Processes -> Inspections]
        /\ reading \in [Processes -> Readings] /\ probe \in [Processes -> Probes]
        /\ p # None /\ q # None /\ None \notin Limits
    BY StartupAssumption DEF TypeInv, TypeOK
  <1>1. ASSUME NEW m, NEW l, Launch(p, m, l) PROVE Same(q)
    BY <1>0, <1>1 DEF Launch, Same
  <1>2. ASSUME NEW o, DiscoverFeatures(p, o) PROVE Same(q)
    BY <1>0, <1>2 DEF DiscoverFeatures, Refuse, Same
  <1>3. ASSUME Connect(p) PROVE Same(q)
    BY <1>0, <1>3 DEF Connect, Same
  <1>4. ASSUME Lock(p) PROVE Same(q)
    BY <1>0, <1>4 DEF Lock, LockIsFree, Same
  <1>5. ASSUME Commit(p) PROVE Same(q)
    <2>1. advisory = p /\ pc[q] # "migrating"
      BY <1>5 DEF SafeInv, SafeAt, LockIsHeld, Commit
    <2>. QED BY <1>0, <1>5, <2>1 DEF Commit, Refuse, Same
  <1>6. ASSUME Read(p) PROVE Same(q)
    BY <1>0, <1>6 DEF Read, Same
  <1>7. ASSUME Validate(p) PROVE Same(q)
    BY <1>0, <1>7 DEF Validate, Refuse, EndReading, Same
  <1>8. ASSUME Register(p) PROVE Same(q)
    <2>1. pc[q] = "serving" => limit # None
      BY <1>0 DEF SafeInv, SafeAt, LimitIsAgreed
    <2>. QED BY <1>0, <1>8, <2>1 DEF Register, Refuse, Stored, Same
  <1>9. ASSUME StartProbe(p) PROVE Same(q)
    BY <1>0, <1>9 DEF StartProbe, Same
  <1>10. ASSUME AnswerProbe(p) PROVE Same(q)
    BY <1>0, <1>10 DEF AnswerProbe, EndReading, Same
  <1>11. ASSUME Exit(p) PROVE Same(q)
    BY <1>0, <1>11 DEF Exit, EndReading, Same
  <1>. QED BY <1>1, <1>2, <1>3, <1>4, <1>5, <1>6, <1>7, <1>8, <1>9, <1>10, <1>11

LEMMA SafeBootstrap ==
  ASSUME TypeInv, SafeInv, Grows, NEW p \in Processes,
         \/ \E m \in {"run", "validate"}, l \in Limits : Launch(p, m, l)
         \/ \E order \in Orders(situation.app) : DiscoverFeatures(p, order)
         \/ Connect(p) \/ Lock(p) \/ Commit(p) \/ Validate(p) \/ Register(p)
  PROVE  SafeAt(p)'
  <1>0. /\ pc \in [Processes -> {"down", "discover", "connect", "migrate", "migrating", "validate",
                                 "limits", "serving", "refused"}]
        /\ wanted \in [Processes -> Limits \cup {None}] /\ at \in [Processes -> Inspections]
        /\ reading \in [Processes -> Readings] /\ probe \in [Processes -> Probes] /\ db \in Databases
        /\ mode \in [Processes -> {"run", "validate"}] /\ p # None /\ None \notin Limits
    BY StartupAssumption DEF TypeInv, TypeOK
  <1>a. /\ advisory = p <=> pc[p] = "migrating"
        /\ pc[p] = "migrating" => reading[p] = ReadingOf(db)
        /\ pc[p] \in {"limits", "serving"} => Complete(db)
        /\ pc[p] # "down" => wanted[p] \in Limits
        /\ pc[p] \notin {"validate", "serving"} => at[p] = "idle"
        /\ probe[p].newer = TRUE => NewerIsHere
        /\ probe[p].ready = TRUE => pc[p] = "serving"
    BY DEF SafeInv, SafeAt, LockIsHeld, SchemaIsThere, LimitIsAgreed, InspectsOnly, NewerIsFound, ReadyIsSound
  <1>b. "idle" \notin PastJournal /\ "names" \notin PastJournal
    BY DEF PastJournal
  <1>c. NewerIsHere => NewerIsHere'
    BY DEF Grows, NewerIsHere
  <1>. USE DEF SafeAt, LockIsHeld, SchemaIsThere, LimitIsAgreed, InspectsOnly, NewerIsFound, ReadyIsSound
  <1>1. ASSUME NEW m, NEW l \in Limits, Launch(p, m, l) PROVE SafeAt(p)'
    BY <1>0, <1>a, <1>b, <1>c, <1>1 DEF Launch
  <1>2. ASSUME NEW o, DiscoverFeatures(p, o) PROVE SafeAt(p)'
    BY <1>0, <1>a, <1>b, <1>c, <1>2 DEF DiscoverFeatures, Refuse
  <1>3. ASSUME Connect(p) PROVE SafeAt(p)'
    BY <1>0, <1>a, <1>b, <1>c, <1>3 DEF Connect
  <1>4. ASSUME Lock(p) PROVE SafeAt(p)'
    BY <1>0, <1>a, <1>b, <1>c, <1>4 DEF Lock
  <1>5. ASSUME Commit(p) PROVE SafeAt(p)'
    <2>1. pc'[p] \in {"limits", "refused"} /\ advisory' = None /\ at' = at /\ probe' = probe /\ wanted' = wanted
      BY <1>0, <1>5 DEF Commit, Refuse
    <2>2. pc'[p] = "limits" => Complete(db')
      <3>1. ASSUME pc'[p] = "limits" PROVE MigrateFailure(db) = "none" /\ db' = Migrated(db)
        BY <1>0, <1>5, <3>1 DEF Commit, Refuse
      <3>. QED BY <1>0, <3>1, MigrationCompletes
    <2>. QED BY <1>0, <1>a, <1>b, <1>c, <1>5, <2>1, <2>2 DEF Commit
  <1>6. ASSUME Validate(p) PROVE SafeAt(p)'
    <2>1. pc'[p] \in {"limits", "refused"} /\ at'[p] = "idle" /\ probe' = probe /\ wanted' = wanted /\ db' = db
          /\ advisory' = advisory
      BY <1>0, <1>6 DEF Validate, Refuse, EndReading
    <2>2. pc'[p] = "limits" => Complete(db)
      <3>1. ASSUME pc'[p] = "limits" PROVE Valid(reading[p])
        BY <1>0, <1>6, <3>1 DEF Validate, Refuse
      <3>. QED BY <1>0, <3>1, ValidIsComplete DEF TypeInv, ReadIsThere
    <2>. QED BY <1>0, <1>a, <1>b, <1>c, <1>6, <2>1, <2>2 DEF Validate
  <1>7. ASSUME Register(p) PROVE SafeAt(p)'
    <2>1. /\ pc'[p] \in {"serving", "refused"} /\ at' = at /\ probe' = probe /\ wanted' = wanted /\ db' = db
          /\ advisory' = advisory
          /\ pc'[p] = "serving" => wanted[p] = limit'
      BY <1>0, <1>7 DEF Register, Refuse
    <2>. QED BY <1>0, <1>a, <1>b, <1>c, <1>7, <2>1 DEF Register
  <1>. QED BY <1>1, <1>2, <1>3, <1>4, <1>5, <1>6, <1>7

LEMMA SafeReading ==
  ASSUME TypeInv, SafeInv, Grows, NEW p \in Processes, Read(p)
  PROVE  SafeAt(p)'
  <1>0. /\ pc \in [Processes -> {"down", "discover", "connect", "migrate", "migrating", "validate",
                                 "limits", "serving", "refused"}]
        /\ at \in [Processes -> Inspections] /\ reading \in [Processes -> Readings]
        /\ UNCHANGED <<database, pc, wanted, probe>> /\ pc[p] \in {"validate", "serving"}
    BY DEF TypeInv, TypeOK, Read
  <1>1. /\ LockIsHeld(p)' /\ SchemaIsThere(p)' /\ LimitIsAgreed(p)' /\ InspectsOnly(p)' /\ ReadyIsSound(p)'
    BY <1>0 DEF SafeInv, SafeAt, LockIsHeld, SchemaIsThere, LimitIsAgreed, InspectsOnly, ReadyIsSound
  <1>2. ASSUME probe[p].newer = TRUE, at'[p] \in PastJournal
        PROVE  Newer \in reading'[p].ledger["journal"] \/ "schema" \notin reading'[p].names
    <2>1. NewerIsHere
      BY <1>2 DEF SafeInv, SafeAt, NewerIsFound
    <2>2. at[p] # "names"
      <3>1. ASSUME at[p] = "names" PROVE at'[p] \in {"done", "journal"} /\ at'[p] # "done"
        <4>1. at' = [at EXCEPT ![p] = After(at[p])]
          BY <3>1 DEF Read
        <4>. QED BY <1>0, <3>1, <4>1 DEF After
      <3>. QED BY <1>2, <3>1 DEF PastJournal
    <2>3. ASSUME at[p] = "journal" PROVE Newer \in reading'[p].ledger["journal"] \/ "schema" \notin reading'[p].names
      <3>1. reading'[p].ledger["journal"] = LedgerOf(db, reading[p].names, "journal") /\ reading'[p].names = reading[p].names
        BY <2>3, ReadStep
      <3>. QED BY <2>1, <3>1, LedgersAre DEF LedgerOf, NewerIsHere
    <2>4. ASSUME at[p] # "journal" PROVE Newer \in reading'[p].ledger["journal"] \/ "schema" \notin reading'[p].names
      <3>1. reading'[p].ledger["journal"] = reading[p].ledger["journal"] /\ reading'[p].names = reading[p].names
            /\ at[p] \in Inspections \ {"idle", "done"}
        BY <2>2, <2>4, ReadStep
      <3>2. at[p] \in PastJournal
        BY <2>2, <2>4, <3>1 DEF PastJournal
      <3>. QED BY <1>2, <3>1, <3>2 DEF SafeInv, SafeAt, NewerIsFound
    <2>. QED BY <2>3, <2>4
  <1>3. NewerIsFound(p)'
    <2>1. probe'[p] = probe[p] /\ NewerIsHere' = NewerIsHere
      BY <1>0 DEF NewerIsHere
    <2>2. probe[p].newer = TRUE => NewerIsHere
      BY DEF SafeInv, SafeAt, NewerIsFound
    <2>. QED BY <1>2, <2>1, <2>2 DEF NewerIsFound
  <1>. QED BY <1>1, <1>3 DEF SafeAt

\* A reading that has the newer version, or lacks the ledger, is no ready one.
LEMMA NewerIsNotReady ==
  ASSUME NEW r, Newer \in r.ledger["journal"] \/ "schema" \notin r.names
  PROVE  ~(StatusFailure(r) = "none" /\ Valid(r))
  <1>1. ASSUME Newer \in r.ledger["journal"] PROVE StatusFailure(r) # "none"
    BY <1>1, VersionsAre, LedgersAre DEF StatusFailure, LedgerFailure, TooNew
  <1>2. ASSUME "schema" \notin r.names PROVE ~Valid(r)
    BY <1>2, TablesHaveColumns DEF Valid, Missing
  <1>. QED BY <1>1, <1>2

LEMMA SafeServing ==
  ASSUME TypeInv, SafeInv, Grows, NEW p \in Processes,
         StartProbe(p) \/ AnswerProbe(p) \/ Exit(p)
  PROVE  SafeAt(p)'
  <1>0. /\ pc \in [Processes -> {"down", "discover", "connect", "migrate", "migrating", "validate",
                                 "limits", "serving", "refused"}]
        /\ wanted \in [Processes -> Limits \cup {None}] /\ at \in [Processes -> Inspections]
        /\ reading \in [Processes -> Readings] /\ probe \in [Processes -> Probes] /\ p # None
    BY StartupAssumption DEF TypeInv, TypeOK
  <1>a. /\ advisory = p <=> pc[p] = "migrating"
        /\ pc[p] \in {"limits", "serving"} => Complete(db)
        /\ pc[p] # "down" => wanted[p] \in Limits
        /\ pc[p] = "serving" => wanted[p] = limit
        /\ probe[p].newer = TRUE =>
             /\ NewerIsHere
             /\ at[p] \in PastJournal => Newer \in reading[p].ledger["journal"] \/ "schema" \notin reading[p].names
        /\ probe[p].ready = TRUE => pc[p] = "serving"
    BY DEF SafeInv, SafeAt, LockIsHeld, SchemaIsThere, LimitIsAgreed, InspectsOnly, NewerIsFound, ReadyIsSound
  <1>b. "idle" \notin PastJournal /\ "names" \notin PastJournal /\ "done" \in PastJournal
    BY DEF PastJournal, Inspections
  <1>. USE DEF SafeAt, LockIsHeld, SchemaIsThere, LimitIsAgreed, InspectsOnly, NewerIsFound, ReadyIsSound
  <1>1. ASSUME StartProbe(p) PROVE SafeAt(p)'
    <2>1. /\ probe'[p].ready = FALSE /\ probe'[p].newer = NewerIsHere /\ at'[p] = "names" /\ UNCHANGED <<database, pc, wanted>>
      BY <1>0, <1>1 DEF StartProbe
    <2>2. NewerIsHere' = NewerIsHere
      BY <2>1 DEF NewerIsHere
    <2>. QED BY <1>0, <1>a, <1>b, <1>1, <2>1, <2>2 DEF StartProbe
  <1>2. ASSUME AnswerProbe(p) PROVE SafeAt(p)'
    <2>1. /\ pc[p] = "serving" /\ at[p] = "done" /\ at'[p] = "idle" /\ UNCHANGED <<database, pc, wanted>>
      BY <1>0, <1>2 DEF AnswerProbe, EndReading
    <2>2. PICK b \in BOOLEAN :
            /\ probe' = [probe EXCEPT ![p].ready = b]
            /\ b = TRUE => StatusFailure(reading[p]) = "none" /\ Valid(reading[p])
      BY <1>2 DEF AnswerProbe
    <2>3. probe'[p].newer = probe[p].newer /\ probe'[p].ready = b /\ probe[p].newer \in BOOLEAN
      BY <1>0, <2>2 DEF Probes
    <2>4. b = TRUE => probe[p].newer = FALSE
      <3>1. ASSUME b = TRUE, probe[p].newer = TRUE PROVE FALSE
        <4>1. Newer \in reading[p].ledger["journal"] \/ "schema" \notin reading[p].names
          BY <1>a, <1>b, <2>1, <3>1
        <4>. QED BY <2>2, <3>1, <4>1, NewerIsNotReady
      <3>. QED BY <2>3, <3>1
    <2>5. NewerIsHere' = NewerIsHere
      BY <2>1 DEF NewerIsHere
    <2>. QED BY <1>a, <1>b, <2>1, <2>3, <2>4, <2>5
  <1>3. ASSUME Exit(p) PROVE SafeAt(p)'
    <2>1. /\ pc'[p] = "down" /\ advisory' # p /\ at'[p] = "idle" /\ probe'[p].ready = FALSE /\ probe'[p].newer = FALSE
      BY <1>0, <1>3 DEF Exit, EndReading, NoProbe
    <2>. QED BY <1>b, <2>1
  <1>. QED BY <1>1, <1>2, <1>3

LEMMA SafeStep == ASSUME TypeInv, SafeInv, [Next]_vars PROVE SafeInv'
  <1>1. ASSUME Next PROVE SafeInv'
    <2>0. Grows
      BY <1>1, DatabaseGrows
    <2>1. ASSUME NEW p \in Processes,
                 \/ \E m \in {"run", "validate"}, l \in Limits : Launch(p, m, l)
                 \/ \E order \in Orders(situation.app) : DiscoverFeatures(p, order)
                 \/ Connect(p) \/ Lock(p) \/ Commit(p) \/ Read(p) \/ Validate(p) \/ Register(p)
                 \/ StartProbe(p) \/ AnswerProbe(p) \/ Exit(p)
          PROVE  SafeInv'
      <3>1. SafeAt(p)'
        BY <2>0, <2>1, SafeBootstrap, SafeReading, SafeServing
      <3>2. ASSUME NEW q \in Processes \ {p} PROVE SafeAt(q)'
        BY <2>0, <2>1, OthersAreSame, SameIsSafe DEF SafeInv
      <3>. QED BY <3>1, <3>2 DEF SafeInv
    <2>2. ASSUME NEW l \in Limits, SetQueueLimits(l) PROVE SafeInv'
      <3>1. ASSUME NEW q \in Processes PROVE Same(q)
        BY <2>2 DEF SetQueueLimits, Same
      <3>. QED BY <2>0, <3>1, SameIsSafe DEF SafeInv
    <2>3. ASSUME NewerRelease PROVE SafeInv'
      <3>1. ASSUME NEW q \in Processes PROVE Same(q)
        <4>1. q # None
          BY StartupAssumption
        <4>2. pc[q] # "migrating"
          BY <2>3, <4>1 DEF NewerRelease, SafeInv, SafeAt, LockIsHeld
        <4>. QED BY <2>3, <4>2 DEF NewerRelease, Same
      <3>. QED BY <2>0, <3>1, SameIsSafe DEF SafeInv
    <2>. QED BY <1>1, <2>1, <2>2, <2>3 DEF Next
  <1>2. ASSUME UNCHANGED vars PROVE SafeInv'
    BY <1>2 DEF SafeInv, SafeAt, LockIsHeld, SchemaIsThere, LimitIsAgreed, InspectsOnly, NewerIsFound, ReadyIsSound,
      NewerIsHere
  <1>. QED BY <1>1, <1>2

\* A process that serves finds every table and column it uses and enforces the
\* limits that all enforce, and a probe finds none ready that a newer release
\* had overtaken, whatever the database was and however the upgrades of others
\* fell between the statements of its inspection.
THEOREM ServingProcessesAreSound == Spec => []ServingIsSound
  <1>1. ASSUME TypeInv, SafeInv PROVE ServingIsSound
    <2>1. ASSUME NEW p \in Processes
          PROVE  /\ pc[p] = "serving" => Complete(db) /\ wanted[p] = limit
                 /\ probe[p].ready => pc[p] = "serving" /\ ~probe[p].newer
      <3>1. probe[p].ready \in BOOLEAN /\ probe[p].newer \in BOOLEAN
        BY <1>1 DEF TypeInv, Probes
      <3>2. SafeAt(p)
        BY <1>1 DEF SafeInv
      <3>. QED BY <3>1, <3>2 DEF SafeAt, SchemaIsThere, LimitIsAgreed, ReadyIsSound
    <2>. QED BY <2>1 DEF ServingIsSound
  <1>. QED BY <1>1, TypeInit, TypeStep, SafeInit, SafeStep, PTL DEF Spec

-----------------------------------------------------------------------------
(* What the migrator makes of the databases that releases have left.         *)

Left(v) == UNION {AddedBy[w] : w \in 1..v}

LEMMA UpgradableAre == Upgradable = {0, 6, 7, 8, 9, 10, 11}
  BY VersionsAre DEF Upgradable

LEMMA ReleasedTables == ASSUME NEW v PROVE Released(v).tables = Left(v) \cup (IF v = 0 THEN {} ELSE EngineTables)
  <1>. DEFINE t == (UNION {AddedBy[w] : w \in 1..v}) \cup (IF v = 0 THEN {} ELSE EngineTables)
              m == [l \in Ledgers |-> IF v = 0 THEN {} ELSE IF l = "journal" THEN 1..v ELSE 1..Latest[l]]
  <1>1. Released(v) = [tables |-> t, ledger |-> m]
    BY DEF Released
  <1>2. t = Left(v) \cup (IF v = 0 THEN {} ELSE EngineTables)
    BY DEF Left
  <1>. HIDE DEF t, m
  <1>. QED BY <1>1, <1>2

LEMMA NothingReleased ==
  Released(0).tables = {} /\ \A l \in Ledgers : Released(0).ledger[l] = {}
  BY DEF Released

LEMMA ReleasedIs ==
  ASSUME NEW v \in 1..JournalVersion
  PROVE  /\ Released(v).tables = Left(v) \cup EngineTables
         /\ Released(v).ledger["journal"] = 1..v
         /\ \A l \in Ledgers \ {"journal"} : Released(v).ledger[l] = 1..Latest[l]
         /\ "schema" \in Released(v).tables
  <1>1. v # 0 /\ 1 \in 1..v
    BY VersionsAre
  <1>2. "schema" \in Left(v)
    BY <1>1, EachVersion DEF Left, BaseTables
  <1>3. Released(v).tables = Left(v) \cup EngineTables
    BY <1>1, ReleasedTables
  <1>4. Released(v).ledger = [l \in Ledgers |-> IF l = "journal" THEN 1..v ELSE 1..Latest[l]]
    BY <1>1 DEF Released
  <1>. QED BY <1>2, <1>3, <1>4, LedgersAre

LEMMA LatestReleaseIs ==
  Released(JournalVersion) = [tables |-> Entries, ledger |-> [l \in Ledgers |-> 1..Latest[l]]]
  <1>. DEFINE d == Released(JournalVersion)
  <1>1. JournalVersion # 0 /\ Left(JournalVersion) = JournalEntries
    BY VersionsAre DEF Left, JournalEntries
  <1>2. d.tables = Entries
    BY <1>1, EntriesAre, ReleasedTables
  <1>3. d.ledger = [l \in Ledgers |-> IF l = "journal" THEN 1..JournalVersion ELSE 1..Latest[l]]
    BY <1>1 DEF Released
  <1>4. d.ledger = [l \in Ledgers |-> 1..Latest[l]]
    BY <1>3, LedgersAre, VersionsAre
  <1>5. d = [tables |-> d.tables, ledger |-> d.ledger]
    BY DEF Released
  <1>. HIDE DEF d
  <1>6. d = [tables |-> Entries, ledger |-> [l \in Ledgers |-> 1..Latest[l]]]
    BY <1>2, <1>4, <1>5
  <1>. QED BY <1>6 DEF d

\* The migrator and readiness accept a database with all entries and versions.
LEMMA LatestIsValid == Valid(ReadingOf(Released(JournalVersion)))
  <1>. DEFINE d == Released(JournalVersion)
  <1>1. d.tables = Entries /\ \A l \in Ledgers : d.ledger[l] = 1..Latest[l]
    BY LatestReleaseIs
  <1>. HIDE DEF d
  <1>2. NamesOf(d) = Tables
    BY <1>1 DEF NamesOf, Entries
  <1>3. \A l \in Ledgers : LedgerOf(d, Tables, l) = 1..Latest[l]
    BY <1>1, LedgerTablesAreTables DEF LedgerOf
  <1>4. ASSUME NEW t \in DOMAIN Columns PROVE ColumnsOf(d, Tables, t) = Columns[t]
    <2>1. Columns[t] \subseteq Entries
      BY DEF Entries, AllColumns
    <2>. QED BY <1>1, <2>1, TablesHaveColumns DEF ColumnsOf
  <1>. DEFINE r == ReadingOf(d)
  <1>5. r.names = Tables /\ r.columns = UNION {ColumnsOf(d, Tables, t) : t \in DOMAIN Columns}
        /\ \A l \in Ledgers : r.ledger[l] = 1..Latest[l]
    BY <1>2, <1>3 DEF ReadingOf
  <1>. HIDE DEF r
  <1>6. ASSUME NEW t \in DOMAIN Columns PROVE Columns[t] \subseteq r.columns
    BY <1>4, <1>5
  <1>7. Missing(r) = {}
    BY <1>5, <1>6 DEF Missing
  <1>. QED BY <1>5, <1>7 DEF Valid, r, d

LEMMA PendingOfNothing == Pending(Released(0)) = (1..JournalVersion) \ {1}
  <1>1. Released(0).ledger["journal"] = {}
    BY NothingReleased, LedgersAre
  <1>. QED BY <1>1, VersionsAre DEF Pending

LEMMA PendingOfReleased ==
  ASSUME NEW v \in 6..JournalVersion
  PROVE  Pending(Released(v)) = (1..JournalVersion) \ (1..v)
  <1>1. Released(v).ledger["journal"] = 1..v
    <2>1. v \in 1..JournalVersion
      BY VersionsAre
    <2>. QED BY <2>1, ReleasedIs
  <1>2. 1..v \cup {1} = 1..v /\ 3 \in 1..v /\ 1..v \cup {2} = 1..v
    BY VersionsAre
  <1>3. JournalVersion \in 1..v => (1..JournalVersion) \ (1..v) = {}
    BY VersionsAre
  <1>. QED BY <1>1, <1>2, <1>3 DEF Pending

LEMMA NothingCollides == ASSUME NEW v \in Upgradable PROVE ~Collides(Released(v))
  <1>1. ASSUME v = 0 PROVE ~Collides(Released(v))
    BY <1>1, NothingReleased DEF Collides, WakeColumns
  <1>2. ASSUME v \in 6..JournalVersion PROVE ~Collides(Released(v))
    <2>1. 2 \in 1..v /\ 3 \in 1..v
      BY <1>2, VersionsAre
    <2>. QED BY <1>2, <2>1, PendingOfReleased DEF Collides
  <1>. QED BY <1>1, <1>2 DEF Upgradable

\* Whatever the release, the migrator leaves the schema of this one.
LEMMA MigrationIsLatest ==
  ASSUME NEW v \in Upgradable PROVE Migrated(Released(v)) = Released(JournalVersion)
  <1>. DEFINE d == Released(v)
              ts == d.tables \cup EngineTables \cup BaseTables \cup UNION {AddedBy[w] : w \in Pending(d)}
              js == d.ledger["journal"] \cup {1} \cup Pending(d)
  <1>1. \/ v = 0 /\ d.tables = {} /\ d.ledger["journal"] = {} /\ Pending(d) = (1..JournalVersion) \ {1}
        \/ /\ v \in 6..JournalVersion /\ d.tables = Left(v) \cup EngineTables /\ d.ledger["journal"] = 1..v
           /\ Pending(d) = (1..JournalVersion) \ (1..v)
    <2>1. v = 0 \/ v \in 6..JournalVersion
      BY DEF Upgradable
    <2>2. ASSUME v \in 6..JournalVersion PROVE v \in 1..JournalVersion
      BY <2>2, VersionsAre
    <2>. QED BY <2>1, <2>2, NothingReleased, LedgersAre, ReleasedIs, PendingOfNothing, PendingOfReleased
  <1>. HIDE DEF d
  <1>2. js = 1..JournalVersion
    BY <1>1, VersionsAre
  <1>3. BaseTables \subseteq JournalEntries /\ AddedBy[1] = BaseTables
    BY EachVersion, VersionsAre DEF JournalEntries
  <1>4. UNION {AddedBy[w] : w \in Pending(d)} \subseteq JournalEntries
    BY PendingAreVersions DEF JournalEntries
  <1>5. d.tables \subseteq JournalEntries \cup EngineTables
    <2>1. ASSUME v \in 6..JournalVersion PROVE Left(v) \subseteq JournalEntries
      <3>1. 1..v \subseteq 1..JournalVersion
        BY <2>1, VersionsAre
      <3>. QED BY <3>1 DEF Left, JournalEntries
    <2>. QED BY <1>1, <2>1
  <1>6. ASSUME NEW e \in JournalEntries PROVE e \in ts
    <2>1. PICK w \in 1..JournalVersion : e \in AddedBy[w]
      BY DEF JournalEntries
    <2>2. ASSUME w \in Pending(d) PROVE e \in ts
      BY <2>1, <2>2
    <2>3. ASSUME w \notin Pending(d) PROVE e \in ts
      <3>1. ASSUME v = 0 PROVE w = 1
        BY <1>1, <2>3, <3>1, VersionsAre
      <3>2. ASSUME v \in 6..JournalVersion PROVE e \in Left(v) /\ d.tables = Left(v) \cup EngineTables
        <4>1. w \in 1..v
          BY <1>1, <2>3, <3>2
        <4>. QED BY <1>1, <2>1, <3>2, <4>1 DEF Left
      <3>. QED BY <1>1, <1>3, <2>1, <3>1, <3>2
    <2>. QED BY <2>2, <2>3
  <1>7. ts = Entries
    BY <1>3, <1>4, <1>5, <1>6, EntriesAre
  <1>. DEFINE ls == [l \in Ledgers |-> IF l = "journal" THEN d.ledger[l] ELSE 1..Latest[l]]
  <1>8. [ls EXCEPT !["journal"] = js] = [l \in Ledgers |-> 1..Latest[l]]
    BY <1>2, LedgersAre, VersionsAre
  <1>. DEFINE e == EngineMigrated(d)
  <1>9. e = [tables |-> d.tables \cup EngineTables, ledger |-> ls]
    BY DEF EngineMigrated
  <1>10. e.ledger["journal"] = d.ledger["journal"]
    BY <1>9, LedgersAre
  <1>11. Migrated(d) = [e EXCEPT !.tables = e.tables \cup BaseTables \cup UNION {AddedBy[w] : w \in Pending(d)},
                                 !.ledger["journal"] = e.ledger["journal"] \cup {1} \cup Pending(d)]
    BY DEF Migrated
  <1>12. Migrated(d) = [e EXCEPT !.tables = ts, !.ledger["journal"] = js]
    BY <1>9, <1>10, <1>11
  <1>13. Migrated(d) = [tables |-> ts, ledger |-> [ls EXCEPT !["journal"] = js]]
    <2>. HIDE DEF ts, js, ls, e
    <2>. QED BY <1>9, <1>12
  <1>. QED BY <1>7, <1>8, <1>13, LatestReleaseIs DEF d

LEMMA StillToComeIs ==
  /\ StillToCome(6) = ScheduleTables \cup TriggerTables \cup SequenceColumns \cup OwnerTables \cup TraceColumns
  /\ StillToCome(7) = TriggerTables \cup SequenceColumns \cup OwnerTables \cup TraceColumns
  /\ StillToCome(8) = SequenceColumns \cup OwnerTables \cup TraceColumns
  /\ StillToCome(9) = OwnerTables \cup TraceColumns
  /\ StillToCome(10) = TraceColumns /\ StillToCome(11) = {}
  BY DEF StillToCome

\* What an inspection misses, the database does not have; and it misses a column
\* only of a table that is there.
LEMMA MissingIsMissing ==
  ASSUME NEW d, NEW e \in Missing(ReadingOf(d))
  PROVE  e \notin d.tables /\ (e \in Tables \/ \E t \in DOMAIN Columns : t \in d.tables /\ e \in Columns[t])
  <1>. DEFINE r == ReadingOf(d)
  <1>1. r.names = d.tables \cap Tables /\ r.columns = UNION {ColumnsOf(d, r.names, t) : t \in DOMAIN Columns}
    BY DEF ReadingOf, NamesOf
  <1>. HIDE DEF r
  <1>2. e \in Tables \ r.names \/ e \in UNION {Columns[t] \ r.columns : t \in (DOMAIN Columns) \cap r.names}
    BY DEF Missing, r
  <1>3. ASSUME NEW t \in (DOMAIN Columns) \cap r.names, e \in Columns[t] \ r.columns
        PROVE  e \notin d.tables /\ t \in d.tables
    <2>1. e \in d.tables => e \in ColumnsOf(d, r.names, t)
      BY <1>3 DEF ColumnsOf
    <2>. QED BY <1>1, <1>3, <2>1
  <1>. QED BY <1>1, <1>2, <1>3

LEMMA LeftIs ==
  ASSUME NEW v \in 6..JournalVersion, NEW e
  PROVE  /\ e \in JournalEntries \ Left(v) => \E w \in (v + 1)..JournalVersion : e \in AddedBy[w]
         /\ v \in {6, 7} => "schedule_manual_keys" \notin Left(v)
  <1>1. ASSUME e \in JournalEntries \ Left(v) PROVE \E w \in (v + 1)..JournalVersion : e \in AddedBy[w]
    <2>1. PICK w \in 1..JournalVersion : e \in AddedBy[w]
      BY <1>1 DEF JournalEntries
    <2>2. w \notin 1..v
      BY <1>1, <2>1 DEF Left
    <2>3. w \in (v + 1)..JournalVersion
      BY <2>2, VersionsAre
    <2>. QED BY <2>1, <2>3
  <1>2. ASSUME v \in {6, 7} PROVE "schedule_manual_keys" \notin Left(v)
    <2>1. ASSUME NEW w \in 1..7 PROVE "schedule_manual_keys" \notin AddedBy[w]
      <3>1. w \in {1, 2, 3, 4, 5, 6, 7}
        OBVIOUS
      <3>. QED BY <3>1, EachVersion DEF BaseTables, AdvancedTables, ScopeColumns, WakeColumns, ChainColumns,
        DeliveryTables, ScheduleTables
    <2>2. 1..v \subseteq 1..7
      BY <1>2
    <2>. QED BY <2>1, <2>2 DEF Left
  <1>. QED BY <1>1, <1>2

LEMMA ReleasedIsConsistent == ASSUME NEW v \in Upgradable PROVE ~Inconsistent(ReadingOf(Released(v)))
  <1>. DEFINE d == Released(v)
              r == ReadingOf(d)
  <1>1. ASSUME v = 0 PROVE ~Inconsistent(r)
    <2>1. d.tables = {}
      BY <1>1, NothingReleased
    <2>2. r.ledger["journal"] = {}
      BY <2>1, LedgersAre DEF ReadingOf, NamesOf, LedgerOf
    <2>3. Cardinality(r.ledger["journal"]) = 0
      BY <2>2, FS_EmptySet
    <2>. QED BY <2>3 DEF Inconsistent
  <1>2. ASSUME v \in 6..JournalVersion PROVE ~Inconsistent(r)
    <2>0. v \in 1..JournalVersion
      BY <1>2, VersionsAre
    <2>1. d.tables = Left(v) \cup EngineTables /\ d.ledger["journal"] = 1..v /\ "schema" \in d.tables
      BY <2>0, ReleasedIs
    <2>2. r.ledger["journal"] = 1..v
      BY <2>1, LedgersAre, TablesHaveColumns DEF ReadingOf, NamesOf, LedgerOf
    <2>3. Cardinality(r.ledger["journal"]) = v
      <3>1. 1 \in Int /\ v \in Int
        BY <2>0
      <3>2. Cardinality(1..v) = IF 1 > v THEN 0 ELSE v - 1 + 1
        BY <3>1, FS_Interval
      <3>. QED BY <2>0, <2>2, <3>2
    <2>4. ASSUME NEW e \in Missing(r) \cap JournalEntries PROVE e \in StillToCome(v)
      <3>1. e \notin d.tables /\ (e \in Tables \/ \E t \in DOMAIN Columns : t \in d.tables /\ e \in Columns[t])
        BY <2>4, MissingIsMissing
      <3>2. PICK w \in (v + 1)..JournalVersion : e \in AddedBy[w]
        BY <1>2, <2>1, <2>4, <3>1, LeftIs
      <3>3. v \in {6, 7, 8, 9, 10, 11} /\ w \in {7, 8, 9, 10, 11} /\ w > v
        BY <1>2, VersionsAre
      <3>4. ASSUME w = 9, v \in {6, 7} PROVE FALSE
        <4>1. e = "schedule_manual_keys.sequence"
          BY <3>2, <3>4, EachVersion DEF SequenceColumns
        <4>2. e \notin Tables
          BY <4>1, AllColumnsAre DEF Tables, EngineTables
        <4>3. PICK t \in DOMAIN Columns : t \in d.tables /\ e \in Columns[t]
          BY <3>1, <4>2
        <4>4. t = "schedule_manual_keys"
          BY <4>1, <4>3, ColumnsAre
        <4>. QED BY <1>2, <2>1, <3>4, <4>3, <4>4, LeftIs DEF EngineTables
      <3>. QED BY <3>2, <3>3, <3>4, EachVersion, StillToComeIs
    <2>5. v >= 2 /\ v # 1
      BY <1>2
    <2>. QED BY <2>3, <2>4, <2>5 DEF Inconsistent
  <1>. QED BY <1>1, <1>2 DEF Upgradable

-----------------------------------------------------------------------------
(* Starts on a database that a release has left. It stays one of a release   *)
(* until a newer one comes, so every ledger is a whole prefix of versions,   *)
(* whichever of the two an inspection reads.                                 *)

Whole == \E v \in Upgradable : situation.db = Released(v)
Ahead == [Released(JournalVersion) EXCEPT !.ledger["journal"] = @ \cup {Newer}]
LeftByRelease ==
  \/ \E v \in Upgradable : db = Released(v)
  \/ db = Ahead

\* The versions 1..n that a ledger may hold.
Prefix(l, ahead, versions) ==
  \E n \in Nat : versions = 1..n /\ (n <= Latest[l] \/ ahead)
ReadsPrefixes(p) == \A l \in Ledgers : Prefix(l, NewerIsHere, reading[p].ledger[l])

RefusedForCause(p) ==
  /\ failure[p] # "none" => pc[p] = "refused"
  /\ pc[p] = "validate" => mode[p] = "validate"
  /\ failure[p] \notin {"SCHEMA_CORRUPT", "SQL_ERROR"}
  /\ failure[p] = "MIGRATIONS_REQUIRED" => mode[p] = "validate"
  /\ failure[p] = "SCHEMA_TOO_NEW" => NewerIsHere

HealthyAt(p) == ReadsPrefixes(p) /\ RefusedForCause(p)
HealthInv == Whole => LeftByRelease /\ \A p \in Processes : HealthyAt(p)

LEMMA AheadIs ==
  /\ Ahead.tables = Entries /\ Ahead.ledger["journal"] = 1..Newer
  /\ \A l \in Ledgers \ {"journal"} : Ahead.ledger[l] = 1..Latest[l]
  <1>1. Ahead = [tables |-> Entries, ledger |-> [[l \in Ledgers |-> 1..Latest[l]] EXCEPT !["journal"] = @ \cup {Newer}]]
    <2>. DEFINE d == Released(JournalVersion)
                m == [l \in Ledgers |-> 1..Latest[l]]
    <2>1. d = [tables |-> Entries, ledger |-> m] /\ Ahead = [d EXCEPT !.ledger["journal"] = @ \cup {Newer}]
      BY LatestReleaseIs DEF Ahead
    <2>. HIDE DEF d, m
    <2>2. Ahead = [tables |-> Entries, ledger |-> [m EXCEPT !["journal"] = @ \cup {Newer}]]
      BY <2>1
    <2>. QED BY <2>2 DEF m
  <1>2. (1..Latest["journal"]) \cup {Newer} = 1..Newer
    BY LedgersAre, VersionsAre
  <1>. QED BY <1>1, <1>2, LedgersAre

LEMMA NoneIsPrefix == ASSUME NEW l, NEW a PROVE Prefix(l, a, {}) \/ ~(0 <= Latest[l])
  <1>1. 1..0 = {} /\ 0 \in Nat
    OBVIOUS
  <1>. QED BY <1>1 DEF Prefix

LEMMA LedgersArePrefixes ==
  ASSUME LeftByRelease, NEW l \in Ledgers, NEW n PROVE Prefix(l, NewerIsHere, LedgerOf(db, n, l))
  <1>0. Latest[l] \in Nat /\ Prefix(l, NewerIsHere, {})
    <2>1. Latest[l] \in Nat /\ 0 <= Latest[l]
      BY LedgersAre
    <2>. QED BY <2>1, NoneIsPrefix
  <1>1. Prefix(l, NewerIsHere, db.ledger[l])
    <2>1. ASSUME db = Released(0) PROVE Prefix(l, NewerIsHere, db.ledger[l])
      <3>1. db.ledger[l] = {}
        BY <2>1, NothingReleased
      <3>. QED BY <1>0, <3>1
    <2>2. ASSUME NEW v \in 6..JournalVersion, db = Released(v) PROVE Prefix(l, NewerIsHere, db.ledger[l])
      <3>1. v \in 1..JournalVersion /\ v \in Nat /\ v <= Latest["journal"]
        BY VersionsAre, LedgersAre
      <3>2. l = "journal" => db.ledger[l] = 1..v /\ v <= Latest[l]
        BY <2>2, <3>1, ReleasedIs
      <3>3. l # "journal" => db.ledger[l] = 1..Latest[l] /\ Latest[l] <= Latest[l]
        BY <1>0, <2>2, <3>1, ReleasedIs
      <3>. QED BY <1>0, <3>1, <3>2, <3>3 DEF Prefix
    <2>3. ASSUME db = Ahead PROVE Prefix(l, NewerIsHere, db.ledger[l])
      <3>1. NewerIsHere /\ Newer \in Nat
        BY <2>3, AheadIs, VersionsAre DEF NewerIsHere
      <3>2. l = "journal" => db.ledger[l] = 1..Newer
        BY <2>3, AheadIs
      <3>3. l # "journal" => db.ledger[l] = 1..Latest[l] /\ Latest[l] <= Latest[l]
        BY <1>0, <2>3, AheadIs
      <3>. QED BY <1>0, <3>1, <3>2, <3>3 DEF Prefix
    <2>. QED BY <2>1, <2>2, <2>3 DEF LeftByRelease, Upgradable
  <1>. QED BY <1>0, <1>1 DEF LedgerOf

\* An inspection of whole ledgers never finds gaps, and a version it does not
\* know only after the newer release.
LEMMA PrefixesAreSound ==
  ASSUME NEW r, NEW a \in BOOLEAN, \A l \in Ledgers : Prefix(l, a, r.ledger[l])
  PROVE  StatusFailure(r) = "none" \/ (StatusFailure(r) = "SCHEMA_TOO_NEW" /\ a = TRUE)
  <1>1. ASSUME NEW l \in Ledgers PROVE r.ledger[l] = 1..Cardinality(r.ledger[l])
    <2>1. PICK n \in Nat : r.ledger[l] = 1..n
      BY DEF Prefix
    <2>2. Cardinality(1..n) = n
      <3>1. 1 \in Int /\ n \in Int
        OBVIOUS
      <3>2. Cardinality(1..n) = IF 1 > n THEN 0 ELSE n - 1 + 1
        BY <3>1, FS_Interval
      <3>. QED BY <3>2
    <2>. QED BY <2>1, <2>2
  <1>2. ASSUME NEW l \in Ledgers, TooNew(r, l) PROVE a = TRUE
    <2>1. \E v \in r.ledger[l] : v > Latest[l]
      BY <1>2 DEF TooNew
    <2>2. PICK n \in Nat : r.ledger[l] = 1..n /\ (n <= Latest[l] \/ a)
      BY DEF Prefix
    <2>3. Latest[l] \in Nat
      BY LedgersAre
    <2>. QED BY <2>1, <2>2, <2>3
  <1>3. ASSUME NEW l \in Ledgers
        PROVE  LedgerFailure(r, l) = "none" \/ (LedgerFailure(r, l) = "SCHEMA_TOO_NEW" /\ a = TRUE)
    BY <1>1, <1>2 DEF LedgerFailure, HasGaps
  <1>. QED BY <1>3, LedgersAre DEF StatusFailure

\* migrateAll on such a database.
LEMMA HealthyMigrates ==
  ASSUME NEW v \in Upgradable
  PROVE  MigrateFailure(Released(v)) = "none" /\ Migrated(Released(v)) = Released(JournalVersion)
  <1>. DEFINE d == Released(v)
  <1>1. Migrated(d) = Released(JournalVersion)
    BY MigrationIsLatest
  <1>2. ~Inconsistent(ReadingOf(d)) /\ ~Collides(d)
    BY ReleasedIsConsistent, NothingCollides
  <1>3. StatusFailure(ReadingOf(d)) = "none"
    <2>1. ASSUME NEW l \in Ledgers PROVE Prefix(l, FALSE, ReadingOf(d).ledger[l])
      <3>0. Latest[l] \in Nat /\ Prefix(l, FALSE, {})
        <4>1. Latest[l] \in Nat /\ 0 <= Latest[l]
          BY LedgersAre
        <4>. QED BY <4>1, NoneIsPrefix
      <3>1. ReadingOf(d).ledger[l] \in {{}, d.ledger[l]}
        BY DEF ReadingOf, LedgerOf
      <3>2. ASSUME v = 0 PROVE d.ledger[l] = {}
        BY <3>2, NothingReleased
      <3>3. ASSUME v \in 6..JournalVersion PROVE Prefix(l, FALSE, d.ledger[l])
        <4>1. v \in 1..JournalVersion /\ v \in Nat /\ v <= Latest["journal"]
          BY <3>3, VersionsAre, LedgersAre
        <4>2. l = "journal" => d.ledger[l] = 1..v /\ v <= Latest[l]
          BY <4>1, ReleasedIs
        <4>3. l # "journal" => d.ledger[l] = 1..Latest[l] /\ Latest[l] <= Latest[l]
          BY <3>0, <4>1, ReleasedIs
        <4>. QED BY <3>0, <4>1, <4>2, <4>3 DEF Prefix
      <3>. QED BY <3>0, <3>1, <3>2, <3>3 DEF Upgradable
    <2>. QED BY <2>1, PrefixesAreSound
  <1>4. Valid(ReadingOf(Migrated(d)))
    BY <1>1, LatestIsValid
  <1>. QED BY <1>1, <1>2, <1>3, <1>4 DEF MigrateFailure

LEMMA AheadIsTooNew == MigrateFailure(Ahead) = "SCHEMA_TOO_NEW"
  <1>1. "schema" \in NamesOf(Ahead)
    BY AheadIs, TablesHaveColumns DEF NamesOf, Entries
  <1>2. ReadingOf(Ahead).ledger["journal"] = 1..Newer
    BY <1>1, AheadIs, LedgersAre DEF ReadingOf, LedgerOf
  <1>3. TooNew(ReadingOf(Ahead), "journal")
    <2>1. Newer \in 1..Newer /\ Newer > Latest["journal"]
      BY VersionsAre, LedgersAre
    <2>. QED BY <1>2, <2>1, LedgersAre DEF TooNew
  <1>. QED BY <1>3 DEF MigrateFailure, StatusFailure, LedgerFailure

LEMMA HealthInit == Init => HealthInv
  <1>. SUFFICES ASSUME Init, Whole PROVE LeftByRelease /\ \A p \in Processes : HealthyAt(p)
    BY DEF HealthInv
  <1>1. LeftByRelease
    BY DEF Init, Whole, LeftByRelease
  <1>2. ASSUME NEW p \in Processes PROVE HealthyAt(p)
    <2>1. ASSUME NEW l \in Ledgers PROVE Prefix(l, NewerIsHere, reading[p].ledger[l])
      <3>1. reading[p].ledger[l] = {}
        BY DEF Init, Nothing
      <3>2. 0 <= Latest[l]
        BY LedgersAre
      <3>. QED BY <3>1, <3>2, NoneIsPrefix
    <2>. QED BY <2>1 DEF Init, HealthyAt, ReadsPrefixes, RefusedForCause
  <1>. QED BY <1>1, <1>2

LEMMA ReleasesStay == ASSUME TypeInv, LeftByRelease, Next PROVE LeftByRelease'
  <1>. USE DEF LeftByRelease
  <1>0. ASSUME MigrateFailure(db) = "none" PROVE Migrated(db) = Released(JournalVersion)
    BY <1>0, HealthyMigrates, AheadIsTooNew
  <1>1. ASSUME NEW p \in Processes, Commit(p) PROVE LeftByRelease'
    <2>1. UNCHANGED db \/ (MigrateFailure(db) = "none" /\ db' = Migrated(db))
      BY <1>1 DEF Commit
    <2>2. JournalVersion \in Upgradable
      BY UpgradableAre, VersionsAre
    <2>. QED BY <1>0, <2>1, <2>2 DEF Ahead
  <1>2. ASSUME NewerRelease PROVE LeftByRelease'
    BY <1>0, <1>2 DEF NewerRelease, Ahead
  <1>3. ASSUME UNCHANGED db PROVE LeftByRelease'
    BY <1>3 DEF Ahead
  <1>. QED BY <1>1, <1>2, <1>3
    DEF Next, Launch, DiscoverFeatures, Connect, Lock, Read, Validate, Register, StartProbe, AnswerProbe, Exit, SetQueueLimits

LEMMA PrefixesStay ==
  ASSUME TypeInv, LeftByRelease, \A p \in Processes : ReadsPrefixes(p), Next, NEW p \in Processes
  PROVE  ReadsPrefixes(p)'
  <1>0. reading \in [Processes -> Readings]
    BY DEF TypeInv
  <1>1. NewerIsHere => NewerIsHere'
    BY DatabaseGrows DEF Grows, NewerIsHere
  <1>2. ASSUME NEW l \in Ledgers, Prefix(l, NewerIsHere, reading'[p].ledger[l])
        PROVE  Prefix(l, NewerIsHere', reading'[p].ledger[l])
    BY <1>1, <1>2 DEF Prefix
  <1>3. ASSUME NEW l \in Ledgers
        PROVE  /\ Prefix(l, NewerIsHere, {}) /\ Prefix(l, NewerIsHere, reading[p].ledger[l])
               /\ \A n : Prefix(l, NewerIsHere, LedgerOf(db, n, l))
    <2>1. 0 <= Latest[l]
      BY LedgersAre
    <2>2. Prefix(l, NewerIsHere, {})
      BY <2>1, NoneIsPrefix
    <2>3. ASSUME NEW n PROVE Prefix(l, NewerIsHere, LedgerOf(db, n, l))
      BY LedgersArePrefixes
    <2>. QED BY <2>2, <2>3 DEF ReadsPrefixes
  <1>4. \/ reading'[p] = reading[p] \/ reading'[p] = Nothing \/ reading'[p] = ReadingOf(db)
        \/ Read(p)
    <2>1. ASSUME NEW q \in Processes, Read(q) PROVE reading'[p] = reading[p] \/ Read(p)
      BY <1>0, <2>1 DEF Read
    <2>. QED BY <1>0, <2>1
      DEF Next, Launch, DiscoverFeatures, Connect, Lock, Commit, Validate, Register, StartProbe, AnswerProbe, Exit,
        SetQueueLimits, NewerRelease, EndReading
  <1>5. ASSUME NEW l \in Ledgers PROVE Prefix(l, NewerIsHere, reading'[p].ledger[l])
    <2>1. ASSUME reading'[p] = Nothing PROVE reading'[p].ledger[l] = {}
      BY <2>1 DEF Nothing
    <2>2. ASSUME reading'[p] = ReadingOf(db) PROVE reading'[p].ledger[l] = LedgerOf(db, NamesOf(db), l)
      BY <2>2 DEF ReadingOf
    <2>3. ASSUME Read(p)
          PROVE  reading'[p].ledger[l] \in {reading[p].ledger[l], LedgerOf(db, reading[p].names, l)}
      BY <2>3, ReadStep
    <2>. QED BY <1>3, <1>4, <2>1, <2>2, <2>3
  <1>. QED BY <1>2, <1>5 DEF ReadsPrefixes

LEMMA CauseStays ==
  ASSUME TypeInv, SafeInv, LeftByRelease, \A p \in Processes : HealthyAt(p), Next, NEW p \in Processes
  PROVE  RefusedForCause(p)'
  <1>0. /\ pc \in [Processes -> {"down", "discover", "connect", "migrate", "migrating", "validate",
                                 "limits", "serving", "refused"}]
        /\ mode \in [Processes -> {"run", "validate"}] /\ failure \in [Processes -> Failures]
    BY DEF TypeInv, TypeOK
  <1>1. NewerIsHere => NewerIsHere'
    BY DatabaseGrows DEF Grows, NewerIsHere
  <1>2. RefusedForCause(p) /\ ReadsPrefixes(p)
    BY DEF HealthyAt
  <1>. USE DEF RefusedForCause
  <1>3. ASSUME pc'[p] = pc[p], mode'[p] = mode[p], failure'[p] = failure[p] PROVE RefusedForCause(p)'
    BY <1>1, <1>2, <1>3
  <1>4. ASSUME NEW m \in {"run", "validate"}, NEW l, Launch(p, m, l) PROVE RefusedForCause(p)'
    BY <1>0, <1>1, <1>2, <1>4 DEF Launch
  <1>5. ASSUME NEW o, DiscoverFeatures(p, o) PROVE RefusedForCause(p)'
    BY <1>0, <1>1, <1>2, <1>5 DEF DiscoverFeatures, Refuse
  <1>6. ASSUME Connect(p) \/ Lock(p) \/ Read(p) \/ StartProbe(p) \/ AnswerProbe(p) PROVE RefusedForCause(p)'
    BY <1>0, <1>1, <1>2, <1>6 DEF Connect, Lock, Read, StartProbe, AnswerProbe
  <1>7. ASSUME Exit(p) PROVE RefusedForCause(p)'
    BY <1>0, <1>7 DEF Exit
  <1>8. ASSUME Register(p) PROVE RefusedForCause(p)'
    BY <1>0, <1>1, <1>2, <1>8 DEF Register, Refuse
  <1>9. ASSUME Commit(p) PROVE RefusedForCause(p)'
    <2>1. ReadingOf(db) = reading[p] /\ pc[p] = "migrating" /\ mode' = mode /\ failure[p] = "none"
      BY <1>2, <1>9 DEF Commit, SafeInv, SafeAt, LockIsHeld
    <2>2. MigrateFailure(db) = "none" \/ (MigrateFailure(db) = "SCHEMA_TOO_NEW" /\ NewerIsHere)
      <3>1. ASSUME db = Ahead PROVE NewerIsHere
        BY <3>1, AheadIs, VersionsAre DEF NewerIsHere
      <3>. QED BY <3>1, HealthyMigrates, AheadIsTooNew DEF LeftByRelease
    <2>3. \/ pc'[p] = "limits" /\ failure'[p] = failure[p]
          \/ pc'[p] = "refused" /\ failure'[p] = MigrateFailure(db)
      BY <1>0, <1>9, <2>1 DEF Commit, Refuse
    <2>. QED BY <1>1, <2>1, <2>2, <2>3
  <1>10. ASSUME Validate(p) PROVE RefusedForCause(p)'
    <2>1. NewerIsHere \in BOOLEAN
      BY DEF NewerIsHere
    <2>2. StatusFailure(reading[p]) = "none" \/ (StatusFailure(reading[p]) = "SCHEMA_TOO_NEW" /\ NewerIsHere)
      BY <1>2, <2>1, PrefixesAreSound DEF ReadsPrefixes
    <2>3. mode'[p] = "validate" /\ pc[p] = "validate" /\ failure[p] = "none"
      BY <1>2, <1>10 DEF Validate
    <2>4. \/ pc'[p] = "limits" /\ failure'[p] = failure[p]
          \/ pc'[p] = "refused" /\ failure'[p] \in {StatusFailure(reading[p]), "MIGRATIONS_REQUIRED"}
             /\ failure'[p] # "none"
      BY <1>0, <1>10 DEF Validate, Refuse
    <2>. QED BY <1>1, <2>2, <2>3, <2>4
  <1>11. ASSUME NEW q \in Processes \ {p},
                \/ \E m \in {"run", "validate"}, l \in Limits : Launch(q, m, l)
                \/ \E order \in Orders(situation.app) : DiscoverFeatures(q, order)
                \/ Connect(q) \/ Lock(q) \/ Commit(q) \/ Read(q) \/ Validate(q) \/ Register(q)
                \/ StartProbe(q) \/ AnswerProbe(q) \/ Exit(q)
         PROVE  pc'[p] = pc[p] /\ mode'[p] = mode[p] /\ failure'[p] = failure[p]
    BY <1>0, <1>11 DEF Launch, DiscoverFeatures, Connect, Lock, Commit, Read, Validate, Register, StartProbe, AnswerProbe,
      Exit, Refuse
  <1>12. ASSUME NEW l, SetQueueLimits(l) \/ NewerRelease
         PROVE  pc'[p] = pc[p] /\ mode'[p] = mode[p] /\ failure'[p] = failure[p]
    BY <1>12 DEF SetQueueLimits, NewerRelease
  <1>. QED BY <1>3, <1>4, <1>5, <1>6, <1>7, <1>8, <1>9, <1>10, <1>11, <1>12 DEF Next

LEMMA HealthStep == ASSUME TypeInv, SafeInv, HealthInv, [Next]_vars PROVE HealthInv'
  <1>1. ASSUME Next PROVE HealthInv'
    <2>1. Whole' = Whole
      <3>1. situation' = situation
        BY <1>1 DEF Next, Launch, DiscoverFeatures, Connect, Lock, Commit, Read, Validate, Register, StartProbe, AnswerProbe,
          Exit, SetQueueLimits, NewerRelease
      <3>. QED BY <3>1 DEF Whole
    <2>2. ASSUME Whole PROVE LeftByRelease' /\ \A p \in Processes : HealthyAt(p)'
      <3>1. LeftByRelease /\ \A p \in Processes : HealthyAt(p)
        BY <2>2 DEF HealthInv
      <3>2. ASSUME NEW p \in Processes PROVE HealthyAt(p)'
        <4>1. ReadsPrefixes(p)'
          BY <1>1, <3>1, PrefixesStay DEF HealthyAt
        <4>2. RefusedForCause(p)'
          BY <1>1, <3>1, CauseStays
        <4>. QED BY <4>1, <4>2 DEF HealthyAt
      <3>. QED BY <1>1, <3>1, <3>2, ReleasesStay
    <2>. QED BY <2>1, <2>2 DEF HealthInv
  <1>2. ASSUME UNCHANGED vars PROVE HealthInv'
    BY <1>2 DEF HealthInv, Whole, LeftByRelease, HealthyAt, ReadsPrefixes, RefusedForCause, NewerIsHere, Prefix
  <1>. QED BY <1>1, <1>2

\* On a database that a release has left, no start is refused because others
\* start at the same time: never as damaged, never by a statement that fails, and
\* as too new only after the newer release, however many processes there are.
THEOREM StartsAreHealthy == Spec => []HealthyStarts
  <1>1. HealthInv => HealthyStarts
    BY DEF HealthInv, HealthyStarts, Whole, HealthyAt, RefusedForCause
  <1>. QED BY <1>1, TypeInit, TypeStep, SafeInit, SafeStep, HealthInit, HealthStep, PTL DEF Spec

-----------------------------------------------------------------------------
(* Traversals of the graphs of modules and of features.                      *)

Less == {s \in Nat \X Nat : s[1] < s[2]}

\* A set of naturals that is not empty has a least element.
LEMMA LeastOf ==
  ASSUME NEW T, T \subseteq Nat, T # {}
  PROVE  \E m \in T : \A n \in T : m <= n
  <1>1. Less = OpToRel(<, Nat)
    BY DEF Less, OpToRel
  <1>2. IsWellFoundedOn(Less, Nat)
    BY <1>1, NatLessThanWellFounded
  <1>3. PICK m \in T : \A n \in T : <<n, m>> \notin Less
    BY <1>2, WFMin
  <1>4. \A n \in T : ~(n < m)
    BY <1>3 DEF Less
  <1>. QED BY <1>4

\* Two accounts of a traversal agree if they can only differ where they differ
\* further on.
DifferFurtherOn(nodes, f, g) ==
  \A w \in Walks(nodes) : f[w] # g[w] =>
    \E v \in Walks(nodes) : w[2] \subseteq v[2] /\ w[2] # v[2] /\ f[v] # g[v]
LEMMA SameWalks ==
  ASSUME NEW nodes, IsFiniteSet(nodes), NEW f, NEW g, DifferFurtherOn(nodes, f, g)
  PROVE  \A w \in Walks(nodes) : f[w] = g[w]
  <1>. USE DEF DifferFurtherOn
  <1>. DEFINE Differ(n) == \E w \in Walks(nodes) : f[w] # g[w] /\ n = Cardinality(nodes \ w[2])
              sizes == {n \in Nat : Differ(n)}
  <1>1. ASSUME NEW w \in Walks(nodes) PROVE IsFiniteSet(nodes \ w[2]) /\ Cardinality(nodes \ w[2]) \in Nat
    <2>1. nodes \ w[2] \in SUBSET nodes
      OBVIOUS
    <2>. QED BY <2>1, FS_Subset, FS_CardinalityType
  <1>2. ASSUME NEW w \in Walks(nodes), f[w] # g[w] PROVE FALSE
    <2>1. sizes # {}
      BY <1>1, <1>2
    <2>2. PICK n \in sizes : \A m \in sizes : n <= m
      BY <2>1, LeastOf
    <2>3. PICK x \in Walks(nodes) : f[x] # g[x] /\ n = Cardinality(nodes \ x[2])
      BY <2>2
    <2>4. PICK v \in Walks(nodes) : x[2] \subseteq v[2] /\ x[2] # v[2] /\ f[v] # g[v]
      BY <2>3
    <2>5. PICK a, b : a = nodes \ x[2] /\ b = nodes \ v[2]
      OBVIOUS
    <2>6. b \in SUBSET a /\ b # a
      BY <2>3, <2>4, <2>5 DEF Walks
    <2>7. Cardinality(b) <= Cardinality(a) /\ Cardinality(b) # Cardinality(a)
      <3>1. IsFiniteSet(a)
        BY <1>1, <2>3, <2>5
      <3>. QED BY <2>6, <3>1, FS_Subset
    <2>8. Cardinality(a) \in Nat /\ Cardinality(b) \in Nat
      BY <1>1, <2>3, <2>4, <2>5
    <2>9. Cardinality(b) \in sizes
      BY <2>4, <2>5, <2>8
    <2>10. Cardinality(a) <= Cardinality(b)
      BY <2>2, <2>3, <2>5, <2>9
    <2>. QED BY <2>7, <2>8, <2>10
  <1>. QED BY <1>2

\* The hosts met from hosts, if those in ends pass nothing on and those in
\* before are not entered again.
Met(app, hosts, before, ends) ==
  {y \in DOMAIN app.imports : \A closed \in SUBSET DOMAIN app.imports :
     (hosts \ before \subseteq closed /\ \A z \in closed \ ends : PassedOn(app, z) \ before \subseteq closed)
        => y \in closed}

LEMMA MetIn ==
  ASSUME NEW app, NEW hosts, NEW before, NEW ends, NEW closed \in SUBSET DOMAIN app.imports,
         hosts \ before \subseteq closed, \A z \in closed \ ends : PassedOn(app, z) \ before \subseteq closed
  PROVE  Met(app, hosts, before, ends) \subseteq closed
  BY DEF Met

LEMMA MetIsClosed ==
  ASSUME NEW app, IsApplication(app), NEW hosts \in SUBSET DOMAIN app.imports, NEW before, NEW ends
  PROVE  /\ Met(app, hosts, before, ends) \subseteq DOMAIN app.imports
         /\ hosts \ before \subseteq Met(app, hosts, before, ends)
         /\ \A z \in Met(app, hosts, before, ends) \ ends :
              PassedOn(app, z) \ before \subseteq Met(app, hosts, before, ends)
  <1>1. \A z \in DOMAIN app.imports : PassedOn(app, z) \subseteq DOMAIN app.imports
    BY DEF IsApplication, PassedOn
  <1>. QED BY <1>1 DEF Met

LEMMA MetStep ==
  ASSUME NEW app, IsApplication(app), NEW hosts \in SUBSET DOMAIN app.imports, NEW before, NEW ends, NEW fresh,
         NEW passed \in SUBSET DOMAIN app.imports, fresh = hosts \ before,
         \A h \in fresh \ ends : PassedOn(app, h) \subseteq passed,
         \A y \in passed : \E h \in fresh \ ends : y \in PassedOn(app, h)
  PROVE  Met(app, hosts, before, ends) = fresh \cup Met(app, passed, before \cup fresh, ends)
  <1>. PICK here, there : here = Met(app, hosts, before, ends) /\ there = Met(app, passed, before \cup fresh, ends)
    OBVIOUS
  <1>1. /\ there \subseteq DOMAIN app.imports /\ passed \ (before \cup fresh) \subseteq there
        /\ \A z \in there \ ends : PassedOn(app, z) \ (before \cup fresh) \subseteq there
    BY MetIsClosed
  <1>2. /\ here \subseteq DOMAIN app.imports /\ fresh \subseteq here
        /\ \A z \in here \ ends : PassedOn(app, z) \ before \subseteq here
    BY MetIsClosed
  <1>3. here \subseteq fresh \cup there
    <2>1. PICK all : all = fresh \cup there
      OBVIOUS
    <2>2. all \in SUBSET DOMAIN app.imports /\ hosts \ before \subseteq all
      BY <1>1, <2>1
    <2>3. \A z \in all \ ends : PassedOn(app, z) \ before \subseteq all
      BY <1>1, <2>1
    <2>4. Met(app, hosts, before, ends) \subseteq all
      BY <2>2, <2>3, MetIn
    <2>. QED BY <2>1, <2>4
  <1>4. there \subseteq here
    <2>1. here \in SUBSET DOMAIN app.imports /\ passed \ (before \cup fresh) \subseteq here
      BY <1>2
    <2>2. \A z \in here \ ends : PassedOn(app, z) \ (before \cup fresh) \subseteq here
      BY <1>2
    <2>3. Met(app, passed, before \cup fresh, ends) \subseteq here
      BY <2>1, <2>2, MetIn
    <2>. QED BY <2>3
  <1>. QED BY <1>2, <1>3, <1>4

LEMMA FirstMetIs ==
  ASSUME NEW app, IsApplication(app), NEW hosts \in SUBSET DOMAIN app.imports, NEW ends
  PROVE  FirstMet(app, hosts, ends) = ends \cap Met(app, hosts, {}, ends)
  <1>. DEFINE nodes == DOMAIN app.imports
              Fresh(w) == w[1] \ w[2]
              Passed(w) == UNION {PassedOn(app, h) : h \in Fresh(w) \ ends}
              Go(m) == [w \in Walks(nodes) |->
                          LET fresh == w[1] \ w[2]
                              passed == UNION {PassedOn(app, h) : h \in fresh \ ends}
                          IN IF fresh = {} THEN {} ELSE (fresh \cap ends) \cup m[<<passed, w[2] \cup fresh>>]]
              meets == [w \in Walks(nodes) |-> ends \cap Met(app, w[1], w[2], ends)]
              met == CHOOSE m : m = Go(m)
  <1>1. ASSUME NEW w \in Walks(nodes)
        PROVE  /\ <<Passed(w), w[2] \cup Fresh(w)>> \in Walks(nodes)
               /\ meets[w] = IF Fresh(w) = {} THEN {}
                             ELSE (Fresh(w) \cap ends) \cup meets[<<Passed(w), w[2] \cup Fresh(w)>>]
    <2>1. w[1] \in SUBSET nodes /\ w[2] \in SUBSET nodes
      BY DEF Walks
    <2>2. PICK fresh, passed : fresh = Fresh(w) /\ passed = Passed(w)
      OBVIOUS
    <2>a. passed \in SUBSET nodes
      BY <2>1, <2>2 DEF IsApplication, PassedOn
    <2>b. Met(app, w[1], w[2], ends) = fresh \cup Met(app, passed, w[2] \cup fresh, ends)
      <3>1. /\ \A h \in fresh \ ends : PassedOn(app, h) \subseteq passed
            /\ \A y \in passed : \E h \in fresh \ ends : y \in PassedOn(app, h)
        BY <2>2
      <3>. QED BY <2>1, <2>2, <2>a, <3>1, MetStep
    <2>3. <<passed, w[2] \cup fresh>> \in Walks(nodes)
      BY <2>1, <2>2, <2>a DEF Walks
    <2>4. ASSUME fresh = {} PROVE Met(app, w[1], w[2], ends) = {}
      <3>1. {} \in SUBSET DOMAIN app.imports /\ w[1] \ w[2] \subseteq {}
        BY <2>2, <2>4
      <3>2. \A z \in {} \ ends : PassedOn(app, z) \ w[2] \subseteq {}
        OBVIOUS
      <3>. QED BY <3>1, <3>2 DEF Met
    <2>5. meets[w] = IF fresh = {} THEN {} ELSE (fresh \cap ends) \cup meets[<<passed, w[2] \cup fresh>>]
      BY <2>b, <2>3, <2>4
    <2>. QED BY <2>2, <2>3, <2>5
  <1>2. meets = Go(meets)
    BY <1>1
  <1>3. met = Go(met)
    BY <1>2
  <1>4. FirstMet(app, hosts, ends) = met[<<hosts, {}>>]
    BY DEF FirstMet
  <1>5. \A w \in Walks(nodes) : met[w] = meets[w]
    <2>. HIDE DEF met, meets
    <2>1. ASSUME NEW w \in Walks(nodes), met[w] # meets[w]
          PROVE  \E v \in Walks(nodes) : w[2] \subseteq v[2] /\ w[2] # v[2] /\ met[v] # meets[v]
      <3>. DEFINE v == <<Passed(w), w[2] \cup Fresh(w)>>
      <3>1. met[w] = IF Fresh(w) = {} THEN {} ELSE (Fresh(w) \cap ends) \cup met[v]
        BY <1>3
      <3>2. v \in Walks(nodes) /\ meets[w] = IF Fresh(w) = {} THEN {} ELSE (Fresh(w) \cap ends) \cup meets[v]
        BY <1>1
      <3>3. Fresh(w) # {} /\ met[v] # meets[v]
        BY <2>1, <3>1, <3>2
      <3>4. v[2] = w[2] \cup Fresh(w)
        OBVIOUS
      <3>5. w[2] \subseteq v[2] /\ w[2] # v[2]
        BY <3>3, <3>4
      <3>. QED BY <3>2, <3>3, <3>5
    <2>2. IsFiniteSet(nodes)
      BY DEF IsApplication
    <2>3. \A w \in Walks(nodes) : met[w] # meets[w] =>
            \E v \in Walks(nodes) : w[2] \subseteq v[2] /\ w[2] # v[2] /\ met[v] # meets[v]
      BY <2>1
    <2>4. PICK n, f, g : n = nodes /\ f = met /\ g = meets
      OBVIOUS
    <2>5. IsFiniteSet(n) /\ DifferFurtherOn(n, f, g)
      BY <2>2, <2>3, <2>4 DEF DifferFurtherOn
    <2>6. \A w \in Walks(n) : f[w] = g[w]
      <3>. HIDE DEF nodes
      <3>. QED BY <2>5, SameWalks
    <2>. QED BY <2>4, <2>6
  <1>6. <<hosts, {}>> \in Walks(nodes)
    BY DEF Walks
  <1>. QED BY <1>4, <1>5, <1>6

\* The markers a feature sees.
Shown(app, token, f) == UNION {ExportedMarkers(app, h, token) : h \in app.imports[f]}
\* Those it gets to by them, if it does not enter the features in before again.
Chained(app, token, features, before) ==
  {y \in FeaturesOf(app) : \A closed \in SUBSET FeaturesOf(app) :
     ((\A f \in features \ before : Shown(app, token, f) \subseteq closed)
        /\ \A z \in closed \ before : Shown(app, token, z) \subseteq closed) => y \in closed}

LEMMA MarkersAre ==
  ASSUME NEW app, IsApplication(app), NEW token, NEW h \in DOMAIN app.imports
  PROVE  ExportedMarkers(app, h, token) = Marked(app, token) \cap Met(app, {h}, {}, Marked(app, token))
  BY FirstMetIs DEF ExportedMarkers

LEMMA ShownAreFeatures ==
  ASSUME NEW app, IsApplication(app), NEW token, NEW f \in FeaturesOf(app)
  PROVE  Shown(app, token, f) \subseteq FeaturesOf(app)
  <1>1. \A h \in app.imports[f] : h \in DOMAIN app.imports
    BY DEF IsApplication
  <1>2. ASSUME NEW h \in app.imports[f] PROVE ExportedMarkers(app, h, token) \subseteq FeaturesOf(app)
    BY <1>1, MarkersAre DEF Marked
  <1>. QED BY <1>2 DEF Shown

LEMMA ChainedIn ==
  ASSUME NEW app, NEW token, NEW features, NEW before, NEW closed \in SUBSET FeaturesOf(app),
         \A f \in features \ before : Shown(app, token, f) \subseteq closed,
         \A z \in closed \ before : Shown(app, token, z) \subseteq closed
  PROVE  Chained(app, token, features, before) \subseteq closed
  BY DEF Chained

LEMMA ChainedIsClosed ==
  ASSUME NEW app, IsApplication(app), NEW token, NEW features \in SUBSET FeaturesOf(app), NEW before
  PROVE  /\ Chained(app, token, features, before) \subseteq FeaturesOf(app)
         /\ \A f \in features \ before : Shown(app, token, f) \subseteq Chained(app, token, features, before)
         /\ \A z \in Chained(app, token, features, before) \ before :
              Shown(app, token, z) \subseteq Chained(app, token, features, before)
  <1>1. \A f \in FeaturesOf(app) : Shown(app, token, f) \subseteq FeaturesOf(app)
    BY ShownAreFeatures
  <1>. QED BY <1>1 DEF Chained

LEMMA ChainedStep ==
  ASSUME NEW app, IsApplication(app), NEW token, NEW features \in SUBSET FeaturesOf(app), NEW before,
         NEW fresh, NEW markers \in SUBSET FeaturesOf(app), fresh = features \ before,
         \A f \in fresh : Shown(app, token, f) \subseteq markers,
         \A y \in markers : \E f \in fresh : y \in Shown(app, token, f)
  PROVE  Chained(app, token, features, before) = markers \cup Chained(app, token, markers, before \cup fresh)
  <1>. PICK here, there :
         here = Chained(app, token, features, before) /\ there = Chained(app, token, markers, before \cup fresh)
    OBVIOUS
  <1>1. /\ there \subseteq FeaturesOf(app)
        /\ \A f \in markers \ (before \cup fresh) : Shown(app, token, f) \subseteq there
        /\ \A z \in there \ (before \cup fresh) : Shown(app, token, z) \subseteq there
    BY ChainedIsClosed
  <1>2. /\ here \subseteq FeaturesOf(app)
        /\ \A f \in fresh : Shown(app, token, f) \subseteq here
        /\ \A z \in here \ before : Shown(app, token, z) \subseteq here
    BY ChainedIsClosed
  <1>3. markers \subseteq here
    BY <1>2
  <1>4. here \subseteq markers \cup there
    <2>1. PICK all : all = markers \cup there
      OBVIOUS
    <2>2. all \in SUBSET FeaturesOf(app) /\ \A f \in features \ before : Shown(app, token, f) \subseteq all
      BY <1>1, <2>1
    <2>3. \A z \in all \ before : Shown(app, token, z) \subseteq all
      BY <1>1, <2>1
    <2>4. Chained(app, token, features, before) \subseteq all
      BY <2>2, <2>3, ChainedIn
    <2>. QED BY <2>1, <2>4
  <1>5. there \subseteq here
    <2>1. here \in SUBSET FeaturesOf(app) /\ \A f \in markers \ (before \cup fresh) : Shown(app, token, f) \subseteq here
      BY <1>2, <1>3
    <2>2. \A z \in here \ (before \cup fresh) : Shown(app, token, z) \subseteq here
      BY <1>2
    <2>3. Chained(app, token, markers, before \cup fresh) \subseteq here
      BY <2>1, <2>2, ChainedIn
    <2>. QED BY <2>3
  <1>. QED BY <1>3, <1>4, <1>5

LEMMA FeaturesAreFinite == ASSUME NEW app, IsApplication(app) PROVE IsFiniteSet(FeaturesOf(app))
  <1>1. FeaturesOf(app) \in SUBSET DOMAIN app.imports /\ IsFiniteSet(DOMAIN app.imports)
    BY DEF IsApplication
  <1>. QED BY <1>1, FS_Subset

LEMMA ImportsExportIs ==
  ASSUME NEW app, IsApplication(app), NEW feature \in FeaturesOf(app), NEW token, NEW owner
  PROVE  ImportsExport(app, feature, token, owner) <=> owner \in Chained(app, token, {feature}, {})
  <1>. DEFINE nodes == FeaturesOf(app)
              Fresh(w) == w[1] \ w[2]
              Markers(w) == UNION {ExportedMarkers(app, h, token) : h \in UNION {app.imports[f] : f \in Fresh(w)}}
              Go(m) == [w \in Walks(nodes) |->
                          LET fresh == w[1] \ w[2]
                              markers == UNION {ExportedMarkers(app, h, token) : h \in UNION {app.imports[f] : f \in fresh}}
                          IN IF fresh = {} THEN FALSE ELSE owner \in markers \/ m[<<markers, w[2] \cup fresh>>]]
              leads == [w \in Walks(nodes) |-> owner \in Chained(app, token, w[1], w[2])]
              from == CHOOSE m : m = Go(m)
  <1>1. ASSUME NEW w \in Walks(nodes)
        PROVE  /\ <<Markers(w), w[2] \cup Fresh(w)>> \in Walks(nodes)
               /\ leads[w] = IF Fresh(w) = {} THEN FALSE
                             ELSE owner \in Markers(w) \/ leads[<<Markers(w), w[2] \cup Fresh(w)>>]
    <2>1. w[1] \in SUBSET nodes /\ w[2] \in SUBSET nodes
      BY DEF Walks
    <2>2. PICK fresh, markers : fresh = Fresh(w) /\ markers = Markers(w)
      OBVIOUS
    <2>3. /\ \A f \in fresh : Shown(app, token, f) \subseteq markers
          /\ \A y \in markers : \E f \in fresh : y \in Shown(app, token, f)
      BY <2>2 DEF Shown
    <2>4. markers \in SUBSET nodes
      BY <2>1, <2>2, <2>3, ShownAreFeatures
    <2>5. Chained(app, token, w[1], w[2]) = markers \cup Chained(app, token, markers, w[2] \cup fresh)
      <3>1. PICK a, b : a = w[1] /\ b = w[2]
        OBVIOUS
      <3>2. a \in SUBSET FeaturesOf(app) /\ fresh = a \ b
        BY <2>1, <2>2, <3>1
      <3>3. Chained(app, token, a, b) = markers \cup Chained(app, token, markers, b \cup fresh)
        BY <2>3, <2>4, <3>2, ChainedStep
      <3>. QED BY <3>1, <3>3
    <2>6. <<markers, w[2] \cup fresh>> \in Walks(nodes)
      BY <2>1, <2>2, <2>4 DEF Walks
    <2>7. ASSUME fresh = {} PROVE Chained(app, token, w[1], w[2]) = {}
      <3>1. {} \in SUBSET nodes /\ w[1] \ w[2] = {}
        BY <2>2, <2>7
      <3>2. \A z \in {} : Shown(app, token, z) \subseteq {}
        OBVIOUS
      <3>. QED BY <3>1, <3>2 DEF Chained
    <2>8. leads[w] = IF fresh = {} THEN FALSE ELSE owner \in markers \/ leads[<<markers, w[2] \cup fresh>>]
      <3>1. leads[w] = (owner \in Chained(app, token, w[1], w[2]))
        OBVIOUS
      <3>2. leads[<<markers, w[2] \cup fresh>>] = (owner \in Chained(app, token, markers, w[2] \cup fresh))
        BY <2>6
      <3>3. ASSUME fresh = {} PROVE leads[w] = FALSE
        <4>1. (owner \in Chained(app, token, w[1], w[2])) = FALSE
          BY <2>7, <3>3
        <4>. HIDE DEF leads
        <4>. QED BY <3>1, <4>1
      <3>4. leads[w] = (owner \in markers \/ owner \in Chained(app, token, markers, w[2] \cup fresh))
        BY <2>5, <3>1
      <3>. HIDE DEF leads
      <3>. QED BY <3>2, <3>3, <3>4
    <2>. QED BY <2>2, <2>6, <2>8
  <1>2. leads = Go(leads)
    BY <1>1
  <1>3. from = Go(from)
    BY <1>2
  <1>4. ImportsExport(app, feature, token, owner) = from[<<{feature}, {}>>]
    BY DEF ImportsExport
  <1>5. \A w \in Walks(nodes) : from[w] = leads[w]
    <2>. HIDE DEF from, leads
    <2>1. ASSUME NEW w \in Walks(nodes), from[w] # leads[w]
          PROVE  \E v \in Walks(nodes) : w[2] \subseteq v[2] /\ w[2] # v[2] /\ from[v] # leads[v]
      <3>. DEFINE v == <<Markers(w), w[2] \cup Fresh(w)>>
      <3>1. from[w] = IF Fresh(w) = {} THEN FALSE ELSE owner \in Markers(w) \/ from[v]
        BY <1>3
      <3>2. v \in Walks(nodes) /\ leads[w] = IF Fresh(w) = {} THEN FALSE ELSE owner \in Markers(w) \/ leads[v]
        BY <1>1
      <3>3. Fresh(w) # {} /\ from[v] # leads[v]
        BY <2>1, <3>1, <3>2
      <3>4. v[2] = w[2] \cup Fresh(w)
        OBVIOUS
      <3>5. w[2] \subseteq v[2] /\ w[2] # v[2]
        BY <3>3, <3>4
      <3>. QED BY <3>2, <3>3, <3>5
    <2>2. IsFiniteSet(nodes)
      BY FeaturesAreFinite
    <2>3. \A w \in Walks(nodes) : from[w] # leads[w] =>
            \E v \in Walks(nodes) : w[2] \subseteq v[2] /\ w[2] # v[2] /\ from[v] # leads[v]
      BY <2>1
    <2>4. PICK n, f, g : n = nodes /\ f = from /\ g = leads
      OBVIOUS
    <2>5. IsFiniteSet(n) /\ DifferFurtherOn(n, f, g)
      BY <2>2, <2>3, <2>4 DEF DifferFurtherOn
    <2>6. \A w \in Walks(n) : f[w] = g[w]
      <3>. HIDE DEF nodes
      <3>. QED BY <2>5, SameWalks
    <2>. QED BY <2>4, <2>6
  <1>6. <<{feature}, {}>> \in Walks(nodes)
    BY DEF Walks
  <1>7. from[<<{feature}, {}>>] = leads[<<{feature}, {}>>]
    <2>. HIDE DEF from, leads
    <2>. QED BY <1>5, <1>6
  <1>. QED BY <1>4, <1>6, <1>7

LEMMA ImportedAre ==
  ASSUME NEW app, IsApplication(app), NEW f \in FeaturesOf(app)
  PROVE  /\ Imported(app, f) \subseteq DOMAIN app.imports
         /\ app.imports[f] \subseteq Imported(app, f)
         /\ \A h \in Imported(app, f) : PassedOn(app, h) \subseteq Imported(app, f)
         /\ \A closed \in SUBSET DOMAIN app.imports :
              (app.imports[f] \subseteq closed /\ \A z \in closed : PassedOn(app, z) \subseteq closed)
                => Imported(app, f) \subseteq closed
  <1>1. Imported(app, f) = {y \in DOMAIN app.imports : \A closed \in SUBSET DOMAIN app.imports :
          (app.imports[f] \subseteq closed /\ \A z \in closed : PassedOn(app, z) \subseteq closed) => y \in closed}
    BY DEF Imported, Reachable
  <1>2. app.imports[f] \subseteq DOMAIN app.imports /\ \A h \in DOMAIN app.imports : PassedOn(app, h) \subseteq DOMAIN app.imports
    BY DEF IsApplication, PassedOn
  <1>. QED BY <1>1, <1>2

LEMMA ShownAreImported ==
  ASSUME NEW app, IsApplication(app), NEW token, NEW f \in FeaturesOf(app)
  PROVE  Shown(app, token, f) \subseteq Imported(app, f) \cap Marked(app, token)
  <1>. PICK all, ends : all = Imported(app, f) /\ ends = Marked(app, token)
    OBVIOUS
  <1>1. all \in SUBSET DOMAIN app.imports /\ app.imports[f] \subseteq all /\ \A h \in all : PassedOn(app, h) \subseteq all
    BY ImportedAre
  <1>2. ASSUME NEW h \in app.imports[f] PROVE ExportedMarkers(app, h, token) \subseteq all \cap ends
    <2>1. h \in DOMAIN app.imports /\ {h} \ {} \subseteq all /\ \A z \in all \ ends : PassedOn(app, z) \ {} \subseteq all
      BY <1>1
    <2>2. Met(app, {h}, {}, ends) \subseteq all
      BY <1>1, <2>1, MetIn
    <2>. QED BY <2>1, <2>2, MarkersAre
  <1>. QED BY <1>2 DEF Shown

\* What the features shown lead to is all that is imported.
LEMMA ImportedAreChained ==
  ASSUME NEW app, IsApplication(app), NEW token, NEW f \in FeaturesOf(app), NEW closed \in SUBSET FeaturesOf(app),
         Shown(app, token, f) \subseteq closed, \A z \in closed : Shown(app, token, z) \subseteq closed
  PROVE  Imported(app, f) \cap Marked(app, token) \subseteq closed
  <1>. PICK nodes, ends : nodes = DOMAIN app.imports /\ ends = Marked(app, token)
    OBVIOUS
  <1>. DEFINE MetFrom(x) == Met(app, {x}, {}, ends)
              Fine(x) == ends \cap MetFrom(x) \subseteq closed
              fine == {x \in nodes : Fine(x)}
  <1>1. ASSUME NEW x \in nodes PROVE x \in MetFrom(x) /\ MetFrom(x) \subseteq nodes
                                     /\ \A z \in MetFrom(x) \ ends : PassedOn(app, z) \subseteq MetFrom(x)
    <2>1. {x} \in SUBSET DOMAIN app.imports
      OBVIOUS
    <2>2. /\ MetFrom(x) \subseteq nodes /\ {x} \ {} \subseteq MetFrom(x)
          /\ \A z \in MetFrom(x) \ ends : PassedOn(app, z) \ {} \subseteq MetFrom(x)
      BY <2>1, MetIsClosed
    <2>. QED BY <2>2
  <1>2. ASSUME NEW x \in nodes \ ends, NEW y \in PassedOn(app, x) PROVE y \in nodes /\ MetFrom(y) \subseteq MetFrom(x)
    <2>1. PICK m : m = MetFrom(x)
      OBVIOUS
    <2>2. y \in m /\ m \in SUBSET DOMAIN app.imports /\ \A z \in m \ ends : PassedOn(app, z) \ {} \subseteq m
      BY <1>1, <2>1
    <2>3. {y} \ {} \subseteq m
      BY <2>2
    <2>4. Met(app, {y}, {}, ends) \subseteq m
      BY <2>2, <2>3, MetIn
    <2>. QED BY <2>1, <2>2, <2>4
  <1>3. ASSUME NEW g \in FeaturesOf(app), Shown(app, token, g) \subseteq closed, NEW h \in app.imports[g] PROVE h \in fine
    <2>1. h \in nodes
      BY DEF IsApplication
    <2>2. ends \cap Met(app, {h}, {}, ends) = ExportedMarkers(app, h, token)
      BY <2>1, MarkersAre
    <2>3. ExportedMarkers(app, h, token) \subseteq Shown(app, token, g)
      BY DEF Shown
    <2>. QED BY <1>3, <2>1, <2>2, <2>3
  <1>4. ASSUME NEW x \in fine PROVE PassedOn(app, x) \subseteq fine
    <2>1. ASSUME x \notin ends PROVE PassedOn(app, x) \subseteq fine
      BY <1>2, <2>1
    <2>2. ASSUME x \in ends PROVE PassedOn(app, x) \subseteq fine
      <3>1. x \in closed
        BY <1>1, <2>2
      <3>2. PassedOn(app, x) \subseteq app.imports[x]
        BY DEF PassedOn
      <3>3. \A h \in app.imports[x] : h \in fine
        BY <1>3, <3>1
      <3>. HIDE DEF fine
      <3>. QED BY <3>2, <3>3
    <2>. QED BY <2>1, <2>2
  <1>5. Imported(app, f) \subseteq fine
    <2>1. fine \in SUBSET DOMAIN app.imports
      OBVIOUS
    <2>2. app.imports[f] \subseteq fine
      BY <1>3
    <2>. HIDE DEF fine
    <2>. QED BY <1>4, <2>1, <2>2, ImportedAre
  <1>. QED BY <1>1, <1>5

LEMMA ReachedAre ==
  ASSUME NEW app, NEW token, NEW f
  PROVE  Reached(app, token, f) =
           {y \in FeaturesOf(app) : \A closed \in SUBSET FeaturesOf(app) :
              (Imported(app, f) \cap Marked(app, token) \subseteq closed
                 /\ \A z \in closed : Imported(app, z) \cap Marked(app, token) \subseteq closed) => y \in closed}
  BY DEF Reached, Reachable

\* The search for the owner of a token finds exactly the features that a chain
\* of markers reaches.
LEMMA SearchFindsWhatIsReached ==
  ASSUME NEW app, IsApplication(app), NEW token, NEW f \in FeaturesOf(app), NEW owner
  PROVE  ImportsExport(app, f, token, owner) <=> owner \in Reached(app, token, f)
  <1>1. ASSUME NEW closed \in SUBSET FeaturesOf(app)
        PROVE  ((\A g \in {f} \ {} : Shown(app, token, g) \subseteq closed) /\ \A z \in closed \ {} : Shown(app, token, z) \subseteq closed)
                 <=> (Imported(app, f) \cap Marked(app, token) \subseteq closed
                       /\ \A z \in closed : Imported(app, z) \cap Marked(app, token) \subseteq closed)
    <2>1. ASSUME NEW g \in FeaturesOf(app), Shown(app, token, g) \subseteq closed, \A z \in closed : Shown(app, token, z) \subseteq closed
          PROVE  Imported(app, g) \cap Marked(app, token) \subseteq closed
      BY <2>1, ImportedAreChained
    <2>. QED BY <2>1, ShownAreImported
  <1>2. Chained(app, token, {f}, {}) = Reached(app, token, f)
    BY <1>1, ReachedAre DEF Chained
  <1>. QED BY <1>2, ImportsExportIs

LEMMA ClientsAreSeen ==
  ASSUME NEW app, IsApplication(app), NEW f \in FeaturesOf(app), NEW w
  PROVE  SeesWorkflow(app, f, w) <=> \E g \in Imported(app, f) \cup {f} : w \in Clients(app, g)
  <1>. PICK ends, met, all : /\ ends = {h \in FeaturesOf(app) : w \in Clients(app, h)}
                             /\ met = Met(app, app.imports[f], {}, ends) /\ all = Imported(app, f)
    OBVIOUS
  <1>1. app.imports[f] \in SUBSET DOMAIN app.imports /\ FeaturesOf(app) = DOMAIN app.workflows
    BY DEF IsApplication
  <1>2. \A g : g \in ends <=> w \in Clients(app, g)
    BY <1>1 DEF Clients
  <1>3. VisibleProviders(app, app.imports[f], w) = ends \cap met
    BY <1>1, FirstMetIs DEF VisibleProviders
  <1>4. /\ met \in SUBSET DOMAIN app.imports /\ app.imports[f] \subseteq met
        /\ \A z \in met \ ends : PassedOn(app, z) \subseteq met
    <2>1. /\ met \subseteq DOMAIN app.imports /\ app.imports[f] \ {} \subseteq met
          /\ \A z \in met \ ends : PassedOn(app, z) \ {} \subseteq met
      BY <1>1, MetIsClosed
    <2>. QED BY <2>1
  <1>5. met \subseteq all
    <2>1. /\ all \in SUBSET DOMAIN app.imports /\ app.imports[f] \ {} \subseteq all
          /\ \A z \in all \ ends : PassedOn(app, z) \ {} \subseteq all
      BY ImportedAre
    <2>. QED BY <2>1, MetIn
  <1>6. ASSUME ends \cap met = {} PROVE ends \cap all = {}
    <2>1. \A z \in met : PassedOn(app, z) \subseteq met
      BY <1>4, <1>6
    <2>2. all \subseteq met
      BY <1>4, <2>1, ImportedAre
    <2>. QED BY <1>6, <2>2
  <1>. QED BY <1>2, <1>3, <1>5, <1>6 DEF SeesWorkflow

-----------------------------------------------------------------------------
(* The discovery, feature after feature.                                     *)

\* Each goes through a sequence of catalogs.
IsRun(stage, app, c, order, m, after) ==
  /\ after[0] = c
  /\ \A n \in 1..m : after[n] = Step(stage, app, after[n - 1], order[n])

LEMMA RunsExist ==
  ASSUME NEW stage, NEW app, NEW c, NEW order, NEW m \in Nat
  PROVE  \E after : IsRun(stage, app, c, order, m, after)
  <1>. DEFINE Has(n) == \E after : IsRun(stage, app, c, order, n, after)
              lacking == {n \in Nat : ~Has(n)}
  <1>1. Has(0)
    <2>1. IsRun(stage, app, c, order, 0, [n \in {0} |-> c])
      BY DEF IsRun
    <2>. QED BY <2>1
  <1>2. ASSUME NEW n \in Nat \ {0}, Has(n - 1) PROVE Has(n)
    <2>1. PICK a : IsRun(stage, app, c, order, n - 1, a)
      BY <1>2
    <2>2. PICK last : last = Step(stage, app, a[n - 1], order[n])
      OBVIOUS
    <2>. DEFINE b == [k \in 0..n |-> IF k < n THEN a[k] ELSE last]
    <2>3. b[0] = c
      BY <2>1 DEF IsRun
    <2>4. ASSUME NEW k \in 1..n PROVE b[k] = Step(stage, app, b[k - 1], order[k])
      <3>1. k - 1 \in 0..n /\ k - 1 < n /\ k \in 0..n
        OBVIOUS
      <3>2. b[k - 1] = a[k - 1]
        BY <3>1
      <3>3. ASSUME k < n PROVE b[k] = a[k] /\ k \in 1..(n - 1)
        BY <3>1, <3>3
      <3>4. ASSUME k = n PROVE b[k] = last
        BY <3>1, <3>4
      <3>. HIDE DEF b
      <3>. QED BY <2>1, <2>2, <3>1, <3>2, <3>3, <3>4 DEF IsRun
    <2>5. IsRun(stage, app, c, order, n, b)
      <3>. HIDE DEF b
      <3>. QED BY <2>3, <2>4 DEF IsRun
    <2>. QED BY <2>5
  <1>. HIDE DEF Has
  <1>3. ASSUME lacking # {} PROVE FALSE
    <2>1. PICK n \in lacking : \A k \in lacking : n <= k
      BY <1>3, LeastOf
    <2>2. n \in Nat \ {0} /\ n - 1 \in Nat /\ ~(n <= n - 1)
      BY <1>1, <2>1
    <2>3. Has(n - 1)
      BY <2>1, <2>2
    <2>. QED BY <1>2, <2>1, <2>2, <2>3
  <1>4. Has(m)
    BY <1>3
  <1>. QED BY <1>4 DEF Has

LEMMA EachIsRun ==
  ASSUME NEW stage, NEW app, NEW c, NEW order, Len(order) \in Nat
  PROVE  \E after : IsRun(stage, app, c, order, Len(order), after) /\ Each(stage, app, c, order) = after[Len(order)]
  <1>. DEFINE Go(a) == [n \in 0..Len(order) |->
                          IF n = 0 THEN c ELSE Step(stage, app, a[n - 1], order[n])]
              after == CHOOSE a : a = Go(a)
  <1>1. PICK r : IsRun(stage, app, c, order, Len(order), r)
    BY RunsExist
  <1>2. PICK a : a = [n \in 0..Len(order) |-> r[n]]
    OBVIOUS
  <1>3. a = Go(a)
    <2>1. ASSUME NEW n \in 0..Len(order) PROVE a[n] = Go(a)[n]
      <3>1. ASSUME n # 0 PROVE n \in 1..Len(order) /\ n - 1 \in 0..Len(order)
        BY <3>1
      <3>. QED BY <1>1, <1>2, <3>1 DEF IsRun
    <2>. QED BY <1>2, <2>1
  <1>4. after = Go(after)
    BY <1>3
  <1>5. Each(stage, app, c, order) = after[Len(order)]
    BY DEF Each
  <1>6. IsRun(stage, app, c, order, Len(order), after)
    <2>. HIDE DEF after
    <2>1. after[0] = c
      BY <1>4
    <2>2. ASSUME NEW n \in 1..Len(order) PROVE after[n] = Step(stage, app, after[n - 1], order[n])
      <3>1. n \in 0..Len(order) /\ n # 0
        OBVIOUS
      <3>. QED BY <1>4, <3>1
    <2>. QED BY <2>1, <2>2 DEF IsRun
  <1>. QED BY <1>5, <1>6

-----------------------------------------------------------------------------
(* Layers of settings: the last that says something decides.                 *)

LEMMA MaxIs == ASSUME NEW S, S \subseteq Nat, NEW m \in S, \A n \in S : n <= m PROVE Max(S) = m
  <1>1. \A x, y \in S : (x <= y /\ y <= x) => x = y
    OBVIOUS
  <1>. QED BY <1>1 DEF Max

LastWord(layers, m) ==
  /\ DOMAIN layers \subseteq Nat /\ m \in DOMAIN layers /\ layers[m] # None
  /\ \A i \in DOMAIN layers : i > m => layers[i] = None

LEMMA LastWordIsSaid ==
  ASSUME NEW layers, NEW otherwise, NEW m, LastWord(layers, m)
  PROVE  Said(layers, otherwise) = layers[m]
  <1>. PICK saying : saying = {i \in DOMAIN layers : layers[i] # None}
    OBVIOUS
  <1>1. Said(layers, otherwise) = IF saying = {} THEN otherwise ELSE layers[Max(saying)]
    BY DEF Said
  <1>2. saying \subseteq Nat /\ m \in saying /\ \A n \in saying : n <= m
    BY DEF LastWord
  <1>3. Max(saying) = m
    BY <1>2, MaxIs
  <1>. QED BY <1>1, <1>2, <1>3

LEMMA NothingIsSaid ==
  ASSUME NEW layers, NEW otherwise, \A i \in DOMAIN layers : layers[i] = None
  PROVE  Said(layers, otherwise) = otherwise
  BY DEF Said

LEMMA SaidOfThree ==
  ASSUME NEW layers, NEW otherwise, {1, 2, 3} \subseteq DOMAIN layers, DOMAIN layers \subseteq Nat \ {0},
         \A i \in DOMAIN layers : i > 3 => layers[i] = None
  PROVE  Said(layers, otherwise) = Over(Over(Over(otherwise, layers[1]), layers[2]), layers[3])
  <1>0. \A i \in DOMAIN layers : i = 1 \/ i = 2 \/ i = 3 \/ i > 3
    OBVIOUS
  <1>3. ASSUME layers[3] # None PROVE LastWord(layers, 3)
    BY <1>3 DEF LastWord
  <1>4. ASSUME layers[3] = None, layers[2] # None PROVE LastWord(layers, 2)
    BY <1>0, <1>4 DEF LastWord
  <1>5. ASSUME layers[3] = None, layers[2] = None, layers[1] # None PROVE LastWord(layers, 1)
    BY <1>0, <1>5 DEF LastWord
  <1>6. ASSUME layers[3] = None, layers[2] = None, layers[1] = None PROVE Said(layers, otherwise) = otherwise
    <2>1. \A i \in DOMAIN layers : layers[i] = None
      BY <1>0, <1>6
    <2>. QED BY <2>1, NothingIsSaid
  <1>. QED BY <1>3, <1>4, <1>5, <1>6, LastWordIsSaid DEF Over

LEMMA SaidOfFour ==
  ASSUME NEW a, NEW b, NEW c, NEW d, NEW otherwise
  PROVE  Said(<<a, b>> \o <<c, d>>, otherwise) = Over(Over(Over(Over(otherwise, a), b), c), d)
  <1>. PICK layers : layers = <<a, b>> \o <<c, d>>
    OBVIOUS
  <1>1. DOMAIN layers = {1, 2, 3, 4} /\ layers[1] = a /\ layers[2] = b /\ layers[3] = c /\ layers[4] = d
    OBVIOUS
  <1>2. ASSUME d # None PROVE Said(layers, otherwise) = d
    <2>1. LastWord(layers, 4)
      BY <1>1, <1>2 DEF LastWord
    <2>. QED BY <1>1, <2>1, LastWordIsSaid
  <1>3. ASSUME d = None PROVE Said(layers, otherwise) = Over(Over(Over(otherwise, a), b), c)
    <2>1. /\ {1, 2, 3} \subseteq DOMAIN layers /\ DOMAIN layers \subseteq Nat \ {0}
          /\ \A i \in DOMAIN layers : i > 3 => layers[i] = None
      BY <1>1, <1>3
    <2>. QED BY <1>1, <2>1, SaidOfThree
  <1>. QED BY <1>2, <1>3 DEF Over

LEMMA QueueIs ==
  ASSUME NEW app, NEW f, NEW a, app.runsOn[a] = <<app.runsOn[a][1], app.runsOn[a][2]>>
  PROVE  Said(<<app.defaultQueue[Root], app.defaultQueue[f]>> \o app.runsOn[a], None) = QueueOf(app, f, a)
  <1>. PICK x, y, u, v : x = app.defaultQueue[Root] /\ y = app.defaultQueue[f] /\ u = app.runsOn[a][1] /\ v = app.runsOn[a][2]
    OBVIOUS
  <1>1. Said(<<x, y>> \o <<u, v>>, None) = Over(Over(Over(Over(None, x), y), u), v)
    BY SaidOfFour
  <1>2. app.runsOn[a] = <<u, v>>
    OBVIOUS
  <1>3. Over(None, x) = x
    BY DEF Over
  <1>. QED BY <1>1, <1>2, <1>3 DEF QueueOf

\* The limit of a queue before the overrides of the root, and with them.
LEMMA LimitIs ==
  ASSUME NEW app, IsApplication(app), NEW q, NEW f \in FeaturesOf(app) \cup {Root},
         \A g \in FeaturesOf(app) \cup {Root} : q \in OwnedQueues(app)[g] <=> g = f,
         \A i, j \in DOMAIN app.overrides :
           (app.overrides[i].queue = q /\ app.overrides[j].queue = q) => i = j
  PROVE  /\ (\A i \in DOMAIN app.overrides : app.overrides[i].queue # q) => LimitsPerKey(app, q) = QueueLimit(app, f, q)
         /\ \A i \in DOMAIN app.overrides : app.overrides[i].queue = q =>
              LimitsPerKey(app, q) = Over(QueueLimit(app, f, q), app.overrides[i].perKey)
  <1>. PICK r, s, t, m : r = app.perKey[Root] /\ s = app.perKey[f] /\ t = app.perKey[q] /\ m = Len(app.overrides)
    OBVIOUS
  <1>. PICK tail : tail = [i \in DOMAIN app.overrides |-> IF app.overrides[i].queue = q THEN app.overrides[i].perKey ELSE None]
    OBVIOUS
  <1>. PICK layers : layers = <<r, s, t>> \o tail
    OBVIOUS
  <1>1. DOMAIN app.overrides = 1..m /\ m \in Nat
    BY DEF IsApplication
  <1>2. /\ DOMAIN layers = 1..(3 + m) /\ layers[1] = r /\ layers[2] = s /\ layers[3] = t
        /\ \A i \in 1..m : layers[3 + i] = tail[i]
    BY <1>1
  <1>3. LimitsPerKey(app, q) = Said(layers, "off")
    <2>1. OwnersOf(OwnedQueues(app), q) = {f}
      BY DEF OwnersOf, OwnedQueues
    <2>2. (CHOOSE g \in OwnersOf(OwnedQueues(app), q) : TRUE) = f
      BY <2>1
    <2>. QED BY <2>2 DEF LimitsPerKey
  <1>4. QueueLimit(app, f, q) = Over(Over(Over("off", r), s), t)
    BY DEF QueueLimit, Over
  <1>5. ASSUME \A i \in 1..m : tail[i] = None PROVE LimitsPerKey(app, q) = QueueLimit(app, f, q)
    <2>1. {1, 2, 3} \subseteq DOMAIN layers /\ DOMAIN layers \subseteq Nat \ {0}
      BY <1>1, <1>2
    <2>2. \A i \in DOMAIN layers : i > 3 => layers[i] = None
      <3>1. ASSUME NEW i \in DOMAIN layers, i > 3 PROVE layers[i] = None
        <4>1. i - 3 \in 1..m /\ i = 3 + (i - 3)
          BY <1>1, <1>2, <3>1
        <4>2. PICK j \in 1..m : i = 3 + j
          BY <4>1
        <4>. QED BY <1>2, <1>5, <4>2
      <3>. QED BY <3>1
    <2>3. Said(layers, "off") = Over(Over(Over("off", layers[1]), layers[2]), layers[3])
      BY <2>1, <2>2, SaidOfThree
    <2>. QED BY <1>2, <1>3, <1>4, <2>3
  <1>6. ASSUME NEW i \in 1..m, app.overrides[i].queue = q
        PROVE  LimitsPerKey(app, q) = Over(QueueLimit(app, f, q), app.overrides[i].perKey)
    <2>1. tail[i] = app.overrides[i].perKey /\ \A j \in 1..m : j # i => tail[j] = None
      BY <1>1, <1>6
    <2>2. ASSUME tail[i] # None PROVE LimitsPerKey(app, q) = tail[i]
      <3>1. DOMAIN layers \subseteq Nat /\ 3 + i \in DOMAIN layers /\ layers[3 + i] = tail[i]
        BY <1>1, <1>2
      <3>2. ASSUME NEW k \in DOMAIN layers, k > 3 + i PROVE layers[k] = None
        <4>1. k - 3 \in 1..m /\ k - 3 # i /\ k = 3 + (k - 3)
          BY <1>1, <1>2, <3>2
        <4>2. PICK j \in 1..m : j # i /\ k = 3 + j
          BY <4>1
        <4>3. tail[j] = None
          BY <2>1, <4>2
        <4>. QED BY <1>2, <4>2, <4>3
      <3>3. PICK last : last = 3 + i
        OBVIOUS
      <3>4. LastWord(layers, last)
        BY <2>2, <3>1, <3>2, <3>3 DEF LastWord
      <3>5. Said(layers, "off") = layers[last]
        BY <3>4, LastWordIsSaid
      <3>. QED BY <1>3, <3>1, <3>3, <3>5
    <2>. QED BY <1>5, <2>1, <2>2 DEF Over
  <1>. QED BY <1>1, <1>5, <1>6

-----------------------------------------------------------------------------
(* What makes an application acceptable, part by part, and for the features  *)
(* in done only.                                                             *)

Owners(app) == FeaturesOf(app) \cup {Root}
Contracts(app) == [f \in FeaturesOf(app) |-> app.activities[f] \cup app.declared[f]]
Scheduled(app, f) == app.workflows[f] \cap DOMAIN app.schedule

CallsDiffer(app, done) ==
  \A f, g \in done : \A v \in Clients(app, f) : \A w \in Clients(app, g) : v # w => app.identity[v] # app.identity[w]
NamesDiffer(app, done) == \A f, g \in done : f # g => app.name[f] # app.name[g]
QueuesDiffer(app, done) == \A f, g \in done : f # g => OwnedQueues(app)[f] \cap OwnedQueues(app)[g] = {}
WorkflowsDiffer(app, done) == \A f, g \in done : f # g => app.workflows[f] \cap app.workflows[g] = {}
SchedulesDiffer(app, done) ==
  \A f, g \in done : \A v \in Scheduled(app, f) : \A w \in Scheduled(app, g) : v # w => app.schedule[v] # app.schedule[w]
ActivitiesDiffer(app, done) ==
  /\ \A f, g \in done : f # g => Contracts(app)[f] \cap Contracts(app)[g] = {}
  /\ \A f \in done : app.activities[f] \cap app.declared[f] = {}
IdentitiesDiffer(app) ==
  \A f, g \in FeaturesOf(app) : \A a \in Contracts(app)[f] : \A b \in Contracts(app)[g] :
    a # b => app.identity[a] # app.identity[b]
OverridesDiffer(app) ==
  \A i, j \in DOMAIN app.overrides : i # j => app.overrides[i].queue # app.overrides[j].queue
HasOwner(app, q) == \E f \in Owners(app) : q \in OwnedQueues(app)[f]
OverridesFit(app) == \A i \in DOMAIN app.overrides : HasOwner(app, app.overrides[i].queue)
RootFits(app) == \A q \in Listed(app.only[Root]) : HasOwner(app, q)
NamedQueues(app, f) == Listed(app.only[f]) \cup ({app.defaultQueue[f]} \ {None})
QueuesOf(app, f) == {QueueOf(app, f, a) : a \in Contracts(app)[f]}
NamedFit(app, f) == \A q \in NamedQueues(app, f) : MayUse(app, OwnedQueues(app), f, q)
QueuesFit(app, f) == \A q \in QueuesOf(app, f) : MayUse(app, OwnedQueues(app), f, q)
KeysFit(app, f) == \A a \in Contracts(app)[f] \ app.keyed : LimitsPerKey(app, QueueOf(app, f, a)) = "off"
ExportedQueuesFit(app, f) == \A q \in app.exports[f] \ DOMAIN app.runsOn : MayUse(app, OwnedQueues(app), f, q)
ExportedActivitiesFit(app, f) == \A a \in app.exports[f] \cap DOMAIN app.runsOn : MayUse(app, Contracts(app), f, a)

WholeFits(app) ==
  /\ CallsDiffer(app, FeaturesOf(app)) /\ NamesDiffer(app, FeaturesOf(app)) /\ QueuesDiffer(app, Owners(app))
  /\ WorkflowsDiffer(app, FeaturesOf(app)) /\ SchedulesDiffer(app, FeaturesOf(app))
  /\ ActivitiesDiffer(app, FeaturesOf(app)) /\ IdentitiesDiffer(app)
  /\ OverridesDiffer(app) /\ OverridesFit(app) /\ RootFits(app)
FeatureFits(app, f) ==
  NamedFit(app, f) /\ QueuesFit(app, f) /\ KeysFit(app, f) /\ ExportedQueuesFit(app, f) /\ ExportedActivitiesFit(app, f)

LEMMA ApplicationIs ==
  ASSUME NEW app, IsApplication(app)
  PROVE  /\ DOMAIN app.exports = FeaturesOf(app) /\ DOMAIN app.name = FeaturesOf(app)
         /\ DOMAIN app.workflows = FeaturesOf(app) /\ DOMAIN OwnedQueues(app) = Owners(app)
         /\ DOMAIN Contracts(app) = FeaturesOf(app) /\ Root \notin FeaturesOf(app)
         /\ OwnedQueues(app)[Root] = app.rootQueues
         /\ \A f \in FeaturesOf(app) : OwnedQueues(app)[f] = app.queues[f]
         /\ \A f \in FeaturesOf(app) : Contracts(app)[f] = app.activities[f] \cup app.declared[f]
  BY DEF IsApplication, FeaturesOf, OwnedQueues, Owners, Contracts

LEMMA OwnersAre ==
  ASSUME NEW app, IsApplication(app), NEW q
  PROVE  OwnersOf(OwnedQueues(app), q) = {f \in Owners(app) : q \in OwnedQueues(app)[f]}
  BY ApplicationIs DEF OwnersOf

LEMMA DistinctIs ==
  ASSUME NEW app, IsApplication(app)
  PROVE  /\ Distinct(app.name) <=> NamesDiffer(app, FeaturesOf(app))
         /\ Unique(OwnedQueues(app)) <=> QueuesDiffer(app, Owners(app))
         /\ Unique(app.workflows) <=> WorkflowsDiffer(app, FeaturesOf(app))
         /\ (Unique(Contracts(app)) /\ \A f \in FeaturesOf(app) : app.activities[f] \cap app.declared[f] = {})
              <=> ActivitiesDiffer(app, FeaturesOf(app))
         /\ Distinct([i \in DOMAIN app.overrides |-> app.overrides[i].queue]) <=> OverridesDiffer(app)
  <1>1. Distinct(app.name) <=> NamesDiffer(app, FeaturesOf(app))
    BY ApplicationIs DEF Distinct, NamesDiffer
  <1>2. Unique(OwnedQueues(app)) <=> QueuesDiffer(app, Owners(app))
    BY ApplicationIs DEF Unique, QueuesDiffer
  <1>3. Unique(app.workflows) <=> WorkflowsDiffer(app, FeaturesOf(app))
    BY ApplicationIs DEF Unique, WorkflowsDiffer
  <1>4. (Unique(Contracts(app)) /\ \A f \in FeaturesOf(app) : app.activities[f] \cap app.declared[f] = {})
          <=> ActivitiesDiffer(app, FeaturesOf(app))
    BY ApplicationIs DEF Unique, ActivitiesDiffer
  <1>5. Distinct([i \in DOMAIN app.overrides |-> app.overrides[i].queue]) <=> OverridesDiffer(app)
    BY DEF Distinct, OverridesDiffer
  <1>. QED BY <1>1, <1>2, <1>3, <1>4, <1>5

LEMMA IdentitiesAre ==
  ASSUME NEW app, IsApplication(app)
  PROVE  /\ Distinct([a \in UNION Range(Contracts(app)) |-> app.identity[a]]) <=> IdentitiesDiffer(app)
         /\ Distinct([w \in UNION {Clients(app, f) : f \in FeaturesOf(app)} |-> app.identity[w]])
              <=> CallsDiffer(app, FeaturesOf(app))
         /\ Distinct([w \in (UNION Range(app.workflows)) \cap DOMAIN app.schedule |-> app.schedule[w]])
              <=> SchedulesDiffer(app, FeaturesOf(app))
  <1>1. ASSUME NEW a PROVE a \in UNION Range(Contracts(app)) <=> \E f \in FeaturesOf(app) : a \in Contracts(app)[f]
    BY ApplicationIs DEF Range
  <1>2. ASSUME NEW w PROVE w \in UNION {Clients(app, f) : f \in FeaturesOf(app)} <=> \E f \in FeaturesOf(app) : w \in Clients(app, f)
    OBVIOUS
  <1>3. ASSUME NEW w
        PROVE  w \in (UNION Range(app.workflows)) \cap DOMAIN app.schedule <=> \E f \in FeaturesOf(app) : w \in Scheduled(app, f)
    BY ApplicationIs DEF Range, Scheduled
  <1>4. ASSUME NEW S, NEW F PROVE Distinct([x \in S |-> F[x]]) <=> \A x, y \in S : x # y => F[x] # F[y]
    BY DEF Distinct
  <1>5. PICK owned, called, handled :
          /\ owned = UNION Range(Contracts(app)) /\ called = UNION {Clients(app, f) : f \in FeaturesOf(app)}
          /\ handled = (UNION Range(app.workflows)) \cap DOMAIN app.schedule
    OBVIOUS
  <1>6. (\A x, y \in owned : x # y => app.identity[x] # app.identity[y]) <=> IdentitiesDiffer(app)
    <2>1. \A a : a \in owned <=> \E f \in FeaturesOf(app) : a \in Contracts(app)[f]
      BY <1>1, <1>5
    <2>. QED BY <2>1 DEF IdentitiesDiffer
  <1>7. (\A x, y \in called : x # y => app.identity[x] # app.identity[y]) <=> CallsDiffer(app, FeaturesOf(app))
    <2>1. \A w : w \in called <=> \E f \in FeaturesOf(app) : w \in Clients(app, f)
      BY <1>2, <1>5
    <2>. QED BY <2>1 DEF CallsDiffer
  <1>8. (\A x, y \in handled : x # y => app.schedule[x] # app.schedule[y]) <=> SchedulesDiffer(app, FeaturesOf(app))
    <2>1. \A w : w \in handled <=> \E f \in FeaturesOf(app) : w \in Scheduled(app, f)
      BY <1>3, <1>5
    <2>. QED BY <2>1 DEF SchedulesDiffer
  <1>. QED BY <1>4, <1>5, <1>6, <1>7, <1>8

LEMMA AcceptableIs ==
  ASSUME NEW app, IsApplication(app)
  PROVE  Acceptable(app) <=> (WholeFits(app) /\ \A f \in FeaturesOf(app) : FeatureFits(app, f))
  <1>. DEFINE On(f, a) == Said(<<app.defaultQueue[Root], app.defaultQueue[f]>> \o app.runsOn[a], None)
              Needs(f) == Listed(app.only[f]) \cup {On(f, a) : a \in Contracts(app)[f]} \cup ({app.defaultQueue[f]} \ {None})
                            \cup (app.exports[f] \ DOMAIN app.runsOn)
  <1>1. ASSUME NEW f \in FeaturesOf(app), NEW a \in Contracts(app)[f] PROVE On(f, a) = QueueOf(app, f, a)
    <2>1. a \in DOMAIN app.runsOn
      BY ApplicationIs DEF IsApplication
    <2>2. app.runsOn[a] = <<app.runsOn[a][1], app.runsOn[a][2]>>
      BY <2>1 DEF IsApplication
    <2>. QED BY <2>2, QueueIs
  <1>2. Acceptable(app) <=>
          /\ Distinct(app.name)
          /\ Unique(OwnedQueues(app)) /\ Unique(app.workflows) /\ Unique(Contracts(app))
          /\ \A f \in FeaturesOf(app) : app.activities[f] \cap app.declared[f] = {}
          /\ Distinct([a \in UNION Range(Contracts(app)) |-> app.identity[a]])
          /\ Distinct([w \in UNION {Clients(app, f) : f \in FeaturesOf(app)} |-> app.identity[w]])
          /\ Distinct([w \in (UNION Range(app.workflows)) \cap DOMAIN app.schedule |-> app.schedule[w]])
          /\ Distinct([i \in DOMAIN app.overrides |-> app.overrides[i].queue])
          /\ \A o \in ToSet(app.overrides) : OwnersOf(OwnedQueues(app), o.queue) # {}
          /\ \A q \in Listed(app.only[Root]) : OwnersOf(OwnedQueues(app), q) # {}
          /\ \A f \in FeaturesOf(app) : \A q \in Needs(f) : MayUse(app, OwnedQueues(app), f, q)
          /\ \A f \in FeaturesOf(app) : \A a \in Contracts(app)[f] \ app.keyed : LimitsPerKey(app, On(f, a)) = "off"
          /\ \A f \in FeaturesOf(app) : \A a \in app.exports[f] \cap DOMAIN app.runsOn : MayUse(app, Contracts(app), f, a)
    BY DEF Acceptable, Contracts
  <1>3. (\A o \in ToSet(app.overrides) : OwnersOf(OwnedQueues(app), o.queue) # {}) <=> OverridesFit(app)
    BY OwnersAre DEF ToSet, OverridesFit, HasOwner
  <1>4. (\A q \in Listed(app.only[Root]) : OwnersOf(OwnedQueues(app), q) # {}) <=> RootFits(app)
    BY OwnersAre DEF RootFits, HasOwner
  <1>5. ASSUME NEW f \in FeaturesOf(app)
        PROVE  (\A q \in Needs(f) : MayUse(app, OwnedQueues(app), f, q))
                 <=> NamedFit(app, f) /\ QueuesFit(app, f) /\ ExportedQueuesFit(app, f)
    <2>1. {On(f, a) : a \in Contracts(app)[f]} = QueuesOf(app, f)
      <3>. HIDE DEF On
      <3>. QED BY <1>1 DEF QueuesOf
    <2>. HIDE DEF On
    <2>2. Needs(f) = NamedQueues(app, f) \cup QueuesOf(app, f) \cup (app.exports[f] \ DOMAIN app.runsOn)
      BY <2>1 DEF NamedQueues
    <2>. HIDE DEF Needs
    <2>. QED BY <2>2 DEF NamedFit, QueuesFit, ExportedQueuesFit
  <1>6. ASSUME NEW f \in FeaturesOf(app)
        PROVE  (\A a \in Contracts(app)[f] \ app.keyed : LimitsPerKey(app, On(f, a)) = "off") <=> KeysFit(app, f)
    <2>. HIDE DEF On
    <2>. QED BY <1>1 DEF KeysFit
  <1>. HIDE DEF Needs, On
  <1>. QED BY <1>2, <1>3, <1>4, <1>5, <1>6, DistinctIs, IdentitiesAre DEF WholeFits, FeatureFits, ExportedActivitiesFit

-----------------------------------------------------------------------------
(* Catalogs, and what their fields hold of the features in done.             *)

IsCatalog(c) ==
  c = [failure |-> c.failure, contracts |-> c.contracts, names |-> c.names, queue |-> c.queue, perKey |-> c.perKey,
       workflow |-> c.workflow, schedules |-> c.schedules, activity |-> c.activity, handled |-> c.handled,
       running |-> c.running, timed |-> c.timed, working |-> c.working]
SameNames(c, d) == c.contracts = d.contracts /\ c.names = d.names
SameQueues(c, d) == c.queue = d.queue /\ c.perKey = d.perKey
SameWorkflows(c, d) == c.workflow = d.workflow /\ c.schedules = d.schedules /\ c.running = d.running /\ c.timed = d.timed
SameActivities(c, d) == c.activity = d.activity /\ c.handled = d.handled /\ c.working = d.working

Called(app, c, done) ==
  (\A w : w \in c.contracts <=> \E f \in done : w \in Clients(app, f)) /\ CallsDiffer(app, done)
Named(app, c, done) ==
  (\A n : n \in c.names <=> \E f \in done : n = app.name[f]) /\ NamesDiffer(app, done)
Queued(app, c, done) ==
  /\ \A q : q \in DOMAIN c.queue <=> \E f \in done : q \in OwnedQueues(app)[f]
  /\ \A q \in DOMAIN c.queue : c.queue[q] \in done /\ q \in OwnedQueues(app)[c.queue[q]]
  /\ DOMAIN c.perKey = DOMAIN c.queue
  /\ QueuesDiffer(app, done)
Limited(app, c) == \A q \in DOMAIN c.queue : c.perKey[q] = QueueLimit(app, c.queue[q], q)
Overridden(app, c) ==
  (\A q \in DOMAIN c.queue : c.perKey[q] = LimitsPerKey(app, q)) /\ OverridesDiffer(app) /\ OverridesFit(app)
Implemented(app, c, done) ==
  /\ \A w : w \in DOMAIN c.workflow <=> \E f \in done : w \in app.workflows[f]
  /\ \A w : w \in c.running <=> \E f \in done : Enabled(app, f, "workflows") /\ w \in app.workflows[f]
  /\ WorkflowsDiffer(app, done)
Timed(app, c, done) ==
  /\ \A s : s \in c.schedules <=> \E f \in done : \E w \in Scheduled(app, f) : s = app.schedule[w]
  /\ \A s : s \in c.timed <=> \E f \in done : Enabled(app, f, "schedules") /\ \E w \in Scheduled(app, f) : s = app.schedule[w]
  /\ SchedulesDiffer(app, done)
Provided(app, c, done) ==
  /\ \A a : a \in DOMAIN c.activity <=> \E f \in done : a \in Contracts(app)[f]
  /\ \A a \in DOMAIN c.activity : c.activity[a] \in done /\ a \in Contracts(app)[c.activity[a]]
  /\ \A i : i \in c.handled <=> \E f \in done : \E a \in app.activities[f] : i = app.identity[a]
  /\ ActivitiesDiffer(app, done)
Worked(app, c, done) ==
  /\ \A a \in DOMAIN c.working : \E f \in done : a \in DOMAIN Working(app, f)
  /\ \A f \in done : \A a \in DOMAIN Working(app, f) : a \in DOMAIN c.working /\ c.working[a] = Working(app, f)[a]
Used(app, done) == \A f \in done : NamedFit(app, f) /\ QueuesFit(app, f) /\ KeysFit(app, f)
Exported(app, done) == \A f \in done : ExportedQueuesFit(app, f) /\ ExportedActivitiesFit(app, f)

SetContracts(c, x) == [c EXCEPT !.contracts = x]
SetNames(c, x) == [c EXCEPT !.names = @ \cup x]
SetQueues(c, x, y) == [c EXCEPT !.queue = x, !.perKey = y]
SetLimits(c, y) == [c EXCEPT !.perKey = y]
SetSchedules(c, x, y) == [c EXCEPT !.schedules = x, !.timed = y]
SetWorkflows(c, x, y) == [c EXCEPT !.workflow = x, !.running = y]
SetActivities(c, x, y, z) == [c EXCEPT !.activity = x, !.handled = @ \cup y, !.working = z]

LEMMA FailIs ==
  ASSUME NEW c, NEW code, IsCatalog(c)
  PROVE  /\ IsCatalog(Fail(c, code)) /\ Fail(c, code).failure = code
         /\ SameNames(Fail(c, code), c) /\ SameQueues(Fail(c, code), c) /\ SameWorkflows(Fail(c, code), c)
         /\ SameActivities(Fail(c, code), c)
  <1>1. Fail(c, code) = [failure |-> code, contracts |-> c.contracts, names |-> c.names, queue |-> c.queue, perKey |-> c.perKey,
       workflow |-> c.workflow, schedules |-> c.schedules, activity |-> c.activity, handled |-> c.handled,
       running |-> c.running, timed |-> c.timed, working |-> c.working]
    BY DEF Fail, IsCatalog
  <1>. QED BY <1>1 DEF IsCatalog, SameNames, SameQueues, SameWorkflows, SameActivities

LEMMA NewContracts ==
  ASSUME NEW c, NEW x, NEW d, IsCatalog(c), d = SetContracts(c, x)
  PROVE  /\ IsCatalog(d) /\ d.failure = c.failure /\ d.contracts = x /\ d.names = c.names
         /\ SameQueues(d, c) /\ SameWorkflows(d, c) /\ SameActivities(d, c)
  <1>1. d = [failure |-> c.failure, contracts |-> x, names |-> c.names, queue |-> c.queue, perKey |-> c.perKey,
       workflow |-> c.workflow, schedules |-> c.schedules, activity |-> c.activity, handled |-> c.handled,
       running |-> c.running, timed |-> c.timed, working |-> c.working]
    BY DEF IsCatalog, SetContracts
  <1>. QED BY <1>1 DEF IsCatalog, SameQueues, SameWorkflows, SameActivities

LEMMA NewNames ==
  ASSUME NEW c, NEW x, NEW d, IsCatalog(c), d = SetNames(c, x)
  PROVE  /\ IsCatalog(d) /\ d.failure = c.failure /\ d.contracts = c.contracts /\ d.names = c.names \cup x
         /\ SameQueues(d, c) /\ SameWorkflows(d, c) /\ SameActivities(d, c)
  <1>1. d = [failure |-> c.failure, contracts |-> c.contracts, names |-> c.names \cup x, queue |-> c.queue, perKey |-> c.perKey,
       workflow |-> c.workflow, schedules |-> c.schedules, activity |-> c.activity, handled |-> c.handled,
       running |-> c.running, timed |-> c.timed, working |-> c.working]
    BY DEF IsCatalog, SetNames
  <1>. QED BY <1>1 DEF IsCatalog, SameQueues, SameWorkflows, SameActivities

LEMMA NewQueues ==
  ASSUME NEW c, NEW x, NEW y, NEW d, IsCatalog(c), d = SetQueues(c, x, y)
  PROVE  /\ IsCatalog(d) /\ d.failure = c.failure /\ d.queue = x /\ d.perKey = y
         /\ SameNames(d, c) /\ SameWorkflows(d, c) /\ SameActivities(d, c)
  <1>1. d = [failure |-> c.failure, contracts |-> c.contracts, names |-> c.names, queue |-> x, perKey |-> y,
       workflow |-> c.workflow, schedules |-> c.schedules, activity |-> c.activity, handled |-> c.handled,
       running |-> c.running, timed |-> c.timed, working |-> c.working]
    BY DEF IsCatalog, SetQueues
  <1>. QED BY <1>1 DEF IsCatalog, SameNames, SameWorkflows, SameActivities

LEMMA NewLimits ==
  ASSUME NEW c, NEW y, NEW d, IsCatalog(c), d = SetLimits(c, y)
  PROVE  /\ IsCatalog(d) /\ d.failure = c.failure /\ d.queue = c.queue /\ d.perKey = y
         /\ SameNames(d, c) /\ SameWorkflows(d, c) /\ SameActivities(d, c)
  <1>1. d = [failure |-> c.failure, contracts |-> c.contracts, names |-> c.names, queue |-> c.queue, perKey |-> y,
       workflow |-> c.workflow, schedules |-> c.schedules, activity |-> c.activity, handled |-> c.handled,
       running |-> c.running, timed |-> c.timed, working |-> c.working]
    BY DEF IsCatalog, SetLimits
  <1>. QED BY <1>1 DEF IsCatalog, SameNames, SameWorkflows, SameActivities

LEMMA NewSchedules ==
  ASSUME NEW c, NEW x, NEW y, NEW d, IsCatalog(c), d = SetSchedules(c, x, y)
  PROVE  /\ IsCatalog(d) /\ d.failure = c.failure /\ d.schedules = x /\ d.timed = y
         /\ d.workflow = c.workflow /\ d.running = c.running
         /\ SameNames(d, c) /\ SameQueues(d, c) /\ SameActivities(d, c)
  <1>1. d = [failure |-> c.failure, contracts |-> c.contracts, names |-> c.names, queue |-> c.queue, perKey |-> c.perKey,
       workflow |-> c.workflow, schedules |-> x, activity |-> c.activity, handled |-> c.handled,
       running |-> c.running, timed |-> y, working |-> c.working]
    BY DEF IsCatalog, SetSchedules
  <1>. QED BY <1>1 DEF IsCatalog, SameNames, SameQueues, SameActivities

LEMMA NewWorkflows ==
  ASSUME NEW c, NEW x, NEW y, NEW d, IsCatalog(c), d = SetWorkflows(c, x, y)
  PROVE  /\ IsCatalog(d) /\ d.failure = c.failure /\ d.workflow = x /\ d.running = y
         /\ d.schedules = c.schedules /\ d.timed = c.timed
         /\ SameNames(d, c) /\ SameQueues(d, c) /\ SameActivities(d, c)
  <1>1. d = [failure |-> c.failure, contracts |-> c.contracts, names |-> c.names, queue |-> c.queue, perKey |-> c.perKey,
       workflow |-> x, schedules |-> c.schedules, activity |-> c.activity, handled |-> c.handled,
       running |-> y, timed |-> c.timed, working |-> c.working]
    BY DEF IsCatalog, SetWorkflows
  <1>. QED BY <1>1 DEF IsCatalog, SameNames, SameQueues, SameActivities

LEMMA NewActivities ==
  ASSUME NEW c, NEW x, NEW y, NEW z, NEW d, IsCatalog(c),
         d = SetActivities(c, x, y, z)
  PROVE  /\ IsCatalog(d) /\ d.failure = c.failure /\ d.activity = x /\ d.handled = c.handled \cup y /\ d.working = z
         /\ SameNames(d, c) /\ SameQueues(d, c) /\ SameWorkflows(d, c)
  <1>1. d = [failure |-> c.failure, contracts |-> c.contracts, names |-> c.names, queue |-> c.queue, perKey |-> c.perKey,
       workflow |-> c.workflow, schedules |-> c.schedules, activity |-> x, handled |-> c.handled \cup y,
       running |-> c.running, timed |-> c.timed, working |-> z]
    BY DEF IsCatalog, SetActivities
  <1>. QED BY <1>1 DEF IsCatalog, SameNames, SameQueues, SameWorkflows

\* A set has fewer images than members if two of them have the same.
LEMMA FewerImages ==
  ASSUME NEW S, IsFiniteSet(S), NEW F
  PROVE  Cardinality({F[x] : x \in S}) < Cardinality(S) <=> \E x, y \in S : x # y /\ F[x] = F[y]
  <1>. DEFINE T == {F[x] : x \in S}
              f == [x \in S |-> F[x]]
  <1>1. f \in Surjection(S, T)
    BY DEF Surjection
  <1>2. Cardinality(T) <= Cardinality(S) /\ (Cardinality(T) = Cardinality(S) <=> f \in Injection(S, T)) /\ IsFiniteSet(T)
    <2>. HIDE DEF T, f
    <2>. QED BY <1>1, FS_Surjection
  <1>3. f \in Injection(S, T) <=> \A x, y \in S : x # y => F[x] # F[y]
    BY DEF Injection, IsInjective
  <1>4. Cardinality(T) \in Nat /\ Cardinality(S) \in Nat
    <2>. HIDE DEF T
    <2>. QED BY <1>2, FS_CardinalityType
  <1>. HIDE DEF T, f
  <1>5. Cardinality(T) < Cardinality(S) <=> \E x, y \in S : x # y /\ F[x] = F[y]
    BY <1>2, <1>3, <1>4
  <1>. QED BY <1>5 DEF T

LEMMA SamePartsHold ==
  ASSUME NEW app, NEW c, NEW d, NEW done
  PROVE  /\ c.contracts = d.contracts /\ Called(app, c, done) => Called(app, d, done)
         /\ c.names = d.names /\ Named(app, c, done) => Named(app, d, done)
         /\ SameQueues(d, c) /\ Queued(app, c, done) => Queued(app, d, done)
         /\ SameQueues(d, c) /\ Limited(app, c) => Limited(app, d)
         /\ SameQueues(d, c) /\ Overridden(app, c) => Overridden(app, d)
         /\ d.workflow = c.workflow /\ d.running = c.running /\ Implemented(app, c, done) => Implemented(app, d, done)
         /\ d.schedules = c.schedules /\ d.timed = c.timed /\ Timed(app, c, done) => Timed(app, d, done)
         /\ SameActivities(d, c) /\ Provided(app, c, done) => Provided(app, d, done)
         /\ SameActivities(d, c) /\ Worked(app, c, done) => Worked(app, d, done)
  <1>1. c.contracts = d.contracts /\ Called(app, c, done) => Called(app, d, done)
    BY DEF Called
  <1>2. c.names = d.names /\ Named(app, c, done) => Named(app, d, done)
    BY DEF Named
  <1>3. SameQueues(d, c) /\ Queued(app, c, done) => Queued(app, d, done)
    BY DEF SameQueues, Queued
  <1>4. SameQueues(d, c) /\ Limited(app, c) => Limited(app, d)
    BY DEF SameQueues, Limited
  <1>5. SameQueues(d, c) /\ Overridden(app, c) => Overridden(app, d)
    BY DEF SameQueues, Overridden
  <1>6. d.workflow = c.workflow /\ d.running = c.running /\ Implemented(app, c, done) => Implemented(app, d, done)
    BY DEF Implemented
  <1>7. d.schedules = c.schedules /\ d.timed = c.timed /\ Timed(app, c, done) => Timed(app, d, done)
    BY DEF Timed
  <1>8. SameActivities(d, c) /\ Provided(app, c, done) => Provided(app, d, done)
    BY DEF SameActivities, Provided
  <1>9. SameActivities(d, c) /\ Worked(app, c, done) => Worked(app, d, done)
    BY DEF SameActivities, Worked
  <1>. QED BY <1>1, <1>2, <1>3, <1>4, <1>5, <1>6, <1>7, <1>8, <1>9

LEMMA ContractsRegistered ==
  ASSUME NEW app, NEW c, NEW done, NEW f, NEW d, IsCatalog(c), c.failure = "none", Called(app, c, done),
         d = RegisterContracts(app, c, f)
  PROVE  \/ /\ IsCatalog(d) /\ d.failure = "none" /\ Called(app, d, done \cup {f}) /\ d.names = c.names
            /\ SameQueues(d, c) /\ SameWorkflows(d, c) /\ SameActivities(d, c)
         \/ d.failure # "none" /\ ~CallsDiffer(app, done \cup {f})
  <1>. DEFINE contracts == c.contracts \cup Clients(app, f)
  <1>1. \A w : w \in contracts <=> \E g \in done \cup {f} : w \in Clients(app, g)
    BY DEF Called
  <1>. HIDE DEF contracts
  <1>2. (\E v, w \in contracts : v # w /\ app.identity[v] = app.identity[w]) <=> ~CallsDiffer(app, done \cup {f})
    BY <1>1 DEF CallsDiffer
  <1>3. d = IF \E v, w \in contracts : v # w /\ app.identity[v] = app.identity[w] THEN Fail(c, "DUPLICATE_WORKFLOW")
            ELSE [c EXCEPT !.contracts = contracts]
    BY DEF RegisterContracts, contracts
  <1>4. ASSUME ~CallsDiffer(app, done \cup {f}) PROVE d.failure # "none"
    <2>1. d = Fail(c, "DUPLICATE_WORKFLOW")
      BY <1>2, <1>3, <1>4
    <2>. QED BY <2>1, FailIs
  <1>5. ASSUME CallsDiffer(app, done \cup {f})
        PROVE  /\ IsCatalog(d) /\ d.failure = "none" /\ Called(app, d, done \cup {f}) /\ d.names = c.names
               /\ SameQueues(d, c) /\ SameWorkflows(d, c) /\ SameActivities(d, c)
    <2>1. d = SetContracts(c, contracts)
      BY <1>2, <1>3, <1>5 DEF SetContracts
    <2>2. /\ IsCatalog(d) /\ d.failure = c.failure /\ d.contracts = contracts /\ d.names = c.names
          /\ SameQueues(d, c) /\ SameWorkflows(d, c) /\ SameActivities(d, c)
      BY <2>1, NewContracts
    <2>. QED BY <1>1, <1>5, <2>2 DEF Called
  <1>. QED BY <1>4, <1>5

LEMMA FeatureNamed ==
  ASSUME NEW app, NEW c, NEW done, NEW f, f \notin done, NEW d, IsCatalog(c), c.failure = "none", Named(app, c, done),
         d = NameFeature(app, c, f)
  PROVE  \/ /\ IsCatalog(d) /\ d.failure = "none" /\ Named(app, d, done \cup {f}) /\ d.contracts = c.contracts
            /\ SameQueues(d, c) /\ SameWorkflows(d, c) /\ SameActivities(d, c)
         \/ d.failure # "none" /\ ~NamesDiffer(app, done \cup {f})
  <1>1. app.name[f] \in c.names <=> ~NamesDiffer(app, done \cup {f})
    BY DEF Named, NamesDiffer
  <1>2. ASSUME app.name[f] \in c.names PROVE d.failure # "none"
    <2>1. d = Fail(c, "DUPLICATE_FEATURE")
      BY <1>2 DEF NameFeature
    <2>. QED BY <2>1, FailIs
  <1>3. ASSUME app.name[f] \notin c.names
        PROVE  /\ IsCatalog(d) /\ d.failure = "none" /\ Named(app, d, done \cup {f}) /\ d.contracts = c.contracts
               /\ SameQueues(d, c) /\ SameWorkflows(d, c) /\ SameActivities(d, c)
    <2>1. d = SetNames(c, {app.name[f]})
      BY <1>3 DEF NameFeature, SetNames
    <2>2. /\ IsCatalog(d) /\ d.failure = c.failure /\ d.contracts = c.contracts /\ d.names = c.names \cup {app.name[f]}
          /\ SameQueues(d, c) /\ SameWorkflows(d, c) /\ SameActivities(d, c)
      BY <2>1, NewNames
    <2>3. Named(app, d, done \cup {f})
      <3>1. NamesDiffer(app, done \cup {f})
        BY <1>1, <1>3
      <3>2. \A n : n \in d.names <=> n \in c.names \/ n = app.name[f]
        BY <2>2
      <3>. QED BY <3>1, <3>2 DEF Named
    <2>. QED BY <2>2, <2>3
  <1>. QED BY <1>1, <1>2, <1>3

LEMMA QueuesRegistered ==
  ASSUME NEW app, NEW c, NEW done, NEW f, f \notin done, NEW d, IsCatalog(c), c.failure = "none",
         Queued(app, c, done), Limited(app, c), d = RegisterQueues(app, c, OwnedQueues(app)[f], f)
  PROVE  \/ /\ IsCatalog(d) /\ d.failure = "none" /\ Queued(app, d, done \cup {f}) /\ Limited(app, d)
            /\ SameNames(d, c) /\ SameWorkflows(d, c) /\ SameActivities(d, c)
         \/ d.failure # "none" /\ ~QueuesDiffer(app, done \cup {f})
  <1>. PICK queues : queues = OwnedQueues(app)[f]
    OBVIOUS
  <1>1. queues \cap DOMAIN c.queue # {} <=> ~QueuesDiffer(app, done \cup {f})
    BY DEF Queued, QueuesDiffer
  <1>2. ASSUME queues \cap DOMAIN c.queue # {} PROVE d.failure # "none"
    <2>1. d = Fail(c, "DUPLICATE_QUEUE_OWNER")
      BY <1>2 DEF RegisterQueues
    <2>. QED BY <2>1, FailIs
  <1>3. ASSUME queues \cap DOMAIN c.queue = {}
        PROVE  /\ IsCatalog(d) /\ d.failure = "none" /\ Queued(app, d, done \cup {f}) /\ Limited(app, d)
               /\ SameNames(d, c) /\ SameWorkflows(d, c) /\ SameActivities(d, c)
    <2>1. PICK x, y : x = Own(c.queue, queues, f) /\ y = Added(c.perKey, [q \in queues |-> QueueLimit(app, f, q)])
      OBVIOUS
    <2>2. d = SetQueues(c, x, y)
      BY <1>3, <2>1 DEF RegisterQueues, IsCatalog, SetQueues
    <2>3. /\ IsCatalog(d) /\ d.failure = c.failure /\ d.queue = x /\ d.perKey = y
          /\ SameNames(d, c) /\ SameWorkflows(d, c) /\ SameActivities(d, c)
      BY <2>2, NewQueues
    <2>4. /\ DOMAIN x = (DOMAIN c.queue) \cup queues
          /\ \A q \in queues : x[q] = f
          /\ \A q \in (DOMAIN c.queue) \ queues : x[q] = c.queue[q]
      BY <2>1 DEF Own, Added
    <2>5. /\ DOMAIN y = (DOMAIN c.perKey) \cup queues
          /\ \A q \in queues : y[q] = QueueLimit(app, f, q)
          /\ \A q \in (DOMAIN c.perKey) \ queues : y[q] = c.perKey[q]
      BY <2>1 DEF Added
    <2>6. Queued(app, d, done \cup {f})
      <3>1. QueuesDiffer(app, done \cup {f})
        BY <1>1, <1>3
      <3>. QED BY <1>3, <2>3, <2>4, <2>5, <3>1 DEF Queued
    <2>7. Limited(app, d)
      BY <1>3, <2>3, <2>4, <2>5 DEF Limited, Queued
    <2>. QED BY <2>3, <2>6, <2>7
  <1>. QED BY <1>1, <1>2, <1>3

\* Once all queues are registered, their owners are known.
LEMMA QueueOwnersAre ==
  ASSUME NEW app, IsApplication(app), NEW c, Queued(app, c, Owners(app)), NEW q
  PROVE  /\ q \in DOMAIN c.queue <=> HasOwner(app, q)
         /\ q \in DOMAIN c.queue =>
              /\ c.queue[q] \in Owners(app)
              /\ \A g \in Owners(app) : q \in OwnedQueues(app)[g] <=> g = c.queue[q]
              /\ OwnersOf(OwnedQueues(app), q) = {c.queue[q]}
  <1>1. q \in DOMAIN c.queue <=> HasOwner(app, q)
    BY DEF Queued, HasOwner
  <1>2. ASSUME q \in DOMAIN c.queue
        PROVE  c.queue[q] \in Owners(app) /\ \A g \in Owners(app) : q \in OwnedQueues(app)[g] <=> g = c.queue[q]
    BY <1>2 DEF Queued, QueuesDiffer
  <1>. QED BY <1>1, <1>2, OwnersAre

LEMMA OverridesRegistered ==
  ASSUME NEW app, IsApplication(app), NEW c, NEW d, IsCatalog(c), c.failure = "none",
         Queued(app, c, Owners(app)), Limited(app, c), d = Override(app, c)
  PROVE  \/ /\ IsCatalog(d) /\ d.failure = "none" /\ Queued(app, d, Owners(app)) /\ Overridden(app, d)
            /\ SameNames(d, c) /\ SameWorkflows(d, c) /\ SameActivities(d, c)
         \/ d.failure # "none" /\ ~(OverridesDiffer(app) /\ OverridesFit(app))
  <1>1. OverridesFit(app) <=> \A i \in DOMAIN app.overrides : app.overrides[i].queue \in DOMAIN c.queue
    BY QueueOwnersAre DEF OverridesFit
  <1>2. ASSUME ~(OverridesDiffer(app) /\ OverridesFit(app)) PROVE d.failure # "none"
    <2>1. d = Fail(c, "UNKNOWN_QUEUE_OVERRIDE") \/ d = Fail(c, "DUPLICATE_QUEUE_OVERRIDE")
      BY <1>1, <1>2 DEF Override, OverridesDiffer
    <2>. QED BY <2>1, FailIs
  <1>3. ASSUME OverridesDiffer(app), OverridesFit(app)
        PROVE  /\ IsCatalog(d) /\ d.failure = "none" /\ Queued(app, d, Owners(app)) /\ Overridden(app, d)
               /\ SameNames(d, c) /\ SameWorkflows(d, c) /\ SameActivities(d, c)
    <2>. DEFINE Of(q) == {i \in DOMAIN app.overrides : app.overrides[i].queue = q}
                Overriding(q) == app.overrides[CHOOSE i \in Of(q) : TRUE].perKey
                limits == [q \in DOMAIN c.perKey |-> IF Of(q) = {} THEN c.perKey[q] ELSE Over(c.perKey[q], Overriding(q))]
    <2>1. d = SetLimits(c, limits)
      <3>1. d = [c EXCEPT !.perKey = [q \in DOMAIN @ |-> IF Of(q) = {} THEN @[q] ELSE Over(@[q], Overriding(q))]]
        BY <1>1, <1>3 DEF Override, OverridesDiffer
      <3>. HIDE DEF Of, Overriding
      <3>. QED BY <3>1 DEF IsCatalog, SetLimits
    <2>2. ASSUME NEW q \in DOMAIN c.queue PROVE q \in DOMAIN limits /\ limits[q] = LimitsPerKey(app, q)
      <3>1. PICK f : f = c.queue[q]
        OBVIOUS
      <3>2. /\ f \in FeaturesOf(app) \cup {Root}
            /\ \A g \in FeaturesOf(app) \cup {Root} : q \in OwnedQueues(app)[g] <=> g = f
        BY <3>1, QueueOwnersAre DEF Owners
      <3>3. \A i, j \in DOMAIN app.overrides : (app.overrides[i].queue = q /\ app.overrides[j].queue = q) => i = j
        BY <1>3 DEF OverridesDiffer
      <3>4. /\ (\A i \in DOMAIN app.overrides : app.overrides[i].queue # q) => LimitsPerKey(app, q) = QueueLimit(app, f, q)
            /\ \A i \in DOMAIN app.overrides : app.overrides[i].queue = q =>
                 LimitsPerKey(app, q) = Over(QueueLimit(app, f, q), app.overrides[i].perKey)
        BY <3>2, <3>3, LimitIs
      <3>5. q \in DOMAIN c.perKey /\ c.perKey[q] = QueueLimit(app, f, q)
        BY <3>1 DEF Limited, Queued
      <3>6. ASSUME Of(q) = {} PROVE limits[q] = LimitsPerKey(app, q)
        BY <3>4, <3>5, <3>6
      <3>7. ASSUME Of(q) # {} PROVE limits[q] = LimitsPerKey(app, q)
        <4>1. (CHOOSE i \in Of(q) : TRUE) \in Of(q)
          BY <3>7
        <4>2. PICK i : i = CHOOSE j \in Of(q) : TRUE
          OBVIOUS
        <4>3. i \in DOMAIN app.overrides /\ app.overrides[i].queue = q
          BY <4>1, <4>2
        <4>4. limits[q] = Over(c.perKey[q], app.overrides[i].perKey)
          BY <3>5, <3>7, <4>2
        <4>. QED BY <3>4, <3>5, <4>3, <4>4
      <3>. QED BY <3>5, <3>6, <3>7
    <2>3. DOMAIN limits = DOMAIN c.queue
      BY DEF Queued
    <2>. HIDE DEF limits
    <2>4. /\ IsCatalog(d) /\ d.failure = c.failure /\ d.queue = c.queue /\ d.perKey = limits
          /\ SameNames(d, c) /\ SameWorkflows(d, c) /\ SameActivities(d, c)
      BY <2>1, NewLimits
    <2>5. Queued(app, d, Owners(app))
      BY <2>3, <2>4 DEF Queued
    <2>6. Overridden(app, d)
      BY <1>3, <2>2, <2>4 DEF Overridden
    <2>. QED BY <2>4, <2>5, <2>6
  <1>. QED BY <1>2, <1>3

LEMMA RootChecked ==
  ASSUME NEW app, IsApplication(app), NEW c, NEW d, IsCatalog(c), c.failure = "none",
         Queued(app, c, Owners(app)), d = CheckRoot(app, c)
  PROVE  \/ d = c /\ RootFits(app)
         \/ d.failure # "none" /\ ~RootFits(app)
  <1>1. RootFits(app) <=> Listed(app.only[Root]) \subseteq DOMAIN c.queue
    BY QueueOwnersAre DEF RootFits
  <1>2. ASSUME ~RootFits(app) PROVE d.failure # "none"
    <2>1. d = Fail(c, "UNKNOWN_QUEUE")
      BY <1>1, <1>2 DEF CheckRoot
    <2>. QED BY <2>1, FailIs
  <1>. QED BY <1>1, <1>2 DEF CheckRoot

\* requireQueue lets a feature use what a chain of exports shows it.
LEMMA RequiredMayBeUsed ==
  ASSUME NEW app, IsApplication(app), NEW c, Queued(app, c, Owners(app)), NEW f \in FeaturesOf(app), NEW queues
  PROVE  RequireQueues(app, c, f, queues) = "none" <=> \A q \in queues : MayUse(app, OwnedQueues(app), f, q)
  <1>1. ASSUME NEW q, q \in DOMAIN c.queue
        PROVE  MayUse(app, OwnedQueues(app), f, q) <=>
                 ~(c.queue[q] \notin {Root, f} /\ ~ImportsExport(app, f, q, c.queue[q]))
    <2>1. OwnersOf(OwnedQueues(app), q) = {c.queue[q]}
      BY <1>1, QueueOwnersAre
    <2>2. ImportsExport(app, f, q, c.queue[q]) <=> c.queue[q] \in Reached(app, q, f)
      BY SearchFindsWhatIsReached
    <2>. QED BY <2>1, <2>2 DEF MayUse
  <1>2. ASSUME NEW q, q \notin DOMAIN c.queue PROVE ~MayUse(app, OwnedQueues(app), f, q)
    <2>1. OwnersOf(OwnedQueues(app), q) = {}
      BY <1>2, QueueOwnersAre, OwnersAre DEF HasOwner
    <2>. QED BY <2>1 DEF MayUse
  <1>. QED BY <1>1, <1>2 DEF RequireQueues

LEMMA WorkflowsRegistered ==
  ASSUME NEW app, IsApplication(app), NEW c, NEW done, NEW f \in FeaturesOf(app) \ done, NEW d,
         IsCatalog(c), c.failure = "none", Implemented(app, c, done), Timed(app, c, done), d = RegisterWorkflows(app, c, f)
  PROVE  \/ /\ IsCatalog(d) /\ d.failure = "none" /\ Implemented(app, d, done \cup {f}) /\ Timed(app, d, done \cup {f})
            /\ SameNames(d, c) /\ SameQueues(d, c) /\ SameActivities(d, c)
         \/ d.failure # "none" /\ ~(WorkflowsDiffer(app, done \cup {f}) /\ SchedulesDiffer(app, done \cup {f}))
  <1>. PICK scheduled, names : scheduled = Scheduled(app, f) /\ names = {app.schedule[w] : w \in scheduled}
    OBVIOUS
  <1>1. app.workflows[f] \cap DOMAIN c.workflow # {} <=> ~WorkflowsDiffer(app, done \cup {f})
    BY DEF Implemented, WorkflowsDiffer
  <1>2. ASSUME ~WorkflowsDiffer(app, done \cup {f}) PROVE d.failure # "none"
    <2>1. d = Fail(c, "DUPLICATE_WORKFLOW_HANDLER")
      BY <1>1, <1>2 DEF RegisterWorkflows
    <2>. QED BY <2>1, FailIs
  <1>3. ASSUME WorkflowsDiffer(app, done \cup {f})
        PROVE  \/ /\ IsCatalog(d) /\ d.failure = "none" /\ Implemented(app, d, done \cup {f}) /\ Timed(app, d, done \cup {f})
                  /\ SameNames(d, c) /\ SameQueues(d, c) /\ SameActivities(d, c)
               \/ d.failure # "none" /\ ~SchedulesDiffer(app, done \cup {f})
    <2>1. PICK e, x, y : /\ e = RegisterSchedules(app, c, f) /\ x = Own(e.workflow, app.workflows[f], f)
                         /\ y = IF Enabled(app, f, "workflows") THEN e.running \cup app.workflows[f] ELSE e.running
      OBVIOUS
    <2>2. IsCatalog(e) => d = SetWorkflows(e, x, y)
      BY <1>1, <1>3, <2>1 DEF RegisterWorkflows, IsCatalog, SetWorkflows
    <2>3. Cardinality(names) < Cardinality(scheduled) <=> \E v, w \in scheduled : v # w /\ app.schedule[v] = app.schedule[w]
      <3>1. IsFiniteSet(scheduled)
        <4>1. scheduled \in SUBSET app.workflows[f] /\ IsFiniteSet(app.workflows[f])
          BY DEF Scheduled, IsApplication
        <4>. QED BY <4>1, FS_Subset
      <3>. QED BY <3>1, FewerImages
    <2>4. names \cap c.schedules # {} <=> \E g \in done : \E v \in scheduled : \E w \in Scheduled(app, g) : app.schedule[v] = app.schedule[w]
      BY DEF Timed
    <2>5. ASSUME NEW g \in done, NEW v \in scheduled, NEW w \in Scheduled(app, g) PROVE v # w
      BY <1>3, <2>5 DEF Scheduled, WorkflowsDiffer
    <2>6. (names \cap c.schedules # {} \/ Cardinality(names) < Cardinality(scheduled)) <=> ~SchedulesDiffer(app, done \cup {f})
      BY <2>3, <2>4, <2>5 DEF Timed, SchedulesDiffer
    <2>7. ASSUME ~SchedulesDiffer(app, done \cup {f}) PROVE d.failure # "none"
      <3>1. e = Fail(c, "DUPLICATE_SCHEDULE")
        BY <2>1, <2>6, <2>7 DEF RegisterSchedules, Scheduled
      <3>2. IsCatalog(e) /\ e.failure = "DUPLICATE_SCHEDULE"
        BY <3>1, FailIs
      <3>3. d = SetWorkflows(e, x, y)
        BY <2>2, <3>2
      <3>4. d.failure = e.failure
        BY <3>2, <3>3, NewWorkflows
      <3>. QED BY <3>2, <3>4
    <2>8. ASSUME SchedulesDiffer(app, done \cup {f})
          PROVE  /\ IsCatalog(d) /\ d.failure = "none" /\ Implemented(app, d, done \cup {f}) /\ Timed(app, d, done \cup {f})
                 /\ SameNames(d, c) /\ SameQueues(d, c) /\ SameActivities(d, c)
      <3>1. PICK ss, z : /\ ss = c.schedules \cup names
                         /\ z = IF Enabled(app, f, "schedules") THEN c.timed \cup names ELSE c.timed
        OBVIOUS
      <3>2. e = SetSchedules(c, ss, z)
        BY <2>1, <2>6, <2>8, <3>1 DEF RegisterSchedules, Scheduled, IsCatalog, SetSchedules
      <3>3. /\ IsCatalog(e) /\ e.failure = c.failure /\ e.schedules = ss /\ e.timed = z
            /\ e.workflow = c.workflow /\ e.running = c.running
            /\ SameNames(e, c) /\ SameQueues(e, c) /\ SameActivities(e, c)
        BY <3>2, NewSchedules
      <3>4. /\ IsCatalog(d) /\ d.failure = e.failure /\ d.workflow = x /\ d.running = y
            /\ d.schedules = e.schedules /\ d.timed = e.timed
            /\ SameNames(d, e) /\ SameQueues(d, e) /\ SameActivities(d, e)
        BY <2>2, <3>3, NewWorkflows
      <3>5. /\ DOMAIN x = (DOMAIN c.workflow) \cup app.workflows[f]
            /\ y = IF Enabled(app, f, "workflows") THEN c.running \cup app.workflows[f] ELSE c.running
        BY <2>1, <3>3 DEF Own, Added
      <3>6. Implemented(app, d, done \cup {f})
        BY <1>3, <3>4, <3>5 DEF Implemented
      <3>7. Timed(app, d, done \cup {f})
        <4>1. \A s : s \in names <=> \E w \in Scheduled(app, f) : s = app.schedule[w]
          OBVIOUS
        <4>2. d.schedules = c.schedules \cup names /\ d.timed = z
          BY <3>1, <3>3, <3>4
        <4>. QED BY <2>8, <3>1, <4>1, <4>2 DEF Timed
      <3>. QED BY <3>3, <3>4, <3>6, <3>7 DEF SameNames, SameQueues, SameActivities
    <2>. QED BY <2>7, <2>8
  <1>. QED BY <1>2, <1>3

LEMMA LimitsAreOnOrOff ==
  ASSUME NEW app, IsApplication(app), NEW c, Queued(app, c, Owners(app)), OverridesDiffer(app),
         NEW g \in FeaturesOf(app), NEW q, q \in DOMAIN c.queue
  PROVE  LimitsPerKey(app, q) \in {"on", "off"}
  <1>. PICK f : f = c.queue[q]
    OBVIOUS
  <1>1. /\ f \in FeaturesOf(app) \cup {Root} /\ q \in OwnedQueues(app)[f]
        /\ \A h \in FeaturesOf(app) \cup {Root} : q \in OwnedQueues(app)[h] <=> h = f
    BY QueueOwnersAre DEF Owners
  <1>2. \A i, j \in DOMAIN app.overrides : (app.overrides[i].queue = q /\ app.overrides[j].queue = q) => i = j
    BY DEF OverridesDiffer
  <1>3. /\ (\A i \in DOMAIN app.overrides : app.overrides[i].queue # q) => LimitsPerKey(app, q) = QueueLimit(app, f, q)
        /\ \A i \in DOMAIN app.overrides : app.overrides[i].queue = q =>
             LimitsPerKey(app, q) = Over(QueueLimit(app, f, q), app.overrides[i].perKey)
    BY <1>1, <1>2, LimitIs
  <1>4. app.perKey[Root] \in {None, "on", "off"} /\ app.perKey[f] \in {None, "on", "off"} /\ app.perKey[q] \in {None, "on", "off"}
    <2>1. \A h \in FeaturesOf(app) : \A k \in app.queues[h] \cup app.rootQueues \cup {h, Root} : app.perKey[k] \in {None, "on", "off"}
      BY DEF IsApplication
    <2>2. q \in app.rootQueues \/ (f \in FeaturesOf(app) /\ q \in app.queues[f])
      BY <1>1, ApplicationIs
    <2>. QED BY <1>1, <2>1, <2>2
  <1>5. QueueLimit(app, f, q) \in {"on", "off"}
    BY <1>4 DEF QueueLimit, Over
  <1>6. \A i \in DOMAIN app.overrides : app.overrides[i].perKey \in {None, "on", "off"}
    BY DEF IsApplication
  <1>. QED BY <1>3, <1>5, <1>6 DEF Over

LEMMA WorkingAreActivities ==
  ASSUME NEW app, NEW f
  PROVE  DOMAIN Working(app, f) \subseteq app.activities[f]
         /\ \A a \in DOMAIN Working(app, f) : Working(app, f)[a] = QueueOf(app, f, a)
  BY DEF Working

LEMMA ActivitiesRegistered ==
  ASSUME NEW app, IsApplication(app), NEW c, NEW done \in SUBSET FeaturesOf(app), NEW f \in FeaturesOf(app) \ done, NEW d,
         IsCatalog(c), c.failure = "none", Queued(app, c, Owners(app)), Overridden(app, c),
         Provided(app, c, done), Worked(app, c, done), d = RegisterActivities(app, c, f)
  PROVE  \/ /\ IsCatalog(d) /\ d.failure = "none" /\ Provided(app, d, done \cup {f}) /\ Worked(app, d, done \cup {f})
            /\ QueuesFit(app, f) /\ KeysFit(app, f)
            /\ SameNames(d, c) /\ SameQueues(d, c) /\ SameWorkflows(d, c)
         \/ /\ d.failure # "none"
            /\ ~(ActivitiesDiffer(app, done \cup {f}) /\ QueuesFit(app, f) /\ KeysFit(app, f) /\ IdentitiesDiffer(app))
  <1>. PICK contracts, queues, required, identities :
         /\ contracts = Contracts(app)[f] /\ queues = QueuesOf(app, f)
         /\ required = RequireQueues(app, c, f, queues)
         /\ identities = {app.identity[a] : a \in app.activities[f]}
    OBVIOUS
  <1>. DEFINE Twice == contracts \cap DOMAIN c.activity # {} \/ app.activities[f] \cap app.declared[f] # {}
              Keyless == \E a \in contracts : c.perKey[QueueOf(app, f, a)] = "on" /\ a \notin app.keyed
              Repeated == identities \cap c.handled # {} \/ Cardinality(identities) < Cardinality(app.activities[f])
  <1>0. \A g \in FeaturesOf(app) : Contracts(app)[g] = app.activities[g] \cup app.declared[g]
    BY ApplicationIs
  <1>1. d = IF Twice THEN Fail(c, "DUPLICATE_ACTIVITY_PROVIDER")
            ELSE IF None \in queues THEN Fail(c, "ACTIVITY_QUEUE_REQUIRED")
            ELSE IF required # "none" THEN Fail(c, required)
            ELSE IF Keyless THEN Fail(c, "ACTIVITY_KEY_REQUIRED")
            ELSE IF Repeated THEN Fail(c, "DUPLICATE_ACTIVITY")
            ELSE [c EXCEPT !.activity = Own(@, contracts, f), !.handled = @ \cup identities,
                           !.working = Added(@, Working(app, f))]
    BY <1>0 DEF RegisterActivities, QueuesOf
  <1>2. Twice <=> ~ActivitiesDiffer(app, done \cup {f})
    BY DEF Provided, ActivitiesDiffer
  <1>3. required # "none" <=> ~QueuesFit(app, f)
    BY RequiredMayBeUsed DEF QueuesFit
  <1>4. ASSUME None \in queues PROVE ~QueuesFit(app, f)
    <2>1. OwnersOf(OwnedQueues(app), None) = {}
      <3>1. \A g \in FeaturesOf(app) : None \notin app.queues[g] \cup app.rootQueues
        BY DEF IsApplication
      <3>2. \A g \in Owners(app) : None \notin OwnedQueues(app)[g]
        BY <3>1, ApplicationIs DEF Owners
      <3>. QED BY <3>2, OwnersAre
    <2>2. ~MayUse(app, OwnedQueues(app), f, None)
      BY <2>1 DEF MayUse
    <2>. QED BY <1>4, <2>2 DEF QueuesFit
  <1>5. ASSUME QueuesFit(app, f) PROVE Keyless <=> ~KeysFit(app, f)
    <2>1. ASSUME NEW a \in contracts
          PROVE  LET q == QueueOf(app, f, a)
                 IN c.perKey[q] = LimitsPerKey(app, q) /\ LimitsPerKey(app, q) \in {"on", "off"}
      <3>1. PICK q : q = QueueOf(app, f, a)
        OBVIOUS
      <3>2. MayUse(app, OwnedQueues(app), f, q)
        BY <1>5, <2>1, <3>1 DEF QueuesFit, QueuesOf
      <3>3. q \in DOMAIN c.queue
        <4>1. OwnersOf(OwnedQueues(app), q) # {}
          BY <3>2 DEF MayUse
        <4>. QED BY <4>1, OwnersAre, QueueOwnersAre DEF HasOwner
      <3>4. LimitsPerKey(app, q) \in {"on", "off"}
        BY <3>3, LimitsAreOnOrOff DEF Overridden
      <3>. QED BY <3>1, <3>3, <3>4 DEF Overridden
    <2>2. \A a \in contracts : c.perKey[QueueOf(app, f, a)] = "on" <=> LimitsPerKey(app, QueueOf(app, f, a)) # "off"
      BY <2>1
    <2>. QED BY <2>2 DEF KeysFit
  <1>6. ASSUME ActivitiesDiffer(app, done \cup {f}), Repeated PROVE ~IdentitiesDiffer(app)
    <2>1. ASSUME identities \cap c.handled # {} PROVE ~IdentitiesDiffer(app)
      <3>1. PICK a \in app.activities[f] : app.identity[a] \in c.handled
        BY <2>1
      <3>2. PICK g \in done : \E b \in app.activities[g] : app.identity[a] = app.identity[b]
        BY <3>1 DEF Provided
      <3>3. PICK b \in app.activities[g] : app.identity[a] = app.identity[b]
        BY <3>2
      <3>4. a \in Contracts(app)[f] /\ b \in Contracts(app)[g]
        BY <1>0
      <3>5. a # b
        BY <1>6, <3>4 DEF ActivitiesDiffer
      <3>. QED BY <3>3, <3>4, <3>5 DEF IdentitiesDiffer
    <2>2. ASSUME Cardinality(identities) < Cardinality(app.activities[f]) PROVE ~IdentitiesDiffer(app)
      <3>1. IsFiniteSet(app.activities[f])
        BY DEF IsApplication
      <3>2. \E a, b \in app.activities[f] : a # b /\ app.identity[a] = app.identity[b]
        BY <2>2, <3>1, FewerImages
      <3>. QED BY <1>0, <3>2 DEF IdentitiesDiffer
    <2>. QED BY <1>6, <2>1, <2>2
  <1>. HIDE DEF Twice, Keyless, Repeated
  <1>7. ASSUME ~(ActivitiesDiffer(app, done \cup {f}) /\ QueuesFit(app, f) /\ KeysFit(app, f) /\ ~Repeated)
        PROVE  d.failure # "none"
    <2>1. \/ d = Fail(c, "DUPLICATE_ACTIVITY_PROVIDER") \/ d = Fail(c, "ACTIVITY_QUEUE_REQUIRED")
          \/ (d = Fail(c, required) /\ required # "none")
          \/ d = Fail(c, "ACTIVITY_KEY_REQUIRED") \/ d = Fail(c, "DUPLICATE_ACTIVITY")
      BY <1>1, <1>2, <1>3, <1>4, <1>5, <1>7
    <2>2. \A code : Fail(c, code).failure = code
      BY FailIs
    <2>. QED BY <2>1, <2>2
  <1>8. ASSUME ActivitiesDiffer(app, done \cup {f}), QueuesFit(app, f), KeysFit(app, f), ~Repeated
        PROVE  /\ IsCatalog(d) /\ d.failure = "none" /\ Provided(app, d, done \cup {f}) /\ Worked(app, d, done \cup {f})
               /\ SameNames(d, c) /\ SameQueues(d, c) /\ SameWorkflows(d, c)
    <2>1. PICK x, z : x = Own(c.activity, contracts, f) /\ z = Added(c.working, Working(app, f))
      OBVIOUS
    <2>2. d = SetActivities(c, x, identities, z)
      BY <1>1, <1>2, <1>3, <1>4, <1>5, <1>8, <2>1 DEF SetActivities, IsCatalog
    <2>3. /\ IsCatalog(d) /\ d.failure = c.failure /\ d.activity = x /\ d.handled = c.handled \cup identities /\ d.working = z
          /\ SameNames(d, c) /\ SameQueues(d, c) /\ SameWorkflows(d, c)
      BY <2>2, NewActivities
    <2>4. contracts \cap DOMAIN c.activity = {}
      BY <1>2, <1>8 DEF Twice
    <2>5. /\ DOMAIN x = (DOMAIN c.activity) \cup contracts
          /\ \A a \in contracts : x[a] = f
          /\ \A a \in DOMAIN c.activity : x[a] = c.activity[a]
      BY <2>1, <2>4 DEF Own, Added
    <2>6. Provided(app, d, done \cup {f})
      <3>1. \A i : i \in identities <=> \E a \in app.activities[f] : i = app.identity[a]
        OBVIOUS
      <3>. QED BY <1>8, <2>3, <2>4, <2>5, <3>1 DEF Provided
    <2>7. Worked(app, d, done \cup {f})
      <3>1. /\ DOMAIN z = (DOMAIN c.working) \cup DOMAIN Working(app, f)
            /\ \A a \in DOMAIN Working(app, f) : z[a] = Working(app, f)[a]
            /\ \A a \in (DOMAIN c.working) \ DOMAIN Working(app, f) : z[a] = c.working[a]
        BY <2>1 DEF Added
      <3>2. ASSUME NEW g \in done, NEW a \in DOMAIN Working(app, g) PROVE a \notin DOMAIN Working(app, f)
        BY <1>0, <1>8, WorkingAreActivities DEF ActivitiesDiffer
      <3>. QED BY <2>3, <3>1, <3>2 DEF Worked
    <2>. QED BY <2>3, <2>6, <2>7
  <1>. QED BY <1>6, <1>7, <1>8

Resolved(app, c, done) ==
  Implemented(app, c, done) /\ Timed(app, c, done) /\ Provided(app, c, done) /\ Worked(app, c, done)

LEMMA FeatureResolved ==
  ASSUME NEW app, IsApplication(app), NEW c, NEW done \in SUBSET FeaturesOf(app), NEW f \in FeaturesOf(app) \ done, NEW d,
         IsCatalog(c), c.failure = "none", Queued(app, c, Owners(app)), Overridden(app, c), Resolved(app, c, done),
         d = ResolveFeature(app, c, f)
  PROVE  \/ /\ IsCatalog(d) /\ d.failure = "none" /\ Resolved(app, d, done \cup {f})
            /\ NamedFit(app, f) /\ QueuesFit(app, f) /\ KeysFit(app, f)
            /\ SameNames(d, c) /\ SameQueues(d, c)
         \/ /\ d.failure # "none"
            /\ ~(/\ WorkflowsDiffer(app, done \cup {f}) /\ SchedulesDiffer(app, done \cup {f})
                 /\ ActivitiesDiffer(app, done \cup {f}) /\ IdentitiesDiffer(app)
                 /\ NamedFit(app, f) /\ QueuesFit(app, f) /\ KeysFit(app, f))
  <1>. PICK required, e : required = RequireQueues(app, c, f, NamedQueues(app, f)) /\ e = RegisterWorkflows(app, c, f)
    OBVIOUS
  <1>1. d = IF required # "none" THEN Fail(c, required) ELSE IF e.failure # "none" THEN e ELSE RegisterActivities(app, e, f)
    BY DEF ResolveFeature, NamedQueues
  <1>2. required # "none" <=> ~NamedFit(app, f)
    BY RequiredMayBeUsed DEF NamedFit
  <1>3. ASSUME ~NamedFit(app, f) PROVE d.failure # "none"
    <2>1. d = Fail(c, required) /\ required # "none"
      BY <1>1, <1>2, <1>3
    <2>. QED BY <2>1, FailIs
  <1>4. \/ /\ IsCatalog(e) /\ e.failure = "none" /\ Implemented(app, e, done \cup {f}) /\ Timed(app, e, done \cup {f})
           /\ SameNames(e, c) /\ SameQueues(e, c) /\ SameActivities(e, c)
        \/ e.failure # "none" /\ ~(WorkflowsDiffer(app, done \cup {f}) /\ SchedulesDiffer(app, done \cup {f}))
    BY WorkflowsRegistered DEF Resolved
  <1>5. ASSUME NamedFit(app, f), e.failure # "none" PROVE d.failure # "none"
    BY <1>1, <1>2, <1>5
  <1>6. ASSUME NamedFit(app, f), e.failure = "none"
        PROVE  \/ /\ IsCatalog(d) /\ d.failure = "none" /\ Resolved(app, d, done \cup {f})
                  /\ QueuesFit(app, f) /\ KeysFit(app, f) /\ SameNames(d, c) /\ SameQueues(d, c)
               \/ /\ d.failure # "none"
                  /\ ~(ActivitiesDiffer(app, done \cup {f}) /\ QueuesFit(app, f) /\ KeysFit(app, f) /\ IdentitiesDiffer(app))
    <2>1. d = RegisterActivities(app, e, f)
      BY <1>1, <1>2, <1>6
    <2>2. /\ IsCatalog(e) /\ Implemented(app, e, done \cup {f}) /\ Timed(app, e, done \cup {f})
          /\ SameNames(e, c) /\ SameQueues(e, c) /\ SameActivities(e, c)
      BY <1>4, <1>6
    <2>3. Queued(app, e, Owners(app)) /\ Overridden(app, e) /\ Provided(app, e, done) /\ Worked(app, e, done)
      BY <2>2, SamePartsHold DEF Resolved
    <2>4. \/ /\ IsCatalog(d) /\ d.failure = "none" /\ Provided(app, d, done \cup {f}) /\ Worked(app, d, done \cup {f})
             /\ QueuesFit(app, f) /\ KeysFit(app, f)
             /\ SameNames(d, e) /\ SameQueues(d, e) /\ SameWorkflows(d, e)
          \/ /\ d.failure # "none"
             /\ ~(ActivitiesDiffer(app, done \cup {f}) /\ QueuesFit(app, f) /\ KeysFit(app, f) /\ IdentitiesDiffer(app))
      BY <1>6, <2>1, <2>2, <2>3, ActivitiesRegistered
    <2>5. ASSUME SameWorkflows(d, e) PROVE Implemented(app, d, done \cup {f}) /\ Timed(app, d, done \cup {f})
      BY <2>2, <2>5, SamePartsHold DEF SameWorkflows
    <2>6. ASSUME SameNames(d, e), SameQueues(d, e) PROVE SameNames(d, c) /\ SameQueues(d, c)
      BY <2>2, <2>6 DEF SameNames, SameQueues
    <2>. QED BY <2>4, <2>5, <2>6 DEF Resolved
  <1>. QED BY <1>3, <1>4, <1>5, <1>6

LEMMA IdentitiesChecked ==
  ASSUME NEW app, IsApplication(app), NEW c, NEW d, IsCatalog(c), c.failure = "none", Provided(app, c, FeaturesOf(app)),
         d = CheckIdentities(app, c)
  PROVE  \/ d = c /\ IdentitiesDiffer(app)
         \/ d.failure # "none" /\ ~IdentitiesDiffer(app)
  <1>1. (\E a, b \in DOMAIN c.activity : a # b /\ app.identity[a] = app.identity[b]) <=> ~IdentitiesDiffer(app)
    BY DEF Provided, IdentitiesDiffer
  <1>2. ASSUME ~IdentitiesDiffer(app) PROVE d.failure # "none"
    <2>1. d = Fail(c, "DUPLICATE_ACTIVITY")
      BY <1>1, <1>2 DEF CheckIdentities
    <2>. QED BY <2>1, FailIs
  <1>. QED BY <1>1, <1>2 DEF CheckIdentities

LEMMA ActivitiesAreSeen ==
  ASSUME NEW app, IsApplication(app), NEW c, Provided(app, c, FeaturesOf(app)), NEW f \in FeaturesOf(app), NEW a
  PROVE  /\ SeesActivity(app, c, f, a) <=> c.activity[a] \in {f} \cup Reached(app, a, f)
         /\ MayUse(app, Contracts(app), f, a) <=> (a \in DOMAIN c.activity /\ SeesActivity(app, c, f, a))
  <1>1. SeesActivity(app, c, f, a) <=> c.activity[a] \in {f} \cup Reached(app, a, f)
    BY SearchFindsWhatIsReached DEF SeesActivity
  <1>2. ASSUME a \notin DOMAIN c.activity PROVE OwnersOf(Contracts(app), a) = {}
    BY <1>2, ApplicationIs DEF Provided, OwnersOf
  <1>3. ASSUME a \in DOMAIN c.activity PROVE OwnersOf(Contracts(app), a) = {c.activity[a]} /\ c.activity[a] # Root
    BY <1>3, ApplicationIs DEF Provided, ActivitiesDiffer, OwnersOf
  <1>. QED BY <1>1, <1>2, <1>3 DEF MayUse

LEMMA ExportsChecked ==
  ASSUME NEW app, IsApplication(app), NEW c, NEW f \in FeaturesOf(app), NEW d, IsCatalog(c), c.failure = "none",
         Queued(app, c, Owners(app)), Provided(app, c, FeaturesOf(app)), d = CheckExports(app, c, f)
  PROVE  \/ d = c /\ ExportedQueuesFit(app, f) /\ ExportedActivitiesFit(app, f)
         \/ d.failure # "none" /\ ~(ExportedQueuesFit(app, f) /\ ExportedActivitiesFit(app, f))
  <1>. PICK queues, activities : /\ queues = RequireQueues(app, c, f, app.exports[f] \ DOMAIN app.runsOn)
                                 /\ activities = app.exports[f] \cap DOMAIN app.runsOn
    OBVIOUS
  <1>1. d = IF queues # "none" THEN Fail(c, queues)
            ELSE IF \E a \in activities : a \notin DOMAIN c.activity \/ ~SeesActivity(app, c, f, a)
            THEN Fail(c, "INVALID_FEATURE_EXPORT") ELSE c
    BY DEF CheckExports
  <1>2. queues # "none" <=> ~ExportedQueuesFit(app, f)
    BY RequiredMayBeUsed DEF ExportedQueuesFit
  <1>3. (\E a \in activities : a \notin DOMAIN c.activity \/ ~SeesActivity(app, c, f, a)) <=> ~ExportedActivitiesFit(app, f)
    BY ActivitiesAreSeen DEF ExportedActivitiesFit
  <1>4. ASSUME ~(ExportedQueuesFit(app, f) /\ ExportedActivitiesFit(app, f)) PROVE d.failure # "none"
    <2>1. (d = Fail(c, queues) /\ queues # "none") \/ d = Fail(c, "INVALID_FEATURE_EXPORT")
      BY <1>1, <1>2, <1>3, <1>4
    <2>2. \A code : Fail(c, code).failure = code
      BY FailIs
    <2>. QED BY <2>1, <2>2
  <1>. QED BY <1>1, <1>2, <1>3, <1>4

-----------------------------------------------------------------------------
(* The stages of the discovery.                                              *)

Holds(stage, app, c, done) ==
  LET features == FeaturesOf(app) IN
  /\ IsCatalog(c) /\ c.failure = "none"
  /\ stage = "contracts" =>
       Called(app, c, done) /\ Named(app, c, {}) /\ Queued(app, c, {}) /\ Resolved(app, c, {})
  /\ stage = "names" =>
       Called(app, c, features) /\ Named(app, c, done) /\ Queued(app, c, {}) /\ Resolved(app, c, {})
  /\ stage = "queues" =>
       /\ Called(app, c, features) /\ Named(app, c, features)
       /\ Queued(app, c, done \cup {Root}) /\ Limited(app, c) /\ Resolved(app, c, {})
  /\ stage = "feature" =>
       /\ Called(app, c, features) /\ Named(app, c, features)
       /\ Queued(app, c, Owners(app)) /\ Overridden(app, c) /\ RootFits(app)
       /\ Resolved(app, c, done) /\ Used(app, done)
  /\ stage = "exports" =>
       /\ Called(app, c, features) /\ Named(app, c, features)
       /\ Queued(app, c, Owners(app)) /\ Overridden(app, c) /\ RootFits(app)
       /\ Resolved(app, c, features) /\ Used(app, features)
       /\ IdentitiesDiffer(app) /\ Exported(app, done)
\* The catalog so far, or a failure of an application that is not acceptable.
Sound(stage, app, c, done) == Holds(stage, app, c, done) \/ (c.failure # "none" /\ ~Acceptable(app))
Stages == {"contracts", "names", "queues", "feature", "exports"}

LEMMA AcceptedParts ==
  ASSUME NEW app, IsApplication(app), Acceptable(app), NEW done \in SUBSET FeaturesOf(app)
  PROVE  /\ CallsDiffer(app, done) /\ NamesDiffer(app, done) /\ QueuesDiffer(app, done \cup {Root})
         /\ WorkflowsDiffer(app, done) /\ SchedulesDiffer(app, done) /\ ActivitiesDiffer(app, done)
         /\ IdentitiesDiffer(app) /\ OverridesDiffer(app) /\ OverridesFit(app) /\ RootFits(app)
         /\ \A f \in FeaturesOf(app) : FeatureFits(app, f)
  <1>1. WholeFits(app) /\ \A f \in FeaturesOf(app) : FeatureFits(app, f)
    BY AcceptableIs
  <1>2. CallsDiffer(app, done)
    BY <1>1 DEF WholeFits, CallsDiffer
  <1>3. NamesDiffer(app, done)
    BY <1>1 DEF WholeFits, NamesDiffer
  <1>4. QueuesDiffer(app, done \cup {Root})
    BY <1>1 DEF WholeFits, QueuesDiffer, Owners
  <1>5. WorkflowsDiffer(app, done)
    BY <1>1 DEF WholeFits, WorkflowsDiffer
  <1>6. SchedulesDiffer(app, done)
    BY <1>1 DEF WholeFits, SchedulesDiffer
  <1>7. ActivitiesDiffer(app, done)
    BY <1>1 DEF WholeFits, ActivitiesDiffer
  <1>. QED BY <1>1, <1>2, <1>3, <1>4, <1>5, <1>6, <1>7 DEF WholeFits

LEMMA VisitIsSound ==
  ASSUME NEW app, IsApplication(app), NEW stage \in Stages, NEW done \in SUBSET FeaturesOf(app),
         NEW f \in FeaturesOf(app) \ done, NEW c, Holds(stage, app, c, done), NEW d, d = Visit(stage, app, c, f)
  PROVE  Sound(stage, app, d, done \cup {f})
  <1>0. /\ done \cup {f} \in SUBSET FeaturesOf(app) /\ f # Root
        /\ IsCatalog(c) /\ c.failure = "none"
    BY ApplicationIs DEF Holds
  <1>1. ASSUME stage = "contracts" PROVE Sound(stage, app, d, done \cup {f})
    <2>1. d = RegisterContracts(app, c, f)
      BY <1>1 DEF Visit
    <2>2. Called(app, c, done) /\ Named(app, c, {}) /\ Queued(app, c, {}) /\ Resolved(app, c, {})
      BY <1>1 DEF Holds
    <2>3. \/ /\ IsCatalog(d) /\ d.failure = "none" /\ Called(app, d, done \cup {f}) /\ d.names = c.names
             /\ SameQueues(d, c) /\ SameWorkflows(d, c) /\ SameActivities(d, c)
          \/ d.failure # "none" /\ ~CallsDiffer(app, done \cup {f})
      BY <1>0, <2>1, <2>2, ContractsRegistered
    <2>4. ASSUME d.names = c.names, SameQueues(d, c), SameWorkflows(d, c), SameActivities(d, c)
          PROVE  Named(app, d, {}) /\ Queued(app, d, {}) /\ Resolved(app, d, {})
      BY <2>2, <2>4, SamePartsHold DEF SameWorkflows, Resolved
    <2>. QED BY <1>0, <1>1, <2>3, <2>4, AcceptedParts DEF Sound, Holds
  <1>2. ASSUME stage = "names" PROVE Sound(stage, app, d, done \cup {f})
    <2>1. d = NameFeature(app, c, f)
      BY <1>2 DEF Visit
    <2>2. Called(app, c, FeaturesOf(app)) /\ Named(app, c, done) /\ Queued(app, c, {}) /\ Resolved(app, c, {})
      BY <1>2 DEF Holds
    <2>3. \/ /\ IsCatalog(d) /\ d.failure = "none" /\ Named(app, d, done \cup {f}) /\ d.contracts = c.contracts
             /\ SameQueues(d, c) /\ SameWorkflows(d, c) /\ SameActivities(d, c)
          \/ d.failure # "none" /\ ~NamesDiffer(app, done \cup {f})
      BY <1>0, <2>1, <2>2, FeatureNamed
    <2>4. ASSUME d.contracts = c.contracts, SameQueues(d, c), SameWorkflows(d, c), SameActivities(d, c)
          PROVE  Called(app, d, FeaturesOf(app)) /\ Queued(app, d, {}) /\ Resolved(app, d, {})
      BY <2>2, <2>4, SamePartsHold DEF SameWorkflows, Resolved
    <2>. QED BY <1>0, <1>2, <2>3, <2>4, AcceptedParts DEF Sound, Holds
  <1>3. ASSUME stage = "queues" PROVE Sound(stage, app, d, done \cup {f})
    <2>1. d = RegisterQueues(app, c, OwnedQueues(app)[f], f)
      BY <1>3, ApplicationIs DEF Visit
    <2>2. /\ Called(app, c, FeaturesOf(app)) /\ Named(app, c, FeaturesOf(app))
          /\ Queued(app, c, done \cup {Root}) /\ Limited(app, c) /\ Resolved(app, c, {})
      BY <1>3 DEF Holds
    <2>3. PICK owners : owners = done \cup {Root}
      OBVIOUS
    <2>4. f \notin owners /\ owners \cup {f} = (done \cup {f}) \cup {Root} /\ Queued(app, c, owners)
      BY <1>0, <2>2, <2>3
    <2>5. \/ /\ IsCatalog(d) /\ d.failure = "none" /\ Queued(app, d, owners \cup {f}) /\ Limited(app, d)
             /\ SameNames(d, c) /\ SameWorkflows(d, c) /\ SameActivities(d, c)
          \/ d.failure # "none" /\ ~QueuesDiffer(app, owners \cup {f})
      BY <1>0, <2>1, <2>2, <2>4, QueuesRegistered
    <2>6. ASSUME SameNames(d, c), SameWorkflows(d, c), SameActivities(d, c)
          PROVE  Called(app, d, FeaturesOf(app)) /\ Named(app, d, FeaturesOf(app)) /\ Resolved(app, d, {})
      BY <2>2, <2>6, SamePartsHold DEF SameNames, SameWorkflows, Resolved
    <2>7. Acceptable(app) => QueuesDiffer(app, owners \cup {f})
      BY <1>0, <2>4, AcceptedParts
    <2>. QED BY <1>3, <2>4, <2>5, <2>6, <2>7 DEF Sound, Holds
  <1>4. ASSUME stage = "feature" PROVE Sound(stage, app, d, done \cup {f})
    <2>1. d = ResolveFeature(app, c, f)
      BY <1>4 DEF Visit
    <2>2. /\ Called(app, c, FeaturesOf(app)) /\ Named(app, c, FeaturesOf(app))
          /\ Queued(app, c, Owners(app)) /\ Overridden(app, c) /\ RootFits(app)
          /\ Resolved(app, c, done) /\ Used(app, done)
      BY <1>4 DEF Holds
    <2>3. \/ /\ IsCatalog(d) /\ d.failure = "none" /\ Resolved(app, d, done \cup {f})
             /\ NamedFit(app, f) /\ QueuesFit(app, f) /\ KeysFit(app, f)
             /\ SameNames(d, c) /\ SameQueues(d, c)
          \/ /\ d.failure # "none"
             /\ ~(/\ WorkflowsDiffer(app, done \cup {f}) /\ SchedulesDiffer(app, done \cup {f})
                  /\ ActivitiesDiffer(app, done \cup {f}) /\ IdentitiesDiffer(app)
                  /\ NamedFit(app, f) /\ QueuesFit(app, f) /\ KeysFit(app, f))
      BY <1>0, <2>1, <2>2, FeatureResolved
    <2>4. ASSUME SameNames(d, c), SameQueues(d, c)
          PROVE  Called(app, d, FeaturesOf(app)) /\ Named(app, d, FeaturesOf(app)) /\ Queued(app, d, Owners(app))
                 /\ Overridden(app, d)
      BY <2>2, <2>4, SamePartsHold DEF SameNames
    <2>5. ASSUME NamedFit(app, f), QueuesFit(app, f), KeysFit(app, f) PROVE Used(app, done \cup {f})
      BY <2>2, <2>5 DEF Used
    <2>6. ASSUME Acceptable(app)
          PROVE  /\ WorkflowsDiffer(app, done \cup {f}) /\ SchedulesDiffer(app, done \cup {f})
                 /\ ActivitiesDiffer(app, done \cup {f}) /\ IdentitiesDiffer(app)
                 /\ NamedFit(app, f) /\ QueuesFit(app, f) /\ KeysFit(app, f)
      BY <1>0, <2>6, AcceptedParts DEF FeatureFits
    <2>. QED BY <1>4, <2>2, <2>3, <2>4, <2>5, <2>6 DEF Sound, Holds
  <1>5. ASSUME stage = "exports" PROVE Sound(stage, app, d, done \cup {f})
    <2>1. d = CheckExports(app, c, f)
      BY <1>5 DEF Visit
    <2>2. Queued(app, c, Owners(app)) /\ Resolved(app, c, FeaturesOf(app)) /\ Exported(app, done)
      BY <1>5 DEF Holds
    <2>3. \/ d = c /\ ExportedQueuesFit(app, f) /\ ExportedActivitiesFit(app, f)
          \/ d.failure # "none" /\ ~(ExportedQueuesFit(app, f) /\ ExportedActivitiesFit(app, f))
      BY <1>0, <2>1, <2>2, ExportsChecked DEF Resolved
    <2>4. ASSUME ExportedQueuesFit(app, f), ExportedActivitiesFit(app, f) PROVE Exported(app, done \cup {f})
      BY <2>2, <2>4 DEF Exported
    <2>5. Acceptable(app) => ExportedQueuesFit(app, f) /\ ExportedActivitiesFit(app, f)
      BY <1>0, AcceptedParts DEF FeatureFits
    <2>. QED BY <1>5, <2>3, <2>4, <2>5 DEF Sound, Holds
  <1>. QED BY <1>1, <1>2, <1>3, <1>4, <1>5 DEF Stages

LEMMA EachIsSound ==
  ASSUME NEW app, IsApplication(app), NEW order, IsOrder(order, app), NEW stage \in Stages, NEW c,
         Sound(stage, app, c, {})
  PROVE  Sound(stage, app, Each(stage, app, c, order), FeaturesOf(app))
  <1>. PICK m : m = Len(order)
    OBVIOUS
  <1>1. m \in Nat /\ DOMAIN order = 1..m /\ \A i \in 1..m : order[i] \in FeaturesOf(app)
    BY DEF IsOrder
  <1>2. PICK after : IsRun(stage, app, c, order, m, after) /\ Each(stage, app, c, order) = after[m]
    BY <1>1, EachIsRun
  <1>. DEFINE Done(n) == {order[i] : i \in 1..n}
              bad == {n \in Nat : n <= m /\ ~Sound(stage, app, after[n], Done(n))}
  <1>3. Sound(stage, app, after[0], Done(0))
    <2>1. Done(0) = {}
      OBVIOUS
    <2>. QED BY <1>2, <2>1 DEF IsRun
  <1>4. ASSUME NEW n \in 1..m, Sound(stage, app, after[n - 1], Done(n - 1)) PROVE Sound(stage, app, after[n], Done(n))
    <2>1. PICK done, f : done = Done(n - 1) /\ f = order[n]
      OBVIOUS
    <2>2. done \in SUBSET FeaturesOf(app) /\ f \in FeaturesOf(app) \ done
      <3>1. \A i \in 1..(n - 1) : i \in 1..m /\ i # n
        BY <1>1
      <3>. QED BY <1>1, <2>1, <3>1 DEF IsOrder
    <2>3. Done(n) = done \cup {f}
      <3>1. \A i : i \in 1..n <=> i \in 1..(n - 1) \/ i = n
        BY <1>1
      <3>. QED BY <2>1, <3>1
    <2>4. after[n] = Unless(after[n - 1], Visit(stage, app, after[n - 1], f))
      BY <1>2, <2>1 DEF IsRun, Step
    <2>5. ASSUME after[n - 1].failure # "none" PROVE Sound(stage, app, after[n], Done(n))
      <3>1. after[n] = after[n - 1]
        BY <2>4, <2>5 DEF Unless
      <3>2. ~Acceptable(app)
        BY <1>4, <2>5 DEF Sound, Holds
      <3>. QED BY <2>5, <3>1, <3>2 DEF Sound
    <2>6. ASSUME after[n - 1].failure = "none" PROVE Sound(stage, app, after[n], Done(n))
      <3>1. after[n] = Visit(stage, app, after[n - 1], f)
        BY <2>4, <2>6 DEF Unless
      <3>2. Holds(stage, app, after[n - 1], done)
        BY <1>4, <2>1, <2>6 DEF Sound
      <3>3. Sound(stage, app, after[n], done \cup {f})
        BY <2>2, <3>1, <3>2, VisitIsSound
      <3>. QED BY <2>3, <3>3
    <2>. QED BY <2>5, <2>6
  <1>. HIDE DEF Done
  <1>5. ASSUME bad # {} PROVE FALSE
    <2>1. PICK n \in bad : \A k \in bad : n <= k
      BY <1>5, LeastOf
    <2>2. n \in 1..m /\ n - 1 \in Nat /\ n - 1 <= m /\ ~(n <= n - 1)
      BY <1>1, <1>3, <2>1
    <2>3. Sound(stage, app, after[n - 1], Done(n - 1))
      BY <2>1, <2>2
    <2>. QED BY <1>4, <2>1, <2>2, <2>3
  <1>6. Sound(stage, app, after[m], Done(m))
    BY <1>1, <1>5
  <1>7. Done(m) = FeaturesOf(app)
    BY <1>1 DEF IsOrder, Done
  <1>. QED BY <1>2, <1>6, <1>7

LEMMA NothingHolds == ASSUME NEW app PROVE Holds("contracts", app, EmptyCatalog, {})
  <1>. PICK c : c = EmptyCatalog
    OBVIOUS
  <1>1. /\ c.failure = "none" /\ c.contracts = {} /\ c.names = {} /\ DOMAIN c.queue = {} /\ DOMAIN c.perKey = {}
        /\ DOMAIN c.workflow = {} /\ c.schedules = {} /\ DOMAIN c.activity = {} /\ c.handled = {}
        /\ c.running = {} /\ c.timed = {} /\ DOMAIN c.working = {}
    BY DEF EmptyCatalog
  <1>2. IsCatalog(c)
    BY DEF EmptyCatalog, IsCatalog
  <1>3. Called(app, c, {}) /\ Named(app, c, {}) /\ Queued(app, c, {})
    BY <1>1 DEF Called, Named, Queued, CallsDiffer, NamesDiffer, QueuesDiffer
  <1>4. Implemented(app, c, {}) /\ Timed(app, c, {})
    BY <1>1 DEF Implemented, Timed, WorkflowsDiffer, SchedulesDiffer
  <1>5. Provided(app, c, {}) /\ Worked(app, c, {})
    BY <1>1 DEF Provided, Worked, ActivitiesDiffer
  <1>. QED BY <1>1, <1>2, <1>3, <1>4, <1>5 DEF Holds, Resolved

LEMMA RootedIsSound ==
  ASSUME NEW app, IsApplication(app), NEW order, IsOrder(order, app)
  PROVE  Sound("queues", app, Rooted(app, order), {})
  <1>. PICK a, b, c : /\ a = Each("contracts", app, EmptyCatalog, order) /\ b = Each("names", app, a, order)
                      /\ c = RegisterQueues(app, b, app.rootQueues, Root)
    OBVIOUS
  <1>1. Sound("contracts", app, a, FeaturesOf(app))
    BY NothingHolds, EachIsSound DEF Sound, Stages
  <1>2. Sound("names", app, a, {})
    BY <1>1 DEF Sound, Holds
  <1>3. Sound("names", app, b, FeaturesOf(app))
    BY <1>2, EachIsSound DEF Stages
  <1>4. Rooted(app, order) = Unless(b, c)
    BY DEF Rooted, RegisterRoot
  <1>5. ASSUME b.failure # "none" PROVE Sound("queues", app, Rooted(app, order), {})
    <2>1. Rooted(app, order) = b /\ ~Acceptable(app)
      BY <1>3, <1>4, <1>5 DEF Unless, Sound, Holds
    <2>. QED BY <1>5, <2>1 DEF Sound
  <1>6. ASSUME b.failure = "none" PROVE Sound("queues", app, Rooted(app, order), {})
    <2>1. Rooted(app, order) = c
      BY <1>4, <1>6 DEF Unless
    <2>2. /\ IsCatalog(b) /\ Called(app, b, FeaturesOf(app)) /\ Named(app, b, FeaturesOf(app))
          /\ Queued(app, b, {}) /\ Resolved(app, b, {})
      BY <1>3, <1>6 DEF Sound, Holds
    <2>3. Limited(app, b)
      BY <2>2 DEF Limited, Queued
    <2>4. c = RegisterQueues(app, b, OwnedQueues(app)[Root], Root)
      BY ApplicationIs
    <2>5. QueuesDiffer(app, {} \cup {Root})
      BY DEF QueuesDiffer
    <2>6. PICK none : none = {}
      OBVIOUS
    <2>7. /\ IsCatalog(c) /\ c.failure = "none" /\ Queued(app, c, none \cup {Root}) /\ Limited(app, c)
          /\ SameNames(c, b) /\ SameWorkflows(c, b) /\ SameActivities(c, b)
      <3>1. Root \notin none /\ Queued(app, b, none) /\ QueuesDiffer(app, none \cup {Root})
        BY <2>2, <2>5, <2>6
      <3>. QED BY <1>6, <2>2, <2>3, <2>4, <3>1, QueuesRegistered
    <2>8. Called(app, c, FeaturesOf(app)) /\ Named(app, c, FeaturesOf(app)) /\ Resolved(app, c, {})
      BY <2>2, <2>7, SamePartsHold DEF SameNames, SameWorkflows, Resolved
    <2>. QED BY <2>1, <2>6, <2>7, <2>8 DEF Sound, Holds
  <1>. QED BY <1>5, <1>6

LEMMA OwnedIsSound ==
  ASSUME NEW app, IsApplication(app), NEW a, Sound("queues", app, a, FeaturesOf(app)), NEW c, c = Settle(app, a)
  PROVE  Sound("feature", app, c, {})
  <1>. PICK b : b = Unless(a, Override(app, a))
    OBVIOUS
  <1>0. c = Unless(b, CheckRoot(app, b))
    BY DEF Settle
  <1>1. Acceptable(app) => OverridesDiffer(app) /\ OverridesFit(app) /\ RootFits(app)
    <2>1. {} \in SUBSET FeaturesOf(app)
      OBVIOUS
    <2>. QED BY <2>1, AcceptedParts
  <1>2. ASSUME a.failure # "none" PROVE Sound("feature", app, c, {})
    <2>1. c = a /\ ~Acceptable(app)
      BY <1>0, <1>2 DEF Unless, Sound, Holds
    <2>. QED BY <1>2, <2>1 DEF Sound
  <1>3. ASSUME a.failure = "none" PROVE Sound("feature", app, c, {})
    <2>1. /\ IsCatalog(a) /\ Called(app, a, FeaturesOf(app)) /\ Named(app, a, FeaturesOf(app))
          /\ Queued(app, a, Owners(app)) /\ Limited(app, a) /\ Resolved(app, a, {})
      BY <1>3 DEF Sound, Holds, Owners
    <2>2. b = Override(app, a)
      BY <1>3 DEF Unless
    <2>3. \/ /\ IsCatalog(b) /\ b.failure = "none" /\ Queued(app, b, Owners(app)) /\ Overridden(app, b)
             /\ SameNames(b, a) /\ SameWorkflows(b, a) /\ SameActivities(b, a)
          \/ b.failure # "none" /\ ~(OverridesDiffer(app) /\ OverridesFit(app))
      BY <1>3, <2>1, <2>2, OverridesRegistered
    <2>4. ASSUME b.failure # "none" PROVE Sound("feature", app, c, {})
      <3>1. c = b
        BY <1>0, <2>4 DEF Unless
      <3>. QED BY <1>1, <2>3, <2>4, <3>1 DEF Sound
    <2>5. ASSUME b.failure = "none" PROVE Sound("feature", app, c, {})
      <3>1. c = CheckRoot(app, b)
        BY <1>0, <2>5 DEF Unless
      <3>2. Called(app, b, FeaturesOf(app)) /\ Named(app, b, FeaturesOf(app)) /\ Resolved(app, b, {})
        BY <2>1, <2>3, <2>5, SamePartsHold DEF SameNames, SameWorkflows, Resolved
      <3>3. (c = b /\ RootFits(app)) \/ (c.failure # "none" /\ ~RootFits(app))
        BY <2>3, <2>5, <3>1, RootChecked
      <3>4. Used(app, {})
        BY DEF Used
      <3>. QED BY <1>1, <2>3, <2>5, <3>2, <3>3, <3>4 DEF Sound, Holds
    <2>. QED BY <2>4, <2>5
  <1>. QED BY <1>2, <1>3

\* A discovery accepts what is acceptable, in whatever order the features come,
\* and the catalog is then as the parts say.
LEMMA DiscoveryIsSound ==
  ASSUME NEW app, IsApplication(app), NEW order, IsOrder(order, app)
  PROVE  /\ Discover(app, order).failure = "none" => Acceptable(app)
         /\ Sound("exports", app, Discover(app, order), FeaturesOf(app))
  <1>. PICK a, c, d, e, g :
         /\ a = Each("queues", app, Rooted(app, order), order) /\ c = Settle(app, a)
         /\ d = Each("feature", app, c, order) /\ e = Identify(app, d)
         /\ g = Each("exports", app, e, order)
    OBVIOUS
  <1>1. Discover(app, order) = g
    BY DEF Discover
  <1>2. Sound("queues", app, a, FeaturesOf(app))
    BY RootedIsSound, EachIsSound DEF Stages
  <1>3. Sound("feature", app, c, {})
    BY <1>2, OwnedIsSound
  <1>4. Sound("feature", app, d, FeaturesOf(app))
    BY <1>3, EachIsSound DEF Stages
  <1>5. Sound("exports", app, e, {})
    <2>1. ASSUME d.failure # "none" PROVE Sound("exports", app, e, {})
      <3>1. e = d /\ ~Acceptable(app)
        BY <1>4, <2>1 DEF Identify, Unless, Sound, Holds
      <3>. QED BY <2>1, <3>1 DEF Sound
    <2>2. ASSUME d.failure = "none" PROVE Sound("exports", app, e, {})
      <3>1. Holds("feature", app, d, FeaturesOf(app)) /\ e = CheckIdentities(app, d)
        BY <1>4, <2>2 DEF Identify, Unless, Sound
      <3>2. (e = d /\ IdentitiesDiffer(app)) \/ (e.failure # "none" /\ ~IdentitiesDiffer(app))
        BY <3>1, IdentitiesChecked DEF Holds, Resolved
      <3>3. Acceptable(app) => IdentitiesDiffer(app)
        BY AcceptableIs DEF WholeFits
      <3>4. Exported(app, {})
        BY DEF Exported
      <3>. QED BY <3>1, <3>2, <3>3, <3>4 DEF Sound, Holds
    <2>. QED BY <2>1, <2>2
  <1>6. Sound("exports", app, g, FeaturesOf(app))
    BY <1>5, EachIsSound DEF Stages
  <1>7. ASSUME g.failure = "none" PROVE Acceptable(app)
    <2>1. Holds("exports", app, g, FeaturesOf(app))
      BY <1>6, <1>7 DEF Sound
    <2>2. WholeFits(app)
      BY <2>1 DEF Holds, WholeFits, Called, Named, Queued, Overridden, Resolved, Implemented, Timed, Provided
    <2>3. \A f \in FeaturesOf(app) : FeatureFits(app, f)
      BY <2>1 DEF Holds, FeatureFits, Used, Exported
    <2>. QED BY <2>2, <2>3, AcceptableIs
  <1>. QED BY <1>1, <1>6, <1>7

LEMMA WhatIsAllowedIsServed ==
  ASSUME NEW app, IsApplication(app), NEW c, Holds("exports", app, c, FeaturesOf(app))
  PROVE  ServesWhatIsAllowed(app, c)
  <1>. DEFINE Allowing(kind) == {f \in FeaturesOf(app) : \A level \in {Root, f} : kind \notin app.off[level]}
              On(f, a) == Said(<<app.defaultQueue[Root], app.defaultQueue[f]>> \o app.runsOn[a], None)
              Names(f) == {q \in DOMAIN c.queue : \A level \in {Root, f} : app.only[level] # None => q \in app.only[level]}
  <1>0. /\ Queued(app, c, Owners(app)) /\ Used(app, FeaturesOf(app)) /\ Implemented(app, c, FeaturesOf(app))
        /\ Timed(app, c, FeaturesOf(app)) /\ Provided(app, c, FeaturesOf(app)) /\ Worked(app, c, FeaturesOf(app))
    BY DEF Holds, Resolved
  <1>1. ASSUME NEW kind, NEW f \in FeaturesOf(app) PROVE Enabled(app, f, kind) <=> f \in Allowing(kind)
    BY DEF Enabled
  <1>2. ASSUME NEW f \in FeaturesOf(app), NEW a \in app.activities[f] PROVE On(f, a) = QueueOf(app, f, a)
    <2>1. a \in DOMAIN app.runsOn
      BY DEF IsApplication
    <2>2. app.runsOn[a] = <<app.runsOn[a][1], app.runsOn[a][2]>>
      BY <2>1 DEF IsApplication
    <2>. QED BY <2>2, QueueIs
  <1>3. ASSUME NEW f \in FeaturesOf(app), NEW a \in app.activities[f] PROVE QueueOf(app, f, a) \in DOMAIN c.queue
    <2>1. MayUse(app, OwnedQueues(app), f, QueueOf(app, f, a))
      BY <1>0, ApplicationIs DEF Used, QueuesFit, QueuesOf
    <2>2. OwnersOf(OwnedQueues(app), QueueOf(app, f, a)) # {}
      BY <2>1 DEF MayUse
    <2>. QED BY <1>0, <2>2, OwnersAre, QueueOwnersAre DEF HasOwner
  <1>4. ASSUME NEW f \in FeaturesOf(app), NEW a
        PROVE  a \in DOMAIN Working(app, f) <=>
                 a \in app.activities[f] /\ f \in Allowing("activities") /\ QueueOf(app, f, a) \in Names(f)
    <2>1. a \in DOMAIN Working(app, f) <=>
            /\ a \in app.activities[f] /\ Enabled(app, f, "activities")
            /\ Selected(app.only[Root], QueueOf(app, f, a)) /\ Selected(app.only[f], QueueOf(app, f, a))
      BY DEF Working
    <2>2. ASSUME a \in app.activities[f]
          PROVE  QueueOf(app, f, a) \in Names(f) <=>
                   Selected(app.only[Root], QueueOf(app, f, a)) /\ Selected(app.only[f], QueueOf(app, f, a))
      BY <1>3, <2>2 DEF Selected
    <2>. HIDE DEF Names, Allowing
    <2>. QED BY <1>1, <2>1, <2>2
  <1>5. Workers(c) = UNION {{On(f, a) : a \in app.activities[f]} \cap Names(f) : f \in Allowing("activities")}
    <2>. DEFINE all == UNION {{On(f, a) : a \in app.activities[f]} \cap Names(f) : f \in Allowing("activities")}
    <2>1. ASSUME NEW q
          PROVE  q \in all <=> \E f \in FeaturesOf(app) : \E a \in app.activities[f] :
                                 f \in Allowing("activities") /\ q = QueueOf(app, f, a) /\ q \in Names(f)
      <3>1. q \in all <=> \E f \in Allowing("activities") : \E a \in app.activities[f] : q = On(f, a) /\ q \in Names(f)
        <4>. HIDE DEF Allowing, On, Names
        <4>. QED OBVIOUS
      <3>2. \A f \in Allowing("activities") : f \in FeaturesOf(app)
        OBVIOUS
      <3>. HIDE DEF Allowing, On, Names, all
      <3>. QED BY <1>2, <3>1, <3>2
    <2>2. ASSUME NEW q
          PROVE  q \in Workers(c) <=> \E f \in FeaturesOf(app) : \E a \in DOMAIN Working(app, f) : q = QueueOf(app, f, a)
      <3>1. ASSUME NEW a \in DOMAIN c.working, c.working[a] = q
            PROVE  \E f \in FeaturesOf(app) : \E b \in DOMAIN Working(app, f) : q = QueueOf(app, f, b)
        <4>1. PICK f \in FeaturesOf(app) : a \in DOMAIN Working(app, f)
          BY <1>0, <3>1 DEF Worked
        <4>2. c.working[a] = QueueOf(app, f, a)
          BY <1>0, <4>1, WorkingAreActivities DEF Worked
        <4>. QED BY <3>1, <4>1, <4>2
      <3>2. ASSUME NEW f \in FeaturesOf(app), NEW a \in DOMAIN Working(app, f)
            PROVE  /\ a \in DOMAIN c.working /\ c.working[a] = QueueOf(app, f, a)
                   /\ QueueOf(app, f, a) \in DOMAIN c.queue
        BY <1>0, <1>3, <3>2, WorkingAreActivities DEF Worked
      <3>. QED BY <3>1, <3>2 DEF Workers
    <2>. HIDE DEF all, Names, Allowing, On
    <2>3. \A q : q \in Workers(c) <=> q \in all
      BY <1>4, <2>1, <2>2
    <2>4. Workers(c) = all
      BY <2>3
    <2>. QED BY <2>4 DEF all
  <1>6. Dispatches(app, c) <=> \E f \in Allowing("workflows") : app.workflows[f] # {}
    BY <1>0 DEF Implemented, Enabled, Dispatches
  <1>7. HasScheduler(app, c) <=> \E f \in Allowing("schedules") : app.workflows[f] \cap DOMAIN app.schedule # {}
    BY <1>0 DEF Timed, Enabled, HasScheduler, Scheduled
  <1>. HIDE DEF Workers, Dispatches, HasScheduler
  <1>. QED BY <1>5, <1>6, <1>7 DEF ServesWhatIsAllowed
-----------------------------------------------------------------------------
(* The order of the features.                                                *)

SameKeys(old, new) == DOMAIN old = DOMAIN new
SameValues(old, new) == SameKeys(old, new) /\ \A k \in DOMAIN old : old[k] = new[k]
SameCatalog(c, d) ==
  /\ c.contracts = d.contracts /\ c.names = d.names
  /\ SameValues(c.queue, d.queue) /\ SameValues(c.perKey, d.perKey)
  /\ SameKeys(c.workflow, d.workflow) /\ c.schedules = d.schedules /\ c.running = d.running /\ c.timed = d.timed
  /\ SameValues(c.activity, d.activity) /\ c.handled = d.handled /\ SameValues(c.working, d.working)

LEMMA QueuesHaveOneCatalog ==
  ASSUME NEW app, NEW c, NEW d, Queued(app, c, Owners(app)), Queued(app, d, Owners(app)), Overridden(app, c), Overridden(app, d)
  PROVE  SameValues(c.queue, d.queue) /\ SameValues(c.perKey, d.perKey)
  <1>1. DOMAIN c.queue = DOMAIN d.queue /\ DOMAIN c.perKey = DOMAIN c.queue /\ DOMAIN d.perKey = DOMAIN d.queue
    BY DEF Queued
  <1>2. ASSUME NEW q \in DOMAIN c.queue PROVE c.queue[q] = d.queue[q]
    <2>1. /\ c.queue[q] \in Owners(app) /\ q \in OwnedQueues(app)[c.queue[q]]
          /\ d.queue[q] \in Owners(app) /\ q \in OwnedQueues(app)[d.queue[q]]
      BY <1>1 DEF Queued
    <2>. QED BY <2>1 DEF Queued, QueuesDiffer
  <1>3. ASSUME NEW q \in DOMAIN c.queue PROVE c.perKey[q] = d.perKey[q]
    BY <1>1 DEF Overridden
  <1>. QED BY <1>1, <1>2, <1>3 DEF SameValues, SameKeys

LEMMA SchedulesHaveOneCatalog ==
  ASSUME NEW app, NEW c, NEW d, NEW done, Timed(app, c, done), Timed(app, d, done)
  PROVE  c.schedules = d.schedules /\ c.timed = d.timed
  <1>1. ASSUME NEW s PROVE s \in c.schedules <=> s \in d.schedules
    BY DEF Timed
  <1>2. ASSUME NEW s PROVE s \in c.timed <=> s \in d.timed
    BY DEF Timed
  <1>. QED BY <1>1, <1>2

LEMMA ActivitiesHaveOneCatalog ==
  ASSUME NEW app, NEW c, NEW d, NEW done, Provided(app, c, done), Provided(app, d, done), Worked(app, c, done), Worked(app, d, done)
  PROVE  SameValues(c.activity, d.activity) /\ c.handled = d.handled /\ SameValues(c.working, d.working)
  <1>1. DOMAIN c.activity = DOMAIN d.activity /\ c.handled = d.handled
    BY DEF Provided
  <1>2. ASSUME NEW a \in DOMAIN c.activity PROVE c.activity[a] = d.activity[a]
    <2>1. /\ c.activity[a] \in done /\ a \in Contracts(app)[c.activity[a]]
          /\ d.activity[a] \in done /\ a \in Contracts(app)[d.activity[a]]
      BY <1>1 DEF Provided
    <2>. QED BY <2>1 DEF Provided, ActivitiesDiffer
  <1>3. DOMAIN c.working = DOMAIN d.working /\ \A a \in DOMAIN c.working : c.working[a] = d.working[a]
    BY DEF Worked
  <1>. QED BY <1>1, <1>2, <1>3 DEF SameValues, SameKeys

\* docs/modules.md:173, "Import order does not decide the winner": in two orders an
\* application is accepted or rejected alike, and if it is accepted, the catalogs have
\* the same owners, limits, handlers and schedules, for every application.
THEOREM OrderDecidesNothing ==
  ASSUME NEW app, IsApplication(app), NEW o1, IsOrder(o1, app), NEW o2, IsOrder(o2, app)
  PROVE  /\ Discover(app, o1).failure = "none" <=> Discover(app, o2).failure = "none"
         /\ Discover(app, o1).failure = "none" => SameCatalog(Discover(app, o1), Discover(app, o2))
  <1>. PICK c, d, features : c = Discover(app, o1) /\ d = Discover(app, o2) /\ features = FeaturesOf(app)
    OBVIOUS
  <1>1. /\ c.failure = "none" => Acceptable(app)
        /\ Holds("exports", app, c, features) \/ (c.failure # "none" /\ ~Acceptable(app))
    BY DiscoveryIsSound DEF Sound
  <1>2. /\ d.failure = "none" => Acceptable(app)
        /\ Holds("exports", app, d, features) \/ (d.failure # "none" /\ ~Acceptable(app))
    BY DiscoveryIsSound DEF Sound
  <1>3. \A k \in {c, d} : Holds("exports", app, k, features) =>
          /\ k.failure = "none" /\ Called(app, k, features) /\ Named(app, k, features) /\ Queued(app, k, Owners(app))
          /\ Overridden(app, k) /\ Resolved(app, k, features)
    BY DEF Holds
  <1>4. c.failure = "none" <=> d.failure = "none"
    BY <1>1, <1>2, <1>3
  <1>5. ASSUME c.failure = "none" PROVE SameCatalog(c, d)
    <2>1. \A k \in {c, d} : /\ Called(app, k, features) /\ Named(app, k, features) /\ Queued(app, k, Owners(app))
                           /\ Overridden(app, k) /\ Resolved(app, k, features)
      BY <1>1, <1>2, <1>3, <1>4, <1>5
    <2>2. c.contracts = d.contracts
      BY <2>1 DEF Called
    <2>3. c.names = d.names
      BY <2>1 DEF Named
    <2>4. SameKeys(c.workflow, d.workflow) /\ c.running = d.running
      BY <2>1 DEF Resolved, Implemented, SameKeys
    <2>5. c.schedules = d.schedules /\ c.timed = d.timed
      <3>1. Timed(app, c, features) /\ Timed(app, d, features)
        BY <2>1 DEF Resolved
      <3>. QED BY <3>1, SchedulesHaveOneCatalog
    <2>6. SameValues(c.queue, d.queue) /\ SameValues(c.perKey, d.perKey)
      BY <2>1, QueuesHaveOneCatalog
    <2>7. SameValues(c.activity, d.activity) /\ c.handled = d.handled /\ SameValues(c.working, d.working)
      BY <2>1, ActivitiesHaveOneCatalog DEF Resolved
    <2>. QED BY <2>2, <2>3, <2>4, <2>5, <2>6, <2>7 DEF SameCatalog
  <1>. QED BY <1>4, <1>5

-----------------------------------------------------------------------------
(* The catalogs of the processes: what one holds is what a discovery of the  *)
(* application made of it, and a bootstrap goes on only without a failure.   *)

IsDiscovered(c) == \E order \in Orders(situation.app) : c = Discover(situation.app, order)
CatalogAt(p) ==
  /\ catalog[p] = EmptyCatalog \/ IsDiscovered(catalog[p])
  /\ pc[p] = "connect" => IsDiscovered(catalog[p]) /\ catalog[p].failure = "none"
CatalogInv ==
  /\ situation \in Situations /\ catalog = [p \in Processes |-> catalog[p]]
  /\ \A p \in Processes : CatalogAt(p)

LEMMA CatalogInit == Init => CatalogInv
  BY DEF Init, CatalogInv, CatalogAt

\* What a step leaves of the catalog of a process.
LEMMA CatalogStays ==
  ASSUME NEW p \in Processes, CatalogAt(p), situation' = situation,
         \/ catalog'[p] = catalog[p] /\ (pc'[p] = pc[p] \/ pc'[p] # "connect")
         \/ catalog'[p] = EmptyCatalog /\ pc'[p] # "connect"
         \/ IsDiscovered(catalog'[p]) /\ (pc'[p] = "connect" => catalog'[p].failure = "none")
  PROVE  CatalogAt(p)'
  BY DEF CatalogAt, IsDiscovered

LEMMA CatalogStep == ASSUME TypeInv, CatalogInv, [Next]_vars PROVE CatalogInv'
  <1>0. /\ pc \in [Processes -> {"down", "discover", "connect", "migrate", "migrating", "validate",
                                 "limits", "serving", "refused"}]
        /\ catalog = [p \in Processes |-> catalog[p]]
    BY DEF TypeInv, TypeOK, CatalogInv
  <1>. DEFINE Keeps(p) == catalog'[p] = catalog[p] /\ (pc'[p] = pc[p] \/ pc'[p] # "connect")
              Clears(p) == catalog'[p] = EmptyCatalog /\ pc'[p] # "connect"
              Finds(p) == IsDiscovered(catalog'[p]) /\ (pc'[p] = "connect" => catalog'[p].failure = "none")
              Kept == situation' = situation /\ catalog' = [p \in Processes |-> catalog'[p]]
  <1>1. ASSUME NEW p \in Processes, NEW order \in Orders(situation.app), DiscoverFeatures(p, order)
        PROVE  Kept /\ Finds(p) /\ \A r \in Processes \ {p} : Keeps(r)
    <2>1. PICK c : c = Discover(situation.app, order)
      OBVIOUS
    <2>2. catalog' = [catalog EXCEPT ![p] = c] /\ situation' = situation
      BY <1>1, <2>1 DEF DiscoverFeatures
    <2>3. catalog'[p] = c /\ IsDiscovered(c) /\ \A r \in Processes \ {p} : catalog'[r] = catalog[r]
      BY <1>0, <2>1, <2>2 DEF IsDiscovered
    <2>4. /\ pc'[p] = "connect" => c.failure = "none"
          /\ \A r \in Processes \ {p} : pc'[r] = pc[r]
      BY <1>0, <1>1, <2>3 DEF DiscoverFeatures, Refuse
    <2>. QED BY <1>0, <2>2, <2>3, <2>4
  <1>2. ASSUME NEW p \in Processes, Connect(p) \/ Exit(p)
        PROVE  Kept /\ Clears(p) /\ \A r \in Processes \ {p} : Keeps(r)
    BY <1>0, <1>2 DEF Connect, Exit, EndReading
  <1>3. ASSUME NEW p \in Processes, NEW m, NEW l, Launch(p, m, l)
        PROVE  Kept /\ \A r \in Processes : Keeps(r)
    BY <1>0, <1>3 DEF Launch
  <1>4. ASSUME NEW p \in Processes, Lock(p) \/ Commit(p) \/ Validate(p) \/ Register(p)
        PROVE  Kept /\ \A r \in Processes : Keeps(r)
    BY <1>0, <1>4 DEF Lock, Commit, Validate, Register, Refuse
  <1>5. ASSUME NEW p \in Processes, Read(p) \/ StartProbe(p) \/ AnswerProbe(p)
        PROVE  Kept /\ \A r \in Processes : Keeps(r)
    BY <1>0, <1>5 DEF Read, StartProbe, AnswerProbe
  <1>6. ASSUME NEW l, SetQueueLimits(l) \/ NewerRelease \/ UNCHANGED vars
        PROVE  Kept /\ \A r \in Processes : Keeps(r)
    BY <1>0, <1>6 DEF SetQueueLimits, NewerRelease
  <1>7. Kept /\ \A r \in Processes : Keeps(r) \/ Clears(r) \/ Finds(r)
    <2>. HIDE DEF Kept, Keeps, Clears, Finds
    <2>. QED BY <1>1, <1>2, <1>3, <1>4, <1>5, <1>6 DEF Next
  <1>8. \A r \in Processes : CatalogAt(r)'
    BY <1>7, CatalogStays DEF CatalogInv
  <1>. QED BY <1>7, <1>8 DEF CatalogInv

\* The parts of the invariant that the property is made of.
LEMMA FoundCatalogIsSound ==
  ASSUME NEW app, IsApplication(app), NEW order, IsOrder(order, app), NEW c, c = Discover(app, order)
  PROVE  /\ c.failure # "none" => ~Acceptable(app)
         /\ c.failure = "none" =>
              /\ Acceptable(app) /\ ServesWhatIsAllowed(app, c)
              /\ \A f \in FeaturesOf(app) : \A a : SeesActivity(app, c, f, a) <=> c.activity[a] \in {f} \cup Reached(app, a, f)
              /\ \A q \in DOMAIN c.queue : c.perKey[q] = LimitsPerKey(app, q)
  <1>1. /\ c.failure = "none" => Acceptable(app)
        /\ Holds("exports", app, c, FeaturesOf(app)) \/ (c.failure # "none" /\ ~Acceptable(app))
    BY DiscoveryIsSound DEF Sound
  <1>2. ASSUME Holds("exports", app, c, FeaturesOf(app))
        PROVE  c.failure = "none" /\ Overridden(app, c) /\ Provided(app, c, FeaturesOf(app))
    BY <1>2 DEF Holds, Resolved
  <1>3. ASSUME c.failure = "none"
        PROVE  /\ \A f \in FeaturesOf(app) : \A a : SeesActivity(app, c, f, a) <=> c.activity[a] \in {f} \cup Reached(app, a, f)
               /\ \A q \in DOMAIN c.queue : c.perKey[q] = LimitsPerKey(app, q)
    BY <1>1, <1>2, <1>3, ActivitiesAreSeen DEF Overridden
  <1>. QED BY <1>1, <1>2, <1>3, WhatIsAllowedIsServed

\* Whatever the order the framework hands the features in, a process goes on with
\* its bootstrap exactly if the application is acceptable, and with a catalog that
\* shows its features what chains of exports and clients lead to, limits per key
\* where the most specific setting says so, and serves what its settings allow:
\* for every application, every graph of imports and every order.
THEOREM CatalogsAreSound == Spec => []CatalogIsSound
  <1>1. CatalogInv => CatalogIsSound
    <2>. SUFFICES ASSUME CatalogInv, NEW p \in Processes
                  PROVE  /\ catalog[p].failure # "none" => ~Acceptable(situation.app)
                         /\ pc[p] = "connect" =>
                              /\ Acceptable(situation.app)
                              /\ \A f \in FeaturesOf(situation.app) : \A a \in DOMAIN catalog[p].activity :
                                   SeesActivity(situation.app, catalog[p], f, a)
                                     <=> catalog[p].activity[a] \in {f} \cup Reached(situation.app, a, f)
                              /\ \A f \in FeaturesOf(situation.app) : \A w \in catalog[p].contracts :
                                   SeesWorkflow(situation.app, f, w)
                                     <=> \E g \in Imported(situation.app, f) \cup {f} : w \in Clients(situation.app, g)
                              /\ \A q \in DOMAIN catalog[p].queue : catalog[p].perKey[q] = LimitsPerKey(situation.app, q)
                              /\ ServesWhatIsAllowed(situation.app, catalog[p])
      BY DEF CatalogIsSound
    <2>. PICK app, c : app = situation.app /\ c = catalog[p]
      OBVIOUS
    <2>1. IsApplication(app) /\ \A order \in Orders(app) : IsOrder(order, app)
      BY StartupAssumption DEF CatalogInv
    <2>2. CatalogAt(p) /\ EmptyCatalog.failure = "none"
      BY DEF CatalogInv, EmptyCatalog
    <2>3. c.failure # "none" \/ pc[p] = "connect" => \E order \in Orders(app) : c = Discover(app, order)
      BY <2>2 DEF CatalogAt, IsDiscovered
    <2>4. pc[p] = "connect" => c.failure = "none"
      BY <2>2 DEF CatalogAt
    <2>5. \A f \in FeaturesOf(app) : \A w : SeesWorkflow(app, f, w)
            <=> \E g \in Imported(app, f) \cup {f} : w \in Clients(app, g)
      BY <2>1, ClientsAreSeen
    <2>. QED BY <2>1, <2>3, <2>4, <2>5, FoundCatalogIsSound
  <1>. QED BY <1>1, TypeInit, TypeStep, CatalogInit, CatalogStep, PTL DEF Spec

=============================================================================
