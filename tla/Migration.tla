----------------------------- MODULE Migration -----------------------------
(***************************************************************************)
(* Migration 0003 (migrations/versions/0003_telemetry_records.py) while      *)
(* telemetry goes on arriving: compose.yaml runs it while the previous       *)
(* release's containers may still be up, and a downgrade may meet this       *)
(* release's.  Alembic runs it in one PostgreSQL transaction, whose schema   *)
(* changes, rows and sequence become visible when it commits.                *)
(* `upgrade head` adds a nullable column to devices and one to parameters in  *)
(* the same transaction, which this module leaves out.                      *)
(*                                                                          *)
(* A reading is its id and its record_id, 0 while there is no such column.   *)
(* The previous release's ingest inserts readings, this one's inserts a      *)
(* record first.                                                            *)
(***************************************************************************)
EXTENDS Naturals, FiniteSets

CONSTANTS
    Session,       \* sessions that run ingest, of either release
    MaxWrites,     \* bound on calls of ingest
    MaxMigrations  \* bound on runs of alembic

ASSUME MigrationAssumption == MaxWrites \in Nat /\ MaxMigrations \in Nat

VARIABLES
    version,     \* alembic_version: 2 or 3
    readings,    \* telemetry
    records,     \* telemetry_records: their ids
    lastReading, \* sequence of telemetry.id
    lastRecord,  \* sequence of telemetry_records.id
    \* sessions running ingest
    pc, release,
    drawn,       \* id of the record the call has inserted, 0 for none
    batch,       \* readings it has inserted
    writes,
    \* alembic
    mpc,
    copied,      \* ids of the records copied from telemetry
    next,        \* sequence of the new table
    migrations

tables    == <<version, readings, records>>
sequences == <<lastReading, lastRecord>>
callVars  == <<pc, release, drawn, batch, writes>>
runVars   == <<mpc, copied, next, migrations>>
vars      == <<tables, sequences, callVars, runVars>>

Row == [id : Nat \ {0}, record : Nat]
Ids(rows) == {r.id : r \in rows}

\* Tables alembic holds ACCESS EXCLUSIVE; those a call has written.
TelemetryLocked == mpc \in {"sequence", "commit", "drop", "dropped"}
RecordsLocked   == mpc = "dropped"
WroteReadings(w) == pc[w] = "commit"
WroteRecord(w)   == drawn[w] # 0

Init ==
    /\ version \in {2, 3} /\ readings = {} /\ records = {}
    /\ lastReading = 0 /\ lastRecord = 0
    /\ pc = [w \in Session |-> "idle"] /\ release = [w \in Session |-> "none"]
    /\ drawn = [w \in Session |-> 0] /\ batch = [w \in Session |-> {}]
    /\ writes = 0
    /\ mpc = "idle" /\ copied = {} /\ next = 0 /\ migrations = 0

-----------------------------------------------------------------------------
(* ingest                                                                   *)

GoTo(w, label) == pc' = [pc EXCEPT ![w] = label]

Stop(w) ==
    /\ GoTo(w, "idle")
    /\ release' = [release EXCEPT ![w] = "none"]
    /\ drawn' = [drawn EXCEPT ![w] = 0]
    /\ batch' = [batch EXCEPT ![w] = {}]
    /\ UNCHANGED writes

Begin(w, r) ==
    /\ pc[w] = "idle" /\ writes < MaxWrites /\ writes' = writes + 1
    /\ GoTo(w, IF r = "new" THEN "record" ELSE "readings")
    /\ release' = [release EXCEPT ![w] = r]
    /\ UNCHANGED <<tables, sequences, drawn, batch, runVars>>

\* INSERT INTO telemetry_records, drawing the id: fails if there is no such
\* table, or such a record.
InsertRecord(w) ==
    /\ pc[w] = "record" /\ ~RecordsLocked
    /\ lastRecord' = IF version = 3 THEN lastRecord + 1 ELSE lastRecord
    /\ IF version = 3 /\ lastRecord' \notin records
       THEN /\ GoTo(w, "readings")
            /\ drawn' = [drawn EXCEPT ![w] = lastRecord']
            /\ UNCHANGED <<release, batch, writes>>
       ELSE Stop(w)
    /\ UNCHANGED <<tables, lastReading, runVars>>

\* INSERT INTO telemetry, one row or two, once alembic has let go of the table:
\* fails if the column is missing, or, NOT NULL, not given.
InsertReadings(w, n) ==
    /\ pc[w] = "readings" /\ ~TelemetryLocked
    /\ lastReading' = lastReading + n
    /\ IF (release[w] = "new") <=> (version = 3)
       THEN /\ GoTo(w, "commit")
            /\ batch' = [batch EXCEPT ![w] = {[id |-> i, record |-> drawn[w]] :
                                                i \in lastReading + 1..lastReading + n}]
            /\ UNCHANGED <<release, drawn, writes>>
       ELSE Stop(w)
    /\ UNCHANGED <<tables, lastRecord, runVars>>

Commit(w) ==
    /\ pc[w] = "commit"
    /\ readings' = readings \cup batch[w]
    /\ records' = IF drawn[w] = 0 THEN records ELSE records \cup {drawn[w]}
    /\ Stop(w)
    /\ UNCHANGED <<version, sequences, runVars>>

Fail(w) ==
    /\ pc[w] # "idle" /\ Stop(w)
    /\ UNCHANGED <<tables, sequences, runVars>>

\* Mutation of GiveUp: the connection has no lock_timeout.
GiveUpNever(w) == FALSE /\ Fail(w)

\* lock_timeout: a statement that waits too long for alembic's lock fails.
GiveUp(w) ==
    /\ \/ pc[w] = "record" /\ RecordsLocked
       \/ pc[w] = "readings" /\ TelemetryLocked
    /\ Fail(w)

-----------------------------------------------------------------------------
(* alembic                                                                  *)

Rollback ==
    /\ mpc' = "idle" /\ copied' = {} /\ next' = 0
    /\ UNCHANGED <<tables, sequences, callVars, migrations>>

MGoTo(label) == mpc' = label /\ UNCHANGED <<tables, sequences, callVars, migrations>>

\* CREATE TABLE telemetry_records: its lock on devices does not conflict with
\* those of ingest.
BeginUpgrade ==
    /\ mpc = "idle" /\ version = 2 /\ migrations < MaxMigrations
    /\ mpc' = "copy" /\ migrations' = migrations + 1
    /\ UNCHANGED <<tables, sequences, callVars, copied, next>>

\* INSERT ... SELECT id ... FROM telemetry: what is committed now.
CopyReadings ==
    /\ mpc = "copy"
    /\ copied' = Ids(readings)
    /\ MGoTo("column") /\ UNCHANGED next

\* Mutation of AddRecordId: the foreign key is added NOT VALID.
AddUnvalidated ==
    /\ mpc = "column" /\ \A w \in Session : ~WroteReadings(w)
    /\ MGoTo("sequence") /\ UNCHANGED <<copied, next>>

\* ADD COLUMN waits for the calls that have inserted readings; UPDATE and the
\* foreign key then find readings committed since the copy: all is rolled back.
AddRecordId ==
    /\ mpc = "column" /\ \A w \in Session : ~WroteReadings(w)
    /\ IF Ids(readings) \subseteq copied
       THEN MGoTo("sequence") /\ UNCHANGED <<copied, next>>
       ELSE Rollback

\* Mutation of SetSequence: is_called is FALSE also if there are records.
SetUncalled ==
    /\ mpc = "sequence"
    /\ \E n \in copied \cup {1} :
          /\ copied # {} => n \in copied /\ \A i \in copied : i <= n
          /\ next' = n - 1
    /\ MGoTo("commit") /\ UNCHANGED copied

\* setval(MAX(id) or 1, is_called if there is any): the next id follows the last.
SetSequence ==
    /\ mpc = "sequence"
    /\ \E n \in copied \cup {0} :
          /\ \A i \in copied : i <= n
          /\ next' = n
    /\ MGoTo("commit") /\ UNCHANGED copied

CommitUpgrade ==
    /\ mpc = "commit"
    /\ version' = 3 /\ records' = copied /\ lastRecord' = next
    /\ readings' = {[id |-> x.id, record |-> x.id] : x \in readings}
    /\ mpc' = "idle" /\ copied' = {} /\ next' = 0
    /\ UNCHANGED <<lastReading, callVars, migrations>>

\* DROP INDEX locks telemetry: it waits for calls that have written readings.
BeginDowngrade ==
    /\ mpc = "idle" /\ version = 3 /\ migrations < MaxMigrations
    /\ \A w \in Session : ~WroteReadings(w)
    /\ mpc' = "drop" /\ migrations' = migrations + 1
    /\ UNCHANGED <<tables, sequences, callVars, copied, next>>

\* DROP CONSTRAINT locks telemetry_records, too, until DROP COLUMN and DROP TABLE
\* are committed: it waits for calls that have inserted a record, which may be
\* waiting for telemetry.
DropRecords ==
    /\ mpc = "drop" /\ \A w \in Session : ~WroteRecord(w)
    /\ MGoTo("dropped") /\ UNCHANGED <<copied, next>>

\* Mutation of CommitDowngrade: drop_column was forgotten.
CommitKeepingColumn ==
    /\ mpc = "dropped"
    /\ version' = 2 /\ records' = {} /\ mpc' = "idle" /\ lastRecord' = 0
    /\ UNCHANGED <<readings, lastReading, callVars, copied, next, migrations>>

CommitDowngrade ==
    /\ mpc = "dropped"
    /\ version' = 2 /\ records' = {} /\ mpc' = "idle" /\ lastRecord' = 0
    /\ readings' = {[id |-> x.id, record |-> 0] : x \in readings}
    /\ UNCHANGED <<lastReading, callVars, copied, next, migrations>>

\* A statement fails or times out, or alembic is killed.
Abort == mpc # "idle" /\ Rollback

-----------------------------------------------------------------------------
CallStep(w) == InsertRecord(w) \/ (\E n \in 1..2 : InsertReadings(w, n)) \/ Commit(w) \/ GiveUp(w)

MigrationStep ==
    \/ CopyReadings \/ AddRecordId \/ SetSequence \/ CommitUpgrade
    \/ DropRecords \/ CommitDowngrade

Next ==
    \/ \E w \in Session, r \in {"old", "new"} : Begin(w, r)
    \/ \E w \in Session : CallStep(w) \/ Fail(w)
    \/ BeginUpgrade \/ BeginDowngrade \/ MigrationStep \/ Abort

Spec == Init /\ [][Next]_vars

\* The server executes what it can, and ends waits that last too long.
FairSpec == Spec /\ WF_vars(MigrationStep) /\ \A w \in Session : WF_vars(CallStep(w))

-----------------------------------------------------------------------------
\* Types; before 0003 there are no records, and nothing refers to any.
TypeOK ==
    /\ version \in {2, 3} /\ readings \subseteq Row /\ records \subseteq Nat
    /\ {lastReading, lastRecord, next, writes, migrations} \subseteq Nat /\ copied \subseteq Nat
    /\ pc \in [Session -> {"idle", "record", "readings", "commit"}]
    /\ release \in [Session -> {"none", "old", "new"}]
    /\ drawn \in [Session -> Nat] /\ batch \in [Session -> SUBSET Row]
    /\ mpc \in {"idle", "copy", "column", "sequence", "commit", "drop", "dropped"}
    /\ version = 2 => records = {} /\ \A x \in readings : x.record = 0

\* "Preserve each as an independent registry entry" (0003:22-23): with 0003 in
\* place every reading has a record, whatever was committed while it ran.
ReadingsRecorded == version = 3 => \A x \in readings : x.record \in records

\* No call is refused because of the ids of copied records: the sequence is ahead
\* of every record, also after a downgrade and another upgrade.
IdsFresh ==
    version = 3 => /\ \A r \in records : r <= lastRecord
                   /\ \A w \in Session : drawn[w] \notin records

\* Every call and every migration ends: where a downgrade and a call wait for
\* each other's tables, the call's lock_timeout ends it.
RunsEnd ==
    /\ (mpc # "idle") ~> (mpc = "idle")
    /\ \A w \in Session : (pc[w] # "idle") ~> (pc[w] = "idle")

\* What makes them inductive.  A lock keeps writers out of the table ...
Locks ==
    /\ TelemetryLocked => \A w \in Session : ~WroteReadings(w)
    /\ RecordsLocked => \A w \in Session : ~WroteRecord(w)
\* ... and from the lock on, the records copied are those of all readings.
Copies ==
    /\ 0 \notin copied
    /\ mpc \in {"copy", "column", "sequence", "commit"} => version = 2
    /\ mpc \in {"drop", "dropped"} => version = 3
    /\ mpc \in {"sequence", "commit"} => Ids(readings) \subseteq copied
    /\ mpc = "commit" => \A i \in copied : i <= next
\* A call inserts readings of the record it has inserted, if any.
Calls ==
    \A w \in Session :
          /\ WroteRecord(w) => version = 3 /\ pc[w] \in {"readings", "commit"}
          /\ pc[w] = "record" => release[w] = "new"
          /\ pc[w] = "readings" => (release[w] = "new" <=> WroteRecord(w))
          /\ WroteReadings(w) =>
                /\ version = 3 => WroteRecord(w)
                /\ \A x \in batch[w] : x.record = drawn[w]
\* Ids are drawn once.
Draws ==
    /\ 0 \notin records
    /\ \A w \in Session : drawn[w] <= lastRecord
    /\ \A w, v \in Session : w # v /\ WroteRecord(w) => drawn[v] # drawn[w]

MigrationInv ==
    TypeOK /\ Locks /\ Copies /\ Calls /\ Draws /\ ReadingsRecorded /\ IdsFresh
=============================================================================
