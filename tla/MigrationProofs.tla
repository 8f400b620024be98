-------------------------- MODULE MigrationProofs --------------------------
(***************************************************************************)
(* Proofs about Migration, for any sessions and any number of migrations.    *)
(*                                                                          *)
(* MigrationInv is inductive.  ReadingsRecorded and IdsFresh speak of the    *)
(* schema of 0003, but are decided while it is made: Locks and Copies say    *)
(* what the transaction of alembic has achieved so far, Calls and Draws what *)
(* the calls it meets may still commit.                                     *)
(***************************************************************************)
EXTENDS Migration, TLAPS

\* Every variable keeps its type.
LEMMA TypeStep ==
    ASSUME TypeOK, Calls, [Next]_vars
    PROVE  TypeOK'
<1> USE MigrationAssumption DEF vars, tables, sequences, callVars, runVars
<1>1. CASE UNCHANGED vars
  BY <1>1 DEF TypeOK, Row
<1>2. ASSUME NEW w \in Session, NEW r \in {"old", "new"}, Begin(w, r) PROVE TypeOK'
  BY <1>2 DEF Begin, GoTo, TypeOK, Row
<1>3. ASSUME NEW w \in Session, InsertRecord(w) PROVE TypeOK'
  <2>1. CASE version = 3 /\ lastRecord + 1 \notin records
    BY <1>3, <2>1 DEF InsertRecord, Stop, GoTo, TypeOK, Row
  <2>2. CASE ~ (version = 3 /\ lastRecord + 1 \notin records)
    BY <1>3, <2>2 DEF InsertRecord, Stop, GoTo, TypeOK, Row
  <2>3. QED
    BY <2>1, <2>2
<1>4. ASSUME NEW w \in Session, NEW n \in 1..2, InsertReadings(w, n) PROVE TypeOK'
  <2>1. CASE (release[w] = "new") <=> (version = 3)
    BY <1>4, <2>1 DEF InsertReadings, Stop, GoTo, TypeOK, Row
  <2>2. CASE ~ ((release[w] = "new") <=> (version = 3))
    BY <1>4, <2>2 DEF InsertReadings, Stop, GoTo, TypeOK, Row
  <2>3. QED
    BY <2>1, <2>2
<1>5. ASSUME NEW w \in Session, Commit(w) PROVE TypeOK'
  <2>1. batch[w] \subseteq Row
    BY <1>5 DEF TypeOK
  <2>2. readings' \subseteq Row /\ records' \subseteq Nat
    BY <1>5, <2>1 DEF Commit, TypeOK
  <2>3. version = 2 => drawn[w] = 0
    BY DEF Calls, WroteRecord
  <2>4. version = 2 => \A x \in batch[w] : x.record = 0
    BY <1>5, <2>3 DEF Commit, Calls, WroteReadings
  <2>5. version' = 2 => records' = {} /\ \A x \in readings' : x.record = 0
    BY <1>5, <2>3, <2>4 DEF Commit, TypeOK
  <2>6. QED
    BY <1>5, <2>2, <2>5 DEF Commit, Stop, GoTo, TypeOK
<1>6. ASSUME NEW w \in Session, Fail(w) PROVE TypeOK'
  BY <1>6 DEF Fail, Stop, GoTo, TypeOK, Row
<1>7. CASE BeginUpgrade
  BY <1>7 DEF BeginUpgrade, TypeOK, Row
<1>8. CASE CopyReadings
  <2>1. Ids(readings) \subseteq Nat
    BY DEF TypeOK, Ids, Row
  <2>2. QED
    BY <1>8, <2>1 DEF CopyReadings, MGoTo, TypeOK
<1>9. CASE AddRecordId
  <2>1. CASE Ids(readings) \subseteq copied
    <3>1. MGoTo("sequence") /\ UNCHANGED <<copied, next>>
      BY <1>9, <2>1 DEF AddRecordId
    <3>2. QED
      BY <3>1 DEF MGoTo, TypeOK
  <2>2. CASE ~ (Ids(readings) \subseteq copied)
    <3>1. Rollback
      BY <1>9, <2>2 DEF AddRecordId
    <3>2. QED
      BY <3>1 DEF Rollback, TypeOK
  <2>3. QED
    BY <2>1, <2>2
<1>10. CASE SetSequence
  BY <1>10 DEF SetSequence, MGoTo, TypeOK, Row
<1>11. CASE CommitUpgrade
  BY <1>11 DEF CommitUpgrade, TypeOK, Row
<1>12. CASE BeginDowngrade
  BY <1>12 DEF BeginDowngrade, TypeOK, Row
<1>13. CASE DropRecords
  BY <1>13 DEF DropRecords, MGoTo, TypeOK, Row
<1>14. CASE CommitDowngrade
  BY <1>14 DEF CommitDowngrade, TypeOK, Row
<1>15. CASE Abort
  BY <1>15 DEF Abort, Rollback, TypeOK, Row
<1>16. QED
  BY <1>1, <1>2, <1>3, <1>4, <1>5, <1>6, <1>7, <1>8, <1>9, <1>10, <1>11, <1>12, <1>13, <1>14, <1>15 DEF Next, CallStep, MigrationStep, GiveUp

\* The lock keeps out those who come, and waits for those who are there.
LEMMA LocksStep ==
    ASSUME TypeOK, Locks, [Next]_vars
    PROVE  Locks'
<1> USE MigrationAssumption DEF vars, tables, sequences, callVars, runVars
<1>1. CASE UNCHANGED vars
  BY <1>1 DEF TypeOK, Locks, TelemetryLocked, RecordsLocked, WroteReadings, WroteRecord
<1>2. ASSUME NEW w \in Session, NEW r \in {"old", "new"}, Begin(w, r) PROVE Locks'
  BY <1>2 DEF Begin, GoTo, TypeOK, Locks, TelemetryLocked, RecordsLocked, WroteReadings, WroteRecord
<1>3. ASSUME NEW w \in Session, InsertRecord(w) PROVE Locks'
  <2>1. CASE version = 3 /\ lastRecord + 1 \notin records
    BY <1>3, <2>1 DEF InsertRecord, Stop, GoTo, TypeOK, Locks, TelemetryLocked, RecordsLocked, WroteReadings, WroteRecord
  <2>2. CASE ~ (version = 3 /\ lastRecord + 1 \notin records)
    BY <1>3, <2>2 DEF InsertRecord, Stop, GoTo, TypeOK, Locks, TelemetryLocked, RecordsLocked, WroteReadings, WroteRecord
  <2>3. QED
    BY <2>1, <2>2
<1>4. ASSUME NEW w \in Session, NEW n \in 1..2, InsertReadings(w, n) PROVE Locks'
  <2>1. CASE (release[w] = "new") <=> (version = 3)
    BY <1>4, <2>1 DEF InsertReadings, Stop, GoTo, TypeOK, Locks, TelemetryLocked, RecordsLocked, WroteReadings, WroteRecord
  <2>2. CASE ~ ((release[w] = "new") <=> (version = 3))
    BY <1>4, <2>2 DEF InsertReadings, Stop, GoTo, TypeOK, Locks, TelemetryLocked, RecordsLocked, WroteReadings, WroteRecord
  <2>3. QED
    BY <2>1, <2>2
<1>5. ASSUME NEW w \in Session, Commit(w) PROVE Locks'
  BY <1>5 DEF Commit, Stop, GoTo, TypeOK, Locks, TelemetryLocked, RecordsLocked, WroteReadings, WroteRecord
<1>6. ASSUME NEW w \in Session, Fail(w) PROVE Locks'
  BY <1>6 DEF Fail, Stop, GoTo, TypeOK, Locks, TelemetryLocked, RecordsLocked, WroteReadings, WroteRecord
<1>7. CASE BeginUpgrade
  BY <1>7 DEF BeginUpgrade, TypeOK, Locks, TelemetryLocked, RecordsLocked, WroteReadings, WroteRecord
<1>8. CASE CopyReadings
  BY <1>8 DEF CopyReadings, MGoTo, TypeOK, Locks, TelemetryLocked, RecordsLocked, WroteReadings, WroteRecord
<1>9. CASE AddRecordId
  BY <1>9 DEF AddRecordId, MGoTo, Rollback, TypeOK, Locks, TelemetryLocked, RecordsLocked, WroteReadings, WroteRecord
<1>10. CASE SetSequence
  BY <1>10 DEF SetSequence, MGoTo, TypeOK, Locks, TelemetryLocked, RecordsLocked, WroteReadings, WroteRecord
<1>11. CASE CommitUpgrade
  BY <1>11 DEF CommitUpgrade, TypeOK, Locks, TelemetryLocked, RecordsLocked, WroteReadings, WroteRecord
<1>12. CASE BeginDowngrade
  BY <1>12 DEF BeginDowngrade, TypeOK, Locks, TelemetryLocked, RecordsLocked, WroteReadings, WroteRecord
<1>13. CASE DropRecords
  BY <1>13 DEF DropRecords, MGoTo, TypeOK, Locks, TelemetryLocked, RecordsLocked, WroteReadings, WroteRecord
<1>14. CASE CommitDowngrade
  BY <1>14 DEF CommitDowngrade, TypeOK, Locks, TelemetryLocked, RecordsLocked, WroteReadings, WroteRecord
<1>15. CASE Abort
  BY <1>15 DEF Abort, Rollback, TypeOK, Locks, TelemetryLocked, RecordsLocked, WroteReadings, WroteRecord
<1>16. QED
  BY <1>1, <1>2, <1>3, <1>4, <1>5, <1>6, <1>7, <1>8, <1>9, <1>10, <1>11, <1>12, <1>13, <1>14, <1>15 DEF Next, CallStep, MigrationStep, GiveUp

\* What is copied stays complete: nobody commits readings meanwhile.
LEMMA CopiesStep ==
    ASSUME TypeOK, Locks, Copies, [Next]_vars
    PROVE  Copies'
<1> USE MigrationAssumption DEF vars, tables, sequences, callVars, runVars
<1>1. CASE UNCHANGED vars
  BY <1>1 DEF TypeOK, Row, Ids, Copies, Locks, TelemetryLocked, RecordsLocked, WroteReadings, WroteRecord
<1>2. ASSUME NEW w \in Session, NEW r \in {"old", "new"}, Begin(w, r) PROVE Copies'
  BY <1>2 DEF Begin, GoTo, TypeOK, Row, Ids, Copies, Locks, TelemetryLocked, RecordsLocked, WroteReadings, WroteRecord
<1>3. ASSUME NEW w \in Session, InsertRecord(w) PROVE Copies'
  <2>1. CASE version = 3 /\ lastRecord + 1 \notin records
    BY <1>3, <2>1 DEF InsertRecord, Stop, GoTo, TypeOK, Row, Ids, Copies, Locks, TelemetryLocked, RecordsLocked, WroteReadings, WroteRecord
  <2>2. CASE ~ (version = 3 /\ lastRecord + 1 \notin records)
    BY <1>3, <2>2 DEF InsertRecord, Stop, GoTo, TypeOK, Row, Ids, Copies, Locks, TelemetryLocked, RecordsLocked, WroteReadings, WroteRecord
  <2>3. QED
    BY <2>1, <2>2
<1>4. ASSUME NEW w \in Session, NEW n \in 1..2, InsertReadings(w, n) PROVE Copies'
  <2>1. CASE (release[w] = "new") <=> (version = 3)
    BY <1>4, <2>1 DEF InsertReadings, Stop, GoTo, TypeOK, Row, Ids, Copies, Locks, TelemetryLocked, RecordsLocked, WroteReadings, WroteRecord
  <2>2. CASE ~ ((release[w] = "new") <=> (version = 3))
    BY <1>4, <2>2 DEF InsertReadings, Stop, GoTo, TypeOK, Row, Ids, Copies, Locks, TelemetryLocked, RecordsLocked, WroteReadings, WroteRecord
  <2>3. QED
    BY <2>1, <2>2
<1>5. ASSUME NEW w \in Session, Commit(w) PROVE Copies'
  BY <1>5 DEF Commit, Stop, GoTo, TypeOK, Row, Ids, Copies, Locks, TelemetryLocked, RecordsLocked, WroteReadings, WroteRecord
<1>6. ASSUME NEW w \in Session, Fail(w) PROVE Copies'
  BY <1>6 DEF Fail, Stop, GoTo, TypeOK, Row, Ids, Copies, Locks, TelemetryLocked, RecordsLocked, WroteReadings, WroteRecord
<1>7. CASE BeginUpgrade
  BY <1>7 DEF BeginUpgrade, TypeOK, Row, Ids, Copies, Locks, TelemetryLocked, RecordsLocked, WroteReadings, WroteRecord
<1>8. CASE CopyReadings
  BY <1>8 DEF CopyReadings, MGoTo, TypeOK, Row, Ids, Copies, Locks, TelemetryLocked, RecordsLocked, WroteReadings, WroteRecord
<1>9. CASE AddRecordId
  BY <1>9 DEF AddRecordId, MGoTo, Rollback, TypeOK, Row, Ids, Copies, Locks, TelemetryLocked, RecordsLocked, WroteReadings, WroteRecord
<1>10. CASE SetSequence
  BY <1>10 DEF SetSequence, MGoTo, TypeOK, Row, Ids, Copies, Locks, TelemetryLocked, RecordsLocked, WroteReadings, WroteRecord
<1>11. CASE CommitUpgrade
  BY <1>11 DEF CommitUpgrade, TypeOK, Row, Ids, Copies, Locks, TelemetryLocked, RecordsLocked, WroteReadings, WroteRecord
<1>12. CASE BeginDowngrade
  BY <1>12 DEF BeginDowngrade, TypeOK, Row, Ids, Copies, Locks, TelemetryLocked, RecordsLocked, WroteReadings, WroteRecord
<1>13. CASE DropRecords
  BY <1>13 DEF DropRecords, MGoTo, TypeOK, Row, Ids, Copies, Locks, TelemetryLocked, RecordsLocked, WroteReadings, WroteRecord
<1>14. CASE CommitDowngrade
  BY <1>14 DEF CommitDowngrade, TypeOK, Row, Ids, Copies, Locks, TelemetryLocked, RecordsLocked, WroteReadings, WroteRecord
<1>15. CASE Abort
  BY <1>15 DEF Abort, Rollback, TypeOK, Row, Ids, Copies, Locks, TelemetryLocked, RecordsLocked, WroteReadings, WroteRecord
<1>16. QED
  BY <1>1, <1>2, <1>3, <1>4, <1>5, <1>6, <1>7, <1>8, <1>9, <1>10, <1>11, <1>12, <1>13, <1>14, <1>15 DEF Next, CallStep, MigrationStep, GiveUp

\* No call has written anything while the schema changes.
LEMMA CallsStep ==
    ASSUME TypeOK, Locks, Copies, Calls, [Next]_vars
    PROVE  Calls'
<1> USE MigrationAssumption DEF vars, tables, sequences, callVars, runVars
<1>1. CASE UNCHANGED vars
  BY <1>1 DEF TypeOK, Copies, Calls, Locks, TelemetryLocked, RecordsLocked, WroteReadings, WroteRecord
<1>2. ASSUME NEW w \in Session, NEW r \in {"old", "new"}, Begin(w, r) PROVE Calls'
  BY <1>2 DEF Begin, GoTo, TypeOK, Copies, Calls, Locks, TelemetryLocked, RecordsLocked, WroteReadings, WroteRecord
<1>3. ASSUME NEW w \in Session, InsertRecord(w) PROVE Calls'
  <2>1. CASE version = 3 /\ lastRecord + 1 \notin records
    BY <1>3, <2>1 DEF InsertRecord, Stop, GoTo, TypeOK, Copies, Calls, Locks, TelemetryLocked, RecordsLocked, WroteReadings, WroteRecord
  <2>2. CASE ~ (version = 3 /\ lastRecord + 1 \notin records)
    BY <1>3, <2>2 DEF InsertRecord, Stop, GoTo, TypeOK, Copies, Calls, Locks, TelemetryLocked, RecordsLocked, WroteReadings, WroteRecord
  <2>3. QED
    BY <2>1, <2>2
<1>4. ASSUME NEW w \in Session, NEW n \in 1..2, InsertReadings(w, n) PROVE Calls'
  <2>1. CASE (release[w] = "new") <=> (version = 3)
    BY <1>4, <2>1 DEF InsertReadings, Stop, GoTo, TypeOK, Copies, Calls, Locks, TelemetryLocked, RecordsLocked, WroteReadings, WroteRecord
  <2>2. CASE ~ ((release[w] = "new") <=> (version = 3))
    BY <1>4, <2>2 DEF InsertReadings, Stop, GoTo, TypeOK, Copies, Calls, Locks, TelemetryLocked, RecordsLocked, WroteReadings, WroteRecord
  <2>3. QED
    BY <2>1, <2>2
<1>5. ASSUME NEW w \in Session, Commit(w) PROVE Calls'
  BY <1>5 DEF Commit, Stop, GoTo, TypeOK, Copies, Calls, Locks, TelemetryLocked, RecordsLocked, WroteReadings, WroteRecord
<1>6. ASSUME NEW w \in Session, Fail(w) PROVE Calls'
  BY <1>6 DEF Fail, Stop, GoTo, TypeOK, Copies, Calls, Locks, TelemetryLocked, RecordsLocked, WroteReadings, WroteRecord
<1>7. CASE BeginUpgrade
  BY <1>7 DEF BeginUpgrade, TypeOK, Copies, Calls, Locks, TelemetryLocked, RecordsLocked, WroteReadings, WroteRecord
<1>8. CASE CopyReadings
  BY <1>8 DEF CopyReadings, MGoTo, TypeOK, Copies, Calls, Locks, TelemetryLocked, RecordsLocked, WroteReadings, WroteRecord
<1>9. CASE AddRecordId
  BY <1>9 DEF AddRecordId, MGoTo, Rollback, TypeOK, Copies, Calls, Locks, TelemetryLocked, RecordsLocked, WroteReadings, WroteRecord
<1>10. CASE SetSequence
  BY <1>10 DEF SetSequence, MGoTo, TypeOK, Copies, Calls, Locks, TelemetryLocked, RecordsLocked, WroteReadings, WroteRecord
<1>11. CASE CommitUpgrade
  BY <1>11 DEF CommitUpgrade, TypeOK, Copies, Calls, Locks, TelemetryLocked, RecordsLocked, WroteReadings, WroteRecord
<1>12. CASE BeginDowngrade
  BY <1>12 DEF BeginDowngrade, TypeOK, Copies, Calls, Locks, TelemetryLocked, RecordsLocked, WroteReadings, WroteRecord
<1>13. CASE DropRecords
  BY <1>13 DEF DropRecords, MGoTo, TypeOK, Copies, Calls, Locks, TelemetryLocked, RecordsLocked, WroteReadings, WroteRecord
<1>14. CASE CommitDowngrade
  BY <1>14 DEF CommitDowngrade, TypeOK, Copies, Calls, Locks, TelemetryLocked, RecordsLocked, WroteReadings, WroteRecord
<1>15. CASE Abort
  BY <1>15 DEF Abort, Rollback, TypeOK, Copies, Calls, Locks, TelemetryLocked, RecordsLocked, WroteReadings, WroteRecord
<1>16. QED
  BY <1>1, <1>2, <1>3, <1>4, <1>5, <1>6, <1>7, <1>8, <1>9, <1>10, <1>11, <1>12, <1>13, <1>14, <1>15 DEF Next, CallStep, MigrationStep, GiveUp

\* A sequence starts again only when no call holds an id of the old one.
LEMMA DrawsStep ==
    ASSUME TypeOK, Locks, Copies, Calls, Draws, [Next]_vars
    PROVE  Draws'
<1> USE MigrationAssumption DEF vars, tables, sequences, callVars, runVars
<1>1. CASE UNCHANGED vars
  BY <1>1 DEF TypeOK, Copies, Calls, Draws, Locks, TelemetryLocked, RecordsLocked, WroteReadings, WroteRecord
<1>2. ASSUME NEW w \in Session, NEW r \in {"old", "new"}, Begin(w, r) PROVE Draws'
  BY <1>2 DEF Begin, GoTo, TypeOK, Copies, Calls, Draws, Locks, TelemetryLocked, RecordsLocked, WroteReadings, WroteRecord
<1>3. ASSUME NEW w \in Session, InsertRecord(w) PROVE Draws'
  <2>1. CASE version = 3 /\ lastRecord + 1 \notin records
    BY <1>3, <2>1 DEF InsertRecord, Stop, GoTo, TypeOK, Copies, Calls, Draws, Locks, TelemetryLocked, RecordsLocked, WroteReadings, WroteRecord
  <2>2. CASE ~ (version = 3 /\ lastRecord + 1 \notin records)
    BY <1>3, <2>2 DEF InsertRecord, Stop, GoTo, TypeOK, Copies, Calls, Draws, Locks, TelemetryLocked, RecordsLocked, WroteReadings, WroteRecord
  <2>3. QED
    BY <2>1, <2>2
<1>4. ASSUME NEW w \in Session, NEW n \in 1..2, InsertReadings(w, n) PROVE Draws'
  <2>1. CASE (release[w] = "new") <=> (version = 3)
    BY <1>4, <2>1 DEF InsertReadings, Stop, GoTo, TypeOK, Copies, Calls, Draws, Locks, TelemetryLocked, RecordsLocked, WroteReadings, WroteRecord
  <2>2. CASE ~ ((release[w] = "new") <=> (version = 3))
    BY <1>4, <2>2 DEF InsertReadings, Stop, GoTo, TypeOK, Copies, Calls, Draws, Locks, TelemetryLocked, RecordsLocked, WroteReadings, WroteRecord
  <2>3. QED
    BY <2>1, <2>2
<1>5. ASSUME NEW w \in Session, Commit(w) PROVE Draws'
  BY <1>5 DEF Commit, Stop, GoTo, TypeOK, Copies, Calls, Draws, Locks, TelemetryLocked, RecordsLocked, WroteReadings, WroteRecord
<1>6. ASSUME NEW w \in Session, Fail(w) PROVE Draws'
  BY <1>6 DEF Fail, Stop, GoTo, TypeOK, Copies, Calls, Draws, Locks, TelemetryLocked, RecordsLocked, WroteReadings, WroteRecord
<1>7. CASE BeginUpgrade
  BY <1>7 DEF BeginUpgrade, TypeOK, Copies, Calls, Draws, Locks, TelemetryLocked, RecordsLocked, WroteReadings, WroteRecord
<1>8. CASE CopyReadings
  BY <1>8 DEF CopyReadings, MGoTo, TypeOK, Copies, Calls, Draws, Locks, TelemetryLocked, RecordsLocked, WroteReadings, WroteRecord
<1>9. CASE AddRecordId
  BY <1>9 DEF AddRecordId, MGoTo, Rollback, TypeOK, Copies, Calls, Draws, Locks, TelemetryLocked, RecordsLocked, WroteReadings, WroteRecord
<1>10. CASE SetSequence
  BY <1>10 DEF SetSequence, MGoTo, TypeOK, Copies, Calls, Draws, Locks, TelemetryLocked, RecordsLocked, WroteReadings, WroteRecord
<1>11. CASE CommitUpgrade
  BY <1>11 DEF CommitUpgrade, TypeOK, Copies, Calls, Draws, Locks, TelemetryLocked, RecordsLocked, WroteReadings, WroteRecord
<1>12. CASE BeginDowngrade
  BY <1>12 DEF BeginDowngrade, TypeOK, Copies, Calls, Draws, Locks, TelemetryLocked, RecordsLocked, WroteReadings, WroteRecord
<1>13. CASE DropRecords
  BY <1>13 DEF DropRecords, MGoTo, TypeOK, Copies, Calls, Draws, Locks, TelemetryLocked, RecordsLocked, WroteReadings, WroteRecord
<1>14. CASE CommitDowngrade
  BY <1>14 DEF CommitDowngrade, TypeOK, Copies, Calls, Draws, Locks, TelemetryLocked, RecordsLocked, WroteReadings, WroteRecord
<1>15. CASE Abort
  BY <1>15 DEF Abort, Rollback, TypeOK, Copies, Calls, Draws, Locks, TelemetryLocked, RecordsLocked, WroteReadings, WroteRecord
<1>16. QED
  BY <1>1, <1>2, <1>3, <1>4, <1>5, <1>6, <1>7, <1>8, <1>9, <1>10, <1>11, <1>12, <1>13, <1>14, <1>15 DEF Next, CallStep, MigrationStep, GiveUp

\* Readings are committed with their record, or have been copied.
LEMMA RecordedStep ==
    ASSUME TypeOK, Locks, Copies, Calls, ReadingsRecorded, [Next]_vars
    PROVE  ReadingsRecorded'
<1> USE MigrationAssumption DEF vars, tables, sequences, callVars, runVars
<1>1. CASE UNCHANGED vars
  BY <1>1 DEF TypeOK, Row, Ids, Copies, Calls, ReadingsRecorded, Locks, TelemetryLocked, RecordsLocked, WroteReadings, WroteRecord
<1>2. ASSUME NEW w \in Session, NEW r \in {"old", "new"}, Begin(w, r) PROVE ReadingsRecorded'
  BY <1>2 DEF Begin, GoTo, TypeOK, Row, Ids, Copies, Calls, ReadingsRecorded, Locks, TelemetryLocked, RecordsLocked, WroteReadings, WroteRecord
<1>3. ASSUME NEW w \in Session, InsertRecord(w) PROVE ReadingsRecorded'
  <2>1. CASE version = 3 /\ lastRecord + 1 \notin records
    BY <1>3, <2>1 DEF InsertRecord, Stop, GoTo, TypeOK, Row, Ids, Copies, Calls, ReadingsRecorded, Locks, TelemetryLocked, RecordsLocked, WroteReadings, WroteRecord
  <2>2. CASE ~ (version = 3 /\ lastRecord + 1 \notin records)
    BY <1>3, <2>2 DEF InsertRecord, Stop, GoTo, TypeOK, Row, Ids, Copies, Calls, ReadingsRecorded, Locks, TelemetryLocked, RecordsLocked, WroteReadings, WroteRecord
  <2>3. QED
    BY <2>1, <2>2
<1>4. ASSUME NEW w \in Session, NEW n \in 1..2, InsertReadings(w, n) PROVE ReadingsRecorded'
  <2>1. CASE (release[w] = "new") <=> (version = 3)
    BY <1>4, <2>1 DEF InsertReadings, Stop, GoTo, TypeOK, Row, Ids, Copies, Calls, ReadingsRecorded, Locks, TelemetryLocked, RecordsLocked, WroteReadings, WroteRecord
  <2>2. CASE ~ ((release[w] = "new") <=> (version = 3))
    BY <1>4, <2>2 DEF InsertReadings, Stop, GoTo, TypeOK, Row, Ids, Copies, Calls, ReadingsRecorded, Locks, TelemetryLocked, RecordsLocked, WroteReadings, WroteRecord
  <2>3. QED
    BY <2>1, <2>2
<1>5. ASSUME NEW w \in Session, Commit(w) PROVE ReadingsRecorded'
  BY <1>5 DEF Commit, Stop, GoTo, TypeOK, Row, Ids, Copies, Calls, ReadingsRecorded, Locks, TelemetryLocked, RecordsLocked, WroteReadings, WroteRecord
<1>6. ASSUME NEW w \in Session, Fail(w) PROVE ReadingsRecorded'
  BY <1>6 DEF Fail, Stop, GoTo, TypeOK, Row, Ids, Copies, Calls, ReadingsRecorded, Locks, TelemetryLocked, RecordsLocked, WroteReadings, WroteRecord
<1>7. CASE BeginUpgrade
  BY <1>7 DEF BeginUpgrade, TypeOK, Row, Ids, Copies, Calls, ReadingsRecorded, Locks, TelemetryLocked, RecordsLocked, WroteReadings, WroteRecord
<1>8. CASE CopyReadings
  BY <1>8 DEF CopyReadings, MGoTo, TypeOK, Row, Ids, Copies, Calls, ReadingsRecorded, Locks, TelemetryLocked, RecordsLocked, WroteReadings, WroteRecord
<1>9. CASE AddRecordId
  BY <1>9 DEF AddRecordId, MGoTo, Rollback, TypeOK, Row, Ids, Copies, Calls, ReadingsRecorded, Locks, TelemetryLocked, RecordsLocked, WroteReadings, WroteRecord
<1>10. CASE SetSequence
  BY <1>10 DEF SetSequence, MGoTo, TypeOK, Row, Ids, Copies, Calls, ReadingsRecorded, Locks, TelemetryLocked, RecordsLocked, WroteReadings, WroteRecord
<1>11. CASE CommitUpgrade
  BY <1>11 DEF CommitUpgrade, TypeOK, Row, Ids, Copies, Calls, ReadingsRecorded, Locks, TelemetryLocked, RecordsLocked, WroteReadings, WroteRecord
<1>12. CASE BeginDowngrade
  BY <1>12 DEF BeginDowngrade, TypeOK, Row, Ids, Copies, Calls, ReadingsRecorded, Locks, TelemetryLocked, RecordsLocked, WroteReadings, WroteRecord
<1>13. CASE DropRecords
  BY <1>13 DEF DropRecords, MGoTo, TypeOK, Row, Ids, Copies, Calls, ReadingsRecorded, Locks, TelemetryLocked, RecordsLocked, WroteReadings, WroteRecord
<1>14. CASE CommitDowngrade
  BY <1>14 DEF CommitDowngrade, TypeOK, Row, Ids, Copies, Calls, ReadingsRecorded, Locks, TelemetryLocked, RecordsLocked, WroteReadings, WroteRecord
<1>15. CASE Abort
  BY <1>15 DEF Abort, Rollback, TypeOK, Row, Ids, Copies, Calls, ReadingsRecorded, Locks, TelemetryLocked, RecordsLocked, WroteReadings, WroteRecord
<1>16. QED
  BY <1>1, <1>2, <1>3, <1>4, <1>5, <1>6, <1>7, <1>8, <1>9, <1>10, <1>11, <1>12, <1>13, <1>14, <1>15 DEF Next, CallStep, MigrationStep, GiveUp

\* The sequence goes on after the last id copied.
LEMMA FreshStep ==
    ASSUME TypeOK, Locks, Copies, Calls, Draws, IdsFresh, [Next]_vars
    PROVE  IdsFresh'
<1> USE MigrationAssumption DEF vars, tables, sequences, callVars, runVars
<1>1. CASE UNCHANGED vars
  BY <1>1 DEF TypeOK, Copies, Calls, Draws, IdsFresh, Locks, TelemetryLocked, RecordsLocked, WroteReadings, WroteRecord
<1>2. ASSUME NEW w \in Session, NEW r \in {"old", "new"}, Begin(w, r) PROVE IdsFresh'
  BY <1>2 DEF Begin, GoTo, TypeOK, Copies, Calls, Draws, IdsFresh, Locks, TelemetryLocked, RecordsLocked, WroteReadings, WroteRecord
<1>3. ASSUME NEW w \in Session, InsertRecord(w) PROVE IdsFresh'
  <2>1. CASE version = 3 /\ lastRecord + 1 \notin records
    BY <1>3, <2>1 DEF InsertRecord, Stop, GoTo, TypeOK, Copies, Calls, Draws, IdsFresh, Locks, TelemetryLocked, RecordsLocked, WroteReadings, WroteRecord
  <2>2. CASE ~ (version = 3 /\ lastRecord + 1 \notin records)
    BY <1>3, <2>2 DEF InsertRecord, Stop, GoTo, TypeOK, Copies, Calls, Draws, IdsFresh, Locks, TelemetryLocked, RecordsLocked, WroteReadings, WroteRecord
  <2>3. QED
    BY <2>1, <2>2
<1>4. ASSUME NEW w \in Session, NEW n \in 1..2, InsertReadings(w, n) PROVE IdsFresh'
  <2>1. CASE (release[w] = "new") <=> (version = 3)
    BY <1>4, <2>1 DEF InsertReadings, Stop, GoTo, TypeOK, Copies, Calls, Draws, IdsFresh, Locks, TelemetryLocked, RecordsLocked, WroteReadings, WroteRecord
  <2>2. CASE ~ ((release[w] = "new") <=> (version = 3))
    BY <1>4, <2>2 DEF InsertReadings, Stop, GoTo, TypeOK, Copies, Calls, Draws, IdsFresh, Locks, TelemetryLocked, RecordsLocked, WroteReadings, WroteRecord
  <2>3. QED
    BY <2>1, <2>2
<1>5. ASSUME NEW w \in Session, Commit(w) PROVE IdsFresh'
  BY <1>5 DEF Commit, Stop, GoTo, TypeOK, Copies, Calls, Draws, IdsFresh, Locks, TelemetryLocked, RecordsLocked, WroteReadings, WroteRecord
<1>6. ASSUME NEW w \in Session, Fail(w) PROVE IdsFresh'
  BY <1>6 DEF Fail, Stop, GoTo, TypeOK, Copies, Calls, Draws, IdsFresh, Locks, TelemetryLocked, RecordsLocked, WroteReadings, WroteRecord
<1>7. CASE BeginUpgrade
  BY <1>7 DEF BeginUpgrade, TypeOK, Copies, Calls, Draws, IdsFresh, Locks, TelemetryLocked, RecordsLocked, WroteReadings, WroteRecord
<1>8. CASE CopyReadings
  BY <1>8 DEF CopyReadings, MGoTo, TypeOK, Copies, Calls, Draws, IdsFresh, Locks, TelemetryLocked, RecordsLocked, WroteReadings, WroteRecord
<1>9. CASE AddRecordId
  BY <1>9 DEF AddRecordId, MGoTo, Rollback, TypeOK, Copies, Calls, Draws, IdsFresh, Locks, TelemetryLocked, RecordsLocked, WroteReadings, WroteRecord
<1>10. CASE SetSequence
  BY <1>10 DEF SetSequence, MGoTo, TypeOK, Copies, Calls, Draws, IdsFresh, Locks, TelemetryLocked, RecordsLocked, WroteReadings, WroteRecord
<1>11. CASE CommitUpgrade
  BY <1>11 DEF CommitUpgrade, TypeOK, Copies, Calls, Draws, IdsFresh, Locks, TelemetryLocked, RecordsLocked, WroteReadings, WroteRecord
<1>12. CASE BeginDowngrade
  BY <1>12 DEF BeginDowngrade, TypeOK, Copies, Calls, Draws, IdsFresh, Locks, TelemetryLocked, RecordsLocked, WroteReadings, WroteRecord
<1>13. CASE DropRecords
  BY <1>13 DEF DropRecords, MGoTo, TypeOK, Copies, Calls, Draws, IdsFresh, Locks, TelemetryLocked, RecordsLocked, WroteReadings, WroteRecord
<1>14. CASE CommitDowngrade
  BY <1>14 DEF CommitDowngrade, TypeOK, Copies, Calls, Draws, IdsFresh, Locks, TelemetryLocked, RecordsLocked, WroteReadings, WroteRecord
<1>15. CASE Abort
  BY <1>15 DEF Abort, Rollback, TypeOK, Copies, Calls, Draws, IdsFresh, Locks, TelemetryLocked, RecordsLocked, WroteReadings, WroteRecord
<1>16. QED
  BY <1>1, <1>2, <1>3, <1>4, <1>5, <1>6, <1>7, <1>8, <1>9, <1>10, <1>11, <1>12, <1>13, <1>14, <1>15 DEF Next, CallStep, MigrationStep, GiveUp

\* The schema change of 0003 and the calls of ingest it meets, of any number of
\* sessions: types, locks, the copy, and the properties of both.
THEOREM MigrationInvariance == Spec => []MigrationInv
<1>1. Init => MigrationInv
  BY MigrationAssumption DEF Init, MigrationInv, TypeOK, Row, Ids, Copies, Calls, Draws, ReadingsRecorded, IdsFresh,
     Locks, TelemetryLocked, RecordsLocked, WroteReadings, WroteRecord
<1>2. MigrationInv /\ [Next]_vars => MigrationInv'
  <2> SUFFICES ASSUME MigrationInv, [Next]_vars PROVE MigrationInv'
    OBVIOUS
  <2> USE DEF MigrationInv
  <2>1. TypeOK'
    BY TypeStep
  <2>2. Locks'
    BY LocksStep
  <2>3. Copies'
    BY CopiesStep
  <2>4. Calls'
    BY CallsStep
  <2>5. Draws'
    BY DrawsStep
  <2>6. ReadingsRecorded'
    BY RecordedStep
  <2>7. IdsFresh'
    BY FreshStep
  <2>8. QED
    BY <2>1, <2>2, <2>3, <2>4, <2>5, <2>6, <2>7
<1>3. QED
  BY <1>1, <1>2, PTL DEF Spec

\* With 0003 in place every reading has a record (0003:20-31), although calls of
\* the previous release went on committing readings while it ran.
THEOREM ReadingsKept == Spec => []ReadingsRecorded
<1>1. MigrationInv => ReadingsRecorded
  BY DEF MigrationInv
<1>2. QED
  BY <1>1, MigrationInvariance, PTL

\* No call is refused for the id of a copied record (0003:32-37).
THEOREM IdsHold == Spec => []IdsFresh
<1>1. MigrationInv => IdsFresh
  BY DEF MigrationInv
<1>2. QED
  BY <1>1, MigrationInvariance, PTL
=============================================================================
