------------------------- MODULE IngestRacesProofs -------------------------
(***************************************************************************)
(* Proofs about IngestRaces: what is left of the store's promise when       *)
(* telemetry is cleared while it is delivered, for any number of clears,    *)
(* removals, deliveries and sessions.                                       *)
(***************************************************************************)
EXTENDS IngestRaces, IngestStoreProofs

\* What a commit of ingest adds; its receipt is new and nobody is deleting it.
LEMMA CommitAdds ==
    ASSUME StoreInv, NEW w \in Worker, NEW result \in {"accepted", "raised"},
           Commit(w, result)
    PROVE  /\ receipts' = receipts \cup {msg[w]} /\ records' = records \cup NewRecords(w)
           /\ readings' = readings \cup NewReadings(w)
           /\ \A r \in NewRecords(w) : r = [id |-> recordId[w], msg |-> msg[w]]
           /\ UNCHANGED <<apc, aop, adev, todo, gone>>
           /\ msg[w] \in Msg /\ msg[w] \notin receipts
           /\ \A a \in Admin : msg[w] \notin todo[a].receipts \cup gone[a].receipts
<1>1. /\ receipts' = receipts \cup {msg[w]} /\ records' = records \cup NewRecords(w)
      /\ readings' = readings \cup NewReadings(w)
      /\ UNCHANGED <<apc, aop, adev, todo, gone>> /\ Holds(w)
  BY DEF Commit, adminVars, Holds
<1>2. msg[w] \in Msg /\ msg[w] \notin receipts
  BY <1>1, StoreAssumption DEF StoreInv, HeldReceipts, Holds, TypeOK, CallsOK
<1>3. \A a \in Admin : todo[a].receipts \subseteq receipts /\ gone[a].receipts \subseteq receipts
  BY DEF StoreInv, DeletedWhole
<1>4. QED
  BY <1>1, <1>2, <1>3 DEF NewRecords

\* What a committed request takes away.
LEMMA DeleteTakes ==
    ASSUME NEW a \in Admin, CommitDelete(a)
    PROVE  /\ receipts' = receipts \ gone[a].receipts /\ records' = records \ gone[a].records
           /\ readings' = readings \ gone[a].readings
  BY DEF CommitDelete

\* A record whose receipt a request takes away goes with it, unless raced.
LEMMA TakenTogether ==
    ASSUME RaceInv, NEW a \in Admin, CommitDelete(a), NEW r \in records,
           r.msg \in gone[a].receipts
    PROVE  r \in gone[a].records \/ r.msg \in raced
<1>1. StoreInv /\ RequestsOK /\ NoneMissed
  BY DEF RaceInv, StoreInv, TypeOK
<1>2. CASE Clears(a)
  BY <1>1, <1>2 DEF NoneMissed, CommitDelete, Clears
<1>3. CASE aop[a] = "remove"
  <2>1. DeviceOf[r.msg] = adev[a]
    BY <1>1 DEF StoreInv, Removals
  <2>2. QED
    BY <1>1, <1>3, <2>1, RemovalTakesAll
<1>4. QED
  BY <1>1, <1>2, <1>3, StoreAssumption DEF CommitDelete, RequestsOK, Clears

-----------------------------------------------------------------------------
\* Records keep their receipts, and stay single, except for raced messages.
LEMMA CoveredStep ==
    ASSUME RaceInv, RaceNext \/ UNCHANGED raceVars
    PROVE  (OneRecordUnlessRaced /\ CoveredUnlessRaced)'
<1> USE DEF OneRecordUnlessRaced, CoveredUnlessRaced
<1>0. /\ StoreInv /\ TypeOK /\ OneRecordUnlessRaced /\ CoveredUnlessRaced
      /\ raced \subseteq raced' /\ [Next]_vars
  BY DEF RaceInv, StoreInv, RaceNext, raceVars
<1>1. Shape
  BY <1>0, NextShape
<1>2. CASE UNCHANGED <<receipts, records>>
  BY <1>0, <1>2
<1>3. ASSUME NEW w \in Worker, NEW result \in {"accepted", "raised"}, Commit(w, result)
      PROVE  (OneRecordUnlessRaced /\ CoveredUnlessRaced)'
  <2>1. /\ receipts' = receipts \cup {msg[w]} /\ records' = records \cup NewRecords(w)
        /\ \A r \in NewRecords(w) : r = [id |-> recordId[w], msg |-> msg[w]]
        /\ msg[w] \notin receipts
    BY <1>3, CommitAdds DEF RaceInv
  <2>2. \A r \in records : r.msg = msg[w] => r.msg \in raced
    BY <1>0, <2>1
  <2>3. QED
    BY <1>0, <2>1, <2>2
<1>4. ASSUME NEW a \in Admin, CommitDelete(a)
      PROVE  (OneRecordUnlessRaced /\ CoveredUnlessRaced)'
  <2>1. receipts' = receipts \ gone[a].receipts /\ records' = records \ gone[a].records
    BY <1>4, DeleteTakes
  <2>2. ASSUME NEW r \in records' PROVE r.msg \in receipts' \cup raced'
    BY <1>0, <1>4, <2>1, <2>2, TakenTogether
  <2>3. QED
    BY <1>0, <2>1, <2>2
<1>5. QED
  BY <1>1, <1>2, <1>3, <1>4 DEF Shape, QuietCall, Acquire, Keep, QuietRequest, Reconfigure,
     committed

\* The promises about one request.
Missed(a) ==
    Clears(a) =>
        /\ apc[a] = "records" =>
              \A r \in RecordsOf(adev[a]) :
                  r \in todo[a].records \cup gone[a].records \/ r.msg \in raced
        /\ apc[a] = "receipts" =>
              \A r \in records : r.msg \in todo[a].receipts \cup gone[a].receipts =>
                  r \in gone[a].records \/ r.msg \in raced
Left(a) ==
    apc[a] \in {"receipts", "devices"} =>
        \A r \in gone[a].records : r.msg \in todo[a].receipts \cup gone[a].receipts \cup raced

\* A request another's step leaves alone keeps them.
LEMMA OthersKeep ==
    ASSUME NEW b \in Admin, Missed(b) /\ Left(b), raced \subseteq raced', UNCHANGED records,
           apc'[b] = apc[b], aop'[b] = aop[b], adev'[b] = adev[b],
           todo'[b] = todo[b], gone'[b] = gone[b]
    PROVE  Missed(b)' /\ Left(b)'
  BY DEF Missed, Left, Clears, RecordsOf

\* A request before its second statement, or one that has ended, promises nothing.
LEMMA NothingPromised ==
    ASSUME NEW a \in Admin, apc'[a] \in {"idle", "begun", "readings"}
    PROVE  Missed(a)' /\ Left(a)'
  BY DEF Missed, Left

\* Taking a row moves it from one set to the other.
LEMMA TakeKeeps ==
    ASSUME RequestsOK, NEW a \in Admin, NEW kind \in Kinds, Take(a, kind),
           Missed(a) /\ Left(a), raced \subseteq raced',
           apc[a] # kind => todo[a][kind] = {}
    PROVE  Missed(a)' /\ Left(a)'
<1>1. apc[a] = kind
  BY DEF Take
<1>2. /\ UNCHANGED <<records, apc, aop, adev>>
      /\ \A k \in Kinds \ {kind} : todo'[a][k] = todo[a][k] /\ gone'[a][k] = gone[a][k]
      /\ todo'[a][kind] \cup gone'[a][kind] = todo[a][kind] \cup gone[a][kind]
      /\ gone[a][kind] \subseteq gone'[a][kind]
  BY TakeMoves DEF committed
<1>3. CASE kind = "readings"
  BY <1>1, <1>2, <1>3, NothingPromised
<1>4. CASE kind = "records"
  <2>1. todo'[a].records \cup gone'[a].records = todo[a].records \cup gone[a].records
    BY <1>2, <1>4
  <2>2. QED
    BY <1>1, <1>2, <1>4, <2>1 DEF Missed, Left, Clears, RecordsOf
<1>5. CASE kind = "receipts" \/ kind = "devices"
  <2>1. /\ gone'[a].records = gone[a].records
        /\ todo'[a].receipts \cup gone'[a].receipts = todo[a].receipts \cup gone[a].receipts
    BY <1>2, <1>5 DEF Kinds
  <2>2. QED
    BY <1>1, <1>2, <1>5, <2>1 DEF Missed, Left, Clears
<1>6. QED
  BY <1>3, <1>4, <1>5 DEF Kinds

\* A clear that deletes records misses only what is committed now, which counts as
\* raced; the statement after it deletes the receipt of every record deleted.
LEMMA ClearsStep ==
    ASSUME RaceInv, RaceNext \/ UNCHANGED raceVars
    PROVE  NoneMissed' /\ NoneLeft'
<1> USE DEF committed, adminVars
<1>0. /\ RequestsOK /\ RowsOK /\ StoreInv /\ CoveredUnlessRaced /\ raced \subseteq raced' /\ [Next]_vars
      /\ \A a \in Admin : Missed(a) /\ Left(a)
  BY DEF RaceInv, StoreInv, TypeOK, RaceNext, raceVars, NoneMissed, NoneLeft, Missed, Left
<1> SUFFICES \A a \in Admin : Missed(a)' /\ Left(a)'
  BY DEF NoneMissed, NoneLeft, Missed, Left
<1>1. CASE UNCHANGED <<records, adminVars>>
  BY <1>0, <1>1, OthersKeep
<1>2. ASSUME NEW w \in Worker, NEW result \in {"accepted", "raised"}, Commit(w, result),
             NEW a \in Admin
      PROVE  Missed(a)' /\ Left(a)'
  <2>1. /\ receipts' = receipts \cup {msg[w]} /\ records' = records \cup NewRecords(w)
        /\ \A r \in NewRecords(w) : r = [id |-> recordId[w], msg |-> msg[w]]
        /\ UNCHANGED <<apc, aop, adev, todo, gone>>
        /\ msg[w] \notin receipts
        /\ msg[w] \notin todo[a].receipts \cup gone[a].receipts
    BY <1>0, <1>2, CommitAdds
  <2>2. raced' = raced \cup Gapped
    BY <2>1 DEF RaceNext, raceVars, vars
  <2>3. ASSUME Clears(a), apc[a] = "records", NEW r \in NewRecords(w), DeviceOf[r.msg] = adev[a]
        PROVE  r.msg \in raced'
    BY <2>1, <2>2, <2>3 DEF Gapped, Clears
  <2>4. Missed(a)'
    BY <1>0, <2>1, <2>3 DEF Missed, Clears, RecordsOf
  <2>5. Left(a)'
    BY <1>0, <2>1 DEF Left
  <2>6. QED
    BY <2>4, <2>5
<1>3. ASSUME NEW a \in Admin, NEW op \in DeleteOps, NEW d \in Device, BeginDelete(a, op, d),
             NEW b \in Admin
      PROVE  Missed(b)' /\ Left(b)'
  <2>1. /\ apc'[a] = "begun" /\ UNCHANGED <<records, todo, gone>>
        /\ \A c \in Admin \ {a} : apc'[c] = apc[c] /\ aop'[c] = aop[c] /\ adev'[c] = adev[c]
    BY <1>0, <1>3 DEF BeginDelete, AGoTo, RequestsOK
  <2>2. QED
    BY <1>0, <2>1, OthersKeep, NothingPromised
<1>4. ASSUME NEW a \in Admin, NEW before, NEW kind, Starts(a, before, kind),
             Missed(a)' /\ Left(a)', NEW b \in Admin
      PROVE  Missed(b)' /\ Left(b)'
  BY <1>0, <1>4, OthersKeep DEF Starts
<1>5. ASSUME NEW a \in Admin, DeleteReadings(a), NEW b \in Admin PROVE Missed(b)' /\ Left(b)'
  <2>1. Starts(a, "begun", "readings")
    BY <1>0, <1>5, DeleteStarts
  <2>2. Missed(a)' /\ Left(a)'
    BY <2>1, NothingPromised DEF Starts
  <2>3. QED
    BY <1>4, <2>1, <2>2
<1>6. ASSUME NEW a \in Admin, DeleteRecords(a), NEW b \in Admin PROVE Missed(b)' /\ Left(b)'
  <2>1. Starts(a, "readings", "records")
    BY <1>0, <1>6, DeleteStarts
  <2>2. Missed(a)' /\ Left(a)'
    BY <2>1 DEF Starts, Missed, Left, RecordsOf
  <2>3. QED
    BY <1>4, <2>1, <2>2
<1>7. ASSUME NEW a \in Admin, DeleteReceipts(a), NEW b \in Admin PROVE Missed(b)' /\ Left(b)'
  <2>1. Starts(a, "records", "receipts")
    BY <1>0, <1>7, DeleteStarts
  <2>2. todo[a].records = {} /\ gone[a].receipts = {}
    BY <1>0, <2>1 DEF Starts, Finished, Nothing, StoreInv, DeletedSoFar
  <2>3. Missed(a)'
    <3>1. \A r \in records : r.msg \in ReceiptsOf(adev[a]) => r \in RecordsOf(adev[a])
      BY DEF ReceiptsOf, RecordsOf
    <3>2. Clears(a) => \A r \in RecordsOf(adev[a]) : r \in gone[a].records \/ r.msg \in raced
      BY <1>0, <2>1, <2>2 DEF Starts, Missed
    <3>3. QED
      BY <1>0, <2>1, <2>2, <3>1, <3>2 DEF Starts, Missed, Clears
  <2>4. Left(a)'
    <3>1. ASSUME NEW r \in gone[a].records PROVE r.msg \in ReceiptsOf(adev[a]) \cup raced
      <4>1. r \in records /\ DeviceOf[r.msg] = adev[a]
        BY <1>0, <3>1 DEF StoreInv, DeletedWhole, Removals
      <4>2. QED
        BY <1>0, <4>1 DEF CoveredUnlessRaced, ReceiptsOf
    <3>2. QED
      BY <1>0, <2>1, <3>1 DEF Starts, Left
  <2>5. QED
    BY <1>4, <2>1, <2>3, <2>4
<1>8. ASSUME NEW a \in Admin, DeleteDevice(a), NEW b \in Admin PROVE Missed(b)' /\ Left(b)'
  <2>1. Starts(a, "receipts", "devices")
    BY <1>0, <1>8, DeleteStarts
  <2>2. todo[a].receipts = {}
    BY <2>1 DEF Starts, Finished, Nothing
  <2>3. Missed(a)' /\ Left(a)'
    BY <1>0, <2>1, <2>2 DEF Starts, Missed, Left
  <2>4. QED
    BY <1>4, <2>1, <2>3
<1>9. ASSUME NEW a \in Admin, NEW kind \in Kinds, Take(a, kind), NEW b \in Admin
      PROVE  Missed(b)' /\ Left(b)'
  <2>1. Missed(a)' /\ Left(a)'
    BY <1>0, <1>9, TakeKeeps DEF StoreInv, DeletedSoFar
  <2>2. /\ UNCHANGED <<records, apc, aop, adev>>
        /\ \A c \in Admin \ {a} : todo'[c] = todo[c] /\ gone'[c] = gone[c]
    BY <1>0, <1>9, TakeMoves
  <2>3. QED
    BY <1>0, <2>1, <2>2, OthersKeep
<1>10. ASSUME NEW a \in Admin, ReferenceFound(a) \/ AbortDelete(a), NEW b \in Admin
       PROVE  Missed(b)' /\ Left(b)'
  <2>1. /\ apc'[a] = "idle" /\ UNCHANGED records
        /\ \A c \in Admin \ {a} : /\ apc'[c] = apc[c] /\ aop'[c] = aop[c] /\ adev'[c] = adev[c]
                                  /\ todo'[c] = todo[c] /\ gone'[c] = gone[c]
    BY <1>0, <1>10, EndForgets DEF ReferenceFound, AbortDelete
  <2>2. QED
    BY <1>0, <2>1, OthersKeep, NothingPromised
<1>11. ASSUME NEW a \in Admin, CommitDelete(a), NEW b \in Admin PROVE Missed(b)' /\ Left(b)'
  <2>1. CASE b = a
    BY <1>0, <1>11, <2>1, CommitForgets, NothingPromised
  <2>2. CASE b # a
    <3>1. /\ apc'[b] = apc[b] /\ aop'[b] = aop[b] /\ adev'[b] = adev[b] /\ gone'[b] = gone[b]
          /\ todo'[b].records = todo[b].records \ gone[a].records
          /\ todo'[b].receipts = todo[b].receipts \ gone[a].receipts
          /\ records' = records \ gone[a].records
      BY <1>0, <1>11, <2>2, CommitForgets, DeleteTakes
    <3>2. Missed(b)'
      BY <1>0, <3>1 DEF Missed, Clears, RecordsOf
    <3>3. ASSUME NEW r \in gone[b].records, r.msg \in gone[a].receipts PROVE r.msg \in raced
      <4>1. r \in records /\ r \notin gone[a].records
        BY <1>0, <2>2, <3>3 DEF StoreInv, DeletedWhole
      <4>2. QED
        BY <1>11, <3>3, <4>1, TakenTogether
    <3>4. Left(b)'
      BY <1>0, <3>1, <3>3 DEF Left
    <3>5. QED
      BY <3>2, <3>4
  <2>3. QED
    BY <2>1, <2>2
<1>12. QED
  BY <1>0, <1>1, <1>2, <1>3, <1>5, <1>6, <1>7, <1>8, <1>9, <1>10, <1>11
     DEF Next, vars, Begin, IngestStep, Fail, DeleteStep, ConfigStep,
         ReadDevice, ReadReceipt, ReadParams, InsertReceipt, InsertRecord, Recheck,
         AddDevice, UpdateDevice, AddParameter, UpdateParameter, RemoveParameter, SetParam

-----------------------------------------------------------------------------
\* An empty store that nothing has raced with.
LEMMA RaceInitial == RaceInit => RaceInv
<1> SUFFICES ASSUME RaceInit PROVE RaceInv
  OBVIOUS
<1>1. StoreInv
  BY StoreInit DEF RaceInit
<1>2. QED
  BY <1>1 DEF RaceInit, Init, RaceInv, OneRecordUnlessRaced, CoveredUnlessRaced, NoneMissed,
     NoneLeft, Clears

\* Every statement of every session keeps the invariant.
LEMMA RaceStep == RaceInv /\ [RaceNext]_raceVars => RaceInv'
<1> SUFFICES ASSUME RaceInv, RaceNext \/ UNCHANGED raceVars PROVE RaceInv'
  OBVIOUS
<1>1. StoreInv /\ [Next]_vars
  BY DEF RaceInv, RaceNext, raceVars
<1>2. StoreInv'
  BY <1>1, StoreStep
<1>3. (OneRecordUnlessRaced /\ CoveredUnlessRaced)' /\ NoneMissed' /\ NoneLeft'
  BY CoveredStep, ClearsStep
<1>4. QED
  BY <1>2, <1>3 DEF RaceInv

\* Deleted rows, their receipts and what was raced, for all clears and removals.
THEOREM RaceInvariance == RaceSpec => []RaceInv
  BY RaceInitial, RaceStep, PTL DEF RaceSpec

\* Whatever is cleared and removed, a second record of a message means that a
\* delivery of it committed between two statements of a clear (api.py:272-274):
\* there is no other way to lose "one registry entry per accepted device
\* transmission" (models.py:52).
THEOREM OneRecordButRaced == RaceSpec => []OneRecordUnlessRaced
<1>1. RaceInv => OneRecordUnlessRaced
  BY DEF RaceInv
<1>2. QED
  BY <1>1, RaceInvariance, PTL

\* The history variable takes no behaviour away: what holds of Spec holds here.
LEMMA RacesRefine == RaceSpec => Spec
<1>1. RaceInit => Init
  BY DEF RaceInit
<1>2. [RaceNext]_raceVars => [Next]_vars
  BY DEF RaceNext, raceVars
<1>3. QED
  BY <1>1, <1>2, PTL DEF RaceSpec, Spec

\* What holds with clears in use is not lost by remembering the races.
COROLLARY RacesKeepPromises ==
    RaceSpec => HistoryNotRewritten /\ StoredWhileAllowed /\ []DeadlocksOfDeletes
  BY RacesRefine, HistoryHolds, StoredAllowed, OnlyDeletesDeadlock, PTL

-----------------------------------------------------------------------------
(* Refinement                                                               *)

\* The two halves of the refinement mapping.
Seen == receipts \ raced
Kept == [m \in Msg |-> IF m \in raced THEN {} ELSE {x.param : x \in StoredOf(m)}]

\* What is stored for a message changes only with its record.
LEMMA StoredKept ==
    ASSUME StoreInv, NEW m \in Msg, records' \subseteq records, readings' \subseteq readings,
           \A r \in records : r.msg = m => r \in records',
           \A r \in records, x \in readings :
              r.msg = m /\ x.record = r.id => x \in readings'
    PROVE  StoredOf(m)' = StoredOf(m)
  BY DEF StoredOf

\* A commit of ingest accepts its message, or races with a clear and shows nothing.
LEMMA CommitAcceptsOrRaces ==
    ASSUME RaceInv, NEW w \in Worker, NEW result \in {"accepted", "raised"}, Commit(w, result),
           raced' = raced \cup Gapped
    PROVE  Clearing!ClearingNext \/ UNCHANGED <<Seen, Kept>>
<1>1. StoreInv /\ CoveredUnlessRaced
  BY DEF RaceInv
<1>2. /\ msg[w] \in Msg /\ values[w] \subseteq Param
      /\ msg[w] \notin receipts /\ receipts' = receipts \cup {msg[w]}
  BY <1>1, CommitAdds DEF StoreInv, TypeOK, CallsOK
<1> PICK m \in Msg, approved \in SUBSET Param : m = msg[w] /\ approved = values[w]
  BY <1>2
<1>3. ASSUME NEW n \in Msg, n # m PROVE StoredOf(n)' = StoredOf(n)
  <2>1. \A r \in NewRecords(w) : r.msg # n
    BY <1>1, <1>3, CommitWhole
  <2>2. \A x \in NewReadings(w), r \in records : x.record # r.id
    BY <1>1, CommitWhole
  <2>3. records' = records \cup NewRecords(w) /\ readings' = readings \cup NewReadings(w)
    BY <1>1, CommitWhole
  <2>4. QED
    BY <2>1, <2>2, <2>3 DEF StoredOf
<1>4. Gapped \subseteq {m} /\ (\A n \in Msg : n # m => (n \in raced' <=> n \in raced))
  BY <1>2 DEF Gapped
<1>5. m \notin raced => StoredOf(m) = {}
  BY <1>1, <1>2 DEF CoveredUnlessRaced, StoredOf
<1>6. CASE m \in raced'
  <2>1. Seen' = Seen
    BY <1>2, <1>4, <1>6 DEF Seen
  <2>2. \A n \in Msg : Kept[n]' = Kept[n]
    BY <1>3, <1>4, <1>5, <1>6 DEF Kept
  <2>3. Kept' = Kept
    BY <2>2 DEF Kept
  <2>4. QED
    BY <2>1, <2>3
<1>7. CASE m \notin raced'
  <2>1. raced' = raced /\ m \notin raced
    BY <1>4, <1>7
  <2>2. StoredOf(m)' = NewReadings(w)
    <3>1. \A r \in records : r.msg # m
      BY <1>1, <1>2, <2>1 DEF CoveredUnlessRaced
    <3>2. /\ \A r \in NewRecords(w) : r.msg = m
          /\ \A r \in NewRecords(w), x \in readings : x.record # r.id
          /\ \A x \in NewReadings(w) : \E r \in NewRecords(w) : r.id = x.record
      BY <1>1, CommitWhole
    <3>3. records' = records \cup NewRecords(w) /\ readings' = readings \cup NewReadings(w)
      BY <1>1, CommitWhole
    <3>4. QED
      BY <3>1, <3>2, <3>3 DEF StoredOf
  <2>3. {x.param : x \in NewReadings(w)} = approved
    BY NewParams
  <2>4. Kept' = [Kept EXCEPT ![m] = approved]
    BY <1>3, <2>1, <2>2, <2>3 DEF Kept
  <2>5. m \notin Seen /\ Seen' = Seen \cup {m}
    BY <1>2, <2>1 DEF Seen
  <2>6. Clearing!Accept(m, approved)
    BY <2>4, <2>5 DEF Clearing!Accept, Seen, Kept
  <2>7. QED
    BY <2>6 DEF Clearing!ClearingNext, Clearing!Next
<1>8. QED
  BY <1>6, <1>7

\* A committed clear or removal deletes whole messages of its device.
LEMMA DeleteClears ==
    ASSUME RaceInv, NEW a \in Admin, CommitDelete(a), raced' = raced
    PROVE  Clearing!ClearingNext
<1>1. /\ StoreInv /\ NoneLeft /\ adev[a] \in Device
      /\ apc[a] \in {"receipts", "devices"} /\ todo[a].receipts = {}
  BY DEF RaceInv, StoreInv, TypeOK, RequestsOK, CommitDelete, Finished, Nothing
<1>2. /\ receipts' = receipts \ gone[a].receipts /\ records' = records \ gone[a].records
      /\ readings' = readings \ gone[a].readings
  BY DeleteTakes
<1>3. \A r \in records, x \in readings : x.record = r.id =>
         (x \in gone[a].readings <=> r \in gone[a].records)
  BY <1>1, DeleteWhole
<1> DEFINE ms == {m \in Seen : m \in gone[a].receipts}
<1>4. \A m \in ms : DeviceOf[m] = adev[a]
  BY <1>1 DEF StoreInv, Removals
<1>5. Seen' = Seen \ ms
  BY <1>2 DEF Seen
<1>6. ASSUME NEW m \in Msg, m \in ms PROVE Kept[m]' = {}
  <2>1. m \in gone[a].receipts /\ m \notin raced
    BY <1>6 DEF Seen
  <2>2. \A r \in records : r.msg = m => r \notin records'
    BY <1>2, <2>1, TakenTogether
  <2>3. StoredOf(m)' = {}
    BY <1>2, <2>2 DEF StoredOf
  <2>4. QED
    BY <2>3 DEF Kept
<1>7. ASSUME NEW m \in Msg, m \notin ms PROVE Kept[m]' = Kept[m]
  <2>1. CASE m \in raced
    BY <2>1 DEF Kept
  <2>2. CASE m \notin raced
    <3>1. \A r \in records : r.msg = m => r \notin gone[a].records
      <4>1. gone[a].receipts \subseteq receipts
        BY <1>1 DEF StoreInv, DeletedWhole
      <4>2. QED
        BY <1>1, <1>7, <2>2, <4>1 DEF NoneLeft, Seen
    <3>2. StoredOf(m)' = StoredOf(m)
      BY <1>1, <1>2, <1>3, <3>1, StoredKept
    <3>3. QED
      BY <2>2, <3>2 DEF Kept
  <2>3. QED
    BY <2>1, <2>2
<1>8. Kept' = [m \in Msg |-> IF m \in ms THEN {} ELSE Kept[m]]
  BY <1>6, <1>7 DEF Kept
<1> PICK d \in Device, taken \in SUBSET (receipts \ raced) : d = adev[a] /\ taken = ms
  BY <1>1 DEF Seen
<1>9. Clearing!Clear(d, taken)
  BY <1>4, <1>5, <1>8 DEF Clearing!Clear, Seen, Kept
<1>10. QED
  BY <1>9 DEF Clearing!ClearingNext

\* With clears in use, statement by statement and in any number of sessions, the
\* store keeps the registry's promise for every message no clear has raced with:
\* accepted once, with all that was approved, deleted as a whole.
THEOREM RegistryButRaced == RaceSpec => ImplementsUnlessRaced
<1>1. RaceInit => Clearing!Init
  BY DEF RaceInit, Init, Clearing!Init, StoredOf
<1>2. RaceInv /\ [RaceNext]_raceVars => Clearing!ClearingNext \/ UNCHANGED <<Seen, Kept>>
  <2> SUFFICES ASSUME RaceInv, RaceNext \/ UNCHANGED raceVars
               PROVE  Clearing!ClearingNext \/ UNCHANGED <<Seen, Kept>>
    OBVIOUS
  <2>1. Shape
    <3>1. TypeOK /\ [Next]_vars
      BY DEF RaceInv, StoreInv, RaceNext, raceVars
    <3>2. QED
      BY <3>1, NextShape
  <2>2. CASE UNCHANGED <<receipts, records, readings>>
    <3>1. raced' = raced
      BY <2>2 DEF RaceNext, raceVars, Gapped
    <3>2. QED
      BY <2>2, <3>1 DEF Seen, Kept, StoredOf
  <2>3. ASSUME NEW w \in Worker, NEW result \in {"accepted", "raised"}, Commit(w, result)
        PROVE  Clearing!ClearingNext \/ UNCHANGED <<Seen, Kept>>
    <3>1. receipts' # receipts
      BY <2>3, CommitAdds DEF RaceInv
    <3>2. raced' = raced \cup Gapped
      BY <3>1 DEF RaceNext, raceVars, vars, committed
    <3>3. QED
      BY <2>3, <3>2, CommitAcceptsOrRaces
  <2>4. ASSUME NEW a \in Admin, CommitDelete(a) PROVE Clearing!ClearingNext
    <3>1. raced' = raced
      BY <2>4 DEF CommitDelete, Gapped, RaceNext, raceVars
    <3>2. QED
      BY <2>4, <3>1, DeleteClears
  <2>5. QED
    BY <2>1, <2>2, <2>3, <2>4 DEF Shape, QuietCall, Acquire, Keep, QuietRequest, Reconfigure,
       committed
<1>3. RaceInv /\ [RaceNext]_raceVars =>
        [Clearing!ClearingNext]_<<receipts \ raced,
           [m \in Msg |-> IF m \in raced THEN {} ELSE {x.param : x \in StoredOf(m)}]>>
  BY <1>2 DEF Seen, Kept
<1>4. QED
  BY <1>1, <1>3, RaceInvariance, PTL DEF RaceSpec, ImplementsUnlessRaced, Clearing!ClearingSpec
=============================================================================
