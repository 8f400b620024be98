------------------------- MODULE IngestStoreProofs -------------------------
(***************************************************************************)
(* Proofs about IngestStore for any devices, parameters, messages and       *)
(* sessions.  The invariant is proved part by part: each lemma takes the    *)
(* whole invariant in the current state and gives one part in the next.     *)
(***************************************************************************)
EXTENDS IngestStore, TLAPS

-----------------------------------------------------------------------------
\* A session that moves on within a call keeps the types of the calls.
LEMMA GoToType ==
    ASSUME CallsOK, NEW w \in Worker, pc[w] # "idle",
           NEW label \in {"device", "receipt", "params", "insert", "record", "commit", "recheck"},
           GoTo(w, label)
    PROVE  /\ pc' \in [Worker -> {"idle", "device", "receipt", "params", "insert",
                                  "record", "commit", "recheck"}]
           /\ \A v \in Worker : (msg[v] = None) <=> (pc'[v] = "idle")
  BY DEF CallsOK, GoTo

\* A call that ends leaves its session idle and the others as they were.
LEMMA AnswerType ==
    ASSUME CallsOK, NEW w \in Worker,
           NEW result \in {"accepted", "duplicate", "device_rejected", "raised"},
           Answer(w, result)
    PROVE  CallsOK'
  BY DEF CallsOK, Answer, GoTo

\* Requests keep their types if their labels, their rows and their being idle do.
LEMMA RequestsType ==
    ASSUME RequestsOK, NEW a \in Admin, NEW label \in {"begun"} \cup Kinds, apc[a] # "idle",
           AGoTo(a, label), UNCHANGED <<aop, adev>>,
           todo' \in [Admin -> Rows], gone' \in [Admin -> Rows]
    PROVE  RequestsOK'
  BY DEF RequestsOK, AGoTo, Kinds

\* A request that ends leaves its session idle, with nothing deleted.
LEMMA EndForgets ==
    ASSUME RequestsOK, NEW a \in Admin, AEnd(a),
           todo' = [todo EXCEPT ![a] = Nothing] \/ (todo' = todo /\ todo[a] = Nothing)
    PROVE  /\ RequestsOK'
           /\ apc'[a] = "idle" /\ todo'[a] = Nothing /\ gone'[a] = Nothing
           /\ \A b \in Admin \ {a} : /\ apc'[b] = apc[b] /\ aop'[b] = aop[b] /\ adev'[b] = adev[b]
                                    /\ todo'[b] = todo[b] /\ gone'[b] = gone[b]
<1>1. Nothing \in Rows
  BY DEF Nothing, Rows
<1>2. QED
  BY <1>1 DEF RequestsOK, AEnd, AGoTo

\* A statement that starts has deleted nothing yet.
LEMMA StatementStarts ==
    ASSUME RequestsOK, NEW a \in Admin, NEW before \in {"begun"} \cup Kinds, NEW kind \in Kinds,
           NEW rows, [Nothing EXCEPT ![kind] = rows] \in Rows, Statement(a, before, kind, rows)
    PROVE  /\ RequestsOK'
           /\ apc[a] = before /\ apc'[a] = kind /\ Finished(a)
           /\ todo'[a][kind] = rows /\ \A k \in Kinds \ {kind} : todo'[a][k] = {}
           /\ UNCHANGED <<committed, workerVars, history, aop, adev, gone>>
           /\ \A b \in Admin \ {a} : apc'[b] = apc[b] /\ todo'[b] = todo[b]
<1>1. /\ apc[a] = before /\ apc[a] # "idle" /\ AGoTo(a, kind) /\ Finished(a)
      /\ todo' = [todo EXCEPT ![a][kind] = rows]
      /\ UNCHANGED <<committed, workerVars, history, aop, adev, gone>>
  BY DEF Statement, Kinds
<1>2. todo[a] = Nothing /\ todo \in [Admin -> Rows]
  BY <1>1 DEF Finished, RequestsOK
<1>3. todo'[a] = [Nothing EXCEPT ![kind] = rows] /\ \A b \in Admin \ {a} : todo'[b] = todo[b]
  BY <1>1, <1>2
<1>4. todo' \in [Admin -> Rows]
  BY <1>1, <1>2, <1>3
<1>5. RequestsOK'
  BY <1>1, <1>4, RequestsType DEF RequestsOK
<1>6. apc'[a] = kind /\ \A b \in Admin \ {a} : apc'[b] = apc[b]
  BY <1>1 DEF AGoTo, RequestsOK
<1>7. todo'[a][kind] = rows /\ \A k \in Kinds \ {kind} : todo'[a][k] = {}
  BY <1>3 DEF Nothing, Kinds
<1>8. QED
  BY <1>1, <1>3, <1>5, <1>6, <1>7

\* A DELETE starts: the request's rows are those of its device in one table.
Starts(a, before, kind) ==
    /\ apc[a] = before /\ apc'[a] = kind /\ Finished(a) /\ adev[a] \in Device
    /\ todo'[a].readings = IF kind = "readings" THEN ReadingsOf(adev[a]) ELSE {}
    /\ todo'[a].records = IF kind = "records" THEN RecordsOf(adev[a]) ELSE {}
    /\ todo'[a].receipts = IF kind = "receipts" THEN ReceiptsOf(adev[a]) ELSE {}
    /\ todo'[a].devices =
          IF kind = "devices" THEN {d \in {adev[a]} : device[d] # "absent"} ELSE {}
    /\ UNCHANGED <<committed, workerVars, history, aop, adev, gone>>
    /\ \A b \in Admin \ {a} : apc'[b] = apc[b] /\ todo'[b] = todo[b]

LEMMA DeleteStarts ==
    ASSUME RowsOK, RequestsOK, NEW a \in Admin
    PROVE  /\ DeleteReadings(a) => RequestsOK' /\ Starts(a, "begun", "readings")
           /\ DeleteRecords(a) => RequestsOK' /\ Starts(a, "readings", "records")
           /\ DeleteReceipts(a) => RequestsOK' /\ Starts(a, "records", "receipts")
           /\ DeleteDevice(a) => RequestsOK' /\ Starts(a, "receipts", "devices")
<1>1. apc[a] # "idle" => adev[a] \in Device
  BY DEF RequestsOK
<1>2. ASSUME NEW before \in {"begun"} \cup Kinds, NEW kind \in Kinds, NEW rows,
             Statement(a, before, kind, rows)
      PROVE  adev[a] \in Device
  BY <1>1, <1>2 DEF Statement, Kinds
<1>3. ASSUME DeleteReadings(a) PROVE RequestsOK' /\ Starts(a, "begun", "readings")
  <2>1. Statement(a, "begun", "readings", ReadingsOf(adev[a])) /\ adev[a] \in Device
    BY <1>2, <1>3 DEF DeleteReadings, Kinds
  <2>2. [Nothing EXCEPT !["readings"] = ReadingsOf(adev[a])] \in Rows
    BY DEF RowsOK, Nothing, Rows, ReadingsOf
  <2>3. /\ RequestsOK' /\ apc[a] = "begun" /\ apc'[a] = "readings" /\ Finished(a)
        /\ todo'[a]["readings"] = ReadingsOf(adev[a]) /\ \A k \in Kinds \ {"readings"} : todo'[a][k] = {}
        /\ UNCHANGED <<committed, workerVars, history, aop, adev, gone>>
        /\ \A b \in Admin \ {a} : apc'[b] = apc[b] /\ todo'[b] = todo[b]
    BY <2>1, <2>2, StatementStarts DEF Kinds
  <2>4. QED
    BY <2>1, <2>3 DEF Starts, Kinds
<1>4. ASSUME DeleteRecords(a) PROVE RequestsOK' /\ Starts(a, "readings", "records")
  <2>1. Statement(a, "readings", "records", RecordsOf(adev[a])) /\ adev[a] \in Device
    BY <1>2, <1>4 DEF DeleteRecords, Kinds
  <2>2. [Nothing EXCEPT !["records"] = RecordsOf(adev[a])] \in Rows
    BY DEF RowsOK, Nothing, Rows, RecordsOf
  <2>3. /\ RequestsOK' /\ apc[a] = "readings" /\ apc'[a] = "records" /\ Finished(a)
        /\ todo'[a]["records"] = RecordsOf(adev[a]) /\ \A k \in Kinds \ {"records"} : todo'[a][k] = {}
        /\ UNCHANGED <<committed, workerVars, history, aop, adev, gone>>
        /\ \A b \in Admin \ {a} : apc'[b] = apc[b] /\ todo'[b] = todo[b]
    BY <2>1, <2>2, StatementStarts DEF Kinds
  <2>4. QED
    BY <2>1, <2>3 DEF Starts, Kinds
<1>5. ASSUME DeleteReceipts(a) PROVE RequestsOK' /\ Starts(a, "records", "receipts")
  <2>1. Statement(a, "records", "receipts", ReceiptsOf(adev[a])) /\ adev[a] \in Device
    BY <1>2, <1>5 DEF DeleteReceipts, Kinds
  <2>2. [Nothing EXCEPT !["receipts"] = ReceiptsOf(adev[a])] \in Rows
    BY DEF RowsOK, Nothing, Rows, ReceiptsOf
  <2>3. /\ RequestsOK' /\ apc[a] = "records" /\ apc'[a] = "receipts" /\ Finished(a)
        /\ todo'[a]["receipts"] = ReceiptsOf(adev[a]) /\ \A k \in Kinds \ {"receipts"} : todo'[a][k] = {}
        /\ UNCHANGED <<committed, workerVars, history, aop, adev, gone>>
        /\ \A b \in Admin \ {a} : apc'[b] = apc[b] /\ todo'[b] = todo[b]
    BY <2>1, <2>2, StatementStarts DEF Kinds
  <2>4. QED
    BY <2>1, <2>3 DEF Starts, Kinds
<1>6. ASSUME DeleteDevice(a) PROVE RequestsOK' /\ Starts(a, "receipts", "devices")
  <2> DEFINE rows == {d \in {adev[a]} : device[d] # "absent"}
  <2>1. Statement(a, "receipts", "devices", rows) /\ adev[a] \in Device
    BY <1>2, <1>6 DEF DeleteDevice, Kinds
  <2>2. [Nothing EXCEPT !["devices"] = rows] \in Rows
    BY <2>1 DEF Nothing, Rows
  <2> HIDE DEF rows
  <2>3. /\ RequestsOK' /\ apc[a] = "receipts" /\ apc'[a] = "devices" /\ Finished(a)
        /\ todo'[a]["devices"] = rows /\ \A k \in Kinds \ {"devices"} : todo'[a][k] = {}
        /\ UNCHANGED <<committed, workerVars, history, aop, adev, gone>>
        /\ \A b \in Admin \ {a} : apc'[b] = apc[b] /\ todo'[b] = todo[b]
    BY <2>1, <2>2, StatementStarts DEF Kinds
  <2>4. QED
    BY <2>1, <2>3 DEF Starts, Kinds, rows
<1>7. QED
  BY <1>3, <1>4, <1>5, <1>6

\* Taking a row moves it from the rows to be deleted to the deleted ones.
LEMMA TakeMoves ==
    ASSUME RequestsOK, NEW a \in Admin, NEW kind \in Kinds, Take(a, kind)
    PROVE  /\ RequestsOK'
           /\ UNCHANGED <<committed, workerVars, history, apc, aop, adev>>
           /\ \A k \in Kinds \ {kind} : todo'[a][k] = todo[a][k] /\ gone'[a][k] = gone[a][k]
           /\ \E x \in todo[a][kind] :
                 /\ \A b \in Admin : x \notin gone[b][kind]
                 /\ kind = "devices" => \A w \in Worker : Holds(w) => DeviceOf[msg[w]] # x
                 /\ todo'[a][kind] = todo[a][kind] \ {x}
                 /\ gone'[a][kind] = gone[a][kind] \cup {x}
           /\ \A b \in Admin \ {a} : todo'[b] = todo[b] /\ gone'[b] = gone[b]
<1>1. PICK x \in todo[a][kind] :
         /\ \A b \in Admin : x \notin gone[b][kind]
         /\ kind = "devices" => \A w \in Worker : Holds(w) => DeviceOf[msg[w]] # x
         /\ todo' = [todo EXCEPT ![a][kind] = @ \ {x}]
         /\ gone' = [gone EXCEPT ![a][kind] = @ \cup {x}]
  BY DEF Take
<1>2. UNCHANGED <<committed, workerVars, history, apc, aop, adev>>
  BY DEF Take
<1>3. todo \in [Admin -> Rows] /\ gone \in [Admin -> Rows]
  BY DEF RequestsOK
<1>4. todo' \in [Admin -> Rows] /\ gone' \in [Admin -> Rows]
  BY <1>1, <1>3 DEF Rows, Kinds
<1>5. RequestsOK'
  BY <1>2, <1>4 DEF RequestsOK
<1>6. /\ todo'[a] = [todo[a] EXCEPT ![kind] = @ \ {x}]
      /\ gone'[a] = [gone[a] EXCEPT ![kind] = @ \cup {x}]
      /\ \A b \in Admin \ {a} : todo'[b] = todo[b] /\ gone'[b] = gone[b]
  BY <1>1, <1>3
<1>7. todo[a] \in Rows /\ gone[a] \in Rows
  BY <1>3
<1>8. /\ todo'[a][kind] = todo[a][kind] \ {x} /\ gone'[a][kind] = gone[a][kind] \cup {x}
      /\ \A k \in Kinds \ {kind} : todo'[a][k] = todo[a][k] /\ gone'[a][k] = gone[a][k]
  BY <1>6, <1>7 DEF Rows, Kinds
<1>9. QED
  BY <1>1, <1>2, <1>5, <1>6, <1>8

\* A committed delete ends its request and takes its rows out of the others' sight.
LEMMA CommitForgets ==
    ASSUME RequestsOK, NEW a \in Admin, CommitDelete(a)
    PROVE  /\ RequestsOK'
           /\ apc[a] \in {"receipts", "devices"} /\ Finished(a)
           /\ apc'[a] = "idle" /\ todo'[a] = Nothing /\ gone'[a] = Nothing
           /\ \A b \in Admin \ {a} : /\ apc'[b] = apc[b] /\ aop'[b] = aop[b] /\ adev'[b] = adev[b]
                                    /\ gone'[b] = gone[b]
                                    /\ todo'[b].readings = todo[b].readings \ gone[a].readings
                                    /\ todo'[b].records = todo[b].records \ gone[a].records
                                    /\ todo'[b].receipts = todo[b].receipts \ gone[a].receipts
                                    /\ todo'[b].devices = todo[b].devices \ gone[a].devices
<1>1. /\ apc[a] \in {"receipts", "devices"} /\ Finished(a) /\ AEnd(a)
      /\ todo' = [b \in Admin |-> Without(todo[b], gone[a])]
  BY DEF CommitDelete
<1>2. todo \in [Admin -> Rows] /\ gone \in [Admin -> Rows] /\ todo[a] = Nothing /\ Nothing \in Rows
  BY <1>1 DEF RequestsOK, Finished, Nothing, Rows
<1>3. todo' \in [Admin -> Rows] /\ gone' \in [Admin -> Rows]
  BY <1>1, <1>2 DEF Without, Rows, AEnd
<1>4. todo'[a] = Nothing
  <2>1. /\ todo[a].readings = {} /\ todo[a].records = {} /\ todo[a].receipts = {}
        /\ todo[a].devices = {}
    BY <1>2 DEF Nothing
  <2>2. Without(todo[a], gone[a]) = Nothing
    BY <2>1 DEF Without, Nothing
  <2>3. QED
    BY <1>1, <2>2
<1>5. RequestsOK'
  BY <1>1, <1>3 DEF RequestsOK, AEnd, AGoTo
<1>6. QED
  BY <1>1, <1>2, <1>4, <1>5 DEF RequestsOK, AEnd, AGoTo, Without

\* Every variable keeps its type.
LEMMA TypeStep == TypeOK /\ [Next]_vars => TypeOK'
<1> SUFFICES ASSUME TypeOK, [Next]_vars PROVE TypeOK'
  OBVIOUS
<1> USE StoreAssumption DEF TypeOK, committed, workerVars, adminVars, history
<1>1. CASE UNCHANGED vars
  BY <1>1 DEF vars, RowsOK, CallsOK, RequestsOK
<1>2. ASSUME NEW w \in Worker, NEW m \in Msg, NEW payload \in Payload, Begin(w, m, payload)
      PROVE TypeOK'
  <2>1. CallsOK'
    BY <1>2 DEF Begin, GoTo, EnabledParams, Payload, CallsOK
  <2>2. QED
    BY <1>2, <2>1 DEF Begin, RowsOK, RequestsOK
<1>3. ASSUME NEW w \in Worker, ReadDevice(w) PROVE TypeOK'
  <2>1. CASE device[DeviceOf[msg[w]]] = "enabled"
    BY <1>3, <2>1, GoToType DEF ReadDevice, RowsOK, CallsOK, RequestsOK
  <2>2. CASE device[DeviceOf[msg[w]]] # "enabled"
    <3>1. CallsOK'
      BY <1>3, <2>2, AnswerType DEF ReadDevice
    <3>2. QED
      BY <1>3, <3>1 DEF ReadDevice, RowsOK, RequestsOK
  <2>3. QED
    BY <2>1, <2>2
<1>4. ASSUME NEW w \in Worker, ReadReceipt(w) PROVE TypeOK'
  <2>1. CASE msg[w] \notin receipts
    BY <1>4, <2>1, GoToType DEF ReadReceipt, RowsOK, CallsOK, RequestsOK
  <2>2. CASE msg[w] \in receipts
    <3>1. CallsOK'
      BY <1>4, <2>2, AnswerType DEF ReadReceipt
    <3>2. QED
      BY <1>4, <3>1 DEF ReadReceipt, RowsOK, RequestsOK
  <2>3. QED
    BY <2>1, <2>2
<1>5. ASSUME NEW w \in Worker, ReadParams(w) PROVE TypeOK'
  <2>1. CallsOK'
    BY <1>5 DEF ReadParams, GoTo, CallsOK
  <2>2. QED
    BY <1>5, <2>1 DEF ReadParams, RowsOK, RequestsOK
<1>6. ASSUME NEW w \in Worker, InsertReceipt(w) PROVE TypeOK'
  <2>1. CallsOK'
    BY <1>6, GoToType DEF InsertReceipt, CallsOK
  <2>2. QED
    BY <1>6, <2>1 DEF InsertReceipt, RowsOK, RequestsOK
<1>7. ASSUME NEW w \in Worker, InsertRecord(w) PROVE TypeOK'
  <2>1. CallsOK' /\ lastId' \in Nat
    BY <1>7 DEF InsertRecord, GoTo, CallsOK
  <2>2. QED
    BY <1>7, <2>1 DEF InsertRecord, RowsOK, RequestsOK
<1>8. ASSUME NEW w \in Worker, NEW result \in {"accepted", "raised"}, Commit(w, result)
      PROVE TypeOK'
  <2>1. CallsOK'
    BY <1>8, AnswerType DEF Commit
  <2>2. msg[w] \in Msg /\ DeviceOf[msg[w]] \in Device
    BY <1>8 DEF Commit, CallsOK
  <2>3. NewRecords(w) \subseteq Record /\ NewReadings(w) \subseteq Reading
    BY <2>2 DEF NewRecords, NewReadings, Record, Reading, CallsOK
  <2>4. QED
    BY <1>8, <2>1, <2>2, <2>3 DEF Commit, RowsOK, RequestsOK
<1>9. ASSUME NEW w \in Worker, Recheck(w) PROVE TypeOK'
  <2>1. CallsOK'
    BY <1>9, AnswerType DEF Recheck
  <2>2. QED
    BY <1>9, <2>1 DEF Recheck, RowsOK, RequestsOK
<1>10. ASSUME NEW w \in Worker, Fail(w) PROVE TypeOK'
  <2>1. CallsOK'
    BY <1>10, AnswerType DEF Fail
  <2>2. QED
    BY <1>10, <2>1 DEF Fail, RowsOK, RequestsOK
<1>11. ASSUME NEW a \in Admin, NEW op \in DeleteOps, NEW d \in Device, BeginDelete(a, op, d)
       PROVE TypeOK'
  <2>1. RequestsOK' /\ deletes' \in Nat
    BY <1>11 DEF BeginDelete, AGoTo, RequestsOK
  <2>2. QED
    BY <1>11, <2>1 DEF BeginDelete, RowsOK, CallsOK
<1>12. ASSUME NEW a \in Admin,
              DeleteReadings(a) \/ DeleteRecords(a) \/ DeleteReceipts(a) \/ DeleteDevice(a)
       PROVE TypeOK'
  <2>1. RequestsOK'
    BY <1>12, DeleteStarts
  <2>2. QED
    BY <1>12, <2>1 DEF DeleteReadings, DeleteRecords, DeleteReceipts, DeleteDevice, Statement,
       RowsOK, CallsOK
<1>13. ASSUME NEW a \in Admin, NEW kind \in Kinds, Take(a, kind) PROVE TypeOK'
  <2>1. RequestsOK' /\ UNCHANGED <<committed, workerVars, history, deletes>>
    BY <1>13, TakeMoves DEF Take
  <2>2. QED
    BY <2>1 DEF RowsOK, CallsOK
<1>14. ASSUME NEW a \in Admin, ReferenceFound(a) \/ AbortDelete(a) PROVE TypeOK'
  <2>1. RequestsOK'
    BY <1>14, EndForgets DEF ReferenceFound, AbortDelete
  <2>2. UNCHANGED <<committed, workerVars, history, deletes>>
    BY <1>14 DEF ReferenceFound, AbortDelete
  <2>3. RowsOK' /\ CallsOK' /\ lastId' \in Nat /\ delivered' \in Nat /\ deletes' \in Nat
    BY <2>2 DEF RowsOK, CallsOK
  <2>4. QED
    BY <2>1, <2>3
<1>15. ASSUME NEW a \in Admin, CommitDelete(a) PROVE TypeOK'
  <2>1. RequestsOK'
    BY <1>15, CommitForgets
  <2>2. RowsOK'
    BY <1>15 DEF CommitDelete, RowsOK, Status
  <2>3. QED
    BY <1>15, <2>1, <2>2 DEF CommitDelete, CallsOK
<1>18. ASSUME NEW d \in Device, NEW s \in {"disabled", "enabled"},
              AddDevice(d, s) \/ UpdateDevice(d, s)
       PROVE TypeOK'
  <2>1. RowsOK'
    BY <1>18 DEF AddDevice, UpdateDevice, RowsOK, Status
  <2>2. CallsOK'
    BY <1>18 DEF AddDevice, UpdateDevice, NoteDevice, CallsOK
  <2>3. QED
    BY <1>18, <2>1, <2>2 DEF AddDevice, UpdateDevice, RequestsOK
<1>19. ASSUME NEW p \in Param, NEW s \in {"absent", "disabled", "enabled"}, SetParam(p, s)
       PROVE TypeOK'
  <2>1. RowsOK'
    BY <1>19 DEF SetParam, RowsOK, Status
  <2>2. CallsOK'
    BY <1>19 DEF SetParam, NoteParam, CallsOK
  <2>3. QED
    BY <1>19, <2>1, <2>2 DEF SetParam, RequestsOK
<1>20. CASE ConfigStep
  BY <1>18, <1>19, <1>20 DEF ConfigStep, AddParameter, UpdateParameter, RemoveParameter
<1>21. QED
  BY <1>1, <1>2, <1>3, <1>4, <1>5, <1>6, <1>7, <1>8, <1>9, <1>10, <1>11, <1>12, <1>13,
     <1>14, <1>15, <1>20 DEF Next, IngestStep, DeleteStep

-----------------------------------------------------------------------------
(* Seven shapes cover the steps, as far as the committed rows are concerned.  *)

\* Session w ends up holding no receipt, and nothing else happens.
QuietCall(w) ==
    /\ UNCHANGED <<committed, adminVars>>
    /\ ~Holds(w)'
    /\ \A v \in Worker \ {w} : pc'[v] = pc[v] /\ msg'[v] = msg[v]

\* Session w inserts a receipt nobody else has or is working on.
Acquire(w) ==
    /\ UNCHANGED <<committed, adminVars, msg>>
    /\ pc' = [pc EXCEPT ![w] = "record"]
    /\ ~Waits(w) /\ pc[w] = "insert"
    /\ msg[w] \in Msg \ receipts /\ device[DeviceOf[msg[w]]] # "absent"

\* Session w goes on holding its receipt.
Keep(w) ==
    /\ UNCHANGED <<committed, adminVars, msg>>
    /\ Holds(w) /\ pc' = [pc EXCEPT ![w] = "commit"]

\* A request goes on, or ends without a commit.
QuietRequest == UNCHANGED <<committed, workerVars>>

\* No device is unregistered, and one is registered only while no removal is at
\* its last statement.
Reconfigure ==
    /\ UNCHANGED <<receipts, records, readings, workerVars, adminVars>>
    /\ \A d \in Device : device'[d] = "absent" => device[d] = "absent"
    /\ \A d \in Device : device'[d] # "absent" => device[d] # "absent" \/ ~TableInUse

Shape ==
    \/ QuietRequest
    \/ \E w \in Worker : QuietCall(w) \/ Acquire(w) \/ Keep(w)
    \/ \E w \in Worker, result \in {"accepted", "raised"} : Commit(w, result)
    \/ \E a \in Admin : CommitDelete(a)
    \/ Reconfigure

\* A step of ingest has one of four shapes.
LEMMA CallShape ==
    ASSUME TypeOK, NEW w \in Worker,
           \/ \E m \in Msg, payload \in Payload : Begin(w, m, payload)
           \/ IngestStep(w) \/ Fail(w)
    PROVE  Shape
<1> USE StoreAssumption DEF TypeOK, CallsOK, GoTo, Answer, Holds
<1>1. ASSUME NEW m \in Msg, NEW payload \in Payload, Begin(w, m, payload) PROVE QuietCall(w)
  BY <1>1 DEF Begin, QuietCall
<1>2. ReadDevice(w) => QuietCall(w)
  BY DEF ReadDevice, QuietCall
<1>3. ReadReceipt(w) => QuietCall(w)
  BY DEF ReadReceipt, QuietCall
<1>4. ReadParams(w) => QuietCall(w)
  BY DEF ReadParams, QuietCall
<1>5. Recheck(w) => QuietCall(w)
  BY DEF Recheck, QuietCall
<1>6. Fail(w) => QuietCall(w)
  BY DEF Fail, QuietCall
<1>7. InsertReceipt(w) => QuietCall(w) \/ Acquire(w)
  BY DEF InsertReceipt, QuietCall, Acquire
<1>8. InsertRecord(w) => Keep(w)
  BY DEF InsertRecord, Keep
<1>9. QED
  BY <1>1, <1>2, <1>3, <1>4, <1>5, <1>6, <1>7, <1>8 DEF IngestStep, Shape

\* A step of a delete commits, or changes nothing that others can see.
LEMMA RequestShape ==
    ASSUME NEW a \in Admin,
           \/ \E op \in DeleteOps, d \in Device : BeginDelete(a, op, d)
           \/ DeleteStep(a) \/ AbortDelete(a)
    PROVE  QuietRequest \/ CommitDelete(a)
  BY DEF BeginDelete, DeleteStep, AbortDelete, DeleteReadings, DeleteRecords, DeleteReceipts,
     DeleteDevice, Statement, Take, ReferenceFound, QuietRequest

\* A single-row change of the configuration.
LEMMA ConfigShape ==
    ASSUME TypeOK, ConfigStep
    PROVE  Reconfigure
<1>1. ASSUME NEW d \in Device, NEW s \in {"disabled", "enabled"},
             AddDevice(d, s) \/ UpdateDevice(d, s)
      PROVE  Reconfigure
  BY <1>1 DEF AddDevice, UpdateDevice, Reconfigure, TypeOK, RowsOK
<1>2. ASSUME NEW p \in Param, NEW s \in Status, SetParam(p, s) PROVE Reconfigure
  BY <1>2 DEF SetParam, Reconfigure
<1>3. QED
  BY <1>1, <1>2 DEF ConfigStep, AddParameter, UpdateParameter, RemoveParameter, Status

\* Every step is of one of the shapes.
LEMMA NextShape ==
    ASSUME TypeOK, [Next]_vars
    PROVE  Shape
<1>1. CASE UNCHANGED vars
  BY <1>1 DEF vars, Shape, QuietRequest
<1>2. QED
  BY <1>1, CallShape, RequestShape, ConfigShape DEF Next, Shape

-----------------------------------------------------------------------------
\* No two sessions hold the same receipt, and a held receipt stays new.
LEMMA HeldStep ==
    ASSUME StoreInv, Shape
    PROVE  HeldReceipts'
<1> USE DEF StoreInv, HeldReceipts, Holds, committed, workerVars, adminVars
<1>1. CASE QuietRequest
  BY <1>1 DEF QuietRequest
<1>2. ASSUME NEW w \in Worker, QuietCall(w) PROVE HeldReceipts'
  BY <1>2 DEF QuietCall
<1>3. ASSUME NEW w \in Worker, Acquire(w) PROVE HeldReceipts'
  BY <1>3 DEF Acquire, Waits, WaitsFor, TypeOK, CallsOK
<1>4. ASSUME NEW w \in Worker, Keep(w) PROVE HeldReceipts'
  BY <1>4 DEF Keep, TypeOK, CallsOK
<1>5. ASSUME NEW w \in Worker, NEW result \in {"accepted", "raised"}, Commit(w, result)
      PROVE  HeldReceipts'
  BY <1>5 DEF Commit, Answer, GoTo, TypeOK, CallsOK
<1>6. ASSUME NEW a \in Admin, CommitDelete(a) PROVE HeldReceipts'
  <2>1. \A w \in Worker : Holds(w) => device'[DeviceOf[msg[w]]] # "absent"
    BY <1>6, StoreAssumption DEF CommitDelete, Removals, TypeOK, CallsOK
  <2>2. QED
    BY <1>6, <2>1 DEF CommitDelete
<1>7. CASE Reconfigure
  BY <1>7, StoreAssumption DEF Reconfigure, TypeOK, CallsOK
<1>8. QED
  BY <1>1, <1>2, <1>3, <1>4, <1>5, <1>6, <1>7 DEF Shape

\* The rows a commit of ingest adds belong to the device of its message.
LEMMA CommitRows ==
    ASSUME TypeOK, NEW w \in Worker, NEW result \in {"accepted", "raised"},
           Commit(w, result), NEW d \in Device, DeviceOf[msg[w]] # d
    PROVE  /\ ReceiptsOf(d)' = ReceiptsOf(d) /\ RecordsOf(d)' = RecordsOf(d)
           /\ ReadingsOf(d)' = ReadingsOf(d)
  BY DEF Commit, NewRecords, NewReadings, ReceiptsOf, RecordsOf, ReadingsOf

\* A committed delete only takes rows away.
LEMMA CommitDeleteRows ==
    ASSUME NEW a \in Admin, CommitDelete(a), NEW d \in Device
    PROVE  /\ ReceiptsOf(d)' = ReceiptsOf(d) \ gone[a].receipts
           /\ RecordsOf(d)' = RecordsOf(d) \ gone[a].records
           /\ ReadingsOf(d)' = ReadingsOf(d) \ gone[a].readings
  BY DEF CommitDelete, ReceiptsOf, RecordsOf, ReadingsOf

\* What the rows of one request must be.
OwnRows(a) ==
    \A rows \in {todo[a], gone[a]} :
       /\ \A m \in rows.receipts : DeviceOf[m] = adev[a]
       /\ \A r \in rows.records : DeviceOf[r.msg] = adev[a]
       /\ \A x \in rows.readings : x.device = adev[a]
       /\ \A d \in rows.devices : d = adev[a] /\ apc[a] = "devices" /\ device[d] # "absent"

\* A request that has no rows and is not at its last statement.
LEMMA OwnNothing ==
    ASSUME NEW a \in Admin, todo'[a] = Nothing, gone'[a] = Nothing
    PROVE  OwnRows(a)'
  BY DEF OwnRows, Nothing

\* Requests keep to their own device, and removals to themselves.
LEMMA RemovalsStep ==
    ASSUME StoreInv, [Next]_vars
    PROVE  Removals'
<1> USE DEF StoreInv, Removals, Holds, committed, workerVars, adminVars
<1>0. RequestsOK /\ \A a \in Admin : OwnRows(a)
  BY DEF TypeOK, OwnRows
<1>1. ASSUME NEW w \in Worker, QuietCall(w) PROVE Removals'
  BY <1>1 DEF QuietCall
<1>2. ASSUME NEW w \in Worker, Acquire(w) PROVE Removals'
  <2>1. \A a \in Admin : DeviceOf[msg[w]] \notin gone[a].devices
    BY <1>2 DEF Acquire, Waits, WaitsFor
  <2>2. QED
    BY <1>2, <2>1 DEF Acquire, TypeOK, CallsOK
<1>3. ASSUME NEW w \in Worker, Keep(w) PROVE Removals'
  BY <1>3 DEF Keep, TypeOK, CallsOK
<1>4. ASSUME NEW w \in Worker, NEW result \in {"accepted", "raised"}, Commit(w, result)
      PROVE  Removals'
  <2>1. \A v \in Worker : Holds(v)' => Holds(v) /\ msg'[v] = msg[v]
    BY <1>4 DEF Commit, Answer, GoTo, TypeOK, CallsOK
  <2>2. QED
    BY <1>4, <2>1 DEF Commit
<1>5. ASSUME NEW a \in Admin, NEW op \in DeleteOps, NEW d \in Device, BeginDelete(a, op, d)
      PROVE  Removals'
  <2>1. todo[a] = Nothing /\ gone[a] = Nothing
    BY <1>0, <1>5 DEF BeginDelete, DeletedSoFar, RequestsOK, Rows, Kinds, Nothing
  <2>2. /\ UNCHANGED <<committed, workerVars, todo, gone>> /\ apc'[a] = "begun"
        /\ \A b \in Admin \ {a} : apc'[b] = apc[b] /\ adev'[b] = adev[b]
    BY <1>0, <1>5 DEF BeginDelete, AGoTo, RequestsOK
  <2>3. \A b \in Admin : OwnRows(b)'
    BY <1>0, <2>1, <2>2, OwnNothing DEF OwnRows
  <2>4. QED
    BY <2>2, <2>3 DEF OwnRows
<1>6. ASSUME NEW a \in Admin, NEW before \in {"begun", "readings", "records", "receipts"},
             NEW kind \in Kinds, Starts(a, before, kind)
      PROVE  Removals'
  <2>1. UNCHANGED <<committed, workerVars, adev, gone>> /\ apc[a] # "devices" /\ apc'[a] = kind
    BY <1>6 DEF Starts
  <2>2. \A b \in Admin \ {a} : apc'[b] = apc[b] /\ todo'[b] = todo[b]
    BY <1>6 DEF Starts
  <2>3. OwnRows(a)'
    BY <1>0, <1>6, <2>1 DEF Starts, OwnRows, ReadingsOf, RecordsOf, ReceiptsOf
  <2>4. \A b \in Admin : OwnRows(b)'
    BY <1>0, <2>1, <2>2, <2>3 DEF OwnRows
  <2>5. apc'[a] = "devices" => adev[a] \in todo'[a].devices \/ device[adev[a]] = "absent"
    BY <1>6 DEF Starts
  <2>6. QED
    BY <2>1, <2>2, <2>4, <2>5 DEF OwnRows
<1>7. ASSUME NEW a \in Admin,
             DeleteReadings(a) \/ DeleteRecords(a) \/ DeleteReceipts(a) \/ DeleteDevice(a)
      PROVE  Removals'
  BY <1>0, <1>6, <1>7, DeleteStarts DEF TypeOK, Kinds
<1>8. ASSUME NEW a \in Admin, NEW kind \in Kinds, Take(a, kind) PROVE Removals'
  <2>1. PICK x \in todo[a][kind] :
           /\ \A b \in Admin : x \notin gone[b][kind]
           /\ kind = "devices" => \A w \in Worker : Holds(w) => DeviceOf[msg[w]] # x
           /\ todo'[a][kind] = todo[a][kind] \ {x}
           /\ gone'[a][kind] = gone[a][kind] \cup {x}
    BY <1>0, <1>8, TakeMoves
  <2>2. /\ UNCHANGED <<committed, workerVars, apc, adev>>
        /\ \A k \in Kinds \ {kind} : todo'[a][k] = todo[a][k] /\ gone'[a][k] = gone[a][k]
        /\ \A b \in Admin \ {a} : todo'[b] = todo[b] /\ gone'[b] = gone[b]
    BY <1>0, <1>8, TakeMoves
  <2>3. \A k \in Kinds : /\ todo'[a][k] \subseteq todo[a][k]
                         /\ gone'[a][k] \subseteq todo[a][k] \cup gone[a][k]
                         /\ todo[a][k] \cup gone[a][k] = todo'[a][k] \cup gone'[a][k]
    BY <2>1, <2>2
  <2>4. \A b \in Admin : OwnRows(b)'
    <3>1. OwnRows(a)'
      BY <1>0, <2>2, <2>3 DEF OwnRows, Kinds
    <3>2. QED
      BY <1>0, <2>2, <3>1 DEF OwnRows
  <2>5. \A b, c \in Admin : b # c => gone'[b].devices \cap gone'[c].devices = {}
    BY <2>1, <2>2 DEF Kinds
  <2>6. \A b \in Admin, w \in Worker : Holds(w) => DeviceOf[msg[w]] \notin gone'[b].devices
    BY <2>1, <2>2 DEF Kinds
  <2>7. \A b \in Admin : apc[b] = "devices" =>
          adev[b] \in todo'[b].devices \cup gone'[b].devices \/ device[adev[b]] = "absent"
    BY <2>2, <2>3 DEF Kinds
  <2>8. QED
    BY <2>2, <2>4, <2>5, <2>6, <2>7 DEF OwnRows
<1>9. ASSUME NEW a \in Admin, ReferenceFound(a) \/ AbortDelete(a) PROVE Removals'
  <2>1. UNCHANGED <<committed, workerVars>>
    BY <1>9 DEF ReferenceFound, AbortDelete
  <2>2. /\ apc'[a] = "idle" /\ todo'[a] = Nothing /\ gone'[a] = Nothing
        /\ \A b \in Admin \ {a} : /\ apc'[b] = apc[b] /\ adev'[b] = adev[b]
                                 /\ todo'[b] = todo[b] /\ gone'[b] = gone[b]
    BY <1>0, <1>9, EndForgets DEF ReferenceFound, AbortDelete
  <2>3. \A b \in Admin : OwnRows(b)'
    BY <1>0, <2>1, <2>2, OwnNothing DEF OwnRows
  <2>4. QED
    BY <2>1, <2>2, <2>3 DEF OwnRows, Nothing
<1>10. ASSUME NEW a \in Admin, CommitDelete(a) PROVE Removals'
  <2>1. /\ apc'[a] = "idle" /\ todo'[a] = Nothing /\ gone'[a] = Nothing
        /\ \A b \in Admin \ {a} : /\ apc'[b] = apc[b] /\ adev'[b] = adev[b]
                                 /\ gone'[b] = gone[b]
                                 /\ todo'[b].readings = todo[b].readings \ gone[a].readings
                                 /\ todo'[b].records = todo[b].records \ gone[a].records
                                 /\ todo'[b].receipts = todo[b].receipts \ gone[a].receipts
                                 /\ todo'[b].devices = todo[b].devices \ gone[a].devices
    BY <1>0, <1>10, CommitForgets
  <2>2. /\ UNCHANGED <<pc, msg>>
        /\ \A d \in Device : device'[d] = IF d \in gone[a].devices THEN "absent" ELSE device[d]
    BY <1>10 DEF CommitDelete
  <2>3. ASSUME NEW b \in Admin \ {a} PROVE OwnRows(b)'
    <3>1. \A rows \in {todo[b], gone[b]} : \A d \in rows.devices : d \in Device
      BY <1>0 DEF RequestsOK, Rows
    <3>2. QED
      BY <1>0, <2>1, <2>2, <3>1 DEF OwnRows
  <2>4. \A b \in Admin : OwnRows(b)'
    BY <2>1, <2>3, OwnNothing
  <2>5. ASSUME NEW b \in Admin, apc'[b] = "devices"
        PROVE  adev'[b] \in todo'[b].devices \cup gone'[b].devices \/ device'[adev'[b]] = "absent"
    <3>1. b # a /\ adev[b] \in Device
      BY <1>0, <2>1, <2>5 DEF RequestsOK
    <3>2. QED
      BY <2>1, <2>2, <2>5, <3>1
  <2>6. QED
    BY <2>1, <2>2, <2>4, <2>5 DEF OwnRows, Nothing
<1>11. CASE Reconfigure
  <2>1. \A a \in Admin : apc[a] = "devices" => adev[a] \in Device
    BY <1>0 DEF RequestsOK
  <2>2. \A a \in Admin : \A rows \in {todo[a], gone[a]} : rows.devices \subseteq Device
    BY <1>0 DEF RequestsOK, Rows
  <2>3. \A a \in Admin : OwnRows(a)'
    BY <1>0, <1>11, <2>2 DEF Reconfigure, OwnRows
  <2>4. QED
    BY <1>11, <2>1, <2>3 DEF Reconfigure, TableInUse, OwnRows
<1>12. CASE UNCHANGED vars
  BY <1>12 DEF vars
<1>13. ASSUME NEW w \in Worker,
              \/ \E m \in Msg, payload \in Payload : Begin(w, m, payload)
              \/ IngestStep(w) \/ Fail(w)
       PROVE  Removals'
  <2>1. UNCHANGED adminVars
    BY <1>13 DEF Begin, IngestStep, Fail, ReadDevice, ReadReceipt, ReadParams, InsertReceipt,
       InsertRecord, Commit, Recheck
  <2>2. CASE QuietRequest
    BY <2>1, <2>2 DEF QuietRequest
  <2>3. CASE \E a \in Admin : CommitDelete(a)
    BY <1>10, <2>3
  <2>4. QED
    BY <1>1, <1>2, <1>3, <1>4, <1>11, <1>13, <2>2, <2>3, CallShape DEF Shape
<1>14. CASE ConfigStep
  BY <1>11, <1>14, ConfigShape
<1>15. QED
  BY <1>5, <1>7, <1>8, <1>9, <1>10, <1>12, <1>13, <1>14 DEF Next, DeleteStep

\* A request whose foreign key check passed leaves no row that refers to what it
\* has deleted.
LEMMA NothingRefers ==
    ASSUME NEW a \in Admin, Finished(a)
    PROVE  /\ \A r \in gone[a].records, x \in readings : x.record = r.id => x \in gone[a].readings
           /\ \A d \in gone[a].devices :
                 /\ ReceiptsOf(d) \subseteq gone[a].receipts /\ RecordsOf(d) \subseteq gone[a].records
                 /\ ReadingsOf(d) \subseteq gone[a].readings
<1>1. ReferringReadings(a) = {} /\ ReferringRecords(a) = {} /\ ReferringReceipts(a) = {}
  BY DEF Finished, Referring, Nothing
<1>2. QED
  BY <1>1 DEF ReferringReadings, ReferringRecords, ReferringReceipts, ReceiptsOf, RecordsOf, ReadingsOf

\* No rows of an absent device.
LEMMA OrphansStep ==
    ASSUME StoreInv, Shape
    PROVE  NoOrphans'
<1> USE DEF StoreInv, NoOrphans, committed
<1>1. CASE QuietRequest
  BY <1>1 DEF QuietRequest, ReceiptsOf, RecordsOf, ReadingsOf
<1>2. ASSUME NEW w \in Worker, QuietCall(w) \/ Acquire(w) \/ Keep(w) PROVE NoOrphans'
  BY <1>2 DEF QuietCall, Acquire, Keep, ReceiptsOf, RecordsOf, ReadingsOf
<1>3. ASSUME NEW w \in Worker, NEW result \in {"accepted", "raised"}, Commit(w, result)
      PROVE  NoOrphans'
  <2>1. device[DeviceOf[msg[w]]] # "absent" /\ device' = device
    BY <1>3 DEF Commit, HeldReceipts, Holds
  <2>2. QED
    BY <1>3, <2>1, CommitRows
<1>4. ASSUME NEW a \in Admin, CommitDelete(a) PROVE NoOrphans'
  <2> SUFFICES ASSUME NEW d \in Device, device'[d] = "absent"
               PROVE  /\ ReceiptsOf(d)' = {} /\ RecordsOf(d)' = {} /\ ReadingsOf(d)' = {}
    OBVIOUS
  <2>1. CASE device[d] = "absent"
    BY <1>4, <2>1, CommitDeleteRows
  <2>2. CASE device[d] # "absent"
    <3>1. d \in gone[a].devices
      BY <1>4, <2>2 DEF CommitDelete
    <3>2. /\ ReceiptsOf(d) \subseteq gone[a].receipts /\ RecordsOf(d) \subseteq gone[a].records
          /\ ReadingsOf(d) \subseteq gone[a].readings
      BY <1>4, <3>1, NothingRefers DEF CommitDelete
    <3>3. QED
      BY <1>4, <3>2, CommitDeleteRows
  <2>3. QED
    BY <2>1, <2>2
<1>5. CASE Reconfigure
  BY <1>5 DEF Reconfigure, ReceiptsOf, RecordsOf, ReadingsOf
<1>6. QED
  BY <1>1, <1>2, <1>3, <1>4, <1>5 DEF Shape

-----------------------------------------------------------------------------
(* Records and their readings                                               *)

\* A statement that writes no row and does not bring its call to the commit.
LEMMA NumberedQuiet ==
    ASSUME Numbered, NEW w \in Worker, UNCHANGED <<records, lastId>>, pc'[w] # "commit",
           \A v \in Worker \ {w} :
              pc'[v] = pc[v] /\ values'[v] = values[v] /\ recordId'[v] = recordId[v]
    PROVE  Numbered'
<1>1. \A v \in Worker : Draws(v)' => Draws(v) /\ recordId'[v] = recordId[v]
  BY DEF Draws
<1>2. QED
  BY <1>1 DEF Numbered

\* The sequence gives each record an id of its own.
LEMMA NumberedStep ==
    ASSUME StoreInv, [Next]_vars
    PROVE  Numbered'
<1> USE DEF committed, workerVars, adminVars, history
<1>0. CallsOK /\ lastId \in Nat /\ Numbered
  BY DEF StoreInv, TypeOK
<1>1. CASE UNCHANGED <<records, lastId, pc, values, recordId>>
  BY <1>0, <1>1 DEF Numbered, Draws
<1>2. ASSUME NEW w \in Worker, NEW result \in {"accepted", "duplicate", "device_rejected", "raised"},
             Answer(w, result), UNCHANGED <<records, lastId>>
      PROVE  Numbered'
  BY <1>0, <1>2, NumberedQuiet DEF Answer, GoTo, CallsOK
<1>3. ASSUME NEW w \in Worker, NEW label \in {"receipt", "params", "insert", "record", "recheck"},
             GoTo(w, label), UNCHANGED <<records, lastId, recordId>>,
             \A v \in Worker \ {w} : values'[v] = values[v]
      PROVE  Numbered'
  BY <1>0, <1>3, NumberedQuiet DEF GoTo, CallsOK
<1>4. ASSUME NEW w \in Worker, NEW m \in Msg, NEW payload \in Payload, Begin(w, m, payload)
      PROVE  Numbered'
  BY <1>0, <1>4, NumberedQuiet DEF Begin, GoTo, CallsOK
<1>5. ASSUME NEW w \in Worker, ReadDevice(w) \/ ReadReceipt(w) \/ Recheck(w) \/ Fail(w)
      PROVE  Numbered'
  BY <1>2, <1>3, <1>5 DEF ReadDevice, ReadReceipt, Recheck, Fail
<1>6. ASSUME NEW w \in Worker, ReadParams(w) PROVE Numbered'
  BY <1>0, <1>3, <1>6 DEF ReadParams, CallsOK
<1>7. ASSUME NEW w \in Worker, InsertReceipt(w) PROVE Numbered'
  BY <1>3, <1>7 DEF InsertReceipt
<1>8. ASSUME NEW w \in Worker, InsertRecord(w) PROVE Numbered'
  <2>1. /\ pc[w] = "record" /\ pc' = [pc EXCEPT ![w] = "commit"]
        /\ UNCHANGED <<records, values>>
    BY <1>8 DEF InsertRecord, GoTo
  <2>2. CASE values[w] = {}
    <3>1. lastId' = lastId /\ recordId' = recordId
      BY <1>8, <2>2 DEF InsertRecord
    <3>2. \A v \in Worker : Draws(v)' => Draws(v)
      BY <1>0, <2>1, <2>2 DEF Draws, CallsOK
    <3>3. QED
      BY <1>0, <2>1, <3>1, <3>2 DEF Numbered
  <2>3. CASE values[w] # {}
    <3>1. lastId' = lastId + 1 /\ recordId' = [recordId EXCEPT ![w] = lastId + 1]
      BY <1>8, <2>3 DEF InsertRecord
    <3>2. recordId'[w] = lastId'
      BY <1>0, <3>1 DEF CallsOK
    <3>3. \A v \in Worker \ {w} : Draws(v)' => Draws(v) /\ recordId'[v] = recordId[v]
      BY <1>0, <2>1, <3>1 DEF Draws, CallsOK
    <3>4. \A v \in Worker \ {w} : Draws(v)' => recordId'[v] \in 1..lastId
      BY <1>0, <3>3 DEF Numbered
    <3>5. \A r \in records : r.id \in 1..lastId
      BY <1>0 DEF Numbered
    <3>6. 1..lastId \subseteq 1..lastId' /\ lastId' \in 1..lastId' /\ lastId' \notin 1..lastId
      BY <1>0, <3>1
    <3>7. \A v \in Worker : Draws(v)' =>
             recordId'[v] \in 1..lastId' /\ \A r \in records : r.id # recordId'[v]
      BY <1>0, <3>2, <3>3, <3>4, <3>5, <3>6 DEF Numbered
    <3>8. \A u, v \in Worker : Draws(u)' /\ Draws(v)' /\ recordId'[u] = recordId'[v] => u = v
      BY <1>0, <3>2, <3>3, <3>4, <3>6 DEF Numbered
    <3>9. QED
      BY <1>0, <2>1, <3>5, <3>6, <3>7, <3>8 DEF Numbered
  <2>4. QED
    BY <2>2, <2>3
<1>9. ASSUME NEW w \in Worker, NEW result \in {"accepted", "raised"}, Commit(w, result)
      PROVE  Numbered'
  <2>1. /\ pc[w] = "commit" /\ records' = records \cup NewRecords(w) /\ lastId' = lastId
        /\ Answer(w, result)
    BY <1>9 DEF Commit
  <2>2. \A v \in Worker : Draws(v)' => v # w /\ Draws(v) /\ recordId'[v] = recordId[v]
    BY <1>0, <2>1 DEF Draws, Answer, GoTo, CallsOK
  <2>3. \A r \in NewRecords(w) : Draws(w) /\ r = [id |-> recordId[w], msg |-> msg[w]]
    BY <2>1 DEF NewRecords, Draws
  <2>4. \A r \in NewRecords(w) : Draws(w) /\ r.id = recordId[w]
    BY <2>3
  <2>5. \A r, s \in records' : r.id = s.id => r = s
    <3> SUFFICES ASSUME NEW r \in records', NEW s \in records', r.id = s.id PROVE r = s
      OBVIOUS
    <3>1. CASE r \in NewRecords(w)
      BY <1>0, <2>1, <2>3, <2>4, <3>1 DEF Numbered
    <3>2. CASE s \in NewRecords(w)
      BY <1>0, <2>1, <2>3, <2>4, <3>2 DEF Numbered
    <3>3. CASE r \in records /\ s \in records
      BY <1>0, <3>3 DEF Numbered
    <3>4. QED
      BY <2>1, <3>1, <3>2, <3>3
  <2>6. \A r \in records' : r.id \in 1..lastId'
    BY <1>0, <2>1, <2>4 DEF Numbered
  <2>7. \A v \in Worker : Draws(v)' =>
           recordId'[v] \in 1..lastId' /\ \A r \in records' : r.id # recordId'[v]
    BY <1>0, <2>1, <2>2, <2>4 DEF Numbered
  <2>8. QED
    BY <1>0, <2>2, <2>5, <2>6, <2>7 DEF Numbered
<1>10. ASSUME NEW a \in Admin, CommitDelete(a) PROVE Numbered'
  <2>1. records' \subseteq records /\ UNCHANGED <<lastId, pc, values, recordId>>
    BY <1>10 DEF CommitDelete
  <2>2. QED
    BY <1>0, <2>1 DEF Numbered, Draws
<1>11. QED
  BY <1>1, <1>4, <1>5, <1>6, <1>7, <1>8, <1>9, <1>10
     DEF Next, vars, IngestStep, DeleteStep, ConfigStep, BeginDelete, DeleteReadings, DeleteRecords,
         DeleteReceipts, DeleteDevice, Statement, Take, ReferenceFound, AbortDelete, AddDevice,
         UpdateDevice, AddParameter, UpdateParameter, RemoveParameter, SetParam

\* What a commit adds: a record exactly if it adds readings, all of which are
\* the record's; its id belongs to no row that was there.
LEMMA CommitWhole ==
    ASSUME StoreInv, NEW w \in Worker, NEW result \in {"accepted", "raised"}, Commit(w, result)
    PROVE  /\ records' = records \cup NewRecords(w) /\ readings' = readings \cup NewReadings(w)
           /\ \A r \in NewRecords(w) : r = [id |-> recordId[w], msg |-> msg[w]]
           /\ \A r \in NewRecords(w) : \E x \in NewReadings(w) : x.record = r.id
           /\ \A x \in NewReadings(w) : \E r \in NewRecords(w) :
                 r.id = x.record /\ DeviceOf[r.msg] = x.device
           /\ \A r \in NewRecords(w), x \in readings : x.record # r.id
           /\ \A x \in NewReadings(w), r \in records : x.record # r.id
<1>1. /\ pc[w] = "commit" /\ records' = records \cup NewRecords(w)
      /\ readings' = readings \cup NewReadings(w)
  BY DEF Commit
<1>2. \A r \in NewRecords(w) : values[w] # {} /\ r = [id |-> recordId[w], msg |-> msg[w]]
  BY DEF NewRecords
<1>3. ASSUME NEW r \in NewRecords(w) PROVE \E x \in NewReadings(w) : x.record = r.id
  <2>1. PICK p \in values[w] : TRUE
    BY <1>2
  <2>2. [record |-> recordId[w], device |-> DeviceOf[msg[w]], param |-> p] \in NewReadings(w)
    BY DEF NewReadings
  <2>3. QED
    BY <1>2, <2>2
<1>4. ASSUME NEW x \in NewReadings(w)
      PROVE  /\ values[w] # {} /\ x.record = recordId[w]
             /\ \E r \in NewRecords(w) : r.id = x.record /\ DeviceOf[r.msg] = x.device
  <2>1. PICK p \in values[w] :
           x = [record |-> recordId[w], device |-> DeviceOf[msg[w]], param |-> p]
    BY DEF NewReadings
  <2>2. [id |-> recordId[w], msg |-> msg[w]] \in NewRecords(w)
    BY <2>1 DEF NewRecords
  <2>3. QED
    BY <2>1, <2>2
<1>5. values[w] # {} => \A r \in records : r.id # recordId[w]
  BY <1>1 DEF StoreInv, Numbered, Draws
<1>6. \A r \in NewRecords(w), x \in readings : x.record # r.id
  <2> SUFFICES ASSUME NEW r \in NewRecords(w), NEW x \in readings, x.record = r.id PROVE FALSE
    OBVIOUS
  <2>1. r.id = recordId[w] /\ values[w] # {}
    BY <1>2
  <2>2. PICK s \in records : s.id = x.record
    BY DEF StoreInv, RecordsWhole
  <2>3. QED
    BY <1>5, <2>1, <2>2
<1>7. QED
  BY <1>1, <1>2, <1>3, <1>4, <1>5, <1>6

\* The parameters of the readings a commit adds are the values that were left.
LEMMA NewParams ==
    ASSUME NEW w \in Worker
    PROVE  {x.param : x \in NewReadings(w)} = values[w]
<1>1. ASSUME NEW p \in values[w] PROVE \E x \in NewReadings(w) : x.param = p
  <2>1. [record |-> recordId[w], device |-> DeviceOf[msg[w]], param |-> p] \in NewReadings(w)
    BY DEF NewReadings
  <2>2. QED
    BY <2>1
<1>2. \A x \in NewReadings(w) : x.param \in values[w]
  BY DEF NewReadings
<1>3. QED
  BY <1>1, <1>2

\* What a request that has passed its second statement takes away.
LEMMA DeleteWhole ==
    ASSUME StoreInv, NEW a \in Admin, CommitDelete(a)
    PROVE  /\ records' = records \ gone[a].records /\ readings' = readings \ gone[a].readings
           /\ \A r \in records, x \in readings : x.record = r.id =>
                 (x \in gone[a].readings <=> r \in gone[a].records)
<1>1. apc[a] \in {"receipts", "devices"} /\ todo[a] = Nothing
  BY DEF CommitDelete, Finished
<1>2. todo[a].records = {}
  BY <1>1 DEF Nothing
<1>3. QED
  BY <1>1, <1>2 DEF CommitDelete, StoreInv, DeletedWhole

\* Records and readings come and go together.
LEMMA WholeStep ==
    ASSUME StoreInv, [Next]_vars
    PROVE  RecordsWhole'
<1>1. Shape /\ RecordsWhole
  BY NextShape DEF StoreInv
<1>2. CASE UNCHANGED <<records, readings>>
  BY <1>1, <1>2 DEF RecordsWhole
<1>3. ASSUME NEW w \in Worker, NEW result \in {"accepted", "raised"}, Commit(w, result)
      PROVE  RecordsWhole'
  BY <1>1, <1>3, CommitWhole DEF RecordsWhole
<1>4. ASSUME NEW a \in Admin, CommitDelete(a) PROVE RecordsWhole'
  BY <1>1, <1>4, DeleteWhole DEF RecordsWhole
<1>5. QED
  BY <1>1, <1>2, <1>3, <1>4 DEF Shape, QuietCall, Acquire, Keep, QuietRequest, Reconfigure, committed

\* What the rows of request a must be, beside those of the others.
WholeRows(a) ==
    /\ \A rows \in {todo[a], gone[a]} :
          /\ rows.readings \subseteq readings /\ rows.records \subseteq records
          /\ rows.receipts \subseteq receipts
    /\ \A r \in records, x \in readings : x.record = r.id =>
          /\ apc[a] \in {"records", "receipts", "devices"} /\ x \in gone[a].readings =>
                r \in todo[a].records \cup gone[a].records
          /\ apc[a] \in {"receipts", "devices"} /\ r \in gone[a].records =>
                x \in gone[a].readings
RowsApart ==
    \A a, b \in Admin : a # b =>
       /\ gone[a].readings \cap gone[b].readings = {}
       /\ gone[a].records \cap gone[b].records = {}
       /\ gone[a].receipts \cap gone[b].receipts = {}

LEMMA DeletedParts == DeletedWhole <=> RowsApart /\ \A a \in Admin : WholeRows(a)
  BY DEF DeletedWhole, WholeRows, RowsApart

\* A request that has no rows.
LEMMA WholeNothing ==
    ASSUME NEW a \in Admin, todo'[a] = Nothing, gone'[a] = Nothing
    PROVE  WholeRows(a)'
  BY DEF WholeRows, Nothing

\* Requests delete different rows, and records together with their readings.
LEMMA DeletedStep ==
    ASSUME StoreInv, [Next]_vars
    PROVE  DeletedWhole'
<1> USE DEF committed, workerVars, adminVars, history
<1>0. RequestsOK /\ RowsApart /\ \A a \in Admin : WholeRows(a)
  BY DeletedParts DEF StoreInv, TypeOK
<1>1. CASE UNCHANGED <<receipts, records, readings, apc, todo, gone>>
  BY <1>1 DEF StoreInv, DeletedWhole
<1>2. ASSUME NEW w \in Worker, NEW result \in {"accepted", "raised"}, Commit(w, result)
      PROVE  DeletedWhole'
  <2>1. UNCHANGED <<apc, todo, gone>> /\ receipts \subseteq receipts'
    BY <1>2 DEF Commit
  <2>2. ASSUME NEW a \in Admin PROVE WholeRows(a)'
    <3>1. \A rows \in {todo[a], gone[a]} :
             /\ rows.readings \subseteq readings' /\ rows.records \subseteq records'
             /\ rows.receipts \subseteq receipts'
      BY <1>0, <1>2, <2>1, CommitWhole DEF WholeRows
    <3>2. ASSUME NEW r \in records', NEW x \in readings', x.record = r.id,
                 x \in gone[a].readings \/ r \in gone[a].records
          PROVE  r \in records /\ x \in readings
      BY <1>0, <1>2, <3>2, CommitWhole DEF WholeRows
    <3>3. QED
      BY <1>0, <2>1, <3>1, <3>2 DEF WholeRows
  <2>3. QED
    BY <1>0, <2>1, <2>2, DeletedParts DEF RowsApart, DeletedWhole, WholeRows
<1>3. ASSUME NEW a \in Admin, NEW op \in DeleteOps, NEW d \in Device, BeginDelete(a, op, d)
      PROVE  DeletedWhole'
  <2>1. /\ apc'[a] = "begun" /\ \A b \in Admin \ {a} : apc'[b] = apc[b]
        /\ UNCHANGED <<receipts, records, readings, todo, gone>>
    BY <1>0, <1>3 DEF BeginDelete, AGoTo, RequestsOK
  <2>2. QED
    BY <1>0, <2>1 DEF DeletedWhole, WholeRows, RowsApart
<1>4. ASSUME NEW a \in Admin, UNCHANGED <<receipts, records, readings, gone>>,
             \A b \in Admin \ {a} : apc'[b] = apc[b] /\ todo'[b] = todo[b],
             WholeRows(a)'
      PROVE  DeletedWhole'
  <2>1. \A b \in Admin : WholeRows(b)'
    BY <1>0, <1>4 DEF WholeRows
  <2>2. QED
    BY <1>0, <1>4, <2>1 DEF DeletedWhole, WholeRows, RowsApart
<1>5. ASSUME NEW a \in Admin, DeleteReadings(a) PROVE DeletedWhole'
  <2>1. Starts(a, "begun", "readings")
    BY <1>0, <1>5, DeleteStarts DEF StoreInv, TypeOK
  <2>2. WholeRows(a)'
    BY <1>0, <2>1 DEF Starts, WholeRows, ReadingsOf
  <2>3. QED
    BY <1>4, <2>1, <2>2 DEF Starts
<1>6. ASSUME NEW a \in Admin, DeleteRecords(a) PROVE DeletedWhole'
  <2>1. Starts(a, "readings", "records")
    BY <1>0, <1>6, DeleteStarts DEF StoreInv, TypeOK
  <2>2. ASSUME NEW r \in records, NEW x \in readings, x.record = r.id, x \in gone[a].readings
        PROVE  r \in RecordsOf(adev[a])
    <3>1. x.device = adev[a]
      BY <2>2 DEF StoreInv, Removals
    <3>2. PICK s \in records : s.id = x.record /\ DeviceOf[s.msg] = x.device
      BY DEF StoreInv, RecordsWhole
    <3>3. s = r
      BY <2>2, <3>2 DEF StoreInv, Numbered
    <3>4. QED
      BY <3>1, <3>2, <3>3 DEF RecordsOf
  <2>3. WholeRows(a)'
    BY <1>0, <2>1, <2>2 DEF Starts, WholeRows, RecordsOf
  <2>4. QED
    BY <1>4, <2>1, <2>3 DEF Starts
<1>7. ASSUME NEW a \in Admin, DeleteReceipts(a) PROVE DeletedWhole'
  <2>1. Starts(a, "records", "receipts")
    BY <1>0, <1>7, DeleteStarts DEF StoreInv, TypeOK
  <2>2. todo[a].records = {}
    BY <2>1 DEF Starts, Finished, Nothing
  <2>3. \A r \in gone[a].records, x \in readings : x.record = r.id => x \in gone[a].readings
    BY <2>1, NothingRefers DEF Starts
  <2>4. WholeRows(a)'
    BY <1>0, <2>1, <2>2, <2>3 DEF Starts, WholeRows, ReceiptsOf
  <2>5. QED
    BY <1>4, <2>1, <2>4 DEF Starts
<1>8. ASSUME NEW a \in Admin, DeleteDevice(a) PROVE DeletedWhole'
  <2>1. Starts(a, "receipts", "devices")
    BY <1>0, <1>8, DeleteStarts DEF StoreInv, TypeOK
  <2>2. todo[a].records = {}
    BY <2>1 DEF Starts, Finished, Nothing
  <2>3. WholeRows(a)'
    BY <1>0, <2>1, <2>2 DEF Starts, WholeRows
  <2>4. QED
    BY <1>4, <2>1, <2>3 DEF Starts
<1>9. ASSUME NEW a \in Admin, NEW kind \in Kinds, Take(a, kind) PROVE DeletedWhole'
  <2>1. PICK x \in todo[a][kind] :
           /\ \A b \in Admin : x \notin gone[b][kind]
           /\ todo'[a][kind] = todo[a][kind] \ {x}
           /\ gone'[a][kind] = gone[a][kind] \cup {x}
    BY <1>0, <1>9, TakeMoves
  <2>2. /\ UNCHANGED <<receipts, records, readings, apc>>
        /\ \A k \in Kinds \ {kind} : todo'[a][k] = todo[a][k] /\ gone'[a][k] = gone[a][k]
        /\ \A b \in Admin \ {a} : todo'[b] = todo[b] /\ gone'[b] = gone[b]
    BY <1>0, <1>9, TakeMoves
  <2>3. apc[a] = kind
    BY <2>1 DEF StoreInv, DeletedSoFar
  <2>4. \A k \in Kinds : /\ todo'[a][k] \subseteq todo[a][k]
                         /\ gone'[a][k] \subseteq todo[a][k] \cup gone[a][k]
                         /\ todo[a][k] \cup gone[a][k] = todo'[a][k] \cup gone'[a][k]
    BY <2>1, <2>2
  <2>5. RowsApart'
    BY <1>0, <2>1, <2>2 DEF RowsApart, Kinds
  <2>6. WholeRows(a)'
    <3>1. \A rows \in {todo'[a], gone'[a]} :
             /\ rows.readings \subseteq readings /\ rows.records \subseteq records
             /\ rows.receipts \subseteq receipts
      BY <1>0, <2>4 DEF WholeRows, Kinds
    <3>2. apc[a] \in {"records", "receipts", "devices"} => gone'[a].readings = gone[a].readings
      BY <2>2, <2>3 DEF Kinds
    <3>3. apc[a] \in {"receipts", "devices"} => gone'[a].records = gone[a].records
      BY <2>2, <2>3 DEF Kinds
    <3>4. todo[a].records \cup gone[a].records = todo'[a].records \cup gone'[a].records
      BY <2>4 DEF Kinds
    <3>5. QED
      BY <1>0, <2>2, <3>1, <3>2, <3>3, <3>4 DEF WholeRows
  <2>7. \A b \in Admin : WholeRows(b)'
    BY <1>0, <2>2, <2>6 DEF WholeRows
  <2>8. QED
    BY <2>5, <2>7 DEF DeletedWhole, WholeRows, RowsApart
<1>10. ASSUME NEW a \in Admin, ReferenceFound(a) \/ AbortDelete(a) PROVE DeletedWhole'
  <2>1. UNCHANGED <<receipts, records, readings>>
    BY <1>10 DEF ReferenceFound, AbortDelete
  <2>2. /\ todo'[a] = Nothing /\ gone'[a] = Nothing
        /\ \A b \in Admin \ {a} : /\ apc'[b] = apc[b] /\ todo'[b] = todo[b] /\ gone'[b] = gone[b]
    BY <1>0, <1>10, EndForgets DEF ReferenceFound, AbortDelete
  <2>3. \A b \in Admin : WholeRows(b)'
    BY <1>0, <2>1, <2>2, WholeNothing DEF WholeRows
  <2>4. RowsApart'
    BY <1>0, <2>2 DEF RowsApart, Nothing
  <2>5. QED
    BY <2>3, <2>4 DEF DeletedWhole, WholeRows, RowsApart
<1>11. ASSUME NEW a \in Admin, CommitDelete(a) PROVE DeletedWhole'
  <2>1. /\ todo'[a] = Nothing /\ gone'[a] = Nothing
        /\ \A b \in Admin \ {a} : /\ apc'[b] = apc[b] /\ gone'[b] = gone[b]
                                 /\ todo'[b].readings = todo[b].readings \ gone[a].readings
                                 /\ todo'[b].records = todo[b].records \ gone[a].records
                                 /\ todo'[b].receipts = todo[b].receipts \ gone[a].receipts
    BY <1>0, <1>11, CommitForgets
  <2>2. /\ records' = records \ gone[a].records /\ readings' = readings \ gone[a].readings
        /\ receipts' = receipts \ gone[a].receipts
    BY <1>11 DEF CommitDelete
  <2>3. RowsApart'
    BY <1>0, <2>1 DEF RowsApart, Nothing
  <2>4. ASSUME NEW b \in Admin \ {a} PROVE WholeRows(b)'
    <3>1. /\ gone[b].readings \cap gone[a].readings = {} /\ gone[b].records \cap gone[a].records = {}
          /\ gone[b].receipts \cap gone[a].receipts = {}
      BY <1>0 DEF RowsApart
    <3>2. \A rows \in {todo'[b], gone'[b]} :
             /\ rows.readings \subseteq readings' /\ rows.records \subseteq records'
             /\ rows.receipts \subseteq receipts'
      BY <1>0, <2>1, <2>2, <3>1 DEF WholeRows
    <3>3. QED
      BY <1>0, <2>1, <2>2, <3>2 DEF WholeRows
  <2>5. \A b \in Admin : WholeRows(b)'
    BY <2>1, <2>4, WholeNothing
  <2>6. QED
    BY <2>3, <2>5 DEF DeletedWhole, WholeRows, RowsApart
<1>12. QED
  BY <1>1, <1>2, <1>3, <1>5, <1>6, <1>7, <1>8, <1>9, <1>10, <1>11
     DEF Next, vars, Begin, IngestStep, Fail, DeleteStep, ConfigStep, ReadDevice, ReadReceipt,
         ReadParams, InsertReceipt, InsertRecord, Recheck, AddDevice, UpdateDevice, AddParameter,
         UpdateParameter, RemoveParameter, SetParam

\* What one request has deleted, and has left to delete, is as far as it is.
SoFar(a) ==
    /\ \A kind \in Kinds : apc[a] # kind => todo[a][kind] = {}
    /\ apc[a] \in {"idle", "begun"} => gone[a].readings = {}
    /\ apc[a] \in {"idle", "begun", "readings"} => gone[a].records = {}
    /\ apc[a] \notin {"receipts", "devices"} => gone[a].receipts = {}
    /\ apc[a] # "devices" => gone[a].devices = {}

\* It grows statement by statement.
LEMMA DeletedSoFarStep ==
    ASSUME TypeOK, DeletedSoFar, [Next]_vars
    PROVE  DeletedSoFar'
<1>0. RequestsOK /\ \A a \in Admin : SoFar(a)
  BY DEF TypeOK, DeletedSoFar, SoFar
<1>1. CASE UNCHANGED <<apc, todo, gone>>
  BY <1>1 DEF DeletedSoFar
<1>2. ASSUME NEW a \in Admin, SoFar(a)',
             \A b \in Admin \ {a} : apc'[b] = apc[b] /\ todo'[b] = todo[b] /\ gone'[b] = gone[b]
      PROVE  DeletedSoFar'
  BY <1>0, <1>2 DEF DeletedSoFar, SoFar
<1>3. ASSUME NEW a \in Admin, NEW op \in DeleteOps, NEW d \in Device, BeginDelete(a, op, d)
      PROVE  DeletedSoFar'
  <2>1. /\ apc[a] = "idle" /\ apc'[a] = "begun" /\ UNCHANGED <<todo, gone>>
        /\ \A b \in Admin \ {a} : apc'[b] = apc[b]
    BY <1>0, <1>3 DEF BeginDelete, AGoTo, RequestsOK
  <2>2. QED
    BY <1>0, <1>2, <2>1 DEF SoFar, Kinds
<1>4. ASSUME NEW a \in Admin,
             DeleteReadings(a) \/ DeleteRecords(a) \/ DeleteReceipts(a) \/ DeleteDevice(a)
      PROVE  DeletedSoFar'
  <2>1. \/ Starts(a, "begun", "readings") \/ Starts(a, "readings", "records")
        \/ Starts(a, "records", "receipts") \/ Starts(a, "receipts", "devices")
    BY <1>0, <1>4, DeleteStarts DEF TypeOK
  <2>2. SoFar(a)'
    BY <1>0, <2>1 DEF Starts, SoFar, Kinds
  <2>3. QED
    BY <1>2, <2>1, <2>2 DEF Starts
<1>5. ASSUME NEW a \in Admin, NEW kind \in Kinds, Take(a, kind) PROVE DeletedSoFar'
  <2>1. /\ todo[a][kind] # {} /\ todo'[a][kind] \subseteq todo[a][kind] /\ apc' = apc
        /\ \A k \in Kinds \ {kind} : todo'[a][k] = todo[a][k] /\ gone'[a][k] = gone[a][k]
        /\ \A b \in Admin \ {a} : todo'[b] = todo[b] /\ gone'[b] = gone[b]
    BY <1>0, <1>5, TakeMoves
  <2>2. apc[a] = kind
    BY <1>0, <2>1 DEF SoFar
  <2>3. SoFar(a)'
    BY <1>0, <2>1, <2>2 DEF SoFar, Kinds
  <2>4. QED
    BY <1>2, <2>1, <2>3
<1>6. ASSUME NEW a \in Admin, apc'[a] = "idle", todo'[a] = Nothing, gone'[a] = Nothing
      PROVE  SoFar(a)'
  BY <1>6 DEF SoFar, Nothing, Kinds
<1>7. ASSUME NEW a \in Admin, ReferenceFound(a) \/ AbortDelete(a) PROVE DeletedSoFar'
  BY <1>0, <1>2, <1>6, <1>7, EndForgets DEF ReferenceFound, AbortDelete
<1>8. ASSUME NEW a \in Admin, CommitDelete(a) PROVE DeletedSoFar'
  <2>1. /\ apc'[a] = "idle" /\ todo'[a] = Nothing /\ gone'[a] = Nothing
        /\ \A b \in Admin \ {a} : /\ apc'[b] = apc[b] /\ gone'[b] = gone[b]
                                 /\ todo'[b].readings \subseteq todo[b].readings
                                 /\ todo'[b].records \subseteq todo[b].records
                                 /\ todo'[b].receipts \subseteq todo[b].receipts
                                 /\ todo'[b].devices \subseteq todo[b].devices
    BY <1>0, <1>8, CommitForgets
  <2>2. \A b \in Admin \ {a} : SoFar(b)'
    BY <1>0, <2>1 DEF SoFar, Kinds
  <2>3. QED
    BY <1>6, <2>1, <2>2 DEF DeletedSoFar, SoFar
<1>9. QED
  BY <1>1, <1>3, <1>4, <1>5, <1>7, <1>8
     DEF Next, vars, adminVars, Begin, IngestStep, Fail, DeleteStep, ConfigStep, ReadDevice,
         ReadReceipt, ReadParams, InsertReceipt, InsertRecord, Commit, Recheck, AddDevice,
         UpdateDevice, AddParameter, UpdateParameter, RemoveParameter, SetParam

-----------------------------------------------------------------------------
\* The empty store satisfies the invariant.
LEMMA StoreInit == Init => StoreInv
<1> SUFFICES ASSUME Init PROVE StoreInv
  OBVIOUS
<1> USE StoreAssumption DEF Init, Nothing
<1>1. TypeOK
  BY DEF TypeOK, RowsOK, CallsOK, RequestsOK, Rows
<1>2. HeldReceipts /\ Removals
  BY DEF HeldReceipts, Removals, Holds
<1>3. NoOrphans
  BY DEF NoOrphans, ReceiptsOf, RecordsOf, ReadingsOf
<1>4. RecordsWhole /\ Numbered /\ DeletedWhole /\ DeletedSoFar
  BY DEF RecordsWhole, Numbered, Draws, DeletedWhole, DeletedSoFar, Kinds
<1>5. QED
  BY <1>1, <1>2, <1>3, <1>4 DEF StoreInv

\* Every statement of ingest and of the deletes keeps it.
LEMMA StoreStep == StoreInv /\ [Next]_vars => StoreInv'
<1> SUFFICES ASSUME StoreInv, [Next]_vars PROVE StoreInv'
  OBVIOUS
<1>1. Shape
  BY NextShape DEF StoreInv
<1>2. TypeOK'
  BY TypeStep DEF StoreInv
<1>3. QED
  BY <1>1, <1>2, HeldStep, RemovalsStep, OrphansStep, NumberedStep, WholeStep, DeletedStep,
     DeletedSoFarStep DEF StoreInv

\* Types, locks and foreign keys, whatever deletes administrators use.
THEOREM StoreInvariance == Spec => []StoreInv
  BY StoreInit, StoreStep, PTL DEF Spec

\* No concurrent delivery leaves rows of a device that is gone.
THEOREM NoOrphansHold == Spec => []NoOrphans
<1>1. StoreInv => NoOrphans
  BY DEF StoreInv
<1>2. QED
  BY <1>1, StoreInvariance, PTL

\* No statement leaves half a transmission behind (ingestion.py:69-88,
\* api.py:265-305), whatever is cleared or removed meanwhile.
THEOREM WholeHolds == Spec => []RecordsWhole
<1>1. StoreInv => RecordsWhole
  BY DEF StoreInv
<1>2. QED
  BY <1>1, StoreInvariance, PTL

\* The readings of a record are what they were when it was stored
\* (mqtt-contract.md:34-35).
THEOREM HistoryHolds == Spec => HistoryNotRewritten
<1>1. StoreInv /\ [Next]_vars =>
        [\A r \in records \cap records' :
           {x \in readings : x.record = r.id} = {x \in readings' : x.record = r.id}]_vars
  <2> SUFFICES ASSUME StoreInv, Next, NEW r \in records \cap records'
               PROVE  {x \in readings : x.record = r.id} = {x \in readings' : x.record = r.id}
    OBVIOUS
  <2>1. Shape
    BY NextShape DEF StoreInv
  <2>2. CASE UNCHANGED readings
    BY <2>2
  <2>3. ASSUME NEW w \in Worker, NEW result \in {"accepted", "raised"}, Commit(w, result)
        PROVE  {x \in readings : x.record = r.id} = {x \in readings' : x.record = r.id}
    BY <2>3, CommitWhole
  <2>4. ASSUME NEW a \in Admin, CommitDelete(a)
        PROVE  {x \in readings : x.record = r.id} = {x \in readings' : x.record = r.id}
    BY <2>4, DeleteWhole
  <2>5. QED
    BY <2>1, <2>2, <2>3, <2>4 DEF Shape, QuietCall, Acquire, Keep, QuietRequest, Reconfigure,
       committed
<1>2. QED
  BY <1>1, StoreInvariance, PTL DEF Spec, HistoryNotRewritten

-----------------------------------------------------------------------------
\* A removal that commits takes exactly the rows of its device: those are there and
\* its foreign key check has found none left, or there is no device to delete and
\* hence no row of it.
LEMMA RemovalTakesAll ==
    ASSUME StoreInv, NEW a \in Admin, CommitDelete(a), aop[a] = "remove"
    PROVE  /\ adev[a] \in Device
           /\ \A m \in receipts : m \in gone[a].receipts <=> DeviceOf[m] = adev[a]
           /\ \A r \in records : r \in gone[a].records <=> DeviceOf[r.msg] = adev[a]
           /\ \A x \in readings : x \in gone[a].readings <=> x.device = adev[a]
<1>1. apc[a] = "devices" /\ Finished(a) /\ todo[a].devices = {}
  BY DEF CommitDelete, Finished, Nothing
<1>2. adev[a] \in Device
  BY <1>1 DEF StoreInv, TypeOK, RequestsOK
<1>3. /\ \A m \in gone[a].receipts : DeviceOf[m] = adev[a]
      /\ \A r \in gone[a].records : DeviceOf[r.msg] = adev[a]
      /\ \A x \in gone[a].readings : x.device = adev[a]
  BY DEF StoreInv, Removals
<1>4. CASE adev[a] \in gone[a].devices
  <2>1. /\ ReceiptsOf(adev[a]) \subseteq gone[a].receipts /\ RecordsOf(adev[a]) \subseteq gone[a].records
        /\ ReadingsOf(adev[a]) \subseteq gone[a].readings
    BY <1>1, <1>4, NothingRefers
  <2>2. QED
    BY <1>2, <1>3, <2>1 DEF ReceiptsOf, RecordsOf, ReadingsOf
<1>5. CASE device[adev[a]] = "absent"
  BY <1>2, <1>3, <1>5 DEF StoreInv, NoOrphans, ReceiptsOf, RecordsOf, ReadingsOf
<1>6. QED
  BY <1>1, <1>4, <1>5 DEF StoreInv, Removals

\* Without clears, what commits is a removal.
LEMMA NoClear ==
    ASSUME "clear" \notin DeleteOps, TypeOK, NEW a \in Admin, CommitDelete(a)
    PROVE  aop[a] = "remove"
  BY StoreAssumption DEF CommitDelete, TypeOK, RequestsOK

\* One record per message is kept as long as telemetry is never cleared.
LEMMA RegistryStep ==
    ASSUME "clear" \notin DeleteOps, RegistryInv, [Next]_vars
    PROVE  RegistryInv'
<1> USE DEF RegistryInv, RecordsCovered, OneRecordPerMessage, committed
<1>1. StoreInv' /\ Shape
  BY StoreStep, NextShape DEF StoreInv
<1>2. CASE UNCHANGED <<receipts, records>>
  BY <1>1, <1>2
<1>3. ASSUME NEW w \in Worker, NEW result \in {"accepted", "raised"}, Commit(w, result)
      PROVE  (RecordsCovered /\ OneRecordPerMessage)'
  <2>1. msg[w] \notin receipts
    BY <1>3 DEF Commit, StoreInv, HeldReceipts, Holds
  <2>2. receipts' = receipts \cup {msg[w]} /\ records' = records \cup NewRecords(w)
    BY <1>3 DEF Commit
  <2>3. \A r \in NewRecords(w) : r = [id |-> recordId[w], msg |-> msg[w]]
    BY DEF NewRecords
  <2>4. QED
    BY <2>1, <2>2, <2>3
<1>4. ASSUME NEW a \in Admin, CommitDelete(a)
      PROVE  (RecordsCovered /\ OneRecordPerMessage)'
  <2>1. aop[a] = "remove"
    BY <1>4, NoClear DEF StoreInv, TypeOK
  <2>2. records' = records \ gone[a].records /\ receipts' = receipts \ gone[a].receipts
    BY <1>4 DEF CommitDelete
  <2>3. QED
    BY <1>4, <2>1, <2>2, RemovalTakesAll
<1>5. QED
  BY <1>1, <1>2, <1>3, <1>4 DEF Shape, QuietCall, Acquire, Keep, QuietRequest, Reconfigure

\* Records are covered by receipts and single, in any number of sessions, while
\* telemetry is never cleared (api.py:265-276 is not called).
THEOREM RegistryInvariance == "clear" \notin DeleteOps /\ Spec => []RegistryInv
<1> SUFFICES ASSUME "clear" \notin DeleteOps PROVE Spec => []RegistryInv
  OBVIOUS
<1>1. Init => RegistryInv
  BY StoreInit DEF Init, RegistryInv, RecordsCovered, OneRecordPerMessage
<1>2. RegistryInv /\ [Next]_vars => RegistryInv'
  BY RegistryStep
<1>3. QED
  BY <1>1, <1>2, PTL DEF Spec

\* However often a message is delivered, in however many sessions, it has at
\* most one record; removals and re-registrations do not change that.
THEOREM OneRecord == "clear" \notin DeleteOps /\ Spec => []OneRecordPerMessage
<1>1. RegistryInv => OneRecordPerMessage
  BY DEF RegistryInv
<1>2. QED
  BY <1>1, RegistryInvariance, PTL

-----------------------------------------------------------------------------
(* Refinement                                                               *)

\* A commit of ingest accepts its message with the values that were left.
LEMMA CommitAccepts ==
    ASSUME RegistryInv, NEW w \in Worker, NEW result \in {"accepted", "raised"}, Commit(w, result)
    PROVE  Registry!Next
<1>1. StoreInv /\ RecordsCovered
  BY DEF RegistryInv
<1>2. /\ msg[w] \in Msg /\ values[w] \subseteq Param
      /\ msg[w] \notin receipts /\ receipts' = receipts \cup {msg[w]}
  BY <1>1, StoreAssumption DEF Commit, StoreInv, HeldReceipts, Holds, TypeOK, CallsOK
<1>3. ASSUME NEW m \in Msg, m # msg[w] PROVE StoredOf(m)' = StoredOf(m)
  <2>1. \A r \in NewRecords(w) : r.msg # m
    BY <1>1, <1>3, CommitWhole
  <2>2. \A x \in NewReadings(w), r \in records : x.record # r.id
    BY <1>1, CommitWhole
  <2>3. records' = records \cup NewRecords(w) /\ readings' = readings \cup NewReadings(w)
    BY <1>1, CommitWhole
  <2>4. QED
    BY <2>1, <2>2, <2>3 DEF StoredOf
<1> PICK m \in Msg, approved \in SUBSET Param : m = msg[w] /\ approved = values[w]
  BY <1>2
<1>4. StoredOf(m)' = NewReadings(w)
  <2>1. \A r \in records : r.msg # m
    BY <1>1, <1>2 DEF RecordsCovered
  <2>2. /\ \A r \in NewRecords(w) : r.msg = m
        /\ \A r \in NewRecords(w), x \in readings : x.record # r.id
        /\ \A x \in NewReadings(w) : \E r \in NewRecords(w) : r.id = x.record
    BY <1>1, CommitWhole
  <2>3. records' = records \cup NewRecords(w) /\ readings' = readings \cup NewReadings(w)
    BY <1>1, CommitWhole
  <2>4. QED
    BY <2>1, <2>2, <2>3 DEF StoredOf
<1>5. {x.param : x \in NewReadings(w)} = approved
  BY NewParams
<1>6. [n \in Msg |-> {x.param : x \in StoredOf(n)}]'
        = [[n \in Msg |-> {x.param : x \in StoredOf(n)}] EXCEPT ![m] = approved]
  BY <1>3, <1>4, <1>5
<1>7. Registry!Accept(m, approved)
  BY <1>2, <1>6 DEF Registry!Accept
<1>8. QED
  BY <1>7 DEF Registry!Next

\* A committed removal forgets its device.
LEMMA RemovalForgets ==
    ASSUME "clear" \notin DeleteOps, RegistryInv, NEW a \in Admin, CommitDelete(a)
    PROVE  Registry!Next
<1>1. StoreInv
  BY DEF RegistryInv
<1>2. PICK d \in Device : d = adev[a]
  BY <1>1, NoClear, RemovalTakesAll DEF StoreInv
<1>3. /\ \A m \in receipts : m \in gone[a].receipts <=> DeviceOf[m] = d
      /\ \A r \in records : r \in gone[a].records <=> DeviceOf[r.msg] = d
      /\ \A x \in readings : x \in gone[a].readings <=> x.device = d
  BY <1>1, <1>2, NoClear, RemovalTakesAll DEF StoreInv
<1>4. /\ receipts' = receipts \ gone[a].receipts /\ records' = records \ gone[a].records
      /\ readings' = readings \ gone[a].readings
  BY DEF CommitDelete
<1>5. receipts' = {m \in receipts : DeviceOf[m] # d}
  BY <1>3, <1>4
<1>6. ASSUME NEW m \in Msg, DeviceOf[m] = d PROVE StoredOf(m)' = {}
  BY <1>3, <1>4, <1>6 DEF StoredOf
<1>7. ASSUME NEW m \in Msg, DeviceOf[m] # d PROVE StoredOf(m)' = StoredOf(m)
  <2>1. \A r \in records : r.msg = m => r \in records'
    BY <1>3, <1>4, <1>7
  <2>2. ASSUME NEW x \in readings, NEW r \in records, r.id = x.record, r.msg = m
        PROVE  x \in readings'
    <3>1. PICK s \in records : s.id = x.record /\ DeviceOf[s.msg] = x.device
      BY <1>1 DEF StoreInv, RecordsWhole
    <3>2. s = r
      BY <1>1, <2>2, <3>1 DEF StoreInv, Numbered
    <3>3. QED
      BY <1>3, <1>4, <1>7, <2>2, <3>1, <3>2
  <2>3. records' \subseteq records /\ readings' \subseteq readings
    BY <1>4
  <2>4. QED
    BY <2>1, <2>2, <2>3 DEF StoredOf
<1>8. Registry!Forget(d)
  BY <1>5, <1>6, <1>7 DEF Registry!Forget
<1>9. QED
  BY <1>8 DEF Registry!Next

\* Statement by statement and in many sessions, the store does what the registry
\* promises in one step each: it accepts a message once and forgets a device as a
\* whole (mqtt-contract.md:45-57), while telemetry is never cleared.
THEOREM RegistryImplemented == "clear" \notin DeleteOps /\ Spec => ImplementsRegistry
<1> SUFFICES ASSUME "clear" \notin DeleteOps PROVE Spec => ImplementsRegistry
  OBVIOUS
<1>1. Init => Registry!Init
  BY DEF Init, Registry!Init, StoredOf
<1>2. RegistryInv /\ [Next]_vars => Registry!Next \/ UNCHANGED <<receipts, records, readings>>
  <2> SUFFICES ASSUME RegistryInv, [Next]_vars
               PROVE  Registry!Next \/ UNCHANGED <<receipts, records, readings>>
    OBVIOUS
  <2>1. Shape
    BY NextShape DEF RegistryInv, StoreInv
  <2>2. ASSUME NEW w \in Worker, NEW result \in {"accepted", "raised"}, Commit(w, result)
        PROVE  Registry!Next
    BY <2>2, CommitAccepts
  <2>3. ASSUME NEW a \in Admin, CommitDelete(a) PROVE Registry!Next
    BY <2>3, RemovalForgets
  <2>4. QED
    BY <2>1, <2>2, <2>3 DEF Shape, QuietCall, Acquire, Keep, QuietRequest, Reconfigure, committed
<1>3. UNCHANGED <<receipts, records, readings>> =>
        UNCHANGED <<receipts, [m \in Msg |-> {x.param : x \in StoredOf(m)}]>>
  BY DEF StoredOf
<1>4. RegistryInv /\ [Next]_vars =>
        [Registry!Next]_<<receipts, [m \in Msg |-> {x.param : x \in StoredOf(m)}]>>
  BY <1>2, <1>3
<1>5. QED
  BY <1>1, <1>4, RegistryInvariance, PTL DEF Spec, ImplementsRegistry, Registry!Spec

-----------------------------------------------------------------------------
\* A call keeps track of what was allowed while it ran.
LEMMA WatchedStep ==
    ASSUME TypeOK, Watched, [Next]_vars
    PROVE  Watched'
<1> USE StoreAssumption DEF committed, workerVars, adminVars, history
<1>1. CASE UNCHANGED vars
  BY <1>1 DEF vars, Watched, EnabledParams
<1>2. ASSUME NEW w \in Worker, NEW m \in Msg, NEW payload \in Payload, Begin(w, m, payload)
      PROVE Watched'
  BY <1>2 DEF Begin, GoTo, EnabledParams, Watched, TypeOK, CallsOK
<1>3. ASSUME NEW w \in Worker, ReadDevice(w) PROVE Watched'
  BY <1>3 DEF ReadDevice, Answer, GoTo, EnabledParams, Watched, TypeOK, CallsOK
<1>4. ASSUME NEW w \in Worker, ReadReceipt(w) PROVE Watched'
  BY <1>4 DEF ReadReceipt, Answer, GoTo, EnabledParams, Watched, TypeOK, CallsOK
<1>5. ASSUME NEW w \in Worker, ReadParams(w) PROVE Watched'
  BY <1>5 DEF ReadParams, GoTo, EnabledParams, Watched, TypeOK, CallsOK
<1>6. ASSUME NEW w \in Worker, InsertReceipt(w) PROVE Watched'
  BY <1>6 DEF InsertReceipt, GoTo, EnabledParams, Watched, TypeOK, CallsOK
<1>7. ASSUME NEW w \in Worker, InsertRecord(w) PROVE Watched'
  BY <1>7 DEF InsertRecord, GoTo, EnabledParams, Watched, TypeOK, CallsOK
<1>8. ASSUME NEW w \in Worker, NEW result \in {"accepted", "raised"}, Commit(w, result)
      PROVE Watched'
  BY <1>8 DEF Commit, Answer, GoTo, EnabledParams, Watched, TypeOK, CallsOK
<1>9. ASSUME NEW w \in Worker, Recheck(w) PROVE Watched'
  BY <1>9 DEF Recheck, Answer, GoTo, EnabledParams, Watched, TypeOK, CallsOK
<1>10. ASSUME NEW w \in Worker, Fail(w) PROVE Watched'
  BY <1>10 DEF Fail, Answer, GoTo, EnabledParams, Watched, TypeOK, CallsOK
<1>11. CASE \E a \in Admin, op \in DeleteOps, d \in Device : BeginDelete(a, op, d)
  BY <1>11 DEF BeginDelete, EnabledParams, Watched
<1>12. ASSUME NEW a \in Admin, DeleteStep(a) \/ AbortDelete(a) PROVE Watched'
  <2>1. UNCHANGED <<param, workerVars, history>>
    BY <1>12 DEF DeleteStep, DeleteReadings, DeleteRecords, DeleteReceipts, DeleteDevice,
       Statement, Take, ReferenceFound, CommitDelete, AbortDelete
  <2>2. ASSUME NEW d \in Device, device'[d] = "enabled" PROVE device[d] = "enabled"
    <3>1. CASE CommitDelete(a)
      BY <2>2, <3>1 DEF CommitDelete, TypeOK, RowsOK
    <3>2. CASE UNCHANGED device
      BY <2>2, <3>2
    <3>3. QED
      BY <1>12, <3>1, <3>2 DEF DeleteStep, DeleteReadings, DeleteRecords, DeleteReceipts,
         DeleteDevice, Statement, Take, ReferenceFound, AbortDelete
  <2>3. QED
    BY <2>1, <2>2 DEF EnabledParams, Watched, TypeOK, CallsOK
<1>13. ASSUME NEW d \in Device, NEW s \in {"disabled", "enabled"}, AddDevice(d, s) \/ UpdateDevice(d, s)
       PROVE Watched'
  <2>1. device' = [device EXCEPT ![d] = s] /\ NoteDevice(d, s)
    BY <1>13 DEF AddDevice, UpdateDevice
  <2>2. UNCHANGED <<param, pc, msg, values, outcome, sawParams>>
    BY <1>13 DEF AddDevice, UpdateDevice
  <2>3. \A w \in Worker : sawDevice'[w] <=>
           (sawDevice[w] \/ (s = "enabled" /\ pc[w] # "idle" /\ DeviceOf[msg[w]] = d))
    BY <2>1 DEF NoteDevice
  <2>4. ASSUME NEW w \in Worker, pc[w] = "device", device'[DeviceOf[msg[w]]] = "enabled"
        PROVE  sawDevice'[w]
    <3>1. DeviceOf[msg[w]] \in Device
      BY <2>4 DEF TypeOK, CallsOK
    <3>2. QED
      BY <2>1, <2>3, <2>4, <3>1 DEF Watched, TypeOK, RowsOK
  <2>5. QED
    BY <2>2, <2>3, <2>4 DEF EnabledParams, Watched
<1>14. ASSUME NEW p \in Param, NEW s \in Status, SetParam(p, s) PROVE Watched'
  <2>1. UNCHANGED <<device, pc, msg, values, outcome, sawDevice>>
    BY <1>14 DEF SetParam
  <2>2. \A w \in Worker : sawParams'[w] =
           IF s = "enabled" /\ pc[w] # "idle" THEN sawParams[w] \cup {p} ELSE sawParams[w]
    BY <1>14 DEF SetParam, NoteParam
  <2>3. EnabledParams' \subseteq IF s = "enabled" THEN EnabledParams \cup {p} ELSE EnabledParams
    BY <1>14 DEF SetParam, EnabledParams, TypeOK, RowsOK
  <2>4. QED
    BY <2>1, <2>2, <2>3 DEF Watched
<1>15. QED
  BY <1>1, <1>2, <1>3, <1>4, <1>5, <1>6, <1>7, <1>8, <1>9, <1>10, <1>11, <1>12, <1>13, <1>14
     DEF Next, IngestStep, ConfigStep, AddParameter, UpdateParameter, RemoveParameter, Status

\* Types and what running calls have seen.
LEMMA CallsInvariance == Spec => [](TypeOK /\ Watched)
<1>1. Init => TypeOK /\ Watched
  BY StoreInit DEF StoreInv, Init, Watched
<1>2. TypeOK /\ Watched /\ [Next]_vars => (TypeOK /\ Watched)'
  BY TypeStep, WatchedStep
<1>3. QED
  BY <1>1, <1>2, PTL DEF Spec

\* Variables keep their types, and sessions hold nothing when they are idle.
THEOREM TypesHold == Spec => []TypeOK
  BY CallsInvariance, PTL

\* ingest answers (ingestion.py:55-56, 88-94): "accepted" and "duplicate" are
\* given only when the receipt is committed.
THEOREM AnswersHonest == Spec => AnswerBackedByReceipt
<1>1. TypeOK /\ Watched /\ [Next]_vars =>
        [\A w \in Worker :
           (pc[w] # "idle" /\ outcome'[w] \in {"accepted", "duplicate"})
             => msg[w] \in receipts']_vars
  <2> SUFFICES ASSUME TypeOK, Watched, Next, NEW v \in Worker, pc[v] # "idle",
                      outcome'[v] \in {"accepted", "duplicate"}
               PROVE  msg[v] \in receipts'
    OBVIOUS
  <2> USE DEF committed, workerVars, adminVars, history
  <2>1. outcome[v] = "none" /\ outcome'[v] # outcome[v]
    BY DEF Watched
  <2>2. ASSUME NEW w \in Worker, Answer(w, "duplicate"), msg[w] \in receipts, UNCHANGED committed
        PROVE  msg[v] \in receipts'
    BY <2>1, <2>2 DEF Answer, TypeOK, CallsOK
  <2>3. ASSUME NEW w \in Worker, NEW result \in {"accepted", "raised"}, Commit(w, result)
        PROVE  msg[v] \in receipts'
    BY <2>1, <2>3 DEF Commit, Answer, TypeOK, CallsOK
  <2>4. ASSUME NEW w \in Worker, NEW result \in {"device_rejected", "raised"}, Answer(w, result)
        PROVE  FALSE
    BY <2>1, <2>4 DEF Answer, TypeOK, CallsOK
  <2>5. CASE \E w \in Worker : ReadDevice(w) \/ ReadReceipt(w) \/ Recheck(w) \/ Fail(w)
    BY <2>1, <2>2, <2>4, <2>5 DEF ReadDevice, ReadReceipt, Recheck, Fail
  <2>6. CASE UNCHANGED outcome
    BY <2>1, <2>6
  <2>7. CASE \E w \in Worker, m \in Msg, payload \in Payload : Begin(w, m, payload)
    BY <2>1, <2>7 DEF Begin, TypeOK, CallsOK
  <2>8. QED
    BY <2>3, <2>5, <2>6, <2>7 DEF Next, IngestStep, DeleteStep, ConfigStep, ReadParams,
       InsertReceipt, InsertRecord, BeginDelete, DeleteReadings, DeleteRecords, DeleteReceipts,
       DeleteDevice, Statement, Take, ReferenceFound, CommitDelete, AbortDelete, AddDevice,
       UpdateDevice, AddParameter, UpdateParameter, RemoveParameter, SetParam
<1>2. QED
  BY <1>1, CallsInvariance, PTL DEF Spec, AnswerBackedByReceipt

\* What a call stores was allowed while it ran (ingestion.py:52-57), whatever is
\* reconfigured between its statements.
THEOREM StoredAllowed == Spec => StoredWhileAllowed
<1>1. TypeOK /\ Watched /\ [Next]_vars =>
        [\A m \in receipts' \ receipts :
          \E w \in Worker :
             /\ msg[w] = m /\ sawDevice[w]
             /\ \A x \in readings' \ readings : x.param \in sawParams[w]]_vars
  <2> SUFFICES ASSUME TypeOK, Watched, Next, NEW m \in receipts' \ receipts
               PROVE  \E w \in Worker :
                         /\ msg[w] = m /\ sawDevice[w]
                         /\ \A x \in readings' \ readings : x.param \in sawParams[w]
    OBVIOUS
  <2> USE DEF committed, workerVars, adminVars, history
  <2>1. ASSUME NEW w \in Worker, NEW result \in {"accepted", "raised"}, Commit(w, result)
        PROVE  msg[w] = m /\ sawDevice[w] /\ \A x \in readings' \ readings : x.param \in sawParams[w]
    <3>1. receipts' = receipts \cup {msg[w]} /\ readings' = readings \cup NewReadings(w)
      BY <2>1 DEF Commit
    <3>2. sawDevice[w] /\ values[w] \subseteq sawParams[w]
      BY <2>1 DEF Commit, Watched
    <3>3. \A x \in NewReadings(w) : x.param \in values[w]
      BY DEF NewReadings
    <3>4. QED
      BY <3>1, <3>2, <3>3
  <2>2. CASE UNCHANGED receipts
    BY <2>2
  <2>3. CASE \E a \in Admin : CommitDelete(a)
    BY <2>3 DEF CommitDelete
  <2>4. QED
    BY <2>1, <2>2, <2>3 DEF Next, IngestStep, DeleteStep, ConfigStep, Begin, ReadDevice,
       ReadReceipt, ReadParams, InsertReceipt, InsertRecord, Recheck, Fail, BeginDelete,
       DeleteReadings, DeleteRecords, DeleteReceipts, DeleteDevice, Statement, Take, ReferenceFound,
       AbortDelete, AddDevice, UpdateDevice, AddParameter, UpdateParameter, RemoveParameter, SetParam
<1>2. QED
  BY <1>1, CallsInvariance, PTL DEF Spec, StoredWhileAllowed

-----------------------------------------------------------------------------
(* Waiting                                                                  *)

\* Only rows of its own device keep a request waiting for another.
LEMMA WantedOwn ==
    ASSUME StoreInv, NEW a \in Admin, NEW b \in Admin, WaitsFor(a, b)
    PROVE  adev[a] = adev[b] /\ adev[a] \in Device
<1> USE DEF StoreInv
<1>1. PICK kind \in Kinds : Wanted(a)[kind] \cap gone[b][kind] # {}
  BY StoreAssumption DEF WaitsFor
<1>2. PICK y \in Wanted(a)[kind] : y \in gone[b][kind]
  BY <1>1
<1>3. RequestsOK /\ gone[a] \in Rows /\ gone[b] \in Rows /\ gone[b][kind] # {}
  BY <1>2 DEF TypeOK, RequestsOK
<1>4. adev[b] \in Device
  BY <1>3, StoreAssumption DEF RequestsOK, DeletedSoFar, Kinds
<1>5. CASE todo[a] # Nothing
  <2>1. y \in todo[a][kind]
    BY <1>2, <1>5 DEF Wanted
  <2>2. QED
    BY <1>2, <1>4, <2>1 DEF Removals, Kinds
<1>6. CASE todo[a] = Nothing
  <2>1. y \in Referring(a)[kind]
    BY <1>2, <1>6 DEF Wanted
  <2>2. CASE kind = "readings"
    <3>1. y \in readings /\ y.device = adev[b]
      BY <1>2, <2>1, <2>2 DEF Referring, ReferringReadings, Removals
    <3>2. CASE y.device \in gone[a].devices
      BY <1>4, <3>1, <3>2 DEF Removals
    <3>3. ASSUME NEW r \in gone[a].records, y.record = r.id PROVE adev[a] = adev[b]
      <4>1. PICK s \in records : s.id = y.record /\ DeviceOf[s.msg] = y.device
        BY <3>1 DEF RecordsWhole
      <4>2. r \in records /\ DeviceOf[r.msg] = adev[a]
        BY DEF Removals, DeletedWhole
      <4>3. s = r
        BY <3>3, <4>1, <4>2 DEF Numbered
      <4>4. QED
        BY <3>1, <4>1, <4>2, <4>3
    <3>4. QED
      BY <1>4, <2>1, <2>2, <3>2, <3>3 DEF Referring, ReferringReadings
  <2>3. CASE kind = "records"
    BY <1>2, <1>4, <2>1, <2>3 DEF Referring, ReferringRecords, Removals
  <2>4. CASE kind = "receipts"
    BY <1>2, <1>4, <2>1, <2>4 DEF Referring, ReferringReceipts, Removals
  <2>5. CASE kind = "devices"
    BY <2>1, <2>5 DEF Referring
  <2>6. QED
    BY <2>2, <2>3, <2>4, <2>5 DEF Kinds
<1>7. QED
  BY <1>5, <1>6

\* A call waits only before it holds anything, and only for a call that holds a
\* receipt or for a request; so it closes no circle, and what is left of a circle
\* are requests, each of which waits for one of the same device.
LEMMA CirclesOfDeletes ==
    ASSUME StoreInv
    PROVE  DeadlocksOfDeletes
<1> SUFFICES ASSUME NEW K \in SUBSET (Worker \cup Admin), K # {}, Stuck(K)
             PROVE  \E d \in Device :
                       LET D == {a \in K \cap Admin : adev[a] = d} IN D # {} /\ Stuck(D)
  BY DEF DeadlocksOfDeletes
<1>1. ASSUME NEW s \in K PROVE \E b \in K \cap Admin : WaitsFor(s, b)
  <2>1. PICK t \in K : WaitsFor(s, t)
    BY DEF Stuck
  <2>2. ASSUME t \in Worker PROVE FALSE
    <3>1. Holds(t)
      BY <2>1, <2>2, StoreAssumption DEF WaitsFor
    <3>2. PICK u \in K : WaitsFor(t, u)
      BY DEF Stuck
    <3>3. pc[t] = "insert"
      BY <2>2, <3>2, StoreAssumption DEF WaitsFor
    <3>4. QED
      BY <3>1, <3>3 DEF Holds
  <2>3. QED
    BY <2>1, <2>2
<1>2. PICK s \in K : TRUE
  OBVIOUS
<1>3. PICK a \in K \cap Admin : WaitsFor(s, a)
  BY <1>1, <1>2
<1>4. \A b \in K \cap Admin : \E c \in K \cap Admin :
         WaitsFor(b, c) /\ adev[b] = adev[c] /\ adev[b] \in Device
  BY <1>1, WantedOwn
<1>5. PICK d \in Device : d = adev[a]
  BY <1>3, <1>4
<1> DEFINE D == {b \in K \cap Admin : adev[b] = d}
<1>6. a \in D
  BY <1>3, <1>5
<1>7. Stuck(D)
  BY <1>4 DEF Stuck
<1>8. QED
  BY <1>6, <1>7

\* A deadlock is always one of overlapping deletes of one device, whatever the
\* number of deliveries, clears and removals of any devices: ingest never takes
\* part in a circle (ingestion.py:69-88, api.py:265-305).
THEOREM OnlyDeletesDeadlock == Spec => []DeadlocksOfDeletes
<1>1. StoreInv => DeadlocksOfDeletes
  BY CirclesOfDeletes
<1>2. QED
  BY <1>1, StoreInvariance, PTL
=============================================================================
