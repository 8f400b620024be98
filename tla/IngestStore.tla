---------------------------- MODULE IngestStore ----------------------------
(***************************************************************************)
(* The telemetry store: app/ingestion.py `ingest` running in several        *)
(* database sessions at once, against the API handlers of app/api.py that   *)
(* change what it reads (devices, parameter whitelist) and that delete what *)
(* it writes (clear telemetry, remove device).                              *)
(*                                                                          *)
(* The database is PostgreSQL at READ COMMITTED, the default that           *)
(* app/db.py:18 leaves in place: a SQL statement sees what is committed     *)
(* when it starts plus its own transaction's work, and what a transaction   *)
(* writes becomes visible in its commit step.  Only the steps between which *)
(* another session can observe or disturb something are separate: a SELECT  *)
(* and an INSERT are one step each, and the INSERTs that follow the receipt *)
(* touch rows no other session can see; a DELETE chooses its rows when it   *)
(* starts, takes them one at a time in any order, and keeps those it has    *)
(* while it waits for one that another transaction has.  Locks are derived  *)
(* from the sessions' positions and from the rows they have deleted.        *)
(*                                                                          *)
(* A message is its identity (device_id, message_id); each delivery of it   *)
(* may carry any payload, that is any non-empty set of parameter names (the *)
(* numbers themselves play no role).  Validation precedes the transaction   *)
(* (ingestion.py:37-45) and is modelled in Collector.                       *)
(***************************************************************************)
EXTENDS Naturals, FiniteSets

CONSTANTS
    Device,        \* device identifiers an administrator may register
    Param,         \* parameter names
    Msg,           \* message identities: (device_id, message_id) pairs
    DeviceOf,      \* the device_id half of a message identity
    Worker,        \* sessions that run ingest
    Admin,         \* API sessions that run a multi-statement delete
    DeleteOps,     \* which deletes administrators use: "clear", "remove"
    None,          \* the message, or device, of a session that runs nothing
    MaxDeliveries, \* bound on calls of ingest
    MaxDeletes     \* bound on delete requests

ASSUME StoreAssumption ==
    /\ DeviceOf \in [Msg -> Device]
    /\ None \notin Msg \cup Device
    /\ Worker \cap Admin = {}
    /\ DeleteOps \subseteq {"clear", "remove"}
    /\ MaxDeliveries \in Nat
    /\ MaxDeletes \in Nat

VARIABLES
    \* committed rows
    device,     \* devices: absent, or registered with its enabled flag
    param,      \* parameters: absent, or listed with its enabled flag
    receipts,   \* ingested_messages
    records,    \* telemetry_records, with the id drawn from the sequence
    readings,   \* telemetry rows: record_id, device_id, parameter
    lastId,     \* telemetry_records id sequence (never rolled back)
    \* sessions running ingest
    pc, msg, values, recordId,
    outcome,    \* what the last call answered
    delivered,  \* calls made so far
    \* sessions running clear_device_telemetry or remove_device
    apc, aop, adev,
    todo,       \* rows the session's current statement has yet to delete
    gone,       \* rows deleted by the session and not yet committed
    deletes,    \* requests made so far
    \* history of the running calls, read by properties only
    sawDevice, sawParams

committed  == <<device, param, receipts, records, readings>>
workerVars == <<lastId, pc, msg, values, recordId, outcome, delivered>>
adminVars  == <<apc, aop, adev, todo, gone, deletes>>
history    == <<sawDevice, sawParams>>
vars       == <<committed, workerVars, adminVars, history>>

Status  == {"absent", "disabled", "enabled"}
Record  == [id : Nat, msg : Msg]
Reading == [record : Nat, device : Device, param : Param]
Payload == SUBSET Param \ {{}}

\* The tables a delete goes through, in its order, and rows of each of them.
Kinds   == {"readings", "records", "receipts", "devices"}
Rows    == [readings : SUBSET Reading, records : SUBSET Record,
            receipts : SUBSET Msg, devices : SUBSET Device]
Nothing == [readings |-> {}, records |-> {}, receipts |-> {}, devices |-> {}]
Without(rows, others) ==
    [readings |-> rows.readings \ others.readings, records |-> rows.records \ others.records,
     receipts |-> rows.receipts \ others.receipts, devices |-> rows.devices \ others.devices]

EnabledParams  == {p \in Param : param[p] = "enabled"}
ReceiptsOf(d)  == {m \in receipts : DeviceOf[m] = d}
RecordsOf(d)   == {r \in records : DeviceOf[r.msg] = d}
ReadingsOf(d)  == {x \in readings : x.device = d}

-----------------------------------------------------------------------------
(* Locks, as PostgreSQL takes them for these statements.                    *)

\* Mutation of Holds: the receipt is inserted before anything is checked.
HoldsEarly(w) == pc[w] \in {"receipt", "params", "insert", "record", "commit"}

\* The session has inserted a receipt it has not committed.  The foreign key
\* check of that INSERT also holds FOR KEY SHARE on the device's row.
Holds(w) == pc[w] \in {"record", "commit"}

\* A removal has deleted the device's row and not committed; one that is at its
\* DELETE FROM devices holds the table ROW EXCLUSIVE whatever it deletes.
RowLocked(d)  == \E a \in Admin : d \in gone[a].devices
TableInUse    == \E a \in Admin : apc[a] = "devices"

\* Mutation of ReferringReceipts: no foreign key on ingested_messages.
ReferringReceiptsNone(a) == {}

\* The rows that refer to what a request has deleted and would stay: the foreign
\* keys, none of which cascades, are checked at the end of each DELETE.
ReferringReadings(a) ==
    {x \in readings \ gone[a].readings :
        (\E r \in gone[a].records : x.record = r.id) \/ x.device \in gone[a].devices}
ReferringRecords(a)  ==
    {r \in records \ gone[a].records : DeviceOf[r.msg] \in gone[a].devices}
ReferringReceipts(a) ==
    {m \in receipts \ gone[a].receipts : DeviceOf[m] \in gone[a].devices}
Referring(a) ==
    [readings |-> ReferringReadings(a), records |-> ReferringRecords(a),
     receipts |-> ReferringReceipts(a), devices |-> {}]

\* The rows a request has to lock next, in no particular order: those its DELETE
\* has left to take (FOR UPDATE), then those its foreign key check comes upon
\* (FOR KEY SHARE), which may be rows that another transaction has deleted.
Wanted(a) == IF todo[a] # Nothing THEN todo[a] ELSE Referring(a)

\* The next statement of s, a call or a request, may have to wait for t to end.
\* The INSERT of a receipt waits for a session that inserted or deleted the same
\* key and, in its foreign key check, for one that deleted the device's row.
WaitsFor(s, t) ==
    \/ /\ s \in Worker /\ t \in Worker \ {s} /\ pc[s] = "insert"
       /\ Holds(t) /\ msg[t] = msg[s]
    \/ /\ s \in Worker /\ t \in Admin /\ pc[s] = "insert"
       /\ \/ msg[s] \in gone[t].receipts
          \/ msg[s] \notin receipts /\ DeviceOf[msg[s]] \in gone[t].devices
    \/ /\ s \in Admin /\ t \in Worker
       /\ Holds(t) /\ DeviceOf[msg[t]] \in todo[s].devices
    \/ /\ s \in Admin /\ t \in Admin
       /\ \E kind \in Kinds : Wanted(s)[kind] \cap gone[t][kind] # {}

Waits(s) == \E t \in Worker \cup Admin : WaitsFor(s, t)

-----------------------------------------------------------------------------
Init ==
    /\ device \in [Device -> Status]
    /\ param \in [Param -> Status]
    /\ receipts = {} /\ records = {} /\ readings = {}
    /\ lastId = 0
    /\ pc = [w \in Worker |-> "idle"]
    /\ msg = [w \in Worker |-> None]
    /\ values = [w \in Worker |-> {}]
    /\ recordId = [w \in Worker |-> 0]
    /\ outcome = [w \in Worker |-> "none"]
    /\ delivered = 0
    /\ apc = [a \in Admin |-> "idle"]
    /\ aop = [a \in Admin |-> "none"]
    /\ adev = [a \in Admin |-> None]
    /\ todo = [a \in Admin |-> Nothing]
    /\ gone = [a \in Admin |-> Nothing]
    /\ deletes = 0
    /\ sawDevice = [w \in Worker |-> FALSE]
    /\ sawParams = [w \in Worker |-> {}]

-----------------------------------------------------------------------------
(* ingest                                                                   *)

GoTo(w, label) == pc' = [pc EXCEPT ![w] = label]

\* The call ends: its session is closed and it returns or raises.
Answer(w, result) ==
    /\ GoTo(w, "idle")
    /\ msg' = [msg EXCEPT ![w] = None]
    /\ values' = [values EXCEPT ![w] = {}]
    /\ recordId' = [recordId EXCEPT ![w] = 0]
    /\ outcome' = [outcome EXCEPT ![w] = result]
    /\ sawDevice' = [sawDevice EXCEPT ![w] = FALSE]
    /\ sawParams' = [sawParams EXCEPT ![w] = {}]

\* A validated delivery of m opens its session.
Begin(w, m, payload) ==
    /\ pc[w] = "idle" /\ delivered < MaxDeliveries
    /\ GoTo(w, "device")
    /\ msg' = [msg EXCEPT ![w] = m]
    /\ values' = [values EXCEPT ![w] = payload]
    /\ outcome' = [outcome EXCEPT ![w] = "none"]
    /\ delivered' = delivered + 1
    /\ sawDevice' = [sawDevice EXCEPT ![w] = device[DeviceOf[m]] = "enabled"]
    /\ sawParams' = [sawParams EXCEPT ![w] = EnabledParams]
    /\ UNCHANGED <<committed, adminVars, lastId, recordId>>

\* db.get(Device): unknown and disabled devices are turned away.
ReadDevice(w) ==
    /\ pc[w] = "device"
    /\ IF device[DeviceOf[msg[w]]] = "enabled"
       THEN GoTo(w, "receipt") /\ UNCHANGED <<msg, values, recordId, outcome, history>>
       ELSE Answer(w, "device_rejected")
    /\ UNCHANGED <<committed, adminVars, lastId, delivered>>

\* db.get(IngestedMessage): a committed receipt ends the call.
ReadReceipt(w) ==
    /\ pc[w] = "receipt"
    /\ IF msg[w] \in receipts
       THEN Answer(w, "duplicate")
       ELSE GoTo(w, "params") /\ UNCHANGED <<msg, values, recordId, outcome, history>>
    /\ UNCHANGED <<committed, adminVars, lastId, delivered>>

\* Mutation of ReadParams: disabled parameters pass the filter.
ReadParamsListed(w) ==
    /\ pc[w] = "params"
    /\ GoTo(w, "insert")
    /\ values' = [values EXCEPT ![w] = {p \in @ : param[p] # "absent"}]
    /\ UNCHANGED <<committed, adminVars, lastId, delivered, msg, recordId, outcome, history>>

\* The whitelist is read once; values are filtered with that answer.
ReadParams(w) ==
    /\ pc[w] = "params"
    /\ GoTo(w, "insert")
    /\ values' = [values EXCEPT ![w] = @ \cap EnabledParams]
    /\ UNCHANGED <<committed, adminVars, lastId, delivered, msg, recordId, outcome, history>>

\* Mutation of InsertReceipt: ingested_messages lost its primary key.
InsertReceiptTwice(w) ==
    /\ pc[w] = "insert"
    /\ ~RowLocked(DeviceOf[msg[w]])
    /\ GoTo(w, IF device[DeviceOf[msg[w]]] # "absent" THEN "record" ELSE "recheck")
    /\ UNCHANGED <<committed, adminVars, lastId, delivered, msg, values, recordId, outcome, history>>

\* INSERT of the receipt: primary key and device foreign key are checked once
\* nobody else's uncommitted work can change the answer.
InsertReceipt(w) ==
    /\ pc[w] = "insert"
    /\ ~Waits(w)
    /\ IF msg[w] \notin receipts /\ device[DeviceOf[msg[w]]] # "absent"
       THEN GoTo(w, "record")
       ELSE GoTo(w, "recheck")       \* IntegrityError: rolled back
    /\ UNCHANGED <<committed, adminVars, lastId, delivered, msg, values, recordId, outcome, history>>

\* INSERT of the record, drawing its id, when anything survived the filter.
InsertRecord(w) ==
    /\ pc[w] = "record"
    /\ GoTo(w, "commit")
    /\ IF values[w] # {}
       THEN lastId' = lastId + 1 /\ recordId' = [recordId EXCEPT ![w] = lastId + 1]
       ELSE UNCHANGED <<lastId, recordId>>
    /\ UNCHANGED <<committed, adminVars, delivered, msg, values, outcome, history>>

\* The rows this session has written.
NewRecords(w)  == IF values[w] = {} THEN {} ELSE {[id |-> recordId[w], msg |-> msg[w]]}
NewReadings(w) ==
    {[record |-> recordId[w], device |-> DeviceOf[msg[w]], param |-> p] : p \in values[w]}

\* COMMIT.  The server may commit while the client, cut off, sees an error.
Commit(w, result) ==
    /\ pc[w] = "commit"
    /\ receipts' = receipts \cup {msg[w]}
    /\ records' = records \cup NewRecords(w)
    /\ readings' = readings \cup NewReadings(w)
    /\ Answer(w, result)
    /\ UNCHANGED <<device, param, adminVars, lastId, delivered>>

\* Mutation of Recheck: any IntegrityError counts as a duplicate.
RecheckBlind(w) ==
    /\ pc[w] = "recheck"
    /\ Answer(w, "duplicate")
    /\ UNCHANGED <<committed, adminVars, lastId, delivered>>

\* After an IntegrityError: was it somebody else's receipt?  If not, re-raise.
Recheck(w) ==
    /\ pc[w] = "recheck"
    /\ Answer(w, IF msg[w] \in receipts THEN "duplicate" ELSE "raised")
    /\ UNCHANGED <<committed, adminVars, lastId, delivered>>

\* Any other database error, a statement timeout or the death of the process:
\* the server rolls the session back and the call raises, if it still runs.
Fail(w) ==
    /\ pc[w] # "idle"
    /\ Answer(w, "raised")
    /\ UNCHANGED <<committed, adminVars, lastId, delivered>>

IngestStep(w) ==
    \/ ReadDevice(w) \/ ReadReceipt(w) \/ ReadParams(w) \/ InsertReceipt(w)
    \/ InsertRecord(w) \/ Commit(w, "accepted") \/ Commit(w, "raised") \/ Recheck(w)

-----------------------------------------------------------------------------
(* clear_device_telemetry and remove_device                                 *)

AGoTo(a, label) == apc' = [apc EXCEPT ![a] = label]

\* End of the request: its locks are released, its changes made or undone.
AEnd(a) ==
    /\ AGoTo(a, "idle")
    /\ aop' = [aop EXCEPT ![a] = "none"]
    /\ adev' = [adev EXCEPT ![a] = None]
    /\ gone' = [gone EXCEPT ![a] = Nothing]

\* db.get(Device) finds the row; otherwise the answer is 404.
BeginDelete(a, op, d) ==
    /\ apc[a] = "idle" /\ deletes < MaxDeletes
    /\ device[d] # "absent"
    /\ AGoTo(a, "begun")
    /\ aop' = [aop EXCEPT ![a] = op]
    /\ adev' = [adev EXCEPT ![a] = d]
    /\ deletes' = deletes + 1
    /\ UNCHANGED <<committed, workerVars, history, todo, gone>>

\* The statement a request is at has taken its rows, and no row that stays refers
\* to them.  No later commit can add such a row, so that it does not matter that
\* the check is made here, as the request goes on.
Finished(a) == todo[a] = Nothing /\ Referring(a) = Nothing

\* A DELETE starts when the one before it has finished; its rows are those
\* committed now, even if it waits for one of them and others arrive meanwhile.
Statement(a, before, kind, rows) ==
    /\ apc[a] = before /\ Finished(a)
    /\ AGoTo(a, kind)
    /\ todo' = [todo EXCEPT ![a][kind] = rows]
    /\ UNCHANGED <<committed, workerVars, history, aop, adev, gone, deletes>>

\* Mutations of DeleteRecords and DeleteReceipts: the statement finds no row.
DeleteRecordsSkipped(a)  == Statement(a, "readings", "records", {})
DeleteReceiptsSkipped(a) == Statement(a, "records", "receipts", {})

DeleteReadings(a) == Statement(a, "begun", "readings", ReadingsOf(adev[a]))
DeleteRecords(a)  == Statement(a, "readings", "records", RecordsOf(adev[a]))
DeleteReceipts(a) == Statement(a, "records", "receipts", ReceiptsOf(adev[a]))
DeleteDevice(a)   ==
    /\ aop[a] = "remove"
    /\ Statement(a, "receipts", "devices", {d \in {adev[a]} : device[d] # "absent"})

\* The running statement deletes a row, once no other transaction has it.  The
\* row of a device is also held by the sessions that have inserted a receipt.
Take(a, kind) ==
    /\ \E x \in todo[a][kind] :
          /\ \A b \in Admin : x \notin gone[b][kind]
          /\ kind = "devices" => \A w \in Worker : Holds(w) => DeviceOf[msg[w]] # x
          /\ todo' = [todo EXCEPT ![a][kind] = @ \ {x}]
          /\ gone' = [gone EXCEPT ![a][kind] = @ \cup {x}]
    /\ UNCHANGED <<committed, workerVars, history, apc, aop, adev, deletes>>

\* The foreign key check comes upon a row that nobody is deleting: it fails the
\* request (a reading or a receipt committed since its DELETE started).
ReferenceFound(a) ==
    /\ todo[a] = Nothing
    /\ \E kind \in Kinds : \E x \in Referring(a)[kind] : \A b \in Admin : x \notin gone[b][kind]
    /\ AEnd(a)
    /\ UNCHANGED <<committed, workerVars, history, todo, deletes>>

\* COMMIT.  A DELETE that waited for one of these rows finds it gone and skips it.
CommitDelete(a) ==
    /\ apc[a] = IF aop[a] = "remove" THEN "devices" ELSE "receipts"
    /\ Finished(a)
    /\ readings' = readings \ gone[a].readings
    /\ records' = records \ gone[a].records
    /\ receipts' = receipts \ gone[a].receipts
    /\ device' = [d \in Device |-> IF d \in gone[a].devices THEN "absent" ELSE device[d]]
    /\ todo' = [b \in Admin |-> Without(todo[b], gone[a])]
    /\ AEnd(a)
    /\ UNCHANGED <<param, workerVars, history, deletes>>

\* A statement fails, mosquitto_passwd fails, or the request is cut off.
AbortDelete(a) ==
    /\ apc[a] # "idle"
    /\ AEnd(a)
    /\ todo' = [todo EXCEPT ![a] = Nothing]
    /\ UNCHANGED <<committed, workerVars, history, deletes>>

\* Mutation of LockTimeout: lock_timeout is not set and nothing ends a deadlock.
LockTimeoutNever(a) == a \notin Admin

\* A statement that waits too long is ended by lock_timeout (or sooner, when it
\* waits in a circle, by the deadlock detector).
LockTimeout(a) == Waits(a) /\ AbortDelete(a)

DeleteStep(a) ==
    \/ DeleteReadings(a) \/ DeleteRecords(a) \/ DeleteReceipts(a) \/ DeleteDevice(a)
    \/ \E kind \in Kinds : Take(a, kind)
    \/ ReferenceFound(a) \/ CommitDelete(a)

-----------------------------------------------------------------------------
(* Single-row changes: one read, one write, one commit.                     *)

\* Running calls that could still see what changed remember it.
NoteDevice(d, status) ==
    sawDevice' = [w \in Worker |->
        sawDevice[w] \/ (status = "enabled" /\ pc[w] # "idle" /\ DeviceOf[msg[w]] = d)]
NoteParam(p, status) ==
    sawParams' = [w \in Worker |->
        IF status = "enabled" /\ pc[w] # "idle" THEN sawParams[w] \cup {p} ELSE sawParams[w]]

\* add_device: its SHARE ROW EXCLUSIVE table lock waits for a running removal.
AddDevice(d, status) ==
    /\ ~TableInUse
    /\ device[d] = "absent"
    /\ device' = [device EXCEPT ![d] = status]
    /\ NoteDevice(d, status)
    /\ UNCHANGED <<param, receipts, records, readings, workerVars, adminVars, sawParams>>

\* update_device: the row must exist and not be locked by its removal.  It does
\* not conflict with the FOR KEY SHARE of a running ingest.
UpdateDevice(d, status) ==
    /\ device[d] # "absent" /\ ~RowLocked(d)
    /\ device' = [device EXCEPT ![d] = status]
    /\ NoteDevice(d, status)
    /\ UNCHANGED <<param, receipts, records, readings, workerVars, adminVars, sawParams>>

SetParam(p, status) ==
    /\ param' = [param EXCEPT ![p] = status]
    /\ NoteParam(p, status)
    /\ UNCHANGED <<device, receipts, records, readings, workerVars, adminVars, sawDevice>>

AddParameter(p, status)    == param[p] = "absent" /\ SetParam(p, status)
UpdateParameter(p, status) == param[p] # "absent" /\ SetParam(p, status)
\* Mutation of RemoveParameter: history does not survive the whitelist entry.
RemoveParameterCascade(p) ==
    /\ param[p] # "absent"
    /\ param' = [param EXCEPT ![p] = "absent"]
    /\ readings' = {x \in readings : x.param # p}
    /\ UNCHANGED <<device, receipts, records, workerVars, adminVars, history>>

RemoveParameter(p)         == param[p] # "absent" /\ SetParam(p, "absent")

ConfigStep ==
    \/ \E d \in Device, s \in {"disabled", "enabled"} : AddDevice(d, s) \/ UpdateDevice(d, s)
    \/ \E p \in Param, s \in {"disabled", "enabled"} : AddParameter(p, s) \/ UpdateParameter(p, s)
    \/ \E p \in Param : RemoveParameter(p)

-----------------------------------------------------------------------------
Next ==
    \/ \E w \in Worker, m \in Msg, payload \in Payload : Begin(w, m, payload)
    \/ \E w \in Worker : IngestStep(w) \/ Fail(w)
    \/ \E a \in Admin, op \in DeleteOps, d \in Device : BeginDelete(a, op, d)
    \/ \E a \in Admin : DeleteStep(a) \/ AbortDelete(a)
    \/ ConfigStep

Spec == Init /\ [][Next]_vars

\* The server executes every statement that need not wait, and a request whose
\* statement waits goes on when it can or is ended by lock_timeout.
Fairness ==
    /\ \A w \in Worker : WF_vars(IngestStep(w))
    /\ \A a \in Admin : WF_vars(DeleteStep(a) /\ ~Waits(a)) /\ WF_vars(LockTimeout(a))

FairSpec == Spec /\ Fairness

-----------------------------------------------------------------------------
RowsOK ==
    /\ device \in [Device -> Status] /\ param \in [Param -> Status]
    /\ receipts \subseteq Msg /\ records \subseteq Record /\ readings \subseteq Reading

CallsOK ==
    /\ pc \in [Worker -> {"idle", "device", "receipt", "params", "insert",
                          "record", "commit", "recheck"}]
    /\ msg \in [Worker -> Msg \cup {None}]
    /\ \A w \in Worker : (msg[w] = None) <=> (pc[w] = "idle")
    /\ values \in [Worker -> SUBSET Param] /\ recordId \in [Worker -> Nat]
    /\ outcome \in [Worker -> {"none", "accepted", "duplicate", "device_rejected", "raised"}]
    /\ sawDevice \in [Worker -> BOOLEAN] /\ sawParams \in [Worker -> SUBSET Param]

RequestsOK ==
    /\ apc \in [Admin -> {"idle", "begun"} \cup Kinds]
    /\ aop \in [Admin -> DeleteOps \cup {"none"}]
    /\ adev \in [Admin -> Device \cup {None}]
    /\ \A a \in Admin : /\ (aop[a] = "none") <=> (apc[a] = "idle")
                        /\ (adev[a] = None) <=> (apc[a] = "idle")
    /\ todo \in [Admin -> Rows] /\ gone \in [Admin -> Rows]

\* Types of all variables; a session is idle exactly when it has nothing to do.
TypeOK ==
    /\ RowsOK /\ CallsOK /\ RequestsOK
    /\ lastId \in Nat /\ delivered \in Nat /\ deletes \in Nat

\* "One registry entry per accepted device transmission" (models.py:52): however
\* often, and in however many sessions at once, a message is delivered, it has
\* at most one telemetry record.
OneRecordPerMessage == \A r, s \in records : r.msg = s.msg => r = s

\* A record is never seen without readings, a reading never without its record:
\* ingest and the deletes never leave half a transmission behind.
RecordsWhole ==
    /\ \A r \in records : \E x \in readings : x.record = r.id
    /\ \A x \in readings : \E r \in records : r.id = x.record /\ DeviceOf[r.msg] = x.device

\* Rows survive no device: what a removal deletes and what a concurrent ingest
\* commits never leaves receipts, records or readings of an absent device.
NoOrphans ==
    \A d \in Device : device[d] = "absent" =>
        ReceiptsOf(d) = {} /\ RecordsOf(d) = {} /\ ReadingsOf(d) = {}

\* "Reusing it with different values does not overwrite history"
\* (mqtt-contract.md:34-35): the readings of a stored record never change.
HistoryNotRewritten ==
    [][\A r \in records \cap records' :
          {x \in readings : x.record = r.id} = {x \in readings' : x.record = r.id}]_vars

\* "Ignore unknown/disabled devices ... discard unapproved values"
\* (mqtt-contract.md:48-50), under concurrent changes: whatever a call stores
\* was allowed at some moment of that call, its device and each parameter.  A
\* call that starts after a device or a parameter was disabled stores nothing.
StoredWhileAllowed ==
    [][\A m \in receipts' \ receipts :
          \E w \in Worker :
             /\ msg[w] = m /\ sawDevice[w]
             /\ \A x \in readings' \ readings : x.param \in sawParams[w]]_vars

\* The collector acknowledges "accepted" and "duplicate": a call gives these
\* answers only if the message's receipt is committed at that moment.
AnswerBackedByReceipt ==
    [][\A w \in Worker :
          (pc[w] # "idle" /\ outcome'[w] \in {"accepted", "duplicate"})
             => msg[w] \in receipts']_vars

\* No call of ingest and no delete waits forever.  Overlapping deletes of a device
\* can wait for each other in a circle; lock_timeout ends one of them.
CallsEnd ==
    /\ \A w \in Worker : (pc[w] # "idle") ~> (pc[w] = "idle")
    /\ \A a \in Admin : (apc[a] # "idle") ~> (apc[a] = "idle")

\* Each of these sessions waits for another of them: a deadlock.
Stuck(K) == \A s \in K : \E t \in K : WaitsFor(s, t)

\* Ingest is never part of a deadlock, whatever the number of calls, clears and
\* removals: where sessions are stuck, deletes of one device are stuck by themselves.
DeadlocksOfDeletes ==
    \A K \in SUBSET (Worker \cup Admin) :
        K # {} /\ Stuck(K) =>
            \E d \in Device : LET D == {a \in K \cap Admin : adev[a] = d} IN D # {} /\ Stuck(D)

\* What makes the invariants above inductive.  An uncommitted receipt is new,
\* held by one session only, and its device exists as long as it is held.
HeldReceipts ==
    /\ \A w \in Worker : Holds(w) =>
          msg[w] \notin receipts /\ device[DeviceOf[msg[w]]] # "absent"
    /\ \A v, w \in Worker : Holds(v) /\ Holds(w) /\ msg[v] = msg[w] => v = w

\* A request chooses rows of its own device only.  A removal that has deleted the
\* device's row is alone with it, and it finds no row only if there is no device.
Removals ==
    /\ \A a \in Admin : \A rows \in {todo[a], gone[a]} :
          /\ \A m \in rows.receipts : DeviceOf[m] = adev[a]
          /\ \A r \in rows.records : DeviceOf[r.msg] = adev[a]
          /\ \A x \in rows.readings : x.device = adev[a]
          /\ \A d \in rows.devices : d = adev[a] /\ apc[a] = "devices" /\ device[d] # "absent"
    /\ \A a, b \in Admin : a # b => gone[a].devices \cap gone[b].devices = {}
    /\ \A a \in Admin, w \in Worker : Holds(w) => DeviceOf[msg[w]] \notin gone[a].devices
    /\ \A a \in Admin : apc[a] = "devices" =>
          adev[a] \in todo[a].devices \cup gone[a].devices \/ device[adev[a]] = "absent"

\* A running call has not answered; what it has found allowed was, and so is
\* what it will find allowed.
Watched ==
    \A w \in Worker :
        /\ pc[w] # "idle" => outcome[w] = "none" /\ EnabledParams \subseteq sawParams[w]
        /\ pc[w] = "device" /\ device[DeviceOf[msg[w]]] = "enabled" => sawDevice[w]
        /\ pc[w] \notin {"idle", "device"} => sawDevice[w]
        /\ pc[w] \in {"insert", "record", "commit"} => values[w] \subseteq sawParams[w]

\* A record's id is drawn once, before the record is committed.
Draws(w) == pc[w] = "commit" /\ values[w] # {}
Numbered ==
    /\ \A r \in records : r.id \in 1..lastId
    /\ \A r, s \in records : r.id = s.id => r = s
    /\ \A w \in Worker : Draws(w) =>
          recordId[w] \in 1..lastId /\ \A r \in records : r.id # recordId[w]
    /\ \A v, w \in Worker : Draws(v) /\ Draws(w) /\ recordId[v] = recordId[w] => v = w

\* Only committed rows are deleted, a row by one request only.  A request deletes a
\* record whose readings it has deleted, and past its second statement only those.
DeletedWhole ==
    /\ \A a \in Admin : \A rows \in {todo[a], gone[a]} :
          /\ rows.readings \subseteq readings /\ rows.records \subseteq records
          /\ rows.receipts \subseteq receipts
    /\ \A a, b \in Admin : a # b =>
          /\ gone[a].readings \cap gone[b].readings = {}
          /\ gone[a].records \cap gone[b].records = {}
          /\ gone[a].receipts \cap gone[b].receipts = {}
    /\ \A a \in Admin, r \in records, x \in readings : x.record = r.id =>
          /\ apc[a] \in {"records", "receipts", "devices"} /\ x \in gone[a].readings =>
                r \in todo[a].records \cup gone[a].records
          /\ apc[a] \in {"receipts", "devices"} /\ r \in gone[a].records =>
                x \in gone[a].readings

\* How far a request is says which tables it has deleted from, and its statement
\* has rows left to take in one table only.
DeletedSoFar ==
    \A a \in Admin :
        /\ \A kind \in Kinds : apc[a] # kind => todo[a][kind] = {}
        /\ apc[a] \in {"idle", "begun"} => gone[a].readings = {}
        /\ apc[a] \in {"idle", "begun", "readings"} => gone[a].records = {}
        /\ apc[a] \notin {"receipts", "devices"} => gone[a].receipts = {}
        /\ apc[a] # "devices" => gone[a].devices = {}

\* Holds for every choice of deletes.
StoreInv ==
    /\ TypeOK /\ HeldReceipts /\ Removals /\ NoOrphans
    /\ RecordsWhole /\ Numbered /\ DeletedWhole /\ DeletedSoFar

\* Holds while nobody clears telemetry: every record is covered by a receipt,
\* which is what keeps a second record of the same message out.
RecordsCovered == \A r \in records : r.msg \in receipts

RegistryInv == StoreInv /\ RecordsCovered /\ OneRecordPerMessage

\* The readings stored under message m.
StoredOf(m) == {x \in readings : \E r \in records : r.id = x.record /\ r.msg = m}

\* The store, as other components may think of it.
Registry == INSTANCE TelemetryRegistry WITH
    seen <- receipts,
    kept <- [m \in Msg |-> {x.param : x \in StoredOf(m)}]

ImplementsRegistry == Registry!Spec
=============================================================================
