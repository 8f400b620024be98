--------------------------- MODULE DeviceRegistry ---------------------------
(***************************************************************************)
(* Registering and removing devices: add_device and remove_device of        *)
(* app/api.py, running in several API sessions, keep two stores in step     *)
(* that share no transaction: the devices table and mosquitto's password    *)
(* file, which mosquitto_passwd reads and rewrites as a whole.              *)
(*                                                                          *)
(* A password is the number of the registration that generated it; 0 stands *)
(* for no row, or no entry in the file.  The telemetry that remove_device   *)
(* deletes on the way is the subject of IngestStore; here the statement     *)
(* sequence may simply fail.                                                *)
(***************************************************************************)
EXTENDS Naturals, FiniteSets

CONSTANTS
    Device,       \* device identifiers
    Session,      \* API sessions
    None,         \* no device, no copy of the file
    MaxDevices,   \* settings.max_devices
    MaxRequests,  \* bound on requests
    MaxCrashes    \* bound on requests cut off between two steps

ASSUME RegistryAssumption ==
    /\ IsFiniteSet(Device) /\ None \notin Device \cup [Device -> Nat]
    /\ MaxDevices \in 1..10
    /\ MaxRequests \in Nat /\ MaxCrashes \in Nat

VARIABLES
    row,        \* committed devices: the row's mqtt_password
    fileThere,  \* /secrets/mosquitto.passwd exists
    entry,      \* its entries
    pc, op, dev,
    pw,         \* password generated for the device being added
    copy,       \* what the session's mosquitto_passwd has read
    lastPw,     \* passwords generated so far
    requests, crashes,
    \* history
    bare,       \* devices registered while there was no file
    overlapped  \* two removals have worked on the file at the same time

dbVars      == <<row>>
fileVars    == <<fileThere, entry>>
sessionVars == <<pc, op, dev, pw, copy>>
counters    == <<lastPw, requests, crashes>>
vars        == <<dbVars, fileVars, sessionVars, counters, bare, overlapped>>

NoEntries  == [d \in Device |-> 0]
Registered == {d \in Device : row[d] # 0}

\* The session executes add_device and has LOCK TABLE ... SHARE ROW EXCLUSIVE.
HoldsTable(a) == op[a] = "add" /\ pc[a] \in {"file", "write", "commit"}

\* The session executes remove_device and has deleted the row: it holds the row
\* FOR UPDATE and the table ROW EXCLUSIVE.
HoldsRow(a) == op[a] = "remove" /\ pc[a] \in {"file", "write", "commit"}

-----------------------------------------------------------------------------
Init ==
    /\ row = NoEntries
    /\ fileThere \in BOOLEAN /\ entry = NoEntries
    /\ pc = [a \in Session |-> "idle"]
    /\ op = [a \in Session |-> "none"]
    /\ dev = [a \in Session |-> None]
    /\ pw = [a \in Session |-> 0]
    /\ copy = [a \in Session |-> None]
    /\ lastPw = 0 /\ requests = 0 /\ crashes = 0
    /\ bare = {} /\ overlapped = FALSE

GoTo(a, label) == pc' = [pc EXCEPT ![a] = label]

\* The request answers; an open transaction is rolled back.
End(a) ==
    /\ GoTo(a, "idle")
    /\ op' = [op EXCEPT ![a] = "none"]
    /\ dev' = [dev EXCEPT ![a] = None]
    /\ pw' = [pw EXCEPT ![a] = 0]
    /\ copy' = [copy EXCEPT ![a] = None]

Begin(a, request, d) ==
    /\ pc[a] = "idle" /\ requests < MaxRequests
    /\ requests' = requests + 1
    /\ op' = [op EXCEPT ![a] = request]
    /\ dev' = [dev EXCEPT ![a] = d]
    /\ GoTo(a, IF request = "add" THEN "lock" ELSE "delete")
    /\ UNCHANGED <<dbVars, fileVars, pw, copy, lastPw, crashes, bare, overlapped>>

\* add_device starts.
BeginAdd(a, d) == Begin(a, "add", d)

\* remove_device finds the device; otherwise it answers 404 at once.
BeginRemove(a, d) == row[d] # 0 /\ Begin(a, "remove", d)

\* Mutation of Admit: capacity is checked without the table lock.
AdmitUnlocked(a) ==
    /\ pc[a] = "lock"
    /\ IF row[dev[a]] # 0 \/ Cardinality(Registered) >= MaxDevices
       THEN End(a) /\ UNCHANGED lastPw
       ELSE /\ GoTo(a, "file")
            /\ lastPw' = lastPw + 1 /\ pw' = [pw EXCEPT ![a] = lastPw + 1]
            /\ UNCHANGED <<op, dev, copy>>
    /\ UNCHANGED <<dbVars, fileVars, requests, crashes, bare, overlapped>>

\* Mutation of Admit: a registration waits for room instead of being refused.
AdmitWhenRoom(a) ==
    /\ pc[a] = "lock"
    /\ \A b \in Session \ {a} : ~HoldsTable(b) /\ ~HoldsRow(b)
    /\ row[dev[a]] = 0 /\ Cardinality(Registered) < MaxDevices
    /\ GoTo(a, "file")
    /\ lastPw' = lastPw + 1 /\ pw' = [pw EXCEPT ![a] = lastPw + 1]
    /\ UNCHANGED <<dbVars, fileVars, op, dev, copy, requests, crashes, bare, overlapped>>

\* LOCK TABLE waits for every other add and for removals that have deleted
\* their row.  Under the lock the identifier and the capacity are checked and
\* the password is generated.
Admit(a) ==
    /\ pc[a] = "lock"
    /\ \A b \in Session \ {a} : ~HoldsTable(b) /\ ~HoldsRow(b)
    /\ IF row[dev[a]] # 0 \/ Cardinality(Registered) >= MaxDevices
       THEN End(a) /\ UNCHANGED lastPw
       ELSE /\ GoTo(a, "file")
            /\ lastPw' = lastPw + 1 /\ pw' = [pw EXCEPT ![a] = lastPw + 1]
            /\ UNCHANGED <<op, dev, copy>>
    /\ UNCHANGED <<dbVars, fileVars, requests, crashes, bare, overlapped>>

\* DELETE FROM devices waits for a running add and for another removal of the
\* same row.
DeleteRow(a) ==
    /\ pc[a] = "delete"
    /\ \A b \in Session \ {a} : ~HoldsTable(b) /\ ~(HoldsRow(b) /\ dev[b] = dev[a])
    /\ GoTo(a, "file")
    /\ UNCHANGED <<dbVars, fileVars, op, dev, pw, copy, counters, bare, overlapped>>

\* One of the deletes is refused, by a foreign key or a timeout.
DeleteFails(a) ==
    /\ pc[a] = "delete"
    /\ End(a)
    /\ UNCHANGED <<dbVars, fileVars, counters, bare, overlapped>>

\* Mutation of ReadFile: mosquitto_passwd is started without looking for the file.
ReadFileUnchecked(a) ==
    /\ pc[a] = "file"
    /\ GoTo(a, "write")
    /\ copy' = [copy EXCEPT ![a] = IF fileThere THEN entry ELSE None]
    /\ UNCHANGED <<dbVars, fileVars, op, dev, pw, counters, bare, overlapped>>

\* If the file exists mosquitto_passwd is started, and reads it.
ReadFile(a) ==
    /\ pc[a] = "file"
    /\ IF fileThere
       THEN GoTo(a, "write") /\ copy' = [copy EXCEPT ![a] = entry]
       ELSE GoTo(a, "commit") /\ UNCHANGED copy
    /\ overlapped' = (overlapped \/ (fileThere /\ op[a] = "remove" /\
                       \E b \in Session \ {a} : HoldsRow(b) /\ pc[b] = "write"))
    /\ UNCHANGED <<dbVars, fileVars, op, dev, pw, counters, bare>>

\* Mutation of WriteFile: mosquitto_passwd is called with -c.
WriteFileAnew(a) ==
    /\ pc[a] = "write"
    /\ entry' = [NoEntries EXCEPT ![dev[a]] = pw[a]]
    /\ GoTo(a, "commit")
    /\ UNCHANGED <<dbVars, fileThere, op, dev, pw, copy, counters, bare, overlapped>>

\* mosquitto_passwd puts back what it read, with the one entry set (-b) or, pw
\* being 0 in a removal, deleted (-D).
WriteFile(a) ==
    /\ pc[a] = "write"
    /\ entry' = [copy[a] EXCEPT ![dev[a]] = pw[a]]
    /\ GoTo(a, "commit")
    /\ UNCHANGED <<dbVars, fileThere, op, dev, pw, copy, counters, bare, overlapped>>

\* Mutation of PasswdFails: the error is logged and the request goes on.
PasswdIgnored(a) ==
    /\ pc[a] = "write"
    /\ GoTo(a, "commit")
    /\ UNCHANGED <<dbVars, fileVars, op, dev, pw, copy, counters, bare, overlapped>>

\* mosquitto_passwd exits with an error, nothing written: rollback, 500.
PasswdFails(a) ==
    /\ pc[a] = "write"
    /\ End(a)
    /\ UNCHANGED <<dbVars, fileVars, counters, bare, overlapped>>

\* COMMIT of the insertion or the deletion.
Commit(a) ==
    /\ pc[a] = "commit"
    /\ row' = [row EXCEPT ![dev[a]] = pw[a]]
    /\ bare' = IF op[a] = "add" /\ copy[a] = None THEN bare \cup {dev[a]} ELSE bare \ {dev[a]}
    /\ End(a)
    /\ UNCHANGED <<fileVars, counters, overlapped>>

\* The request is cut off: the process dies or loses its database connection.
Crash(a) ==
    /\ pc[a] # "idle" /\ crashes < MaxCrashes
    /\ crashes' = crashes + 1
    /\ End(a)
    /\ UNCHANGED <<dbVars, fileVars, lastPw, requests, bare, overlapped>>

\* deploy/gen-mqtt-passwords.sh, run once: a file with only the collector's entry.
Provision ==
    /\ ~fileThere /\ fileThere' = TRUE
    /\ entry' = NoEntries
    /\ UNCHANGED <<dbVars, sessionVars, counters, bare, overlapped>>

Step(a) == Admit(a) \/ DeleteRow(a) \/ ReadFile(a) \/ WriteFile(a) \/ Commit(a)

Next ==
    \/ \E a \in Session, d \in Device : BeginAdd(a, d) \/ BeginRemove(a, d)
    \/ \E a \in Session : Step(a) \/ DeleteFails(a) \/ PasswdFails(a) \/ Crash(a)
    \/ Provision

Spec == Init /\ [][Next]_vars

-----------------------------------------------------------------------------
TypeOK ==
    /\ row \in [Device -> Nat] /\ fileThere \in BOOLEAN /\ entry \in [Device -> Nat]
    /\ pc \in [Session -> {"idle", "lock", "delete", "file", "write", "commit"}]
    /\ op \in [Session -> {"none", "add", "remove"}]
    /\ dev \in [Session -> Device \cup {None}]
    /\ \A a \in Session : /\ (op[a] = "none") <=> (pc[a] = "idle")
                          /\ (dev[a] = None) <=> (pc[a] = "idle")
                          /\ pc[a] = "lock" => op[a] = "add"
                          /\ pc[a] = "delete" => op[a] = "remove"
    /\ pw \in [Session -> Nat]
    /\ copy \in [Session -> [Device -> Nat] \cup {None}]
    /\ \A a \in Session : pc[a] = "write" => copy[a] # None
    /\ lastPw \in Nat /\ requests \in Nat /\ crashes \in Nat
    /\ bare \subseteq Device /\ overlapped \in BOOLEAN

\* "Serialize capacity checks across API workers" (api.py:228): however many
\* registrations run at once, no more than max_devices are ever registered.
CapacityKept == Cardinality(Registered) <= MaxDevices

\* A removal of d has already deleted its entry and is about to commit.
Leaving(d) == \E a \in Session : op[a] = "remove" /\ dev[a] = d /\ pc[a] = "commit"

\* The password an administrator is shown works: a device registered while the
\* file existed has its own, newest password in it, whatever registrations and
\* removals of this and other devices go on, unless a removal was cut off.
ShownPasswordWorks ==
    crashes = 0 => \A d \in Registered \ bare : entry[d] = row[d] \/ Leaving(d)

\* Some request may still set or delete the entry of d.
Unsettled(d) == \E a \in Session : dev[a] = d

\* A removed device has no credentials left, and a registration that failed
\* leaves none behind, provided that no request was cut off and that no two
\* removals worked on the file at the same time (mosquitto_passwd rewrites it
\* as a whole, and removals do not exclude each other).
NoStrayCredential ==
    (crashes = 0 /\ ~overlapped) =>
        \A d \in Device : row[d] = 0 /\ ~Unsettled(d) => entry[d] = 0

\* No request waits forever for another one's locks.
RequestsEnd == \A a \in Session : (pc[a] # "idle") ~> (pc[a] = "idle")

\* What makes the invariants inductive.  A running registration excludes all
\* others and every removal that has deleted its row; it has room, and a new
\* password.
Locks ==
    /\ \A a, b \in Session : a # b /\ HoldsTable(a) => ~HoldsTable(b) /\ ~HoldsRow(b)
    /\ \A a, b \in Session : a # b /\ HoldsRow(a) /\ HoldsRow(b) => dev[a] # dev[b]
Admitted ==
    \A a \in Session :
        /\ HoldsTable(a) => row[dev[a]] = 0 /\ Cardinality(Registered) < MaxDevices /\ pw[a] # 0
        /\ ~HoldsTable(a) => pw[a] = 0

\* The file as a registration finds and leaves it.
FileKept ==
    /\ ~fileThere => entry = NoEntries /\ Registered \subseteq bare
    /\ \A a \in Session :
          /\ copy[a] # None => fileThere
          /\ HoldsTable(a) /\ pc[a] = "write" => copy[a] = entry
          /\ HoldsTable(a) /\ pc[a] = "commit" /\ copy[a] # None => entry[dev[a]] = pw[a]

\* A removal's copy of the file is as good as the file itself: devices that have
\* lost their entry since are being removed, and none can have been added.
CopyGood ==
    crashes = 0 =>
        \A a \in Session : HoldsRow(a) /\ pc[a] = "write" =>
            \A d \in Registered \ bare : copy[a][d] = row[d] \/ Leaving(d)

\* While no removals overlap on the file, only one session rewrites it, with an
\* up-to-date copy, and only a registration about to commit is ahead of the table.
Ahead(d) == \E a \in Session : op[a] = "add" /\ dev[a] = d /\ pc[a] = "commit"
SoleWriter ==
    (crashes = 0 /\ ~overlapped) =>
        /\ \A a \in Session : pc[a] = "write" => copy[a] = entry
        /\ \A a, b \in Session : pc[a] = "write" /\ pc[b] = "write" => a = b
        /\ \A a \in Session : HoldsRow(a) /\ pc[a] = "commit" => entry[dev[a]] = 0
        /\ \A d \in Device : row[d] = 0 => entry[d] = 0 \/ Ahead(d)

CredentialsInv ==
    /\ TypeOK /\ Locks /\ Admitted /\ CapacityKept
    /\ FileKept /\ CopyGood /\ ShownPasswordWorks /\ SoleWriter
=============================================================================
