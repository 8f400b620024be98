# A verification project for IoT Telemetry Hub

TLA+ modules, TLC configurations and TLAPS proofs for the telemetry path of this
repository: how a device's message travels from the broker through the collector
into the database exactly once, what administrators do to the same rows meanwhile,
how device registrations get from the API to the broker, what a client reads while all
of that goes on, how administrators' sessions survive logins, logouts and password
resets at the same time, and what a schema migration does to calls it meets.

Paths below are relative to `src/`.

## 1. Inventory of the system

| Part | State it keeps | Operations | Interacts with |
|---|---|---|---|
| Ingestion, `app/ingestion.py` | none of its own; rows `ingested_messages`, `telemetry_records`, `telemetry` | `ingest` | called by the collector; reads `devices`, `parameters` |
| Collector, `app/mqtt_worker.py` | `failed` event, paho client and its network thread, `shutdown` event | `on_connect`, `on_subscribe`, `on_message`, `start`, `stop`, `main` | broker (durable session, manual acknowledgement), ingestion |
| Broker, `docker/mosquitto.conf`, `docker/acl` | durable session of the collector and its queue, retained messages, persistence file | external (mosquitto) | devices, collector, password file |
| Broker wrapper, `compose.yaml:40-72` | last seen modification times of password file and certificate | start, 5-second poll, SIGHUP | mosquitto, API (password file), Caddy (certificates) |
| Device API, `app/api.py:222-302` | `devices`, `/secrets/mosquitto.passwd` | add, update, clear telemetry, remove | ingestion (same rows), broker (password file) |
| Parameter API, `app/api.py:304-331` | `parameters` | add, update, remove | ingestion (whitelist) |
| Retrieval API, `app/api.py:205-220`, `333-451` | none | summary, telemetry, records, export | `telemetry*`, UI |
| Sessions, `app/api.py:59-71`, `151-189`, `app/security.py`, `app/cli.py` | `admins`, `admin_sessions`, `user_profiles` | login, logout, authenticate, create admin, reset password | every API handler |
| Data model, `app/models.py`, `app/schemas.py`, `app/db.py` | schema, foreign keys, input validation, timeouts | | all of the above |
| Health rule, `app/health.py` | none | `device_health` | records API |
| Dashboard, `app/static/*.js`, `app/templates/` | cursor stack | page, refresh, forms | records API |
| Firmware, `firmware/`, `test/` | pending payload, timers | sample, publish, retry | broker |
| Migrations, `migrations/` | database schema | upgrade, downgrade | database |
| Operations, `deploy/`, `install.sh`, `scripts/` | backups, password file | backup, restore, provisioning, demo data | all |

How they interact. A device publishes to mosquitto with QoS 1. Mosquitto queues the
message for the collector's durable session (`clean_session=False`) and sends it until
it gets a PUBACK. The collector's network thread calls `on_message`, which calls
`ingest` synchronously and then acknowledges by hand (`manual_ack=True`). `ingest`
opens one database transaction. API requests run in a thread pool, possibly of several
processes, each with a transaction of its own at PostgreSQL's default isolation level,
READ COMMITTED. The API also starts `mosquitto_passwd` on a file it shares with the
broker's container.

### What is hard

* **Concurrent transactions at READ COMMITTED.** `ingest` reads the device, the receipt
  and the whitelist in three statements and writes in four more;
  `clear_device_telemetry` and `remove_device` delete in three or four statements, each
  with its own snapshot, which it keeps while it waits. Correctness rests on primary keys,
  foreign keys, row locks and the `IntegrityError` handler.
* **At-least-once delivery.** The collector can die between COMMIT and PUBACK, a PUBACK
  can be lost, the broker can fall back to an old persistence file. Deduplication by
  receipt has to absorb all of it.
* **Three threads of control in the collector**: broker, network thread, main thread,
  coupled only by the `failed` event and by `loop_stop` joining the network thread.
* **Three stores without a common transaction**: the `devices` table, the password file,
  which `mosquitto_passwd` rewrites as a whole, and what the broker has loaded of it, which
  a shell loop brings up to date when it sees another modification time.
* **Passwords read before they are used**: a login verifies the hash it has read and opens
  a session in another statement; `app/cli.py` runs in a process of its own.
* **A schema that changes under running calls**: migration 0003 copies, locks, checks and
  renumbers in one transaction while the previous release's calls may be under way.
* **Waiting**: row locks, table locks, unique-key waits, waits of foreign key checks. DELETEs
  lock their rows one at a time, so overlapping ones can wait for each other in a circle;
  nothing may wait forever.

### What makes each part correct

* Ingestion: one record per message; record and readings appear together; no row of an
  absent device; only data that was allowed during the call; answers backed by receipts.
* Collector and broker: no message leaves the queue without a definite answer; messages
  are settled in order; retained copies are never stored; the queue drains.
* Device API: capacity is kept; the password shown works; removed devices have no
  credentials; every request ends.
* Sessions: a reset password ends every session of the administrator; a logout is final;
  nobody loses a session to somebody else.
* Retrieval: paging shows each record once; an export has a column for each value.
* Broker wrapper: the broker comes to admit exactly the registered devices.
* Migrations: every reading has a record afterwards, and no record id is drawn twice.

## 2. Modules

| Module | Models | Builds on |
|---|---|---|
| `TelemetryRegistry` | abstract promise of the store: `Accept` a message once, `Forget` a device's data as a whole, `Clear` messages as a whole | |
| `IngestStore` | `ingest` in several sessions against the API handlers, statement by statement | implements `TelemetryRegistry` |
| `IngestStoreProofs` | theorems about `IngestStore` | `IngestStore`, `TLAPS` |
| `IngestRaces` | `IngestStore` with `clear_device_telemetry` in use, and the history of the messages a clear has raced with | `IngestStore`; implements `TelemetryRegistry` for the other messages |
| `IngestRacesProofs` | theorems about `IngestRaces` | `IngestRaces`, `IngestStoreProofs` |
| `DurableDelivery` | abstract promise of broker and collector: entries arrive, the oldest is settled, a death of the broker loses what was not saved | |
| `Collector` | broker session, network thread, main thread, restarts | uses what `IngestStore` establishes: `ingest` is one step; implements `DurableDelivery` |
| `CollectorProofs` | theorems about `Collector` | `Collector`, `TLAPS` |
| `DeviceRegistry` | `add_device` and `remove_device` against table locks and the password file | |
| `DeviceRegistryProofs` | theorems about `DeviceRegistry` | `DeviceRegistry`, `TLAPS` |
| `Credentials` | the shell that starts mosquitto and polls the password file, composed with the API | `DeviceRegistry`, whose steps are its `Registry` |
| `CredentialsProofs` | theorems about `Credentials` | `Credentials`, `DeviceRegistryProofs` |
| `RecordsView` | paging through stored records and exporting them, several statements per request, while the data changes | uses what `IngestStore` establishes: records and readings appear and go together |
| `RecordsViewProofs` | theorems about `RecordsView` | `RecordsView`, `TLAPS` |
| `Sessions` | login, logout, authentication and `app/cli.py`, statement by statement | |
| `SessionsProofs` | theorems about `Sessions` | `Sessions`, `TLAPS` |
| `Migration` | migration 0003, up and down, against calls of `ingest` of both releases | |
| `MigrationProofs` | theorems about `Migration` | `Migration`, `TLAPS` |
| `MCIngestStore`, `MCIngestRaces`, `MCCollector`, `MCCredentials`, `MCRecordsView`, `MCSessions`, `MCMigration` | instances for TLC | |

Operators called "Mutation of ..." are small wrong variants of a definition. No
specification uses them; they document which mistake each property would catch.

### IngestStore

A session of `ingest` is a program counter `pc[w]` plus what it has read. Each SQL
statement between which another session can act is an action: `ReadDevice`
(ingestion.py:52-54), `ReadReceipt` (55-56), `ReadParams` (57-58), `InsertReceipt`
(60-67), `InsertRecord` (69-76; the readings of 77-87 become visible with the commit),
`Commit` (88 and the end of the `with` block), `Recheck` (89-94). `Fail` is any other
error. `Commit(w, "raised")` is a COMMIT the server executed although the client saw an
error. The two deletes share `DeleteReadings`, `DeleteRecords`, `DeleteReceipts`;
`DeleteDevice` belongs to `remove_device` alone. Each of these is the start of a statement
(`Statement`): the rows that are committed at that moment go into `todo[a]`, however long the
statement then waits for one of them, and rows committed meanwhile are not among them.
`Take` deletes one of them, in any order; what a transaction has deleted and not committed
is in `gone[a]`, and what another transaction deletes and commits meanwhile is skipped. When
nothing is left to do, the foreign keys are checked (`Referring`): a row that refers to a
deleted one fails the request (`ReferenceFound`), unless another transaction has deleted it
and not committed, in which case the check waits for that transaction (`Wanted`). The next
statement, or `CommitDelete`, starts when the one before it is `Finished`.
What a call of `ingest` has inserted is determined by `pc`, `msg`, `values`.

Locks are not variables: they follow from the sessions' positions and from `gone` (`Holds`,
`RowLocked`, `TableInUse`). They stand for PostgreSQL's rules, which are external code: an
INSERT waits for a concurrent insert or delete of the same key; a foreign key check of an
INSERT takes FOR KEY SHARE on the device, that of a DELETE FOR KEY SHARE on the referring
rows; DELETE takes FOR UPDATE on each of its rows; UPDATE of non-key columns conflicts with
neither. `WaitsFor(s, t)` says which session's next statement has to wait for which other
session to end. Two deletes of one device can do so in a circle: A has deleted a reading,
B, which started too early to see the reading, has deleted its record and its foreign key
check waits for A, and A's next statement waits for the record. `LockTimeout` is what ends
that (`lock_timeout` of db.py:18, if the deadlock detector is not faster).

`update_device`, `add_parameter` and the other single-row handlers are one action each:
one read, one write and one commit, with nothing in between that another session could
tell apart. `add_device` appears with its effect on ingestion only; its own concurrency
is in `DeviceRegistry`.

`sawDevice` and `sawParams` record, for a running call, whether its device has been
enabled and which parameters have been enabled at some moment since it began. They are
read by the property `StoredWhileAllowed` only.

### IngestRaces

`RaceSpec` is `IngestStore`'s specification and one history variable, `raced`: the messages that
were committed while a clear of their device stood between the start of `DELETE FROM
telemetry_records`, however long that waits for another delete of the device, and the start of
`DELETE FROM ingested_messages` (`Gapped`). Finding 1 shows that such a message may end with
two records. The properties of this module bound the damage: nothing else can.

### Collector

`queue` is what the broker has not seen acknowledged; `toClient` and `toBroker` are the
two directions of the connection and die with it. `handling` and `decided` are the
position of the network thread inside `on_message`: `Settle` is everything up to
`client.ack` for a retained, invalid, accepted, duplicate or rejected message, `Raise`
is the `except Exception` branch (with or without a committed transaction behind it),
`Ack` is line 66. The main thread is `proc`: watching, stopping, waiting five seconds.
`Join` needs the network thread to be outside a callback because `loop_stop` joins it.

`receipts` and `records` are the store: which messages have a receipt, and how many records
each has. `RemoveDevice` deletes both with the device (api.py:284-290), in one step because the
store implements `TelemetryRegistry`; the device may be registered again (`SetEnabled`, which
is also `update_device`), and a redelivery of a message that was stored before the removal is
then stored as a new one. Clearing telemetry is not part of this module: what it does to
deduplication is the subject of `IngestRaces`, and with it `StoredOnce` holds of messages no
clear has raced with only.

`BrokerKill` falls back to `disk`, what was last saved. This is also what an ordinary stop
of the container does: the first process is a shell (compose.yaml:40), which does not
forward SIGTERM, so mosquitto is killed and does not save on exit.

`NoLoss` is stated for `brokerKills = 0`: docs/mqtt-contract.md:63-67 excludes "queue
overflow, unpersisted broker state" from what is promised. What is left of it when the broker
is killed is `SavedNotLost`. The order of settlement (`SettledInOrder`) and everything else is
stated for any number of kills. A publication that meets a full queue, or no subscription,
gets no number in `Publish`.

`DurableDelivery` sees of this only the entries that still have to be settled, in the queue
(`pending`) and on disk (`saved`), the messages that are stored and the devices that are enabled.
Connections, callbacks, failures, acknowledgements and restarts are stutters of it, `Settle` is
the removal of the oldest entry, `Raise` at most stores a message without settling its entry,
`RemoveDevice` is `Forget`.

### DeviceRegistry

`row` is the committed table (the password of each device, 0 for none), `entry` the
password file. `Admit` is LOCK TABLE with the checks under it (api.py:228-241),
`ReadFile`/`WriteFile` are the two halves of `mosquitto_passwd`, which reads the file and
writes it back as a whole, `Commit` the commit; `PasswdFails`, `DeleteFails` and `Crash`
are the error paths. `Provision` is deploy/gen-mqtt-passwords.sh, run once as its header
says. A removal holds the table lock only from `DELETE FROM devices` on; two removals of
different devices do not exclude each other.

### Credentials

`Seen(Next)` is a step of `DeviceRegistry` as the shell of compose.yaml:40-72 sees it: if it
wrote the file, the modification time is another one, unless it was written within the
second of the last stamp. `noticed` says whether `L_PW` is the file's time, so that times
themselves are not needed. `Load` is mosquitto reading the file when it starts, `TakeStamp`
the first `stat`, after mosquitto was started in the background, `Poll` an iteration of the
loop that finds another time. When mosquitto dies (`Die`), the shell, which is the
container's first process, loops on; `restart: always` has nothing to restart, and only
`Restart` (by an administrator, or with the host) helps.

### Sessions

Passwords are numbered by the CLI runs that set them. A login is `VerifyPassword` (the
account is read once), `Purge` and `InsertSession` (the two statements of
`create_session`; the second includes its commit); a logout is `Authenticate` and
`DeleteSession`. A run of `app/cli.py` is `ReadAdmin` and then either `UpdatePassword`,
`DeleteSessions`, `CommitReset` or `AddAdmin`, `CommitAdmin`. `Purge` and `DeleteSessions` are
the starts of DELETEs of several rows: `chosen[p]` are the rows found then, `TakeRow` deletes one
of them, in any order, and what is left to do is `Remaining`. `gone[p]` are rows a process has
deleted and not committed, which is also the lock on them. Two such statements that have
rows in common can wait for each other; `LockTimeout` ends one of them. The update of an account's
password does not exclude the insertion of a session for it (FOR NO KEY UPDATE against FOR
KEY SHARE): this is what lets a login overtake a reset. The checks `authenticated` makes of
request headers do not depend on the state and are left out; so is the expiry of the cookie.

### Migration

`mpc` is alembic's position in `upgrade` or `downgrade`, one transaction
(migrations/env.py:20-23); `TelemetryLocked` and `RecordsLocked` are its ACCESS EXCLUSIVE
locks. A call of the previous release inserts readings only, one of this release a record
first; each fails on the other's schema. `lastRecord` is the sequence of
`telemetry_records.id`, dropped with the table and made again; `next` the one of a table
that is not committed yet. An id that is refused as a duplicate would be a call whose
`drawn` meets an existing record; `IdsFresh` says it does not happen.

The module is about 0003 alone: `alembic upgrade 0003` and `alembic downgrade 0002`.
compose.yaml:76 runs `alembic upgrade head`, which executes the two migrations after it
(`8c5a1813525a`, `b6f395ec384a`) in the same transaction. Each adds a nullable column, one to
`devices` and one to `parameters`. They touch no reading, record or id, and the transaction
commits or is undone as a whole, so that what the properties say of committed tables is the same.
They do take two more ACCESS EXCLUSIVE locks, on tables a call of `ingest` reads first: an
upgrade to head that holds `telemetry` can so wait for a call that waits for `telemetry`, a
second circle of the kind `RunsEnd` is about, with the same way out.

### RecordsView

`stored` is what is committed, `open` the records whose transactions have drawn an id and
not committed: ids become visible out of order. A page is a request in four statements
(`ReadEntries`, `ReadValues`, `ReadNames`, `RespondRecords`; api.py:414-451), each with its
own snapshot, followed by what the browser does with the response (`Display`; app.js:69-114).
`Refresh`, `NextPage` and `PreviousPage` are the three buttons with the stack of cursors
(app.js:115-117). `Limit` is what the client asks for and `Shown` what it displays: a
client of the API has `Shown = Limit`, the dashboard asks for 13 and shows 12.

An export reads column names in two statements and its rows in a third (api.py:354-373),
which is one snapshot delivered row by row in any order that ORDER BY allows; `AddRow` is
the loop that groups rows into lines. Opening the export page or coming back from it is
a page load and forgets the cursors.

`seen`, `owed` and `due` are history: what has been displayed since the last refresh, what
was stored then and still is, what was stored when the export began and still is.

## 3. Runs

| Run | Question | Bounds |
|---|---|---|
| `ingest_remove` | do concurrent deliveries and removals keep one record per message, honest answers, immutable history, the abstract promise; is only allowed data stored, and is ingest never part of a deadlock? | 2 sessions, 3 deliveries of 1 message, 2 overlapping removals, 1 parameter, re-registration and reconfiguration unlimited |
| `ingest_deletes` | are records whole with overlapping deletes of both kinds, and is the race with a clear the only way to a duplicate? | 1 session, 2 deliveries of 2 messages of one device, 2 overlapping deletes, 1 parameter |
| `ingest_liveness` | does every call and every delete end, also those that wait in a circle? | 1 session, 1 delivery, 2 overlapping deletes |
| `ingest_clear_race` | can clearing telemetry let a message in twice? It can: see below | 1 session, 1 delete, 2 deliveries |
| `collector_faults` | is nothing lost, stranded or settled out of order, and is this `DurableDelivery`? | valid and invalid message, 2 publications and their retained copies, queue of 2, 1 fault, 1 broker kill |
| `collector_liveness` | does deduplication survive a broker that falls back to an old persistence file, and does the queue drain? | 2 publications, 2 faults, 1 broker kill |
| `credentials` | are capacity and credentials kept, does every request end, and does the broker follow? | 3 devices, 2 sessions, room for 2, 3 requests, 1 crash, 1 restart of the container |
| `records_view` | does paging show every record, whole, and an export old values and one line per record, while the data changes? | 3 records, pages of 1, 3 timestamps of which 2 in the interval, 1 whitelist change, deletes unlimited |
| `records_paging` | does the dashboard's paging show every record? It does not: see below | 2 records, 2 asked for, 1 shown |
| `sessions` | do sessions end exactly when they should, and does every call? | 1 account, 2 requests at a time, 3 in all, 2 processes and 2 runs of the CLI, 1 tick of the clock, sessions of 1 tick |
| `sessions_reset` | does a reset end all sessions? It does not: see below | 1 login, 1 reset |
| `migration` | does the migration keep readings, records and ids together, and does everybody finish? | 2 sessions, 4 calls of either release with up to 2 readings, 3 runs of alembic |

Why these bounds are enough to be interesting. A delete race needs one delete and a
delivery before, inside and after it; a circle of deletes, and a DELETE that misses what is
committed while it waits, need two deletes and a delivery between their first statements;
a duplicate race needs two sessions holding the same
message, and a third delivery to observe the outcome. The collector's hazards need a
failure during a callback, another entry behind it in the queue, and a second failure during
the recovery: the broker's in `collector_faults`, two of any kind in `collector_liveness`. The capacity race needs two registrations for the last place; the password
file race needs two writers and one bystander's entry. Paging needs a record committed
below a cursor already passed and three pages to go back and forth between; broken lines
need two records of two exported values each at one timestamp. A stale entry in the broker
needs one request before and one after it loads the file. A login that overtakes a reset
needs one of each; a logout that meets a purge and a reset needs an expired session, two
requests and a run of the CLI; two competing creations need two runs. Copied ids meet drawn
ones only after readings were committed before, during and after an upgrade, and a second
upgrade after a downgrade needs three runs. All sequences of up to the bounded
number of events are explored, from every initial configuration of devices and parameters.
The bounds are `MaxDeliveries`, `MaxDeletes`; `MaxPublish`, `MaxQueued`, `MaxFaults`,
`MaxBrokerKills`; `MaxRequests`, `MaxCrashes`, `MaxStarts`; `MaxRecords`, `MaxChanges`;
`MaxTime`, `MaxRuns`; `MaxWrites`, `MaxMigrations`. Symmetry is used in safety runs of
`IngestStore` and `IngestRaces` only, over sessions and messages of one device.

`CHECK_DEADLOCK FALSE` appears in the runs of `Credentials`, `Sessions` and `Migration` only:
there all activity is made of requests, runs and calls, and the model stops when the
bounded number of them is used up. That nothing stops earlier is a property of its own in
each: `RequestsEnd`, `CallsEnd`, `RunsEnd`.

### Fairness

`IngestStore`: weak fairness of each session's next statement when it need not wait, and of
`LockTimeout` for a delete that waits: the database server executes a statement as soon as it
can, and `lock_timeout` (db.py:18) ends every wait. `Begin`, `Fail` and the administrators'
choices are not fair. `Collector`: weak fairness of the broker, the network thread (paho reconnects by
itself, mqtt_worker.py:30) and the main thread with the restart policy (`restart: always`).
Faults are bounded in number and never forced; without a bound nothing could be promised.
`Credentials`: weak fairness of each request's next step, of mosquitto reading its file, of
the first `stat` and of the loop; not of its death or a restart. `Sessions`: weak fairness of
each process's next statement when it need not wait, and of `LockTimeout` when it does;
passwords may be wrong and requests fail at any time.
`Migration`: weak fairness of each call and of alembic. There waits can form a circle (a
downgrade and a call hold what the other wants), and what resolves it is `GiveUp`,
`lock_timeout` of db.py:18; without it `RunsEnd` is false.

### Properties

* `OneRecordPerMessage`, `RecordsWhole`, `NoOrphans`, `HistoryNotRewritten`: the database
  at every moment, seen from outside.
* `StoredWhileAllowed`: a disabled device or parameter stops calls that begin later; a
  running call may still finish with what it read. This is the strongest form that holds.
* `AnswerBackedByReceipt`: "duplicate" and "accepted" make the collector acknowledge, so
  they must never be said of a message without a committed receipt.
* `ImplementsRegistry`: every behaviour of `IngestStore` without clears is one of
  `TelemetryRegistry`, with `seen` mapped to the receipts and `kept` to the readings.
* `OneRecordUnlessRaced`, `ImplementsUnlessRaced`: the same for any number of clears, and for
  every message that was never committed in the middle of one.
* `DeadlocksOfDeletes`: wherever sessions wait for each other in a circle, deletes of one
  device do so by themselves. No call of `ingest` is part of a deadlock, nor are deletes of
  different devices; overlapping deletes of one device can be.
* `CallsEnd`, `RequestsEnd`, `QueueDrains`: progress.
* `NoLoss`, `StoredOnce`, `StoredWasLive`: the delivery guarantee. `NothingStranded`: no entry
  that was sent, and no subscription, is forgotten on a connection that stands.
* `ImplementsDelivery`: every behaviour of `Collector` is one of `DurableDelivery`. It includes
  that entries are settled in the broker's order and that a saved entry is never lost.
* `AccessFollowsTable`: from some time on the broker admits exactly the registered devices
  with the passwords shown. It carries four conditions, each of which the code needs:
  mosquitto is alive (nobody restarts it), no change escaped the loop (`missed`: the file was
  changed after mosquitto had read it and before the first `stat`, or within one second of a
  stamp), no request was cut off and no removals overlapped.
* `BrokerInStep` (in `AccessInv`): a living mosquitto admits exactly the entries of the
  file whenever the shell has no change left to notice and none has escaped it; this is
  independent of requests that were cut off and of overlapping removals.
* `TableAdmitted` (in `AccessInv`): then, for each device no request is about, it admits the
  password of the device's row and nothing for a device that has none, under the conditions
  of `NoStrayCredential`. It is the safety half of `AccessFollowsTable`.
* `SurvivorsOverlapped`: the part of "reset invalidates existing sessions" that holds: what
  survives was a login under way during the reset. `LoggedOutStaysOut`, `SessionsLast`: a
  session ends for its own reasons only, and for good.
* `CreateKeepsPassword`: two runs that create the same account do not overwrite each other.
* `ReadingsRecorded`, `IdsFresh`, `RunsEnd`: the migration.
* `CapacityKept`, `ShownPasswordWorks`, `NoStrayCredential`: the device API.
  `NoStrayCredential` carries the condition that no two removals overlapped on the password
  file and that no request was cut off: without either it is false, because removals do not
  exclude each other (the second one writes back the entry the first has deleted) and the
  file is not part of the transaction.

* `PagesComplete`: what was stored at the last refresh, and still is, has been displayed by
  the time there is no next page. Records that commit later may stay unseen until the next
  refresh, also below the cursor; the code promises nothing about them.
* `PageFaithful`, `LinePerRecord`, `HistoryExported`: a page or a file made by several
  statements does not show half a record, split a record or drop old values.

### Findings

1. `ingest_clear_race` (`app/api.py:272-274`). If `ingest` commits between
   `DELETE FROM telemetry_records` and `DELETE FROM ingested_messages` of
   `clear_device_telemetry`, its record and readings survive while its receipt is deleted.
   A redelivery of the same transmission (its PUBACK may be lost) is stored a second time,
   against "One registry entry per accepted device transmission" (`app/models.py:52`).
   `remove_device` is safe: deleting the device waits for the session and is refused by
   the foreign key. If two clears overlap, the window is as long as the wait of the second
   one's `DELETE FROM telemetry_records`.
2. `sessions_reset` (`app/api.py:153-158`, `app/security.py:20-31`, `app/cli.py:37-38`). A login
   that has verified the old password inserts its session after the reset's DELETE; it lives
   for `session_ttl_hours`, against "An administrator resetting your password invalidates your
   existing sessions" (CLIENT_USER_MANUAL.md:108, 409). Reading the account FOR KEY SHARE does
   not help; FOR SHARE, or a second look at the hash in the inserting transaction, would.
3. `records_paging` (`app/static/app.js:67-70`). The dashboard asks for 13 records, shows 12
   and continues after the thirteenth, so "Next" skips one record per page
   (docs/testing.md:245; CLIENT_USER_MANUAL.md:534; line 509 of the latter lists it as an
   open issue). The API itself pages correctly: `records_view`.

Divergences seen by reading, with nothing for a model to add: docs/mqtt-contract.md:12 says
"Registration alone does not grant broker access", but `add_device` (`app/api.py:245-251`)
generates a password and writes it into the broker's password file. docs/mqtt-contract.md:71-76
shows an export with a line for each value; the code writes one for each record, as
CLIENT_USER_MANUAL.md:224 describes, and line 515 of the manual calls the contract outdated
in this: `LinePerRecord` follows the manual.

## 4. Proofs

For every value of the constants (in `Collector` this includes the bounds on publications,
faults and kills), and without any bound on requests, deliveries, calls or runs:

| Module | Theorem | States |
|---|---|---|
| `IngestStoreProofs` | `StoreInvariance`, `TypesHold` | `StoreInv` and its part `TypeOK`: types, locks, foreign keys |
| | `NoOrphansHold`, `WholeHolds`, `HistoryHolds` | `NoOrphans`, `RecordsWhole`, `HistoryNotRewritten` |
| | `OnlyDeletesDeadlock` | `DeadlocksOfDeletes` |
| | `RegistryInvariance`, `OneRecord` | if telemetry is never cleared: `RegistryInv`, `OneRecordPerMessage` |
| | `RegistryImplemented` | if telemetry is never cleared: `ImplementsRegistry`, the refinement of `TelemetryRegistry` |
| | `AnswersHonest`, `StoredAllowed` | the action properties `AnswerBackedByReceipt`, `StoredWhileAllowed` |
| `IngestRacesProofs` | `RaceInvariance` | `RaceInv` |
| | `OneRecordButRaced`, `RegistryButRaced` | with any number of clears: `OneRecordUnlessRaced`, `ImplementsUnlessRaced` |
| | `RacesKeepPromises` | what holds of `Spec` holds of `RaceSpec`: `HistoryNotRewritten`, `StoredWhileAllowed`, `DeadlocksOfDeletes` |
| `CollectorProofs` | `CollectorInvariance` | `CollectorInv` |
| | `NothingLost`, `EachStoredOnce`, `OnlyLiveStored`, `InOrder` | `NoLoss`, `StoredOnce`, `StoredWasLive`, `SettledInOrder` |
| | `SavedStay`, `NobodyStranded` | `SavedNotLost`, `NothingStranded` |
| | `DeliveryImplemented` | `ImplementsDelivery`, the refinement of `DurableDelivery` |
| `DeviceRegistryProofs` | `CapacityHolds`, `PasswordsHold`, `NoStrayHolds` | `CapacityKept`, `ShownPasswordWorks`, `NoStrayCredential` |
| `CredentialsProofs` | `ApiUndisturbed`, `GuaranteesKept` | the specification of `DeviceRegistry` holds in the composition, and so do its three invariants |
| | `AccessInvariance` | `AccessInv` |
| `RecordsViewProofs` | `ViewInvariance`, `PagesFaithful` | `ViewInv`, `PageFaithful` |
| | `ExportComplete`, `LinesWhole` | `HistoryExported`, `LinePerRecord` |
| | `PagingInvariance`, `PagingComplete` | if the client displays what it asks for (`Shown = Limit`): `PagingInv`, `PagesComplete` |
| `SessionsProofs` | `SessionsInvariance`, `SurvivorsHold`, `LogoutsHold` | `SessionsInv`, `SurvivorsOverlapped`, `LoggedOutStaysOut` |
| | `SessionsLastHolds`, `AccountsKept` | the action properties `SessionsLast`, `CreateKeepsPassword` |
| `MigrationProofs` | `MigrationInvariance`, `ReadingsKept`, `IdsHold` | `MigrationInv`, `ReadingsRecorded`, `IdsFresh` |

Each rests on the named assumption of its module: `StoreAssumption` (`DeviceOf` is a function
on messages, `None` is no message or device, the kinds of delete are the two that exist),
`CollectorAssumption` (`DeviceOf` is a function, `None` is no entry, bounds are numbers),
`RegistryAssumption` (finitely many devices, room for 1 to 10), `ViewAssumption` (timestamps
are numbers, payloads and whitelists sets of parameters, a page shows at least one record and
no more than were asked for), `SessionsAssumption` (requests
and CLI processes are different, sessions last), `MigrationAssumption` (bounds are numbers),
`StartsAssumption` of `Credentials` (so is the number of starts).
Sets of sessions, messages, users and parameters may be infinite.

The arguments.

*`IngestStore`.* `OneRecordPerMessage` is not inductive: a commit adds a record whatever the
receipts are. Two facts close the gap. `HeldReceipts` says that a session past its INSERT
of a receipt is the only one for this message, that the receipt is not committed yet and
that its device exists: the primary key and the row lock, expressed as a state formula.
`RecordsCovered` says each record has a receipt, so a new receipt means a first record;
this is the part that clearing telemetry breaks, hence the hypothesis of `OneRecord`.
`NoOrphans` needs `Removals`: a removal that has deleted the device's row is alone with it, and
when its foreign key check has found nothing (`Finished`) it has deleted all rows of the device
(`NothingRefers`). `Watched` (what a call has read was enabled at some
moment since it began) carries `StoredWhileAllowed`. `RecordsWhole` and
`HistoryNotRewritten` rest on two more parts: `Numbered` (an id is drawn by one session and
is new when its record is committed, so a commit disturbs no other record) and
`DeletedWhole` (requests delete disjoint rows; a request that has deleted a reading has deleted
its record, or chosen it, and past its second statement has deleted all readings of the records
it has deleted: its foreign key check found none). For the refinement a commit of
`ingest` is `Accept`, the commit of a removal is `Forget` and every other step stutters: a
message without a receipt has no record (`RecordsCovered`), so accepting it changes nothing
but its own readings (`CommitAccepts`); a removal deletes its device's rows and no other
(`RemovalForgets`). `NextShape` abstracts `Next` first: each
action is a quiet step, or one of the few steps that take a lock, commit or change a device.

`OnlyDeletesDeadlock`: a call waits at its INSERT of the receipt only, and only for a call that is
past it, which does not wait, or for a request. So in a set of sessions that wait for each other
each waits for a request; and a request waits for another one only for rows of its own device
(`WantedOwn`: the rows it chose are, and the readings its foreign key check comes upon belong to
records it has deleted, by `RecordsWhole` and `Numbered`). Follow the requests: they all are of one
device, and wait for each other without the others. `DeletedSoFar` says that a request has deleted
nothing of the tables it has not come to.

*`IngestRaces`* (`RaceInv`). `CoveredUnlessRaced` replaces `RecordsCovered`: a record without a
receipt is a remainder of a race. To carry it over the commit of a clear, `NoneMissed` says of a
clear that is at its second statement that each record of its device is one it has chosen or of
a raced message (a call that commits in between puts its message into `raced` by definition, also
while the statement waits), and of one at its third that it has deleted each record whose receipt
it has chosen, but for raced messages. `NoneLeft` says that no delete takes a record whose receipt
it leaves. `ClearsStep` has a case for each way a statement starts, takes a row, or finds that
another transaction has taken it. A clear that commits is then `Clear` of the messages whose receipts it has deleted and
that were not raced, with their records, and of nothing else.

*`Collector`* (`CollectorInv`). A number is given to one entry, wherever copies of it are
(`Numbered`), and numbers in the queue and on disk increase (`QueueOrdered`). What was sent
on a connection is the queue up to some entry, and as long as the collector has not failed
each of it is settled, in its callback or still in transit, in order (`LinkOrdered`). A
failed collector drops messages, but it stays failed until its connection has ended
(`Links`), and the next connection starts at the head of the queue. So when a callback
begins, every earlier entry in the queue is settled (`HandledInOrder`): it was sent, is not in
transit behind a later one, and is not being handled. `NothingReturns` says that no step, not even
a fall back to what was saved, brings an entry into the queue that is neither new, nor settled,
nor there already; that is `SavedNotLost`, and gives `SettledInOrder` for any number of kills.
`NoLoss` follows because an acknowledgement under way is of a settled entry (`Acknowledged`).
`NothingStranded` follows each entry, and the subscription, from one end of the connection to the
other. For the refinement, a callback that reaches its end settles the entry it has: the oldest
unsettled one (`HandledInOrder`), the same wherever it is found (`Numbered`), or one that is
neither in the queue nor on disk unsettled (`SavedNotLost`).
`Deduplicated` is independent of all this and of the broker's kills:
receipts count the records, which a removal deletes together, and whatever is queued, saved, in transit or handled is a retained
copy or was queued live. The queue and both directions of the connection are sequences; the
lemmas at the head of the module say what appending, taking the head and removing an entry
do to their elements.

*`DeviceRegistry`* (`CredentialsInv`). `Locks`: who holds the table excludes other
registrations and removals past their DELETE, so a registration is alone with the count
(`Admitted`) and with the file (`FileKept`). Removals may overlap; `CopyGood` says that the copy
of the file each of them writes back lacks no entry of a registered device, because none can
have been added since it was read. `SoleWriter` is the stronger fact for `NoStrayCredential`:
without overlap a copy is the file.

*`Credentials`* (`AccessInv`). No step of the shell or of mosquitto changes what `DeviceRegistry`
is about (`ApiStep`), so every behaviour of the composition is one of `DeviceRegistry` and
inherits its theorems. `BrokerInStep` is inductive as it stands: the entries change in a step
that writes the file only (`EntriesWritten`), after which the modification time is not the
one the shell knows, or `missed` records that the change escaped it; starting mosquitto and
SIGHUP make it admit the entries of the file. With `ShownPasswordWorks` for the devices that
have a row and `NoStrayCredential` for those that have none, `TableAdmitted` follows
(`TableReached`): the three stores agree on each device that no request is about, also while
requests about other devices rewrite the file.

*`RecordsView`* (`ViewInv`, `PagingInv`). `Identified`: an id is drawn once, so that a record
read in one statement and one read in the next are the same if their ids are, and a record
that is not committed is on no page (`PageKept`). `Descending`: cursors go down and the next
cursor is an id that was read. `Traversed`: a record that is owed and not yet displayed lies
below the cursor; while a request runs it is among the records read, or these are full and
it is below all of them. The lemmas at the head of the module say so of `Newest`: a page is
closed upwards, and one that leaves something out is full; the highest record left out,
which the second needs, comes from the well-foundedness of the subset order on finite sets.
`Streamed`: rows to come belong to no line but the last one, and those are first in the
order, hence a record never gets a second line. `Exported` follows every value that is due
from the table through the rows to its cell.

*`Sessions`* (`SessionsInv`). A session of an old password is late because its login was:
`LateLogins` and `SweepComplete` carry that from the reset's DELETE, which sees committed
sessions only, over to its commit and to the logins that insert theirs afterwards.
`Deletions` says which rows a process has chosen and may have deleted, `Accounts` that a run that is about to
change a password was asked to or is alone in adding the account. `TokensDrawn` and
`PasswordsDrawn` make numbers unique.

*`Migration`* (`MigrationInv`). `Copies`: from the lock on, the records copied are those of
all readings, and the sequence is set behind them; `Locks` and `Calls`: no call has anything
uncommitted in a table while its schema changes, so that what the schema promises is
promised to nobody who knew the old one; `Draws`: an id is drawn once.

TLC checks the inductive invariants as well (`RaceInv` with `StoreInv` in it, `CollectorInv`,
`AccessInv`, `PagingInv`, `SessionsInv`, `MigrationInv` as invariants of runs).

Every safety property that holds is proved, the action properties
included, and so are the two refinements of `TelemetryRegistry` and that of `DurableDelivery`.
Out of the prover's reach, and so only model-checked, is liveness under fairness
(`CallsEnd`, `RequestsEnd`, `QueueDrains`, `AccessFollowsTable`, `RunsEnd`): there is no
support for ENABLED. Nor is there for induction over data; no recursive definition needs it.

## 5. Abstractions

* Values, timestamps and names are not modelled; a payload is its set of parameter names.
* Validation (`app/schemas.py`, ingestion.py:37-45) is the set `Valid` of messages that
  pass it; rules of the JSON contract are not modelled.
* The database is PostgreSQL as deployed by `compose.yaml`. SQLite, used by tests and for
  a local preview, serialises writers and has fewer interleavings.
* A lock wait that times out is `Fail`, `AbortDelete`, `CliFail` or `Abort`; `LockTimeout` names
  it where fairness needs it.
* A foreign key check of a DELETE is evaluated as the request goes on to its next statement, not
  at the end of the one before: nothing can be committed in between that refers to the deleted
  rows and was not found.
* Mosquitto's in-flight window and paho's socket buffers are the sequences `toClient` and
  `toBroker`; keepalive is `NetworkLoss`.
* The ids of telemetry rows are left out of `IngestStore`; readings of a record form a set.
* Password hashing is a comparison of numbers; sampled tokens are fresh numbers.

## 6. Not modelled

* **Input validation, health rule, list and summary endpoints, profile endpoints**: functions
  of one input, or single reads and writes of one row; unit tests reach every case.
* **Dashboard** beyond the cursor stack: rendering and forms. Overlapping requests of one
  page are left out: paging fails for the dashboard without them, and other clients of the
  API have no such page.
* **TLS certificates** (compose.yaml:44-60): certificate and key are copied one after the other
  when the certificate's time changes. Whether a poll can fall between the two writes depends
  on how Caddy writes them, which the repository does not determine.
* **Access control list, Caddyfile, settings**: static.
* **Queue overflow and a message that always fails**: docs/mqtt-contract.md:63-67 promises
  nothing for the first; the second blocks the queue by the definition of the handler.
* **Firmware**: bench and connection sketches with one thread and one message.
* **Migrations 0001 and 0002, and the two after 0003**: 0001 creates an empty schema; 0002 a table
  with a row per user; the last two add a nullable column each (see `Migration` above).
* **Backup, restore, installation, provisioning, demo data, reports**: sequential scripts
  around external programs. Read on the way: `scripts/seed_demo.py:45-53` adds readings without
  `record_id`, which 0003 made NOT NULL, so that it fails after it has created `demo.db`, and
  then refuses to run again; `deploy/backup.sh:14` keeps a truncated dump, because the shell
  looks at `gzip` only.
