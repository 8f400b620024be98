---------------------------- MODULE RecordsView ----------------------------
(***************************************************************************)
(* Reading telemetry while it changes: the dashboard paging through         *)
(* telemetry_records (app/static/app.js renderData, app/api.py:414-451) and *)
(* the CSV export (app/api.py:345-412).  Either request reads the database  *)
(* in several statements, each with a snapshot of its own, while ingests    *)
(* commit records in another order than that of their ids, telemetry is     *)
(* deleted and the whitelist changes.                                       *)
(*                                                                          *)
(* A value is represented by its parameter's name, a record by the set of   *)
(* parameters it has values for.  Units and names are left out.             *)
(***************************************************************************)
EXTENDS Naturals, Sequences, FiniteSets, SequencesExt

CONSTANTS
    Param,      \* parameter names
    Hidden,     \* parameters the export leaves out: systemTemp
    Payload,    \* sets of parameters devices send
    Configured, \* whitelists the system may start with
    Time,       \* event timestamps
    Interval,   \* timestamps in the interval an export asks for
    Limit,      \* records the client asks for
    Shown,      \* records of a page it displays
    MaxRecords, \* bound on ids drawn from the sequence
    MaxChanges  \* bound on whitelist changes

ASSUME ViewAssumption ==
    /\ Hidden \subseteq Param /\ Configured \subseteq SUBSET Param
    /\ Payload \subseteq SUBSET Param \ {{}}
    /\ Time \subseteq Nat /\ Interval \subseteq Time
    /\ Limit \in Nat \ {0} /\ Shown \in 1..Limit
    /\ MaxRecords \in Nat /\ MaxChanges \in Nat

VARIABLES
    stored,     \* committed telemetry_records with their readings
    open,       \* records of transactions that have not committed
    lastId,     \* the id sequence
    listed,     \* names in parameters
    enabled,    \* those that are enabled
    changes,    \* whitelist changes so far
    \* the client
    rpc,        \* "page": a page is displayed; otherwise a step of a request
    cursor,     \* state.cursor, 0 for null
    history,    \* state.history
    nextCursor, \* state.nextCursor
    page,       \* values displayed, by record id
    entries,    \* rows of the request's first statement
    columns,    \* column names read so far; those displayed
    rows,       \* rows of the export's query still to come
    csv,        \* lines of the export after the header
    \* history
    seen,       \* ids displayed since the last refresh
    owed,       \* ids stored at the last refresh and ever since
    due         \* values stored when the export began and ever since

dataVars   == <<stored, open, lastId, listed, enabled, changes>>
pageVars   == <<cursor, history, nextCursor, page, entries, seen, owed>>
exportVars == <<rows, csv, due>>
vars       == <<dataVars, rpc, pageVars, columns, exportVars>>

Record == [id : Nat \ {0}, time : Time, params : SUBSET Param \ {{}}]
Ids(S) == {r.id : r \in S}

\* DISTINCT telemetry.parameter
StoredParams == UNION {r.params : r \in stored}

\* ORDER BY id DESC LIMIT n
Newest(S, n) == {r \in S : Cardinality({s \in S : s.id > r.id}) < n}

-----------------------------------------------------------------------------
Init ==
    /\ stored = {} /\ open = {} /\ lastId = 0
    /\ enabled \in Configured /\ listed = enabled /\ changes = 0
    /\ rpc = "page" /\ cursor = 0 /\ history = <<>> /\ nextCursor = 0
    /\ page = <<>> /\ entries = {} /\ columns = {} /\ rows = {} /\ csv = <<>>
    /\ seen = {} /\ owed = {} /\ due = {}

-----------------------------------------------------------------------------
(* What happens to the data meanwhile                                       *)

\* ingest has read the whitelist, kept the allowed values and, as there are
\* some, drawn the id of their record.
DrawRecord(sent, time) ==
    /\ lastId < MaxRecords /\ sent \cap enabled # {}
    /\ lastId' = lastId + 1
    /\ open' = open \cup {[id |-> lastId + 1, time |-> time, params |-> sent \cap enabled]}
    /\ UNCHANGED <<stored, listed, enabled, changes, rpc, pageVars, columns, exportVars>>

\* It commits, or is rolled back.
CommitRecord(r) ==
    /\ open' = open \ {r} /\ stored' = stored \cup {r}
    /\ UNCHANGED <<lastId, listed, enabled, changes, rpc, pageVars, columns, exportVars>>
RollbackRecord(r) ==
    /\ open' = open \ {r}
    /\ UNCHANGED <<stored, lastId, listed, enabled, changes, rpc, pageVars, columns, exportVars>>

\* The telemetry of a device, any of the stored records, is deleted.
DeleteTelemetry(S) ==
    /\ stored' = stored \ S
    /\ owed' = owed \ Ids(S)
    /\ due' = {v \in due : v.id \notin Ids(S)}
    /\ UNCHANGED <<open, lastId, listed, enabled, changes, rpc, cursor, history, nextCursor,
                   page, entries, seen, columns, rows, csv>>

\* A parameter is added or updated; it is removed.
SetParameter(p, on) ==
    /\ changes < MaxChanges /\ changes' = changes + 1
    /\ listed' = listed \cup {p}
    /\ enabled' = IF on THEN enabled \cup {p} ELSE enabled \ {p}
    /\ UNCHANGED <<stored, open, lastId, rpc, pageVars, columns, exportVars>>
RemoveParameter(p) ==
    /\ changes < MaxChanges /\ changes' = changes + 1
    /\ p \in listed
    /\ listed' = listed \ {p} /\ enabled' = enabled \ {p}
    /\ UNCHANGED <<stored, open, lastId, rpc, pageVars, columns, exportVars>>

-----------------------------------------------------------------------------
(* The dashboard                                                            *)

Ask == rpc' = "entries" /\ UNCHANGED <<dataVars, page, entries, columns, exportVars>>

\* Mutation of Refresh: the stack of earlier pages is kept.
RefreshKeeping ==
    /\ rpc = "page"
    /\ cursor' = 0 /\ UNCHANGED <<history, nextCursor>>
    /\ seen' = {} /\ owed' = Ids(stored)
    /\ Ask

\* The page is opened, or "Refresh": the newest page, and a new traversal.
Refresh ==
    /\ rpc = "page"
    /\ cursor' = 0 /\ history' = <<>> /\ UNCHANGED nextCursor
    /\ seen' = {} /\ owed' = Ids(stored)
    /\ Ask

\* "Next" is offered while there is a next cursor.
NextPage ==
    /\ rpc = "page" /\ nextCursor # 0
    /\ history' = Append(history, cursor)
    /\ cursor' = nextCursor
    /\ UNCHANGED <<nextCursor, seen, owed>>
    /\ Ask

\* "Previous" is offered while there is an earlier page.
PreviousPage ==
    /\ rpc = "page" /\ history # <<>>
    /\ cursor' = Last(history) /\ history' = Front(history)
    /\ UNCHANGED <<nextCursor, seen, owed>>
    /\ Ask

\* The request fails and the user tries again: same cursor, same history.
RequestFails ==
    /\ rpc \in {"values", "names", "distinct"}
    /\ rpc' = "entries" /\ entries' = {}
    /\ UNCHANGED <<dataVars, cursor, history, nextCursor, page, seen, owed, columns, exportVars>>

-----------------------------------------------------------------------------
(* GET /api/telemetry/records                                               *)

\* limit + 1 records below the cursor, newest first
ReadEntries ==
    /\ rpc = "entries"
    /\ entries' = Newest({r \in stored : cursor # 0 => r.id < cursor}, Limit + 1)
    /\ rpc' = "values"
    /\ UNCHANGED <<dataVars, cursor, history, nextCursor, page, seen, owed, columns, exportVars>>

\* The readings of the page's records; a record deleted meanwhile has none.
\* slice(0, Shown) of them will be displayed.
ReadValues ==
    /\ rpc = "values"
    /\ page' = [i \in Ids(Newest(entries, Shown)) |->
                   UNION {r.params : r \in {s \in stored : s.id = i}}]
    /\ rpc' = "names"
    /\ UNCHANGED <<dataVars, cursor, history, nextCursor, entries, seen, owed, columns, exportVars>>

ReadNames ==
    /\ rpc = "names"
    /\ columns' = listed
    /\ rpc' = "distinct"
    /\ UNCHANGED <<dataVars, pageVars, exportVars>>

\* The response arrives and is displayed.
Display(next, names) ==
    /\ rpc' = "page"
    /\ columns' = names
    /\ nextCursor' = next
    /\ seen' = seen \cup DOMAIN page
    /\ entries' = {}
    /\ UNCHANGED <<dataVars, cursor, history, page, owed, exportVars>>

\* The last id of the page, if there is more.
Continue ==
    IF Cardinality(entries) <= Limit THEN 0
    ELSE CHOOSE i \in Ids(entries) : Ids(Newest(entries, Limit)) = {j \in Ids(entries) : j >= i}

\* Mutations of RespondRecords: the next page starts after the record that was
\* read ahead; the columns are those of the whitelist.
RespondPastExtra ==
    /\ rpc = "distinct"
    /\ Display(IF Cardinality(entries) <= Limit THEN 0
               ELSE CHOOSE i \in Ids(entries) : \A j \in Ids(entries) : i <= j,
               columns \cup StoredParams)
RespondListed ==
    /\ rpc = "distinct"
    /\ Display(Continue, columns)

\* Column names are those of the whitelist and of everything stored.
RespondRecords ==
    /\ rpc = "distinct"
    /\ Display(Continue, columns \cup StoredParams)

-----------------------------------------------------------------------------
(* GET /api/telemetry/export                                                *)

\* The rows of the export's query: one for each value in the interval.
Joined == UNION {{[rec |-> r, param |-> p] : p \in r.params} : r \in {s \in stored : s.time \in Interval}}

\* Mutation of Precedes: ORDER BY timestamp only.
PrecedesByTime(x, y) == x.time < y.time

\* ORDER BY timestamp, id; rows of one record come in any order.
Precedes(x, y) == x.time < y.time \/ (x.time = y.time /\ x.id < y.id)

\* A row of the query joins the line of its record if this is the current one,
\* and starts a new line otherwise.  A value without a column is left out.
AddRow(lines, row) ==
    LET cell == {row.param} \cap columns
    IN  IF row.param \in Hidden THEN lines
        ELSE IF lines # <<>> /\ Last(lines).id = row.rec.id
        THEN [lines EXCEPT ![Len(lines)].cells = @ \cup cell]
        ELSE Append(lines, [id |-> row.rec.id, cells |-> cell])

\* The export is a page of its own: visiting it forgets the pages displayed.
BeginExport ==
    /\ rpc = "page"
    /\ rpc' = "header"
    /\ cursor' = 0 /\ history' = <<>> /\ nextCursor' = 0 /\ page' = <<>> /\ columns' = {}
    /\ seen' = {} /\ owed' = {}
    /\ due' = {[id |-> x.rec.id, param |-> x.param] : x \in {y \in Joined : y.param \notin Hidden}}
    /\ UNCHANGED <<dataVars, entries, rows, csv>>

ReadEnabled ==
    /\ rpc = "header"
    /\ columns' = enabled
    /\ rpc' = "header2"
    /\ UNCHANGED <<dataVars, pageVars, exportVars>>

\* Mutation of ReadStoredNames: columns for the whitelist only.
ReadNoNames ==
    /\ rpc = "header2"
    /\ columns' = columns \ Hidden
    /\ rpc' = "rows"
    /\ UNCHANGED <<dataVars, pageVars, exportVars>>

ReadStoredNames ==
    /\ rpc = "header2"
    /\ columns' = (columns \cup StoredParams) \ Hidden
    /\ rpc' = "rows"
    /\ UNCHANGED <<dataVars, pageVars, exportVars>>

\* The query sees one snapshot, however long its rows take to arrive.
OpenRows ==
    /\ rpc = "rows"
    /\ rows' = Joined
    /\ rpc' = "stream"
    /\ UNCHANGED <<dataVars, pageVars, columns, csv, due>>

NextRow(row) ==
    /\ rpc = "stream"
    /\ \A x \in rows : ~ Precedes(x.rec, row.rec)
    /\ rows' = rows \ {row}
    /\ csv' = AddRow(csv, row)
    /\ UNCHANGED <<dataVars, rpc, pageVars, columns, due>>

\* The file is complete; or the user has left.  The data page is opened.
LeaveExport ==
    /\ rpc = "stream"
    /\ rpc' = "entries" /\ owed' = Ids(stored)
    /\ columns' = {} /\ rows' = {} /\ csv' = <<>> /\ due' = {}
    /\ UNCHANGED <<dataVars, cursor, history, nextCursor, page, entries, seen>>

-----------------------------------------------------------------------------
DataStep ==
    \/ \E sent \in Payload, time \in Time : DrawRecord(sent, time)
    \/ \E r \in open : CommitRecord(r) \/ RollbackRecord(r)
    \/ \E S \in SUBSET stored \ {{}} : DeleteTelemetry(S)
    \/ \E p \in Param : RemoveParameter(p) \/ \E on \in BOOLEAN : SetParameter(p, on)

ClientStep ==
    \/ Refresh \/ NextPage \/ PreviousPage \/ RequestFails
    \/ ReadEntries \/ ReadValues \/ ReadNames \/ RespondRecords
    \/ BeginExport \/ ReadEnabled \/ ReadStoredNames \/ OpenRows
    \/ \E row \in rows : NextRow(row)
    \/ LeaveExport

Next == DataStep \/ ClientStep

Spec == Init /\ [][Next]_vars

-----------------------------------------------------------------------------
\* Types; and the stack of cursors starts with the newest page and descends to
\* the page displayed, so that "Previous" leads back to where one came from.
TypeOK ==
    /\ stored \subseteq Record /\ open \subseteq Record /\ entries \subseteq Record
    /\ enabled \subseteq listed /\ listed \subseteq Param /\ columns \subseteq Param
    /\ rpc \in {"page", "entries", "values", "names", "distinct",
                "header", "header2", "rows", "stream"}
    /\ history \in Seq(Nat) /\ {lastId, changes, cursor, nextCursor} \subseteq Nat
    /\ \A i \in DOMAIN history : (i = 1) <=> (history[i] = 0)
    /\ (cursor = 0) <=> (history = <<>>)
    /\ \A i \in 2..Len(history) : cursor < history[i]
    /\ DOMAIN page \subseteq 1..lastId
    /\ seen \subseteq 1..lastId /\ owed \subseteq Ids(stored)

\* Paging to the end shows every record: whatever is stored or deleted on the
\* way, and however one goes back and forth, each record that was there at the
\* last refresh and still is has been displayed when there is no next page.
PagesComplete == rpc = "page" /\ nextCursor = 0 => owed \subseteq seen

\* What a page shows of a record that still exists is the whole of it, with a
\* column for each value, although it was read in four statements.
PageFaithful ==
    rpc = "page" =>
        \A r \in stored : r.id \in DOMAIN page => page[r.id] = r.params /\ r.params \subseteq columns

\* "Previously stored values remain available for viewing and export"
\* (app.js:150): a value that was there when the export began and still is has
\* a cell in the file, also when its parameter was disabled or removed.
HistoryExported ==
    rpc = "stream" /\ rows = {} =>
        \A v \in due : \E i \in DOMAIN csv : csv[i].id = v.id /\ v.param \in csv[i].cells

\* "Each row represents one transmission" (CLIENT_USER_MANUAL.md:224): records
\* with equal timestamps do not break up each other's lines.
LinePerRecord ==
    \A i, j \in DOMAIN csv : csv[i].id = csv[j].id => i = j
\* What makes these invariants inductive.  Ids are drawn once; what a request
\* has read was committed.
Identified ==
    /\ IsFiniteSet(stored) /\ IsFiniteSet(entries)
    /\ \A r \in stored \cup open \cup entries : r.id \in 1..lastId
    /\ \A r, s \in stored \cup open \cup entries : r.id = s.id => r = s
    /\ open \cap (stored \cup entries) = {}

\* Cursors descend, and so do the pages they lead to.
Descending ==
    /\ \A i, j \in 2..Len(history) : i < j => history[j] < history[i]
    /\ rpc = "page" /\ cursor # 0 => nextCursor < cursor
    /\ cursor # 0 => \A r \in entries : r.id < cursor
    /\ rpc \notin {"values", "names", "distinct"} => entries = {}
    /\ rpc \in {"header", "header2", "rows", "stream"} => cursor = 0

\* What a page shows of a record is all of it, until the record is deleted.
PageKept ==
    /\ \A r \in stored : r.id \in DOMAIN page => page[r.id] = r.params
    /\ \A r \in open : r.id \notin DOMAIN page

\* Every record owed is displayed, among those being read, or further down.
Traversed ==
    /\ rpc \in {"names", "distinct"} => DOMAIN page = Ids(Newest(entries, Shown))
    /\ \A i \in owed \ seen :
          /\ cursor # 0 => i < cursor
          /\ rpc = "page" => i < nextCursor
          /\ rpc \in {"values", "names", "distinct"} /\ i \notin Ids(entries) =>
                Limit < Cardinality(entries) /\ \A r \in entries : i < r.id

\* Every value due has a column, and is in the file or among the rows to come.
Exported ==
    /\ rpc \notin {"header", "header2", "rows", "stream"} => due = {}
    /\ \A v \in due :
          /\ v.param \notin Hidden
          /\ \E r \in stored : r.id = v.id /\ v.param \in r.params /\ r.time \in Interval
          /\ rpc \in {"rows", "stream"} => v.param \in columns
          /\ rpc = "stream" =>
                \/ \E x \in rows : x.rec.id = v.id /\ x.param = v.param
                \/ \E i \in DOMAIN csv : csv[i].id = v.id /\ v.param \in csv[i].cells

\* Rows to come belong to no line but the last, and those come first.
Streamed ==
    /\ rpc # "stream" => rows = {} /\ csv = <<>>
    /\ rows \subseteq [rec : Record, param : Param]
    /\ csv \in Seq([id : Nat, cells : SUBSET Param])
    /\ \A x, y \in rows : x.rec.id = y.rec.id => x.rec = y.rec
    /\ \A x \in rows, i \in DOMAIN csv : x.rec.id = csv[i].id =>
          i = Len(csv) /\ \A y \in rows : ~ Precedes(y.rec, x.rec)

\* Holds for every client.
ViewInv ==
    /\ TypeOK /\ Identified /\ Descending
    /\ PageKept /\ PageFaithful
    /\ Exported /\ Streamed /\ LinePerRecord

\* Holds for a client that displays what it asks for.
PagingInv == ViewInv /\ Traversed
=============================================================================
