------------------------- MODULE RecordsViewProofs -------------------------
(***************************************************************************)
(* Proofs about RecordsView for any parameters, payloads, timestamps, page  *)
(* sizes and numbers of records and changes.                                *)
(***************************************************************************)
EXTENDS RecordsView, FiniteSetTheorems, WellFoundedInduction, TLAPS

-----------------------------------------------------------------------------
(* ORDER BY id DESC LIMIT n                                                 *)

\* Some record of a finite set has the highest id, and some the lowest.
LEMMA Extremes ==
    ASSUME NEW S, IsFiniteSet(S), \A r \in S : r.id \in Nat, NEW T \in SUBSET S, T # {}
    PROVE  /\ \E r \in T : \A s \in T : s.id <= r.id
           /\ \E r \in T : \A s \in T : r.id <= s.id
<1> DEFINE Above(r) == {s \in S : s.id > r.id}
           Below(r) == {s \in S : s.id < r.id}
           R == StrictSubsetOrdering(S)
<1>1. IsWellFoundedOn(R, FiniteSubsetsOf(S))
  BY FS_StrictSubsetOrderingWellFounded
<1>2. ASSUME NEW r \in T PROVE Above(r) \in FiniteSubsetsOf(S) /\ Below(r) \in FiniteSubsetsOf(S)
  BY FS_FiniteSubsetsOfFinite
<1>3. \E r \in T : \A s \in T : s.id <= r.id
  <2>1. PICK r \in T : \A s \in T : ~ (<<Above(s), Above(r)>> \in R)
    <3> DEFINE U == {Above(r) : r \in T}
    <3>1. U \subseteq FiniteSubsetsOf(S) /\ U # {}
      BY <1>2
    <3>2. \E x \in U : \A y \in U : ~ (<<y, x>> \in R)
      <4> HIDE DEF U, R
      <4> QED
        BY <1>1, <3>1, WFMin
    <3>3. QED
      BY <3>2
  <2>2. ASSUME NEW s \in T, s.id > r.id PROVE FALSE
    <3>1. Above(s) \subseteq Above(r) /\ s \in Above(r) /\ s \notin Above(s)
      BY <2>2
    <3>2. <<Above(s), Above(r)>> \in R
      BY <3>1 DEF StrictSubsetOrdering
    <3>3. QED
      BY <2>1, <3>2
  <2>3. QED
    BY <2>2
<1>4. \E r \in T : \A s \in T : r.id <= s.id
  <2>1. PICK r \in T : \A s \in T : ~ (<<Below(s), Below(r)>> \in R)
    <3> DEFINE U == {Below(r) : r \in T}
    <3>1. U \subseteq FiniteSubsetsOf(S) /\ U # {}
      BY <1>2
    <3>2. \E x \in U : \A y \in U : ~ (<<y, x>> \in R)
      <4> HIDE DEF U, R
      <4> QED
        BY <1>1, <3>1, WFMin
    <3>3. QED
      BY <3>2
  <2>2. ASSUME NEW s \in T, s.id < r.id PROVE FALSE
    <3>1. Below(s) \subseteq Below(r) /\ s \in Below(r) /\ s \notin Below(s)
      BY <2>2
    <3>2. <<Below(s), Below(r)>> \in R
      BY <3>1 DEF StrictSubsetOrdering
    <3>3. QED
      BY <2>1, <3>2
  <2>3. QED
    BY <2>2
<1>5. QED
  BY <1>3, <1>4

\* Whatever is newer than a record of the page is on the page.
LEMMA NewestUpwards ==
    ASSUME NEW S, IsFiniteSet(S), \A r \in S : r.id \in Nat, NEW n \in Nat,
           NEW r \in Newest(S, n), NEW s \in S, s.id > r.id
    PROVE  s \in Newest(S, n)
<1> DEFINE Above(x) == {y \in S : y.id > x.id}
<1>1. Above(s) \subseteq Above(r) /\ r \in S
  BY DEF Newest
<1>2. IsFiniteSet(Above(r)) /\ Above(s) \in SUBSET Above(r)
  BY <1>1, FS_Subset
<1>3. Cardinality(Above(s)) <= Cardinality(Above(r)) /\ Cardinality(Above(r)) \in Nat
      /\ Cardinality(Above(s)) \in Nat
  BY <1>2, FS_Subset, FS_CardinalityType
<1>4. QED
  BY <1>3 DEF Newest

\* A page that leaves something out is full.
LEMMA NewestFull ==
    ASSUME NEW S, IsFiniteSet(S), \A r \in S : r.id \in Nat,
           \A r, s \in S : r.id = s.id => r = s,
           NEW n \in Nat, NEW r \in S, r \notin Newest(S, n)
    PROVE  n <= Cardinality(Newest(S, n)) /\ \A s \in Newest(S, n) : r.id < s.id
<1> DEFINE N == Newest(S, n)  Above(x) == {y \in S : y.id > x.id}
<1>1. N \subseteq S
  BY DEF Newest
<1>2. PICK t \in S \ N : \A s \in S \ N : s.id <= t.id
  BY Extremes
<1>3. Above(t) \subseteq N
  BY <1>2
<1>4. IsFiniteSet(Above(t)) /\ IsFiniteSet(N)
  BY <1>1, FS_Subset
<1>5. Cardinality(Above(t)) \in Nat /\ ~ Cardinality(Above(t)) < n
  BY <1>2, <1>4, FS_CardinalityType DEF Newest
<1>6. Cardinality(Above(t)) <= Cardinality(N) /\ Cardinality(N) \in Nat
  BY <1>3, <1>4, FS_Subset, FS_CardinalityType
<1>7. ASSUME NEW s \in N PROVE r.id < s.id
  BY <1>1, <1>7, NewestUpwards
<1>8. QED
  BY <1>5, <1>6, <1>7

\* A page with room for all of them shows all.
LEMMA NewestAll ==
    ASSUME NEW S, IsFiniteSet(S), NEW n \in Nat, Cardinality(S) <= n,
           \A r \in S : r.id \in Nat
    PROVE  Newest(S, n) = S
<1> SUFFICES ASSUME NEW r \in S PROVE Cardinality({s \in S : s.id > r.id}) < n
  BY DEF Newest
<1> DEFINE A == {s \in S : s.id > r.id}
<1>1. A \in SUBSET S /\ A # S
  OBVIOUS
<1>2. IsFiniteSet(A) /\ Cardinality(A) <= Cardinality(S) /\ Cardinality(A) # Cardinality(S)
  BY <1>1, FS_Subset
<1>3. Cardinality(A) \in Nat /\ Cardinality(S) \in Nat
  BY <1>2, FS_CardinalityType
<1>4. QED
  BY <1>2, <1>3

\* There is a cursor that divides the page from the rest.
LEMMA Divided ==
    ASSUME NEW S, IsFiniteSet(S), \A r \in S : r.id \in Nat, S # {}, NEW n \in Nat \ {0}
    PROVE  \E i \in Ids(S) : Ids(Newest(S, n)) = {j \in Ids(S) : j >= i}
<1> DEFINE N == Newest(S, n)
<1>1. N \subseteq S
  BY DEF Newest
<1>2. N # {}
  <2>1. PICK r \in S : \A s \in S : s.id <= r.id
    BY Extremes
  <2>2. {s \in S : s.id > r.id} = {}
    BY <2>1
  <2>3. QED
    BY <2>2, FS_EmptySet DEF Newest
<1>3. PICK r \in N : \A s \in N : r.id <= s.id
  BY <1>1, <1>2, Extremes
<1>4. r.id \in Ids(S)
  BY <1>1 DEF Ids
<1>5. ASSUME NEW s \in S, s.id >= r.id PROVE s.id \in Ids(N)
  <2>1. CASE s.id = r.id
    BY <2>1 DEF Ids
  <2>2. CASE s.id > r.id
    BY <2>2, NewestUpwards DEF Ids
  <2>3. QED
    BY <1>1, <1>5, <2>1, <2>2
<1>6. Ids(N) = {j \in Ids(S) : j >= r.id}
  BY <1>1, <1>3, <1>5 DEF Ids
<1>7. QED
  BY <1>4, <1>6

-----------------------------------------------------------------------------
(* Types and cursors                                                        *)

\* What a page is made of.
LEMMA PageSubset == \A S, n : Newest(S, n) \subseteq S
  BY DEF Newest

\* What the stack of cursors looks like after "Next" and "Previous".
LEMMA Pushed ==
    ASSUME NEW h \in Seq(Nat), NEW c \in Nat
    PROVE  /\ Append(h, c) \in Seq(Nat) /\ Len(Append(h, c)) = Len(h) + 1
           /\ \A i \in 1..Len(h) : Append(h, c)[i] = h[i]
           /\ Append(h, c)[Len(h) + 1] = c
           /\ DOMAIN h = 1..Len(h) /\ DOMAIN Append(h, c) = 1..(Len(h) + 1)
           /\ Append(h, c) # <<>>
  OBVIOUS

LEMMA Popped ==
    ASSUME NEW h \in Seq(Nat), h # <<>>
    PROVE  /\ Front(h) \in Seq(Nat) /\ Len(Front(h)) = Len(h) - 1
           /\ \A i \in 1..(Len(h) - 1) : Front(h)[i] = h[i]
           /\ Last(h) = h[Len(h)] /\ Last(h) \in Nat /\ Len(h) \in Nat \ {0}
           /\ DOMAIN h = 1..Len(h) /\ DOMAIN Front(h) = 1..(Len(h) - 1)
           /\ Front(h) = <<>> <=> Len(h) = 1
<1>1. Len(h) \in Nat \ {0} /\ DOMAIN h = 1..Len(h) /\ \A i \in 1..Len(h) : h[i] \in Nat
  OBVIOUS
<1>2. Front(h) = [i \in 1..(Len(h) - 1) |-> h[i]]
  BY <1>1 DEF Front
<1>3. /\ Front(h) \in Seq(Nat) /\ Len(Front(h)) = Len(h) - 1
      /\ \A i \in 1..(Len(h) - 1) : Front(h)[i] = h[i]
  BY <1>1, <1>2
<1>4. Last(h) = h[Len(h)] /\ Last(h) \in Nat
  BY <1>1 DEF Last
<1>5. Front(h) = <<>> <=> Len(h) = 1
  BY <1>1, <1>3
<1>6. QED
  BY <1>1, <1>3, <1>4, <1>5

\* A stack of cursors, above cursor c: zero at the bottom, then descending to c.
Stack(h, c) ==
    /\ h \in Seq(Nat) /\ c \in Nat
    /\ \A i \in 1..Len(h) : (i = 1) <=> (h[i] = 0)
    /\ (c = 0) <=> (h = <<>>)
    /\ \A i \in 2..Len(h) : c < h[i]
    /\ \A i, j \in 2..Len(h) : i < j => h[j] < h[i]

LEMMA StackPushed ==
    ASSUME NEW h, NEW c, Stack(h, c), NEW d \in Nat, d # 0, c # 0 => d < c
    PROVE  Stack(Append(h, c), d)
<1>1. h \in Seq(Nat) /\ c \in Nat /\ Len(h) \in Nat
  BY DEF Stack
<1>2. c = 0 <=> Len(h) = 0
  BY <1>1 DEF Stack
<1>3. \A i \in 1..(Len(h) + 1) : (i = 1) <=> (Append(h, c)[i] = 0)
  BY <1>1, <1>2, Pushed DEF Stack
<1>4. \A i \in 2..(Len(h) + 1) : d < Append(h, c)[i]
  <2>1. \A i \in 2..Len(h) : Append(h, c)[i] = h[i] /\ c < h[i] /\ h[i] \in Nat
    BY <1>1, Pushed DEF Stack
  <2>2. Append(h, c)[Len(h) + 1] = c
    BY <1>1
  <2>3. QED
    BY <1>1, <1>2, <2>1, <2>2
<1>5. \A i, j \in 2..(Len(h) + 1) : i < j => Append(h, c)[j] < Append(h, c)[i]
  BY <1>1, <1>2, Pushed DEF Stack
<1>6. QED
  BY <1>1, <1>3, <1>4, <1>5, Pushed DEF Stack

LEMMA StackPopped ==
    ASSUME NEW h, NEW c, Stack(h, c), h # <<>>
    PROVE  Stack(Front(h), Last(h))
<1>1. h \in Seq(Nat) /\ Len(h) \in Nat \ {0}
  BY DEF Stack
<1>2. /\ Front(h) \in Seq(Nat) /\ Last(h) = h[Len(h)] /\ Last(h) \in Nat
      /\ Len(Front(h)) = Len(h) - 1 /\ (Front(h) = <<>> <=> Len(h) = 1)
      /\ \A i \in 1..(Len(h) - 1) : Front(h)[i] = h[i]
  BY <1>1, Popped
<1>3. (Last(h) = 0) <=> (Front(h) = <<>>)
  BY <1>1, <1>2 DEF Stack
<1>4. ASSUME NEW i \in 1..(Len(h) - 1) PROVE (i = 1) <=> (Front(h)[i] = 0)
  <2>1. i \in 1..Len(h) /\ Front(h)[i] = h[i]
    BY <1>1, <1>2
  <2>2. QED
    BY <2>1 DEF Stack
<1>5. ASSUME NEW i \in 2..(Len(h) - 1) PROVE Last(h) < Front(h)[i]
  <2>1. i \in 2..Len(h) /\ Len(h) \in 2..Len(h) /\ i < Len(h)
    BY <1>1
  <2>2. Front(h)[i] = h[i]
    BY <1>1, <1>2
  <2>3. h[Len(h)] < h[i]
    BY <2>1 DEF Stack
  <2>4. QED
    BY <1>2, <2>2, <2>3
<1>6. ASSUME NEW i \in 2..(Len(h) - 1), NEW j \in 2..(Len(h) - 1), i < j
      PROVE  Front(h)[j] < Front(h)[i]
  <2>1. i \in 2..Len(h) /\ j \in 2..Len(h)
    BY <1>1
  <2>2. Front(h)[i] = h[i] /\ Front(h)[j] = h[j] /\ h[j] < h[i]
    BY <1>1, <1>2, <1>6, <2>1 DEF Stack
  <2>3. QED
    BY <2>2
<1>7. QED
  BY <1>2, <1>3, <1>4, <1>5, <1>6 DEF Stack

LEMMA StackNow == TypeOK /\ Descending => Stack(history, cursor)
  BY DEF TypeOK, Descending, Stack

LEMMA StackStep ==
    ASSUME TypeOK, Descending, Next
    PROVE  Stack(history', cursor')
<1>1. Stack(history, cursor)
  BY StackNow
<1>2. CASE UNCHANGED <<history, cursor>>
  BY <1>1, <1>2
<1>3. CASE NextPage
  <2>1. history' = Append(history, cursor) /\ cursor' = nextCursor /\ nextCursor # 0
        /\ (cursor # 0 => nextCursor < cursor) /\ nextCursor \in Nat
    BY <1>3 DEF NextPage, Descending, TypeOK
  <2>2. QED
    BY <1>1, <2>1, StackPushed
<1>4. CASE PreviousPage
  <2>1. history # <<>> /\ history' = Front(history) /\ cursor' = Last(history)
    BY <1>4 DEF PreviousPage
  <2>2. QED
    BY <1>1, <2>1, StackPopped
<1>5. CASE history' = <<>> /\ cursor' = 0
  BY <1>5 DEF Stack
<1>6. QED
  BY <1>2, <1>3, <1>4, <1>5 DEF Next, DataStep, ClientStep, DrawRecord, CommitRecord,
     RollbackRecord, DeleteTelemetry, SetParameter, RemoveParameter, Refresh, RequestFails,
     ReadEntries, ReadValues, ReadNames, RespondRecords, Display, BeginExport, ReadEnabled,
     ReadStoredNames, OpenRows, NextRow, LeaveExport, pageVars

\* The next cursor is an id of the records that were read.
LEMMA ContinueType ==
    ASSUME TypeOK, Identified, Limit < Cardinality(entries), IsFiniteSet(entries)
    PROVE  /\ Continue \in Ids(entries)
           /\ Ids(Newest(entries, Limit)) = {j \in Ids(entries) : j >= Continue}
<1>1. \A r \in entries : r.id \in Nat
  BY DEF TypeOK, Record
<1>2. entries # {} /\ ~ (Cardinality(entries) <= Limit)
  BY ViewAssumption, FS_EmptySet, FS_CardinalityType DEF ViewAssumption
<1>3. \E i \in Ids(entries) : Ids(Newest(entries, Limit)) = {j \in Ids(entries) : j >= i}
  BY <1>1, <1>2, Divided, ViewAssumption DEF ViewAssumption
<1>4. QED
  BY <1>2, <1>3 DEF Continue
\* The next cursor after any step.
LEMMA NextCursor ==
    ASSUME TypeOK, Identified, Next
    PROVE  /\ nextCursor' \in Nat
           /\ RespondRecords => nextCursor' = 0 \/ nextCursor' \in Ids(entries)
<1>1. CASE RespondRecords
  <2>1. nextCursor' = Continue
    BY <1>1 DEF RespondRecords, Display
  <2>2. \A i \in Ids(entries) : i \in Nat
    BY DEF TypeOK, Record, Ids
  <2>3. CASE Cardinality(entries) <= Limit
    BY <2>1, <2>3 DEF Continue
  <2>4. CASE ~ (Cardinality(entries) <= Limit)
    <3>1. IsFiniteSet(entries) /\ Limit < Cardinality(entries)
      BY <2>4, ViewAssumption, FS_CardinalityType DEF Identified, ViewAssumption
    <3>2. Continue \in Ids(entries)
      BY <3>1, ContinueType, ViewAssumption
    <3>3. QED
      BY <2>1, <2>2, <3>2
  <2>5. QED
    BY <2>3, <2>4
<1>2. CASE ~ RespondRecords
  BY <1>2 DEF TypeOK, Next, DataStep, ClientStep, DrawRecord, CommitRecord,
     RollbackRecord, DeleteTelemetry, SetParameter, RemoveParameter, Refresh, NextPage,
     PreviousPage, Ask, RequestFails, ReadEntries, ReadValues, ReadNames, BeginExport,
     ReadEnabled, ReadStoredNames, OpenRows, NextRow, LeaveExport, pageVars
<1>3. QED
  BY <1>1, <1>2

\* Which records a step leaves.
LEMMA RecordsStep ==
    ASSUME TypeOK, Identified, Next
    PROVE  /\ Identified'
           /\ stored' \subseteq Record /\ open' \subseteq Record /\ entries' \subseteq Record
           /\ lastId' \in Nat /\ lastId <= lastId'
<1> USE DEF Identified, TypeOK
<1>1. ASSUME NEW sent \in Payload, NEW time \in Time, DrawRecord(sent, time)
      PROVE  /\ Identified'
             /\ stored' \subseteq Record /\ open' \subseteq Record /\ entries' \subseteq Record
             /\ lastId' \in Nat /\ lastId <= lastId'
  <2> DEFINE new == [id |-> lastId + 1, time |-> time, params |-> sent \cap enabled]
  <2>1. /\ open' = open \cup {new} /\ lastId' = lastId + 1 /\ lastId \in Nat
        /\ sent \cap enabled # {} /\ UNCHANGED <<stored, entries>>
    BY <1>1 DEF DrawRecord, pageVars
  <2>2. new \in Record /\ new.id = lastId + 1
    BY <2>1, ViewAssumption DEF Record, ViewAssumption
  <2> HIDE DEF new
  <2>3. new \notin stored \cup open \cup entries
    BY <2>1, <2>2
  <2>4. QED
    BY <2>1, <2>2, <2>3
<1>2. ASSUME NEW r \in open, CommitRecord(r) \/ RollbackRecord(r)
      PROVE  /\ Identified'
             /\ stored' \subseteq Record /\ open' \subseteq Record /\ entries' \subseteq Record
             /\ lastId' \in Nat /\ lastId <= lastId'
  <2>1. /\ open' = open \ {r} /\ (stored' = stored \cup {r} \/ stored' = stored)
        /\ UNCHANGED <<entries, lastId>>
    BY <1>2 DEF CommitRecord, RollbackRecord, pageVars
  <2>2. IsFiniteSet(stored')
    BY <2>1, FS_AddElement
  <2>3. QED
    BY <2>1, <2>2
<1>3. ASSUME NEW S \in SUBSET stored \ {{}}, DeleteTelemetry(S)
      PROVE  /\ Identified'
             /\ stored' \subseteq Record /\ open' \subseteq Record /\ entries' \subseteq Record
             /\ lastId' \in Nat /\ lastId <= lastId'
  <2>1. stored' = stored \ S /\ UNCHANGED <<open, entries, lastId>>
    BY <1>3 DEF DeleteTelemetry
  <2>2. IsFiniteSet(stored')
    BY <2>1, FS_Subset
  <2>3. QED
    BY <2>1, <2>2
<1>4. CASE ReadEntries
  <2>1. UNCHANGED <<stored, open, lastId>>
    BY <1>4 DEF ReadEntries, dataVars
  <2>2. entries' \in SUBSET stored
    BY <1>4, PageSubset DEF ReadEntries
  <2>3. IsFiniteSet(entries')
    BY <2>2, FS_Subset
  <2>4. QED
    BY <2>1, <2>2, <2>3
<1>5. CASE UNCHANGED <<stored, open, lastId>> /\ (UNCHANGED entries \/ entries' = {})
  <2>1. CASE UNCHANGED entries
    BY <1>5, <2>1
  <2>2. CASE entries' = {}
    <3>1. IsFiniteSet(entries') /\ UNCHANGED <<stored, open, lastId>>
      BY <1>5, <2>2, FS_EmptySet
    <3>2. QED
      BY <2>2, <3>1
  <2>3. QED
    BY <1>5, <2>1, <2>2
<1>6. QED
  BY <1>1, <1>2, <1>3, <1>4, <1>5 DEF Next, DataStep, ClientStep, SetParameter,
     RemoveParameter, Refresh, NextPage, PreviousPage, Ask, RequestFails, ReadValues,
     ReadNames, RespondRecords, Display, BeginExport, ReadEnabled, ReadStoredNames,
     OpenRows, NextRow, LeaveExport, dataVars, pageVars

LEMMA TypeStep ==
    ASSUME TypeOK, Identified, Descending, Next
    PROVE  TypeOK'
<1>1. /\ stored' \subseteq Record /\ open' \subseteq Record /\ entries' \subseteq Record
      /\ lastId' \in Nat /\ lastId <= lastId' /\ lastId \in Nat
  BY RecordsStep DEF TypeOK
<1>2. nextCursor' \in Nat
  BY NextCursor
<1>3. Stack(history', cursor')
  BY StackStep
<1>4. /\ enabled' \subseteq listed' /\ listed' \subseteq Param /\ columns' \subseteq Param
      /\ changes' \in Nat
  BY ViewAssumption DEF TypeOK, Record, StoredParams, ViewAssumption, Next, DataStep, ClientStep,
     DrawRecord, CommitRecord, RollbackRecord, DeleteTelemetry, SetParameter,
     RemoveParameter, Refresh, NextPage, PreviousPage, Ask, RequestFails, ReadEntries,
     ReadValues, ReadNames, RespondRecords, Display, BeginExport, ReadEnabled,
     ReadStoredNames, OpenRows, NextRow, LeaveExport, dataVars, pageVars
<1>5. rpc' \in {"page", "entries", "values", "names", "distinct",
                "header", "header2", "rows", "stream"}
  BY DEF TypeOK, Next, DataStep, ClientStep,
     DrawRecord, CommitRecord, RollbackRecord, DeleteTelemetry, SetParameter,
     RemoveParameter, Refresh, NextPage, PreviousPage, Ask, RequestFails, ReadEntries,
     ReadValues, ReadNames, RespondRecords, Display, BeginExport, ReadEnabled,
     ReadStoredNames, OpenRows, NextRow, LeaveExport
<1>6. DOMAIN page' \subseteq 1..lastId' /\ seen' \subseteq 1..lastId'
  <2>1. CASE ReadValues
    <3>1. Ids(Newest(entries, Shown)) \subseteq 1..lastId
      BY PageSubset DEF Ids, Identified
    <3>2. DOMAIN page' = Ids(Newest(entries, Shown)) /\ UNCHANGED <<seen, lastId>>
      BY <2>1 DEF ReadValues, dataVars
    <3>3. QED
      BY <3>1, <3>2 DEF TypeOK
  <2>2. CASE BeginExport
    BY <2>2 DEF BeginExport
  <2>3. CASE UNCHANGED page /\ (UNCHANGED seen \/ seen' = {} \/ seen' = seen \cup DOMAIN page)
    <3>1. 1..lastId \subseteq 1..lastId'
      BY <1>1
    <3>2. DOMAIN page \subseteq 1..lastId /\ seen \subseteq 1..lastId
      BY DEF TypeOK
    <3>3. QED
      BY <2>3, <3>1, <3>2
  <2>4. QED
    BY <2>1, <2>2, <2>3 DEF Next, DataStep, ClientStep, DrawRecord, CommitRecord,
       RollbackRecord, DeleteTelemetry, SetParameter, RemoveParameter, Refresh, NextPage,
       PreviousPage, Ask, RequestFails, ReadEntries, ReadNames, RespondRecords, Display,
       ReadEnabled, ReadStoredNames, OpenRows, NextRow, LeaveExport, pageVars
<1>7. owed' \subseteq Ids(stored')
  <2>1. ASSUME NEW S \in SUBSET stored \ {{}}, DeleteTelemetry(S) PROVE owed' \subseteq Ids(stored')
    BY <2>1 DEF DeleteTelemetry, TypeOK, Ids
  <2>2. CASE owed' = Ids(stored) /\ UNCHANGED stored
    BY <2>2
  <2>3. CASE stored \subseteq stored' /\ (UNCHANGED owed \/ owed' = {})
    BY <2>3 DEF TypeOK, Ids
  <2>4. QED
    BY <2>1, <2>2, <2>3 DEF Next, DataStep, ClientStep, DrawRecord, CommitRecord,
       RollbackRecord, SetParameter, RemoveParameter, Refresh, NextPage,
       PreviousPage, Ask, RequestFails, ReadEntries, ReadValues, ReadNames, RespondRecords,
       Display, BeginExport, ReadEnabled, ReadStoredNames, OpenRows, NextRow, LeaveExport,
       dataVars, pageVars
<1>8. /\ history' \in Seq(Nat) /\ cursor' \in Nat
      /\ \A i \in DOMAIN history' : (i = 1) <=> (history'[i] = 0)
      /\ (cursor' = 0) <=> (history' = <<>>)
      /\ \A i \in 2..Len(history') : cursor' < history'[i]
  <2>1. history' \in Seq(Nat) /\ DOMAIN history' = 1..Len(history')
    BY <1>3 DEF Stack
  <2>2. QED
    BY <1>3, <2>1 DEF Stack
<1>9. QED
  BY <1>1, <1>2, <1>4, <1>5, <1>6, <1>7, <1>8 DEF TypeOK
LEMMA DescendingStep ==
    ASSUME TypeOK, Identified, Descending, Next
    PROVE  Descending'
<1>1. \A i, j \in 2..Len(history') : i < j => history'[j] < history'[i]
  BY StackStep DEF Stack
<1>2. rpc' = "page" /\ cursor' # 0 => nextCursor' < cursor'
  <2>1. CASE RespondRecords
    <3>1. UNCHANGED cursor /\ (nextCursor' = 0 \/ nextCursor' \in Ids(entries))
      BY <2>1, NextCursor DEF RespondRecords, Display
    <3>2. cursor # 0 => \A i \in Ids(entries) : i < cursor
      BY DEF Descending, Ids
    <3>3. QED
      BY <3>1, <3>2 DEF TypeOK
  <2>2. CASE rpc' = "page" => UNCHANGED <<rpc, cursor, nextCursor>>
    BY <2>2 DEF Descending
  <2>3. QED
    BY <2>1, <2>2 DEF Next, DataStep, ClientStep, DrawRecord, CommitRecord,
       RollbackRecord, DeleteTelemetry, SetParameter, RemoveParameter, Refresh, NextPage,
       PreviousPage, Ask, RequestFails, ReadEntries, ReadValues, ReadNames, BeginExport,
       ReadEnabled, ReadStoredNames, OpenRows, NextRow, LeaveExport, pageVars
<1>3. /\ cursor' # 0 => \A r \in entries' : r.id < cursor'
      /\ rpc' \notin {"values", "names", "distinct"} => entries' = {}
  <2>1. CASE ReadEntries
    <3>1. UNCHANGED cursor /\ rpc' = "values"
      BY <2>1 DEF ReadEntries
    <3>2. entries' \subseteq {r \in stored : cursor # 0 => r.id < cursor}
      BY <2>1, PageSubset DEF ReadEntries
    <3>3. QED
      BY <3>1, <3>2
  <2>2. CASE entries' = {}
    BY <2>2
  <2>3. CASE /\ rpc \in {"values", "names", "distinct"} => rpc' \in {"values", "names", "distinct"}
             /\ UNCHANGED entries /\ (UNCHANGED cursor \/ entries = {})
    BY <2>3 DEF Descending
  <2>4. QED
    BY <2>1, <2>2, <2>3 DEF Descending, Next, DataStep, ClientStep, DrawRecord, CommitRecord,
       RollbackRecord, DeleteTelemetry, SetParameter, RemoveParameter, Refresh, NextPage,
       PreviousPage, Ask, RequestFails, ReadValues, ReadNames, RespondRecords, Display,
       BeginExport, ReadEnabled, ReadStoredNames, OpenRows, NextRow, LeaveExport, pageVars
<1>4. rpc' \in {"header", "header2", "rows", "stream"} => cursor' = 0
  BY DEF Descending, Next, DataStep, ClientStep, DrawRecord, CommitRecord,
     RollbackRecord, DeleteTelemetry, SetParameter, RemoveParameter, Refresh, NextPage,
     PreviousPage, Ask, RequestFails, ReadEntries, ReadValues, ReadNames, RespondRecords,
     Display, BeginExport, ReadEnabled, ReadStoredNames, OpenRows, NextRow, LeaveExport,
     pageVars
<1>5. QED
  BY <1>1, <1>2, <1>3, <1>4 DEF Descending

-----------------------------------------------------------------------------
(* What a page shows                                                        *)

LEMMA PageKeptStep ==
    ASSUME TypeOK, Identified, PageKept, Next
    PROVE  PageKept'
<1> USE DEF PageKept
<1>1. ASSUME NEW sent \in Payload, NEW time \in Time, DrawRecord(sent, time) PROVE PageKept'
  <2>1. lastId + 1 \notin DOMAIN page
    BY DEF TypeOK
  <2>2. UNCHANGED <<stored, page>> /\ \A r \in open' : r \in open \/ r.id = lastId + 1
    BY <1>1 DEF DrawRecord, pageVars
  <2>3. QED
    BY <2>1, <2>2
<1>2. ASSUME NEW r \in open, CommitRecord(r) \/ RollbackRecord(r) PROVE PageKept'
  BY <1>2 DEF CommitRecord, RollbackRecord, pageVars
<1>3. CASE ReadValues
  <2>1. /\ page' = [i \in Ids(Newest(entries, Shown)) |->
                       UNION {r.params : r \in {s \in stored : s.id = i}}]
        /\ UNCHANGED <<stored, open>>
    BY <1>3 DEF ReadValues, dataVars
  <2>2. ASSUME NEW r \in stored, r.id \in DOMAIN page' PROVE page'[r.id] = r.params
    <3>1. {s \in stored : s.id = r.id} = {r}
      BY DEF Identified
    <3>2. UNION {q.params : q \in {r}} = r.params
      OBVIOUS
    <3>3. QED
      BY <2>1, <2>2, <3>1, <3>2
  <2>3. ASSUME NEW r \in open, r.id \in DOMAIN page' PROVE FALSE
    <3>1. PICK q \in entries : q.id = r.id
      BY <2>1, <2>3, PageSubset DEF Ids
    <3>2. QED
      BY <3>1 DEF Identified
  <2>4. QED
    BY <2>1, <2>2, <2>3
<1>4. CASE stored' \subseteq stored /\ UNCHANGED open /\ (UNCHANGED page \/ page' = <<>>)
  BY <1>4
<1>5. QED
  BY <1>1, <1>2, <1>3, <1>4 DEF Next, DataStep, ClientStep, DeleteTelemetry, SetParameter,
     RemoveParameter, Refresh, NextPage, PreviousPage, Ask, RequestFails, ReadEntries,
     ReadNames, RespondRecords, Display, BeginExport, ReadEnabled, ReadStoredNames,
     OpenRows, NextRow, LeaveExport, dataVars, pageVars

LEMMA PageFaithfulStep ==
    ASSUME TypeOK, Identified, PageKept, PageFaithful, Next
    PROVE  PageFaithful'
<1> SUFFICES ASSUME rpc' = "page", NEW r \in stored', r.id \in DOMAIN page'
             PROVE  page'[r.id] = r.params /\ r.params \subseteq columns'
  BY DEF PageFaithful
<1>1. page'[r.id] = r.params
  BY PageKeptStep DEF PageKept
<1>2. r.params \subseteq columns'
  <2>1. CASE RespondRecords
    <3>1. r \in stored /\ columns' = columns \cup StoredParams
      BY <2>1 DEF RespondRecords, Display, dataVars
    <3>2. QED
      BY <3>1 DEF StoredParams
  <2>2. CASE /\ UNCHANGED <<rpc, page, columns>>
             /\ stored' \subseteq stored \/ \E q \in open : stored' = stored \cup {q}
    BY <2>2 DEF PageFaithful, PageKept
  <2>3. QED
    BY <2>1, <2>2 DEF Next, DataStep, ClientStep, DrawRecord, CommitRecord,
       RollbackRecord, DeleteTelemetry, SetParameter, RemoveParameter, Refresh, NextPage,
       PreviousPage, Ask, RequestFails, ReadEntries, ReadValues, ReadNames, BeginExport,
       ReadEnabled, ReadStoredNames, OpenRows, NextRow, LeaveExport, pageVars
<1>3. QED
  BY <1>1, <1>2
-----------------------------------------------------------------------------
(* The export                                                               *)

\* A row changes nothing, joins the last line, or starts a line.
Grown(lines, row, new) ==
    /\ new \in Seq([id : Nat, cells : SUBSET Param])
    /\ \A i \in 1..Len(lines) : new[i].id = lines[i].id /\ lines[i].cells \subseteq new[i].cells
    /\ \/ row.param \in Hidden /\ new = lines
       \/ /\ row.param \notin Hidden
          /\ Len(lines) # 0 /\ Len(new) = Len(lines) /\ lines[Len(lines)].id = row.rec.id
          /\ {row.param} \cap columns \subseteq new[Len(new)].cells
       \/ /\ row.param \notin Hidden /\ Len(new) = Len(lines) + 1
          /\ (Len(lines) # 0 => lines[Len(lines)].id # row.rec.id)
          /\ new[Len(new)].id = row.rec.id
          /\ {row.param} \cap columns \subseteq new[Len(new)].cells

LEMMA RowAdded ==
    ASSUME NEW lines, lines \in Seq([id : Nat, cells : SUBSET Param]),
           NEW row \in [rec : Record, param : Param]
    PROVE  Grown(lines, row, AddRow(lines, row))
<1> DEFINE Line == [id : Nat, cells : SUBSET Param]
           cell == {row.param} \cap columns
           n == Len(lines)
           new == AddRow(lines, row)
<1>1. /\ n \in Nat /\ (lines = <<>> <=> n = 0) /\ DOMAIN lines = 1..n
      /\ \A i \in 1..n : lines[i] \in Line
  <2>1. lines \in Seq(Line)
    OBVIOUS
  <2> HIDE DEF Line
  <2>2. QED
    BY <2>1
<1>2. row.rec.id \in Nat /\ cell \in SUBSET Param
  BY DEF Record
<1>3. CASE row.param \in Hidden
  BY <1>1, <1>3 DEF AddRow, Grown
<1>4. CASE row.param \notin Hidden /\ n # 0 /\ lines[n].id = row.rec.id
  <2>1. new = [lines EXCEPT ![n].cells = @ \cup cell]
    BY <1>1, <1>4 DEF AddRow, Last
  <2>2. /\ new = [lines EXCEPT ![n] = [lines[n] EXCEPT !.cells = lines[n].cells \cup cell]]
        /\ n \in 1..n
    BY <1>1, <1>4, <2>1
  <2> DEFINE line == [lines[n] EXCEPT !.cells = lines[n].cells \cup cell]
  <2>3. line \in Line /\ line.id = lines[n].id /\ line.cells = lines[n].cells \cup cell
    <3>1. lines[n] \in Line
      BY <1>1, <2>2
    <3>2. QED
      BY <1>2, <3>1
  <2> HIDE DEF line, new, cell
  <2>4. new \in Seq(Line) /\ Len(new) = n /\ new[n] = line
        /\ \A i \in 1..n : i # n => new[i] = lines[i]
    BY <1>1, <2>2, <2>3 DEF line
  <2>5. \A i \in 1..n : new[i].id = lines[i].id /\ lines[i].cells \subseteq new[i].cells
    BY <2>3, <2>4
  <2>6. QED
    BY <1>4, <2>3, <2>4, <2>5 DEF new, cell, Grown
<1>5. CASE row.param \notin Hidden /\ (n = 0 \/ lines[n].id # row.rec.id)
  <2> DEFINE line == [id |-> row.rec.id, cells |-> cell]
  <2>1. new = Append(lines, line)
    BY <1>1, <1>5 DEF AddRow, Last
  <2>2. line \in Line /\ line.id = row.rec.id /\ line.cells = cell
    BY <1>2
  <2> HIDE DEF line, new, cell
  <2>3. /\ new \in Seq(Line) /\ Len(new) = n + 1 /\ new[n + 1] = line
        /\ \A i \in 1..n : new[i] = lines[i]
    BY <1>1, <2>1, <2>2
  <2>4. QED
    BY <1>5, <2>2, <2>3 DEF new, cell, Grown
<1>6. QED
  BY <1>3, <1>4, <1>5

\* Rows of the snapshot.
LEMMA JoinedRows ==
    ASSUME TypeOK, Identified
    PROVE  /\ Joined \subseteq [rec : Record, param : Param]
           /\ \A x \in Joined : /\ x.rec \in stored /\ x.param \in x.rec.params
                                /\ x.rec.time \in Interval
           /\ \A r \in stored, p \in Param : r.time \in Interval /\ p \in r.params =>
                 [rec |-> r, param |-> p] \in Joined
<1>1. \A r \in stored : r \in Record /\ r.params \subseteq Param
  BY DEF TypeOK, Record
<1>2. ASSUME NEW x \in Joined
      PROVE  \E r \in stored : /\ r.time \in Interval
                               /\ \E p \in r.params : x = [rec |-> r, param |-> p]
  BY DEF Joined
<1>3. ASSUME NEW r \in stored, NEW p \in Param, r.time \in Interval, p \in r.params
      PROVE  [rec |-> r, param |-> p] \in Joined
  BY <1>3 DEF Joined
<1>4. QED
  BY <1>1, <1>2, <1>3

LEMMA StreamedStep ==
    ASSUME TypeOK, Identified, Streamed, LinePerRecord, Next
    PROVE  Streamed' /\ LinePerRecord'
<1> USE DEF Streamed, LinePerRecord
<1>1. CASE OpenRows
  <2>1. rows' = Joined /\ csv' = <<>> /\ rpc' = "stream"
    BY <1>1 DEF OpenRows
  <2>2. rows' \subseteq [rec : Record, param : Param]
    BY <2>1, JoinedRows
  <2>3. \A x, y \in rows' : x.rec.id = y.rec.id => x.rec = y.rec
    BY <2>1, JoinedRows DEF Identified
  <2>4. QED
    BY <2>1, <2>2, <2>3
<1>2. ASSUME NEW row \in rows, NextRow(row) PROVE Streamed' /\ LinePerRecord'
  <2> DEFINE n == Len(csv)
  <2>1. /\ rows' = rows \ {row} /\ csv' = AddRow(csv, row) /\ rpc = "stream" /\ rpc' = "stream"
        /\ \A x \in rows : ~ Precedes(x.rec, row.rec)
    BY <1>2 DEF NextRow
  <2>2. /\ csv' \in Seq([id : Nat, cells : SUBSET Param])
        /\ \A i \in 1..n : csv'[i].id = csv[i].id
        /\ \/ csv' = csv
           \/ n # 0 /\ Len(csv') = n /\ csv[n].id = row.rec.id
           \/ /\ Len(csv') = n + 1 /\ (n # 0 => csv[n].id # row.rec.id)
              /\ csv'[n + 1].id = row.rec.id
    <3>1. csv \in Seq([id : Nat, cells : SUBSET Param]) /\ row \in [rec : Record, param : Param]
      OBVIOUS
    <3> HIDE DEF Streamed, LinePerRecord
    <3>2. PICK lines, new : lines = csv /\ new = csv'
      OBVIOUS
    <3>3. Grown(lines, row, new)
      BY <2>1, <3>1, <3>2, RowAdded
    <3>4. QED
      BY <3>2, <3>3 DEF Grown
  <2>3. /\ n \in Nat /\ DOMAIN csv = 1..n /\ DOMAIN csv' = 1..Len(csv') /\ Len(csv') \in Nat
    BY <2>2
  <2>4. \A x \in rows : /\ x.rec.id \in Nat /\ x.rec.time \in Nat
    BY ViewAssumption DEF Record, ViewAssumption
  <2>5. CASE csv' = csv
    BY <2>1, <2>5
  <2>6. CASE n # 0 /\ Len(csv') = n /\ csv[n].id = row.rec.id
    <3>1. \A x \in rows', i \in DOMAIN csv' : x.rec.id = csv'[i].id =>
             i = Len(csv') /\ \A y \in rows' : ~ Precedes(y.rec, x.rec)
      BY <2>1, <2>2, <2>3, <2>6
    <3>2. LinePerRecord'
      BY <2>2, <2>3, <2>6
    <3>3. QED
      BY <2>1, <2>2, <3>1, <3>2
  <2>7. CASE /\ Len(csv') = n + 1 /\ (n # 0 => csv[n].id # row.rec.id)
             /\ csv'[n + 1].id = row.rec.id
    <3>1. \A i \in 1..n : row.rec.id # csv[i].id
      BY <2>3, <2>7
    <3>2. ASSUME NEW x \in rows', NEW i \in 1..n, x.rec.id = csv[i].id PROVE FALSE
      <4>1. ~ Precedes(row.rec, x.rec) /\ ~ Precedes(x.rec, row.rec)
        BY <2>1, <2>3, <3>2
      <4>2. x.rec.id = row.rec.id
        BY <2>1, <2>4, <4>1 DEF Precedes
      <4>3. QED
        BY <3>1, <3>2, <4>2
    <3>3. ASSUME NEW x \in rows', x.rec.id = row.rec.id
          PROVE  \A y \in rows' : ~ Precedes(y.rec, x.rec)
      BY <2>1, <3>3
    <3>4. ASSUME NEW x \in rows', NEW i \in 1..(n + 1), x.rec.id = csv'[i].id
          PROVE  i = n + 1 /\ \A y \in rows' : ~ Precedes(y.rec, x.rec)
      <4>1. CASE i \in 1..n
        BY <2>2, <3>2, <3>4, <4>1
      <4>2. CASE i = n + 1
        BY <2>7, <3>3, <3>4, <4>2
      <4>3. QED
        BY <2>3, <4>1, <4>2
    <3>5. ASSUME NEW i \in 1..(n + 1), NEW j \in 1..(n + 1), csv'[i].id = csv'[j].id
          PROVE  i = j
      <4>1. CASE i \in 1..n /\ j \in 1..n
        BY <2>2, <2>3, <3>5, <4>1
      <4>2. CASE i \in 1..n /\ j = n + 1
        BY <2>2, <2>7, <3>1, <3>5, <4>2
      <4>3. CASE i = n + 1 /\ j \in 1..n
        BY <2>2, <2>7, <3>1, <3>5, <4>3
      <4>4. QED
        BY <2>3, <4>1, <4>2, <4>3
    <3>6. DOMAIN csv' = 1..(n + 1)
      BY <2>3, <2>7
    <3>7. QED
      BY <2>1, <2>2, <2>7, <3>4, <3>5, <3>6
  <2>8. QED
    BY <2>2, <2>5, <2>6, <2>7
<1>3. CASE rows' = {} /\ csv' = <<>>
  BY <1>3
<1>4. CASE UNCHANGED <<rows, csv>> /\ (rpc' # "stream" => rpc # "stream")
  BY <1>4
<1>5. QED
  BY <1>1, <1>2, <1>3, <1>4 DEF Next, DataStep, ClientStep, DrawRecord, CommitRecord,
     RollbackRecord, DeleteTelemetry, SetParameter, RemoveParameter, Refresh, NextPage,
     PreviousPage, Ask, RequestFails, ReadEntries, ReadValues, ReadNames, RespondRecords,
     Display, BeginExport, ReadEnabled, ReadStoredNames, LeaveExport, exportVars
\* A value that is due stays stored, as long as it is due.
LEMMA DueStored ==
    ASSUME TypeOK, Identified, Exported, Next, NEW v \in due'
    PROVE  /\ v.param \notin Hidden
           /\ \E r \in stored' : r.id = v.id /\ v.param \in r.params /\ r.time \in Interval
<1>1. CASE BeginExport
  <2>1. UNCHANGED stored
    BY <1>1 DEF BeginExport, dataVars
  <2>2. PICK x \in Joined : v = [id |-> x.rec.id, param |-> x.param] /\ x.param \notin Hidden
    BY <1>1 DEF BeginExport
  <2>3. QED
    BY <2>1, <2>2, JoinedRows
<1>2. ASSUME NEW S \in SUBSET stored \ {{}}, DeleteTelemetry(S)
      PROVE  /\ v.param \notin Hidden
             /\ \E r \in stored' : r.id = v.id /\ v.param \in r.params /\ r.time \in Interval
  <2>1. v \in due /\ v.id \notin Ids(S) /\ stored' = stored \ S
    BY <1>2 DEF DeleteTelemetry
  <2>2. PICK r \in stored : r.id = v.id /\ v.param \in r.params /\ r.time \in Interval
    BY <2>1 DEF Exported
  <2>3. r \notin S
    BY <2>1, <2>2 DEF Ids
  <2>4. QED
    BY <2>1, <2>2, <2>3 DEF Exported
<1>3. CASE stored \subseteq stored' /\ due' \subseteq due
  BY <1>3 DEF Exported
<1>4. QED
  BY <1>1, <1>2, <1>3 DEF Next, DataStep, ClientStep, DrawRecord, CommitRecord,
     RollbackRecord, SetParameter, RemoveParameter, Refresh, NextPage, PreviousPage, Ask,
     RequestFails, ReadEntries, ReadValues, ReadNames, RespondRecords, Display, ReadEnabled,
     ReadStoredNames, OpenRows, NextRow, LeaveExport, dataVars, exportVars

LEMMA ExportedStep ==
    ASSUME TypeOK, Identified, Streamed, Exported, Next
    PROVE  Exported'
<1>1. rpc' \notin {"header", "header2", "rows", "stream"} => due' = {}
  BY DEF Exported, Next, DataStep, ClientStep, DrawRecord, CommitRecord,
     RollbackRecord, DeleteTelemetry, SetParameter, RemoveParameter, Refresh, NextPage,
     PreviousPage, Ask, RequestFails, ReadEntries, ReadValues, ReadNames, RespondRecords,
     Display, BeginExport, ReadEnabled, ReadStoredNames, OpenRows, NextRow, LeaveExport,
     exportVars
<1> SUFFICES ASSUME NEW v \in due'
             PROVE  /\ rpc' \in {"rows", "stream"} => v.param \in columns'
                    /\ rpc' = "stream" =>
                          \/ \E x \in rows' : x.rec.id = v.id /\ x.param = v.param
                          \/ \E i \in DOMAIN csv' : csv'[i].id = v.id /\ v.param \in csv'[i].cells
  BY <1>1, DueStored DEF Exported
<1>2. CASE ReadStoredNames
  <2>1. v \in due /\ rpc' = "rows" /\ columns' = (columns \cup StoredParams) \ Hidden
    BY <1>2 DEF ReadStoredNames, exportVars
  <2>2. v.param \notin Hidden /\ \E r \in stored : v.param \in r.params
    BY <2>1 DEF Exported
  <2>3. QED
    BY <2>1, <2>2 DEF StoredParams
<1>3. CASE OpenRows
  <2>1. v \in due /\ rpc = "rows" /\ rows' = Joined /\ UNCHANGED columns
    BY <1>3 DEF OpenRows
  <2>2. PICK r \in stored : r.id = v.id /\ v.param \in r.params /\ r.time \in Interval
    BY <2>1 DEF Exported
  <2>3. v.param \in Param
    BY <2>2 DEF TypeOK, Record
  <2>4. [rec |-> r, param |-> v.param] \in rows'
    BY <2>1, <2>2, <2>3, JoinedRows
  <2>5. \E x \in rows' : x.rec.id = v.id /\ x.param = v.param
    BY <2>2, <2>4
  <2>6. QED
    BY <2>1, <2>5 DEF Exported
<1>4. ASSUME NEW row \in rows, NextRow(row)
      PROVE  /\ rpc' \in {"rows", "stream"} => v.param \in columns'
             /\ rpc' = "stream" =>
                   \/ \E x \in rows' : x.rec.id = v.id /\ x.param = v.param
                   \/ \E i \in DOMAIN csv' : csv'[i].id = v.id /\ v.param \in csv'[i].cells
  <2> DEFINE n == Len(csv)
  <2>1. /\ rpc = "stream" /\ rows' = rows \ {row} /\ csv' = AddRow(csv, row)
        /\ UNCHANGED <<columns, due>>
    BY <1>4 DEF NextRow
  <2>2. v \in due /\ v.param \in columns /\ v.param \notin Hidden
    BY <2>1 DEF Exported
  <2>3. csv \in Seq([id : Nat, cells : SUBSET Param]) /\ row \in [rec : Record, param : Param]
    BY DEF Streamed
  <2>4. /\ csv' \in Seq([id : Nat, cells : SUBSET Param])
        /\ \A i \in 1..n : csv'[i].id = csv[i].id /\ csv[i].cells \subseteq csv'[i].cells
        /\ \/ row.param \in Hidden /\ csv' = csv
           \/ /\ n # 0 /\ Len(csv') = n /\ csv[n].id = row.rec.id
              /\ {row.param} \cap columns \subseteq csv'[n].cells
           \/ /\ Len(csv') = n + 1 /\ csv'[n + 1].id = row.rec.id
              /\ {row.param} \cap columns \subseteq csv'[n + 1].cells
    <3>1. PICK lines, new : lines = csv /\ new = csv'
      OBVIOUS
    <3>2. Grown(lines, row, new)
      BY <2>1, <2>3, <3>1, RowAdded
    <3>3. QED
      BY <3>1, <3>2 DEF Grown
  <2>5. n \in Nat /\ DOMAIN csv = 1..n /\ DOMAIN csv' = 1..Len(csv') /\ Len(csv') \in Nat
    BY <2>3, <2>4
  <2>6. DOMAIN csv \subseteq DOMAIN csv'
    <3>1. Len(csv') = n \/ Len(csv') = n + 1
      BY <2>4
    <3>2. 1..n \subseteq 1..Len(csv')
      <4>1. \A m, k \in Nat : k = m \/ k = m + 1 => 1..m \subseteq 1..k
        OBVIOUS
      <4>2. n \in Nat /\ Len(csv') \in Nat
        BY <2>5
      <4>3. QED
        BY <3>1, <4>1, <4>2
    <3>3. QED
      BY <2>5, <3>2
  <2>7. CASE row.rec.id = v.id /\ row.param = v.param
    <3>1. v.param \in {row.param} \cap columns /\ row.param \notin Hidden
      BY <2>2, <2>7
    <3>2. CASE n # 0 /\ Len(csv') = n /\ csv[n].id = row.rec.id
               /\ {row.param} \cap columns \subseteq csv'[n].cells
      <4> HIDE DEF n
      <4>1. n \in 1..n /\ csv'[n].id = v.id /\ v.param \in csv'[n].cells
        BY <2>4, <2>5, <2>7, <3>1, <3>2
      <4>2. QED
        BY <2>1, <2>2, <2>5, <2>6, <4>1
    <3>3. CASE Len(csv') = n + 1 /\ csv'[n + 1].id = row.rec.id
               /\ {row.param} \cap columns \subseteq csv'[n + 1].cells
      <4>1. n + 1 \in DOMAIN csv' /\ csv'[n + 1].id = v.id /\ v.param \in csv'[n + 1].cells
        BY <2>5, <2>7, <3>1, <3>3
      <4>2. QED
        BY <2>1, <2>2, <4>1
    <3>4. QED
      BY <2>4, <3>1, <3>2, <3>3
  <2>8. CASE \E x \in rows : x.rec.id = v.id /\ x.param = v.param /\ x # row
    BY <2>1, <2>2, <2>8
  <2>9. CASE \E i \in DOMAIN csv : csv[i].id = v.id /\ v.param \in csv[i].cells
    <3>1. PICK i \in DOMAIN csv : csv[i].id = v.id /\ v.param \in csv[i].cells
      BY <2>9
    <3>2. i \in DOMAIN csv' /\ csv'[i].id = v.id /\ v.param \in csv'[i].cells
      BY <2>4, <2>5, <2>6, <3>1
    <3>3. QED
      BY <2>1, <2>2, <3>2
  <2>10. QED
    BY <2>1, <2>2, <2>7, <2>8, <2>9 DEF Exported
<1>5. CASE rpc' \notin {"rows", "stream"}
  BY <1>5
<1>6. CASE UNCHANGED <<rpc, columns, rows, csv>> /\ due' \subseteq due
  BY <1>6 DEF Exported
<1>7. QED
  BY <1>2, <1>3, <1>4, <1>5, <1>6 DEF Next, DataStep, ClientStep, DrawRecord, CommitRecord,
     RollbackRecord, DeleteTelemetry, SetParameter, RemoveParameter, Refresh, NextPage,
     PreviousPage, Ask, RequestFails, ReadEntries, ReadValues, ReadNames, RespondRecords,
     Display, BeginExport, ReadEnabled, LeaveExport, exportVars

-----------------------------------------------------------------------------
(* Paging                                                                   *)

\* The records of a request are the newest below its cursor.
LEMMA EntriesRead ==
    ASSUME TypeOK, Identified, Traversed, ReadEntries, NEW i \in owed \ seen, i \notin Ids(entries')
    PROVE  Limit < Cardinality(entries') /\ \A r \in entries' : i < r.id
<1> DEFINE S == {r \in stored : cursor # 0 => r.id < cursor}
<1>1. entries' = Newest(S, Limit + 1)
  BY DEF ReadEntries
<1>2. PICK r \in S : r.id = i
  BY DEF TypeOK, Traversed, Ids
<1>3. r \notin entries'
  BY <1>2 DEF Ids
<1>4. IsFiniteSet(S)
  BY FS_Subset DEF Identified
<1>5. \A q \in S : q.id \in Nat
  BY DEF TypeOK, Record
<1>6. \A q, s \in S : q.id = s.id => q = s
  BY DEF Identified
<1>7. Limit \in Nat /\ Limit + 1 \in Nat
  BY ViewAssumption DEF ViewAssumption
<1> HIDE DEF S
<1>8. Limit + 1 <= Cardinality(Newest(S, Limit + 1)) /\ \A s \in Newest(S, Limit + 1) : r.id < s.id
  BY <1>1, <1>2, <1>3, <1>4, <1>5, <1>6, <1>7, NewestFull
<1>9. Cardinality(Newest(S, Limit + 1)) \in Nat
  BY <1>4, PageSubset, FS_Subset, FS_CardinalityType
<1>10. QED
  BY <1>1, <1>2, <1>7, <1>8, <1>9

\* What is displayed, and the cursor that is offered, leave nothing out.
LEMMA Displayed ==
    ASSUME Shown = Limit, TypeOK, Identified, Traversed, RespondRecords,
           NEW i \in owed \ seen, i \notin DOMAIN page
    PROVE  i < nextCursor'
<1>1. rpc = "distinct" /\ nextCursor' = Continue
  BY DEF RespondRecords, Display
<1>2. DOMAIN page = Ids(Newest(entries, Limit))
  BY <1>1 DEF Traversed
<1>3. i \notin Ids(entries) => Limit < Cardinality(entries) /\ \A r \in entries : i < r.id
  BY <1>1 DEF Traversed
<1>4. IsFiniteSet(entries) /\ Cardinality(entries) \in Nat /\ Limit \in Nat
  BY ViewAssumption, FS_CardinalityType DEF Identified, ViewAssumption
<1>5. \A r \in entries : r.id \in Nat
  BY DEF TypeOK, Record
<1>6. Limit < Cardinality(entries)
  <2>1. SUFFICES ASSUME Cardinality(entries) <= Limit PROVE FALSE
    BY <1>4
  <2>2. Newest(entries, Limit) = entries
    BY <1>4, <1>5, <2>1, NewestAll
  <2>3. QED
    BY <1>2, <1>3, <1>4, <2>1, <2>2
<1>7. /\ Continue \in Ids(entries)
      /\ Ids(Newest(entries, Limit)) = {j \in Ids(entries) : j >= Continue}
  BY <1>4, <1>6, ContinueType, ViewAssumption
<1>8. Continue \in Nat /\ i \in Nat
  BY <1>5, <1>7 DEF Ids, TypeOK, Record
<1>9. CASE i \in Ids(entries)
  BY <1>1, <1>2, <1>7, <1>8, <1>9
<1>10. CASE i \notin Ids(entries)
  BY <1>1, <1>3, <1>7, <1>10 DEF Ids
<1>11. QED
  BY <1>9, <1>10

LEMMA TraversedStep ==
    ASSUME Shown = Limit, TypeOK, Identified, Descending, Traversed, Next
    PROVE  Traversed'
<1>1. rpc' \in {"names", "distinct"} => DOMAIN page' = Ids(Newest(entries', Shown))
  <2>1. CASE ReadValues
    BY <2>1 DEF ReadValues
  <2>2. CASE rpc' \notin {"names", "distinct"}
    BY <2>2
  <2>3. CASE rpc \in {"names", "distinct"} /\ UNCHANGED <<page, entries>>
    BY <2>3 DEF Traversed
  <2>4. QED
    BY <2>1, <2>2, <2>3 DEF Next, DataStep, ClientStep, DrawRecord, CommitRecord,
       RollbackRecord, DeleteTelemetry, SetParameter, RemoveParameter, Refresh, NextPage,
       PreviousPage, Ask, RequestFails, ReadEntries, ReadNames, RespondRecords, Display,
       BeginExport, ReadEnabled, ReadStoredNames, OpenRows, NextRow, LeaveExport, pageVars
<1> SUFFICES ASSUME NEW i \in owed' \ seen'
             PROVE  /\ cursor' # 0 => i < cursor'
                    /\ rpc' = "page" => i < nextCursor'
                    /\ rpc' \in {"values", "names", "distinct"} /\ i \notin Ids(entries') =>
                          Limit < Cardinality(entries') /\ \A r \in entries' : i < r.id
  BY <1>1 DEF Traversed
<1>2. CASE NextPage
  BY <1>2 DEF NextPage, Ask, Traversed
<1>3. CASE PreviousPage
  <2>1. /\ i \in owed \ seen /\ rpc' = "entries"
        /\ cursor' = Last(history) /\ history # <<>> /\ history' = Front(history)
    BY <1>3 DEF PreviousPage, Ask
  <2>2. cursor # 0 /\ i < cursor
    BY <2>1 DEF Traversed, TypeOK
  <2>3. cursor' # 0 => cursor < cursor'
    <3>1. /\ cursor' = history[Len(history)] /\ Len(history) \in Nat \ {0}
          /\ DOMAIN history = 1..Len(history)
      BY <2>1, Popped DEF TypeOK
    <3>2. CASE Len(history) = 1
      BY <3>1, <3>2 DEF TypeOK
    <3>3. CASE Len(history) # 1
      BY <3>1, <3>3 DEF TypeOK
    <3>4. QED
      BY <3>2, <3>3
  <2>4. i \in Nat /\ cursor \in Nat /\ cursor' \in Nat
    BY <2>1, StackStep DEF TypeOK, Ids, Record, Stack
  <2>5. QED
    BY <2>1, <2>2, <2>3, <2>4
<1>4. CASE ReadEntries
  <2>1. i \in owed \ seen /\ UNCHANGED cursor /\ rpc' = "values"
    BY <1>4 DEF ReadEntries
  <2>2. QED
    BY <1>4, <2>1, EntriesRead DEF Traversed
<1>5. CASE RespondRecords
  <2>1. i \in owed \ seen /\ i \notin DOMAIN page /\ UNCHANGED cursor /\ rpc' = "page"
    BY <1>5 DEF RespondRecords, Display
  <2>2. QED
    BY <1>5, <2>1, Displayed DEF Traversed
<1>6. CASE cursor' = 0 /\ rpc' \notin {"page", "values", "names", "distinct"}
  BY <1>6
<1>7. CASE /\ i \in owed \ seen /\ UNCHANGED cursor
           /\ rpc' \notin {"page", "values", "names", "distinct"}
  BY <1>7 DEF Traversed
<1>8. CASE /\ i \in owed \ seen /\ UNCHANGED <<cursor, nextCursor, entries>>
           /\ rpc' = "page" => rpc = "page"
           /\ rpc' \in {"values", "names", "distinct"} => rpc \in {"values", "names", "distinct"}
  BY <1>8 DEF Traversed
<1>9. CASE LeaveExport
  BY <1>9 DEF LeaveExport, Descending
<1>10. QED
  BY <1>2, <1>3, <1>4, <1>5, <1>6, <1>7, <1>8, <1>9 DEF Next, DataStep, ClientStep,
     DrawRecord, CommitRecord, RollbackRecord, DeleteTelemetry, SetParameter, RemoveParameter,
     Refresh, Ask, RequestFails, ReadValues, ReadNames, BeginExport, ReadEnabled,
     ReadStoredNames, OpenRows, NextRow, pageVars

-----------------------------------------------------------------------------
LEMMA ViewInit == Init => ViewInv /\ Traversed
<1> SUFFICES ASSUME Init PROVE ViewInv /\ Traversed
  OBVIOUS
<1> USE DEF Init
<1>1. TypeOK
  BY ViewAssumption DEF TypeOK, ViewAssumption, Ids
<1>2. Identified /\ Descending
  BY FS_EmptySet DEF Identified, Descending
<1>3. PageKept /\ PageFaithful /\ Traversed
  BY DEF PageKept, PageFaithful, Traversed
<1>4. Exported /\ Streamed /\ LinePerRecord
  BY DEF Exported, Streamed, LinePerRecord
<1>5. QED
  BY <1>1, <1>2, <1>3, <1>4 DEF ViewInv

\* A stutter changes none of it.
LEMMA ViewStutter ==
    ASSUME UNCHANGED vars
    PROVE  (ViewInv => ViewInv') /\ (Traversed => Traversed')
<1> USE DEF vars, dataVars, pageVars, exportVars
<1>1. ViewInv => TypeOK' /\ Identified' /\ Descending'
  BY DEF ViewInv, TypeOK, Identified, Descending, Ids
<1>2. ViewInv => PageKept' /\ PageFaithful' /\ Exported' /\ Streamed' /\ LinePerRecord'
  BY DEF ViewInv, PageKept, PageFaithful, Exported, Streamed, LinePerRecord
<1>3. Traversed => Traversed'
  BY DEF Traversed, Ids, Newest
<1>4. QED
  BY <1>1, <1>2, <1>3 DEF ViewInv

LEMMA ViewStep == ViewInv /\ [Next]_vars => ViewInv'
<1> SUFFICES ASSUME ViewInv, Next PROVE ViewInv'
  BY ViewStutter
<1>1. TypeOK' /\ Identified' /\ Descending'
  BY TypeStep, RecordsStep, DescendingStep DEF ViewInv
<1>2. PageKept' /\ PageFaithful'
  BY PageKeptStep, PageFaithfulStep DEF ViewInv
<1>3. Exported' /\ Streamed' /\ LinePerRecord'
  BY ExportedStep, StreamedStep DEF ViewInv
<1>4. QED
  BY <1>1, <1>2, <1>3 DEF ViewInv

\* Whatever the client displays: types, the descent of the cursors, and what
\* pages and files contain (api.py:345-451, app.js renderData).
THEOREM ViewInvariance == Spec => []ViewInv
  BY ViewInit, ViewStep, PTL DEF Spec

\* The dashboard's page shows stored records whole and with all their columns,
\* although api.py:414-451 reads them in four statements.
THEOREM PagesFaithful == Spec => []PageFaithful
<1>1. ViewInv => PageFaithful
  BY DEF ViewInv
<1>2. QED
  BY <1>1, ViewInvariance, PTL

\* The file holds every value that was stored when the export began and is not
\* deleted, of disabled and removed parameters as well (api.py:345-412).
THEOREM ExportComplete == Spec => []HistoryExported
<1>1. ViewInv => HistoryExported
  BY DEF ViewInv, Exported, HistoryExported
<1>2. QED
  BY <1>1, ViewInvariance, PTL

\* A record has one line in the file: rows are grouped while they are streamed,
\* which is right because of their order (api.py:375-403).
THEOREM LinesWhole == Spec => []LinePerRecord
<1>1. ViewInv => LinePerRecord
  BY DEF ViewInv
<1>2. QED
  BY <1>1, ViewInvariance, PTL

\* The invariant of a client that displays as many records as it asks for.
THEOREM PagingInvariance == Shown = Limit /\ Spec => []PagingInv
<1> SUFFICES ASSUME Shown = Limit PROVE Spec => []PagingInv
  OBVIOUS
<1>1. Init => PagingInv
  BY ViewInit DEF PagingInv
<1>2. PagingInv /\ [Next]_vars => PagingInv'
  BY ViewStep, ViewStutter, TraversedStep DEF PagingInv, ViewInv
<1>3. QED
  BY <1>1, <1>2, PTL DEF Spec

\* Such a client misses nothing by paging to the end, forth and back, while
\* records are committed out of order and deleted (api.py:414-451).
THEOREM PagingComplete == Shown = Limit /\ Spec => []PagesComplete
<1>1. PagingInv => PagesComplete
  <2> SUFFICES ASSUME PagingInv, rpc = "page", nextCursor = 0, NEW i \in owed, i \notin seen
               PROVE  FALSE
    BY DEF PagesComplete
  <2>1. i < nextCursor
    BY DEF PagingInv, Traversed
  <2>2. i \in Nat
    BY DEF PagingInv, ViewInv, TypeOK, Ids, Record
  <2>3. QED
    BY <2>1, <2>2
<1>2. QED
  BY <1>1, PagingInvariance, PTL
=============================================================================
