------------------------ MODULE DeviceRegistryProofs ------------------------
(***************************************************************************)
(* Proofs about DeviceRegistry, for any devices, sessions and capacity.      *)
(*                                                                          *)
(* CredentialsInv is inductive.  The locks make a registration the only      *)
(* writer of the file; removals run beside each other, but a copy one of     *)
(* them restores differs from the table only in devices being removed.       *)
(***************************************************************************)
EXTENDS DeviceRegistry, FiniteSetTheorems, TLAPS

\* Devices are finitely many.
LEMMA RegisteredFinite == IsFiniteSet(Registered) /\ Cardinality(Registered) \in Nat
<1>1. Registered \subseteq Device
  BY DEF Registered
<1>2. QED
  BY <1>1, RegistryAssumption, FS_Subset, FS_CardinalityType

\* A session about to commit is the only one that registers a device, and the
\* only one that removes the one it removes.
LEMMA CommitAlone ==
    ASSUME TypeOK, Locks, NEW a \in Session, pc[a] = "commit", NEW b \in Session \ {a}
    PROVE  /\ ~HoldsTable(b)
           /\ HoldsTable(a) => ~HoldsRow(b)
           /\ HoldsTable(a) \/ HoldsRow(a)
<1>1. HoldsTable(a) \/ HoldsRow(a)
  BY DEF TypeOK, HoldsTable, HoldsRow
<1>2. QED
  BY <1>1 DEF Locks

\* Every variable keeps its type.
LEMMA TypeStep ==
    ASSUME TypeOK, [Next]_vars
    PROVE  TypeOK'
<1> USE RegistryAssumption DEF vars, dbVars, fileVars, sessionVars, counters, NoEntries
<1>1. CASE UNCHANGED vars
  BY <1>1 DEF TypeOK
<1>2. ASSUME NEW a \in Session, NEW d \in Device, BeginAdd(a, d) PROVE TypeOK'
  BY <1>2 DEF BeginAdd, Begin, GoTo, TypeOK
<1>3. ASSUME NEW a \in Session, NEW d \in Device, BeginRemove(a, d) PROVE TypeOK'
  BY <1>3 DEF BeginRemove, Begin, GoTo, TypeOK
<1>4. ASSUME NEW a \in Session, Admit(a) PROVE TypeOK'
  BY <1>4 DEF Admit, End, GoTo, TypeOK
<1>5. ASSUME NEW a \in Session, DeleteRow(a) PROVE TypeOK'
  BY <1>5 DEF DeleteRow, GoTo, TypeOK
<1>6. ASSUME NEW a \in Session, DeleteFails(a) PROVE TypeOK'
  BY <1>6 DEF DeleteFails, End, GoTo, TypeOK
<1>7. ASSUME NEW a \in Session, ReadFile(a) PROVE TypeOK'
  BY <1>7 DEF ReadFile, GoTo, TypeOK
<1>8. ASSUME NEW a \in Session, WriteFile(a) PROVE TypeOK'
  BY <1>8 DEF WriteFile, GoTo, TypeOK
<1>9. ASSUME NEW a \in Session, PasswdFails(a) PROVE TypeOK'
  BY <1>9 DEF PasswdFails, End, GoTo, TypeOK
<1>10. ASSUME NEW a \in Session, Commit(a) PROVE TypeOK'
  BY <1>10 DEF Commit, End, GoTo, TypeOK
<1>11. ASSUME NEW a \in Session, Crash(a) PROVE TypeOK'
  BY <1>11 DEF Crash, End, GoTo, TypeOK
<1>12. CASE Provision
  BY <1>12 DEF Provision, TypeOK
<1>13. QED
  BY <1>1, <1>2, <1>3, <1>4, <1>5, <1>6, <1>7, <1>8, <1>9, <1>10, <1>11, <1>12 DEF Next, Step

\* LOCK TABLE and the row locks exclude what they should.
LEMMA LocksStep ==
    ASSUME TypeOK, Locks, [Next]_vars
    PROVE  Locks'
<1> USE RegistryAssumption DEF vars, dbVars, fileVars, sessionVars, counters
<1>1. CASE UNCHANGED vars
  BY <1>1 DEF TypeOK, Locks, HoldsTable, HoldsRow
<1>2. ASSUME NEW a \in Session, NEW d \in Device, BeginAdd(a, d) PROVE Locks'
  BY <1>2 DEF BeginAdd, Begin, GoTo, TypeOK, Locks, HoldsTable, HoldsRow
<1>3. ASSUME NEW a \in Session, NEW d \in Device, BeginRemove(a, d) PROVE Locks'
  BY <1>3 DEF BeginRemove, Begin, GoTo, TypeOK, Locks, HoldsTable, HoldsRow
<1>4. ASSUME NEW a \in Session, Admit(a) PROVE Locks'
  BY <1>4 DEF Admit, End, GoTo, TypeOK, Locks, HoldsTable, HoldsRow
<1>5. ASSUME NEW a \in Session, DeleteRow(a) PROVE Locks'
  BY <1>5 DEF DeleteRow, GoTo, TypeOK, Locks, HoldsTable, HoldsRow
<1>6. ASSUME NEW a \in Session, DeleteFails(a) PROVE Locks'
  BY <1>6 DEF DeleteFails, End, GoTo, TypeOK, Locks, HoldsTable, HoldsRow
<1>7. ASSUME NEW a \in Session, ReadFile(a) PROVE Locks'
  BY <1>7 DEF ReadFile, GoTo, TypeOK, Locks, HoldsTable, HoldsRow
<1>8. ASSUME NEW a \in Session, WriteFile(a) PROVE Locks'
  BY <1>8 DEF WriteFile, GoTo, TypeOK, Locks, HoldsTable, HoldsRow
<1>9. ASSUME NEW a \in Session, PasswdFails(a) PROVE Locks'
  BY <1>9 DEF PasswdFails, End, GoTo, TypeOK, Locks, HoldsTable, HoldsRow
<1>10. ASSUME NEW a \in Session, Commit(a) PROVE Locks'
  BY <1>10 DEF Commit, End, GoTo, TypeOK, Locks, HoldsTable, HoldsRow
<1>11. ASSUME NEW a \in Session, Crash(a) PROVE Locks'
  BY <1>11 DEF Crash, End, GoTo, TypeOK, Locks, HoldsTable, HoldsRow
<1>12. CASE Provision
  BY <1>12 DEF Provision, TypeOK, Locks, HoldsTable, HoldsRow
<1>13. QED
  BY <1>1, <1>2, <1>3, <1>4, <1>5, <1>6, <1>7, <1>8, <1>9, <1>10, <1>11, <1>12 DEF Next, Step

\* A session that does not hold the table, before or after, has no password.
LEMMA AdmittedApart ==
    ASSUME TypeOK, Admitted, NEW a \in Session, UNCHANGED row,
           ~HoldsTable(a)', pw' \in [Session -> Nat], pw'[a] = 0,
           \A b \in Session \ {a} : /\ HoldsTable(b)' <=> HoldsTable(b)
                                    /\ pw'[b] = pw[b] /\ dev'[b] = dev[b]
    PROVE  Admitted'
BY DEF Admitted, Registered

\* Whatever ends a request, nothing committed, is such a step.
LEMMA AdmittedEnd ==
    ASSUME TypeOK, Admitted, NEW a \in Session, UNCHANGED row, End(a)
    PROVE  Admitted'
<1>1. pc' = [pc EXCEPT ![a] = "idle"] /\ op' = [op EXCEPT ![a] = "none"]
      /\ dev' = [dev EXCEPT ![a] = None] /\ pw' = [pw EXCEPT ![a] = 0]
  BY DEF End, GoTo
<1>2. ~HoldsTable(a)' /\ \A b \in Session \ {a} : HoldsTable(b)' <=> HoldsTable(b)
  BY <1>1 DEF TypeOK, HoldsTable
<1>3. pw' \in [Session -> Nat] /\ pw'[a] = 0
      /\ \A b \in Session \ {a} : pw'[b] = pw[b] /\ dev'[b] = dev[b]
  BY <1>1 DEF TypeOK
<1>4. QED
  BY <1>2, <1>3, AdmittedApart

\* So is whatever leaves its holders the table, with device and password.
LEMMA AdmittedStays ==
    ASSUME Admitted, UNCHANGED <<row, op, dev, pw>>,
           \A b \in Session : HoldsTable(b)' <=> HoldsTable(b)
    PROVE  Admitted'
BY DEF Admitted, Registered

\* What a registration has checked stays true until it commits.
LEMMA AdmittedStep ==
    ASSUME TypeOK, Locks, Admitted, [Next]_vars
    PROVE  Admitted'
<1> USE RegistryAssumption DEF vars, dbVars, fileVars, sessionVars, counters
<1>1. CASE UNCHANGED vars
  BY <1>1 DEF TypeOK, Admitted, HoldsTable, Registered
<1>2. ASSUME NEW a \in Session, NEW d \in Device, BeginAdd(a, d) PROVE Admitted'
  <2>1. pc[a] = "idle" /\ pc'[a] \in {"lock", "delete"} /\ UNCHANGED <<row, pw>>
    BY <1>2 DEF BeginAdd, Begin, GoTo, TypeOK
  <2>2. \A b \in Session \ {a} : pc'[b] = pc[b] /\ op'[b] = op[b] /\ dev'[b] = dev[b]
    BY <1>2 DEF BeginAdd, Begin, GoTo, TypeOK
  <2>3. ~HoldsTable(a) /\ ~HoldsTable(a)' /\ \A b \in Session \ {a} : HoldsTable(b)' <=> HoldsTable(b)
    BY <2>1, <2>2 DEF HoldsTable
  <2>4. pw[a] = 0 /\ pw \in [Session -> Nat]
    BY <2>3 DEF Admitted, TypeOK
  <2>5. QED
    BY <2>1, <2>2, <2>3, <2>4, AdmittedApart
<1>3. ASSUME NEW a \in Session, NEW d \in Device, BeginRemove(a, d) PROVE Admitted'
  <2>1. pc[a] = "idle" /\ pc'[a] \in {"lock", "delete"} /\ UNCHANGED <<row, pw>>
    BY <1>3 DEF BeginRemove, Begin, GoTo, TypeOK
  <2>2. \A b \in Session \ {a} : pc'[b] = pc[b] /\ op'[b] = op[b] /\ dev'[b] = dev[b]
    BY <1>3 DEF BeginRemove, Begin, GoTo, TypeOK
  <2>3. ~HoldsTable(a) /\ ~HoldsTable(a)' /\ \A b \in Session \ {a} : HoldsTable(b)' <=> HoldsTable(b)
    BY <2>1, <2>2 DEF HoldsTable
  <2>4. pw[a] = 0 /\ pw \in [Session -> Nat]
    BY <2>3 DEF Admitted, TypeOK
  <2>5. QED
    BY <2>1, <2>2, <2>3, <2>4, AdmittedApart
<1>4. ASSUME NEW a \in Session, Admit(a) PROVE Admitted'
  <2>1. CASE row[dev[a]] # 0 \/ Cardinality(Registered) >= MaxDevices
    BY <1>4, <2>1, AdmittedEnd DEF Admit
  <2>2. CASE ~ (row[dev[a]] # 0 \/ Cardinality(Registered) >= MaxDevices)
    <3>1. Cardinality(Registered) < MaxDevices /\ UNCHANGED Registered
      BY <1>4, <2>2, RegisteredFinite DEF Admit, Registered
    <3>2. lastPw + 1 # 0
      BY DEF TypeOK
    <3>3. pw' = [pw EXCEPT ![a] = lastPw + 1] /\ pc' = [pc EXCEPT ![a] = "file"]
            /\ UNCHANGED <<row, op, dev>>
      BY <1>4, <2>2 DEF Admit, GoTo
    <3>4. pc[a] = "lock" /\ op[a] = "add" /\ row[dev[a]] = 0
      BY <1>4, <2>2 DEF Admit, TypeOK
    <3>5. QED
      BY <3>1, <3>2, <3>3, <3>4 DEF TypeOK, Admitted, HoldsTable
  <2>3. QED
    BY <2>1, <2>2
<1>5. ASSUME NEW a \in Session, DeleteRow(a) PROVE Admitted'
  <2>1. UNCHANGED <<row, op, dev, pw>>
    BY <1>5 DEF DeleteRow
  <2>2. \A b \in Session : HoldsTable(b)' <=> HoldsTable(b)
    BY <1>5 DEF DeleteRow, GoTo, TypeOK, HoldsTable
  <2>3. QED
    BY <2>1, <2>2, AdmittedStays
<1>6. ASSUME NEW a \in Session, DeleteFails(a) PROVE Admitted'
  BY <1>6, AdmittedEnd DEF DeleteFails
<1>7. ASSUME NEW a \in Session, ReadFile(a) PROVE Admitted'
  <2>1. UNCHANGED <<row, op, dev, pw>>
    BY <1>7 DEF ReadFile
  <2>2. \A b \in Session : HoldsTable(b)' <=> HoldsTable(b)
    BY <1>7 DEF ReadFile, GoTo, TypeOK, HoldsTable
  <2>3. QED
    BY <2>1, <2>2, AdmittedStays
<1>8. ASSUME NEW a \in Session, WriteFile(a) PROVE Admitted'
  <2>1. UNCHANGED <<row, op, dev, pw>>
    BY <1>8 DEF WriteFile
  <2>2. \A b \in Session : HoldsTable(b)' <=> HoldsTable(b)
    BY <1>8 DEF WriteFile, GoTo, TypeOK, HoldsTable
  <2>3. QED
    BY <2>1, <2>2, AdmittedStays
<1>9. ASSUME NEW a \in Session, PasswdFails(a) PROVE Admitted'
  BY <1>9, AdmittedEnd DEF PasswdFails
<1>10. ASSUME NEW a \in Session, Commit(a) PROVE Admitted'
  <2>1. pc[a] = "commit" /\ pw' = [pw EXCEPT ![a] = 0]
            /\ pc' = [pc EXCEPT ![a] = "idle"] /\ op' = [op EXCEPT ![a] = "none"]
    BY <1>10 DEF Commit, End, GoTo
  <2>2. \A b \in Session : ~ HoldsTable(b)' /\ (b # a => ~ HoldsTable(b))
    BY <2>1, CommitAlone DEF TypeOK, HoldsTable
  <2>3. QED
    BY <2>1, <2>2 DEF Admitted, TypeOK
<1>11. ASSUME NEW a \in Session, Crash(a) PROVE Admitted'
  BY <1>11, AdmittedEnd DEF Crash
<1>12. CASE Provision
  BY <1>12 DEF Provision, TypeOK, Admitted, HoldsTable, Registered
<1>13. QED
  BY <1>1, <1>2, <1>3, <1>4, <1>5, <1>6, <1>7, <1>8, <1>9, <1>10, <1>11, <1>12 DEF Next, Step

\* Nobody else writes the file while a registration works on it.
LEMMA FileStep ==
    ASSUME TypeOK, Locks, Admitted, FileKept, [Next]_vars
    PROVE  FileKept'
<1> USE RegistryAssumption DEF vars, dbVars, fileVars, sessionVars, counters
<1>1. CASE UNCHANGED vars
  BY <1>1 DEF TypeOK, Admitted, FileKept, Locks, HoldsTable, HoldsRow, Registered, NoEntries
<1>2. ASSUME NEW a \in Session, NEW d \in Device, BeginAdd(a, d) PROVE FileKept'
  BY <1>2 DEF BeginAdd, Begin, GoTo, TypeOK, Admitted, FileKept, Locks, HoldsTable, HoldsRow, Registered, NoEntries
<1>3. ASSUME NEW a \in Session, NEW d \in Device, BeginRemove(a, d) PROVE FileKept'
  BY <1>3 DEF BeginRemove, Begin, GoTo, TypeOK, Admitted, FileKept, Locks, HoldsTable, HoldsRow, Registered, NoEntries
<1>4. ASSUME NEW a \in Session, Admit(a) PROVE FileKept'
  BY <1>4 DEF Admit, End, GoTo, TypeOK, Admitted, FileKept, Locks, HoldsTable, HoldsRow, Registered, NoEntries
<1>5. ASSUME NEW a \in Session, DeleteRow(a) PROVE FileKept'
  BY <1>5 DEF DeleteRow, GoTo, TypeOK, Admitted, FileKept, Locks, HoldsTable, HoldsRow, Registered, NoEntries
<1>6. ASSUME NEW a \in Session, DeleteFails(a) PROVE FileKept'
  BY <1>6 DEF DeleteFails, End, GoTo, TypeOK, Admitted, FileKept, Locks, HoldsTable, HoldsRow, Registered, NoEntries
<1>7. ASSUME NEW a \in Session, ReadFile(a) PROVE FileKept'
  BY <1>7 DEF ReadFile, GoTo, TypeOK, Admitted, FileKept, Locks, HoldsTable, HoldsRow, Registered, NoEntries
<1>8. ASSUME NEW a \in Session, WriteFile(a) PROVE FileKept'
  BY <1>8 DEF WriteFile, GoTo, TypeOK, Admitted, FileKept, Locks, HoldsTable, HoldsRow, Registered, NoEntries
<1>9. ASSUME NEW a \in Session, PasswdFails(a) PROVE FileKept'
  BY <1>9 DEF PasswdFails, End, GoTo, TypeOK, Admitted, FileKept, Locks, HoldsTable, HoldsRow, Registered, NoEntries
<1>10. ASSUME NEW a \in Session, Commit(a) PROVE FileKept'
  <2>1. /\ pc[a] = "commit" /\ UNCHANGED <<fileThere, entry>>
        /\ row' = [row EXCEPT ![dev[a]] = pw[a]]
        /\ pc' = [pc EXCEPT ![a] = "idle"] /\ op' = [op EXCEPT ![a] = "none"]
        /\ dev' = [dev EXCEPT ![a] = None] /\ copy' = [copy EXCEPT ![a] = None]
    BY <1>10 DEF Commit, End, GoTo
  <2>2. ASSUME NEW b \in Session, HoldsTable(b)' PROVE FALSE
    BY <2>1, <2>2, CommitAlone DEF TypeOK, HoldsTable
  <2>3. ASSUME ~fileThere PROVE Registered' \subseteq bare'
    <3>1. copy[a] = None
      BY <2>3 DEF FileKept
    <3>2. CASE op[a] = "add"
      BY <2>1, <2>3, <3>1, <3>2, <1>10 DEF Commit, FileKept, Registered, TypeOK
    <3>3. CASE op[a] # "add"
      <4>1. pw[a] = 0
        BY <3>3 DEF Admitted, HoldsTable
      <4>2. QED
        BY <2>1, <2>3, <3>3, <4>1, <1>10 DEF Commit, FileKept, Registered, TypeOK
    <3>4. QED
      BY <3>2, <3>3
  <2>4. QED
    BY <2>1, <2>2, <2>3 DEF FileKept, TypeOK
<1>11. ASSUME NEW a \in Session, Crash(a) PROVE FileKept'
  BY <1>11 DEF Crash, End, GoTo, TypeOK, Admitted, FileKept, Locks, HoldsTable, HoldsRow, Registered, NoEntries
<1>12. CASE Provision
  BY <1>12 DEF Provision, TypeOK, Admitted, FileKept, Locks, HoldsTable, HoldsRow, Registered, NoEntries
<1>13. QED
  BY <1>1, <1>2, <1>3, <1>4, <1>5, <1>6, <1>7, <1>8, <1>9, <1>10, <1>11, <1>12 DEF Next, Step

\* A removal's copy stays good.
LEMMA CopyStep ==
    ASSUME TypeOK, Locks, Admitted, ShownPasswordWorks, CopyGood, [Next]_vars
    PROVE  CopyGood'
<1> USE RegistryAssumption DEF vars, dbVars, fileVars, sessionVars, counters
<1>1. CASE UNCHANGED vars
  BY <1>1 DEF TypeOK, CopyGood, ShownPasswordWorks, Leaving, Locks, HoldsTable, HoldsRow, Registered
<1>2. ASSUME NEW a \in Session, NEW d \in Device, BeginAdd(a, d) PROVE CopyGood'
  BY <1>2 DEF BeginAdd, Begin, GoTo, TypeOK, CopyGood, ShownPasswordWorks, Leaving, Locks, HoldsTable, HoldsRow, Registered
<1>3. ASSUME NEW a \in Session, NEW d \in Device, BeginRemove(a, d) PROVE CopyGood'
  BY <1>3 DEF BeginRemove, Begin, GoTo, TypeOK, CopyGood, ShownPasswordWorks, Leaving, Locks, HoldsTable, HoldsRow, Registered
<1>4. ASSUME NEW a \in Session, Admit(a) PROVE CopyGood'
  BY <1>4 DEF Admit, End, GoTo, TypeOK, CopyGood, ShownPasswordWorks, Leaving, Locks, HoldsTable, HoldsRow, Registered
<1>5. ASSUME NEW a \in Session, DeleteRow(a) PROVE CopyGood'
  BY <1>5 DEF DeleteRow, GoTo, TypeOK, CopyGood, ShownPasswordWorks, Leaving, Locks, HoldsTable, HoldsRow, Registered
<1>6. ASSUME NEW a \in Session, DeleteFails(a) PROVE CopyGood'
  BY <1>6 DEF DeleteFails, End, GoTo, TypeOK, CopyGood, ShownPasswordWorks, Leaving, Locks, HoldsTable, HoldsRow, Registered
<1>7. ASSUME NEW a \in Session, ReadFile(a) PROVE CopyGood'
  BY <1>7 DEF ReadFile, GoTo, TypeOK, CopyGood, ShownPasswordWorks, Leaving, Locks, HoldsTable, HoldsRow, Registered
<1>8. ASSUME NEW a \in Session, WriteFile(a) PROVE CopyGood'
  BY <1>8 DEF WriteFile, GoTo, TypeOK, CopyGood, ShownPasswordWorks, Leaving, Locks, HoldsTable, HoldsRow, Registered
<1>9. ASSUME NEW a \in Session, PasswdFails(a) PROVE CopyGood'
  BY <1>9 DEF PasswdFails, End, GoTo, TypeOK, CopyGood, ShownPasswordWorks, Leaving, Locks, HoldsTable, HoldsRow, Registered
<1>10. ASSUME NEW a \in Session, Commit(a) PROVE CopyGood'
  <2>1. /\ pc[a] = "commit" /\ UNCHANGED <<entry, crashes>>
        /\ row' = [row EXCEPT ![dev[a]] = pw[a]] /\ dev[a] \in Device
        /\ pc' = [pc EXCEPT ![a] = "idle"] /\ op' = [op EXCEPT ![a] = "none"]
        /\ dev' = [dev EXCEPT ![a] = None] /\ copy' = [copy EXCEPT ![a] = None]
        /\ bare' = IF op[a] = "add" /\ copy[a] = None THEN bare \cup {dev[a]} ELSE bare \ {dev[a]}
    BY <1>10 DEF Commit, End, GoTo, TypeOK
  <2>2. \A d \in Device \ {dev[a]} : /\ d \in Registered' \ bare' <=> d \in Registered \ bare
                                     /\ row'[d] = row[d] /\ (Leaving(d) => Leaving(d)')
    BY <2>1 DEF Registered, Leaving, TypeOK
  <2>3. ASSUME crashes = 0, NEW b \in Session, HoldsRow(b)', pc'[b] = "write",
               NEW d \in Registered' \ bare'
        PROVE  copy'[b][d] = row'[d] \/ Leaving(d)'
    <3>1. b # a /\ HoldsRow(b) /\ pc[b] = "write" /\ copy'[b] = copy[b]
      BY <2>1, <2>3 DEF HoldsRow, TypeOK
    <3>2. HoldsRow(a) /\ ~HoldsTable(a)
      BY <2>1, <3>1, CommitAlone
    <3>3. d \in Device \ {dev[a]}
      BY <2>1, <2>3, <3>2 DEF Admitted, Registered, TypeOK
    <3>4. QED
      BY <2>2, <2>3, <3>1, <3>3 DEF CopyGood
  <2>4. QED
    BY <2>1, <2>3 DEF CopyGood
<1>11. ASSUME NEW a \in Session, Crash(a) PROVE CopyGood'
  BY <1>11 DEF Crash, End, GoTo, TypeOK, CopyGood, ShownPasswordWorks, Leaving, Locks, HoldsTable, HoldsRow, Registered
<1>12. CASE Provision
  BY <1>12 DEF Provision, TypeOK, CopyGood, ShownPasswordWorks, Leaving, Locks, HoldsTable, HoldsRow, Registered
<1>13. QED
  BY <1>1, <1>2, <1>3, <1>4, <1>5, <1>6, <1>7, <1>8, <1>9, <1>10, <1>11, <1>12 DEF Next, Step

\* So what it writes back is.
LEMMA ShownStep ==
    ASSUME TypeOK, Locks, Admitted, FileKept, CopyGood, ShownPasswordWorks, [Next]_vars
    PROVE  ShownPasswordWorks'
<1> USE RegistryAssumption DEF vars, dbVars, fileVars, sessionVars, counters
<1>1. CASE UNCHANGED vars
  BY <1>1 DEF TypeOK, FileKept, CopyGood, ShownPasswordWorks, Admitted, Leaving, Locks, HoldsTable, HoldsRow, Registered
<1>2. ASSUME NEW a \in Session, NEW d \in Device, BeginAdd(a, d) PROVE ShownPasswordWorks'
  BY <1>2 DEF BeginAdd, Begin, GoTo, TypeOK, FileKept, CopyGood, ShownPasswordWorks, Admitted, Leaving, Locks, HoldsTable, HoldsRow, Registered
<1>3. ASSUME NEW a \in Session, NEW d \in Device, BeginRemove(a, d) PROVE ShownPasswordWorks'
  BY <1>3 DEF BeginRemove, Begin, GoTo, TypeOK, FileKept, CopyGood, ShownPasswordWorks, Admitted, Leaving, Locks, HoldsTable, HoldsRow, Registered
<1>4. ASSUME NEW a \in Session, Admit(a) PROVE ShownPasswordWorks'
  BY <1>4 DEF Admit, End, GoTo, TypeOK, FileKept, CopyGood, ShownPasswordWorks, Admitted, Leaving, Locks, HoldsTable, HoldsRow, Registered
<1>5. ASSUME NEW a \in Session, DeleteRow(a) PROVE ShownPasswordWorks'
  BY <1>5 DEF DeleteRow, GoTo, TypeOK, FileKept, CopyGood, ShownPasswordWorks, Admitted, Leaving, Locks, HoldsTable, HoldsRow, Registered
<1>6. ASSUME NEW a \in Session, DeleteFails(a) PROVE ShownPasswordWorks'
  BY <1>6 DEF DeleteFails, End, GoTo, TypeOK, FileKept, CopyGood, ShownPasswordWorks, Admitted, Leaving, Locks, HoldsTable, HoldsRow, Registered
<1>7. ASSUME NEW a \in Session, ReadFile(a) PROVE ShownPasswordWorks'
  BY <1>7 DEF ReadFile, GoTo, TypeOK, FileKept, CopyGood, ShownPasswordWorks, Admitted, Leaving, Locks, HoldsTable, HoldsRow, Registered
<1>8. ASSUME NEW a \in Session, WriteFile(a) PROVE ShownPasswordWorks'
  <2>1. /\ pc[a] = "write" /\ UNCHANGED <<row, bare, crashes, op, dev>>
        /\ entry' = [copy[a] EXCEPT ![dev[a]] = pw[a]] /\ copy[a] \in [Device -> Nat]
        /\ pc' = [pc EXCEPT ![a] = "commit"] /\ dev[a] \in Device
    BY <1>8 DEF WriteFile, GoTo, TypeOK
  <2>2. ASSUME crashes = 0, NEW d \in Registered \ bare PROVE entry'[d] = row[d] \/ Leaving(d)'
    <3>1. Leaving(d) => Leaving(d)'
      BY <2>1 DEF Leaving, TypeOK
    <3>2. CASE op[a] = "add"
      <4>1. copy[a] = entry /\ row[dev[a]] = 0
        BY <2>1, <3>2 DEF FileKept, Admitted, HoldsTable
      <4>2. QED
        BY <2>1, <2>2, <3>1, <4>1 DEF ShownPasswordWorks, Registered
    <3>3. CASE op[a] = "remove"
      <4>1. CASE d = dev[a]
        BY <2>1, <3>3, <4>1 DEF Leaving, TypeOK
      <4>2. CASE d # dev[a]
        BY <2>1, <2>2, <3>1, <3>3, <4>2 DEF CopyGood, HoldsRow, Registered
      <4>3. QED
        BY <4>1, <4>2
    <3>4. QED
      BY <2>1, <3>2, <3>3 DEF TypeOK
  <2>3. QED
    BY <2>1, <2>2 DEF ShownPasswordWorks, Registered
<1>9. ASSUME NEW a \in Session, PasswdFails(a) PROVE ShownPasswordWorks'
  BY <1>9 DEF PasswdFails, End, GoTo, TypeOK, FileKept, CopyGood, ShownPasswordWorks, Admitted, Leaving, Locks, HoldsTable, HoldsRow, Registered
<1>10. ASSUME NEW a \in Session, Commit(a) PROVE ShownPasswordWorks'
  <2>1. /\ pc[a] = "commit" /\ UNCHANGED <<entry, crashes>>
        /\ row' = [row EXCEPT ![dev[a]] = pw[a]] /\ dev[a] \in Device
        /\ pc' = [pc EXCEPT ![a] = "idle"] /\ op' = [op EXCEPT ![a] = "none"]
        /\ dev' = [dev EXCEPT ![a] = None] /\ copy' = [copy EXCEPT ![a] = None]
        /\ bare' = IF op[a] = "add" /\ copy[a] = None THEN bare \cup {dev[a]} ELSE bare \ {dev[a]}
    BY <1>10 DEF Commit, End, GoTo, TypeOK
  <2>2. \A d \in Device \ {dev[a]} : /\ d \in Registered' \ bare' <=> d \in Registered \ bare
                                     /\ row'[d] = row[d] /\ (Leaving(d) => Leaving(d)')
    BY <2>1 DEF Registered, Leaving, TypeOK
  <2>3. ASSUME crashes = 0, NEW d \in Registered' \ bare' PROVE entry[d] = row'[d] \/ Leaving(d)'
    <3>1. CASE d = dev[a]
      <4>1. row'[d] = pw[a] /\ pw[a] # 0
        BY <2>1, <2>3, <3>1 DEF Registered, TypeOK
      <4>2. HoldsTable(a) /\ copy[a] # None
        BY <2>1, <2>3, <3>1, <4>1 DEF Admitted, HoldsTable
      <4>3. QED
        BY <2>1, <3>1, <4>1, <4>2 DEF FileKept
    <3>2. CASE d # dev[a]
      BY <2>2, <2>3, <3>2 DEF ShownPasswordWorks, Registered
    <3>3. QED
      BY <3>1, <3>2
  <2>4. QED
    BY <2>1, <2>3 DEF ShownPasswordWorks
<1>11. ASSUME NEW a \in Session, Crash(a) PROVE ShownPasswordWorks'
  BY <1>11 DEF Crash, End, GoTo, TypeOK, FileKept, CopyGood, ShownPasswordWorks, Admitted, Leaving, Locks, HoldsTable, HoldsRow, Registered
<1>12. CASE Provision
  BY <1>12 DEF Provision, TypeOK, FileKept, CopyGood, ShownPasswordWorks, Admitted, Leaving, Locks, HoldsTable, HoldsRow, Registered
<1>13. QED
  BY <1>1, <1>2, <1>3, <1>4, <1>5, <1>6, <1>7, <1>8, <1>9, <1>10, <1>11, <1>12 DEF Next, Step

\* The table never loses a device whose entry is still there.
LEMMA SoleStep ==
    ASSUME TypeOK, Locks, Admitted, FileKept, SoleWriter, [Next]_vars
    PROVE  SoleWriter'
<1> USE RegistryAssumption DEF vars, dbVars, fileVars, sessionVars, counters
<1>1. CASE UNCHANGED vars
  BY <1>1 DEF TypeOK, FileKept, SoleWriter, Admitted, Ahead, Locks, HoldsTable, HoldsRow, NoEntries
<1>2. ASSUME NEW a \in Session, NEW d \in Device, BeginAdd(a, d) PROVE SoleWriter'
  BY <1>2 DEF BeginAdd, Begin, GoTo, TypeOK, FileKept, SoleWriter, Admitted, Ahead, Locks, HoldsTable, HoldsRow, NoEntries
<1>3. ASSUME NEW a \in Session, NEW d \in Device, BeginRemove(a, d) PROVE SoleWriter'
  BY <1>3 DEF BeginRemove, Begin, GoTo, TypeOK, FileKept, SoleWriter, Admitted, Ahead, Locks, HoldsTable, HoldsRow, NoEntries
<1>4. ASSUME NEW a \in Session, Admit(a) PROVE SoleWriter'
  <2>1. pc[a] = "lock" /\ UNCHANGED <<row, entry, crashes, overlapped>>
    BY <1>4 DEF Admit
  <2>2. pc'[a] \in {"file", "idle"} /\ \A b \in Session \ {a} :
           pc'[b] = pc[b] /\ op'[b] = op[b] /\ dev'[b] = dev[b] /\ copy'[b] = copy[b]
    BY <1>4 DEF Admit, End, GoTo, TypeOK
  <2>3. \A d \in Device : Ahead(d) => Ahead(d)'
    BY <2>1, <2>2 DEF Ahead
  <2>4. QED
    BY <2>1, <2>2, <2>3 DEF SoleWriter, HoldsRow
<1>5. ASSUME NEW a \in Session, DeleteRow(a) PROVE SoleWriter'
  BY <1>5 DEF DeleteRow, GoTo, TypeOK, FileKept, SoleWriter, Admitted, Ahead, Locks, HoldsTable, HoldsRow, NoEntries
<1>6. ASSUME NEW a \in Session, DeleteFails(a) PROVE SoleWriter'
  BY <1>6 DEF DeleteFails, End, GoTo, TypeOK, FileKept, SoleWriter, Admitted, Ahead, Locks, HoldsTable, HoldsRow, NoEntries
<1>7. ASSUME NEW a \in Session, ReadFile(a) PROVE SoleWriter'
  BY <1>7 DEF ReadFile, GoTo, TypeOK, FileKept, SoleWriter, Admitted, Ahead, Locks, HoldsTable, HoldsRow, NoEntries
<1>8. ASSUME NEW a \in Session, WriteFile(a) PROVE SoleWriter'
  BY <1>8 DEF WriteFile, GoTo, TypeOK, FileKept, SoleWriter, Admitted, Ahead, Locks, HoldsTable, HoldsRow, NoEntries
<1>9. ASSUME NEW a \in Session, PasswdFails(a) PROVE SoleWriter'
  BY <1>9 DEF PasswdFails, End, GoTo, TypeOK, FileKept, SoleWriter, Admitted, Ahead, Locks, HoldsTable, HoldsRow, NoEntries
<1>10. ASSUME NEW a \in Session, Commit(a) PROVE SoleWriter'
  BY <1>10 DEF Commit, End, GoTo, TypeOK, FileKept, SoleWriter, Admitted, Ahead, Locks, HoldsTable, HoldsRow, NoEntries
<1>11. ASSUME NEW a \in Session, Crash(a) PROVE SoleWriter'
  BY <1>11 DEF Crash, End, GoTo, TypeOK, FileKept, SoleWriter, Admitted, Ahead, Locks, HoldsTable, HoldsRow, NoEntries
<1>12. CASE Provision
  BY <1>12 DEF Provision, TypeOK, FileKept, SoleWriter, Admitted, Ahead, Locks, HoldsTable, HoldsRow, NoEntries
<1>13. QED
  BY <1>1, <1>2, <1>3, <1>4, <1>5, <1>6, <1>7, <1>8, <1>9, <1>10, <1>11, <1>12 DEF Next, Step

\* Room is checked under the lock, and one device takes one place.
LEMMA CapacityStep ==
    ASSUME TypeOK, Locks, Admitted, CapacityKept, [Next]_vars
    PROVE  CapacityKept'
<1>1. CASE row' = row
  BY <1>1 DEF CapacityKept, Registered
<1>2. ASSUME NEW a \in Session, Commit(a) PROVE CapacityKept'
  <2>1. row' = [row EXCEPT ![dev[a]] = pw[a]] /\ pc[a] = "commit" /\ dev[a] \in Device
    BY <1>2 DEF Commit, TypeOK
  <2>2. CASE HoldsTable(a)
    <3>1. Registered' = Registered \cup {dev[a]} /\ dev[a] \notin Registered
      BY <2>1, <2>2 DEF Admitted, Registered, TypeOK
    <3>2. Cardinality(Registered') = Cardinality(Registered) + 1
      BY <3>1, RegisteredFinite, FS_AddElement
    <3>3. QED
      BY <2>2, <3>2, RegisteredFinite, RegistryAssumption DEF Admitted, CapacityKept
  <2>3. CASE ~HoldsTable(a)
    <3>1. pw[a] = 0
      BY <2>3 DEF Admitted
    <3>2. Registered' \subseteq Registered
      BY <2>1, <3>1 DEF Registered, TypeOK
    <3>3. Cardinality(Registered') <= Cardinality(Registered) /\ Cardinality(Registered') \in Nat
      BY <3>2, RegisteredFinite, FS_Subset, FS_CardinalityType
    <3>4. QED
      BY <3>3, RegisteredFinite, RegistryAssumption DEF CapacityKept
  <2>4. QED
    BY <2>2, <2>3
<1>3. QED
  BY <1>1, <1>2 DEF Next, Step, BeginAdd, BeginRemove, Begin, Admit, DeleteRow, DeleteFails,
     ReadFile, WriteFile, PasswdFails, Crash, Provision, End, GoTo, vars, dbVars

-----------------------------------------------------------------------------
\* The strengthened invariant: locks, capacity, the password file and the copies
\* of it, for any number of sessions and devices.
THEOREM CredentialsInvariance == Spec => []CredentialsInv
<1>1. Init => CredentialsInv
  <2> SUFFICES ASSUME Init PROVE CredentialsInv
    OBVIOUS
  <2>1. Registered = {}
    BY DEF Init, Registered, NoEntries
  <2>2. CapacityKept
    BY <2>1, FS_EmptySet, RegistryAssumption DEF CapacityKept
  <2>3. QED
    BY <2>1, <2>2, RegistryAssumption DEF Init, CredentialsInv, TypeOK, Locks, Admitted, FileKept,
       CopyGood, ShownPasswordWorks, SoleWriter, HoldsTable, HoldsRow, NoEntries
<1>2. CredentialsInv /\ [Next]_vars => CredentialsInv'
  <2> SUFFICES ASSUME CredentialsInv, [Next]_vars PROVE CredentialsInv'
    OBVIOUS
  <2> USE DEF CredentialsInv
  <2>1. TypeOK'
    BY TypeStep
  <2>2. Locks'
    BY LocksStep
  <2>3. Admitted'
    BY AdmittedStep
  <2>4. CapacityKept'
    BY CapacityStep
  <2>5. FileKept'
    BY FileStep
  <2>6. CopyGood'
    BY CopyStep
  <2>7. ShownPasswordWorks'
    BY ShownStep
  <2>8. SoleWriter'
    BY SoleStep
  <2>9. QED
    BY <2>1, <2>2, <2>3, <2>4, <2>5, <2>6, <2>7, <2>8
<1>3. QED
  BY <1>1, <1>2, PTL DEF Spec

\* However many sessions register at once (api.py:228-240), the capacity holds.
THEOREM CapacityHolds == Spec => []CapacityKept
<1>1. CredentialsInv => CapacityKept
  BY DEF CredentialsInv
<1>2. QED
  BY <1>1, CredentialsInvariance, PTL

\* The password an administrator was shown (api.py:248) stays in the file,
\* although removals rewrite the file beside each other.
THEOREM PasswordsHold == Spec => []ShownPasswordWorks
<1>1. CredentialsInv => ShownPasswordWorks
  BY DEF CredentialsInv
<1>2. QED
  BY <1>1, CredentialsInvariance, PTL

\* A device that is not registered has no credentials left, unless a request was
\* cut off or removals overlapped on the file (api.py:293-301).
THEOREM NoStrayHolds == Spec => []NoStrayCredential
<1>1. CredentialsInv => NoStrayCredential
  BY DEF CredentialsInv, SoleWriter, NoStrayCredential, Unsettled, Ahead
<1>2. QED
  BY <1>1, CredentialsInvariance, PTL
=============================================================================
