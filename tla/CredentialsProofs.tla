------------------------- MODULE CredentialsProofs -------------------------
(***************************************************************************)
(* Proofs about Credentials for any devices, sessions, requests and starts: *)
(* the shell and the broker leave the API's guarantees as they are, and the *)
(* broker is in step with the file, and through the file with the table.    *)
(***************************************************************************)
EXTENDS Credentials, DeviceRegistryProofs

-----------------------------------------------------------------------------
\* Whatever the shell and mosquitto do, the API takes its own steps only.
LEMMA ApiStep == AccessNext => Next \/ UNCHANGED vars
  BY DEF AccessNext, Registry, Seen, Load, TakeStamp, Poll, Die, Restart

\* Table and password file behave as DeviceRegistry says also when the broker's
\* container reads, dies and restarts beside them (compose.yaml:40-72).
THEOREM ApiUndisturbed == AccessSpec => Spec
<1>1. AccessInit => Init
  BY DEF AccessInit
<1>2. [AccessNext]_accessVars => [Next]_vars
  BY ApiStep DEF accessVars
<1>3. QED
  BY <1>1, <1>2, PTL DEF AccessSpec, Spec

\* The capacity, the passwords shown and the entries of the file are those of
\* DeviceRegistry, in the composition.
THEOREM GuaranteesKept ==
    AccessSpec => [](CapacityKept /\ ShownPasswordWorks /\ NoStrayCredential)
  BY ApiUndisturbed, CapacityHolds, PasswordsHold, NoStrayHolds, PTL

-----------------------------------------------------------------------------
\* The file changes only in steps the shell can see, or could have seen.
LEMMA EntriesWritten ==
    ASSUME TypeOK, Next, entry' # entry
    PROVE  FileWritten
<1>1. CASE Provision
  BY <1>1 DEF Provision, FileWritten, TypeOK
<1>2. ASSUME NEW a \in Session, WriteFile(a) PROVE FileWritten
  <2>1. pc[a] = "write" /\ pc'[a] = "commit"
    BY <1>2 DEF WriteFile, GoTo, TypeOK
  <2>2. QED
    BY <2>1 DEF FileWritten
<1>3. QED
  BY <1>1, <1>2 DEF Next, Step, BeginAdd, BeginRemove, Begin, Admit, DeleteRow, ReadFile,
     Commit, DeleteFails, PasswdFails, Crash, fileVars

LEMMA AccessTypeStep ==
    ASSUME AccessTypeOK, TypeOK', AccessNext
    PROVE  AccessTypeOK'
<1> USE DEF AccessTypeOK
<1>1. ASSUME Registry PROVE AccessTypeOK'
  <2>1. UNCHANGED <<broker, loaded, polling, starts>>
    BY <1>1 DEF Registry, Seen
  <2>2. /\ noticed' \in BOOLEAN /\ missed' \in BOOLEAN
        /\ noticed' => noticed
    BY <1>1 DEF Registry, Seen, Touch
  <2>3. QED
    BY <2>1, <2>2
<1>2. CASE Load
  BY <1>2 DEF Load, TypeOK, NoEntries
<1>3. CASE TakeStamp
  BY <1>3 DEF TakeStamp
<1>4. CASE Poll
  BY <1>4 DEF Poll, TypeOK
<1>5. CASE Die
  BY <1>5 DEF Die, NoEntries
<1>6. CASE Restart
  <2>1. /\ broker' = "starting" /\ starts' = starts + 1 /\ loaded' = NoEntries
        /\ ~polling' /\ polling' \in BOOLEAN /\ ~noticed' /\ noticed' \in BOOLEAN
        /\ missed' \in BOOLEAN
    BY <1>6 DEF Restart
  <2>2. {polling', noticed', missed'} \subseteq BOOLEAN
    BY <2>1
  <2>3. loaded' \in [Device -> Nat] /\ starts' \in Nat
    BY <2>1 DEF NoEntries
  <2>4. QED
    BY <2>1, <2>2, <2>3
<1>7. QED
  BY <1>1, <1>2, <1>3, <1>4, <1>5, <1>6 DEF AccessNext

LEMMA InStepKept ==
    ASSUME AccessTypeOK, BrokerInStep, AccessNext
    PROVE  BrokerInStep'
<1> USE DEF AccessTypeOK, BrokerInStep
<1>1. CASE Registry
  <2>1. Next /\ UNCHANGED <<broker, loaded, polling>>
    BY <1>1 DEF Registry, Seen
  <2>2. CASE FileWritten
    <3>1. PICK sameSecond \in BOOLEAN : Touch(sameSecond)
      BY <1>1, <2>2 DEF Registry, Seen
    <3>2. broker = "running" /\ (polling => noticed') => missed'
      BY <3>1 DEF Touch
    <3>3. QED
      BY <2>1, <3>2
  <2>3. CASE ~ FileWritten
    <3>1. UNCHANGED <<entry, noticed, missed>>
      BY <1>1, <2>1, <2>3, EntriesWritten DEF Registry, Seen
    <3>2. QED
      BY <2>1, <3>1
  <2>4. QED
    BY <2>2, <2>3
<1>2. CASE Load
  BY <1>2 DEF Load, vars, fileVars
<1>3. CASE TakeStamp
  BY <1>3 DEF TakeStamp, vars, fileVars
<1>4. CASE Poll
  BY <1>4 DEF Poll, vars, fileVars
<1>5. CASE Die
  BY <1>5 DEF Die
<1>6. CASE Restart
  BY <1>6 DEF Restart
<1>7. QED
  BY <1>1, <1>2, <1>3, <1>4, <1>5, <1>6 DEF AccessNext

\* Broker, file and table: a device nobody works on has its row's password in the
\* file, or no entry when it has no row, and the broker has what the file has.
LEMMA TableReached ==
    ASSUME AccessTypeOK, BrokerInStep, ShownPasswordWorks, NoStrayCredential
    PROVE  TableAdmitted
<1> SUFFICES ASSUME broker = "running", ~missed, polling => noticed, crashes = 0, ~overlapped,
                    NEW d \in Device \ bare, ~Unsettled(d)
             PROVE  loaded[d] = row[d]
  BY DEF TableAdmitted
<1>1. loaded = entry
  BY DEF BrokerInStep
<1>2. ~Leaving(d)
  BY DEF Leaving, Unsettled
<1>3. CASE row[d] = 0
  BY <1>1, <1>3 DEF NoStrayCredential
<1>4. CASE row[d] # 0
  BY <1>1, <1>2, <1>4 DEF ShownPasswordWorks, Registered
<1>5. QED
  BY <1>3, <1>4

\* The broker is in step with the password file and, for each device no request is
\* about, with the devices table, whatever the order of commits, writes, of its
\* start, of the first stat and of the polls (compose.yaml:61-72, api.py:228-301).
THEOREM AccessInvariance == AccessSpec => []AccessInv
<1> DEFINE InStep == AccessTypeOK /\ BrokerInStep
<1>1. AccessInit /\ TypeOK => InStep
  <2> SUFFICES ASSUME AccessInit, TypeOK PROVE InStep
    OBVIOUS
  <2>1. /\ broker = "starting" /\ starts = 0 /\ loaded = NoEntries
        /\ ~polling /\ polling \in BOOLEAN /\ ~noticed /\ noticed \in BOOLEAN
        /\ missed \in BOOLEAN
    BY DEF AccessInit
  <2>2. {polling, noticed, missed} \subseteq BOOLEAN
    BY <2>1
  <2>3. loaded \in [Device -> Nat] /\ starts \in Nat
    BY <2>1 DEF NoEntries
  <2>4. QED
    BY <2>1, <2>2, <2>3 DEF AccessTypeOK, BrokerInStep
<1>2. InStep /\ TypeOK' /\ [AccessNext]_accessVars => InStep'
  <2> SUFFICES ASSUME InStep, TypeOK', [AccessNext]_accessVars PROVE InStep'
    OBVIOUS
  <2>1. CASE AccessNext
    BY <2>1, AccessTypeStep, InStepKept
  <2>2. CASE UNCHANGED accessVars
    BY <2>2 DEF accessVars, shellVars, vars, dbVars, fileVars, AccessTypeOK, BrokerInStep
  <2>3. QED
    BY <2>1, <2>2
<1>3. AccessSpec => []TypeOK
  <2>1. CredentialsInv => TypeOK
    BY DEF CredentialsInv
  <2>2. QED
    BY <2>1, ApiUndisturbed, CredentialsInvariance, PTL
<1>4. InStep /\ CapacityKept /\ ShownPasswordWorks /\ NoStrayCredential => AccessInv
  BY TableReached DEF AccessInv
<1> HIDE DEF InStep
<1>5. AccessSpec => []InStep
  BY <1>1, <1>2, <1>3, PTL DEF AccessSpec
<1>6. QED
  BY <1>4, <1>5, GuaranteesKept, PTL
=============================================================================
