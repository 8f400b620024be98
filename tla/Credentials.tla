---------------------------- MODULE Credentials ----------------------------
(***************************************************************************)
(* From the devices table to the broker: DeviceRegistry composed with the    *)
(* shell that runs mosquitto in its container (compose.yaml:40-72).  The     *)
(* shell starts mosquitto in the background, takes the modification time of  *)
(* the password file and then polls it, sending SIGHUP when it has changed.  *)
(*                                                                          *)
(* Modification times have a resolution of a second; the model keeps whether *)
(* the file's time is the one the shell has noted (L_PW).  mosquitto is up   *)
(* and has its SIGHUP handler by the first poll, five seconds later.         *)
(***************************************************************************)
EXTENDS DeviceRegistry

CONSTANT MaxStarts  \* bound on starts of the container

ASSUME StartsAssumption == MaxStarts \in Nat

VARIABLES
    broker,   \* the mosquitto process: "starting", "running" or "dead"
    loaded,   \* the entries it has read
    polling,  \* the shell has taken its first stamp and is in its loop
    noticed,  \* L_PW is the file's modification time
    starts,   \* starts of the container
    \* history
    missed    \* the file was changed with no trace the shell could see

shellVars  == <<broker, loaded, polling, noticed, starts, missed>>
accessVars == <<vars, shellVars>>

AccessInit ==
    /\ Init
    /\ broker = "starting" /\ loaded = NoEntries
    /\ polling = FALSE /\ noticed = FALSE
    /\ starts = 0 /\ missed = FALSE

FileWritten ==
    \/ fileThere' # fileThere
    \/ \E a \in Session : pc[a] = "write" /\ pc'[a] = "commit"

\* A write in the second of the stamp leaves the modification time as it is.
Touch(sameSecond) ==
    /\ noticed' = (noticed /\ sameSecond)
    /\ missed' = (missed \/ (broker # "starting" /\ (polling => noticed')))

\* A step of the API, or of gen-mqtt-passwords.sh, as the shell sees it.
Seen(step) ==
    /\ step
    /\ IF FileWritten THEN \E sameSecond \in BOOLEAN : Touch(sameSecond)
                      ELSE UNCHANGED <<noticed, missed>>
    /\ UNCHANGED <<broker, loaded, polling, starts>>

\* mosquitto reads its password file; without one it exits.
Load ==
    /\ broker = "starting"
    /\ broker' = IF fileThere THEN "running" ELSE "dead"
    /\ loaded' = IF fileThere THEN entry ELSE NoEntries
    /\ UNCHANGED <<vars, polling, noticed, starts, missed>>

\* L_PW=$(stat ...), once mosquitto has been started in the background.
TakeStamp ==
    /\ ~polling
    /\ polling' = TRUE /\ noticed' = TRUE
    /\ UNCHANGED <<vars, broker, loaded, starts, missed>>

\* Mutation of Poll: L_PW is updated and no signal sent.
PollSilently ==
    /\ polling /\ broker # "starting" /\ ~noticed
    /\ noticed' = TRUE
    /\ UNCHANGED <<vars, broker, loaded, polling, starts, missed>>

\* The loop finds another modification time and sends SIGHUP, on which a
\* mosquitto that is alive reads the file again.
Poll ==
    /\ polling /\ broker # "starting" /\ ~noticed
    /\ noticed' = TRUE
    /\ IF broker = "running" THEN loaded' = entry /\ missed' = FALSE
                             ELSE UNCHANGED <<loaded, missed>>
    /\ UNCHANGED <<vars, broker, polling, starts>>

\* mosquitto dies.  The shell loops on, so that the container stays up and its
\* restart policy does not act.
Die ==
    /\ broker = "running"
    /\ broker' = "dead" /\ loaded' = NoEntries
    /\ UNCHANGED <<vars, polling, noticed, starts, missed>>

\* The container is started again: by an administrator, or with its host.
Restart ==
    /\ starts < MaxStarts /\ starts' = starts + 1
    /\ broker' = "starting" /\ loaded' = NoEntries
    /\ polling' = FALSE /\ noticed' = FALSE /\ missed' = FALSE
    /\ UNCHANGED vars

Registry == Seen(Next)

AccessNext == Registry \/ Load \/ TakeStamp \/ Poll \/ Die \/ Restart

\* The API, the shell and mosquitto execute what they can.
AccessSpec ==
    /\ AccessInit /\ [][AccessNext]_accessVars
    /\ \A a \in Session : WF_accessVars(Seen(Step(a)))
    /\ WF_accessVars(Load) /\ WF_accessVars(TakeStamp) /\ WF_accessVars(Poll)

-----------------------------------------------------------------------------
AccessTypeOK ==
    /\ TypeOK
    /\ broker \in {"starting", "running", "dead"} /\ loaded \in [Device -> Nat]
    /\ {polling, noticed, missed} \subseteq BOOLEAN /\ starts \in Nat
    /\ noticed => polling

\* A mosquitto that is alive admits exactly the entries of the file, as long as the
\* shell has no change left to notice and none has escaped it (compose.yaml:61-72).
BrokerInStep ==
    broker = "running" /\ ~missed /\ (polling => noticed) => loaded = entry

\* Then it admits each device with the password its administrator was shown, and no
\* device that is not registered, as soon as no request about that device is being
\* executed; unless a request was cut off or removals overlapped on the file.
TableAdmitted ==
    broker = "running" /\ ~missed /\ (polling => noticed) /\ crashes = 0 /\ ~overlapped =>
        \A d \in Device \ bare : Unsettled(d) \/ loaded[d] = row[d]

AccessInv == AccessTypeOK /\ BrokerInStep /\ TableAdmitted

\* In the end the broker admits the registered devices with the passwords their
\* administrators were shown, and nobody else, although table, file and broker
\* are three stores: with mosquitto alive, no request cut off and no removals
\* or writes that escaped notice.
AccessFollowsTable ==
    <>[](broker = "running" /\ ~missed /\ crashes = 0 /\ ~overlapped =>
            \A d \in Device \ bare : loaded[d] = row[d])
=============================================================================
