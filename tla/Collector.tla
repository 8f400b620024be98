----------------------------- MODULE Collector -----------------------------
(***************************************************************************)
(* The MQTT collector, app/mqtt_worker.py, between the broker's durable     *)
(* session (docker/mosquitto.conf) and the telemetry store.                 *)
(*                                                                          *)
(* The paho client runs every callback in one network thread; the main      *)
(* thread only watches the failed event, stops the client and starts a new  *)
(* Collector under the same client id.  The broker keeps what a collector   *)
(* has not acknowledged and sends it again, in order, on the next           *)
(* connection.  Anything in transit, acknowledgements included, dies with   *)
(* the connection.                                                          *)
(*                                                                          *)
(* ingest is one step here, with the answers and effects IngestStore        *)
(* establishes, and so is the removal of a device: both implement           *)
(* TelemetryRegistry.  It may also raise, before or after its transaction   *)
(* committed.  Clearing telemetry is left to IngestRaces.                   *)
(* Each publication is an entry with a number of its own, standing for the  *)
(* packet identifier; a message published twice gives two entries.          *)
(***************************************************************************)
EXTENDS Naturals, Sequences, FiniteSets

CONSTANTS
    Device,         \* device identifiers
    Msg,            \* message identities
    DeviceOf,       \* the device of a message
    Valid,          \* messages that pass ingest's validation
    None,           \* no entry
    MaxPublish,     \* bound on publications
    MaxQueued,      \* max_queued_messages: the session queue's capacity
    MaxFaults,      \* bound on lost connections, failures, kills of the collector
    MaxBrokerKills  \* bound on kills of the broker

ASSUME CollectorAssumption ==
    /\ DeviceOf \in [Msg -> Device]
    /\ Valid \subseteq Msg
    /\ None \notin [no : Nat, msg : Msg, retain : BOOLEAN]
    /\ {MaxPublish, MaxQueued, MaxFaults, MaxBrokerKills} \subseteq Nat

VARIABLES
    \* broker
    up,        \* the broker runs
    session,   \* the collector's durable subscription exists
    queue,     \* its entries, oldest first, that are not acknowledged
    retained,  \* messages retained on their topics
    disk,      \* what the broker last wrote to its persistence file
    \* connection
    conn,      \* the collector is connected
    sent,      \* numbers of the entries sent on this connection
    toClient, toBroker,
    \* collector process
    proc,      \* main: no process, watching, stopping the client, waiting 5 s
    shutdown,  \* main was told to stop
    failed,    \* Collector.failed
    handling,  \* entry whose on_message callback runs
    decided,   \* that callback has reached client.ack
    \* store
    enabled,   \* registered and enabled devices
    receipts,  \* messages with a deduplication receipt
    \* bounds and history
    published, faults, brokerKills,
    lastNo,    \* number of the newest entry
    settled,   \* entries ingest (or the retain check) gave a definite answer to
    records,   \* how many telemetry records each message has
    live       \* messages that were queued live, not as a retained copy

brokerVars == <<up, session, queue, retained, disk>>
linkVars   == <<conn, sent, toClient, toBroker>>
procVars   == <<proc, shutdown, failed, handling, decided>>
storeVars  == <<enabled, receipts, settled, records>>
bounds     == <<published, faults, brokerKills>>
vars       == <<brokerVars, linkVars, procVars, storeVars, bounds, lastNo, live>>

Entry == [no : Nat, msg : Msg, retain : BOOLEAN]
Sub   == [kind |-> "sub"]
ToClient == [kind : {"publish"}, entry : Entry] \cup [kind : {"refused"}]
ToBroker == {Sub} \cup [kind : {"ack"}, no : Nat]

Entries(s) == {s[i] : i \in DOMAIN s}
Numbers(s) == {s[i].no : i \in DOMAIN s}

-----------------------------------------------------------------------------
Init ==
    /\ up = TRUE /\ session = FALSE /\ queue = <<>> /\ retained = {}
    /\ disk = [session |-> FALSE, queue |-> <<>>, retained |-> {}]
    /\ conn = FALSE /\ sent = {} /\ toClient = <<>> /\ toBroker = <<>>
    /\ proc = "down" /\ shutdown = FALSE /\ failed = FALSE
    /\ handling = None /\ decided = FALSE
    /\ enabled \in SUBSET Device /\ receipts = {}
    /\ published = 0 /\ faults = 0 /\ brokerKills = 0
    /\ lastNo = 0 /\ settled = {} /\ records = [m \in Msg |-> 0] /\ live = {}

\* A connection ends: both directions lose what is in transit.
Drop == conn' = FALSE /\ sent' = {} /\ toClient' = <<>> /\ toBroker' = <<>>

Fault == faults < MaxFaults /\ faults' = faults + 1 /\ UNCHANGED <<published, brokerKills>>

-----------------------------------------------------------------------------
(* Broker                                                                   *)

\* A device publishes with QoS 1.  The message is queued for the durable
\* subscription if there is one and it has room.  A retained publication
\* replaces its topic's retained message and is passed on with the flag clear.
Publish(m, retain) ==
    /\ up /\ published < MaxPublish
    /\ published' = published + 1
    /\ retained' = IF retain
                   THEN {x \in retained : DeviceOf[x] # DeviceOf[m]} \cup {m}
                   ELSE retained
    /\ IF session /\ Len(queue) < MaxQueued
       THEN /\ lastNo' = lastNo + 1
            /\ queue' = Append(queue, [no |-> lastNo + 1, msg |-> m, retain |-> FALSE])
            /\ live' = live \cup {m}
       ELSE UNCHANGED <<lastNo, queue, live>>
    /\ UNCHANGED <<up, session, disk, linkVars, procVars, storeVars, faults, brokerKills>>

\* The oldest entry not yet sent on this connection goes out.
BrokerSend ==
    /\ conn
    /\ \E i \in DOMAIN queue :
          /\ queue[i].no \notin sent
          /\ \A j \in 1..(i - 1) : queue[j].no \in sent
          /\ sent' = sent \cup {queue[i].no}
          /\ toClient' = Append(toClient, [kind |-> "publish", entry |-> queue[i]])
    /\ UNCHANGED <<brokerVars, conn, toBroker, procVars, storeVars, bounds, lastNo, live>>

\* The retained messages in some order, as the next entries.
Copies == [1..Cardinality(retained) ->
             [no : (lastNo + 1)..(lastNo + Cardinality(retained)),
              msg : retained, retain : {TRUE}]]

\* SUBSCRIBE arrives: the durable subscription exists from now on, and each
\* retained message is sent once more, as an entry with the flag set.
BrokerSubscribe(copies) ==
    /\ toBroker # <<>> /\ Head(toBroker) = Sub
    /\ toBroker' = Tail(toBroker)
    /\ Len(copies) = Cardinality(retained)
    /\ {copies[i].msg : i \in DOMAIN copies} = retained
    /\ \A i \in DOMAIN copies : copies[i].no = lastNo + i /\ copies[i].retain
    /\ session' = TRUE
    /\ queue' = queue \o copies
    /\ lastNo' = lastNo + Len(copies)
    /\ UNCHANGED <<up, retained, disk, conn, sent, toClient, procVars, storeVars, bounds, live>>

\* The broker refuses the subscription in its SUBACK.
BrokerRefuse ==
    /\ toBroker # <<>> /\ Head(toBroker) = Sub
    /\ toBroker' = Tail(toBroker)
    /\ toClient' = Append(toClient, [kind |-> "refused"])
    /\ Fault
    /\ UNCHANGED <<brokerVars, conn, sent, procVars, storeVars, lastNo, live>>

\* PUBACK arrives: the entry is done, unless the broker has forgotten it.
BrokerAck ==
    /\ toBroker # <<>> /\ Head(toBroker).kind = "ack"
    /\ toBroker' = Tail(toBroker)
    /\ \/ Head(toBroker).no \notin Numbers(queue) /\ UNCHANGED queue
       \/ \E i \in DOMAIN queue :
             /\ queue[i].no = Head(toBroker).no
             /\ queue' = SubSeq(queue, 1, i - 1) \o SubSeq(queue, i + 1, Len(queue))
    /\ UNCHANGED <<up, session, retained, disk, conn, sent, toClient, procVars, storeVars,
                   bounds, lastNo, live>>

\* autosave_interval.  A save nobody can fall back to any more is left out.
BrokerSave ==
    /\ up /\ brokerKills < MaxBrokerKills
    /\ disk' = [session |-> session, queue |-> queue, retained |-> retained]
    /\ UNCHANGED <<up, session, queue, retained, linkVars, procVars, storeVars, bounds, lastNo, live>>

\* The broker's container is killed, and so it is when it is stopped: the shell
\* that runs as its first process does not pass SIGTERM on to mosquitto.
BrokerKill ==
    /\ up /\ brokerKills < MaxBrokerKills
    /\ brokerKills' = brokerKills + 1
    /\ up' = FALSE
    /\ session' = disk.session /\ queue' = disk.queue /\ retained' = disk.retained
    /\ Drop
    /\ UNCHANGED <<disk, procVars, storeVars, published, faults, lastNo, live>>

BrokerRestart ==
    /\ ~up /\ up' = TRUE
    /\ UNCHANGED <<session, queue, retained, disk, linkVars, procVars, storeVars, bounds, lastNo, live>>

BrokerStep ==
    \/ BrokerSend \/ BrokerAck \/ BrokerRestart
    \/ \E copies \in Copies : BrokerSubscribe(copies)

-----------------------------------------------------------------------------
(* Network thread                                                           *)

\* The client (re)connects in its durable session; on_connect subscribes.
Connect ==
    /\ proc = "running" /\ handling = None /\ up /\ ~conn
    /\ conn' = TRUE /\ sent' = {} /\ toClient' = <<>> /\ toBroker' = <<Sub>>
    /\ UNCHANGED <<brokerVars, procVars, storeVars, bounds, lastNo, live>>

\* Mutation of OnMessage: a failed collector goes on handling messages.
OnMessageUnlatched ==
    /\ proc \in {"running", "stopping"} /\ handling = None
    /\ toClient # <<>> /\ Head(toClient).kind = "publish"
    /\ toClient' = Tail(toClient)
    /\ handling' = Head(toClient).entry
    /\ UNCHANGED <<brokerVars, conn, sent, toBroker, proc, shutdown, failed, decided,
                   storeVars, bounds, lastNo, live>>

\* on_message is called: once the collector has failed it ignores the message.
OnMessage ==
    /\ proc \in {"running", "stopping"} /\ handling = None
    /\ toClient # <<>> /\ Head(toClient).kind = "publish"
    /\ toClient' = Tail(toClient)
    /\ handling' = IF failed THEN None ELSE Head(toClient).entry
    /\ UNCHANGED <<brokerVars, conn, sent, toBroker, proc, shutdown, failed, decided,
                   storeVars, bounds, lastNo, live>>

\* on_subscribe with a failure code.
OnRefused ==
    /\ proc \in {"running", "stopping"} /\ handling = None
    /\ toClient # <<>> /\ Head(toClient).kind = "refused"
    /\ toClient' = Tail(toClient)
    /\ failed' = TRUE
    /\ UNCHANGED <<brokerVars, conn, sent, toBroker, proc, shutdown, handling, decided,
                   storeVars, bounds, lastNo, live>>

InCallback == handling # None /\ ~decided

\* ingest would store this message now.
Storable(m) == DeviceOf[m] \in enabled /\ m \notin receipts

Store(m) ==
    /\ receipts' = receipts \cup {m}
    /\ records' = [records EXCEPT ![m] = @ + 1]

\* Mutation of Settle: the retain flag is not looked at.
SettleRetained ==
    /\ InCallback
    /\ decided' = TRUE
    /\ settled' = settled \cup {handling.no}
    /\ IF handling.msg \in Valid /\ Storable(handling.msg)
       THEN Store(handling.msg)
       ELSE UNCHANGED <<receipts, records>>
    /\ UNCHANGED <<brokerVars, linkVars, proc, shutdown, failed, handling, enabled, bounds, lastNo, live>>

\* Mutation of Settle: there is no receipt check.
SettleAgain ==
    /\ InCallback
    /\ decided' = TRUE
    /\ settled' = settled \cup {handling.no}
    /\ IF ~handling.retain /\ handling.msg \in Valid /\ DeviceOf[handling.msg] \in enabled
       THEN Store(handling.msg)
       ELSE UNCHANGED <<receipts, records>>
    /\ UNCHANGED <<brokerVars, linkVars, proc, shutdown, failed, handling, enabled, bounds, lastNo, live>>

\* The callback gets as far as client.ack: the message was a retained copy, or
\* invalid, or ingest answered (accepted, duplicate or device_rejected).
Settle ==
    /\ InCallback
    /\ decided' = TRUE
    /\ settled' = settled \cup {handling.no}
    /\ IF ~handling.retain /\ handling.msg \in Valid /\ Storable(handling.msg)
       THEN Store(handling.msg)
       ELSE UNCHANGED <<receipts, records>>
    /\ UNCHANGED <<brokerVars, linkVars, proc, shutdown, failed, handling, enabled, bounds, lastNo, live>>

\* Mutation of Raise: the handler falls through to client.ack.
RaiseAck ==
    /\ InCallback /\ ~handling.retain /\ handling.msg \in Valid
    /\ \/ Storable(handling.msg) /\ Store(handling.msg)
       \/ UNCHANGED <<receipts, records>>
    /\ failed' = TRUE /\ decided' = TRUE
    /\ Fault
    /\ UNCHANGED <<brokerVars, linkVars, proc, shutdown, handling, enabled, settled, lastNo, live>>

\* Mutation of Raise: the failure is logged and nothing else.
RaiseSilent ==
    /\ InCallback /\ ~handling.retain /\ handling.msg \in Valid
    /\ \/ Storable(handling.msg) /\ Store(handling.msg)
       \/ UNCHANGED <<receipts, records>>
    /\ handling' = None
    /\ Fault
    /\ UNCHANGED <<brokerVars, linkVars, proc, shutdown, failed, decided, enabled, settled, lastNo, live>>

\* ingest raises anything else, without or in spite of having committed: the
\* collector is marked as failed and the message is not acknowledged.
Raise ==
    /\ InCallback /\ ~handling.retain /\ handling.msg \in Valid
    /\ \/ Storable(handling.msg) /\ Store(handling.msg)
       \/ UNCHANGED <<receipts, records>>
    /\ failed' = TRUE /\ handling' = None
    /\ Fault
    /\ UNCHANGED <<brokerVars, linkVars, proc, shutdown, decided, enabled, settled, lastNo, live>>

\* client.ack: the PUBACK is on its way if the connection still stands.
Ack ==
    /\ decided
    /\ toBroker' = IF conn THEN Append(toBroker, [kind |-> "ack", no |-> handling.no]) ELSE toBroker
    /\ handling' = None /\ decided' = FALSE
    /\ UNCHANGED <<brokerVars, conn, sent, toClient, proc, shutdown, failed, storeVars, bounds, lastNo, live>>

\* The connection breaks; the client will try again.
NetworkLoss ==
    /\ conn /\ Drop /\ Fault
    /\ UNCHANGED <<brokerVars, procVars, storeVars, lastNo, live>>

-----------------------------------------------------------------------------
(* Main thread                                                              *)

\* The container starts main, which makes the first Collector.
Launch ==
    /\ proc = "down" /\ proc' = "running"
    /\ shutdown' = FALSE /\ failed' = FALSE
    /\ UNCHANGED <<handling, decided, brokerVars, linkVars, storeVars, bounds, lastNo, live>>

\* SIGINT or SIGTERM
Signal ==
    /\ proc # "down" /\ ~shutdown /\ shutdown' = TRUE /\ Fault
    /\ UNCHANGED <<proc, failed, handling, decided, brokerVars, linkVars, storeVars, lastNo, live>>

\* Mutation of Stop: only a signal ends the watch.
StopOnSignal ==
    /\ proc = "running" /\ shutdown
    /\ proc' = "stopping"
    /\ UNCHANGED <<shutdown, failed, handling, decided, brokerVars, linkVars, storeVars,
                   bounds, lastNo, live>>

\* The half-second poll sees the event or the signal; disconnect is requested.
Stop ==
    /\ proc = "running" /\ (failed \/ shutdown)
    /\ proc' = "stopping"
    /\ UNCHANGED <<shutdown, failed, handling, decided, brokerVars, linkVars, storeVars,
                   bounds, lastNo, live>>

\* loop_stop joins the network thread, which finishes a running callback first.
Join ==
    /\ proc = "stopping" /\ handling = None
    /\ proc' = "cooling"
    /\ Drop
    /\ UNCHANGED <<shutdown, failed, handling, decided, brokerVars, storeVars, bounds, lastNo, live>>

\* After five seconds, or the signal: a new Collector, or the end of main.
Again ==
    /\ proc = "cooling"
    /\ proc' = IF shutdown THEN "down" ELSE "running"
    /\ failed' = FALSE
    /\ UNCHANGED <<shutdown, handling, decided, brokerVars, linkVars, storeVars, bounds, lastNo, live>>

\* The process is killed; `restart: always` will launch it again.
Crash ==
    /\ proc # "down" /\ Fault
    /\ proc' = "down" /\ shutdown' = FALSE /\ failed' = FALSE
    /\ handling' = None /\ decided' = FALSE
    /\ Drop
    /\ UNCHANGED <<brokerVars, storeVars, lastNo, live>>

\* update_device or add_device: ingest accepts the device from now on, or no longer.
SetEnabled(d) ==
    /\ enabled' = IF d \in enabled THEN enabled \ {d} ELSE enabled \cup {d}
    /\ UNCHANGED <<receipts, settled, records, brokerVars, linkVars, procVars, bounds, lastNo, live>>

\* Mutation of RemoveDevice: the receipts stay behind.
RemoveDeviceReceiptsStay(d) ==
    /\ enabled' = enabled \ {d}
    /\ records' = [m \in Msg |-> IF DeviceOf[m] = d THEN 0 ELSE records[m]]
    /\ UNCHANGED <<receipts, settled, brokerVars, linkVars, procVars, bounds, lastNo, live>>

\* remove_device: records and receipts go with the device.  It may be registered
\* again, and a message that is still queued is then stored as a new one.
RemoveDevice(d) ==
    /\ enabled' = enabled \ {d}
    /\ receipts' = {m \in receipts : DeviceOf[m] # d}
    /\ records' = [m \in Msg |-> IF DeviceOf[m] = d THEN 0 ELSE records[m]]
    /\ UNCHANGED <<settled, brokerVars, linkVars, procVars, bounds, lastNo, live>>

-----------------------------------------------------------------------------
NetworkStep == Connect \/ OnMessage \/ OnRefused \/ Settle \/ Ack
MainStep    == Launch \/ Stop \/ Join \/ Again

Next ==
    \/ \E m \in Msg, retain \in BOOLEAN : Publish(m, retain)
    \/ BrokerStep \/ BrokerRefuse \/ BrokerSave \/ BrokerKill
    \/ NetworkStep \/ Raise \/ NetworkLoss
    \/ MainStep \/ Signal \/ Crash
    \/ \E d \in Device : SetEnabled(d) \/ RemoveDevice(d)

Spec == Init /\ [][Next]_vars

\* Broker, threads and containers go on as long as they can; faults are finite
\* in number, so that the collector is eventually left in peace.
FairSpec == Spec /\ WF_vars(BrokerStep) /\ WF_vars(NetworkStep) /\ WF_vars(MainStep)

-----------------------------------------------------------------------------
TypeOK ==
    /\ up \in BOOLEAN /\ session \in BOOLEAN /\ queue \in Seq(Entry)
    /\ retained \subseteq Msg /\ IsFiniteSet(retained)
    /\ disk \in [session : BOOLEAN, queue : Seq(Entry), retained : SUBSET Msg]
    /\ IsFiniteSet(disk.retained)
    /\ conn \in BOOLEAN /\ sent \subseteq Nat
    /\ toClient \in Seq(ToClient) /\ toBroker \in Seq(ToBroker)
    /\ shutdown \in BOOLEAN /\ failed \in BOOLEAN /\ decided \in BOOLEAN
    /\ proc \in {"down", "running", "stopping", "cooling"}
    /\ handling \in Entry \cup {None} /\ (decided => handling # None)
    /\ enabled \subseteq Device /\ receipts \subseteq Msg
    /\ published \in Nat /\ faults \in Nat /\ brokerKills \in Nat /\ lastNo \in Nat
    /\ settled \subseteq Nat /\ records \in [Msg -> Nat] /\ live \subseteq Msg

\* "Acknowledge successful or deliberately rejected messages. On an unexpected
\* processing/database failure, do not acknowledge" (mqtt-contract.md:52-53):
\* while the broker keeps its state, an entry leaves the queue only after it
\* has been given a definite answer, whatever connections, collectors and
\* transactions were lost on the way.
NoLoss ==
    brokerKills = 0 => \A n \in 1..lastNo : n \in settled \/ n \in Numbers(queue)

\* Redelivered, published again, or resurrected by a broker that fell back to an
\* old persistence file, also after its device was removed and registered again: a
\* message never has two records ("one registry entry", models.py:52).
StoredOnce == \A m \in Msg : records[m] <= 1

\* "Retained deliveries are ignored" (mqtt-contract.md:59): whatever is stored was
\* published live at some time.
StoredWasLive == receipts \subseteq live

\* Entries are settled in the order in which the broker queued them: none is let
\* past one that waits, after a failure, on the next connection, or after the
\* broker fell back to an old queue.
SettledInOrder == \A n \in settled, k \in Numbers(queue) : k < n => k \in settled

\* What the broker has written to disk survives every kill of the broker: an
\* entry leaves the disk only by a newer save, and is then settled or queued.
SavedNotLost == \A n \in Numbers(disk.queue) : n \in settled \/ n \in Numbers(queue)

\* No queued entry waits for something that will not happen.  A connection whose
\* collector has not failed carries each entry that was sent and is not yet done:
\* towards the client, in its callback, or back as an acknowledgement.  It also
\* has its subscription, or the answer is on its way.
NothingStranded ==
    conn /\ ~failed =>
        /\ \/ session
           \/ \E i \in DOMAIN toBroker : toBroker[i].kind = "sub"
           \/ \E i \in DOMAIN toClient : toClient[i].kind = "refused"
        /\ \A n \in sent \cap Numbers(queue) :
              \/ \E i \in DOMAIN toClient : toClient[i].kind = "publish" /\ toClient[i].entry.no = n
              \/ handling # None /\ handling.no = n
              \/ \E i \in DOMAIN toBroker : toBroker[i].kind = "ack" /\ toBroker[i].no = n

\* Every queued entry is eventually acknowledged: no failure, lost connection,
\* lost acknowledgement or restart leaves the collector stuck.
QueueDrains == <>[](queue = <<>>)

\* What makes the invariants inductive.  The receipts count the records, and
\* whatever is not a retained copy was queued live.
Incoming(i) == toClient[i].kind = "publish"
Genuine(e) == e.retain \/ e.msg \in live
Deduplicated ==
    /\ \A m \in Msg : records[m] = IF m \in receipts THEN 1 ELSE 0
    /\ StoredWasLive
    /\ \A i \in DOMAIN queue : Genuine(queue[i])
    /\ \A i \in DOMAIN disk.queue : Genuine(disk.queue[i])
    /\ \A i \in DOMAIN toClient : Incoming(i) => Genuine(toClient[i].entry)
    /\ handling # None => Genuine(handling)

\* A process that does not run has no connection, and a connection that is lost
\* has nothing in transit.
Links ==
    /\ ~conn => sent = {} /\ toClient = <<>> /\ toBroker = <<>>
    /\ proc \in {"down", "cooling"} => ~conn /\ handling = None

\* Acknowledgements are of settled entries; the others stay in the queue, in the
\* order of their numbers.
Acknowledged ==
    /\ decided => handling.no \in settled
    /\ \A i \in DOMAIN toBroker : toBroker[i].kind = "ack" => toBroker[i].no \in settled
Ascending(s) == \A i, j \in DOMAIN s : i < j => s[i].no < s[j].no
QueueOrdered == Ascending(queue) /\ Ascending(disk.queue)

\* A number is given to one entry, wherever copies of it are.
Known ==
    Entries(queue) \cup Entries(disk.queue)
        \cup {toClient[i].entry : i \in {k \in DOMAIN toClient : Incoming(k)}}
        \cup ({handling} \ {None})
Numbered ==
    /\ \A e \in Known : e.no \in 1..lastNo
    /\ \A e, f \in Known : e.no = f.no => e = f
    /\ sent \subseteq 1..lastNo /\ settled \subseteq 1..lastNo

\* Until the collector fails, it gets the entries of a connection in order: what
\* was sent is the queue up to some entry, and is settled, handled or on its way.
LinkOrdered ==
    ~failed =>
        /\ \A i, j \in DOMAIN toClient : i < j /\ Incoming(i) /\ Incoming(j) =>
              toClient[i].entry.no < toClient[j].entry.no
        /\ \A i \in DOMAIN toClient : Incoming(i) => toClient[i].entry.no \in sent
        /\ \A n \in sent :
              /\ \/ n \in settled
                 \/ handling # None /\ handling.no = n
                 \/ \E i \in DOMAIN toClient : Incoming(i) /\ toClient[i].entry.no = n
              /\ \A k \in Numbers(queue) : k < n => k \in sent

\* So all that is queued before an entry is settled when its callback begins.
HandledInOrder ==
    handling # None /\ ~decided =>
        \A k \in Numbers(queue) : k < handling.no => k \in settled

CollectorInv ==
    /\ TypeOK /\ Deduplicated /\ Links /\ Acknowledged /\ NoLoss /\ SavedNotLost
    /\ QueueOrdered /\ Numbered /\ LinkOrdered /\ HandledInOrder /\ SettledInOrder
    /\ NothingStranded

\* The entries that still have to be settled, in the queue and on disk.
Unsettled(s) == {e \in Entries(s) : e.no \notin settled}

\* The broker and the collector, as the devices may think of them.
Delivery == INSTANCE DurableDelivery WITH
    pending <- Unsettled(queue),
    saved   <- Unsettled(disk.queue),
    last    <- lastNo,
    stored  <- receipts

ImplementsDelivery == Delivery!Spec
=============================================================================
