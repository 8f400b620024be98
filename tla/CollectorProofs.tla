-------------------------- MODULE CollectorProofs --------------------------
(***************************************************************************)
(* Proofs about Collector, for any messages, devices and bounds.             *)
(*                                                                          *)
(* CollectorInv is inductive.  The argument for NoLoss and SettledInOrder:   *)
(* queue numbers increase (QueueOrdered), a connection passes the queue on   *)
(* from its beginning and in order (LinkOrdered), and only a failed          *)
(* collector lets an entry pass unsettled, which ends with the connection;   *)
(* so when a callback begins, everything before its entry has been settled   *)
(* (HandledInOrder), and only what is settled is acknowledged.  What is on   *)
(* disk stays settled or queued through any number of kills of the broker    *)
(* (SavedNotLost), so that a fall back to it brings back only entries that   *)
(* are settled or still queued (NothingReturns).  Each step is one of        *)
(* DurableDelivery or a stutter.                                             *)
(***************************************************************************)
EXTENDS Collector, FiniteSetTheorems, SequenceTheorems, TLAPS

-----------------------------------------------------------------------------
(* Sequences                                                                *)

\* Append adds the last element.
LEMMA Appended ==
    ASSUME NEW S, NEW s \in Seq(S), NEW e \in S
    PROVE  /\ Append(s, e) \in Seq(S)
           /\ Len(s) \in Nat /\ DOMAIN s = 1..Len(s)
           /\ DOMAIN Append(s, e) = 1..(Len(s) + 1)
           /\ \A i \in DOMAIN s : Append(s, e)[i] = s[i]
           /\ Append(s, e)[Len(s) + 1] = e
BY AppendProperties, LenProperties

\* Tail moves the elements one place down.
LEMMA Shifted ==
    ASSUME NEW S, NEW s \in Seq(S), s # <<>>
    PROVE  /\ Tail(s) \in Seq(S) /\ Head(s) \in S
           /\ 1 \in DOMAIN s /\ Head(s) = s[1]
           /\ Len(s) \in Nat /\ DOMAIN s = 1..Len(s) /\ DOMAIN Tail(s) = 1..(Len(s) - 1)
           /\ \A i \in DOMAIN Tail(s) : i + 1 \in DOMAIN s /\ Tail(s)[i] = s[i + 1]
<1>1. Len(s) \in Nat /\ DOMAIN s = 1..Len(s) /\ Len(s) # 0
  BY EmptySeq, LenProperties
<1>2. /\ Head(s) \in S /\ Tail(s) \in Seq(S) /\ Len(Tail(s)) = Len(s) - 1
      /\ \A i \in 1..Len(Tail(s)) : Tail(s)[i] = s[i + 1]
  BY HeadTailProperties
<1>3. DOMAIN Tail(s) = 1..Len(Tail(s))
  BY <1>2, LenProperties
<1>4. Head(s) = s[1]
  BY <1>1
<1>5. QED
  BY <1>1, <1>2, <1>3, <1>4

\* What is in a sequence afterwards.
Has(s, e) == \E i \in DOMAIN s : s[i] = e

LEMMA InAppend ==
    ASSUME NEW S, NEW s \in Seq(S), NEW e \in S
    PROVE  /\ \A i \in DOMAIN s : Has(Append(s, e), s[i])
           /\ Has(Append(s, e), e)
<1>1. /\ Len(s) \in Nat /\ DOMAIN s = 1..Len(s) /\ DOMAIN Append(s, e) = 1..(Len(s) + 1)
      /\ \A i \in DOMAIN s : Append(s, e)[i] = s[i]
      /\ Append(s, e)[Len(s) + 1] = e
  BY Appended
<1>2. Len(s) + 1 \in DOMAIN Append(s, e) /\ \A i \in DOMAIN s : i \in DOMAIN Append(s, e)
  BY <1>1
<1>3. QED
  BY <1>1, <1>2 DEF Has

LEMMA InTail ==
    ASSUME NEW S, NEW s \in Seq(S), s # <<>>
    PROVE  \A i \in DOMAIN s : s[i] = Head(s) \/ Has(Tail(s), s[i])
<1> SUFFICES ASSUME NEW i \in DOMAIN s, s[i] # Head(s)
             PROVE  Has(Tail(s), s[i])
  OBVIOUS
<1>1. /\ Head(s) = s[1] /\ Len(s) \in Nat /\ DOMAIN s = 1..Len(s)
      /\ DOMAIN Tail(s) = 1..(Len(s) - 1) /\ \A j \in DOMAIN Tail(s) : Tail(s)[j] = s[j + 1]
  BY Shifted
<1>2. i - 1 \in DOMAIN Tail(s) /\ (i - 1) + 1 = i
  BY <1>1
<1>3. QED
  BY <1>1, <1>2 DEF Has

LEMMA Offset ==
    \A n \in Nat : \A i \in 1..n, j \in 1..(n - 1) :
        ~ (j < i) => j - (i - 1) \in 1..(n - i) /\ i + (j - (i - 1)) = j + 1
OBVIOUS

\* t is s without its element at i.
Without(s, t, i) ==
    /\ Len(s) \in Nat /\ DOMAIN s = 1..Len(s) /\ DOMAIN t = 1..(Len(s) - 1)
    /\ \A j \in DOMAIN t : t[j] = IF j < i THEN s[j] ELSE s[j + 1]

LEMMA Removed ==
    ASSUME NEW S, NEW s \in Seq(S), NEW i \in DOMAIN s
    PROVE  LET t == SubSeq(s, 1, i - 1) \o SubSeq(s, i + 1, Len(s))
           IN  t \in Seq(S) /\ Without(s, t, i)
<1> DEFINE a == SubSeq(s, 1, i - 1)
           b == SubSeq(s, i + 1, Len(s))
           t == a \o b
<1>1. Len(s) \in Nat /\ DOMAIN s = 1..Len(s) /\ i \in 1..Len(s)
  BY LenProperties
<1>2. \A j \in 1..Len(s) : s[j] \in S
  BY ElementOfSeq
<1>3. /\ a \in Seq(S) /\ Len(a) = i - 1
      /\ \A j \in 1..(i - 1) : a[j] = s[j]
  <2>1. \A j \in 1..(i - 1) : s[j] \in S
    BY <1>1, <1>2
  <2>2. /\ a \in Seq(S) /\ Len(a) = IF 1 <= i - 1 THEN (i - 1) - 1 + 1 ELSE 0
        /\ \A j \in 1..((i - 1) - 1 + 1) : a[j] = s[1 + j - 1]
    BY <1>1, <2>1, SubSeqProperties
  <2>3. QED
    BY <1>1, <2>2
<1>4. /\ b \in Seq(S) /\ Len(b) = Len(s) - i
      /\ \A j \in 1..(Len(s) - i) : b[j] = s[i + j]
  <2>1. \A j \in (i + 1)..Len(s) : s[j] \in S
    BY <1>1, <1>2
  <2>2. /\ b \in Seq(S) /\ Len(b) = IF i + 1 <= Len(s) THEN Len(s) - (i + 1) + 1 ELSE 0
        /\ \A j \in 1..(Len(s) - (i + 1) + 1) : b[j] = s[(i + 1) + j - 1]
    BY <1>1, <2>1, SubSeqProperties
  <2>3. QED
    BY <1>1, <2>2
<1>5. /\ t \in Seq(S) /\ Len(t) = Len(a) + Len(b)
      /\ \A j \in 1..(Len(a) + Len(b)) : t[j] = IF j <= Len(a) THEN a[j] ELSE b[j - Len(a)]
  BY <1>3, <1>4, ConcatProperties
<1>6. DOMAIN t = 1..(Len(s) - 1)
  BY <1>1, <1>3, <1>4, <1>5, LenProperties
<1>7. ASSUME NEW j \in DOMAIN t PROVE t[j] = IF j < i THEN s[j] ELSE s[j + 1]
  <2> j \in 1..(Len(s) - 1) /\ Len(a) = i - 1 /\ Len(a) + Len(b) = Len(s) - 1
    BY <1>1, <1>3, <1>4, <1>6
  <2>1. CASE j < i
    <3>1. j \in 1..(i - 1) /\ j <= Len(a)
      BY <1>1, <2>1
    <3>2. t[j] = a[j]
      BY <1>5, <3>1
    <3>3. QED
      BY <1>3, <2>1, <3>1, <3>2
  <2>2. CASE ~ (j < i)
    <3>1. PICK l \in 1..(Len(s) - i) : l = j - Len(a) /\ i + l = j + 1
      <4>1. j - Len(a) \in 1..(Len(s) - i) /\ i + (j - Len(a)) = j + 1
        BY <2>2, <1>1, Offset
      <4>2. QED
        BY <4>1
    <3>2. j \in 1..(Len(a) + Len(b)) /\ ~ (j <= Len(a))
      BY <2>2, <1>1
    <3>3. t[j] = b[l]
      BY <3>1, <3>2, <1>5
    <3>4. b[l] = s[j + 1]
      BY <3>1, <1>4
    <3>5. QED
      BY <2>2, <3>3, <3>4
  <2>3. QED
    BY <2>1, <2>2
<1>8. QED
  BY <1>1, <1>5, <1>6, <1>7 DEF Without

-----------------------------------------------------------------------------
(* How the queue changes                                                    *)

\* k new entries, with the next k numbers, join the queue at its end.
Grows(k) ==
    /\ k \in Nat /\ lastNo' = lastNo + k
    /\ Len(queue) \in Nat /\ DOMAIN queue = 1..Len(queue)
    /\ DOMAIN queue' = 1..(Len(queue) + k)
    /\ \A i \in DOMAIN queue : queue'[i] = queue[i]
    /\ \A i \in 1..k : queue'[Len(queue) + i].no = lastNo + i

\* A publication adds one entry or none.
LEMMA PublishGrows ==
    ASSUME TypeOK, NEW m \in Msg, NEW retain \in BOOLEAN, Publish(m, retain)
    PROVE  /\ queue' \in Seq(Entry)
           /\ Grows(0) \/ Grows(1)
           /\ \A i \in DOMAIN queue' :
                 (i \in DOMAIN queue /\ queue'[i] = queue[i]) \/ queue'[i].msg \in live'
           /\ live \subseteq live'
<1>1. queue \in Seq(Entry) /\ lastNo \in Nat
  BY DEF TypeOK
<1>2. Len(queue) \in Nat /\ DOMAIN queue = 1..Len(queue)
  BY <1>1, LenProperties
<1>3. CASE session /\ Len(queue) < MaxQueued
  <2> DEFINE e == [no |-> lastNo + 1, msg |-> m, retain |-> FALSE]
  <2>1. e \in Entry
    BY <1>1 DEF Entry
  <2>2. /\ queue' = Append(queue, e) /\ lastNo' = lastNo + 1 /\ live' = live \cup {m}
    BY <1>3 DEF Publish
  <2>3. /\ queue' \in Seq(Entry) /\ DOMAIN queue' = 1..(Len(queue) + 1)
        /\ \A i \in DOMAIN queue : queue'[i] = queue[i]
        /\ queue'[Len(queue) + 1] = e
    BY <1>1, <2>1, <2>2, Appended
  <2>4. \A i \in DOMAIN queue' : i \in DOMAIN queue \/ i = Len(queue) + 1
    BY <1>2, <2>3
  <2>5. Grows(1)
    BY <1>1, <1>2, <2>2, <2>3 DEF Grows
  <2>6. QED
    BY <2>2, <2>3, <2>4, <2>5
<1>4. CASE ~ (session /\ Len(queue) < MaxQueued)
  BY <1>1, <1>2, <1>4 DEF Publish, Grows
<1>5. QED
  BY <1>3, <1>4

\* A subscription adds a copy of each retained message.
LEMMA SubscribeGrows ==
    ASSUME TypeOK, NEW copies \in Copies, BrokerSubscribe(copies)
    PROVE  /\ queue' \in Seq(Entry)
           /\ Grows(Cardinality(retained))
           /\ \A i \in DOMAIN queue' :
                 (i \in DOMAIN queue /\ queue'[i] = queue[i]) \/ queue'[i].retain
<1> DEFINE k == Cardinality(retained)
<1>1. queue \in Seq(Entry) /\ lastNo \in Nat /\ retained \subseteq Msg
  BY DEF TypeOK
<1>2. Len(queue) \in Nat /\ DOMAIN queue = 1..Len(queue)
  BY <1>1, LenProperties
<1>3. k \in Nat
  BY FS_CardinalityType DEF TypeOK
<1>4. \A i \in 1..k : copies[i] \in Entry
  <2>1. (lastNo + 1)..(lastNo + k) \subseteq Nat
    BY <1>1, <1>3
  <2>2. [no : (lastNo + 1)..(lastNo + k), msg : retained, retain : {TRUE}] \subseteq Entry
    BY <1>1, <2>1 DEF Entry
  <2>3. QED
    BY <2>2 DEF Copies
<1>5. copies \in Seq(Entry) /\ Len(copies) = k
  <2>1. copies \in [1..k -> Entry]
    BY <1>4 DEF Copies
  <2>2. copies \in Seq(Entry)
    BY <1>3, <2>1, SeqDef
  <2>3. QED
    BY <2>2 DEF BrokerSubscribe
<1>6. DOMAIN copies = 1..k
  BY DEF Copies
<1>7. \A i \in 1..k : copies[i].no = lastNo + i /\ copies[i].retain
  BY <1>6 DEF BrokerSubscribe
<1>8. queue' = queue \o copies /\ lastNo' = lastNo + k
  BY <1>5 DEF BrokerSubscribe
<1>9. /\ queue' \in Seq(Entry) /\ Len(queue') = Len(queue) + k
      /\ \A i \in 1..(Len(queue) + k) :
            queue'[i] = IF i <= Len(queue) THEN queue[i] ELSE copies[i - Len(queue)]
  BY <1>1, <1>5, <1>8, ConcatProperties
<1>10. DOMAIN queue' = 1..(Len(queue) + k)
  BY <1>9, LenProperties
<1>11. \A i \in DOMAIN queue : queue'[i] = queue[i]
  BY <1>2, <1>3, <1>9
<1>12. \A i \in 1..k : queue'[Len(queue) + i] = copies[i]
  <2> SUFFICES ASSUME NEW i \in 1..k PROVE queue'[Len(queue) + i] = copies[i]
    OBVIOUS
  <2>1. /\ Len(queue) + i \in 1..(Len(queue) + k) /\ ~ (Len(queue) + i <= Len(queue))
        /\ (Len(queue) + i) - Len(queue) = i
    BY <1>2, <1>3
  <2>2. QED
    BY <2>1, <1>9
<1>13. \A i \in DOMAIN queue' : i \in DOMAIN queue \/ \E j \in 1..k : i = Len(queue) + j
  <2> SUFFICES ASSUME NEW i \in 1..(Len(queue) + k), i \notin 1..Len(queue)
               PROVE  \E j \in 1..k : i = Len(queue) + j
    BY <1>2, <1>10
  <2>1. i - Len(queue) \in 1..k /\ i = Len(queue) + (i - Len(queue))
    BY <1>2, <1>3
  <2>2. QED
    BY <2>1
<1>14. Grows(k)
  BY <1>2, <1>3, <1>7, <1>8, <1>10, <1>11, <1>12 DEF Grows
<1>15. QED
  BY <1>7, <1>9, <1>11, <1>12, <1>13, <1>14

\* An acknowledgement removes one entry with its number, or none.
LEMMA AckRemoves ==
    ASSUME TypeOK, BrokerAck
    PROVE  /\ queue' \in Seq(Entry)
           /\ 1 \in DOMAIN toBroker /\ toBroker[1].kind = "ack"
           /\ \/ queue' = queue
              \/ \E i \in DOMAIN queue :
                    Without(queue, queue', i) /\ queue[i].no = toBroker[1].no
<1>1. queue \in Seq(Entry) /\ toBroker \in Seq(ToBroker) /\ toBroker # <<>>
  BY DEF TypeOK, BrokerAck
<1>2. 1 \in DOMAIN toBroker /\ Head(toBroker) = toBroker[1]
  BY <1>1, Shifted
<1>3. CASE UNCHANGED queue
  BY <1>1, <1>2, <1>3 DEF BrokerAck
<1>4. CASE \E i \in DOMAIN queue :
              /\ queue[i].no = Head(toBroker).no
              /\ queue' = SubSeq(queue, 1, i - 1) \o SubSeq(queue, i + 1, Len(queue))
  <2>1. PICK i \in DOMAIN queue :
              /\ queue[i].no = Head(toBroker).no
              /\ queue' = SubSeq(queue, 1, i - 1) \o SubSeq(queue, i + 1, Len(queue))
    BY <1>4
  <2>2. queue' \in Seq(Entry) /\ Without(queue, queue', i)
    BY <1>1, <2>1, Removed
  <2>3. QED
    BY <1>2, <2>1, <2>2 DEF BrokerAck
<1>5. QED
  BY <1>3, <1>4 DEF BrokerAck

\* A connection that ends has nothing in transit.
LEMMA Dropped ==
    ASSUME Drop
    PROVE  /\ conn' = FALSE /\ sent' = {} /\ toClient' = <<>> /\ toBroker' = <<>>
           /\ sent' \subseteq Nat /\ toClient' \in Seq(ToClient) /\ toBroker' \in Seq(ToBroker)
BY EmptySeq DEF Drop

-----------------------------------------------------------------------------
(* The invariant                                                            *)

\* A store adds a receipt and a record.
LEMMA StoreType ==
    ASSUME TypeOK, NEW m \in Msg, Store(m) \/ UNCHANGED <<receipts, records>>
    PROVE  receipts' \subseteq Msg /\ records' \in [Msg -> Nat]
<1>1. CASE Store(m)
  <2>1. records[m] \in Nat /\ records \in [Msg -> Nat]
    BY DEF TypeOK
  <2>2. QED
    BY <1>1, <2>1 DEF Store, TypeOK
<1>2. CASE UNCHANGED <<receipts, records>>
  BY <1>2 DEF TypeOK
<1>3. QED
  BY <1>1, <1>2

\* Every variable keeps its type.
LEMMA TypeStep ==
    ASSUME TypeOK, [Next]_vars
    PROVE  TypeOK'
<1> USE CollectorAssumption DEF vars, brokerVars, linkVars, procVars, storeVars, bounds
<1>1. CASE UNCHANGED vars
  BY <1>1 DEF TypeOK
<1>2. ASSUME NEW m \in Msg, NEW retain \in BOOLEAN, Publish(m, retain) PROVE TypeOK'
  <2>1. queue' \in Seq(Entry)
    BY <1>2, PublishGrows
  <2>2. retained' \subseteq Msg /\ IsFiniteSet(retained')
    <3> DEFINE others == {x \in retained : DeviceOf[x] # DeviceOf[m]}
    <3>1. IsFiniteSet(others \cup {m})
      BY FS_Subset, FS_AddElement DEF TypeOK
    <3>2. QED
      BY <1>2, <3>1 DEF Publish, TypeOK
  <2>3. lastNo' \in Nat /\ live' \subseteq Msg
    BY <1>2 DEF Publish, TypeOK
  <2>4. published' \in Nat
    BY <1>2 DEF Publish, TypeOK
  <2>5. QED
    BY <1>2, <2>1, <2>2, <2>3, <2>4 DEF Publish, TypeOK
<1>3. CASE BrokerSend
  <2>1. PICK i \in DOMAIN queue :
              /\ sent' = sent \cup {queue[i].no}
              /\ toClient' = Append(toClient, [kind |-> "publish", entry |-> queue[i]])
    BY <1>3 DEF BrokerSend
  <2>2. queue[i] \in Entry
    BY ElementOfSeq, LenProperties DEF TypeOK
  <2>3. [kind |-> "publish", entry |-> queue[i]] \in ToClient
    BY <2>2 DEF ToClient
  <2>4. toClient' \in Seq(ToClient)
    BY <2>1, <2>3, AppendProperties DEF TypeOK
  <2>5. sent' \subseteq Nat
    BY <2>1, <2>2 DEF TypeOK, Entry
  <2>6. QED
    BY <1>3, <2>4, <2>5 DEF BrokerSend, TypeOK
<1>4. CASE BrokerAck
  <2>1. queue' \in Seq(Entry)
    BY <1>4, AckRemoves
  <2>2. toBroker' \in Seq(ToBroker)
    BY <1>4, Shifted DEF BrokerAck, TypeOK
  <2>3. QED
    BY <1>4, <2>1, <2>2 DEF BrokerAck, TypeOK
<1>5. CASE BrokerRestart
  BY <1>5 DEF BrokerRestart, TypeOK
<1>6. ASSUME NEW copies \in Copies, BrokerSubscribe(copies) PROVE TypeOK'
  <2>1. queue' \in Seq(Entry) /\ lastNo' \in Nat
    <3>1. queue' \in Seq(Entry) /\ Grows(Cardinality(retained))
      BY <1>6, SubscribeGrows
    <3>2. lastNo \in Nat
      BY DEF TypeOK
    <3>3. QED
      BY <3>1, <3>2 DEF Grows
  <2>2. toBroker' \in Seq(ToBroker)
    BY <1>6, Shifted DEF BrokerSubscribe, TypeOK
  <2>3. QED
    BY <1>6, <2>1, <2>2 DEF BrokerSubscribe, TypeOK
<1>7. CASE BrokerRefuse
  <2>1. toBroker' \in Seq(ToBroker)
    BY <1>7, Shifted DEF BrokerRefuse, TypeOK
  <2>2. [kind |-> "refused"] \in ToClient
    BY DEF ToClient
  <2>3. toClient' \in Seq(ToClient)
    BY <1>7, <2>2, AppendProperties DEF BrokerRefuse, TypeOK
  <2>4. faults' \in Nat /\ UNCHANGED <<published, brokerKills>>
    BY <1>7 DEF BrokerRefuse, Fault, TypeOK
  <2>5. UNCHANGED <<brokerVars, conn, sent, procVars, storeVars, lastNo, live>>
    BY <1>7 DEF BrokerRefuse
  <2>6. QED
    BY <2>1, <2>3, <2>4, <2>5 DEF TypeOK
<1>8. CASE BrokerSave
  BY <1>8 DEF BrokerSave, TypeOK
<1>9. CASE BrokerKill
  <2>1. session' \in BOOLEAN /\ queue' \in Seq(Entry)
    BY <1>9 DEF BrokerKill, TypeOK
  <2>2. retained' \subseteq Msg /\ IsFiniteSet(retained')
    BY <1>9 DEF BrokerKill, TypeOK
  <2>3. /\ up' \in BOOLEAN /\ conn' \in BOOLEAN /\ sent' \subseteq Nat
        /\ toClient' \in Seq(ToClient) /\ toBroker' \in Seq(ToBroker)
    BY <1>9, Dropped DEF BrokerKill
  <2>4. brokerKills' \in Nat
    BY <1>9 DEF BrokerKill, TypeOK
  <2>5. QED
    BY <1>9, <2>1, <2>2, <2>3, <2>4 DEF BrokerKill, TypeOK
<1>10. CASE Connect
  <2>1. toBroker' \in Seq(ToBroker) /\ toClient' \in Seq(ToClient) /\ sent' \subseteq Nat
    BY <1>10, EmptySeq DEF Connect, ToBroker
  <2>2. QED
    BY <1>10, <2>1 DEF Connect, TypeOK
<1>11. CASE OnMessage
  <2>1. toClient' \in Seq(ToClient) /\ Head(toClient) \in ToClient
    BY <1>11, Shifted DEF OnMessage, TypeOK
  <2>2. Head(toClient).entry \in Entry
    BY <1>11, <2>1 DEF OnMessage, ToClient
  <2>3. handling' \in Entry \cup {None} /\ ~decided
    BY <1>11, <2>2 DEF OnMessage, TypeOK
  <2>4. QED
    BY <1>11, <2>1, <2>3 DEF OnMessage, TypeOK
<1>12. CASE OnRefused
  <2>1. toClient' \in Seq(ToClient)
    BY <1>12, Shifted DEF OnRefused, TypeOK
  <2>2. QED
    BY <1>12, <2>1 DEF OnRefused, TypeOK
<1>13. CASE Settle
  <2>1. handling \in Entry /\ handling.no \in Nat /\ handling.msg \in Msg
    BY <1>13 DEF Settle, InCallback, TypeOK, Entry
  <2>2. Store(handling.msg) \/ UNCHANGED <<receipts, records>>
    BY <1>13 DEF Settle
  <2>3. receipts' \subseteq Msg /\ records' \in [Msg -> Nat]
    BY <2>1, <2>2, StoreType
  <2>4. settled' \subseteq Nat
    BY <1>13, <2>1 DEF Settle, TypeOK
  <2>5. QED
    BY <1>13, <2>3, <2>4 DEF Settle, InCallback, TypeOK
<1>14. CASE Ack
  <2>1. handling \in Entry /\ handling.no \in Nat
    BY <1>14 DEF Ack, TypeOK, Entry
  <2>2. [kind |-> "ack", no |-> handling.no] \in ToBroker
    BY <2>1 DEF ToBroker
  <2>3. toBroker' \in Seq(ToBroker)
    BY <1>14, <2>2, AppendProperties DEF Ack, TypeOK
  <2>4. QED
    BY <1>14, <2>3 DEF Ack, TypeOK
<1>15. CASE Raise
  <2>1. handling \in Entry /\ handling.msg \in Msg
    BY <1>15 DEF Raise, InCallback, TypeOK, Entry
  <2>2. Store(handling.msg) \/ UNCHANGED <<receipts, records>>
    BY <1>15 DEF Raise
  <2>3. receipts' \subseteq Msg /\ records' \in [Msg -> Nat]
    BY <2>1, <2>2, StoreType
  <2>4. faults' \in Nat /\ UNCHANGED <<published, brokerKills>>
    BY <1>15 DEF Raise, Fault, TypeOK
  <2>5. QED
    BY <1>15, <2>3, <2>4 DEF Raise, InCallback, TypeOK
<1>16. CASE NetworkLoss
  BY <1>16, Dropped DEF NetworkLoss, Fault, TypeOK
<1>17. CASE Launch
  BY <1>17 DEF Launch, TypeOK
<1>18. CASE Stop
  BY <1>18 DEF Stop, TypeOK
<1>19. CASE Join
  BY <1>19, Dropped DEF Join, TypeOK
<1>20. CASE Again
  BY <1>20 DEF Again, TypeOK
<1>21. CASE Signal
  BY <1>21 DEF Signal, Fault, TypeOK
<1>22. CASE Crash
  <2>1. /\ conn' \in BOOLEAN /\ sent' \subseteq Nat
        /\ toClient' \in Seq(ToClient) /\ toBroker' \in Seq(ToBroker)
    BY <1>22, Dropped DEF Crash
  <2>2. faults' \in Nat /\ UNCHANGED <<published, brokerKills>>
    BY <1>22 DEF Crash, Fault, TypeOK
  <2>3. QED
    BY <1>22, <2>1, <2>2 DEF Crash, TypeOK
<1>23. ASSUME NEW d \in Device, SetEnabled(d) PROVE TypeOK'
  BY <1>23 DEF SetEnabled, TypeOK
<1>24. ASSUME NEW d \in Device, RemoveDevice(d) PROVE TypeOK'
  <2>1. /\ enabled' \subseteq Device /\ receipts' \subseteq Msg /\ records' \in [Msg -> Nat]
        /\ UNCHANGED <<settled, brokerVars, linkVars, procVars, bounds, lastNo, live>>
    BY <1>24 DEF RemoveDevice, TypeOK
  <2>2. QED
    BY <2>1 DEF TypeOK
<1>25. QED
  BY <1>1, <1>2, <1>3, <1>4, <1>5, <1>6, <1>7, <1>8, <1>9, <1>10, <1>11, <1>12, <1>13, <1>14, <1>15, <1>16, <1>17, <1>18, <1>19, <1>20, <1>21, <1>22, <1>23,
     <1>24 DEF Next, BrokerStep, NetworkStep, MainStep

\* What is stored has a receipt, and was queued live.
LEMMA DeduplicatedStep ==
    ASSUME TypeOK, Deduplicated, [Next]_vars
    PROVE  Deduplicated'
<1> USE CollectorAssumption DEF vars, brokerVars, linkVars, procVars, storeVars, bounds
<1>1. CASE UNCHANGED <<records, receipts, live, queue, disk, toClient, handling>>
  BY <1>1 DEF Deduplicated, StoredWasLive, Genuine, Incoming
<1>2. ASSUME NEW m \in Msg, NEW retain \in BOOLEAN, Publish(m, retain) PROVE Deduplicated'
  <2>1. /\ live \subseteq live'
        /\ \A i \in DOMAIN queue' :
              (i \in DOMAIN queue /\ queue'[i] = queue[i]) \/ queue'[i].msg \in live'
    BY <1>2, PublishGrows
  <2>2. \A i \in DOMAIN queue' : queue'[i].retain \/ queue'[i].msg \in live'
    <3> SUFFICES ASSUME NEW i \in DOMAIN queue', queue'[i].msg \notin live' PROVE queue'[i].retain
      OBVIOUS
    <3>1. i \in DOMAIN queue /\ queue'[i] = queue[i]
      BY <2>1
    <3>2. QED
      BY <2>1, <3>1 DEF Deduplicated, Genuine
  <2>3. QED
    BY <1>2, <2>1, <2>2 DEF Publish, Deduplicated, StoredWasLive, Genuine, Incoming
<1>3. CASE BrokerSend
  <2>1. PICK i \in DOMAIN queue :
              toClient' = Append(toClient, [kind |-> "publish", entry |-> queue[i]])
    BY <1>3 DEF BrokerSend
  <2>2. queue[i] \in Entry
    BY ElementOfSeq, LenProperties DEF TypeOK
  <2>3. [kind |-> "publish", entry |-> queue[i]] \in ToClient
    BY <2>2 DEF ToClient
  <2>4. /\ Len(toClient) \in Nat /\ DOMAIN toClient = 1..Len(toClient)
        /\ DOMAIN toClient' = 1..(Len(toClient) + 1)
        /\ \A j \in DOMAIN toClient : toClient'[j] = toClient[j]
        /\ toClient'[Len(toClient) + 1] = [kind |-> "publish", entry |-> queue[i]]
    BY <2>1, <2>3, Appended DEF TypeOK
  <2>5. \A j \in DOMAIN toClient' : j \in DOMAIN toClient \/ j = Len(toClient) + 1
    BY <2>4
  <2>6. \A j \in DOMAIN toClient' : (toClient'[j].kind = "publish") => Genuine(toClient'[j].entry)
    BY <2>4, <2>5 DEF Deduplicated, Incoming
  <2>7. QED
    BY <1>3, <2>6 DEF BrokerSend, Deduplicated, StoredWasLive, Genuine, Incoming
<1>4. CASE BrokerAck
  <2>1. \A i \in DOMAIN queue' : Genuine(queue'[i])
    <3>1. CASE queue' = queue
      BY <3>1 DEF Deduplicated
    <3>2. CASE \E i \in DOMAIN queue : Without(queue, queue', i)
      BY <3>2 DEF Without, Deduplicated
    <3>3. QED
      BY <1>4, <3>1, <3>2, AckRemoves
  <2>2. QED
    BY <1>4, <2>1 DEF BrokerAck, Deduplicated, StoredWasLive, Genuine, Incoming
<1>5. ASSUME NEW copies \in Copies, BrokerSubscribe(copies) PROVE Deduplicated'
  <2>1. \A i \in DOMAIN queue' : Genuine(queue'[i])
    BY <1>5, SubscribeGrows DEF Deduplicated, Genuine
  <2>2. QED
    BY <1>5, <2>1 DEF BrokerSubscribe, Deduplicated, StoredWasLive, Genuine, Incoming
<1>6. CASE BrokerRefuse
  <2>1. [kind |-> "refused"] \in ToClient
    BY DEF ToClient
  <2>2. /\ Len(toClient) \in Nat /\ DOMAIN toClient = 1..Len(toClient)
        /\ DOMAIN toClient' = 1..(Len(toClient) + 1)
        /\ \A j \in DOMAIN toClient : toClient'[j] = toClient[j]
        /\ toClient'[Len(toClient) + 1].kind = "refused"
    <3>1. toClient' = Append(toClient, [kind |-> "refused"])
      BY <1>6 DEF BrokerRefuse
    <3>2. toClient \in Seq(ToClient)
      BY DEF TypeOK
    <3>3. QED
      BY <2>1, <3>1, <3>2, Appended
  <2>3. \A j \in DOMAIN toClient' : j \in DOMAIN toClient \/ j = Len(toClient) + 1
    BY <2>2
  <2>4. \A j \in DOMAIN toClient' : (toClient'[j].kind = "publish") => Genuine(toClient'[j].entry)
    BY <2>2, <2>3 DEF Deduplicated, Incoming
  <2>5. QED
    BY <1>6, <2>4 DEF BrokerRefuse, Deduplicated, StoredWasLive, Genuine, Incoming
<1>7. CASE BrokerSave
  BY <1>7 DEF BrokerSave, Deduplicated, StoredWasLive, Genuine, Incoming
<1>8. CASE BrokerKill
  BY <1>8, Dropped DEF BrokerKill, Deduplicated, StoredWasLive, Genuine, Incoming
<1>9. CASE Connect
  BY <1>9 DEF Connect, Deduplicated, StoredWasLive, Genuine, Incoming
<1>10. CASE OnMessage
  <2>1. /\ 1 \in DOMAIN toClient /\ Head(toClient) = toClient[1]
        /\ \A i \in DOMAIN Tail(toClient) :
              i + 1 \in DOMAIN toClient /\ Tail(toClient)[i] = toClient[i + 1]
    BY <1>10, Shifted DEF OnMessage, TypeOK
  <2>2. handling' # None => Genuine(handling')
    BY <1>10, <2>1 DEF OnMessage, Deduplicated, Incoming
  <2>3. \A i \in DOMAIN toClient' : (toClient'[i].kind = "publish") => Genuine(toClient'[i].entry)
    BY <1>10, <2>1 DEF OnMessage, Deduplicated, Incoming
  <2>4. QED
    BY <1>10, <2>2, <2>3 DEF OnMessage, Deduplicated, StoredWasLive, Genuine, Incoming
<1>11. CASE OnRefused
  <2>1. \A i \in DOMAIN Tail(toClient) :
              i + 1 \in DOMAIN toClient /\ Tail(toClient)[i] = toClient[i + 1]
    BY <1>11, Shifted DEF OnRefused, TypeOK
  <2>2. \A i \in DOMAIN toClient' : (toClient'[i].kind = "publish") => Genuine(toClient'[i].entry)
    BY <1>11, <2>1 DEF OnRefused, Deduplicated, Incoming
  <2>3. QED
    BY <1>11, <2>2 DEF OnRefused, Deduplicated, StoredWasLive, Genuine, Incoming
<1>12. CASE Settle
  <2>1. handling # None /\ handling.msg \in Msg
    BY <1>12 DEF Settle, InCallback, TypeOK, Entry
  <2>2. CASE ~handling.retain /\ handling.msg \in Valid /\ Storable(handling.msg)
    <3>1. handling.msg \notin receipts /\ handling.msg \in live
      BY <2>1, <2>2 DEF Storable, Deduplicated, Genuine
    <3>2. /\ receipts' = receipts \cup {handling.msg}
          /\ records' = [records EXCEPT ![handling.msg] = @ + 1]
      BY <1>12, <2>2 DEF Settle, Store
    <3>3. \A m \in Msg : records'[m] = IF m \in receipts' THEN 1 ELSE 0
      BY <2>1, <3>1, <3>2 DEF Deduplicated, TypeOK
    <3>4. QED
      BY <1>12, <3>1, <3>2, <3>3 DEF Settle, Deduplicated, StoredWasLive, Genuine, Incoming
  <2>3. CASE ~ (~handling.retain /\ handling.msg \in Valid /\ Storable(handling.msg))
    BY <1>12, <2>3 DEF Settle, Deduplicated, StoredWasLive, Genuine, Incoming
  <2>4. QED
    BY <2>2, <2>3
<1>13. CASE Ack
  BY <1>13 DEF Ack, Deduplicated, StoredWasLive, Genuine, Incoming
<1>14. CASE Raise
  <2>1. handling # None /\ handling.msg \in Msg /\ ~handling.retain
    BY <1>14 DEF Raise, InCallback, TypeOK, Entry
  <2>2. CASE Storable(handling.msg) /\ Store(handling.msg)
    <3>1. handling.msg \notin receipts /\ handling.msg \in live
      BY <2>1, <2>2 DEF Storable, Deduplicated, Genuine
    <3>2. \A m \in Msg : records'[m] = IF m \in receipts' THEN 1 ELSE 0
      BY <2>1, <2>2, <3>1 DEF Store, Deduplicated, TypeOK
    <3>3. receipts' = receipts \cup {handling.msg}
      BY <2>2 DEF Store
    <3>4. QED
      BY <1>14, <3>1, <3>2, <3>3 DEF Raise, Deduplicated, StoredWasLive, Genuine, Incoming
  <2>3. CASE UNCHANGED <<receipts, records>>
    BY <1>14, <2>3 DEF Raise, Deduplicated, StoredWasLive, Genuine, Incoming
  <2>4. QED
    BY <1>14, <2>2, <2>3 DEF Raise
<1>15. CASE NetworkLoss
  BY <1>15, Dropped DEF NetworkLoss, Deduplicated, StoredWasLive, Genuine, Incoming
<1>16. CASE Join
  BY <1>16, Dropped DEF Join, Deduplicated, StoredWasLive, Genuine, Incoming
<1>17. CASE Crash
  BY <1>17, Dropped DEF Crash, Deduplicated, StoredWasLive, Genuine, Incoming
<1>18. ASSUME NEW d \in Device, RemoveDevice(d) PROVE Deduplicated'
  BY <1>18 DEF RemoveDevice, Deduplicated, StoredWasLive, Genuine, Incoming
<1>19. QED
  BY <1>1, <1>2, <1>3, <1>4, <1>5, <1>6, <1>7, <1>8, <1>9, <1>10, <1>11, <1>12, <1>13, <1>14, <1>15, <1>16, <1>17, <1>18
     DEF Next, BrokerStep, NetworkStep, MainStep, BrokerRestart, Launch, Stop, Again, Signal, SetEnabled, Fault

\* A lost connection has nothing in transit.
LEMMA LinksStep ==
    ASSUME TypeOK, Links, [Next]_vars
    PROVE  Links'
<1> USE CollectorAssumption DEF vars, brokerVars, linkVars, procVars, storeVars, bounds
<1>1. CASE UNCHANGED <<conn, sent, toClient, toBroker, proc, handling>>
  BY <1>1 DEF Links
<1>2. CASE BrokerSend
  BY <1>2 DEF BrokerSend, Links
<1>3. CASE BrokerAck
  BY <1>3 DEF BrokerAck, Links
<1>4. ASSUME NEW copies \in Copies, BrokerSubscribe(copies) PROVE Links'
  BY <1>4 DEF BrokerSubscribe, Links
<1>5. CASE BrokerRefuse
  BY <1>5 DEF BrokerRefuse, Fault, Links
<1>6. CASE BrokerKill
  BY <1>6, Dropped DEF BrokerKill, Links
<1>7. CASE Connect
  BY <1>7 DEF Connect, Links
<1>8. CASE OnMessage
  BY <1>8 DEF OnMessage, Links
<1>9. CASE OnRefused
  BY <1>9 DEF OnRefused, Links
<1>10. CASE Ack
  BY <1>10 DEF Ack, Links
<1>11. CASE Raise
  BY <1>11 DEF Raise, InCallback, Store, Storable, Fault, Links
<1>12. CASE NetworkLoss
  BY <1>12, Dropped DEF NetworkLoss, Links
<1>13. CASE Launch
  BY <1>13 DEF Launch, Links
<1>14. CASE Stop
  BY <1>14 DEF Stop, Links
<1>15. CASE Join
  BY <1>15, Dropped DEF Join, Links
<1>16. CASE Again
  BY <1>16 DEF Again, Links
<1>17. CASE Crash
  BY <1>17, Dropped DEF Crash, Links
<1>18. QED
  BY <1>1, <1>2, <1>3, <1>4, <1>5, <1>6, <1>7, <1>8, <1>9, <1>10, <1>11, <1>12, <1>13, <1>14, <1>15, <1>16, <1>17 DEF Next, BrokerStep, NetworkStep, MainStep, Publish, BrokerRestart, BrokerSave, Settle, Signal, SetEnabled, RemoveDevice, Fault, InCallback, Storable, Store

\* What is acknowledged is settled.
LEMMA AcknowledgedStep ==
    ASSUME TypeOK, Acknowledged, [Next]_vars
    PROVE  Acknowledged'
<1> USE CollectorAssumption DEF vars, brokerVars, linkVars, procVars, storeVars, bounds
<1>1. CASE UNCHANGED <<toBroker, decided, handling, settled>>
  BY <1>1 DEF Acknowledged
<1>2. CASE BrokerAck
  <2>1. /\ DOMAIN Tail(toBroker) = DOMAIN toBroker' /\ settled' = settled
        /\ \A i \in DOMAIN Tail(toBroker) :
              i + 1 \in DOMAIN toBroker /\ Tail(toBroker)[i] = toBroker[i + 1]
    BY <1>2, Shifted DEF BrokerAck, TypeOK
  <2>2. \A i \in DOMAIN toBroker' : toBroker'[i].kind = "ack" => toBroker'[i].no \in settled'
    BY <1>2, <2>1 DEF BrokerAck, Acknowledged
  <2>3. QED
    BY <1>2, <2>2 DEF BrokerAck, Acknowledged
<1>3. ASSUME NEW copies \in Copies, BrokerSubscribe(copies) PROVE Acknowledged'
  <2>1. /\ DOMAIN Tail(toBroker) = DOMAIN toBroker' /\ settled' = settled
        /\ \A i \in DOMAIN Tail(toBroker) :
              i + 1 \in DOMAIN toBroker /\ Tail(toBroker)[i] = toBroker[i + 1]
    BY <1>3, Shifted DEF BrokerSubscribe, TypeOK
  <2>2. \A i \in DOMAIN toBroker' : toBroker'[i].kind = "ack" => toBroker'[i].no \in settled'
    BY <1>3, <2>1 DEF BrokerSubscribe, Acknowledged
  <2>3. QED
    BY <1>3, <2>2 DEF BrokerSubscribe, Acknowledged
<1>4. CASE BrokerRefuse
  <2>1. /\ DOMAIN Tail(toBroker) = DOMAIN toBroker' /\ settled' = settled
        /\ \A i \in DOMAIN Tail(toBroker) :
              i + 1 \in DOMAIN toBroker /\ Tail(toBroker)[i] = toBroker[i + 1]
    BY <1>4, Shifted DEF BrokerRefuse, TypeOK
  <2>2. \A i \in DOMAIN toBroker' : toBroker'[i].kind = "ack" => toBroker'[i].no \in settled'
    BY <1>4, <2>1 DEF BrokerRefuse, Acknowledged
  <2>3. QED
    BY <1>4, <2>2 DEF BrokerRefuse, Acknowledged
<1>5. CASE BrokerKill
  BY <1>5, Dropped DEF BrokerKill, Acknowledged
<1>6. CASE Connect
  <2>1. \A i \in DOMAIN toBroker' : toBroker'[i] = Sub
    BY <1>6 DEF Connect
  <2>2. QED
    BY <1>6, <2>1 DEF Connect, Sub, Acknowledged
<1>7. CASE OnMessage
  <2>1. ~decided'
    BY <1>7 DEF OnMessage, TypeOK
  <2>2. QED
    BY <1>7, <2>1 DEF OnMessage, Acknowledged
<1>8. CASE Settle
  BY <1>8 DEF Settle, InCallback, Store, Storable, Acknowledged
<1>9. CASE Ack
  <2>1. handling \in Entry /\ handling.no \in Nat /\ handling.no \in settled
    BY <1>9 DEF Ack, TypeOK, Entry, Acknowledged
  <2> DEFINE ack == [kind |-> "ack", no |-> handling.no]
  <2>2. \A i \in DOMAIN toBroker' : toBroker'[i].kind = "ack" => toBroker'[i].no \in settled
    <3>1. CASE conn
      <4>1. ack \in ToBroker
        BY <2>1 DEF ToBroker
      <4>2. toBroker' = Append(toBroker, ack)
        BY <1>9, <3>1 DEF Ack
      <4>3. /\ Len(toBroker) \in Nat /\ DOMAIN toBroker = 1..Len(toBroker)
            /\ DOMAIN toBroker' = 1..(Len(toBroker) + 1)
            /\ \A i \in DOMAIN toBroker : toBroker'[i] = toBroker[i]
            /\ toBroker'[Len(toBroker) + 1] = ack
        BY <4>1, <4>2, Appended DEF TypeOK
      <4>4. \A i \in DOMAIN toBroker' : i \in DOMAIN toBroker \/ i = Len(toBroker) + 1
        BY <4>3
      <4>5. QED
        BY <2>1, <4>3, <4>4 DEF Acknowledged
    <3>2. CASE ~conn
      BY <1>9, <3>2 DEF Ack, Acknowledged
    <3>3. QED
      BY <3>1, <3>2
  <2>3. QED
    BY <1>9, <2>2 DEF Ack, Acknowledged
<1>10. CASE Raise
  BY <1>10 DEF Raise, InCallback, Fault, Acknowledged
<1>11. CASE NetworkLoss
  BY <1>11, Dropped DEF NetworkLoss, Acknowledged
<1>12. CASE Join
  BY <1>12, Dropped DEF Join, Acknowledged
<1>13. CASE Crash
  BY <1>13, Dropped DEF Crash, Acknowledged
<1>14. QED
  BY <1>1, <1>2, <1>3, <1>4, <1>5, <1>6, <1>7, <1>8, <1>9, <1>10, <1>11, <1>12, <1>13 DEF Next, BrokerStep, NetworkStep, MainStep, Publish, BrokerSend, BrokerRestart, BrokerSave, OnRefused, Launch, Stop, Again, Signal, SetEnabled, RemoveDevice, Fault

\* New entries have new numbers, one each.
LEMMA GrownNumbers ==
    ASSUME TypeOK, NEW k, Grows(k)
    PROVE  /\ k \in Nat /\ lastNo \in Nat /\ lastNo' = lastNo + k
           /\ Entries(queue) \subseteq Entries(queue')
           /\ \A e \in Entries(queue') : e \in Entries(queue) \/ e.no \in (lastNo + 1)..lastNo'
           /\ \A e, f \in Entries(queue') :
                 e \notin Entries(queue) /\ f \notin Entries(queue) /\ e.no = f.no => e = f
           /\ Numbers(queue') = Numbers(queue) \cup ((lastNo + 1)..lastNo')
<1>1. /\ k \in Nat /\ lastNo \in Nat /\ lastNo' = lastNo + k
      /\ Len(queue) \in Nat /\ DOMAIN queue = 1..Len(queue)
      /\ DOMAIN queue' = 1..(Len(queue) + k)
  BY DEF TypeOK, Grows
<1>2. \A i \in DOMAIN queue : i \in DOMAIN queue' /\ queue'[i] = queue[i]
  BY <1>1 DEF Grows
<1>3. ASSUME NEW i \in DOMAIN queue', i \notin DOMAIN queue
      PROVE  queue'[i].no = lastNo + (i - Len(queue)) /\ i - Len(queue) \in 1..k
  <2>1. i - Len(queue) \in 1..k /\ Len(queue) + (i - Len(queue)) = i
    BY <1>1, <1>3
  <2>2. QED
    BY <2>1 DEF Grows
<1>4. \A i \in DOMAIN queue' : i \in DOMAIN queue \/ queue'[i].no \in (lastNo + 1)..lastNo'
  BY <1>1, <1>3
<1>5. ASSUME NEW n \in (lastNo + 1)..lastNo' PROVE n \in Numbers(queue')
  <2>1. n - lastNo \in 1..k /\ lastNo + (n - lastNo) = n
    BY <1>1
  <2>2. PICK l \in 1..k : lastNo + l = n
    BY <2>1
  <2>3. Len(queue) + l \in DOMAIN queue'
    BY <1>1, <2>2
  <2>4. queue'[Len(queue) + l].no = n
    BY <2>2 DEF Grows
  <2>5. QED
    BY <2>3, <2>4 DEF Numbers
<1>6. ASSUME NEW i \in DOMAIN queue', NEW j \in DOMAIN queue', i \notin DOMAIN queue,
             j \notin DOMAIN queue, queue'[i].no = queue'[j].no
      PROVE  i = j
  BY <1>1, <1>3, <1>6
<1>7. Entries(queue) \subseteq Entries(queue')
  BY <1>2 DEF Entries
<1>8. \A e \in Entries(queue') : e \in Entries(queue) \/ e.no \in (lastNo + 1)..lastNo'
  BY <1>2, <1>4 DEF Entries
<1>9. \A e, f \in Entries(queue') :
         e \notin Entries(queue) /\ f \notin Entries(queue) /\ e.no = f.no => e = f
  BY <1>2, <1>6 DEF Entries
<1>10. Numbers(queue') = Numbers(queue) \cup ((lastNo + 1)..lastNo')
  BY <1>2, <1>4, <1>5 DEF Numbers
<1>11. QED
  BY <1>1, <1>7, <1>8, <1>9, <1>10

\* Removing an entry from an ascending queue removes its number.
LEMMA WithoutNumbers ==
    ASSUME NEW s, NEW t, NEW i \in DOMAIN s, Without(s, t, i), Ascending(s),
           \A j \in DOMAIN s : s[j].no \in Nat
    PROVE  /\ Ascending(t) /\ Entries(t) \subseteq Entries(s)
           /\ Numbers(t) = Numbers(s) \ {s[i].no}
           /\ \A e \in Entries(s) : e.no # s[i].no => e \in Entries(t)
<1> DEFINE old(j) == IF j < i THEN j ELSE j + 1
<1>1. /\ Len(s) \in Nat /\ DOMAIN s = 1..Len(s)
      /\ DOMAIN t = 1..(Len(s) - 1) /\ i \in 1..Len(s)
  BY DEF Without
<1>2. \A j \in DOMAIN t : old(j) \in DOMAIN s /\ t[j] = s[old(j)]
  BY <1>1 DEF Without
<1>3. \A j, l \in DOMAIN t : j < l => old(j) < old(l)
  BY <1>1
<1>4. \A j \in DOMAIN t : old(j) # i
  BY <1>1
<1>5. ASSUME NEW j \in DOMAIN s, j # i PROVE \E l \in DOMAIN t : t[l] = s[j]
  <2>1. CASE j < i
    BY <1>1, <1>5, <2>1 DEF Without
  <2>2. CASE j > i
    <3>1. j - 1 \in DOMAIN t /\ ~ (j - 1 < i) /\ (j - 1) + 1 = j
      BY <1>1, <1>5, <2>2
    <3>2. QED
      BY <3>1 DEF Without
  <2>3. QED
    BY <1>1, <1>5, <2>1, <2>2
<1>6. \A j \in DOMAIN s : j # i => s[j].no # s[i].no
  <2> SUFFICES ASSUME NEW j \in DOMAIN s, j # i PROVE s[j].no # s[i].no
    OBVIOUS
  <2>1. j < i \/ i < j
    BY <1>1
  <2>2. QED
    BY <2>1 DEF Ascending
<1> HIDE DEF old
<1>7. Ascending(t)
  BY <1>2, <1>3 DEF Ascending
<1>8. Entries(t) \subseteq Entries(s)
  BY <1>2 DEF Entries
<1>9. Numbers(t) = Numbers(s) \ {s[i].no}
  BY <1>2, <1>4, <1>5, <1>6 DEF Numbers
<1>10. \A e \in Entries(s) : e.no # s[i].no => e \in Entries(t)
  BY <1>5 DEF Entries
<1>11. QED
  BY <1>7, <1>8, <1>9, <1>10

\* An acknowledgement that arrives takes a settled entry out of the queue.
LEMMA AckNumbers ==
    ASSUME TypeOK, QueueOrdered, Acknowledged, BrokerAck
    PROVE  /\ 1 \in DOMAIN toBroker /\ toBroker[1].kind = "ack" /\ toBroker[1].no \in settled
           /\ Ascending(queue') /\ Entries(queue') \subseteq Entries(queue)
           /\ Numbers(queue') \subseteq Numbers(queue)
           /\ Numbers(queue') \cap {toBroker[1].no} = {}
           /\ \A n \in Numbers(queue) : n = toBroker[1].no \/ n \in Numbers(queue')
           /\ \A e \in Entries(queue) : e.no = toBroker[1].no \/ e \in Entries(queue')
<1>1. 1 \in DOMAIN toBroker /\ toBroker[1].kind = "ack"
  BY AckRemoves
<1>2. toBroker[1].no \in settled
  BY <1>1 DEF Acknowledged
<1>3. CASE Head(toBroker).no \notin Numbers(queue) /\ UNCHANGED queue
  <2>1. Head(toBroker) = toBroker[1]
    BY Shifted DEF TypeOK, BrokerAck
  <2>2. QED
    BY <1>1, <1>2, <1>3, <2>1 DEF QueueOrdered, Entries, Numbers
<1>4. ASSUME NEW i \in DOMAIN queue, queue[i].no = Head(toBroker).no,
             queue' = SubSeq(queue, 1, i - 1) \o SubSeq(queue, i + 1, Len(queue))
      PROVE  /\ Ascending(queue') /\ Entries(queue') \subseteq Entries(queue)
             /\ Numbers(queue') \subseteq Numbers(queue)
             /\ Numbers(queue') \cap {toBroker[1].no} = {}
             /\ \A n \in Numbers(queue) : n = toBroker[1].no \/ n \in Numbers(queue')
             /\ \A e \in Entries(queue) : e.no = toBroker[1].no \/ e \in Entries(queue')
  <2>1. Head(toBroker) = toBroker[1]
    BY Shifted DEF TypeOK, BrokerAck
  <2>2. Without(queue, queue', i)
    BY <1>4, Removed DEF TypeOK
  <2>3. \A j \in DOMAIN queue : queue[j].no \in Nat
    <3>1. \A j \in DOMAIN queue : queue[j] \in Entry
      BY ElementOfSeq, LenProperties DEF TypeOK
    <3>2. QED
      BY <3>1 DEF Entry
  <2>4. Ascending(queue)
    BY DEF QueueOrdered
  <2>5. /\ Ascending(queue') /\ Entries(queue') \subseteq Entries(queue)
        /\ Numbers(queue') = Numbers(queue) \ {queue[i].no}
        /\ \A e \in Entries(queue) : e.no # queue[i].no => e \in Entries(queue')
    BY <2>2, <2>3, <2>4, WithoutNumbers
  <2>6. QED
    BY <1>4, <2>1, <2>5
<1>5. QED
  BY <1>1, <1>2, <1>3, <1>4 DEF BrokerAck

\* Growing at the end keeps the queue's numbers in order,
LEMMA GrownInOrder ==
    ASSUME TypeOK, QueueOrdered, Numbered, NEW k, Grows(k)
    PROVE  Ascending(queue')
<1>1. /\ k \in Nat /\ lastNo \in Nat /\ lastNo' = lastNo + k
      /\ Len(queue) \in Nat /\ DOMAIN queue = 1..Len(queue)
      /\ DOMAIN queue' = 1..(Len(queue) + k)
  BY DEF TypeOK, Grows
<1>2. \A i \in DOMAIN queue : queue'[i] = queue[i] /\ queue[i].no \in 1..lastNo
  BY DEF Numbered, Known, Entries, Grows
<1>3. ASSUME NEW i \in DOMAIN queue', i \notin DOMAIN queue
      PROVE  queue'[i].no = lastNo + (i - Len(queue)) /\ i - Len(queue) \in 1..k
  <2>1. i - Len(queue) \in 1..k /\ Len(queue) + (i - Len(queue)) = i
    BY <1>1, <1>3
  <2>2. QED
    BY <2>1 DEF Grows
<1>4. ASSUME NEW i \in DOMAIN queue', NEW j \in DOMAIN queue', i < j
      PROVE  queue'[i].no < queue'[j].no
  <2>1. CASE j \in DOMAIN queue
    <3>1. i \in DOMAIN queue
      BY <1>1, <1>4, <2>1
    <3>2. QED
      BY <1>2, <1>4, <2>1, <3>1 DEF QueueOrdered, Ascending
  <2>2. CASE j \notin DOMAIN queue /\ i \in DOMAIN queue
    BY <1>1, <1>2, <1>3, <1>4, <2>2
  <2>3. CASE j \notin DOMAIN queue /\ i \notin DOMAIN queue
    BY <1>1, <1>3, <1>4, <2>3
  <2>4. QED
    BY <2>1, <2>2, <2>3
<1>5. QED
  BY <1>4 DEF Ascending

\* and leaves what was sent before it.
LEMMA LinkGrown ==
    ASSUME TypeOK, LinkOrdered, Numbered, NEW k, Grows(k),
           UNCHANGED <<failed, toClient, sent, settled, handling>>
    PROVE  LinkOrdered'
<1>1. /\ lastNo \in Nat /\ Numbers(queue') = Numbers(queue) \cup ((lastNo + 1)..lastNo')
      /\ sent \subseteq 1..lastNo
  BY GrownNumbers DEF Numbered
<1>2. \A n \in sent, m \in (lastNo + 1)..lastNo' : ~ (m < n)
  BY <1>1 DEF TypeOK
<1>3. QED
  BY <1>1, <1>2 DEF LinkOrdered, Incoming

\* The steps by which the queue changes, or what the broker has saved of it.
LEMMA QueueSteps ==
    ASSUME TypeOK, QueueOrdered, Acknowledged, [Next]_vars
    PROVE  \/ UNCHANGED <<queue, disk, lastNo>>
           \/ \E m \in Msg, retain \in BOOLEAN : Publish(m, retain)
           \/ \E copies \in Copies : BrokerSubscribe(copies)
           \/ BrokerAck \/ BrokerSave \/ BrokerKill
BY DEF vars, brokerVars, linkVars, procVars, storeVars, bounds,
       Next, BrokerStep, NetworkStep, MainStep, BrokerSend, BrokerRestart, BrokerRefuse, Connect,
       OnMessage, OnRefused, Settle, Ack, Raise, NetworkLoss, Launch, Stop, Join, Again, Signal,
       Crash, SetEnabled, RemoveDevice

\* The two that add to it, and all they change besides.
LEMMA Arrivals ==
    ASSUME TypeOK,
           \/ \E m \in Msg, retain \in BOOLEAN : Publish(m, retain)
           \/ \E copies \in Copies : BrokerSubscribe(copies)
    PROVE  /\ \E k : Grows(k)
           /\ UNCHANGED <<disk, conn, sent, toClient, procVars, storeVars, brokerKills>>
<1>1. ASSUME NEW m \in Msg, NEW retain \in BOOLEAN, Publish(m, retain)
      PROVE  /\ Grows(0) \/ Grows(1)
             /\ UNCHANGED <<disk, conn, sent, toClient, procVars, storeVars, brokerKills>>
  BY <1>1, PublishGrows DEF Publish, linkVars
<1>2. ASSUME NEW copies \in Copies, BrokerSubscribe(copies)
      PROVE  /\ Grows(Cardinality(retained))
             /\ UNCHANGED <<disk, conn, sent, toClient, procVars, storeVars, brokerKills>>
  BY <1>2, SubscribeGrows DEF BrokerSubscribe, bounds
<1>3. QED
  BY <1>1, <1>2

\* The numbers in the queue increase.
LEMMA QueueStep ==
    ASSUME TypeOK, QueueOrdered, Acknowledged, Numbered, [Next]_vars
    PROVE  QueueOrdered'
<1>1. CASE UNCHANGED <<queue, disk, lastNo>>
  BY <1>1 DEF QueueOrdered
<1>2. CASE \/ \E m \in Msg, retain \in BOOLEAN : Publish(m, retain)
           \/ \E copies \in Copies : BrokerSubscribe(copies)
  BY <1>2, Arrivals, GrownInOrder DEF QueueOrdered
<1>3. CASE BrokerAck
  BY <1>3, AckNumbers DEF QueueOrdered, BrokerAck
<1>4. CASE BrokerSave
  BY <1>4 DEF BrokerSave, QueueOrdered
<1>5. CASE BrokerKill
  BY <1>5 DEF BrokerKill, QueueOrdered
<1>6. QED
  BY <1>1, <1>2, <1>3, <1>4, <1>5, QueueSteps

\* The numbers given so far, and the entries known, change by new entries only.
LEMMA NumberedKept ==
    ASSUME Numbered, Known' \subseteq Known, lastNo' = lastNo,
           sent' \subseteq sent \cup {e.no : e \in Known},
           settled' \subseteq settled \cup {e.no : e \in Known}
    PROVE  Numbered'
BY DEF Numbered

\* An element of a tail is an element of the sequence.
LEMMA PassingTail ==
    ASSUME TypeOK, toClient # <<>>, toClient' = Tail(toClient)
    PROVE  \A i \in DOMAIN toClient' : Incoming(i)' =>
              \E j \in DOMAIN toClient : Incoming(j) /\ toClient'[i] = toClient[j]
<1>1. \A i \in DOMAIN toClient' : i + 1 \in DOMAIN toClient /\ toClient'[i] = toClient[i + 1]
  BY Shifted DEF TypeOK
<1>2. QED
  BY <1>1 DEF Incoming

\* Every number is given once.
LEMMA NumberedStep ==
    ASSUME TypeOK, QueueOrdered, Acknowledged, Numbered, [Next]_vars
    PROVE  Numbered'
<1> USE CollectorAssumption DEF vars, brokerVars, linkVars, procVars, storeVars, bounds
<1>1. CASE UNCHANGED <<queue, disk, lastNo, toClient, handling, sent, settled>>
  BY <1>1 DEF Numbered, Known, Entries, Incoming
<1>2. CASE \/ \E m \in Msg, retain \in BOOLEAN : Publish(m, retain)
           \/ \E copies \in Copies : BrokerSubscribe(copies)
  <2>1. PICK k : Grows(k)
    BY <1>2, Arrivals
  <2>2. UNCHANGED <<disk, sent, toClient, handling, settled>>
    BY <1>2, Arrivals
  <2>3. /\ k \in Nat /\ lastNo \in Nat /\ lastNo' = lastNo + k
        /\ \A e \in Entries(queue') : e \in Entries(queue) \/ e.no \in (lastNo + 1)..lastNo'
        /\ \A e, f \in Entries(queue') :
              e \notin Entries(queue) /\ f \notin Entries(queue) /\ e.no = f.no => e = f
    BY <2>1, GrownNumbers
  <2>4. \A e \in Known' : e \in Known \/ (e \in Entries(queue') /\ e \notin Entries(queue))
    BY <2>2 DEF Known, Entries, Incoming
  <2>5. Entries(queue) \subseteq Known
    BY DEF Known
  <2>6. \A e \in Known' : e \in Known \/ e.no \in (lastNo + 1)..lastNo'
    BY <2>3, <2>4
  <2>7. \A e \in Known : e.no \in 1..lastNo
    BY DEF Numbered
  <2>8. 1..lastNo \subseteq 1..lastNo' /\ (lastNo + 1)..lastNo' \subseteq 1..lastNo'
        /\ (1..lastNo) \cap ((lastNo + 1)..lastNo') = {}
    BY <2>3
  <2>9. ASSUME NEW e \in Known', NEW f \in Known', e.no = f.no PROVE e = f
    <3>1. CASE e \in Known /\ f \in Known
      BY <2>9, <3>1 DEF Numbered
    <3>2. CASE e \notin Known /\ f \notin Known
      BY <2>3, <2>4, <2>9, <3>2
    <3>3. QED
      BY <2>6, <2>7, <2>8, <2>9, <3>1, <3>2
  <2>10. \A e \in Known' : e.no \in 1..lastNo'
    BY <2>6, <2>7, <2>8
  <2>11. sent' \subseteq 1..lastNo' /\ settled' \subseteq 1..lastNo'
    BY <2>2, <2>8 DEF Numbered
  <2>12. QED
    BY <2>9, <2>10, <2>11 DEF Numbered
<1>3. CASE BrokerAck
  <2>1. Entries(queue') \subseteq Entries(queue)
    BY <1>3, AckNumbers
  <2>2. UNCHANGED <<disk, lastNo, toClient, handling, sent, settled>>
    BY <1>3 DEF BrokerAck
  <2>3. Known' \subseteq Known
    BY <2>1, <2>2 DEF Known, Entries, Incoming
  <2>4. QED
    BY <2>2, <2>3, NumberedKept
<1>4. CASE BrokerSend
  <2>1. PICK i \in DOMAIN queue :
              /\ sent' = sent \cup {queue[i].no}
              /\ toClient' = Append(toClient, [kind |-> "publish", entry |-> queue[i]])
    BY <1>4 DEF BrokerSend
  <2>2. queue[i] \in Entries(queue) /\ queue[i] \in Known
    BY DEF Entries, Known
  <2>3. [kind |-> "publish", entry |-> queue[i]] \in ToClient
    BY ElementOfSeq, LenProperties DEF TypeOK, ToClient
  <2>4. /\ Len(toClient) \in Nat /\ DOMAIN toClient = 1..Len(toClient)
        /\ DOMAIN toClient' = 1..(Len(toClient) + 1)
        /\ \A j \in DOMAIN toClient : toClient'[j] = toClient[j]
        /\ toClient'[Len(toClient) + 1] = [kind |-> "publish", entry |-> queue[i]]
    BY <2>1, <2>3, Appended DEF TypeOK
  <2>5. \A j \in DOMAIN toClient' : Incoming(j)' =>
           toClient'[j].entry = queue[i] \/ (j \in DOMAIN toClient /\ Incoming(j) /\ toClient'[j] = toClient[j])
    <3>1. \A j \in DOMAIN toClient' : j \in DOMAIN toClient \/ j = Len(toClient) + 1
      BY <2>4
    <3>2. QED
      BY <2>4, <3>1 DEF Incoming
  <2>6. UNCHANGED <<queue, disk, lastNo, handling, settled>>
    BY <1>4 DEF BrokerSend
  <2>7. Known' \subseteq Known
    BY <2>2, <2>5, <2>6 DEF Known, Entries
  <2>8. QED
    BY <2>1, <2>2, <2>6, <2>7, NumberedKept
<1>5. CASE BrokerRefuse
  <2>1. [kind |-> "refused"] \in ToClient
    BY DEF ToClient
  <2>2. toClient' = Append(toClient, [kind |-> "refused"])
    BY <1>5 DEF BrokerRefuse
  <2>3. /\ Len(toClient) \in Nat /\ DOMAIN toClient = 1..Len(toClient)
        /\ DOMAIN toClient' = 1..(Len(toClient) + 1)
        /\ \A j \in DOMAIN toClient : toClient'[j] = toClient[j]
        /\ toClient'[Len(toClient) + 1] = [kind |-> "refused"]
    BY <2>1, <2>2, Appended DEF TypeOK
  <2>4. \A j \in DOMAIN toClient' : j \in DOMAIN toClient \/ toClient'[j].kind = "refused"
    BY <2>3
  <2>5. \A j \in DOMAIN toClient' : Incoming(j)' =>
           j \in DOMAIN toClient /\ Incoming(j) /\ toClient'[j] = toClient[j]
    BY <2>3, <2>4 DEF Incoming
  <2>6. UNCHANGED <<queue, disk, lastNo, handling, sent, settled>>
    BY <1>5 DEF BrokerRefuse, Fault
  <2>7. Known' \subseteq Known
    BY <2>5, <2>6 DEF Known, Entries
  <2>8. QED
    BY <2>6, <2>7, NumberedKept
<1>6. CASE BrokerSave
  <2>1. Known' \subseteq Known
    BY <1>6 DEF BrokerSave, Known, Entries, Incoming
  <2>2. QED
    BY <1>6, <2>1, NumberedKept DEF BrokerSave
<1>7. ASSUME toClient' = <<>>, sent' = {}, handling' = handling \/ handling' = None,
             queue' \in {queue, disk.queue}, UNCHANGED <<disk, lastNo, settled>>
      PROVE  Numbered'
  <2>1. Known' \subseteq Known
    BY <1>7 DEF Known, Entries
  <2>2. QED
    BY <1>7, <2>1, NumberedKept
<1>8. CASE BrokerKill
  BY <1>7, <1>8, Dropped DEF BrokerKill
<1>9. CASE Connect
  BY <1>7, <1>9 DEF Connect
<1>10. CASE NetworkLoss \/ Join \/ Crash
  BY <1>7, <1>10, Dropped DEF NetworkLoss, Join, Crash, Fault
<1>11. CASE OnMessage
  <2>1. /\ toClient # <<>> /\ toClient' = Tail(toClient) /\ Head(toClient).kind = "publish"
        /\ UNCHANGED <<queue, disk, lastNo, sent, settled>>
        /\ handling' = None \/ handling' = Head(toClient).entry
    BY <1>11 DEF OnMessage
  <2>2. 1 \in DOMAIN toClient /\ Head(toClient) = toClient[1]
    BY <2>1, Shifted DEF TypeOK
  <2>3. handling' = None \/ handling' \in Known
    BY <2>1, <2>2 DEF Known, Incoming
  <2>4. Known' \subseteq Known
    BY <2>1, <2>3, PassingTail DEF Known, Entries
  <2>5. QED
    BY <2>1, <2>4, NumberedKept
<1>12. CASE OnRefused
  <2>1. /\ toClient # <<>> /\ toClient' = Tail(toClient)
        /\ UNCHANGED <<queue, disk, lastNo, sent, settled, handling>>
    BY <1>12 DEF OnRefused
  <2>2. Known' \subseteq Known
    BY <2>1, PassingTail DEF Known, Entries
  <2>3. QED
    BY <2>1, <2>2, NumberedKept
<1>13. CASE Settle
  <2>1. /\ handling # None /\ settled' = settled \cup {handling.no}
        /\ UNCHANGED <<queue, disk, lastNo, toClient, handling, sent>>
    BY <1>13 DEF Settle, InCallback
  <2>2. handling \in Known /\ Known' = Known
    BY <2>1 DEF Known, Entries, Incoming
  <2>3. QED
    BY <2>1, <2>2, NumberedKept
<1>14. CASE Ack \/ Raise
  <2>1. handling' = None /\ UNCHANGED <<queue, disk, lastNo, toClient, sent, settled>>
    BY <1>14 DEF Ack, Raise, Fault
  <2>2. Known' \subseteq Known
    BY <2>1 DEF Known, Entries, Incoming
  <2>3. QED
    BY <2>1, <2>2, NumberedKept
<1>15. QED
  BY <1>1, <1>2, <1>3, <1>4, <1>5, <1>6, <1>8, <1>9, <1>10, <1>11, <1>12, <1>13, <1>14
  DEF Next, BrokerStep, NetworkStep, MainStep, BrokerRestart, Launch, Stop, Again, Signal,
      SetEnabled, RemoveDevice, Fault

\* Only a callback that gets to its end settles.
LEMMA SettledGrows ==
    ASSUME TypeOK, [Next]_vars
    PROVE  /\ settled \subseteq settled'
           /\ settled' # settled => Settle
BY DEF vars, brokerVars, linkVars, procVars, storeVars, bounds,
       Next, BrokerStep, NetworkStep, MainStep, Publish, BrokerSend, BrokerAck, BrokerSubscribe,
       BrokerSave, BrokerKill, BrokerRestart, BrokerRefuse, Connect, OnMessage, OnRefused, Settle,
       Ack, Raise, NetworkLoss, Launch, Stop, Join, Again, Signal, Crash, SetEnabled, RemoveDevice

\* Every entry is settled or in the queue.
LEMMA NoLossStep ==
    ASSUME TypeOK, QueueOrdered, Acknowledged, NoLoss, [Next]_vars
    PROVE  NoLoss'
<1>0. settled \subseteq settled'
  BY SettledGrows
<1>1. CASE UNCHANGED <<queue, disk, lastNo>>
  <2>1. brokerKills' = brokerKills \/ BrokerKill
    BY DEF vars, brokerVars, linkVars, procVars, storeVars, bounds,
       Next, BrokerStep, NetworkStep, MainStep, Publish, BrokerSend, BrokerAck, BrokerSubscribe,
       BrokerSave, BrokerRestart, BrokerRefuse, Connect, OnMessage, OnRefused, Settle,
       Ack, Raise, NetworkLoss, Launch, Stop, Join, Again, Signal, Crash, SetEnabled, RemoveDevice, Fault
  <2>2. QED
    BY <1>0, <1>1, <2>1 DEF NoLoss, Numbers, BrokerKill, TypeOK
<1>2. CASE \/ \E m \in Msg, retain \in BOOLEAN : Publish(m, retain)
           \/ \E copies \in Copies : BrokerSubscribe(copies)
  <2>1. PICK k : Grows(k)
    BY <1>2, Arrivals
  <2>2. brokerKills' = brokerKills
    BY <1>2, Arrivals
  <2>3. /\ k \in Nat /\ lastNo \in Nat /\ lastNo' = lastNo + k
        /\ Numbers(queue') = Numbers(queue) \cup ((lastNo + 1)..lastNo')
    BY <2>1, GrownNumbers
  <2>4. \A n \in 1..lastNo' : n \in 1..lastNo \/ n \in (lastNo + 1)..lastNo'
    BY <2>3
  <2>5. QED
    BY <1>0, <2>2, <2>3, <2>4 DEF NoLoss
<1>3. CASE BrokerAck
  <2>1. brokerKills' = brokerKills /\ lastNo' = lastNo
    BY <1>3 DEF BrokerAck, bounds
  <2>2. QED
    BY <1>0, <1>3, <2>1, AckNumbers DEF NoLoss
<1>4. CASE BrokerSave
  BY <1>0, <1>4 DEF BrokerSave, NoLoss, Numbers, bounds
<1>5. CASE BrokerKill
  BY <1>5 DEF BrokerKill, NoLoss, TypeOK
<1>6. QED
  BY <1>1, <1>2, <1>3, <1>4, <1>5, QueueSteps

\* What is on disk is settled or in the queue: a save copies the queue, and an
\* entry only leaves the queue settled.
LEMMA SavedStep ==
    ASSUME TypeOK, QueueOrdered, Acknowledged, SavedNotLost, [Next]_vars
    PROVE  SavedNotLost'
<1>0. settled \subseteq settled'
  BY SettledGrows
<1>1. CASE UNCHANGED <<queue, disk, lastNo>>
  BY <1>0, <1>1 DEF SavedNotLost
<1>2. CASE \/ \E m \in Msg, retain \in BOOLEAN : Publish(m, retain)
           \/ \E copies \in Copies : BrokerSubscribe(copies)
  <2>1. Numbers(queue) \subseteq Numbers(queue') /\ disk' = disk
    BY <1>2, Arrivals, GrownNumbers
  <2>2. QED
    BY <1>0, <2>1 DEF SavedNotLost
<1>3. CASE BrokerAck
  BY <1>0, <1>3, AckNumbers DEF SavedNotLost, BrokerAck
<1>4. CASE BrokerSave
  BY <1>4 DEF BrokerSave, SavedNotLost
<1>5. CASE BrokerKill
  BY <1>5 DEF BrokerKill, SavedNotLost
<1>6. QED
  BY <1>1, <1>2, <1>3, <1>4, <1>5, QueueSteps

\* No step brings an entry into the queue that is neither new, nor settled, nor
\* there already: not even the fall back to what was saved.
LEMMA NothingReturns ==
    ASSUME TypeOK, QueueOrdered, Acknowledged, SavedNotLost, [Next]_vars
    PROVE  \A n \in Numbers(queue') :
              n \in Numbers(queue) \/ n \in settled \/ n \in (lastNo + 1)..lastNo'
<1>1. CASE UNCHANGED <<queue, disk, lastNo>>
  BY <1>1
<1>2. CASE \/ \E m \in Msg, retain \in BOOLEAN : Publish(m, retain)
           \/ \E copies \in Copies : BrokerSubscribe(copies)
  BY <1>2, Arrivals, GrownNumbers
<1>3. CASE BrokerAck
  BY <1>3, AckNumbers
<1>4. CASE BrokerSave
  BY <1>4 DEF BrokerSave
<1>5. CASE BrokerKill
  BY <1>5 DEF BrokerKill, SavedNotLost
<1>6. QED
  BY <1>1, <1>2, <1>3, <1>4, <1>5, QueueSteps

\* What is settled is settled in order.
LEMMA SettledStep ==
    ASSUME TypeOK, QueueOrdered, Acknowledged, SavedNotLost, Numbered, HandledInOrder,
           SettledInOrder, [Next]_vars
    PROVE  SettledInOrder'
<1>0. /\ settled \subseteq settled' /\ settled \subseteq 1..lastNo /\ lastNo \in Nat
      /\ \A k \in Numbers(queue') :
            k \in Numbers(queue) \/ k \in settled \/ k \in (lastNo + 1)..lastNo'
  BY SettledGrows, NothingReturns DEF Numbered, TypeOK
<1>1. ASSUME NEW n \in settled, NEW k \in Numbers(queue'), k < n PROVE k \in settled'
  <2>1. k \notin (lastNo + 1)..lastNo'
    BY <1>0, <1>1
  <2>2. QED
    BY <1>0, <1>1, <2>1 DEF SettledInOrder
<1>2. CASE settled' = settled
  BY <1>1, <1>2 DEF SettledInOrder
<1>3. CASE settled' # settled
  <2>1. Settle
    BY <1>3, SettledGrows
  <2>2. /\ handling # None /\ ~decided /\ settled' = settled \cup {handling.no} /\ queue' = queue
    BY <2>1 DEF Settle, InCallback, brokerVars
  <2>3. QED
    BY <1>0, <1>1, <2>2 DEF HandledInOrder, SettledInOrder
<1>4. QED
  BY <1>2, <1>3

\* When a callback begins, all entries before its own are settled.
LEMMA HandledStep ==
    ASSUME TypeOK, QueueOrdered, Acknowledged, SavedNotLost, Numbered, LinkOrdered,
           HandledInOrder, [Next]_vars
    PROVE  HandledInOrder'
<1>0. /\ settled \subseteq settled' /\ lastNo \in Nat
      /\ \A k \in Numbers(queue') :
            k \in Numbers(queue) \/ k \in settled \/ k \in (lastNo + 1)..lastNo'
  BY SettledGrows, NothingReturns DEF TypeOK
<1>1. CASE handling' = handling /\ (decided' = decided \/ decided')
  <2> SUFFICES ASSUME handling # None, ~decided, NEW k \in Numbers(queue'), k < handling.no
               PROVE  k \in settled'
    BY <1>1 DEF HandledInOrder
  <2>1. handling.no \in 1..lastNo
    BY DEF Numbered, Known
  <2>2. k \notin (lastNo + 1)..lastNo'
    BY <1>0, <2>1
  <2>3. QED
    BY <1>0, <2>2 DEF HandledInOrder
<1>2. CASE handling' = None
  BY <1>2 DEF HandledInOrder
<1>3. CASE OnMessage /\ ~failed
  <2>1. /\ UNCHANGED <<settled, queue>> /\ handling = None
        /\ toClient # <<>> /\ Head(toClient).kind = "publish" /\ handling' = Head(toClient).entry
    BY <1>3 DEF OnMessage, brokerVars, storeVars
  <2>2. /\ 1 \in DOMAIN toClient /\ Head(toClient) = toClient[1] /\ toClient[1] \in ToClient
        /\ Len(toClient) \in Nat /\ DOMAIN toClient = 1..Len(toClient)
    BY <2>1, Shifted DEF TypeOK
  <2>3. Incoming(1) /\ handling' = toClient[1].entry
    BY <2>1, <2>2 DEF Incoming
  <2> DEFINE n == toClient[1].entry.no
  <2>4. SUFFICES ASSUME NEW k \in Numbers(queue), k < n, k \notin settled PROVE FALSE
    BY <2>1, <2>3 DEF HandledInOrder
  <2>5. n \in sent /\ k \in sent /\ n \in 1..lastNo /\ k \in 1..lastNo
    BY <1>3, <2>2, <2>3, <2>4 DEF LinkOrdered, Numbered
  <2>6. PICK i \in DOMAIN toClient : Incoming(i) /\ toClient[i].entry.no = k
    BY <1>3, <2>1, <2>4, <2>5 DEF LinkOrdered
  <2>7. i # 1
    BY <1>0, <2>4, <2>5, <2>6
  <2>8. 1 < i
    BY <2>2, <2>7
  <2>9. n < k
    BY <1>3, <2>2, <2>3, <2>6, <2>8 DEF LinkOrdered
  <2>10. QED
    BY <1>0, <2>4, <2>5, <2>9
<1>4. CASE OnMessage /\ failed
  BY <1>2, <1>4 DEF OnMessage
<1>5. QED
  BY <1>1, <1>2, <1>3, <1>4
  DEF vars, brokerVars, linkVars, procVars, storeVars, bounds, Next, BrokerStep, NetworkStep,
      MainStep, Publish, BrokerSend, BrokerAck, BrokerSubscribe, BrokerSave, BrokerKill,
      BrokerRestart, BrokerRefuse, Connect, OnRefused, Settle, Ack, Raise, NetworkLoss, Launch,
      Stop, Join, Again, Signal, Crash, SetEnabled, RemoveDevice

\* What was sent on a connection is the queue up to some entry, and comes in order.
LEMMA LinkStep ==
    ASSUME TypeOK, Links, Acknowledged, QueueOrdered, Numbered, LinkOrdered, [Next]_vars
    PROVE  LinkOrdered'
<1> USE CollectorAssumption DEF vars, brokerVars, linkVars, procVars, storeVars, bounds
<1>1. CASE UNCHANGED <<failed, toClient, sent, settled, handling, queue>>
  BY <1>1 DEF LinkOrdered, Incoming
<1>2. CASE \/ \E m \in Msg, retain \in BOOLEAN : Publish(m, retain)
           \/ \E copies \in Copies : BrokerSubscribe(copies)
  <2>1. UNCHANGED <<failed, toClient, sent, settled, handling>>
    BY <1>2, Arrivals
  <2>2. QED
    BY <1>2, <2>1, Arrivals, LinkGrown
<1>3. CASE BrokerSend
  <2>1. PICK i \in DOMAIN queue :
              /\ queue[i].no \notin sent
              /\ \A j \in 1..(i - 1) : queue[j].no \in sent
              /\ sent' = sent \cup {queue[i].no}
              /\ toClient' = Append(toClient, [kind |-> "publish", entry |-> queue[i]])
    BY <1>3 DEF BrokerSend
  <2> DEFINE new == [kind |-> "publish", entry |-> queue[i]]
             n == queue[i].no
  <2>2. queue[i] \in Entry /\ Len(queue) \in Nat /\ DOMAIN queue = 1..Len(queue) /\ lastNo \in Nat
    BY ElementOfSeq, LenProperties DEF TypeOK
  <2>3. new \in ToClient
    BY <2>2 DEF ToClient
  <2>4. /\ Len(toClient) \in Nat /\ DOMAIN toClient = 1..Len(toClient)
        /\ DOMAIN toClient' = 1..(Len(toClient) + 1)
        /\ \A j \in DOMAIN toClient : toClient'[j] = toClient[j]
        /\ toClient'[Len(toClient) + 1] = new
    BY <2>1, <2>3, Appended DEF TypeOK
  <2>5. UNCHANGED <<failed, settled, handling, queue>>
    BY <1>3 DEF BrokerSend
  <2>6. SUFFICES ASSUME ~failed PROVE LinkOrdered'
    BY <2>5 DEF LinkOrdered
  <2>7. n \in Numbers(queue) /\ n \in 1..lastNo
    BY DEF Numbers, Numbered, Known, Entries
  <2>8. \A x \in sent : x < n
    <3> SUFFICES ASSUME NEW x \in sent, ~ (x < n) PROVE FALSE
      OBVIOUS
    <3>1. x \in 1..lastNo
      BY DEF Numbered
    <3>2. n < x
      BY <2>1, <2>2, <2>7, <3>1
    <3>3. QED
      BY <2>1, <2>6, <2>7, <3>2 DEF LinkOrdered
  <2>9. \A j \in DOMAIN toClient' : j \in DOMAIN toClient \/ j = Len(toClient) + 1
    BY <2>4
  <2>10. \A a, b \in DOMAIN toClient' :
            a < b /\ Incoming(a)' /\ Incoming(b)' => toClient'[a].entry.no < toClient'[b].entry.no
    <3> SUFFICES ASSUME NEW a \in DOMAIN toClient', NEW b \in DOMAIN toClient',
                        a < b, Incoming(a)', Incoming(b)'
                 PROVE  toClient'[a].entry.no < toClient'[b].entry.no
      OBVIOUS
    <3>1. a \in DOMAIN toClient /\ Incoming(a) /\ toClient'[a] = toClient[a]
      BY <2>4, <2>9 DEF Incoming
    <3>2. CASE b \in DOMAIN toClient
      BY <2>4, <2>6, <3>1, <3>2 DEF LinkOrdered, Incoming
    <3>3. CASE b = Len(toClient) + 1
      BY <2>4, <2>6, <2>8, <3>1, <3>3 DEF LinkOrdered
    <3>4. QED
      BY <2>9, <3>2, <3>3
  <2>11. \A j \in DOMAIN toClient' : Incoming(j)' => toClient'[j].entry.no \in sent'
    <3> SUFFICES ASSUME NEW j \in DOMAIN toClient', Incoming(j)' PROVE toClient'[j].entry.no \in sent'
      OBVIOUS
    <3>1. CASE j \in DOMAIN toClient
      BY <2>1, <2>4, <2>6, <3>1 DEF LinkOrdered, Incoming
    <3>2. CASE j = Len(toClient) + 1
      <4>1. toClient'[j] = new /\ new.entry.no = n
        BY <2>4, <3>2
      <4>2. QED
        BY <2>1, <4>1
    <3>3. QED
      BY <2>9, <3>1, <3>2
  <2>12. ASSUME NEW x \in sent'
         PROVE  /\ \/ x \in settled
                   \/ handling # None /\ handling.no = x
                   \/ \E j \in DOMAIN toClient' : Incoming(j)' /\ toClient'[j].entry.no = x
                /\ \A k \in Numbers(queue) : k < x => k \in sent'
    <3>1. CASE x \in sent
      <4>1. \A j \in DOMAIN toClient : j \in DOMAIN toClient' /\ toClient'[j] = toClient[j]
        BY <2>4
      <4>2. QED
        BY <2>1, <2>6, <3>1, <4>1 DEF LinkOrdered, Incoming
    <3>2. CASE x = n
      <4>1. Len(toClient) + 1 \in DOMAIN toClient' /\ toClient'[Len(toClient) + 1] = new
        BY <2>4
      <4>2. ASSUME NEW j \in DOMAIN queue, queue[j].no < n PROVE queue[j].no \in sent
        <5>1. queue[j].no \in 1..lastNo
          BY DEF Numbered, Known, Entries
        <5>2. ~ (i < j) /\ i # j
          BY <2>2, <2>7, <4>2, <5>1 DEF QueueOrdered, Ascending
        <5>3. j \in 1..(i - 1)
          BY <2>2, <5>2
        <5>4. QED
          BY <2>1, <5>3
      <4>3. QED
        BY <2>1, <3>2, <4>1, <4>2 DEF Incoming, Numbers
    <3>3. QED
      BY <2>1, <2>12, <3>1, <3>2
  <2>13. QED
    BY <2>5, <2>10, <2>11, <2>12 DEF LinkOrdered
<1>4. CASE BrokerAck
  <2>1. UNCHANGED <<failed, toClient, sent, settled, handling>>
    BY <1>4 DEF BrokerAck
  <2>2. Numbers(queue') \subseteq Numbers(queue)
    BY <1>4, AckNumbers
  <2>3. QED
    BY <2>1, <2>2 DEF LinkOrdered, Incoming
<1>6. CASE BrokerRefuse
  <2>1. [kind |-> "refused"] \in ToClient
    BY DEF ToClient
  <2>2. /\ Len(toClient) \in Nat /\ DOMAIN toClient = 1..Len(toClient)
        /\ DOMAIN toClient' = 1..(Len(toClient) + 1)
        /\ \A j \in DOMAIN toClient : toClient'[j] = toClient[j]
        /\ toClient'[Len(toClient) + 1].kind = "refused"
    <3>1. toClient' = Append(toClient, [kind |-> "refused"])
      BY <1>6 DEF BrokerRefuse
    <3>2. toClient \in Seq(ToClient)
      BY DEF TypeOK
    <3>3. QED
      BY <2>1, <3>1, <3>2, Appended
  <2>3. \A j \in DOMAIN toClient' : toClient'[j].kind = "publish" => j \in DOMAIN toClient
    BY <2>2
  <2>4. DOMAIN toClient \subseteq DOMAIN toClient'
    BY <2>2
  <2>5. UNCHANGED <<failed, sent, settled, handling, queue>>
    BY <1>6 DEF BrokerRefuse, Fault
  <2>6. SUFFICES ASSUME ~failed PROVE LinkOrdered'
    BY <2>5 DEF LinkOrdered
  <2>7. \A j \in DOMAIN toClient' : Incoming(j)' => j \in DOMAIN toClient /\ Incoming(j)
    BY <2>2, <2>3 DEF Incoming
  <2>8. \A j \in DOMAIN toClient : Incoming(j) => Incoming(j)'
    BY <2>2 DEF Incoming
  <2>9. QED
    BY <2>2, <2>4, <2>5, <2>6, <2>7, <2>8 DEF LinkOrdered
<1>7. CASE BrokerKill
  BY <1>7, Dropped DEF BrokerKill, LinkOrdered
<1>8. CASE Connect
  BY <1>8 DEF Connect, LinkOrdered
<1>9. CASE OnMessage
  <2>1. /\ toClient # <<>> /\ toClient' = Tail(toClient) /\ handling = None
        /\ Head(toClient).kind = "publish"
        /\ UNCHANGED <<failed, sent, settled, queue>>
    BY <1>9 DEF OnMessage
  <2>2. SUFFICES ASSUME ~failed PROVE LinkOrdered'
    BY <2>1 DEF LinkOrdered
  <2>3. /\ 1 \in DOMAIN toClient /\ Head(toClient) = toClient[1] /\ toClient[1] \in ToClient
        /\ Len(toClient) \in Nat /\ DOMAIN toClient = 1..Len(toClient)
        /\ DOMAIN toClient' = 1..(Len(toClient) - 1)
        /\ \A i \in DOMAIN toClient' : i + 1 \in DOMAIN toClient /\ toClient'[i] = toClient[i + 1]
    BY <2>1, Shifted DEF TypeOK
  <2>4. handling' = toClient[1].entry /\ handling' # None
    <3>1. toClient[1].entry \in Entry
      BY <2>1, <2>3 DEF ToClient
    <3>2. None \notin Entry
      BY DEF Entry
    <3>3. QED
      BY <1>9, <2>2, <2>3, <3>1, <3>2 DEF OnMessage
  <2>5. \A a, b \in DOMAIN toClient' :
            a < b /\ Incoming(a)' /\ Incoming(b)' => toClient'[a].entry.no < toClient'[b].entry.no
    <3> SUFFICES ASSUME NEW a \in DOMAIN toClient', NEW b \in DOMAIN toClient',
                        a < b, Incoming(a)', Incoming(b)'
                 PROVE  toClient'[a].entry.no < toClient'[b].entry.no
      OBVIOUS
    <3>1. a + 1 \in DOMAIN toClient /\ b + 1 \in DOMAIN toClient /\ a + 1 < b + 1
      BY <2>3
    <3>2. toClient'[a] = toClient[a + 1] /\ toClient'[b] = toClient[b + 1]
      BY <2>3
    <3>3. Incoming(a + 1) /\ Incoming(b + 1)
      BY <3>2 DEF Incoming
    <3>4. QED
      BY <2>2, <3>1, <3>2, <3>3 DEF LinkOrdered
  <2>6. \A j \in DOMAIN toClient' : Incoming(j)' => toClient'[j].entry.no \in sent
    BY <2>2, <2>3 DEF LinkOrdered, Incoming
  <2>7. ASSUME NEW x \in sent
        PROVE  \/ x \in settled
               \/ handling' # None /\ handling'.no = x
               \/ \E j \in DOMAIN toClient' : Incoming(j)' /\ toClient'[j].entry.no = x
    <3>1. SUFFICES ASSUME NEW j \in DOMAIN toClient, Incoming(j), toClient[j].entry.no = x, j # 1
                   PROVE  \E l \in DOMAIN toClient' : Incoming(l)' /\ toClient'[l].entry.no = x
      BY <2>1, <2>2, <2>4 DEF LinkOrdered
    <3>2. j - 1 \in DOMAIN toClient' /\ (j - 1) + 1 = j
      BY <2>3, <3>1
    <3>3. toClient'[j - 1] = toClient[j]
      BY <2>3, <3>2
    <3>4. QED
      BY <3>1, <3>2, <3>3 DEF Incoming
  <2>8. QED
    BY <2>1, <2>2, <2>5, <2>6, <2>7 DEF LinkOrdered
<1>10. CASE OnRefused
  BY <1>10 DEF OnRefused, LinkOrdered
<1>11. CASE Settle
  BY <1>11 DEF Settle, InCallback, Store, Storable, LinkOrdered, Incoming
<1>12. CASE Ack
  <2>1. handling # None /\ handling.no \in settled
    BY <1>12 DEF Ack, TypeOK, Acknowledged
  <2>2. QED
    BY <1>12, <2>1 DEF Ack, LinkOrdered, Incoming
<1>13. CASE Raise
  BY <1>13 DEF Raise, LinkOrdered
<1>14. CASE NetworkLoss
  BY <1>14, Dropped DEF NetworkLoss, Fault, LinkOrdered
<1>15. CASE Launch
  BY <1>15 DEF Launch, Links, LinkOrdered
<1>16. CASE Join
  BY <1>16, Dropped DEF Join, LinkOrdered
<1>17. CASE Again
  BY <1>17 DEF Again, Links, LinkOrdered
<1>18. CASE Crash
  BY <1>18, Dropped DEF Crash, LinkOrdered
<1>19. QED
  BY <1>1, <1>2, <1>3, <1>4, <1>6, <1>7, <1>8, <1>9, <1>10, <1>11, <1>12, <1>13, <1>14, <1>15, <1>16, <1>17, <1>18 DEF Next, BrokerStep, NetworkStep, MainStep, BrokerRestart, BrokerSave, Stop, Signal, SetEnabled, RemoveDevice, Fault

-----------------------------------------------------------------------------
(* What a connection carries                                                *)

Carries(n) ==
    \/ \E i \in DOMAIN toClient : toClient[i].kind = "publish" /\ toClient[i].entry.no = n
    \/ handling # None /\ handling.no = n
    \/ \E i \in DOMAIN toBroker : toBroker[i].kind = "ack" /\ toBroker[i].no = n
Subscribed ==
    \/ session
    \/ \E i \in DOMAIN toBroker : toBroker[i].kind = "sub"
    \/ \E i \in DOMAIN toClient : toClient[i].kind = "refused"

\* Every entry sent on a connection stays somewhere on it until it is done.
LEMMA StrandedStep ==
    ASSUME TypeOK, Links, Acknowledged, QueueOrdered, Numbered, NothingStranded, [Next]_vars
    PROVE  NothingStranded'
<1> USE CollectorAssumption DEF vars, brokerVars, linkVars, procVars, storeVars, bounds
<1>0. /\ conn /\ ~failed => Subscribed /\ \A n \in sent \cap Numbers(queue) : Carries(n)
      /\ (conn' /\ ~failed' => Subscribed' /\ \A n \in sent' \cap Numbers(queue') : Carries(n)')
            => NothingStranded'
  BY DEF NothingStranded, Subscribed, Carries
<1> toClient \in Seq(ToClient) /\ toBroker \in Seq(ToBroker)
  BY DEF TypeOK
<1>1. CASE ~conn' \/ failed'
  BY <1>0, <1>1
<1>2. CASE UNCHANGED <<conn, failed, session, toBroker, toClient, sent, queue, handling>>
  BY <1>0, <1>2 DEF Subscribed, Carries
<1>3. ASSUME NEW m \in Msg, NEW retain \in BOOLEAN, Publish(m, retain) PROVE NothingStranded'
  <2>1. UNCHANGED <<conn, failed, session, toBroker, toClient, sent, handling>>
    BY <1>3 DEF Publish
  <2>2. \A n \in sent \cap Numbers(queue') : n \in Numbers(queue)
    BY <1>3, Arrivals, GrownNumbers DEF Numbered
  <2>3. QED
    BY <1>0, <2>1, <2>2 DEF Subscribed, Carries
<1>4. ASSUME NEW copies \in Copies, BrokerSubscribe(copies) PROVE NothingStranded'
  <2>1. /\ UNCHANGED <<conn, failed, toClient, sent, handling>> /\ session'
        /\ toBroker # <<>> /\ toBroker' = Tail(toBroker) /\ Head(toBroker).kind = "sub"
    BY <1>4 DEF BrokerSubscribe, Sub
  <2>2. \A n \in sent \cap Numbers(queue') : n \in Numbers(queue)
    BY <1>4, Arrivals, GrownNumbers DEF Numbered
  <2>3. \A i \in DOMAIN toBroker : toBroker[i] = Head(toBroker) \/ Has(toBroker', toBroker[i])
    BY <2>1, InTail
  <2>4. \A n : Carries(n) => Carries(n)'
    BY <2>1, <2>3 DEF Carries, Has
  <2>5. QED
    BY <1>0, <2>1, <2>2, <2>4 DEF Subscribed
<1>5. CASE BrokerSend
  <2>1. PICK i \in DOMAIN queue :
              /\ sent' = sent \cup {queue[i].no}
              /\ toClient' = Append(toClient, [kind |-> "publish", entry |-> queue[i]])
    BY <1>5 DEF BrokerSend
  <2>2. [kind |-> "publish", entry |-> queue[i]] \in ToClient
    BY ElementOfSeq, LenProperties DEF TypeOK, ToClient
  <2>3. /\ \A j \in DOMAIN toClient : Has(toClient', toClient[j])
        /\ Has(toClient', [kind |-> "publish", entry |-> queue[i]])
    BY <2>1, <2>2, InAppend
  <2>4. UNCHANGED <<conn, failed, session, toBroker, queue, handling>>
    BY <1>5 DEF BrokerSend
  <2>5. (\A n : Carries(n) => Carries(n)') /\ Carries(queue[i].no)'
    BY <2>3, <2>4 DEF Carries, Has
  <2>6. Subscribed => Subscribed'
    BY <2>3, <2>4 DEF Subscribed, Has
  <2>7. QED
    BY <1>0, <2>1, <2>4, <2>5, <2>6
<1>6. CASE BrokerAck
  <2>1. /\ UNCHANGED <<conn, failed, session, toClient, sent, handling>>
        /\ toBroker # <<>> /\ toBroker' = Tail(toBroker) /\ Head(toBroker).kind = "ack"
    BY <1>6 DEF BrokerAck
  <2>2. Head(toBroker) = toBroker[1]
    BY <2>1, Shifted
  <2>3. /\ Numbers(queue') \subseteq Numbers(queue)
        /\ Numbers(queue') \cap {Head(toBroker).no} = {}
    BY <1>6, <2>2, AckNumbers
  <2>4. \A i \in DOMAIN toBroker : toBroker[i] = Head(toBroker) \/ Has(toBroker', toBroker[i])
    BY <2>1, InTail
  <2>5. \A n : Carries(n) /\ n # Head(toBroker).no => Carries(n)'
    BY <2>1, <2>4 DEF Carries, Has
  <2>6. Subscribed => Subscribed'
    BY <2>1, <2>4 DEF Subscribed, Has
  <2>7. QED
    BY <1>0, <2>1, <2>3, <2>5, <2>6
<1>7. CASE BrokerRefuse
  <2>1. /\ UNCHANGED <<conn, failed, session, queue, sent, handling>>
        /\ toBroker # <<>> /\ toBroker' = Tail(toBroker) /\ Head(toBroker).kind = "sub"
        /\ toClient' = Append(toClient, [kind |-> "refused"])
    BY <1>7 DEF BrokerRefuse, Sub, Fault
  <2>2. [kind |-> "refused"] \in ToClient
    BY DEF ToClient
  <2>3. /\ \A j \in DOMAIN toClient : Has(toClient', toClient[j])
        /\ Has(toClient', [kind |-> "refused"])
    BY <2>1, <2>2, InAppend
  <2>4. \A i \in DOMAIN toBroker : toBroker[i] = Head(toBroker) \/ Has(toBroker', toBroker[i])
    BY <2>1, InTail
  <2>5. \A n : Carries(n) => Carries(n)'
    <3>1. handling' = handling /\ Head(toBroker).kind # "ack"
      BY <2>1
    <3>2. QED
      BY <2>3, <2>4, <3>1 DEF Carries, Has
  <2>6. Subscribed'
    BY <2>3 DEF Subscribed, Has
  <2>7. QED
    BY <1>0, <2>1, <2>5, <2>6
<1>8. CASE Connect
  <2>1. sent' = {} /\ toBroker' = <<Sub>>
    BY <1>8 DEF Connect
  <2>2. 1 \in DOMAIN toBroker' /\ toBroker'[1].kind = "sub"
    BY <2>1 DEF Sub
  <2>3. QED
    BY <1>0, <2>1, <2>2 DEF Subscribed
<1>9. CASE OnMessage /\ ~failed
  <2>1. /\ UNCHANGED <<conn, failed, session, queue, sent, toBroker>>
        /\ toClient # <<>> /\ toClient' = Tail(toClient) /\ Head(toClient).kind = "publish"
        /\ handling = None /\ handling' = Head(toClient).entry
    BY <1>9 DEF OnMessage
  <2>2. handling' # None
    <3>1. Head(toClient) \in ToClient
      BY <2>1, Shifted
    <3>2. handling' \in Entry
      BY <2>1, <3>1 DEF ToClient
    <3>3. QED
      BY <3>2 DEF Entry
  <2>3. \A i \in DOMAIN toClient : toClient[i] = Head(toClient) \/ Has(toClient', toClient[i])
    BY <2>1, InTail
  <2>4. \A n : Carries(n) => Carries(n)'
    BY <2>1, <2>2, <2>3 DEF Carries, Has
  <2>5. Subscribed => Subscribed'
    BY <2>1, <2>3 DEF Subscribed, Has
  <2>6. QED
    BY <1>0, <2>1, <2>4, <2>5
<1>10. CASE Ack /\ conn
  <2> DEFINE ack == [kind |-> "ack", no |-> handling.no]
  <2>1. /\ UNCHANGED <<conn, failed, session, queue, sent, toClient>>
        /\ toBroker' = Append(toBroker, ack)
    BY <1>10 DEF Ack
  <2>2. ack \in ToBroker
    BY <1>10 DEF Ack, TypeOK, Entry, ToBroker
  <2>3. /\ \A j \in DOMAIN toBroker : Has(toBroker', toBroker[j])
        /\ Has(toBroker', ack)
    BY <2>1, <2>2, InAppend
  <2>4. \A n : Carries(n) => Carries(n)'
    <3>1. toClient' = toClient /\ ack.kind = "ack" /\ ack.no = handling.no
      BY <2>1
    <3>2. QED
      BY <2>3, <3>1 DEF Carries, Has
  <2>5. Subscribed => Subscribed'
    BY <2>1, <2>3 DEF Subscribed, Has
  <2>6. QED
    BY <1>0, <2>1, <2>4, <2>5
<1>11. CASE OnMessage /\ failed
  BY <1>1, <1>11 DEF OnMessage
<1>12. CASE Ack /\ ~conn
  BY <1>1, <1>12 DEF Ack
<1>13. CASE BrokerKill \/ NetworkLoss \/ Join \/ Crash
  BY <1>1, <1>13, Dropped DEF BrokerKill, NetworkLoss, Join, Crash
<1>14. CASE OnRefused \/ Raise
  BY <1>1, <1>14 DEF OnRefused, Raise
<1>15. CASE Launch \/ Again
  BY <1>1, <1>15 DEF Launch, Again, Links
<1>16. QED
  BY <1>1, <1>2, <1>3, <1>4, <1>5, <1>6, <1>7, <1>8, <1>9, <1>10, <1>11, <1>12, <1>13, <1>14, <1>15
  DEF Next, BrokerStep, NetworkStep, MainStep, BrokerRestart, BrokerSave, Settle, Stop, Signal,
      SetEnabled, RemoveDevice, Fault, InCallback

-----------------------------------------------------------------------------
(* Theorems                                                                 *)

LEMMA CollectorInit ==
    ASSUME Init PROVE CollectorInv
<1> USE CollectorAssumption DEF Init
<1>1. TypeOK
  <2>1. /\ queue \in Seq(Entry) /\ toClient \in Seq(ToClient) /\ toBroker \in Seq(ToBroker)
        /\ disk \in [session : BOOLEAN, queue : Seq(Entry), retained : SUBSET Msg]
    BY EmptySeq
  <2>2. IsFiniteSet(retained) /\ IsFiniteSet(disk.retained)
    BY FS_EmptySet
  <2>3. QED
    BY <2>1, <2>2 DEF TypeOK
<1>2. Deduplicated
  BY DEF Deduplicated, StoredWasLive
<1>3. Links /\ Acknowledged
  BY DEF Links, Acknowledged
<1>4. NoLoss /\ SavedNotLost /\ QueueOrdered /\ LinkOrdered /\ HandledInOrder /\ SettledInOrder
  BY DEF NoLoss, SavedNotLost, QueueOrdered, Ascending, LinkOrdered, HandledInOrder,
         SettledInOrder, Numbers
<1>5. Numbered /\ NothingStranded
  BY DEF Numbered, Known, Entries, Incoming, NothingStranded
<1>6. QED
  BY <1>1, <1>2, <1>3, <1>4, <1>5 DEF CollectorInv

\* The invariant holds always, whatever is published, lost, killed or disabled.
THEOREM CollectorInvariance == Spec => []CollectorInv
<1>1. ASSUME CollectorInv, [Next]_vars PROVE CollectorInv'
  BY <1>1, TypeStep, DeduplicatedStep, LinksStep, AcknowledgedStep, NoLossStep, SavedStep,
     QueueStep, NumberedStep, LinkStep, HandledStep, SettledStep, StrandedStep DEF CollectorInv
<1>2. QED
  BY <1>1, CollectorInit, PTL DEF Spec

\* An entry leaves the queue only after ingest has given it a definite answer
\* (mqtt-contract.md:52-53), for any number of messages, faults and connections.
THEOREM NothingLost == Spec => []NoLoss
<1>1. CollectorInv => NoLoss
  BY DEF CollectorInv
<1>2. QED
  BY <1>1, CollectorInvariance, PTL

\* However often a message is redelivered, also by a broker that fell back to an
\* old persistence file and after a removal of its device, it never has two records.
THEOREM EachStoredOnce == Spec => []StoredOnce
<1>1. CollectorInv => StoredOnce
  BY DEF CollectorInv, Deduplicated, StoredOnce
<1>2. QED
  BY <1>1, CollectorInvariance, PTL

\* No retained copy of a message that was not also queued live is ever stored.
THEOREM OnlyLiveStored == Spec => []StoredWasLive
<1>1. CollectorInv => StoredWasLive
  BY DEF CollectorInv, Deduplicated
<1>2. QED
  BY <1>1, CollectorInvariance, PTL

\* No entry is settled before the entries the broker queued ahead of it.
THEOREM InOrder == Spec => []SettledInOrder
<1>1. CollectorInv => SettledInOrder
  BY DEF CollectorInv
<1>2. QED
  BY <1>1, CollectorInvariance, PTL

\* What the broker has saved stays settled or queued through its own kills.
THEOREM SavedStay == Spec => []SavedNotLost
<1>1. CollectorInv => SavedNotLost
  BY DEF CollectorInv
<1>2. QED
  BY <1>1, CollectorInvariance, PTL

\* No entry, and no subscription, is forgotten on a connection that still stands.
THEOREM NobodyStranded == Spec => []NothingStranded
<1>1. CollectorInv => NothingStranded
  BY DEF CollectorInv
<1>2. QED
  BY <1>1, CollectorInvariance, PTL

-----------------------------------------------------------------------------
(* The collector implements DurableDelivery                                 *)

\* New publications and retained copies arrive.
LEMMA Arriving ==
    ASSUME CollectorInv,
           \/ \E m \in Msg, retain \in BOOLEAN : Publish(m, retain)
           \/ \E copies \in Copies : BrokerSubscribe(copies)
    PROVE  Delivery!Arrive
<1> TypeOK /\ Numbered /\ Deduplicated
  BY DEF CollectorInv
<1> DEFINE new == Entries(queue') \ Entries(queue)
<1>1. PICK k : Grows(k)
  BY Arrivals
<1>2. UNCHANGED <<disk, settled, receipts, enabled>>
  BY Arrivals DEF storeVars
<1>3. /\ lastNo \in Nat /\ k \in Nat /\ lastNo' = lastNo + k
      /\ Entries(queue) \subseteq Entries(queue')
      /\ \A e \in Entries(queue') : e \in Entries(queue) \/ e.no \in (lastNo + 1)..lastNo'
      /\ \A e, f \in Entries(queue') :
            e \notin Entries(queue) /\ f \notin Entries(queue) /\ e.no = f.no => e = f
      /\ Numbers(queue') = Numbers(queue) \cup ((lastNo + 1)..lastNo')
  BY <1>1, GrownNumbers
<1>4. lastNo' \in Nat /\ lastNo <= lastNo'
  BY <1>3
<1>5. \A n \in (lastNo + 1)..lastNo' : n \notin 1..lastNo
  BY <1>3
<1>6. \A e \in new : e.no \in (lastNo + 1)..lastNo' /\ e.no \notin settled
  BY <1>3, <1>5 DEF Numbered
<1>7. /\ Unsettled(queue)' = Unsettled(queue) \cup new
      /\ new \subseteq Unsettled(queue)' \ Unsettled(queue)
  BY <1>2, <1>3, <1>6 DEF Unsettled
<1>8. {e.no : e \in new} = (lastNo + 1)..lastNo'
  <2>1. ASSUME NEW n \in (lastNo + 1)..lastNo' PROVE \E e \in new : e.no = n
    <3>1. PICK i \in DOMAIN queue' : queue'[i].no = n
      BY <1>3 DEF Numbers
    <3>2. queue'[i] \notin Entries(queue)
      BY <1>5, <3>1 DEF Numbered, Known
    <3>3. QED
      BY <3>1, <3>2 DEF Entries
  <2>2. QED
    BY <1>6, <2>1
<1>9. \A e, f \in new : e.no = f.no => e = f
  BY <1>3
<1>10. \A e \in new : e.retain \/ e.msg \in live'
  <2>1. Deduplicated'
    BY DeduplicatedStep DEF Next, BrokerStep
  <2>2. QED
    BY <2>1 DEF Deduplicated, Genuine, Entries
<1>11. live \subseteq live'
  BY PublishGrows DEF BrokerSubscribe
<1>12. Unsettled(disk.queue)' = Unsettled(disk.queue)
  BY <1>2 DEF Unsettled
<1> HIDE DEF new
<1>13. QED
  BY <1>2, <1>4, <1>7, <1>8, <1>9, <1>10, <1>11, <1>12 DEF Delivery!Arrive

\* A callback that gets to its end settles the oldest entry that waits, or
\* stores the message of one that the queue does not hold any more.
LEMMA Settling ==
    ASSUME CollectorInv, Settle
    PROVE  \/ \E e \in Unsettled(queue) : Delivery!Settle(e)
           \/ \E m \in Msg : Delivery!StoreOnly(m)
           \/ UNCHANGED <<Unsettled(queue), Unsettled(disk.queue), lastNo, receipts, live, enabled>>
<1> TypeOK /\ Numbered /\ Deduplicated /\ HandledInOrder /\ SavedNotLost
  BY DEF CollectorInv
<1> DEFINE h == handling
<1>1. /\ h \in Entry /\ h # None /\ ~decided /\ h \in Known /\ Genuine(h)
      /\ settled' = settled \cup {h.no}
      /\ UNCHANGED <<queue, disk, lastNo, live, enabled>>
  BY DEF Settle, InCallback, TypeOK, Known, Deduplicated, brokerVars
<1>2. h.msg \in Msg /\ h.no \in Nat
  BY <1>1 DEF Entry
<1>3. Entries(queue) \subseteq Known /\ Entries(disk.queue) \subseteq Known
  BY DEF Known
<1>4. \A e \in Entries(queue) \cup Entries(disk.queue) : e.no = h.no <=> e = h
  BY <1>1, <1>3 DEF Numbered
<1>5. /\ Unsettled(queue)' = Unsettled(queue) \ {h}
      /\ Unsettled(disk.queue)' = Unsettled(disk.queue) \ {h}
  BY <1>1, <1>4 DEF Unsettled
<1> DEFINE wanted == h.msg \in live /\ h.msg \in Valid /\ DeviceOf[h.msg] \in enabled
<1>6. receipts' = IF ~h.retain /\ wanted THEN receipts \cup {h.msg} ELSE receipts
  <2>1. ~h.retain => h.msg \in live
    BY <1>1 DEF Genuine
  <2>2. CASE ~h.retain /\ h.msg \in Valid /\ Storable(h.msg)
    BY <2>1, <2>2 DEF Settle, Store, Storable
  <2>3. CASE ~ (~h.retain /\ h.msg \in Valid /\ Storable(h.msg))
    BY <2>3 DEF Settle, Storable
  <2>4. QED
    BY <2>2, <2>3
<1>7. CASE h \in Unsettled(queue)
  <2>1. \A f \in Unsettled(queue) : h.no <= f.no
    <3> SUFFICES ASSUME NEW f \in Unsettled(queue), ~ (h.no <= f.no) PROVE FALSE
      OBVIOUS
    <3>1. f \in Entries(queue) /\ f.no \in Numbers(queue) /\ f.no \notin settled
      BY DEF Unsettled, Entries, Numbers
    <3>2. f.no \in Nat
      BY <1>3, <3>1 DEF Numbered, TypeOK
    <3>3. f.no < h.no
      BY <1>2, <3>2
    <3>4. QED
      BY <1>1, <3>1, <3>3 DEF HandledInOrder
  <2>2. Delivery!Settle(h)
    BY <1>1, <1>5, <1>6, <2>1 DEF Delivery!Settle, Delivery!Oldest, Delivery!Wanted
  <2>3. QED
    BY <1>7, <2>2
<1>8. CASE h \notin Unsettled(queue)
  <2>1. h \notin Unsettled(disk.queue)
    <3> SUFFICES ASSUME h \in Entries(disk.queue), h.no \notin settled PROVE h \in Entries(queue)
      BY <1>8 DEF Unsettled
    <3>1. h.no \in Numbers(disk.queue)
      BY DEF Entries, Numbers
    <3>2. PICK i \in DOMAIN queue : queue[i].no = h.no
      BY <3>1 DEF SavedNotLost, Numbers
    <3>3. queue[i] \in Entries(queue)
      BY DEF Entries
    <3>4. QED
      BY <1>4, <3>2, <3>3
  <2>2. UNCHANGED <<Unsettled(queue), Unsettled(disk.queue)>>
    BY <1>5, <1>8, <2>1
  <2>3. CASE ~h.retain /\ wanted
    BY <1>1, <1>2, <1>6, <2>2, <2>3 DEF Delivery!StoreOnly, Delivery!Wanted
  <2>4. CASE ~ (~h.retain /\ wanted)
    BY <1>1, <1>6, <2>2, <2>4
  <2>5. QED
    BY <2>3, <2>4
<1>9. QED
  BY <1>7, <1>8

\* Every step is one of DurableDelivery's, or changes nothing it speaks of.
LEMMA DeliveryStep ==
    ASSUME CollectorInv, [Next]_vars
    PROVE  \/ Delivery!Next
           \/ UNCHANGED <<Unsettled(queue), Unsettled(disk.queue), lastNo, receipts, live, enabled>>
<1> TypeOK /\ Deduplicated /\ QueueOrdered /\ Acknowledged
  BY DEF CollectorInv
<1>1. CASE UNCHANGED <<queue, disk, lastNo, settled, receipts, live, enabled>>
  BY <1>1 DEF Unsettled
<1>2. CASE \/ \E m \in Msg, retain \in BOOLEAN : Publish(m, retain)
           \/ \E copies \in Copies : BrokerSubscribe(copies)
  BY <1>2, Arriving DEF Delivery!Next
<1>3. CASE BrokerAck
  <2>1. UNCHANGED <<disk, lastNo, settled, receipts, live, enabled>>
    BY <1>3 DEF BrokerAck, storeVars
  <2>2. Unsettled(queue)' = Unsettled(queue)
    BY <1>3, <2>1, AckNumbers DEF Unsettled
  <2>3. QED
    BY <2>1, <2>2 DEF Unsettled
<1>4. CASE BrokerSave
  <2>1. disk'.queue = queue /\ UNCHANGED <<queue, lastNo, settled, receipts, live, enabled>>
    BY <1>4 DEF BrokerSave, storeVars
  <2>2. QED
    BY <2>1 DEF Unsettled, Delivery!Next, Delivery!Save
<1>5. CASE BrokerKill
  <2>1. queue' = disk.queue /\ UNCHANGED <<disk, lastNo, settled, receipts, live, enabled>>
    BY <1>5 DEF BrokerKill, storeVars
  <2>2. QED
    BY <2>1 DEF Unsettled, Delivery!Next, Delivery!Lose
<1>6. CASE Settle
  BY <1>6, Settling DEF Delivery!Next
<1>7. CASE Raise
  <2>1. UNCHANGED <<queue, disk, lastNo, settled, live, enabled>>
    BY <1>7 DEF Raise, brokerVars
  <2>2. UNCHANGED <<Unsettled(queue), Unsettled(disk.queue)>>
    BY <2>1 DEF Unsettled
  <2>3. handling.msg \in Msg /\ handling.msg \in live /\ handling.msg \in Valid
    BY <1>7 DEF Raise, InCallback, TypeOK, Entry, Deduplicated, Genuine
  <2>4. CASE Storable(handling.msg) /\ Store(handling.msg)
    BY <2>1, <2>2, <2>3, <2>4
    DEF Storable, Store, Delivery!Next, Delivery!StoreOnly, Delivery!Wanted
  <2>5. CASE UNCHANGED receipts
    BY <2>1, <2>2, <2>5
  <2>6. QED
    BY <1>7, <2>4, <2>5 DEF Raise
<1>8. ASSUME NEW d \in Device, SetEnabled(d) PROVE Delivery!Next
  <2>1. UNCHANGED <<queue, disk, lastNo, settled, receipts, live>>
    BY <1>8 DEF SetEnabled, brokerVars
  <2>2. enabled' \subseteq Device
    BY <1>8 DEF SetEnabled, TypeOK
  <2>3. QED
    BY <2>1, <2>2 DEF Unsettled, Delivery!Next, Delivery!Configure
<1>9. ASSUME NEW d \in Device, RemoveDevice(d) PROVE Delivery!Next
  <2>1. UNCHANGED <<queue, disk, lastNo, settled, live>>
    BY <1>9 DEF RemoveDevice, brokerVars
  <2>2. Delivery!Forget(d)
    BY <1>9, <2>1 DEF RemoveDevice, Unsettled, Delivery!Forget
  <2>3. QED
    BY <2>2 DEF Delivery!Next
<1>10. QED
  BY <1>1, <1>2, <1>3, <1>4, <1>5, <1>6, <1>7, <1>8, <1>9
  DEF vars, brokerVars, linkVars, procVars, storeVars, bounds, Next, BrokerStep, NetworkStep,
      MainStep, BrokerSend, BrokerRestart, BrokerRefuse, Connect, OnMessage, OnRefused, Ack,
      NetworkLoss, Launch, Stop, Join, Again, Signal, Crash

\* Broker and collector together are the delivery the contract speaks of
\* (mqtt-contract.md:45-60), through any losses, failures, restarts and kills.
THEOREM DeliveryImplemented == Spec => ImplementsDelivery
<1>1. Init => Delivery!Init
  BY DEF Init, Delivery!Init, Unsettled, Entries
<1>2. CollectorInv /\ [Next]_vars =>
         [Delivery!Next]_<<Unsettled(queue), Unsettled(disk.queue), lastNo, receipts, live, enabled>>
  BY DeliveryStep
<1>3. QED
  BY <1>1, <1>2, CollectorInvariance, PTL DEF Spec, ImplementsDelivery, Delivery!Spec
=============================================================================
