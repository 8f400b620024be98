-------------------------- MODULE DurableDelivery --------------------------
(***************************************************************************)
(* What the durable subscription and the collector promise together         *)
(* (docs/mqtt-contract.md:36-37 and 45-60): entries are settled oldest first, *)
(* one at a time, once each; a live message of the contract is stored when   *)
(* its entry is settled, unless its device is disabled; only the removal of  *)
(* its device forgets a stored message; only the death of the broker takes   *)
(* an unsettled entry away, and never one it has saved.                      *)
(***************************************************************************)
EXTENDS Naturals

CONSTANTS Device, Msg, DeviceOf, Valid

VARIABLES
    pending,  \* entries waiting to be settled, each with a number of its own
    saved,    \* those of them that survive a death of the broker
    last,     \* number of the newest entry
    stored,   \* messages that are stored
    live,     \* messages that were queued live, not as a retained copy
    enabled   \* registered and enabled devices

Init ==
    /\ pending = {} /\ saved = {} /\ last = 0 /\ stored = {} /\ live = {}
    /\ enabled \in SUBSET Device

\* New entries get the numbers that follow the last one's.
Arrive ==
    /\ last' \in Nat /\ last <= last'
    /\ \E new \in SUBSET (pending' \ pending) :
          /\ pending' = pending \cup new
          /\ {e.no : e \in new} = (last + 1)..last'
          /\ \A e, f \in new : e.no = f.no => e = f
          /\ \A e \in new : e.retain \/ e.msg \in live'
    /\ live \subseteq live'
    /\ UNCHANGED <<saved, stored, enabled>>

Oldest(e) == \A f \in pending : e.no <= f.no

\* A message that would be stored now.
Wanted(m) == m \in live /\ m \in Valid /\ DeviceOf[m] \in enabled

\* The oldest entry is settled, and its message stored if it has to be.
Settle(e) ==
    /\ Oldest(e)
    /\ pending' = pending \ {e} /\ saved' = saved \ {e}
    /\ stored' = IF ~e.retain /\ Wanted(e.msg) THEN stored \cup {e.msg} ELSE stored
    /\ UNCHANGED <<last, live, enabled>>

\* A message is stored without its entry being settled: the answer was lost, or
\* its entry was settled before and is delivered once more.
StoreOnly(m) ==
    /\ Wanted(m)
    /\ stored' = stored \cup {m}
    /\ UNCHANGED <<pending, saved, last, live, enabled>>

\* The broker saves its state, or loses what it has not saved.
Save == saved' = pending /\ UNCHANGED <<pending, last, stored, live, enabled>>
Lose == pending' = saved /\ UNCHANGED <<saved, last, stored, live, enabled>>

Configure == enabled' \subseteq Device /\ UNCHANGED <<pending, saved, last, stored, live>>

\* A device is removed, with all that was stored of it.
Forget(d) ==
    /\ enabled' = enabled \ {d}
    /\ stored' = {m \in stored : DeviceOf[m] # d}
    /\ UNCHANGED <<pending, saved, last, live>>

Next ==
    \/ Arrive
    \/ \E e \in pending : Settle(e)
    \/ \E m \in Msg : StoreOnly(m)
    \/ Save \/ Lose \/ Configure
    \/ \E d \in Device : Forget(d)

Spec == Init /\ [][Next]_<<pending, saved, last, stored, live, enabled>>
=============================================================================
