------------------------- MODULE TelemetryRegistry -------------------------
(***************************************************************************)
(* What the telemetry store promises: a message is accepted at most once,   *)
(* its readings are fixed at that moment, and both disappear only together  *)
(* with everything else its device has sent (docs/mqtt-contract.md:45-57).  *)
(***************************************************************************)
CONSTANTS Device, Param, Msg, DeviceOf

VARIABLES
    seen,   \* messages accepted since their device's data was last deleted
    kept    \* the parameters stored for each message

Init == seen = {} /\ kept = [m \in Msg |-> {}]

\* A transmission is accepted with whatever part of it is approved.
Accept(m, approved) ==
    /\ m \notin seen
    /\ seen' = seen \cup {m}
    /\ kept' = [kept EXCEPT ![m] = approved]

\* The data of a device is deleted as a whole.
Forget(d) ==
    /\ seen' = {m \in seen : DeviceOf[m] # d}
    /\ kept' = [m \in Msg |-> IF DeviceOf[m] = d THEN {} ELSE kept[m]]

\* Part of what a device has sent is deleted, message by message as a whole.
Clear(d, ms) ==
    /\ \A m \in ms : DeviceOf[m] = d
    /\ seen' = seen \ ms
    /\ kept' = [m \in Msg |-> IF m \in ms THEN {} ELSE kept[m]]

Next ==
    \/ \E m \in Msg, approved \in SUBSET Param : Accept(m, approved)
    \/ \E d \in Device : Forget(d)

Spec == Init /\ [][Next]_<<seen, kept>>

\* The same promise where data may be cleared while its device stays.
ClearingNext == Next \/ \E d \in Device, ms \in SUBSET seen : Clear(d, ms)

ClearingSpec == Init /\ [][ClearingNext]_<<seen, kept>>
=============================================================================
