\* The broker may be killed and fall back to its last saved state.  Fairness: the
\* queue drains all the same.
SPECIFICATION FairSpec
CONSTANTS
    d1 = d1  m1 = m1  m2 = m2
    Device = {d1}
    Msg = {m1}
    DeviceOf <- OneDevice
    Valid = {m1}
    None = None
    MaxPublish = 2
    MaxQueued = 2
    MaxFaults = 2
    MaxBrokerKills = 1
INVARIANTS
    StoredOnce
    StoredWasLive
PROPERTIES
    QueueDrains
