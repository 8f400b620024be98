\* A valid and an invalid message, two publications beside the retained copies, a
\* fault of the collector or its connection, and a kill of the broker.
SPECIFICATION Spec
CONSTANTS
    d1 = d1  m1 = m1  m2 = m2
    Device = {d1}
    Msg = {m1, m2}
    DeviceOf <- OneDevice
    Valid = {m1}
    None = None
    MaxPublish = 2
    MaxQueued = 2
    MaxFaults = 1
    MaxBrokerKills = 1
INVARIANTS
    CollectorInv
    NoLoss
    NothingStranded
PROPERTIES
    ImplementsDelivery
