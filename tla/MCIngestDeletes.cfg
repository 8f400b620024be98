\* Two overlapping deletes of either kind and two deliveries, of one message or of
\* two, for one device; messages that race with a clear are remembered.
SPECIFICATION RaceSpec
CONSTANTS
    d1 = d1  m1 = m1  m2 = m2  w1 = w1  w2 = w2  a1 = a1  a2 = a2
    Device = {d1}
    Param = {p1}
    Msg = {m1, m2}
    DeviceOf <- OneDevice
    Worker = {w1}
    Admin = {a1, a2}
    DeleteOps = {"remove", "clear"}
    None = None
    MaxDeliveries = 2
    MaxDeletes = 2
SYMMETRY SessionsAndMsgs
INVARIANTS
    RaceInv
    RecordsWhole
    OneRecordUnlessRaced
PROPERTIES
    ImplementsUnlessRaced
