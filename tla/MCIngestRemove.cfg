\* Three deliveries of one message in two sessions, while the device is removed,
\* registered again and reconfigured; the two removals can overlap.
SPECIFICATION Spec
CONSTANTS
    d1 = d1  m1 = m1  m2 = m2  w1 = w1  w2 = w2  a1 = a1  a2 = a2
    Device = {d1}
    Param = {p1}
    Msg = {m1}
    DeviceOf <- OneMessage
    Worker = {w1, w2}
    Admin = {a1, a2}
    DeleteOps = {"remove"}
    None = None
    MaxDeliveries = 3
    MaxDeletes = 2
SYMMETRY Sessions
INVARIANTS
    OneRecordPerMessage
    NoOrphans
    DeadlocksOfDeletes
PROPERTIES
    AnswerBackedByReceipt
    HistoryNotRewritten
    StoredWhileAllowed
    ImplementsRegistry
