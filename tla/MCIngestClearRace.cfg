\* One delivery overlaps clear_device_telemetry and is then redelivered.
SPECIFICATION Spec
CONSTANTS
    d1 = d1  m1 = m1  m2 = m2  w1 = w1  w2 = w2  a1 = a1  a2 = a2
    Device = {d1}
    Param = {p1}
    Msg = {m1}
    DeviceOf <- OneMessage
    Worker = {w1}
    Admin = {a1}
    DeleteOps = {"clear"}
    None = None
    MaxDeliveries = 2
    MaxDeletes = 1
SYMMETRY Sessions
INVARIANTS
    OneRecordPerMessage
