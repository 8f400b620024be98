\* Two overlapping deletes of either kind and a delivery of the same device: everybody finishes.
SPECIFICATION FairSpec
CONSTANTS
    d1 = d1  m1 = m1  m2 = m2  w1 = w1  w2 = w2  a1 = a1  a2 = a2
    Device = {d1}
    Param = {p1}
    Msg = {m1}
    DeviceOf <- OneMessage
    Worker = {w1}
    Admin = {a1, a2}
    DeleteOps = {"remove", "clear"}
    None = None
    MaxDeliveries = 1
    MaxDeletes = 2
PROPERTIES
    CallsEnd
