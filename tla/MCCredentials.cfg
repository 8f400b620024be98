\* Three requests about three devices in two sessions, room for two devices; the
\* broker's container is started again once.  It stops when all is used up.
SPECIFICATION AccessSpec
CONSTANTS
    Device = {d1, d2, d3}
    Session = {s1, s2}
    None = None
    MaxDevices = 2
    MaxRequests = 3
    MaxCrashes = 1
    MaxStarts = 1
CHECK_DEADLOCK FALSE
INVARIANTS
    AccessInv
    CapacityKept
    ShownPasswordWorks
    NoStrayCredential
PROPERTIES
    RequestsEnd
    AccessFollowsTable
