\* One login and one reset.
SPECIFICATION FairSpec
CONSTANTS
    User = {u1}
    Request = {w1}
    Cli = {c1}
    None = None
    Ttl = 1
    MaxTime = 0
    MaxRequests = 1
    MaxRuns = 2
CHECK_DEADLOCK FALSE
PROPERTIES
    ResetEndsSessions
