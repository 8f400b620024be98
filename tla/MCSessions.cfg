\* Three requests in two API sessions and two runs of the CLI, for one account.
SPECIFICATION FairSpec
CONSTANTS
    User = {u1}
    Request = {w1, w2}
    Cli = {c1, c2}
    None = None
    Ttl = 1
    MaxTime = 1
    MaxRequests = 3
    MaxRuns = 3
CHECK_DEADLOCK FALSE
INVARIANTS
    SessionsInv
    SurvivorsOverlapped
    LoggedOutStaysOut
PROPERTIES
    SessionsLast
    CreateKeepsPassword
    CallsEnd
