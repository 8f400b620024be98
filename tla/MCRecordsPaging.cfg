\* The dashboard asks for one record more than it displays.
SPECIFICATION Spec
CONSTANTS
    p = p  q = q  t = t
    Param = {p, q, t}
    Hidden = {t}
    Payload <- Payloads
    Configured <- Whitelists
    Time = {1}
    Interval = {1}
    Limit = 2
    Shown = 1
    MaxRecords = 2
    MaxChanges = 0
INVARIANTS
    PagesComplete
