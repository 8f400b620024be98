\* A client of the API that displays what it asks for, one record per page, and
\* exports; three records, in or out of the interval, come and go meanwhile.
SPECIFICATION Spec
CONSTANTS
    p = p  q = q  t = t
    Param = {p, q, t}
    Hidden = {t}
    Payload <- Payloads
    Configured <- Whitelists
    Time = {1, 2, 3}
    Interval = {1, 2}
    Limit = 1
    Shown = 1
    MaxRecords = 3
    MaxChanges = 1
INVARIANTS
    PagingInv
    PagesComplete
    PageFaithful
    HistoryExported
    LinePerRecord
