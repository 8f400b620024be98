\* Four calls of ingest, of either release, in two sessions, and three runs of
\* alembic: up, down and up again.  It stops when all is used up.
SPECIFICATION FairSpec
CONSTANTS
    Session = {w1, w2}
    MaxWrites = 4
    MaxMigrations = 3
CHECK_DEADLOCK FALSE
INVARIANTS
    MigrationInv
    ReadingsRecorded
    IdsFresh
PROPERTIES
    RunsEnd
