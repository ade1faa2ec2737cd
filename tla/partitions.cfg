SPECIFICATION FairSpec
CONSTANTS
    c1 = c1  c2 = c2
    None = None
    Replica = {c1, c2}
    Retention = 1
    FutureHours = 1
    MaxHour = 5
    MaxRows = 2
    MaxFailures = 1
INVARIANTS
    TypeOK
    HourlyAudit
    NoConflict
PROPERTIES
    RetainedRows
    Maintained
