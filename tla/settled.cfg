SPECIFICATION FairSpec
CONSTANTS
    p1 = p1  p2 = p2  p3 = p3
    r1 = r1  r2 = r2
    None = None
    Account = {1, 2}
    Tunnel = {1}
    Region = {r1, r2}
    Month = {1}
    Row = {1, 2, 3, 4}
    RowOf <- LiveRows
    Quota = 2
    MaxBytes = 9
    Proc = {p1, p2, p3}
    Work <- LiveWork
    BatchLimit = 2
    MaxFailures = 1
PROPERTIES
    LedgerSpec
    EveryRowSettled
