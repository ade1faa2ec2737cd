SPECIFICATION Spec
CONSTANTS
    p1 = p1  p2 = p2  p3 = p3
    r1 = r1  r2 = r2
    None = None
    Account = {1}
    Tunnel = {1, 2}
    Region = {r1, r2}
    Month = {1, 2}
    Row = {1, 2, 3, 4}
    RowOf <- LedgerRows
    Quota = 2
    MaxBytes = 9
    Proc = {p1, p2, p3}
    Work <- LedgerWork
    BatchLimit = 2
    MaxFailures = 0
INVARIANTS
    TypeOK
    BilledExactly
    BlockAgrees
PROPERTIES
    LedgerSpec
    TokenWithinQuota
