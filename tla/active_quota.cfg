SPECIFICATION Spec
CONSTANTS
    p1 = p1  p2 = p2  p3 = p3  p4 = p4
    n1 = n1  n2 = n2
    r1 = r1  r2 = r2  k1 = k1  k2 = k2
    http = http  auto = auto
    None = None  Same = Same
    Code = {1, 2}
    Account = {1}
    Namespace = {n1, n2}
    Region = {r1}
    Cluster = {k1}
    RegionOf <- OneRegion
    Port = {80}
    Policy = {http}
    MaxTunnels = 1
    MaxPortsPerTunnel = 1
    MaxHours = 2
    Retention = 1
    TunnelCodeRetries = 2
    CleanupBatch = 1
    SettleBatch = 2
    MaxTime = 3
    MaxReports = 1
    MaxFailures = 0
    Proc = {p1, p2, p3}
    Work <- QuotaWork
INVARIANTS
    ActiveQuota
