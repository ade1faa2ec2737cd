SPECIFICATION FairSpec
CONSTANTS
    d1 = d1
    u1 = u1  u2 = u2
    r1 = r1  r2 = r2
    p1 = p1  p2 = p2
    None = None
    Domain = {d1}
    User = {u1, u2}
    DomainOf <- SharedDomain
    Id = {1, 2}
    Replica = {r1, r2}
    Proc = {p1, p2}
    On <- OneEach
    MaxRotations = 1
    MaxFailures = 1
INVARIANTS
    TypeOK
    KeyNamesIdentity
PROPERTIES
    IdentitySpec
    RotationCompletes
