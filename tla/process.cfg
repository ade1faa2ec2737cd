SPECIFICATION FairSpec
CONSTANTS
    h1 = h1  h2 = h2
    Handler = {h1, h2}
    Route = {"createTunnel", "listTunnels", "deleteTunnel"}
    Job = {"settlement", "partitions"}
    MaxOpen = 2
INVARIANTS
    TypeOK
    ClosedLast
PROPERTIES
    Served
    Terminates
