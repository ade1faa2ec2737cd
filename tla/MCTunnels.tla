----------------------------- MODULE MCTunnels -----------------------------
(* Small instances of Tunnels for TLC: the places, and the work of each run. *)
EXTENDS Tunnels, TLC

CONSTANTS p1, p2, p3, p4        \* processes
CONSTANTS n1, n2                \* namespaces
CONSTANTS r1, r2, k1, k2        \* regions and their clusters
CONSTANTS http, auto            \* port policies

OneRegion == [k \in {k1} |-> r1]
TwoRegions == k1 :> r1 @@ k2 :> r2
TwoClusters == [k \in {k1, k2} |-> r1]

Create(r, k, n, a, h) ==
    [op |-> "createTunnel", region |-> r, ns |-> n, acct |-> a, cluster |-> k,
     hours |-> h]
Update(r, n, c, h) ==
    [op |-> "updateTunnel", region |-> r, ns |-> n, code |-> c, hours |-> h]
PortOp(op, n, c, x, v) ==
    [op |-> op, region |-> r1, ns |-> n, code |-> c, port |-> x, policy |-> v]
PortDeletion(n, c, x) ==
    [op |-> "deletePort", region |-> r1, ns |-> n, code |-> c, port |-> x]
Deletion(r, n, c) ==
    [op |-> "deleteTunnel", region |-> r, ns |-> n, code |-> c]
Deletions(r, n) == [op |-> "deleteTunnels", region |-> r, ns |-> n]
JobRun(op, r) == [op |-> op, region |-> r]

-----------------------------------------------------------------------------
\* Two handlers create tunnels of one account, for two of its namespaces, while
\* deletions, a change of expiration and a settlement move its tunnels in and
\* out of the count.
QuotaWork ==
    p1 :> {Create(r1, k1, n1, 1, 2)}
    @@ p2 :> {Create(r1, k1, n2, 1, 2), Deletion(r1, n1, 1)}
    @@ p3 :> {Update(r1, n1, 1, 1), JobRun("settle", r1)}

\* Three handlers change the ports, the metadata and the existence of one
\* tunnel, with requests of its own namespace and of another.
PortWork ==
    p1 :> {Create(r1, k1, n1, 1, 2), PortOp("createPort", n1, 1, 80, http),
           PortOp("updatePort", n1, 1, 80, auto)}
    @@ p2 :> {PortOp("createPort", n1, 1, 443, http), PortDeletion(n1, 1, 80),
              Deletion(r1, n1, 1), Update(r1, n2, 1, 1)}
    @@ p3 :> {Update(r1, n1, 1, Same), Update(r1, n1, 1, 0),
              Update(r1, n1, 1, 2), Deletions(r1, n1),
              PortOp("updatePort", n1, 1, 80, Same)}

\* Two regions share the account and the namespace; each may give the code to
\* a tunnel of its own while the other settles and cleans up.
RegionWork ==
    p1 :> {Create(r1, k1, n1, 1, 2), Deletion(r1, n1, 1), Deletions(r1, n1)}
    @@ p2 :> {Create(r2, k2, n1, 1, 2), JobRun("settle", r2)}
    @@ p3 :> {JobRun("settle", r1)}
    @@ p4 :> {JobRun("cleanup", r1), JobRun("cleanup", r2)}

\* Tunnels of two clusters age while a handler keeps locking one of them and
\* two replicas run cleanup.
CleanupWork ==
    p1 :> {Create(r1, k1, n1, 1, 1), Create(r1, k2, n1, 1, 1),
           Update(r1, n1, 2, 0)}
    @@ p2 :> {JobRun("cleanup", r1)}
    @@ p3 :> {JobRun("cleanup", r1)}

=============================================================================
