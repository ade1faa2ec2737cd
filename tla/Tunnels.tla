------------------------------ MODULE Tunnels ------------------------------
(***************************************************************************)
(* The tunnel life cycle of the Relay Controller: the tunnel and           *)
(* tunnel_port tables, and every transaction that changes them - the HTTP  *)
(* handlers that create, change and delete tunnels and ports, the cleanup  *)
(* job, and the part of the settlement job that moves tunnel deadlines -   *)
(* run concurrently by any number of replicas over one InnoDB database.    *)
(*                                                                         *)
(* A process of Proc runs one transaction at a time.  It takes row locks   *)
(* as its SQL statements do, keeps its writes in a private draft, and      *)
(* Commit publishes the draft and frees the locks.  The clock counts       *)
(* hours; it may advance between any two steps.                            *)
(***************************************************************************)
EXTENDS Integers, FiniteSets

CONSTANTS
    Code,               \* tunnel codes; a tunnel id is the encoding of its code
    Namespace, Account, Region, Cluster,
    RegionOf,           \* the region each cluster is registered to
    Port, Policy,       \* port numbers; protocol and anonymity of a port
    Proc,               \* request handlers and job runners, of all replicas
    Work,               \* the requests each process may be asked to run
    None,               \* an absent row, holder or request
    Same,               \* "leave this field as it is"
    MaxTunnels, MaxPortsPerTunnel,  \* limits of the billing plan
    MaxHours,           \* the longest expiration a request may ask for
    Retention,          \* hours an expired tunnel is kept before cleanup
    TunnelCodeRetries, CleanupBatch, SettleBatch,
    MaxTime,            \* bound: last value of the clock
    MaxReports,         \* bound: unsettled metering rows at a time
    MaxFailures         \* bound: transactions cut short by a failure

Hours == 0 .. MaxHours + 1

\* What a client or a job timer may ask one process to do.
Request ==
    [op : {"createTunnel"}, region : Region, ns : Namespace, acct : Account,
     cluster : Cluster, hours : Hours]
    \cup [op : {"updateTunnel"}, region : Region, ns : Namespace, code : Code,
          hours : Hours \cup {Same}]
    \cup [op : {"createPort", "updatePort"}, region : Region, ns : Namespace,
          code : Code, port : Port, policy : Policy \cup {Same}]
    \cup [op : {"deletePort"}, region : Region, ns : Namespace, code : Code,
          port : Port]
    \cup [op : {"deleteTunnel"}, region : Region, ns : Namespace, code : Code]
    \cup [op : {"deleteTunnels"}, region : Region, ns : Namespace]
    \cup [op : {"cleanup", "settle"}, region : Region]

Tunnel == [ns : Namespace, acct : Account, cluster : Cluster,
           exp : Nat, hours : 1 .. MaxHours]
Metering == [code : Code, acct : Account, cluster : Cluster, at : Nat]

\* The uncommitted version of a tunnel row and its port rows.
Draft == [tunnel : Tunnel \cup {None},
          ports  : [Port -> Policy \cup {None, Same}]]

ASSUME CodeAssumption == Code \subseteq Nat /\ IsFiniteSet(Code)
ASSUME AccountAssumption == Account \subseteq Nat
ASSUME PortAssumption == IsFiniteSet(Port)
ASSUME PlaceAssumption == RegionOf \in [Cluster -> Region]
ASSUME WorkAssumption == Work \in [Proc -> SUBSET Request]
ASSUME LimitAssumption ==
    /\ {MaxTunnels, MaxPortsPerTunnel, MaxHours, Retention} \subseteq Nat \ {0}
    /\ {TunnelCodeRetries, CleanupBatch, SettleBatch} \subseteq Nat \ {0}
    /\ {MaxTime, MaxReports, MaxFailures} \subseteq Nat
ASSUME NoneAssumption ==
    /\ None \notin Proc \cup Policy \cup Tunnel \cup Request \cup Draft
    /\ Same \notin Policy \cup Hours \cup {None}

VARIABLES
    clock,        \* the current hour
    status,       \* billing_account.status, or "absent"
    tunnel,       \* the committed tunnel rows
    ports,        \* the committed tunnel_port rows
    metering,     \* unsettled rows with positive usage, appended by Gateway
    revived,      \* history: tunnels whose lapsed deadline a commit moved on
    pc,           \* the next statement of each process
    req,          \* the request each process runs
    at,           \* the time a handler read once, before its transaction
    attempt,      \* tunnel codes a CreateTunnel has tried
    draft,        \* the rows a transaction has locked, as it will leave them
    accountLock,  \* the process holding each billing_account row
    batch,        \* the metering rows a settlement has locked
    left,         \* ids a settlement has still to lock
    failures      \* transactions cut short so far

vars == <<clock, status, tunnel, ports, metering, revived, pc, req, at,
          attempt, draft, accountLock, batch, left, failures>>

\* What only Commit, the clock, Gateway and the operator change.
shared == <<clock, status, tunnel, ports, metering, revived, failures>>

PC == {"idle", "lock", "account", "count", "insert", "write", "tunnels",
       "accounts", "commit"}

TypeOK ==
    /\ clock \in Nat /\ failures \in Nat
    /\ status \in [Account -> {"absent", "active", "disabled"}]
    /\ tunnel \in [Code -> Tunnel \cup {None}]
    /\ ports \in [Code -> [Port -> Policy \cup {None}]]
    /\ metering \in SUBSET Metering
    /\ revived \in SUBSET Code
    /\ pc \in [Proc -> PC]
    /\ req \in [Proc -> Request \cup {None}]
    /\ at \in [Proc -> Nat]
    /\ attempt \in [Proc -> Nat]
    /\ draft \in [Proc -> [Code -> Draft \cup {None}]]
    /\ accountLock \in [Account -> Proc \cup {None}]
    /\ batch \in [Proc -> SUBSET Metering]
    /\ left \in [Proc -> SUBSET Nat]

Init ==
    /\ clock = 0 /\ failures = 0
    /\ status = [a \in Account |-> "absent"]
    /\ tunnel = [c \in Code |-> None]
    /\ ports = [c \in Code |-> [x \in Port |-> None]]
    /\ metering = {}
    /\ revived = {}
    /\ pc = [p \in Proc |-> "idle"]
    /\ req = [p \in Proc |-> None]
    /\ at = [p \in Proc |-> 0]
    /\ attempt = [p \in Proc |-> 0]
    /\ draft = [p \in Proc |-> [c \in Code |-> None]]
    /\ accountLock = [a \in Account |-> None]
    /\ batch = [p \in Proc |-> {}]
    /\ left = [p \in Proc |-> {}]

-----------------------------------------------------------------------------
(* Rows, locks and transactions.                                           *)

OwnedOps == {"updateTunnel", "deleteTunnel", "createPort", "updatePort",
             "deletePort"}

Larger(m, n) == IF m >= n THEN m ELSE n
Smaller(m, n) == IF m <= n THEN m ELSE n

ValidHours(h) == h \in 1 .. MaxHours

LockedByOther(p, c) == \E q \in Proc \ {p} : draft[q][c] # None

Untouched == [x \in Port |-> Same]
Erased == [tunnel |-> None, ports |-> [x \in Port |-> None]]

\* A deadline moves only forward, and only while it lies after the activity.
Refresh(t, activityAt) ==
    IF t.exp > activityAt
    THEN [t EXCEPT !.exp = Larger(t.exp, activityAt + t.hours)]
    ELSE t

Goto(p, label) == pc' = [pc EXCEPT ![p] = label]

\* A transaction's end, after COMMIT or ROLLBACK: every lock is released.
Release(p) ==
    /\ Goto(p, "idle")
    /\ req' = [req EXCEPT ![p] = None]
    /\ at' = [at EXCEPT ![p] = 0]
    /\ attempt' = [attempt EXCEPT ![p] = 0]
    /\ draft' = [draft EXCEPT ![p] = [c \in Code |-> None]]
    /\ accountLock' = [a \in Account |->
                         IF accountLock[a] = p THEN None ELSE accountLock[a]]
    /\ batch' = [batch EXCEPT ![p] = {}]
    /\ left' = [left EXCEPT ![p] = {}]

Rollback(p) == Release(p) /\ UNCHANGED shared

Publish(p, d) == draft' = [draft EXCEPT ![p] = d]

-----------------------------------------------------------------------------
(* A process accepts a request.                                            *)

\* The clock readings CreateTunnel, UpdateTunnel and the cleanup job take
\* before their transaction begins.
ReadsClockFirst == {"createTunnel", "updateTunnel", "cleanup"}

Start(p, r, label) ==
    /\ r \in Work[p]
    /\ pc[p] = "idle"
    /\ Goto(p, label)
    /\ req' = [req EXCEPT ![p] = r]
    /\ at' = [at EXCEPT ![p] = IF r.op \in ReadsClockFirst THEN clock ELSE 0]
    /\ UNCHANGED <<clock, tunnel, ports, metering, revived, attempt, draft,
                   accountLock, batch, left, failures>>

\* CreateTunnel up to its transaction: the expiration and the cluster are
\* checked, and the account is inserted if the namespace has none.
BeginCreateTunnel(p, r) ==
    /\ r.op = "createTunnel"
    /\ ValidHours(r.hours)
    /\ RegionOf[r.cluster] = r.region
    /\ status' = [status EXCEPT ![r.acct] = IF @ = "absent" THEN "active" ELSE @]
    /\ Start(p, r, "account")

\* validateCreatePort insists on a protocol and on allowAnonymous.
Begin(p, r) ==
    /\ r.op # "createTunnel"
    /\ r.op = "createPort" => r.policy # Same
    /\ Start(p, r, "lock")
    /\ UNCHANGED status

-----------------------------------------------------------------------------
(* Locking the rows an operation works on.                                 *)

Found(p, c) == /\ tunnel[c] # None
               /\ RegionOf[tunnel[c].cluster] = req[p].region

\* checkOwnedTunnel: only DeleteTunnel accepts an expired tunnel.
Owned(p, c) ==
    /\ Found(p, c)
    /\ tunnel[c].ns = req[p].ns
    /\ req[p].op = "deleteTunnel" \/ tunnel[c].exp > clock

\* Mutant: the row is read without FOR UPDATE.
LockTunnelUnlocked(p) ==
    /\ pc[p] = "lock" /\ req[p].op \in OwnedOps
    /\ LET c == req[p].code IN
       \/ /\ ~Owned(p, c)
          /\ Rollback(p)
       \/ /\ Owned(p, c)
          /\ Publish(p, [draft[p] EXCEPT ![c] = [tunnel |-> tunnel[c],
                                                 ports |-> Untouched]])
          /\ Goto(p, IF req[p].op = "createPort" THEN "account" ELSE "write")
          /\ UNCHANGED <<shared, req, at, attempt, accountLock, batch, left>>

LockTunnel(p) ==
    /\ pc[p] = "lock" /\ req[p].op \in OwnedOps
    /\ LET c == req[p].code IN
       /\ ~LockedByOther(p, c)
       /\ \/ /\ ~Owned(p, c)
             /\ Rollback(p)
          \/ /\ Owned(p, c)
             /\ Publish(p, [draft[p] EXCEPT ![c] = [tunnel |-> tunnel[c],
                                                    ports |-> Untouched]])
             /\ Goto(p, IF req[p].op = "createPort" THEN "account" ELSE "write")
             /\ UNCHANGED <<shared, req, at, attempt, accountLock, batch, left>>

\* The account a process has to lock next, and whether its handler accepts it.
AccountNeeded(p) == IF req[p].op = "createTunnel" THEN req[p].acct
                    ELSE draft[p][req[p].code].tunnel.acct

\* Mutant: the account is read without FOR UPDATE.
LockAccountUnlocked(p) ==
    /\ pc[p] = "account"
    /\ \/ /\ status[AccountNeeded(p)] # "active"
          /\ Rollback(p)
       \/ /\ status[AccountNeeded(p)] = "active"
          /\ Goto(p, IF req[p].op = "createTunnel" THEN "count" ELSE "write")
          /\ UNCHANGED <<shared, req, at, attempt, draft, accountLock, batch,
                         left>>

LockAccount(p) ==
    /\ pc[p] = "account"
    /\ LET a == AccountNeeded(p) IN
       /\ accountLock[a] = None
       /\ \/ /\ status[a] # "active"
             /\ Rollback(p)
          \/ /\ status[a] = "active"
             /\ accountLock' = [accountLock EXCEPT ![a] = p]
             /\ Goto(p, IF req[p].op = "createTunnel" THEN "count" ELSE "write")
             /\ UNCHANGED <<shared, req, at, attempt, draft, batch, left>>

\* SELECT ... FOR UPDATE over a namespace waits for every row it matches;
\* the deletions of the loop that follows touch only those rows.
LockNamespaceTunnels(p) ==
    /\ pc[p] = "lock" /\ req[p].op = "deleteTunnels"
    /\ LET S == {c \in Code : Found(p, c) /\ tunnel[c].ns = req[p].ns} IN
       /\ \A c \in S : ~LockedByOther(p, c)
       /\ Publish(p, [c \in Code |-> IF c \in S THEN Erased ELSE None])
    /\ Goto(p, "commit")
    /\ UNCHANGED <<shared, req, at, attempt, accountLock, batch, left>>

\* Mutant: one locked tunnel of any cluster hides them all.
SkippedEverywhere(c) == \E d \in Code, q \in Proc :
                            tunnel[d] # None /\ draft[q][d] # None

\* FOR UPDATE SKIP LOCKED passes over a tunnel when its row, or the cluster
\* row the query joins it with, is locked: a transaction on one tunnel of a
\* cluster hides all of them.
Skipped(c) == \E d \in Code, q \in Proc :
                  /\ tunnel[d] # None
                  /\ tunnel[d].cluster = tunnel[c].cluster
                  /\ draft[q][d] # None

\* S is what ORDER BY key LIMIT n leaves of the rows A.
FirstOf(S, A, key, n) ==
    /\ S \subseteq A
    /\ Cardinality(S) = Smaller(n, Cardinality(A))
    /\ \A x \in S, y \in A \ S : key[x] <= key[y]

Aged(p) == {c \in Code : /\ Found(p, c)
                         /\ tunnel[c].exp <= at[p] - Retention}

\* Mutant: neither FOR UPDATE nor SKIP LOCKED.
LockAgedTunnelsUnlocked(p) ==
    /\ pc[p] = "lock" /\ req[p].op = "cleanup"
    /\ LET deadline == [c \in Aged(p) |-> tunnel[c].exp] IN
       \E S \in SUBSET Code :
          /\ FirstOf(S, Aged(p), deadline, CleanupBatch)
          /\ Publish(p, [c \in Code |-> IF c \in S THEN Erased ELSE None])
    /\ Goto(p, "commit")
    /\ UNCHANGED <<shared, req, at, attempt, accountLock, batch, left>>

LockAgedTunnels(p) ==
    /\ pc[p] = "lock" /\ req[p].op = "cleanup"
    /\ LET deadline == [c \in Aged(p) |-> tunnel[c].exp] IN
       \E S \in SUBSET Code :
          /\ FirstOf(S, {c \in Aged(p) : ~Skipped(c)}, deadline, CleanupBatch)
          /\ Publish(p, [c \in Code |-> IF c \in S THEN Erased ELSE None])
    /\ Goto(p, "commit")
    /\ UNCHANGED <<shared, req, at, attempt, accountLock, batch, left>>

-----------------------------------------------------------------------------
(* CreateTunnel, under the account's lock.                                 *)

\* The transaction's read view opens here, so the count sees the committed
\* rows of this moment, against a time read before the account was locked.
CountTunnels(p) ==
    /\ pc[p] = "count"
    /\ LET counted == {c \in Code : /\ tunnel[c] # None
                                    /\ tunnel[c].acct = req[p].acct
                                    /\ tunnel[c].exp > at[p]} IN
       \/ /\ Cardinality(counted) >= MaxTunnels
          /\ Rollback(p)
       \/ /\ Cardinality(counted) < MaxTunnels
          /\ Goto(p, "insert")
          /\ UNCHANGED <<shared, req, at, attempt, draft, accountLock, batch,
                         left>>

NewTunnel(p) == [ns |-> req[p].ns, acct |-> req[p].acct,
                 cluster |-> req[p].cluster,
                 exp |-> at[p] + req[p].hours, hours |-> req[p].hours]

\* One attempt of the retry loop: a random code, and an INSERT that the unique
\* key refuses when a row has that code.
InsertTunnel(p, c) ==
    /\ pc[p] = "insert"
    /\ ~LockedByOther(p, c)
    /\ \/ /\ tunnel[c] = None
          /\ Publish(p, [draft[p] EXCEPT ![c] = [tunnel |-> NewTunnel(p),
                                                 ports |-> Untouched]])
          /\ Goto(p, "commit")
          /\ UNCHANGED <<shared, req, at, attempt, accountLock, batch, left>>
       \/ /\ tunnel[c] # None /\ attempt[p] + 1 < TunnelCodeRetries
          /\ attempt' = [attempt EXCEPT ![p] = @ + 1]
          /\ UNCHANGED <<shared, pc, req, at, draft, accountLock, batch, left>>
       \/ /\ tunnel[c] # None /\ attempt[p] + 1 >= TunnelCodeRetries
          /\ Rollback(p)

-----------------------------------------------------------------------------
(* The writes of the handlers that hold one tunnel's row.                  *)

\* The handler's last write, then COMMIT.
Write(p, t, x) ==
    /\ Publish(p, [draft[p] EXCEPT ![req[p].code] = [tunnel |-> t, ports |-> x]])
    /\ Goto(p, "commit")
    /\ UNCHANGED <<shared, req, at, attempt, accountLock, batch, left>>

Writing(p, op) == pc[p] = "write" /\ req[p].op = op

\* The row as it was read under the lock, and its committed ports.
LockedRow(p) == draft[p][req[p].code].tunnel
LockedPorts(p) == ports[req[p].code]

\* Mutant: the new expiration is not validated.
WriteTunnelUnchecked(p) ==
    /\ Writing(p, "updateTunnel")
    /\ LET h == req[p].hours IN
       \/ /\ h = Same
          /\ Write(p, LockedRow(p), Untouched)
       \/ /\ h # Same
          /\ Write(p, [LockedRow(p) EXCEPT !.hours = h, !.exp = at[p] + h],
                   Untouched)

\* Every column is written back; only an explicit expiration moves the
\* deadline, counted from the time read before the transaction.
WriteTunnel(p) ==
    /\ Writing(p, "updateTunnel")
    /\ LET h == req[p].hours IN
       \/ /\ h = Same
          /\ Write(p, LockedRow(p), Untouched)
       \/ /\ h # Same /\ ValidHours(h)
          /\ Write(p, [LockedRow(p) EXCEPT !.hours = h, !.exp = at[p] + h],
                   Untouched)
       \/ /\ h # Same /\ ~ValidHours(h)
          /\ Rollback(p)

\* Mutant: the port rows are forgotten.
DeleteTunnelOnly(p) ==
    /\ Writing(p, "deleteTunnel")
    /\ Write(p, Erased.tunnel, Untouched)

DeleteTunnelGraph(p) ==
    /\ Writing(p, "deleteTunnel")
    /\ Write(p, Erased.tunnel, Erased.ports)

WritePort(p, x) ==
    Write(p, Refresh(LockedRow(p), clock),
          [Untouched EXCEPT ![req[p].port] = x])

\* Mutant: the limit is compared with > instead of >=.
InsertPortOffByOne(p) ==
    /\ Writing(p, "createPort")
    /\ LET used == {x \in Port : LockedPorts(p)[x] # None} IN
       \/ /\ Cardinality(used) <= MaxPortsPerTunnel /\ req[p].port \notin used
          /\ WritePort(p, req[p].policy)
       \/ /\ Cardinality(used) > MaxPortsPerTunnel \/ req[p].port \in used
          /\ Rollback(p)

InsertPort(p) ==
    /\ Writing(p, "createPort")
    /\ LET used == {x \in Port : LockedPorts(p)[x] # None} IN
       \/ /\ Cardinality(used) < MaxPortsPerTunnel /\ req[p].port \notin used
          /\ WritePort(p, req[p].policy)
       \/ /\ Cardinality(used) >= MaxPortsPerTunnel \/ req[p].port \in used
          /\ Rollback(p)

\* A request with neither field commits without a write or a refresh.
UpdatePort(p) ==
    /\ Writing(p, "updatePort")
    /\ \/ /\ LockedPorts(p)[req[p].port] = None
          /\ Rollback(p)
       \/ /\ LockedPorts(p)[req[p].port] # None
          /\ IF req[p].policy = Same
             THEN Write(p, LockedRow(p), Untouched)
             ELSE WritePort(p, req[p].policy)

DeletePort(p) ==
    /\ Writing(p, "deletePort")
    /\ \/ /\ LockedPorts(p)[req[p].port] = None
          /\ Rollback(p)
       \/ /\ LockedPorts(p)[req[p].port] # None
          /\ WritePort(p, None)

-----------------------------------------------------------------------------
(* Settlement, as far as tunnels and locks go: it refreshes the deadline   *)
(* of every tunnel in its batch from the latest report of that tunnel.     *)

LockUnsettledMetering(p) ==
    /\ pc[p] = "lock" /\ req[p].op = "settle"
    /\ LET unlocked == {m \in metering :
                          /\ RegionOf[m.cluster] = req[p].region
                          /\ \A q \in Proc : m \notin batch[q]}
           reported == [m \in metering |-> m.at] IN
       \E S \in SUBSET metering :
          /\ FirstOf(S, unlocked, reported, SettleBatch)
          /\ batch' = [batch EXCEPT ![p] = S]
          /\ left' = [left EXCEPT ![p] = {m.code : m \in S}]
          /\ Goto(p, IF S = {} THEN "commit" ELSE "tunnels")
    /\ UNCHANGED <<shared, req, at, attempt, draft, accountLock>>

\* Tunnel ids, and then account ids, are visited in ascending order.
NextLeft(p) == {i \in left[p] : \A j \in left[p] : i <= j}

LastReport(p, c, m) ==
    m.code = c /\ \A n \in batch[p] : n.code = c => n.at <= m.at

SettledTunnel(c, activityAt) ==
    [tunnel |-> Refresh(tunnel[c], activityAt), ports |-> Untouched]

\* Mutant: the refresh does not look at the region of the tunnel.
RefreshSettledTunnelAnywhere(p) ==
    /\ pc[p] = "tunnels"
    /\ \E c \in Code \cap NextLeft(p), m \in batch[p] :
          /\ ~LockedByOther(p, c)
          /\ LastReport(p, c, m)
          /\ Publish(p, IF tunnel[c] # None
                        THEN [draft[p] EXCEPT ![c] = SettledTunnel(c, m.at)]
                        ELSE draft[p])
          /\ IF left[p] = {c}
             THEN /\ left' = [left EXCEPT ![p] = {n.acct : n \in batch[p]}]
                  /\ Goto(p, "accounts")
             ELSE /\ left' = [left EXCEPT ![p] = @ \ {c}]
                  /\ UNCHANGED pc
    /\ UNCHANGED <<shared, req, at, attempt, accountLock, batch>>

\* IncreaseTunnelUsage and RefreshTunnelExpiration match no row when the
\* tunnel is gone or its code now belongs to a tunnel of another region.
RefreshSettledTunnel(p) ==
    /\ pc[p] = "tunnels"
    /\ \E c \in Code \cap NextLeft(p), m \in batch[p] :
          /\ ~LockedByOther(p, c)
          /\ LastReport(p, c, m)
          /\ Publish(p, IF Found(p, c)
                        THEN [draft[p] EXCEPT ![c] = SettledTunnel(c, m.at)]
                        ELSE draft[p])
          /\ IF left[p] = {c}
             THEN /\ left' = [left EXCEPT ![p] = {n.acct : n \in batch[p]}]
                  /\ Goto(p, "accounts")
             ELSE /\ left' = [left EXCEPT ![p] = @ \ {c}]
                  /\ UNCHANGED pc
    /\ UNCHANGED <<shared, req, at, attempt, accountLock, batch>>

\* Usage is billed whatever the account's status.
LockSettledAccount(p) ==
    /\ pc[p] = "accounts"
    /\ \E a \in Account \cap NextLeft(p) :
          /\ accountLock[a] = None
          /\ accountLock' = [accountLock EXCEPT ![a] = p]
          /\ left' = [left EXCEPT ![p] = @ \ {a}]
          /\ IF left[p] = {a} THEN Goto(p, "commit") ELSE UNCHANGED pc
    /\ UNCHANGED <<shared, req, at, attempt, draft, batch>>

-----------------------------------------------------------------------------
(* COMMIT, and the ways a transaction ends without one.                    *)

Revives(p, c) == /\ draft[p][c] # None /\ draft[p][c].tunnel # None
                 /\ tunnel[c] # None
                 /\ tunnel[c].exp <= clock /\ draft[p][c].tunnel.exp > clock

Removes(p, c) == draft[p][c] # None /\ draft[p][c].tunnel = None

Commit(p) ==
    /\ pc[p] = "commit"
    /\ tunnel' = [c \in Code |-> IF draft[p][c] = None THEN tunnel[c]
                                 ELSE draft[p][c].tunnel]
    /\ ports' = [c \in Code |-> [x \in Port |->
                    IF draft[p][c] = None \/ draft[p][c].ports[x] = Same
                    THEN ports[c][x] ELSE draft[p][c].ports[x]]]
    /\ metering' = metering \ batch[p]
    /\ revived' = {c \in Code : ~Removes(p, c) /\ (c \in revived \/ Revives(p, c))}
    /\ Release(p)
    /\ UNCHANGED <<clock, status, failures>>

\* Some lock that p's next statement asks for is held by another process.
Blocked(p) ==
    \/ /\ pc[p] = "lock" /\ req[p].op \in OwnedOps
       /\ LockedByOther(p, req[p].code)
    \/ /\ pc[p] = "lock" /\ req[p].op = "deleteTunnels"
       /\ \E c \in Code : /\ Found(p, c) /\ tunnel[c].ns = req[p].ns
                          /\ LockedByOther(p, c)
    \/ pc[p] = "account" /\ accountLock[AccountNeeded(p)] # None
    \/ pc[p] = "insert" /\ \E c \in Code : LockedByOther(p, c)
    \/ pc[p] = "tunnels" /\ \E c \in Code \cap NextLeft(p) : LockedByOther(p, c)
    \/ pc[p] = "accounts" /\ \E a \in Account \cap NextLeft(p) :
                                accountLock[a] # None

\* The database ends a wait: as a deadlock's victim, or after its time limit.
\* No handler retries; a job tries again at its next tick.
AbortWait(p) == Blocked(p) /\ Rollback(p)

\* A crash, a shutdown, a cancelled request or a lost connection.
Fail(p) ==
    /\ pc[p] # "idle" /\ failures < MaxFailures
    /\ failures' = failures + 1
    /\ Release(p)
    /\ UNCHANGED <<clock, status, tunnel, ports, metering, revived>>

-----------------------------------------------------------------------------
(* The environment.                                                        *)

\* Gateway appends a metering row for a tunnel it serves.
Report(c) ==
    /\ tunnel[c] # None
    /\ Cardinality(metering) < MaxReports
    /\ LET m == [code |-> c, acct |-> tunnel[c].acct,
                 cluster |-> tunnel[c].cluster, at |-> clock] IN
       /\ m \notin metering
       /\ metering' = metering \cup {m}
    /\ UNCHANGED <<clock, status, tunnel, ports, revived, pc, req, at, attempt,
                   draft, accountLock, batch, left, failures>>

\* An operator's UPDATE of billing_account.status waits for the row's lock.
SetStatus(a) ==
    /\ accountLock[a] = None
    /\ \/ status[a] = "active" /\ status' = [status EXCEPT ![a] = "disabled"]
       \/ status[a] = "disabled" /\ status' = [status EXCEPT ![a] = "active"]
    /\ UNCHANGED <<clock, tunnel, ports, metering, revived, pc, req, at,
                   attempt, draft, accountLock, batch, left, failures>>

Tick ==
    /\ clock < MaxTime
    /\ clock' = clock + 1
    /\ UNCHANGED <<status, tunnel, ports, metering, revived, pc, req, at,
                   attempt, draft, accountLock, batch, left, failures>>

-----------------------------------------------------------------------------

Lock(p) == \/ LockTunnel(p) \/ LockAccount(p) \/ LockNamespaceTunnels(p)
           \/ LockAgedTunnels(p) \/ LockUnsettledMetering(p)
           \/ RefreshSettledTunnel(p) \/ LockSettledAccount(p)

Change(p) == \/ CountTunnels(p) \/ WriteTunnel(p) \/ DeleteTunnelGraph(p)
             \/ InsertPort(p) \/ UpdatePort(p) \/ DeletePort(p)
             \/ \E c \in Code : InsertTunnel(p, c)

Accept(p) == \E r \in Work[p] : BeginCreateTunnel(p, r) \/ Begin(p, r)

Environment == \/ Tick
               \/ \E c \in Code : Report(c)
               \/ \E a \in Account : SetStatus(a)

Next == \/ \E p \in Proc : \/ Accept(p) \/ Lock(p) \/ Change(p) \/ Commit(p)
                           \/ AbortWait(p) \/ Fail(p)
        \/ Environment

Spec == Init /\ [][Next]_vars

\* The scheduler and the database run every statement that can run, and end
\* a wait that does not end by itself.
Progress(p) == Lock(p) \/ Change(p) \/ Commit(p) \/ AbortWait(p)

\* A timer starts each job again and again.
Job(r) == r.op \in {"cleanup", "settle"}
StartJob(p) == \E r \in Work[p] : Job(r) /\ Begin(p, r)

Fairness == \A p \in Proc : WF_vars(Progress(p)) /\ WF_vars(StartJob(p))

FairSpec == Spec /\ Fairness /\ WF_vars(Tick)

-----------------------------------------------------------------------------
(* Properties.                                                             *)

Active(c) == tunnel[c] # None /\ tunnel[c].exp > clock

ActiveOf(a) == {c \in Code : Active(c) /\ tunnel[c].acct = a}

\* An account never has more than MaxTunnels tunnels that have been active
\* ever since they were created: the account's lock makes CreateTunnel's count
\* and its insertion one step for every other creation of that account.
ContinuousQuota ==
    \A a \in Account : Cardinality(ActiveOf(a) \ revived) <= MaxTunnels

\* The claim of relay-controller/README.md:9, "10 active tunnels": an account
\* never has more than MaxTunnels active tunnels.  It does not hold.
ActiveQuota == \A a \in Account : Cardinality(ActiveOf(a)) <= MaxTunnels

\* A tunnel never has more ports than its plan allows, though CreatePort counts
\* committed rows and inserts in a later statement.
PortQuota ==
    \A c \in Code :
        Cardinality({x \in Port : ports[c][x] # None}) <= MaxPortsPerTunnel

\* Deletion and cleanup leave no port policy behind, so a tunnel that is given
\* a code used before starts without ports; a CreatePort that raced with the
\* deletion leaves none either.
NoOrphanPorts ==
    \A c \in Code : tunnel[c] = None => \A x \in Port : ports[c][x] = None

Commits(p) == pc[p] = "commit" /\ pc'[p] = "idle"

\* A tunnel disappears only by a deletion of its own namespace in its own
\* region, or by cleanup once it has been expired for the retention time -
\* judged by the row as it is when the deletion commits.
DeletedByOwnerOrAge ==
    [][\A c \in Code : tunnel[c] # None /\ tunnel'[c] = None =>
        \E p \in Proc :
           /\ Commits(p)
           /\ req[p].region = RegionOf[tunnel[c].cluster]
           /\ \/ /\ req[p].op \in {"deleteTunnel", "deleteTunnels"}
                 /\ req[p].ns = tunnel[c].ns
              \/ /\ req[p].op = "cleanup"
                 /\ tunnel[c].exp + Retention <= clock]_vars

\* A deadline moves back only when the tunnel's owner asked for a new
\* expiration: no transaction writes back a deadline that another one, a
\* settlement or a port change, has moved on since it read the row.
DeadlineNotLost ==
    [][\A c \in Code :
        tunnel[c] # None /\ tunnel'[c] # None /\ tunnel'[c].exp < tunnel[c].exp =>
           \E p \in Proc : /\ Commits(p)
                           /\ req[p].op = "updateTunnel" /\ req[p].hours # Same
                           /\ req[p].ns = tunnel[c].ns]_vars

\* A disabled account gains no tunnel, and its tunnels gain no port, even if
\* it is disabled between the check of its status and the commit.
NoDisabledGrowth ==
    [][\A c \in Code :
        /\ tunnel[c] = None /\ tunnel'[c] # None =>
              status[tunnel'[c].acct] = "active"
        /\ \A x \in Port : ports[c][x] = None /\ ports'[c][x] # None =>
              status[tunnel[c].acct] = "active"]_vars

\* A transaction of one region never changes a tunnel of another, even when a
\* settlement's batch names a code that has since moved there.
RegionIsolation ==
    [][\A c \in Code : tunnel[c] # None /\ tunnel'[c] # tunnel[c] =>
        \E p \in Proc : /\ Commits(p)
                        /\ req[p].region = RegionOf[tunnel[c].cluster]]_vars

IsAged(c, k) == /\ tunnel[c] # None /\ tunnel[c].cluster = k
                /\ tunnel[c].exp + Retention <= clock

\* Only the cleanup job holds rows of cluster k.
Quiet(k) == \A c \in Code, p \in Proc :
                /\ tunnel[c] # None /\ tunnel[c].cluster = k
                /\ draft[p][c] # None
                => req[p].op = "cleanup"

\* Every tunnel past its retention time is removed in the end, or refreshed by
\* a late settlement, once no other transaction holds rows of its cluster -
\* whatever goes on in other clusters, in batches, with several replicas
\* skipping one another's rows.  Without that condition it need not be: SKIP
\* LOCKED hides a whole cluster behind one locked tunnel.
AgedRemoved ==
    \A k \in Cluster : <>[]Quiet(k) =>
        \A c \in Code : IsAged(c, k) ~> ~IsAged(c, k)
=============================================================================
