# Verification of Relay Controller

TLA+ specifications, model checking and proofs for the DevBridge control plane:
the regional **Relay Controller** (`src/relay-controller`) and the **management
service** (`src/mgmt-service`) that maps identities to namespaces and API keys.

    tlc -workers 2 -config ports.cfg MCTunnels       # a model-checking run
    tlapm TunnelsProofs.tla                          # the proofs of a component

## 1. The system and its hard parts

Several replicas of Relay Controller run in every region. They keep nothing in
memory but a rate limiter: all state is in one MySQL or MariaDB database that the
replicas of all regions, and Relay Gateway, share. What can go wrong is therefore
the interleaving of transactions: which rows a statement locks, what it reads, and
what has changed between a read and the write that relies on it. The same holds
for the management service and its own database. Within one process, goroutines
share a bounded pool of connections, and a shutdown has to end them in order.

| Component | State | Operations | Hard behaviour | What makes it correct |
| --- | --- | --- | --- | --- |
| Tunnels and ports (`service/service.go`, `service/port.go`, `store/tunnel.go`) | `tunnel`, `tunnel_port`, `billing_account` | create, update and delete tunnels; create, update and delete ports; list and get | counts before inserts, whole-row updates, three DELETEs per tunnel, times read before a transaction, deadlines that pass meanwhile | quotas, no lost deadline, no port without its tunnel, nothing for disabled accounts, isolation of namespaces and regions |
| Cleanup (`service/jobs.go`) | the same tables | `CleanupAgedTunnels`, hourly, in batches of 100 | `SKIP LOCKED`, several replicas, refreshes in flight | removes only what is aged, and in the end all of it |
| Settlement (`service/jobs.go`, `store/billing.go`) | `tunnel_metering`, `billing_period`, `billing_account`, `tunnel` | `SettleBatch`, every minute, in batches of 500 | replicas and regions billing one account, read views, month ends, partial failures, overflow | each row billed exactly once, to its month; blocks agree with totals; every row settled in the end |
| Quota check and limits (`assertTrafficAllowed`, `service/limits.go`) | `billing_period` | token request, `GetLimits` | creates periods beside settlement | no token beyond the quota |
| Token signing (`security/jwt.go`) | - | `Issue` | the tunnel is read outside the transaction | claims copy the tunnel's row |
| Partition maintenance (`service/jobs.go`, `store/billing.go`, `store/store.go`) | partitions of `tunnel_metering`, a named lock | `MaintainPartitions`, hourly | lock and DDL on different connections, stops between two DDLs, long outages | rows have a partition of their hour, no row is dropped within its retention |
| Rate limiter (`httpapi/ratelimit.go`) | fixed windows by key, at most 10 000 | `Allow` | time read outside the mutex, capacity | at most two windows' requests within one, and a key refused for want of room only while those that take it were seen recently |
| HTTP API, process (`httpapi/handler.go`, `cmd/main.go`, `store/store.go`) | goroutines, the pool of 20 connections, `ctx` | requests by route; start, signal, shutdown, exit | a job that holds one connection and needs another, panics inside transactions, requests that outlast the shutdown's 15 s, a server that fails without a signal | nobody waits for ever, the database closes last, the process ends |
| Management service (`mgmt-service`) | `domain_account`, `user_identity`, the secret in each replica | provision, authenticate | concurrent first requests, lost replies, replicas with old and new secrets | one identity per user, for ever; a key names its identity or nobody; rotations complete |

Components meet in the database only. A handler runs one transaction (`InTx`)
after reading the time and sometimes the account or cluster outside it; jobs run
the same kind of transaction from a timer; Gateway inserts metering rows;
operators change `billing_account.status`. The hazards are listed, line by line,
in `PROJECT.json`.

## 2. Modules

| Module | What it is |
| --- | --- |
| `Tunnels` | the tunnel life cycle: every transaction that changes `tunnel` and `tunnel_port` |
| `MCTunnels` | the instances TLC checks: places, and the requests of each process |
| `TunnelsProofs` | type correctness and the tunnel quota, for all constants |
| `TunnelRowsProofs` | what commits may do to tunnels and ports: the port quota, deletions, deadlines, disabled accounts, regions |
| `Ledger` | what settlement promises, as atomic steps |
| `Settlement` | the billing transactions by statement; implements `Ledger` |
| `MCSettlement` | metering rows and work for TLC |
| `SettlementProofs` | the refinement of `Ledger`, totals, blocks and tokens, for all constants |
| `FiniteFacts` | lemmas on sums, least and greatest elements of finite sets |
| `Partitions`, `MCPartitions` | maintenance of the metering partitions, and its instance |
| `PartitionsProofs` | retention, hourly partitions and the use of the lock, for all constants |
| `RateLimiter`, `MCRateLimiter` | the request limiter of one replica, and its instance |
| `RateLimiterProofs` | the bound on the rate, and what it takes to be refused for want of room, for all constants |
| `Identities` | what the management service promises: a table of identities, as atomic steps |
| `Provisioning`, `MCProvisioning` | its provisioning transaction by statement, with replicas and rotations; implements `Identities` |
| `ProvisioningProofs` | the refinement, and what a key names, for all constants |
| `Controller`, `MCController` | the life of one Controller process and of its goroutines, and its instance |
| `ControllerProofs` | the pool's bound and the order of the shutdown, for all constants |

### 2.1 Tunnels

A process of `Proc` is a request handler or a job of some replica; it runs one
request of `Work[p]` at a time. `pc` is its next statement, `at` the time a
handler read before its transaction (`CreateTunnel`, `UpdateTunnel`, cleanup).
The database is `status`, `tunnel`, `ports` and `metering`, in committed form. A
transaction locks a tunnel row by putting its version into `draft[p]`, changes
that version, and `Commit` publishes it; the rows of `billing_account` have the
explicit lock `accountLock`.

| Source | Actions |
| --- | --- |
| `CreateTunnel` | `BeginCreateTunnel`, `LockAccount`, `CountTunnels`, `InsertTunnel`, `Commit` |
| `UpdateTunnel` | `Begin`, `LockTunnel`, `WriteTunnel`, `Commit` |
| `DeleteTunnel`, `DeleteTunnels` | `LockTunnel`, `DeleteTunnelGraph`; `LockNamespaceTunnels`; `Commit` |
| `CreatePort` | `LockTunnel`, `LockAccount`, `InsertPort`, `Commit` |
| `UpdatePort`, `DeletePort` | `LockTunnel`, `UpdatePort` or `DeletePort`, `Commit` |
| `CleanupAgedTunnels` | `LockAgedTunnels`, `Commit` |
| `SettleBatch`, its deadlines and locks | `LockUnsettledMetering`, `RefreshSettledTunnel`, `LockSettledAccount`, `Commit` |
| errors, crashes, deadlock victims, time-outs | `Rollback`, `AbortWait`, `Fail` |
| Gateway, operator, clock | `Report`, `SetStatus`, `Tick` |

Statements that run under a lock that excludes every other writer of what they
read are one action (all of `CreatePort` after it holds tunnel and account, for
example); a statement that may wait, or whose reads others may invalidate, is an
action of its own. Names, descriptions, types and URLs are left out; so are
inputs that are refused before anything is read (those of `CreateTunnel` and
`CreatePort` are guards of `Begin...`). The unit of time is an hour; the code
compares seconds with the same operators. `revived` is a history variable: the
tunnels whose deadline had passed when a commit moved it on.

InnoDB is modelled as the code uses it: a locking read waits for and then sees the
latest committed row; `SKIP LOCKED` passes over a tunnel if its row or the
`cluster` row it is joined with is locked; a unique key refuses a second row with
a code and makes an insert wait for an uncommitted row with it. Locks on `cluster`
rows matter only to `SKIP LOCKED` here: they are not made to exclude one another,
nor is the shared lock that a refused insert keeps, which allows more
interleavings than the database does. Any wait may end as a deadlock's victim or
by the time limit (`AbortWait`), so no claim about the absence of cycles is made.
The schema is not in the repository; that `tunnel_code` and (`tunnel_code`,
`port`) are unique keys is taken from the code that handles their errors.

### 2.2 Ledger and Settlement

`Ledger` is the promise: in one step, rows of one region that nobody settled are
marked and added to every total they belong to, and the accounts that used up a
month are blocked. `Settlement` is `SettleBatch` by statement, with the two
requests that also create periods: the quota check of a token request and
`GetLimits`. Metering rows are fixed by the constant `RowOf` and appear when
Gateway appends them (`appended`); a row's number is its rank in `(created_at,
_id)`, and rows may appear in any order.

| Source | Actions |
| --- | --- |
| `SettleBatch` | `Begin`, `LockUnsettledMetering` (with the sums of `AddBytes`), `IncreaseTunnelUsage` per tunnel, then per account and month `LockAccount`, `FindPlan`, `IncreasePeriodUsage`, then `BlockQuotaIfExhausted`, `MarkMeteringSettled`, `Commit` |
| `assertTrafficAllowed`, `GetLimits` | `Begin`, `LockAccount`, `FindPlan`, `ReadPeriod`, `Commit` |
| `InTx` when a statement fails | `Rollback`, `Fail` |
| Gateway, clock, tunnel transactions | `Append`, `NextMonth`, `ChangeTunnel` |

Transactions run at the driver's default, REPEATABLE READ (without MariaDB's
`innodb_snapshot_isolation`): the first plain SELECT, which is `FindPlan`, opens
the read view that `FindPeriod` reads by. `INSERT IGNORE` on a period that was
committed after that succeeds without inserting, `FindPeriod` then finds no row,
and the batch rolls back (`Hidden`). An UPDATE that matches no tunnel locks the
gap, so `tunnelLock` covers ids without a row. The account's status is a free
choice in `LockAccount` (it is modelled in `Tunnels`), and the plan's quota is a
constant. The refinement mapping reads a missing period as 0.

Settlement appears in both modules on purpose. `Tunnels` has the part that moves
deadlines and competes for locks with the handlers; `Settlement` has the money. A
row without usage is in `Settlement` only: it touches no tunnel.

### 2.3 Partitions

The unit of time is an hour, because `MaintainPartitions` rounds the time down to
one before it uses it. `bounds` are the boundaries of the partitions (a name is
made from its boundary), `rows` the hours for which `tunnel_metering` has rows; the
rows of an hour share a partition and a fate. A row's partition is the first whose
boundary is later than its `reported_at`, or `p_future`.

| Source | Actions |
| --- | --- |
| `runPartitionMaintenance`, `TryNamedLock` | `Begin` (reads the time), `TryNamedLock` |
| `MaintainPartitions` | `MeteringPartitions`, `ReorganizeFuturePartition` with `PartitionBoundaries`, `DropMeteringPartitions` with `Expired` |
| `NamedLock.Release` | `Release` |
| errors, read timeouts, cancelled contexts, `discardConn` | `FailStatement`, `Crash`, `LoseSession` |
| the database server | `EndSession`, `FinishOrphan` |
| Gateway, clock | `Report`, `Tick` |

The lock's connection and those of the ALTER TABLEs differ, so a run can go on
without its lock (`LoseSession`), a lock can outlive its run (`EndSession`), and a
statement whose client has left it stays in `orphans` until the server carries it
out, at any time, or for ever not. MySQL refuses a split whose boundaries do not
increase and a drop that names a partition which is gone; it does so as a whole.
Whether a row is settled is left out: the code does not look at it, and an
unsettled row is as safe as `RetainedRows` makes it.

### 2.4 RateLimiter

`Allow` is two actions: `ReadTime`, before the mutex, and `Allow`, all that the
mutex protects. `Tick` lets nobody wait for the mutex longer than `MaxDelay`.
`count` stops one past the limit, which is all the code asks of it. `admitted` is a
history variable: the requests let through in the ticks that `RateBound` looks
back on.

### 2.5 Identities and Provisioning

`Identities` is the promise: one atomic step creates what is missing of a domain's
account and a user's identity, replaces nothing but the key, and serves nobody who
is disabled. `answers` is what was returned so far. A namespace or account id is a
member of `Id` that is drawn at random; drawing one that is taken is possible here,
so that `ON DUPLICATE KEY UPDATE`, which does not say which key was there already,
has its case. A key is a pair of secret and user: the HMAC is taken as injective.

| Source | Actions |
| --- | --- |
| `provisionAPIKey`, `ProvisionAPIKey` | `Begin` (derives the key from the replica's secret) |
| `Store.Provision` | `LockAccount`, `LockUser`, `Commit` |
| its early returns, errors and lost replies | `Rollback`, `Fail`, `Commit` without an answer |
| `Authenticate`, `FindIdentity` | the state function `FindIdentity` |
| `run`, the deployment | `Restart` (reads the configured secret), `Rotate` |
| an operator | `SetAccountStatus`, `SetUserStatus` |

An `INSERT .. ON DUPLICATE KEY UPDATE` locks the row whether it inserts it or finds
it, so the `SELECT .. FOR UPDATE` after it never waits, and the two are one action;
so is the `UPDATE` of the hash with the user's. `draft` is what the transaction
holds, uncommitted. A request that has drawn the identifier of an uncommitted row
waits for it; `SeedAccounts` and `SeedNamespaces` leave such draws out until then.
That an account's two identifiers are drawn together makes one of them enough.

### 2.6 Controller

One process: `main` with `run` (`phase`), `ctx` (`cancelled`), and its goroutines
(`worker`), each with the database calls it has left and the connections it holds.
The handlers and jobs of the other modules appear here by what they ask of the
pool; what they do to the database is not repeated. A call takes a connection,
may last long, and may fail.

| Source | Actions |
| --- | --- |
| `run`, `main` | `Open`, `Listen`, `Stop`, `ServeError`, `Shutdown`, `Wait`, `Close`, `Exit` |
| `Middleware`, `requestContext`, `decodeJSON`, the services' checks | `Refuse` |
| the handlers and the operations they call | `Accept`, `Dispatch`, then `Take` and `Finish` or `Fail` per call |
| `startJob`, the jobs | `StartJob`, `EndJob`, and the same calls |
| `TryNamedLock`, `NamedLock.Release` | the calls `lock` and `unlock`, and `Abort`, which always leads to `unlock` |
| `recover`, `InTx` without a rollback | `Panic`, `Reclaim` |
| clients, the operating system | `Leave`, `Signal`, `Kill` |

`createTunnel`, for instance, has `<<"read", "write", "tx">>`: the cluster is looked
up, the account inserted, and then comes the transaction; each gives its connection
back before the next. The partition job keeps the one of its named lock until
`unlock`. A job's loop over full batches is a job that starts again.

## 3. Model checking

Every passing run finishes on its whole state space with two workers in two or three
minutes at most. Deadlock is checked in all of them.

| Run | Instance | Properties |
| --- | --- | --- |
| `quota` | 3 processes, 2 codes, 1 account with 2 namespaces, quota 1, 4 hours | `ContinuousQuota` |
| `active_quota` | the same | `ActiveQuota`, violated |
| `ports` | 3 handlers, 1 tunnel code, 2 ports, port quota 1, an operator, 1 failure | `TypeOK`, `PortQuota`, `NoOrphanPorts`, `DeadlineNotLost`, `NoDisabledGrowth` |
| `regions` | 2 regions, 4 processes, settlement and cleanup | `RegionIsolation`, `DeletedByOwnerOrAge` |
| `cleanup` | 2 clusters, a handler, 2 cleanup jobs, batches of 1 | `AgedRemoved` |
| `ledger` | 2 regions, 1 account, 2 tunnels, 2 months, 4 rows of more usage than a counter can hold, 3 processes | `TypeOK`, `BilledExactly`, `BlockAgrees`, `LedgerSpec`, `TokenWithinQuota` |
| `settled` | 2 regions, 2 accounts, 4 rows, one without usage and one that may find no room, settlement and `GetLimits`, 1 failure | `LedgerSpec`, `EveryRowSettled` |
| `partitions` | 2 replicas, retention 1 hour, 1 future hour, 5 hours, 1 failure | `TypeOK`, `HourlyAudit`, `NoConflict`, `RetainedRows`, `Maintained` |
| `limiter` | 2 goroutines, 3 keys, room for 2, limit 2, window 3, 10 ticks, delays up to 1 | `TypeOK`, `RateBound`, `RoomIsFreed` |
| `limiter_minute` | the same | `MinuteLimit`, violated |
| `provisioning` | 2 users of 1 domain, 2 replicas with a request each, 2 identifiers, 1 rotation, 1 failure | `TypeOK`, `KeyNamesIdentity`, `IdentitySpec`, `RotationCompletes` |
| `process` | 2 handlers with 3 routes, 2 jobs, 2 connections | `TypeOK`, `ClosedLast`, `Served`, `Terminates` |

**What the runs show.** The quota holds for tunnels that stayed active since they
were created (`ContinuousQuota`), and it does not hold for active tunnels as the
product README states it (`ActiveQuota`). The shortest behaviours revive a tunnel:
it lapses, `CreateTunnel` counts without it, and then an `UpdateTunnel` or a
refresh that had checked the deadline before commits; a settlement does the same
hours later, because it compares the deadline with the time of the report. This is
the first of the two findings in `PROJECT.json`. Port quotas need the lock on the tunnel's row;
`NoDisabledGrowth` needs the lock on the account's row up to the commit.
`DeletedByOwnerOrAge` says that cleanup never deletes by a deadline that another
transaction is moving on. `AgedRemoved` is conditional, and the condition is
needed: `SKIP LOCKED` joins `cluster`, so while other transactions keep locking
any tunnel of a cluster, cleanup may find nothing in it. The code promises nothing
for a cluster that stays that busy; `PROJECT.json` lists it as a hazard that no
property covers.

`LedgerSpec` is the refinement. Two mechanisms of the code each suffice for its
exactly-once part, the locks with `SKIP LOCKED` and the count of marked rows, so
removing one alone does not break it. `BilledExactly` states the same for the
totals directly. `BlockAgrees` relates Gateway's switch,
`quota_blocked_until`, to the periods the Controller itself reads.
`TokenWithinQuota` holds because both sides lock the account, and open their read
views only then.

`RetainedRows` needs neither the lock nor fresh readings: a drop lists only
partitions that were past retention when the list was made. What the lock buys is
`NoConflict`. `HourlyAudit` is where the arithmetic of `partitionBoundaries` shows:
hours that an outage left in one partition are past retention, all but the last,
when that partition is made. `Maintained` says that no failure leaves the table
without the hours ahead or with aged partitions for good. `RateBound` is what a
fixed window gives: two full windows may meet. That is more than the product
README's "requests allowed [...] each minute" says, if a minute is any minute
(`MinuteLimit`, the second finding). `RateBound` holds although cleanups forget
counters, because a counter is only forgotten two windows after it was last used.
`RoomIsFreed` bounds how long a full table keeps a new key out.

`EveryRowSettled` speaks of a region from the point on at which every counter has
room for what the region has still to settle (`HasRoom`): a row that finds none
fails every batch of its region, once it is the oldest. Such a region stops no
other. In `settled` both bill one account and may lock one tunnel, and a batch of
the stuck region fails at the account's period, with both locked. The other
region's batches visit a second account, on which `GetLimits` works too, so some
roll back because its period is `Hidden` from a view that was opened under the first
account's lock. Rows do not vanish in `Settlement`, as they do when `Partitions`
drops the partition of rows that no batch has settled within their retention.
`ledger` has rows that overflow a month's total, within one batch or only
together with what is billed already.

`IdentitySpec` is the second refinement. The locks are what it needs: without the
one on the account's row, two first requests of a domain would each return the
account of its own seed. `KeyNamesIdentity` relates every answer ever given to what
the key now finds; it holds through rotations, in which two replicas overwrite each
other's hash of one user, because a hash names its user. `RotationCompletes` is the
service README's "completed as each user provisions again", with its conditions
spelled out: an old replica may bring an old key back until it is restarted, and
somebody who is disabled again and again may never get round to it.

`Served` and `Terminates` are about the pool. A job that waits for its second
connection holds its first one, so at least two are needed and nobody else may
keep one while waiting; requests give each connection back before they take
another, and a panic inside a transaction loses one only until `net/http` cancels
the request's context. `ClosedLast` says what exit code 0 means: all requests were
answered, every job has ended, and only then was the database closed. When
`Shutdown` runs into its time limit the database does close under requests, and
the process says so by its exit code.

**Bounds.** Two processes are enough for each race the code guards against with
one lock, a third brings in an operation that invalidates what one of them read,
and the region run has a fourth so that both regions settle and clean up. Quotas
of one make "one too many" two; a batch size below the number of rows makes
batches end early. Clocks reach one hour past every deadline that matters, so
expiry, retention and late commits occur. `MaxReports` and `MaxFailures` bound
rows and failures in flight; `TunnelCodeRetries` is 2 instead of 5. Failures of
billing transactions, and `GetLimits`, are in `settled` rather than `ledger`. Two
months make late rows and the month's end. In `partitions`, five hours hold an
outage longer than retention and future hours together; ten ticks of `limiter` hold
three windows and a cleanup after them. `provisioning` has one domain, whose users
compete for its row, and as many identifiers as users, so draws collide; its
safety properties were also checked with two domains and three users, and are
proved without bounds. In `process` two connections are the fewest with which
maintenance can run, and one may be lost to a panic meanwhile; its routes are those
with three calls, with an optional one and with a transaction only, and the cleanup
job, a single transaction, adds nothing to settlement. All actions of all specifications occur in
these runs.

**Fairness.** `cleanup` assumes that each statement that can run does, that a wait
ends (InnoDB detects deadlocks and limits waits), that timers start jobs again
(`startJob`) and that the clock advances. `settled` assumes the first and the
third, and strong fairness for the two actions by which settlements take locks one
at a time: InnoDB lets nobody wait for ever while it grants the row to others, so a
settlement that waits again and again is granted it. Nothing of the kind is assumed
for requests. Failures are finite in number there, as a transaction
that always fails never commits. `partitions` assumes that tickers go on starting
runs and runs go on, and that the server ends the session of a client that is gone;
it does not assume that a statement left behind is ever carried out, nor that the
clock goes on. No handler retries, and no run assumes that one
does.

`provisioning` assumes that users ask again, as the rotation's documentation
requires, that each statement that can run does, that InnoDB grants the account's
row to those who wait in turn (strong fairness of `LockAccount`), and that a
rotation restarts every replica. Operators may toggle a status for ever, which is
why `RotationCompletes` has an alternative. `process` assumes that `main` and
goroutines that can run do and that calls end (contexts and the driver's timeouts
see to it), and that two random choices do not always go against the same
goroutine, which has probability zero: `database/sql` gives a free connection to any
of those who wait (strong fairness of `Take`), and a job's `select` chooses between a
tick and `ctx.Done()` (of `EndJob`). Signals,
failures of the server, panics, kills and new requests may happen or not.

**Mutants.** Each property of a passing run is paired with a mutated definition
(`...Unlocked`, `...OffByOne`, `MonthSettled` and so on, commented `Mutant:`): with
it, the same run violates the property.

## 4. Proofs

Every invariant, every action property and both refinements that the runs check
are proved for all values of the constants; what the runs alone show is liveness.
Each inductive invariant below was first checked by TLC on the instances of its
module.

`TunnelsProofs` proves, for every value of the constants that satisfies the named
assumptions of `Tunnels`:

- `TypeCorrect`: `Spec => []TypeOK`. The invariant, `TypeInv`, adds to the types
  what each value of `pc` says about the request (`Position`) and that a handler
  past its lock has a version of its row in its draft (`RowHeld`).
- `QuotaCorrect`: `Spec => []ContinuousQuota`. The quota is not inductive. The
  invariant `QuotaInv` adds that a tunnel row has one holder (`RowLocks`); that a
  draft is a version of a committed row of the same account, or the one row that a
  `CreateTunnel` is about to commit (`DraftOK`); that a `CreateTunnel` past its
  first statement holds its account's lock (`CreatorOK`), so no two of them are
  between count and commit for one account; and that between count and commit
  there is room for one more continuously active tunnel (`RoomOK`). The count
  itself is taken at an earlier time than the present (`at[p] <= clock`), so it
  counts at least what is active now. Every other step can only shrink the set:
  time passes, rows go, or a row that lapsed comes back as `revived`. TLC
  finds no violation of `QuotaInv` on the `quota`, `ports` and `regions` instances
  either.

`TunnelRowsProofs` builds on it. It proves `PortCorrect` (`Spec => []PortQuota`),
`OrphanCorrect` (`NoOrphanPorts`) and four properties of steps: `DeletedCorrect`,
`DeadlineCorrect`, `DisabledCorrect` and `RegionCorrect`. Only `Commit` changes
committed rows (`OnlyCommits`), and it makes them from its process's draft
(`ChangedRow`), so each property is a claim about drafts that may be committed. The
invariant `RowsInv` makes these claims, for every process and row (`RowOK`):

- `AsRead`: until a handler writes, its draft is the row as it is committed now, not
  as it was when somebody read it. Without it, a write could bring back a deadline
  or a port from before.
- `DeletionOK`, `DeadlineOK`: a row is to be deleted by its own namespace or because
  it is aged now, with all its ports; a deadline moves back in an `UpdateTunnel`
  that sets one, and nowhere else.
- `PortsOK`: the ports that the row will have fit the plan, and if one is new, the
  account is locked by this process and active (`PaidFor`).
- A row that exists is in the region of the request.

They survive the steps of others because the row lock keeps the committed row, the
account's lock keeps its status (`StillOK`), and time only makes an aged row older.
`AccountOK` carries the account's lock from `LockAccount` to the write. `PortQuota`
and `NoOrphanPorts` are themselves parts of the invariant: a port is counted beside
those there are, and a new tunnel has none because its code had none.

`TunnelsProofs` and `TunnelRowsProofs` rest on the assumptions of `Tunnels` - finite sets of codes and ports,
positive limits, `None` and `Same` distinct from data - and on the library's facts
about cardinalities.

`SettlementProofs` proves, for any metering rows, accounts, months, regions and
processes that satisfy the named assumptions of `Settlement`:

- `LedgerCorrect`: `Spec => LedgerSpec`. A commit with a batch is `Settle` of the
  ledger, for all tables at once (`CommitSettles`), Gateway's and the tunnels' steps
  are their own, and every other statement is a stutter (`StepRefines`).
- `BilledCorrect` and `BlockCorrect`: `BilledExactly` and `BlockAgrees` always hold.
- `TokenCorrect`: `TokenWithinQuota`.
- `TypeCorrect`: `TypeOK`; no counter exceeds its column.

All follow from `SettlementInv`. It says what a transaction has written at each of its
statements: the tunnels it has visited get their committed usage and the batch's
(`UsedOK`), the periods theirs (`PeriodOK`), the blocks the last month that is
exhausted (`BlockedOK`), the marks the batch (`SettledOK`) - each in terms of the
tables as they are *now*. That is what makes a commit atomic, and it needs the locks:
`UsedOK` and `PeriodOK` say that the rows they speak of are locked, `LockOK` that the
account of the next period is. Batches hold unsettled rows only (`BatchOK`) and no row
twice (`BatchesApart`), so marks and totals agree. `PeriodOK` is where the read view
matters: a period is written from a view that may be older than the account's
lock, and it is right because a period that appeared since is `Hidden` and fails the
batch. `TokenOK` carries the check of the quota to the commit. `BlockOK` replaces
`BlockAgrees` by bounds, as `Max` is defined by `CHOOSE`.

`FiniteFacts` has what these proofs need of `SumFunctionOnSet`, `Max` and `Min`: a
sum of disjoint sets adds up, a sum after an update, a maximum exists. The
library's induction theorems take an operator, which the provers cannot instantiate,
so each induction over subsets is an argument by a minimal counterexample, from the
library's fact that strict inclusion among finite sets is well-founded.

`PartitionsProofs` proves `TypeCorrect`, `RetentionCorrect` (`Spec => RetainedRows`),
`AuditCorrect` (`Spec => []HourlyAudit`) and `LockCorrect` (`Spec => []NoConflict`)
for any number of replicas and failures and any retention, from
`RetentionAssumption`. All follow from `PartitionInv`. `HourlyAudit` looks at rows
and is not inductive; the invariant says instead that the table is `Gapless`, that is
an hour within retention with a partition above it has a boundary of its own, and
that every split which may still take effect, of a run or left behind by one, keeps
it so (`PendingOK`); the latter holds because whatever a run has read is still there
or aged (`SeenOK`), and it stays true as the clock advances because age only grows.
`LockOK` describes the runs before the first failure. One lemma, `StepHarmless`,
reduces every action to the same few facts (`Harmless`), and `HistoryStep` draws the
conclusion once for all of them.

`ProvisioningProofs` proves `TypeCorrect`, `IdentityCorrect` (`Spec => IdentitySpec`,
the refinement) and `KeysCorrect` (`Spec => []KeyNamesIdentity`) for all sets of
domains, users, replicas and requests, any number of rotations and failures, from
`ProvisioningAssumption`. The invariant, `ProvisioningInv`, says where each request
stands (its draft has the account's row from `LockAccount` on and the user's from
`LockUser` on), that the holders of a row are one, that a draft agrees with the
committed row if there is one and is otherwise new among all rows and drafts, and
that each answer agrees with the rows. A `Commit` is then `Provision` of the
abstract table, an operator's step is its own, and all others are stutters.

`ControllerProofs` proves `TypeCorrect`, which contains the bound on connections,
and `ClosedLastCorrect` (`Spec => []ClosedLast`) for any number of goroutines, any of
the routes and jobs and any size of the pool, from `ControllerAssumption`. Each has
an invariant of its own. `PoolInv` says what a goroutine holds where: at most the
lock's connection while it waits, at least one while it uses one, and the lock's for
all of maintenance after its first call; a step then changes `Used` by one at most
(`KeepsOrGives`, `TakesOne`). `ShutdownInv` says what each phase of `main` has
behind it: no jobs before the listener, none after `Wait`, and no unanswered request
after `Shutdown` unless it failed. `WorkerStep` is the reason that it stays so:
nothing that is done starts again.

`RateLimiterProofs` proves `TypeCorrect` and `RoomCorrect` (`Spec => RoomIsFreed`) for
any number of goroutines and keys, any limit, window and room, from
`LimiterAssumption`. `RoomIsFreed` speaks of one step, but holds only because of
what the steps before left behind: `SeenOK` says that no counter was last seen more
than two windows before the last cleanup, which a request counted late cannot
undo, as by `TimesOK` its time lies less than a window behind the clock and the
last cleanup not ahead of it. A request refused then either cleaned up itself or
came less than a window after a cleanup (`KeptSeen`).

`RateCorrect` (`Spec => []RateBound`) needs more than these times, because the sum
that it bounds is of requests, and counters do not remember when theirs came. The
invariant `WindowsOK` says that the requests still looked back on can be divided in
two (`Split`): those of the window that the counter is in, at most as many as it has
counted, and those of the window before, at most `Limit` and none let through later
than `MaxDelay` after the current one began. A request that joins its window counts in the first
part; one that opens a window finds the older part out of sight, because `RateBound`
looks back by less than a window minus `MaxDelay`, so the first part becomes the
second. A counter may only be forgotten when nothing is left in sight of what it let
through (`SeenLast`, `ForgottenQuiet`), though a request counted late may have set
`lastSeen` back, by `MaxDelay` at most.

Liveness is model-checked only, as it is beyond the prover: `AgedRemoved`,
`EveryRowSettled`, `Maintained`, `RotationCompletes`, `Served` and `Terminates`.

## 5. Plan

What was planned is modelled, checked and proved. What may still be worth proving:

1. For the liveness properties, what keeps a wait from being for ever: that a
   process of `Settlement` that waits for a lock has done so in the order of tunnels,
   accounts and months, so that no cycle forms within settlement; that in
   `Controller` whoever waits for a second connection leaves one for somebody.
2. That a process's position fits its request, as theorems of `Controller` and
   `Tunnels` of their own rather than parts of their invariants.

## 6. Not modelled

The form of requests and responses: paths, JSON, error codes and their texts,
logging. What configuration and TLS settings may say (that start-up may fail on
them is in `Open`). Validation and normalisation of names, types and protocols
beyond the guards above. `tunnel_runtime_status`, which only Gateway writes and
deletion removes with the tunnel. Replicas whose clocks differ; a change of the
plan's limits or of a cluster's region while the system runs; timestamps beyond
32 bits, which `ExpirationAt` refuses. Relay Gateway is external: only the rows it
appends appear.

*Token signing.* RS256 is cryptography, and the claims copy the tunnel's row as it
was read. The row is read outside the transaction that checks the quota, so a token
may name a tunnel that has just been deleted; but a token outlives its tunnel until
its own expiry in any case, and the code promises nothing that this order breaks.

*Reading operations.* `ListPorts`, `GetPort` and `GetTunnel` check the owner in one
statement and read by code in the next. What they answer is as old as the request,
unless the code is drawn again for somebody else in between: one in 2^40.

*The order of locks.* Cycles of waits are possible in the database: `CreateTunnel`
holds an account and may wait for a tunnel's code, `CreatePort` and settlement go the
other way. InnoDB ends them, `AbortWait` stands for that, and there is no property
to state.

*The management service's shutdown* is that of the Controller without jobs: what a
replica leaves behind is rolled back, as `Restart` has it.
