----------------------------- MODULE Settlement -----------------------------
(***************************************************************************)
(* The billing transactions of the Relay Controller, statement by          *)
(* statement: SettleBatch, which every replica of every region runs on a   *)
(* timer, and the two requests that read the same rows, the quota check    *)
(* before a tunnel token is signed (assertTrafficAllowed) and GetLimits.   *)
(*                                                                         *)
(* Transactions are InnoDB's at REPEATABLE READ: the first plain SELECT    *)
(* of a transaction fixes what its later plain SELECTs see, while updates  *)
(* and locking reads work on the latest committed rows.  A transaction     *)
(* collects its writes in a draft that Commit publishes.                   *)
(***************************************************************************)
EXTENDS Integers, FiniteSets, FiniteSetsExt

CONSTANTS
    Account, Tunnel, Region, Month, Row, RowOf, Quota, MaxBytes, None,
    Proc,           \* jobs and request handlers, of all replicas
    Work,           \* the requests each process may be asked to run
    BatchLimit,     \* settlementBatchSize
    MaxFailures     \* bound: transactions cut short by a failure

\* What a job timer or a client may ask one process to do.
Request == [op : {"settle"}, region : Region]
           \cup [op : {"token", "limits"}, acct : Account]

VARIABLES
    month,          \* the current billing month
    appended, settled, tunnel, blocked,     \* committed, as in Ledger
    period,         \* billed_bytes of each billing_period row, or None
    pc, req,        \* each process's next statement, and its request
    at,             \* the month GetLimits read before its transaction
    batch,          \* the metering rows a settlement has locked
    left,           \* tunnel ids, then accounts' months, still to be visited
    view,           \* billing_period as the transaction's read view has it
    draft,          \* the rows a transaction has written
    accountLock, tunnelLock,
    failures

L == INSTANCE Ledger WITH
        billed <- [a \in Account |-> [m \in Month |->
                      IF period[a][m] = None THEN 0 ELSE period[a][m]]]

ASSUME KeyAssumption ==
    /\ Account \subseteq Nat /\ Tunnel \subseteq Nat
    /\ Month \subseteq Nat \ {0} /\ Month # {} /\ IsFiniteSet(Month)
ASSUME RowAssumption ==
    Row \subseteq Nat /\ IsFiniteSet(Row) /\ RowOf \in [Row -> L!Metering]
ASSUME QuotaAssumption ==
    Quota \in Nat \ {0} /\ MaxBytes \in Nat
ASSUME SettlementAssumption ==
    /\ Work \in [Proc -> SUBSET Request]
    /\ BatchLimit \in Nat \ {0} /\ MaxFailures \in Nat
    /\ None \notin Nat \cup Proc \cup Request

vars == <<month, appended, settled, tunnel, blocked, period, pc, req, at,
          batch, left, view, draft, accountLock, tunnelLock, failures>>

committed == <<appended, settled, tunnel, blocked, period>>

Bytes == 0 .. MaxBytes
PeriodRows == [Account -> [Month -> Bytes \cup {None}]]

\* A transaction's own writes; None and {} where it has written nothing.
Draft == [period  : PeriodRows,
          used    : [Tunnel -> Bytes \cup {None}],
          blocked : [Account -> Month \cup {None}],
          settled : SUBSET Row]

NoDraft == [period  |-> [a \in Account |-> [m \in Month |-> None]],
            used    |-> [t \in Tunnel |-> None],
            blocked |-> [a \in Account |-> None],
            settled |-> {}]

PC == {"idle", "lock", "tunnels", "account", "plan", "period", "block",
       "mark", "commit"}

TypeOK ==
    /\ month \in Month
    /\ settled \subseteq appended /\ appended \subseteq Row
    /\ tunnel \in [Tunnel -> L!TunnelRow \cup {None}]
    /\ blocked \in [Account -> Month \cup {0}]
    /\ period \in PeriodRows
    /\ pc \in [Proc -> PC]
    /\ req \in [Proc -> Request \cup {None}]
    /\ at \in [Proc -> Month \cup {0}]
    /\ batch \in [Proc -> SUBSET Row]
    /\ \A p \in Proc : left[p] \subseteq IF pc[p] = "tunnels" THEN Tunnel
                                    ELSE Account \X Month
    /\ view \in [Proc -> PeriodRows \cup {None}]
    /\ draft \in [Proc -> Draft]
    /\ accountLock \in [Account -> Proc \cup {None}]
    /\ tunnelLock \in [Tunnel -> Proc \cup {None}]
    /\ failures \in 0 .. MaxFailures

Init ==
    /\ month = Min(Month)
    /\ appended = {} /\ settled = {}
    /\ tunnel = [t \in Tunnel |-> None]
    /\ blocked = [a \in Account |-> 0]
    /\ period = [a \in Account |-> [m \in Month |-> None]]
    /\ pc = [p \in Proc |-> "idle"]
    /\ req = [p \in Proc |-> None]
    /\ at = [p \in Proc |-> 0]
    /\ batch = [p \in Proc |-> {}]
    /\ left = [p \in Proc |-> {}]
    /\ view = [p \in Proc |-> None]
    /\ draft = [p \in Proc |-> NoDraft]
    /\ accountLock = [a \in Account |-> None]
    /\ tunnelLock = [t \in Tunnel |-> None]
    /\ failures = 0

-----------------------------------------------------------------------------
(* Transactions.                                                           *)

Goto(p, label) == pc' = [pc EXCEPT ![p] = label]

Freed(lock, p) == [k \in DOMAIN lock |-> IF lock[k] = p THEN None ELSE lock[k]]

\* After COMMIT or ROLLBACK nothing of the transaction is left.
Release(p) ==
    /\ Goto(p, "idle")
    /\ req' = [req EXCEPT ![p] = None]
    /\ at' = [at EXCEPT ![p] = 0]
    /\ batch' = [batch EXCEPT ![p] = {}]
    /\ left' = [left EXCEPT ![p] = {}]
    /\ view' = [view EXCEPT ![p] = None]
    /\ draft' = [draft EXCEPT ![p] = NoDraft]
    /\ accountLock' = Freed(accountLock, p)
    /\ tunnelLock' = Freed(tunnelLock, p)

Rollback(p) == Release(p) /\ UNCHANGED <<month, committed, failures>>

\* GetLimits reads the time before its transaction, the others later.
Begin(p, r) ==
    /\ pc[p] = "idle" /\ r \in Work[p]
    /\ req' = [req EXCEPT ![p] = r]
    /\ at' = [at EXCEPT ![p] = IF r.op = "limits" THEN month ELSE 0]
    /\ Goto(p, IF r.op = "settle" THEN "lock" ELSE "account")
    /\ UNCHANGED <<month, committed, batch, left, view, draft, accountLock,
                   tunnelLock, failures>>

-----------------------------------------------------------------------------
(* SettleBatch: the batch.                                                 *)

Unlocked(r) == {i \in appended \ settled : /\ RowOf[i].region = r
                                           /\ \A q \in Proc : i \notin batch[q]}

\* ORDER BY created_at, _id LIMIT n
FirstRows(A) == {i \in A : Cardinality({j \in A : j < i}) < BatchLimit}

\* Mutant: the month the settlement runs in.
MonthSettled(i) == month

\* The billing month of a row is the one it was reported in.
MonthOf(i) == RowOf[i].month

PeriodKeys(S) == {<<RowOf[i].acct, MonthOf(i)>> : i \in L!Billable(S)}
TunnelIDs(S) == {RowOf[i].tunnel : i \in L!Billable(S)}

\* Mutant: the last row's usage instead of the sum.
PeriodUsageLast(S, k) ==
    LET T == {i \in S : RowOf[i].acct = k[1] /\ MonthOf(i) = k[2]} IN
    L!Usage({i \in T : \A j \in T : j <= i})

PeriodUsage(S, k) ==
    L!Usage({i \in S : RowOf[i].acct = k[1] /\ MonthOf(i) = k[2]})
TunnelUsage(S, t) == L!Usage(L!OfTunnel(S, t))

\* AddBytes fails on one of the batch's sums.
Overflows(S) == \/ \E k \in PeriodKeys(S) : PeriodUsage(S, k) > MaxBytes
                \/ \E t \in TunnelIDs(S) : TunnelUsage(S, t) > MaxBytes

\* FOR UPDATE SKIP LOCKED passes over the rows of other settlements.
LockUnsettledMetering(p) ==
    /\ pc[p] = "lock"
    /\ LET S == FirstRows(Unlocked(req[p].region)) IN
       \/ /\ S = {} \/ Overflows(S)
          /\ Rollback(p)
       \/ /\ S # {} /\ ~Overflows(S)
          /\ batch' = [batch EXCEPT ![p] = S]
          /\ left' = [left EXCEPT ![p] = TunnelIDs(S)]
          /\ Goto(p, IF TunnelIDs(S) = {} THEN "block" ELSE "tunnels")
          /\ UNCHANGED <<month, committed, req, at, view, draft, accountLock,
                         tunnelLock, failures>>

\* Tunnel ids are visited in ascending order, so are accounts and their months.
NextTunnel(p) == {t \in left[p] : \A u \in left[p] : t <= u}

NextKey(p) == {k \in left[p] : \A j \in left[p] :
                  k[1] < j[1] \/ (k[1] = j[1] /\ k[2] <= j[2])}

\* Mutant: the tunnel's region is not compared.
IncreaseTunnelUsageAnywhere(p) ==
    /\ pc[p] = "tunnels"
    /\ \E t \in NextTunnel(p) :
          LET n == tunnel[t].used + TunnelUsage(batch[p], t) IN
          /\ tunnelLock[t] = None
          /\ \/ /\ tunnel[t] # None /\ n > MaxBytes
                /\ Rollback(p)
             \/ /\ tunnel[t] # None => n <= MaxBytes
                /\ tunnelLock' = [tunnelLock EXCEPT ![t] = p]
                /\ draft' = IF tunnel[t] # None
                            THEN [draft EXCEPT ![p].used[t] = n]
                            ELSE draft
                /\ IF left[p] = {t}
                   THEN /\ left' = [left EXCEPT ![p] = PeriodKeys(batch[p])]
                        /\ Goto(p, "account")
                   ELSE /\ left' = [left EXCEPT ![p] = @ \ {t}]
                        /\ UNCHANGED pc
                /\ UNCHANGED <<month, committed, req, at, batch, view,
                               accountLock, failures>>

\* The UPDATE keeps the row it looked up locked - the gap, where there is none
\* - and changes it only in the settlement's own region.  Tunnels models the
\* deadline that the next statement refreshes.
IncreaseTunnelUsage(p) ==
    /\ pc[p] = "tunnels"
    /\ \E t \in NextTunnel(p) :
          LET matches == tunnel[t] # None /\ tunnel[t].region = req[p].region
              n == tunnel[t].used + TunnelUsage(batch[p], t)
          IN
          /\ tunnelLock[t] = None
          /\ \/ /\ matches /\ n > MaxBytes
                /\ Rollback(p)
             \/ /\ matches => n <= MaxBytes
                /\ tunnelLock' = [tunnelLock EXCEPT ![t] = p]
                /\ draft' = IF matches THEN [draft EXCEPT ![p].used[t] = n]
                            ELSE draft
                /\ IF left[p] = {t}
                   THEN /\ left' = [left EXCEPT ![p] = PeriodKeys(batch[p])]
                        /\ Goto(p, "account")
                   ELSE /\ left' = [left EXCEPT ![p] = @ \ {t}]
                        /\ UNCHANGED pc
                /\ UNCHANGED <<month, committed, req, at, batch, view,
                               accountLock, failures>>

-----------------------------------------------------------------------------
(* The account, its plan and its period.                                   *)

\* The account and the month whose period p needs next.
Keys(p) == CASE req[p].op = "settle" -> NextKey(p)
             [] req[p].op = "token"  -> {<<req[p].acct, month>>}
             [] req[p].op = "limits" -> {<<req[p].acct, at[p]>>}

\* Mutant: the account is read without FOR UPDATE.
LockAccountUnlocked(p) ==
    /\ pc[p] = "account"
    /\ \/ req[p].op = "token" /\ Rollback(p)
       \/ /\ Goto(p, IF view[p] = None THEN "plan" ELSE "period")
          /\ UNCHANGED <<month, committed, req, at, batch, left, view, draft,
                         accountLock, tunnelLock, failures>>

\* The token request is refused if the account is disabled; settlement and
\* GetLimits do not look at the status.
LockAccount(p) ==
    /\ pc[p] = "account"
    /\ \E k \in Keys(p) :
          /\ accountLock[k[1]] \in {p, None}
          /\ \/ req[p].op = "token" /\ Rollback(p)
             \/ /\ accountLock' = [accountLock EXCEPT ![k[1]] = p]
                /\ Goto(p, IF view[p] = None THEN "plan" ELSE "period")
                /\ UNCHANGED <<month, committed, req, at, batch, left, view,
                               draft, tunnelLock, failures>>

\* The plan is the transaction's first plain SELECT: its read view opens here.
FindPlan(p) ==
    /\ pc[p] = "plan"
    /\ view' = [view EXCEPT ![p] = period]
    /\ Goto(p, "period")
    /\ UNCHANGED <<month, committed, req, at, batch, left, draft, accountLock,
                   tunnelLock, failures>>

\* ensurePeriod: INSERT IGNORE finds a row committed after the read view was
\* opened, which the SELECT that follows does not see.
Hidden(p, k) == period[k[1]][k[2]] # None /\ view[p][k[1]][k[2]] = None

Billed(k) == IF period[k[1]][k[2]] = None THEN 0 ELSE period[k[1]][k[2]]

Put(p, k, n) == draft' = [draft EXCEPT ![p].period[k[1]][k[2]] = n]

\* Mutant: the total may exceed its column.
IncreasePeriodUsageUnchecked(p) ==
    /\ pc[p] = "period" /\ req[p].op = "settle"
    /\ \E k \in NextKey(p) :
          \/ /\ Hidden(p, k)
             /\ Rollback(p)
          \/ /\ ~Hidden(p, k)
             /\ Put(p, k, Billed(k) + PeriodUsage(batch[p], k))
             /\ left' = [left EXCEPT ![p] = @ \ {k}]
             /\ Goto(p, IF left[p] = {k} THEN "block" ELSE "account")
             /\ UNCHANGED <<month, committed, req, at, batch, view, accountLock,
                            tunnelLock, failures>>

IncreasePeriodUsage(p) ==
    /\ pc[p] = "period" /\ req[p].op = "settle"
    /\ \E k \in NextKey(p) :
          LET n == Billed(k) + PeriodUsage(batch[p], k) IN
          \/ /\ Hidden(p, k) \/ n > MaxBytes
             /\ Rollback(p)
          \/ /\ ~Hidden(p, k) /\ n <= MaxBytes
             /\ Put(p, k, n)
             /\ left' = [left EXCEPT ![p] = @ \ {k}]
             /\ Goto(p, IF left[p] = {k} THEN "block" ELSE "account")
             /\ UNCHANGED <<month, committed, req, at, batch, view, accountLock,
                            tunnelLock, failures>>

\* The end of assertTrafficAllowed and of GetLimits: the period is created if
\* it is missing.  A refusal rolls that back, too.
ReadPeriod(p) ==
    /\ pc[p] = "period" /\ req[p].op \in {"token", "limits"}
    /\ \E k \in Keys(p) :
          \/ /\ \/ Hidden(p, k)
                \/ req[p].op = "token" /\ Billed(k) >= Quota
             /\ Rollback(p)
          \/ /\ ~Hidden(p, k)
             /\ req[p].op = "token" => Billed(k) < Quota
             /\ at' = [at EXCEPT ![p] = k[2]]
             /\ IF period[k[1]][k[2]] = None THEN Put(p, k, 0)
                ELSE UNCHANGED draft
             /\ Goto(p, "commit")
             /\ UNCHANGED <<month, committed, req, batch, left, view,
                            accountLock, tunnelLock, failures>>

-----------------------------------------------------------------------------
(* SettleBatch: the end.                                                   *)

\* Mutant: > instead of >=.
ExhaustedMonthsStrict(p, a) ==
    {m \in Month : /\ draft[p].period[a][m] # None
                   /\ draft[p].period[a][m] > Quota}

\* The months of the batch that end up exhausted, for one account.
ExhaustedMonths(p, a) ==
    {m \in Month : /\ draft[p].period[a][m] # None
                   /\ draft[p].period[a][m] >= Quota}

BlockQuotaIfExhausted(p) ==
    /\ pc[p] = "block"
    /\ draft' = [draft EXCEPT ![p].blocked = [a \in Account |->
                    LET later == {m \in ExhaustedMonths(p, a) : m > blocked[a]}
                    IN  IF later = {} THEN None ELSE Max(later)]]
    /\ Goto(p, "mark")
    /\ UNCHANGED <<month, committed, req, at, batch, left, view, accountLock,
                   tunnelLock, failures>>

\* Mutant: only the rows that were billed are marked.
MarkBillableSettled(p) ==
    /\ pc[p] = "mark"
    /\ \/ /\ L!Billable(batch[p]) # batch[p]
          /\ Rollback(p)
       \/ /\ L!Billable(batch[p]) = batch[p]
          /\ draft' = [draft EXCEPT ![p].settled = batch[p]]
          /\ Goto(p, "commit")
          /\ UNCHANGED <<month, committed, req, at, batch, left, view,
                         accountLock, tunnelLock, failures>>

\* Every row of the batch must still have been unsettled.
MarkMeteringSettled(p) ==
    /\ pc[p] = "mark"
    /\ \/ /\ batch[p] \cap settled # {}
          /\ Rollback(p)
       \/ /\ batch[p] \cap settled = {}
          /\ draft' = [draft EXCEPT ![p].settled = batch[p]]
          /\ Goto(p, "commit")
          /\ UNCHANGED <<month, committed, req, at, batch, left, view,
                         accountLock, tunnelLock, failures>>

Commit(p) ==
    /\ pc[p] = "commit"
    /\ LET d == draft[p] IN
       /\ settled' = settled \cup d.settled
       /\ period' = [a \in Account |-> [m \in Month |->
             IF d.period[a][m] = None THEN period[a][m] ELSE d.period[a][m]]]
       /\ tunnel' = [t \in Tunnel |->
             IF d.used[t] = None THEN tunnel[t]
             ELSE [tunnel[t] EXCEPT !.used = d.used[t]]]
       /\ blocked' = [a \in Account |->
             IF d.blocked[a] = None THEN blocked[a] ELSE d.blocked[a]]
    /\ Release(p)
    /\ UNCHANGED <<month, appended, failures>>

\* A wait the database ends (a deadlock, the lock wait's time limit), a crash,
\* a shutdown, a cancelled request, a lost connection.
Fail(p) ==
    /\ pc[p] # "idle" /\ failures < MaxFailures
    /\ failures' = failures + 1
    /\ Release(p)
    /\ UNCHANGED <<month, committed>>

-----------------------------------------------------------------------------
(* The environment: Gateway, the clock, and the tunnel transactions.       *)

\* A row reports usage of the current month or of an earlier one, for a tunnel
\* that exists or existed.
Append(i) ==
    /\ i \notin appended
    /\ RowOf[i].month <= month
    /\ appended' = appended \cup {i}
    /\ UNCHANGED <<month, settled, tunnel, blocked, period, pc, req, at, batch,
                   left, view, draft, accountLock, tunnelLock, failures>>

NextMonth ==
    /\ month + 1 \in Month
    /\ month' = month + 1
    /\ UNCHANGED <<committed, pc, req, at, batch, left, view, draft,
                   accountLock, tunnelLock, failures>>

\* The commit of a transaction that Tunnels describes in detail.
ChangeTunnel(t) ==
    /\ tunnelLock[t] = None
    /\ \/ tunnel[t] # None /\ tunnel' = [tunnel EXCEPT ![t] = None]
       \/ /\ tunnel[t] = None
          /\ \E r \in Region :
                tunnel' = [tunnel EXCEPT ![t] = [region |-> r, used |-> 0]]
    /\ UNCHANGED <<month, appended, settled, blocked, period, pc, req, at,
                   batch, left, view, draft, accountLock, tunnelLock, failures>>

-----------------------------------------------------------------------------

Statement(p) ==
    \/ LockUnsettledMetering(p) \/ IncreaseTunnelUsage(p) \/ LockAccount(p)
    \/ FindPlan(p) \/ IncreasePeriodUsage(p) \/ ReadPeriod(p)
    \/ BlockQuotaIfExhausted(p) \/ MarkMeteringSettled(p) \/ Commit(p)

Environment == \/ \E i \in Row : Append(i)
               \/ \E t \in Tunnel : ChangeTunnel(t)
               \/ NextMonth

Next == \/ \E p \in Proc : \/ \E r \in Work[p] : Begin(p, r)
                           \/ Statement(p)
                           \/ Fail(p)
        \/ Environment

Spec == Init /\ [][Next]_vars

StartSettlement(p) == \E r \in Work[p] : r.op = "settle" /\ Begin(p, r)

Settlers == {p \in Proc : \E r \in Work[p] : r.op = "settle"}

\* Every statement that can run does, the job timer starts settlement again and
\* again, and a settlement that waits for a lock again and again gets it, as
\* InnoDB lets nobody wait for ever while others are granted the row.
Fairness ==
    /\ \A p \in Proc : WF_vars(Statement(p))
    /\ \A p \in Settlers : /\ WF_vars(StartSettlement(p))
                           /\ SF_vars(LockAccount(p))
                           /\ SF_vars(IncreaseTunnelUsage(p))

FairSpec == Spec /\ Fairness

-----------------------------------------------------------------------------
(* Properties.                                                             *)

\* The transactions of all replicas together behave like Ledger's atomic
\* steps: whatever the interleaving, the failures and the rollbacks, a commit
\* adds rows that nobody settled before, all of them, to every total they
\* belong to, and a deleted or a foreign tunnel gets none.
LedgerSpec == L!Spec

\* README: "Controller settles each row exactly once into monthly [...]
\* totals."  Every period holds the usage of its settled rows and no other.
BilledExactly ==
    \A a \in Account, m \in Month :
        Billed(<<a, m>>) = L!Usage(L!OfMonth(settled, a, m))

\* Gateway cuts off an account by quota_blocked_until, Controller refuses a
\* token by the period's row: the two always agree on the latest month that
\* was used up, also after late reports for a month gone by.
BlockAgrees ==
    \A a \in Account :
        blocked[a] = Max({0} \cup {m \in Month : Billed(<<a, m>>) >= Quota})

\* No token request is granted by an outdated period: the month it checked is
\* still within the quota when the request's transaction commits, though
\* settlements of every region bill the same account.
TokenWithinQuota ==
    [][\A p \in Proc :
        pc[p] = "commit" /\ pc'[p] = "idle" /\ req[p].op = "token"
        /\ failures' = failures
        => Billed(<<req[p].acct, at[p]>>) < Quota]_vars

Unsettled(r) == {i \in appended \ settled : RowOf[i].region = r}

\* Every counter has room for what the region has still to settle.  Without it
\* a batch fails, in AddBytes or at the statement that finds no room.
HasRoom(r) ==
    LET S == Unsettled(r) IN
    /\ ~Overflows(S)
    /\ \A k \in PeriodKeys(S) : Billed(k) + PeriodUsage(S, k) <= MaxBytes
    /\ \A t \in TunnelIDs(S) :
          tunnel[t] # None /\ tunnel[t].region = r =>
             tunnel[t].used + TunnelUsage(S, t) <= MaxBytes

\* Every row that Gateway appended is settled in the end, as long as failures
\* end: rows without usage too, and those of a batch that was rolled back
\* because a period appeared behind its read view.  A region whose rows find no
\* room stops no other, though its batches lock accounts and tunnels that the
\* others bill before they fail.  The table keeps its rows here; a partition
\* that is dropped at the end of its retention (see Partitions) takes unsettled
\* rows with it, those of a region without room among them.
EveryRowSettled ==
    \A r \in Region : <>[]HasRoom(r) => <>[](Unsettled(r) = {})
=============================================================================
