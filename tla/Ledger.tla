------------------------------- MODULE Ledger -------------------------------
(***************************************************************************)
(* What settlement promises: the billing ledger as one atomic step sees    *)
(* it.  Gateway appends metering rows; a settlement takes rows of one      *)
(* region that no settlement took before and adds them, at once, to the    *)
(* month and the account they were reported in and to the tunnels of that  *)
(* region they belong to, and blocks the accounts that used up a month.    *)
(* Settlement implements this specification.                               *)
(***************************************************************************)
EXTENDS Integers, FiniteSets, FiniteSetsExt, Functions

CONSTANTS
    Account, Tunnel,    \* primary keys of billing_account; tunnel ids
    Region,
    Month,              \* billing months, numbered from 1
    Row,                \* metering rows by their rank in (created_at, _id)
    RowOf,              \* the columns of each metering row
    Quota,              \* monthly_quota_bytes of the plan
    MaxBytes,           \* the largest 64-bit byte counter
    None

Metering == [acct : Account, tunnel : Tunnel, region : Region, month : Month,
             bytes : Nat]       \* the exact sum of both directions

VARIABLES
    appended,   \* the metering rows Gateway has written
    settled,    \* those with settled = 1
    billed,     \* billed_bytes of each account's month, 0 without a row
    tunnel,     \* region and bandwidth_used of each tunnel, or None
    blocked     \* the month quota_blocked_until ends, 0 if it never was set

ledger == <<appended, settled, billed, tunnel, blocked>>

TunnelRow == [region : Region, used : 0 .. MaxBytes]

Init ==
    /\ appended = {} /\ settled = {}
    /\ billed = [a \in Account |-> [m \in Month |-> 0]]
    /\ tunnel = [t \in Tunnel |-> None]
    /\ blocked = [a \in Account |-> 0]

Usage(S) == SumFunctionOnSet([i \in Row |-> RowOf[i].bytes], S)

OfMonth(S, a, m) == {i \in S : RowOf[i].acct = a /\ RowOf[i].month = m}
OfTunnel(S, t) == {i \in S : RowOf[i].tunnel = t}

Billable(S) == {i \in S : RowOf[i].bytes > 0}

Append(i) ==
    /\ i \notin appended
    /\ appended' = appended \cup {i}
    /\ UNCHANGED <<settled, billed, tunnel, blocked>>

\* A month counts against its account once it has used up the quota.
Exhausted(b, a) == {m \in Month : b[a][m] >= Quota}

Settle(r, S) ==
    /\ S # {} /\ S \subseteq appended \ settled
    /\ \A i \in S : RowOf[i].region = r
    /\ settled' = settled \cup S
    /\ billed' = [a \in Account |-> [m \in Month |->
                     billed[a][m] + Usage(OfMonth(S, a, m))]]
    /\ tunnel' = [t \in Tunnel |->
                     IF tunnel[t] # None /\ tunnel[t].region = r
                     THEN [tunnel[t] EXCEPT !.used = @ + Usage(OfTunnel(S, t))]
                     ELSE tunnel[t]]
    /\ blocked' = [a \in Account |->
                     Max({blocked[a]} \cup Exhausted(billed', a))]
    /\ UNCHANGED appended

CreateTunnel(t, r) ==
    /\ tunnel[t] = None
    /\ tunnel' = [tunnel EXCEPT ![t] = [region |-> r, used |-> 0]]
    /\ UNCHANGED <<appended, settled, billed, blocked>>

DeleteTunnel(t) ==
    /\ tunnel[t] # None
    /\ tunnel' = [tunnel EXCEPT ![t] = None]
    /\ UNCHANGED <<appended, settled, billed, blocked>>

Next ==
    \/ \E i \in Row : Append(i)
    \/ \E r \in Region, S \in SUBSET Row : Settle(r, S)
    \/ \E t \in Tunnel : DeleteTunnel(t) \/ \E r \in Region : CreateTunnel(t, r)

Spec == Init /\ [][Next]_ledger
=============================================================================
