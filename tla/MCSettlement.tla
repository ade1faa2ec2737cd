---------------------------- MODULE MCSettlement ----------------------------
(* Small instances of Settlement for TLC: the metering rows and the work.    *)
EXTENDS Settlement, TLC

CONSTANTS p1, p2, p3    \* processes
CONSTANTS r1, r2        \* regions

R(a, t, r, m, n) ==
    [acct |-> a, tunnel |-> t, region |-> r, month |-> m, bytes |-> n]

Settles(r) == [op |-> "settle", region |-> r]
Reads(op, a) == [op |-> op, acct |-> a]

\* Two regions bill one account over two months.  One of the rows reaches the
\* quota exactly, one is late, and one has usage that overflows the account's
\* month, in the batch or in the table.
LedgerRows == 1 :> R(1, 1, r1, 1, 2) @@ 2 :> R(1, 1, r1, 2, 1)
              @@ 3 :> R(1, 2, r2, 1, 1) @@ 4 :> R(1, 2, r1, 1, 8)
LedgerWork == p1 :> {Settles(r1)} @@ p2 :> {Settles(r1), Settles(r2)}
              @@ p3 :> {Reads("token", 1)}

\* Batches over two accounts, of which GetLimits works on the later, a row
\* without usage, and a region whose row finds no room once the other region
\* has billed the same account.
LiveRows == 1 :> R(1, 1, r2, 1, 9)
            @@ 2 :> R(1, 1, r1, 1, 1) @@ 3 :> R(2, 1, r1, 1, 1)
            @@ 4 :> R(1, 1, r1, 1, 0)
LiveWork == p1 :> {Settles(r1)} @@ p2 :> {Reads("limits", 2)}
            @@ p3 :> {Settles(r2)}
=============================================================================
