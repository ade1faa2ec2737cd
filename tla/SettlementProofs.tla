-------------------------- MODULE SettlementProofs --------------------------
(***************************************************************************)
(* Theorems about Settlement, for any accounts, tunnels, metering rows,    *)
(* processes and requests and any limits: the billing transactions         *)
(* implement Ledger, and what they leave in the tables adds up.            *)
(***************************************************************************)
EXTENDS Settlement, FiniteFacts

-----------------------------------------------------------------------------
(* Rows, requests and sums.                                                *)

\* The operations of a request, and what each of them names.
LEMMA RequestFields ==
    ASSUME NEW r \in Request
    PROVE  /\ r.op \in {"settle", "token", "limits"}
           /\ r.op = "settle" => r.region \in Region
           /\ r.op # "settle" => r.acct \in Account
BY DEF Request

\* None is no number, process or request.
LEMMA NoneApart ==
    /\ None \notin Nat /\ None \notin Proc /\ None \notin Request
    /\ None \notin Bytes /\ None \notin Month /\ 0 \in Bytes
<1>1. Bytes \subseteq Nat /\ Month \subseteq Nat /\ 0 \in Bytes
  BY QuotaAssumption, KeyAssumption DEF Bytes
<1>2. QED
  BY <1>1, SettlementAssumption

\* What a metering row names, and that its bytes are a number.
LEMMA RowFields ==
    ASSUME NEW i \in Row
    PROVE  /\ RowOf[i].acct \in Account /\ RowOf[i].tunnel \in Tunnel
           /\ RowOf[i].region \in Region /\ RowOf[i].month \in Month
           /\ RowOf[i].bytes \in Nat
BY RowAssumption DEF L!Metering

ByteCount == [i \in Row |-> RowOf[i].bytes]

\* The ledger's Usage is the library's sum over the rows.
LEMMA UsageIs == ASSUME NEW S PROVE L!Usage(S) = SumFunctionOnSet(ByteCount, S)
BY DEF ByteCount, L!Usage, L!SumFunctionOnSet, L!FoldFunctionOnSet, L!MapThenFoldSet,
       SumFunctionOnSet, FoldFunctionOnSet, MapThenFoldSet

\* There are finitely many rows, each with a number of bytes.
LEMMA ByteCountNat == IsFiniteSet(Row) /\ \A i \in Row : ByteCount[i] \in Nat
BY RowAssumption, RowFields DEF ByteCount

\* Usage is a number.
LEMMA UsageNat == ASSUME NEW S \in SUBSET Row
                  PROVE  IsFiniteSet(S) /\ L!Usage(S) \in Nat
<1>1. IsFiniteSet(S) /\ \A i \in S : ByteCount[i] \in Nat
  BY ByteCountNat, FS_Subset
<1>2. SumFunctionOnSet(ByteCount, S) \in Nat
  BY <1>1, SumNat
<1>3. QED
  BY <1>1, <1>2, UsageIs

\* Usage of rows that are told apart adds up.
LEMMA UsageUnion ==
    ASSUME NEW A \in SUBSET Row, NEW B \in SUBSET Row, A \cap B = {}
    PROVE  L!Usage(A \cup B) = L!Usage(A) + L!Usage(B)
<1>1. SumFunctionOnSet(ByteCount, A \cup B)
        = SumFunctionOnSet(ByteCount, A) + SumFunctionOnSet(ByteCount, B)
  BY ByteCountNat, SumUnion
<1>2. QED
  BY <1>1, UsageIs

\* Rows without bytes have no usage together either.
LEMMA UsageUnbilled ==
    ASSUME NEW S \in SUBSET Row, L!Billable(S) = {}
    PROVE  L!Usage(S) = 0
<1>1. IsFiniteSet(S)
  BY ByteCountNat, FS_Subset
<1>2. ASSUME NEW i \in S  PROVE ByteCount[i] = 0
  BY RowFields DEF L!Billable, ByteCount
<1>3. SumFunctionOnSet(ByteCount, S) = 0
  BY <1>1, <1>2, SumZero
<1>4. QED
  BY <1>3, UsageIs

\* What a batch adds to a month: nothing where no row of it has usage.
LEMMA PeriodUsageIs ==
    ASSUME NEW S \in SUBSET Row, NEW a \in Account, NEW m \in Month
    PROVE  /\ PeriodUsage(S, <<a, m>>) = L!Usage(L!OfMonth(S, a, m))
           /\ PeriodUsage(S, <<a, m>>) \in Nat
           /\ <<a, m>> \notin PeriodKeys(S) => PeriodUsage(S, <<a, m>>) = 0
<1>1. L!OfMonth(S, a, m) \in SUBSET Row
  BY DEF L!OfMonth
<1>2. PeriodUsage(S, <<a, m>>) = L!Usage(L!OfMonth(S, a, m))
  BY DEF PeriodUsage, L!OfMonth, MonthOf
<1>3. <<a, m>> \notin PeriodKeys(S) => L!Billable(L!OfMonth(S, a, m)) = {}
  BY DEF PeriodKeys, L!Billable, L!OfMonth, MonthOf
<1>4. QED
  BY <1>1, <1>2, <1>3, UsageNat, UsageUnbilled

\* What a batch adds to a tunnel: nothing where no row of it has usage.
LEMMA TunnelUsageIs ==
    ASSUME NEW S \in SUBSET Row, NEW t \in Tunnel
    PROVE  /\ TunnelUsage(S, t) = L!Usage(L!OfTunnel(S, t))
           /\ TunnelUsage(S, t) \in Nat
           /\ t \notin TunnelIDs(S) => TunnelUsage(S, t) = 0
<1>1. L!OfTunnel(S, t) \in SUBSET Row
  BY DEF L!OfTunnel
<1>2. t \notin TunnelIDs(S) => L!Billable(L!OfTunnel(S, t)) = {}
  BY DEF TunnelIDs, L!Billable, L!OfTunnel
<1>3. QED
  BY <1>1, <1>2, UsageNat, UsageUnbilled DEF TunnelUsage

\* The tunnels, accounts and months of a batch are those of its rows.
LEMMA BatchKeys ==
    ASSUME NEW S \in SUBSET Row
    PROVE  /\ TunnelIDs(S) \subseteq Tunnel
           /\ PeriodKeys(S) \subseteq Account \X Month
           /\ TunnelIDs(S) = {} => PeriodKeys(S) = {}
           /\ S = {} => TunnelIDs(S) = {} /\ PeriodKeys(S) = {}
<1>1. TunnelIDs(S) \subseteq Tunnel
  BY RowFields DEF TunnelIDs, L!Billable
<1>2. PeriodKeys(S) \subseteq Account \X Month
  BY RowFields DEF PeriodKeys, L!Billable, MonthOf
<1>3. TunnelIDs(S) = {} => L!Billable(S) = {}
  BY DEF TunnelIDs
<1>4. S = {} => L!Billable(S) = {}
  BY DEF L!Billable
<1>5. L!Billable(S) = {} => TunnelIDs(S) = {} /\ PeriodKeys(S) = {}
  BY DEF TunnelIDs, PeriodKeys
<1>6. QED
  BY <1>1, <1>2, <1>3, <1>4, <1>5

-----------------------------------------------------------------------------
(* The invariant.                                                          *)

Settling(p) == pc[p] # "idle" /\ req[p].op = "settle"
Reading(p) == pc[p] # "idle" /\ req[p].op # "settle"

\* The request each process runs at each of its statements.
Position(p) ==
    /\ pc[p] # "idle" => req[p] \in Request
    /\ pc[p] \in {"lock", "tunnels", "block", "mark"} => req[p].op = "settle"
    /\ Reading(p) /\ req[p].op = "limits" => at[p] \in Month

\* A settlement holds rows of its own region that are not yet settled, and has
\* still to visit tunnels and periods of its batch.
BatchOK(p) ==
    /\ batch[p] \subseteq appended \ settled
    /\ \A i \in batch[p] : RowOf[i].region = req[p].region
    /\ Settling(p) /\ pc[p] # "lock" => batch[p] # {}
    /\ ~Settling(p) \/ pc[p] = "lock" => batch[p] = {}
    /\ left[p] \subseteq IF pc[p] = "tunnels" THEN TunnelIDs(batch[p])
                        ELSE PeriodKeys(batch[p])
    /\ pc[p] \in {"block", "mark", "commit"} => left[p] = {}

\* The rows a transaction has written: those of the batch it has visited.
TunnelsDone(p) == TunnelIDs(batch[p]) \ (IF pc[p] = "tunnels" THEN left[p] ELSE {})
KeysDone(p) == IF pc[p] = "tunnels" THEN {} ELSE PeriodKeys(batch[p]) \ left[p]

OwnTunnel(p, t) == tunnel[t] # None /\ tunnel[t].region = req[p].region

UsedOK(p, t) ==
    /\ t \in TunnelsDone(p) => tunnelLock[t] = p
    /\ draft[p].used[t] = IF t \in TunnelsDone(p) /\ OwnTunnel(p, t)
                          THEN tunnel[t].used + TunnelUsage(batch[p], t) ELSE None

\* A period that was written is its committed value and what the batch adds,
\* under the account's lock.
PeriodOK(p, a, m) ==
    /\ pc[p] \in {"idle", "lock"} \/ (Reading(p) /\ pc[p] # "commit") =>
          draft[p].period[a][m] = None
    /\ <<a, m>> \in KeysDone(p) => draft[p].period[a][m] # None
    /\ draft[p].period[a][m] # None =>
          /\ accountLock[a] = p
          /\ draft[p].period[a][m] = Billed(<<a, m>>) + PeriodUsage(batch[p], <<a, m>>)

Later(p, a) == {m \in ExhaustedMonths(p, a) : m > blocked[a]}

BlockedOK(p, a) ==
    draft[p].blocked[a] = IF pc[p] \notin {"mark", "commit"} \/ Later(p, a) = {}
                          THEN None ELSE Max(Later(p, a))

SettledOK(p) == draft[p].settled = IF pc[p] = "commit" THEN batch[p] ELSE {}

\* The account of the period that is read or written next.
LockOK(p) ==
    /\ Settling(p) /\ pc[p] \in {"plan", "period"} =>
          \A k \in NextKey(p) : accountLock[k[1]] = p
    /\ Reading(p) /\ pc[p] \in {"plan", "period", "commit"} =>
          accountLock[req[p].acct] = p

\* What a granted token request has read still holds.
TokenOK(p) ==
    Reading(p) /\ pc[p] = "commit" /\ req[p].op = "token" =>
        /\ at[p] \in Month
        /\ Billed(<<req[p].acct, at[p]>>) < Quota

ProcOK(p) ==
    /\ Position(p) /\ BatchOK(p) /\ SettledOK(p) /\ LockOK(p) /\ TokenOK(p)
    /\ \A t \in Tunnel : UsedOK(p, t)
    /\ \A a \in Account : BlockedOK(p, a) /\ \A m \in Month : PeriodOK(p, a, m)

\* No metering row is in two batches.
BatchesApart == \A p, q \in Proc : p # q => batch[p] \cap batch[q] = {}

Exhausted(a) == {m \in Month : Billed(<<a, m>>) >= Quota}

\* The block of an account ends with its last exhausted month.
BlockOK ==
    \A a \in Account : /\ blocked[a] = 0 \/ blocked[a] \in Exhausted(a)
                       /\ \A m \in Exhausted(a) : m <= blocked[a]

SettlementInv ==
    /\ TypeOK /\ left = [p \in Proc |-> left[p]]
    /\ \A p \in Proc : ProcOK(p)
    /\ BatchesApart /\ BlockOK /\ BilledExactly

-----------------------------------------------------------------------------
(* What a transaction writes in its draft.                                 *)

\* What the parts of a draft are.
LEMMA DraftRows ==
    ASSUME TypeOK, NEW p \in Proc
    PROVE  /\ draft[p] \in Draft
           /\ \A t \in Tunnel : draft[p].used[t] \in Bytes \cup {None}
           /\ \A a \in Account, m \in Month :
                 draft[p].period[a][m] \in Bytes \cup {None}
           /\ \A a \in Account : draft[p].blocked[a] \in Month \cup {None}
BY DEF TypeOK, Draft, PeriodRows

\* Writing a tunnel's usage changes nothing else in any draft.
LEMMA WriteUsed ==
    ASSUME TypeOK, NEW p \in Proc, NEW t \in Tunnel, NEW n \in Bytes,
           draft' = [draft EXCEPT ![p].used[t] = n]
    PROVE  /\ draft' \in [Proc -> Draft]
           /\ \A q \in Proc : q # p => draft'[q] = draft[q]
           /\ draft'[p].period = draft[p].period
           /\ draft'[p].blocked = draft[p].blocked
           /\ draft'[p].settled = draft[p].settled
           /\ \A u \in Tunnel :
                 draft'[p].used[u] = IF u = t THEN n ELSE draft[p].used[u]
<1>1. draft \in [Proc -> Draft]
  BY DEF TypeOK
<1>2. [draft[p] EXCEPT !.used[t] = n] \in Draft
  BY <1>1 DEF Draft
<1>3. draft' = [draft EXCEPT ![p] = [draft[p] EXCEPT !.used[t] = n]]
  BY <1>1
<1>4. draft[p] \in Draft /\ draft'[p] = [draft[p] EXCEPT !.used[t] = n]
  BY <1>1, <1>3
<1>5. draft[p].used \in [Tunnel -> Bytes \cup {None}]
  BY <1>4 DEF Draft
<1>6. /\ draft'[p].period = draft[p].period
      /\ draft'[p].blocked = draft[p].blocked
      /\ draft'[p].settled = draft[p].settled
      /\ draft'[p].used = [draft[p].used EXCEPT ![t] = n]
  BY <1>4 DEF Draft
<1>7. QED
  BY <1>1, <1>2, <1>3, <1>5, <1>6

\* Writing a period changes nothing else in any draft.
LEMMA WritePeriod ==
    ASSUME TypeOK, NEW p \in Proc, NEW a \in Account, NEW m \in Month,
           NEW n \in Bytes, Put(p, <<a, m>>, n)
    PROVE  /\ draft' \in [Proc -> Draft]
           /\ \A q \in Proc : q # p => draft'[q] = draft[q]
           /\ draft'[p].used = draft[p].used
           /\ draft'[p].blocked = draft[p].blocked
           /\ draft'[p].settled = draft[p].settled
           /\ \A b \in Account, j \in Month :
                 draft'[p].period[b][j] = IF b = a /\ j = m THEN n
                                          ELSE draft[p].period[b][j]
<1>1. draft \in [Proc -> Draft]
  BY DEF TypeOK
<1> DEFINE rows == draft[p].period
           row == [rows[a] EXCEPT ![m] = n]
           new == [rows EXCEPT ![a] = row]
<1>2. rows \in PeriodRows /\ draft[p] \in Draft
  BY <1>1 DEF Draft
<1>3. rows[a] \in [Month -> Bytes \cup {None}]
  BY <1>2 DEF PeriodRows
<1>4. row \in [Month -> Bytes \cup {None}]
  BY <1>3
<1>5. new \in PeriodRows
  BY <1>2, <1>4 DEF PeriodRows
<1>6. draft' = [draft EXCEPT ![p] = [draft[p] EXCEPT !.period = new]]
  BY <1>1 DEF Put
<1> HIDE DEF new
<1>7. [draft[p] EXCEPT !.period = new] \in Draft
  BY <1>2, <1>5 DEF Draft
<1>8. draft'[p] = [draft[p] EXCEPT !.period = new]
  BY <1>1, <1>6
<1>9. /\ draft'[p].used = draft[p].used
      /\ draft'[p].blocked = draft[p].blocked
      /\ draft'[p].settled = draft[p].settled
      /\ draft'[p].period = new
  BY <1>2, <1>8 DEF Draft
<1>10. \A b \in Account, j \in Month :
          new[b][j] = IF b = a /\ j = m THEN n ELSE rows[b][j]
  BY <1>2, <1>3 DEF new, PeriodRows
<1>11. QED
  BY <1>1, <1>6, <1>7, <1>9, <1>10

\* Writing the blocks changes nothing else in any draft.
LEMMA WriteBlocked ==
    ASSUME TypeOK, NEW p \in Proc, NEW f \in [Account -> Month \cup {None}],
           draft' = [draft EXCEPT ![p].blocked = f]
    PROVE  /\ draft' \in [Proc -> Draft]
           /\ \A q \in Proc : q # p => draft'[q] = draft[q]
           /\ draft'[p].used = draft[p].used
           /\ draft'[p].period = draft[p].period
           /\ draft'[p].settled = draft[p].settled
           /\ draft'[p].blocked = f
<1>1. draft \in [Proc -> Draft] /\ draft[p] \in Draft
  BY DEF TypeOK
<1>2. [draft[p] EXCEPT !.blocked = f] \in Draft
  BY <1>1 DEF Draft
<1>3. draft'[p] = [draft[p] EXCEPT !.blocked = f]
  BY <1>1
<1>4. QED
  BY <1>1, <1>2, <1>3 DEF Draft

\* Writing the marks changes nothing else in any draft.
LEMMA WriteSettled ==
    ASSUME TypeOK, NEW p \in Proc, NEW S \in SUBSET Row,
           draft' = [draft EXCEPT ![p].settled = S]
    PROVE  /\ draft' \in [Proc -> Draft]
           /\ \A q \in Proc : q # p => draft'[q] = draft[q]
           /\ draft'[p].used = draft[p].used
           /\ draft'[p].period = draft[p].period
           /\ draft'[p].blocked = draft[p].blocked
           /\ draft'[p].settled = S
<1>1. draft \in [Proc -> Draft] /\ draft[p] \in Draft
  BY DEF TypeOK
<1>2. [draft[p] EXCEPT !.settled = S] \in Draft
  BY <1>1 DEF Draft
<1>3. draft'[p] = [draft[p] EXCEPT !.settled = S]
  BY <1>1
<1>4. QED
  BY <1>1, <1>2, <1>3 DEF Draft

\* An empty draft writes nothing.
LEMMA NoDraftType ==
    /\ NoDraft \in Draft /\ NoDraft.settled = {}
    /\ \A t \in Tunnel : NoDraft.used[t] = None
    /\ \A a \in Account : /\ NoDraft.blocked[a] = None
                          /\ \A m \in Month : NoDraft.period[a][m] = None
BY DEF NoDraft, Draft, PeriodRows

-----------------------------------------------------------------------------
(* The steps of the other processes.                                       *)

\* A step that is none of q leaves the variables of q and its locks alone.
Private(q) == <<pc[q], req[q], at[q], batch[q], left[q], draft[q]>>

KeepsLocks(q) ==
    /\ \A a \in Account : accountLock[a] = q => accountLock'[a] = q
    /\ \A t \in Tunnel : tunnelLock[t] = q => tunnelLock'[t] = q

KeepsRows(q) ==
    /\ \A a \in Account : accountLock[a] = q =>
          period'[a] = period[a] /\ blocked'[a] = blocked[a]
    /\ \A t \in Tunnel : tunnelLock[t] = q => tunnel'[t] = tunnel[t]
    /\ appended \subseteq appended' /\ batch[q] \cap settled' = {}

\* A process is in order after a step of another one that keeps the locks it
\* has and the rows that are locked by it.
LEMMA OthersStep ==
    ASSUME TypeOK, NEW q \in Proc, ProcOK(q), Private(q)' = Private(q),
           KeepsLocks(q), KeepsRows(q)
    PROVE  ProcOK(q)'
<1>1. /\ pc'[q] = pc[q] /\ req'[q] = req[q] /\ at'[q] = at[q]
      /\ batch'[q] = batch[q] /\ left'[q] = left[q] /\ draft'[q] = draft[q]
  BY DEF Private
<1>2. Position(q)' /\ SettledOK(q)'
  BY <1>1 DEF ProcOK, Position, SettledOK, Reading
<1>3. BatchOK(q)'
  BY <1>1 DEF ProcOK, BatchOK, Settling, KeepsRows, TunnelIDs, PeriodKeys, L!Billable,
              MonthOf
<1>4. LockOK(q)'
  <2>1. ASSUME Settling(q)', pc'[q] \in {"plan", "period"}, NEW k \in NextKey(q)'
        PROVE  accountLock'[k[1]] = q
    <3>1. k \in PeriodKeys(batch[q]) /\ accountLock[k[1]] = q
      BY <1>1, <2>1 DEF ProcOK, LockOK, Settling, NextKey, BatchOK
    <3>2. k[1] \in Account
      BY <3>1, BatchKeys DEF TypeOK
    <3>3. QED
      BY <3>1, <3>2 DEF KeepsLocks
  <2>2. ASSUME Reading(q)', pc'[q] \in {"plan", "period", "commit"}
        PROVE  accountLock'[req'[q].acct] = q
    BY <1>1, <2>2, RequestFields DEF ProcOK, LockOK, Reading, KeepsLocks, Position
  <2>3. QED
    BY <2>1, <2>2 DEF LockOK
<1>5. TokenOK(q)'
  BY <1>1, RequestFields DEF ProcOK, TokenOK, LockOK, Reading, Billed, KeepsRows, Position
<1>6. ASSUME NEW t \in Tunnel  PROVE UsedOK(q, t)'
  <2>1. UsedOK(q, t) /\ (TunnelsDone(q)' = TunnelsDone(q))
    BY <1>1 DEF ProcOK, TunnelsDone, TunnelIDs, L!Billable
  <2>2. TunnelUsage(batch[q], t)' = TunnelUsage(batch[q], t)
    BY <1>1
  <2>3. CASE t \in TunnelsDone(q)
    BY <1>1, <2>1, <2>2, <2>3 DEF UsedOK, KeepsRows, KeepsLocks, OwnTunnel
  <2>4. CASE t \notin TunnelsDone(q)
    BY <1>1, <2>1, <2>4 DEF UsedOK
  <2>5. QED
    BY <2>3, <2>4
<1>7. ASSUME NEW a \in Account, NEW m \in Month  PROVE PeriodOK(q, a, m)'
  <2>1. PeriodOK(q, a, m) /\ KeysDone(q)' = KeysDone(q)
    BY <1>1 DEF ProcOK, KeysDone, PeriodKeys, L!Billable, MonthOf
  <2>2. PeriodUsage(batch[q], <<a, m>>)' = PeriodUsage(batch[q], <<a, m>>)
    BY <1>1
  <2>3. CASE draft[q].period[a][m] # None
    <3>1. accountLock[a] = q /\ Billed(<<a, m>>)' = Billed(<<a, m>>)
      BY <2>1, <2>3 DEF PeriodOK, KeepsRows, Billed
    <3>2. QED
      BY <1>1, <2>1, <2>2, <2>3, <3>1 DEF PeriodOK, KeepsLocks, Reading
  <2>4. CASE draft[q].period[a][m] = None
    BY <1>1, <2>1, <2>4 DEF PeriodOK, Reading
  <2>5. QED
    BY <2>3, <2>4
<1>8. ASSUME NEW a \in Account  PROVE BlockedOK(q, a)'
  <2>1. BlockedOK(q, a) /\ \A m \in Month : PeriodOK(q, a, m)
    BY DEF ProcOK
  <2>2. Later(q, a)' = Later(q, a)
    <3>1. CASE accountLock[a] = q
      BY <1>1, <3>1 DEF KeepsRows, Later, ExhaustedMonths
    <3>2. CASE accountLock[a] # q
      <4>1. \A m \in Month : draft[q].period[a][m] = None
        BY <2>1, <3>2 DEF PeriodOK
      <4>2. QED
        BY <1>1, <4>1 DEF Later, ExhaustedMonths
    <3>3. QED
      BY <3>1, <3>2
  <2>3. QED
    BY <1>1, <2>1, <2>2 DEF BlockedOK
<1>9. QED
  BY <1>2, <1>3, <1>4, <1>5, <1>6, <1>7, <1>8 DEF ProcOK

\* A step of p within its transaction: nothing is committed.
LEMMA OwnStep ==
    ASSUME SettlementInv, NEW p \in Proc, TypeOK', left' = [q \in Proc |-> left'[q]],
           UNCHANGED committed, ProcOK(p)',
           \A q \in Proc : q # p => /\ Private(q)' = Private(q) /\ KeepsLocks(q)
                                    /\ batch'[p] \cap batch[q] = {}
    PROVE  SettlementInv'
<1>1. ASSUME NEW q \in Proc  PROVE ProcOK(q)'
  <2>1. CASE q # p
    <3>1. TypeOK /\ ProcOK(q) /\ KeepsRows(q)
      BY DEF SettlementInv, ProcOK, BatchOK, KeepsRows, committed
    <3>2. QED
      BY <2>1, <3>1, OthersStep
  <2>2. QED
    BY <2>1
<1>2. BatchesApart'
  <2>1. \A q \in Proc : q # p => batch'[q] = batch[q]
    BY DEF Private
  <2>2. QED
    BY <2>1 DEF SettlementInv, BatchesApart
<1>3. BlockOK' /\ BilledExactly'
  BY DEF SettlementInv, BlockOK, BilledExactly, Billed, Exhausted, committed, L!OfMonth
<1>4. QED
  BY <1>1, <1>2, <1>3 DEF SettlementInv

-----------------------------------------------------------------------------
(* The ends of a transaction.                                              *)

\* Giving up the locks of one process leaves those of the others.
LEMMA FreedLocks ==
    ASSUME NEW K, NEW lock \in [K -> Proc \cup {None}], NEW p \in Proc
    PROVE  /\ Freed(lock, p) \in [K -> Proc \cup {None}]
           /\ \A k \in K, q \in Proc :
                 q # p /\ lock[k] = q => Freed(lock, p)[k] = q
BY NoneApart DEF Freed

\* A process without a request has no part in any transaction.
LEMMA IdleProc ==
    ASSUME NEW p \in Proc, pc[p] = "idle", batch[p] = {}, left[p] = {},
           draft[p] = NoDraft
    PROVE  ProcOK(p)
<1>1. TunnelsDone(p) = {} /\ KeysDone(p) = {}
  BY BatchKeys DEF TunnelsDone, KeysDone
<1>2. Position(p) /\ BatchOK(p) /\ SettledOK(p) /\ LockOK(p) /\ TokenOK(p)
  BY NoDraftType, BatchKeys DEF Position, BatchOK, SettledOK, LockOK, TokenOK, Settling,
     Reading
<1>3. \A t \in Tunnel : UsedOK(p, t)
  BY <1>1, NoDraftType DEF UsedOK
<1>4. \A a \in Account, m \in Month : PeriodOK(p, a, m)
  BY <1>1, NoDraftType DEF PeriodOK
<1>5. \A a \in Account : BlockedOK(p, a)
  BY NoDraftType DEF BlockedOK
<1>6. QED
  BY <1>2, <1>3, <1>4, <1>5 DEF ProcOK

\* The same of a process whose transaction ends in this step.
LEMMA IdleProcNext ==
    ASSUME NEW p \in Proc, pc'[p] = "idle", batch'[p] = {}, left'[p] = {},
           draft'[p] = NoDraft
    PROVE  ProcOK(p)'
<1>1. TunnelsDone(p)' = {} /\ KeysDone(p)' = {}
  BY BatchKeys DEF TunnelsDone, KeysDone
<1>2. Position(p)' /\ BatchOK(p)' /\ SettledOK(p)' /\ LockOK(p)' /\ TokenOK(p)'
  BY NoDraftType, BatchKeys DEF Position, BatchOK, SettledOK, LockOK, TokenOK, Settling,
     Reading
<1>3. \A t \in Tunnel : UsedOK(p, t)'
  BY <1>1, NoDraftType DEF UsedOK
<1>4. \A a \in Account, m \in Month : PeriodOK(p, a, m)'
  BY <1>1, NoDraftType DEF PeriodOK
<1>5. \A a \in Account : BlockedOK(p, a)'
  BY NoDraftType DEF BlockedOK
<1>6. QED
  BY <1>2, <1>3, <1>4, <1>5 DEF ProcOK

\* Ending a transaction keeps the types of what processes hold.
LEMMA Released ==
    ASSUME TypeOK, left = [q \in Proc |-> left[q]], NEW p \in Proc, Release(p)
    PROVE  /\ pc' \in [Proc -> PC] /\ req' \in [Proc -> Request \cup {None}]
           /\ at' \in [Proc -> Month \cup {0}] /\ batch' \in [Proc -> SUBSET Row]
           /\ \A q \in Proc : left'[q] \subseteq IF pc'[q] = "tunnels" THEN Tunnel
                                                ELSE Account \X Month
           /\ view' \in [Proc -> PeriodRows \cup {None}]
           /\ draft' \in [Proc -> Draft]
           /\ accountLock' \in [Account -> Proc \cup {None}]
           /\ tunnelLock' \in [Tunnel -> Proc \cup {None}]
           /\ left' = [q \in Proc |-> left'[q]]
           /\ ProcOK(p)' /\ batch'[p] = {} /\ pc'[p] = "idle"
           /\ \A q \in Proc : q # p => Private(q)' = Private(q) /\ KeepsLocks(q)
<1>1. /\ pc' \in [Proc -> PC] /\ req' \in [Proc -> Request \cup {None}]
      /\ at' \in [Proc -> Month \cup {0}] /\ batch' \in [Proc -> SUBSET Row]
      /\ view' \in [Proc -> PeriodRows \cup {None}]
      /\ draft' \in [Proc -> Draft]
      /\ left' = [q \in Proc |-> left'[q]]
  BY NoDraftType DEF TypeOK, Release, Goto, PC
<1>2. /\ pc'[p] = "idle" /\ batch'[p] = {} /\ left'[p] = {} /\ draft'[p] = NoDraft
      /\ \A q \in Proc : q # p =>
            /\ pc'[q] = pc[q] /\ req'[q] = req[q] /\ at'[q] = at[q]
            /\ batch'[q] = batch[q] /\ left'[q] = left[q] /\ draft'[q] = draft[q]
  BY DEF TypeOK, Release, Goto
<1>3. \A q \in Proc : left'[q] \subseteq IF pc'[q] = "tunnels" THEN Tunnel
                                        ELSE Account \X Month
  BY <1>2 DEF TypeOK
<1>4. /\ accountLock' \in [Account -> Proc \cup {None}]
      /\ tunnelLock' \in [Tunnel -> Proc \cup {None}]
      /\ \A q \in Proc : q # p => KeepsLocks(q)
  <2>1. /\ accountLock \in [Account -> Proc \cup {None}]
        /\ tunnelLock \in [Tunnel -> Proc \cup {None}]
        /\ accountLock' = Freed(accountLock, p) /\ tunnelLock' = Freed(tunnelLock, p)
    BY DEF TypeOK, Release
  <2>2. /\ Freed(accountLock, p) \in [Account -> Proc \cup {None}]
        /\ \A a \in Account, q \in Proc :
              q # p /\ accountLock[a] = q => Freed(accountLock, p)[a] = q
    BY <2>1, FreedLocks
  <2>3. /\ Freed(tunnelLock, p) \in [Tunnel -> Proc \cup {None}]
        /\ \A t \in Tunnel, q \in Proc :
              q # p /\ tunnelLock[t] = q => Freed(tunnelLock, p)[t] = q
    BY <2>1, FreedLocks
  <2>4. QED
    BY <2>1, <2>2, <2>3 DEF KeepsLocks
<1>5. ProcOK(p)'
  BY <1>2, IdleProcNext
<1>6. QED
  BY <1>1, <1>2, <1>3, <1>4, <1>5 DEF Private

\* A transaction that ends without a commit leaves no trace.
LEMMA RollbackStep ==
    ASSUME SettlementInv, NEW p \in Proc, Release(p),
           UNCHANGED <<month, committed>>, failures' \in 0 .. MaxFailures
    PROVE  SettlementInv'
<1>1. TypeOK' /\ left' = [q \in Proc |-> left'[q]]
  BY Released DEF SettlementInv, TypeOK, committed
<1>2. QED
  BY <1>1, Released, OwnStep DEF SettlementInv, committed

-----------------------------------------------------------------------------
(* The statements.                                                         *)

\* Each statement keeps the invariant: a transaction begins with nothing.
LEMMA BeginStep ==
    ASSUME SettlementInv, NEW p \in Proc, NEW r \in Work[p], Begin(p, r)
    PROVE  SettlementInv'
<1>1. r \in Request /\ r.op \in {"settle", "token", "limits"} /\ month \in Month
  BY SettlementAssumption, RequestFields DEF SettlementInv, TypeOK
<1>2. TypeOK /\ ProcOK(p) /\ BatchOK(p) /\ pc[p] = "idle" /\ batch[p] = {} /\ left[p] = {}
  <2>1. ProcOK(p) /\ BatchOK(p) /\ pc[p] = "idle" /\ batch[p] = {}
    BY DEF SettlementInv, ProcOK, BatchOK, Settling, Begin
  <2>2. QED
    BY <2>1, BatchKeys DEF SettlementInv, BatchOK
<1>3. /\ req'[p] = r /\ at'[p] = (IF r.op = "limits" THEN month ELSE 0)
      /\ pc'[p] = (IF r.op = "settle" THEN "lock" ELSE "account")
      /\ \A q \in Proc : q # p => pc'[q] = pc[q] /\ req'[q] = req[q] /\ at'[q] = at[q]
      /\ pc' \in [Proc -> PC] /\ req' \in [Proc -> Request \cup {None}]
      /\ at' \in [Proc -> Month \cup {0}]
  BY <1>1, <1>2 DEF TypeOK, Begin, Goto, PC
<1>4. UNCHANGED <<month, committed, batch, left, view, draft, accountLock, tunnelLock,
                  failures>>
  BY DEF Begin
<1>5. TypeOK'
  <2>1. \A q \in Proc : left'[q] \subseteq IF pc'[q] = "tunnels" THEN Tunnel
                                          ELSE Account \X Month
    BY <1>2, <1>3, <1>4 DEF TypeOK
  <2>2. QED
    BY <1>2, <1>3, <1>4, <2>1 DEF TypeOK, committed
<1>6. ProcOK(p)'
  <2>1. TunnelIDs(batch'[p]) = {} /\ PeriodKeys(batch'[p]) = {}
    BY <1>2, <1>4, BatchKeys
  <2>2. Position(p)' /\ SettledOK(p)' /\ LockOK(p)' /\ TokenOK(p)' /\ BatchOK(p)'
    BY <1>1, <1>2, <1>3, <1>4, <2>1 DEF ProcOK, Position, BatchOK, SettledOK, LockOK,
       TokenOK, Settling, Reading
  <2>3. TunnelsDone(p)' = {} /\ KeysDone(p)' = {}
    BY <2>1 DEF TunnelsDone, KeysDone
  <2>4. \A t \in Tunnel : UsedOK(p, t)'
    BY <1>2, <1>4, <2>3, BatchKeys DEF ProcOK, UsedOK, TunnelsDone
  <2>5. \A a \in Account, m \in Month : draft'[p].period[a][m] = None
    BY <1>2, <1>4 DEF ProcOK, PeriodOK
  <2>6. \A a \in Account : BlockedOK(p, a)' /\ \A m \in Month : PeriodOK(p, a, m)'
    BY <1>2, <1>3, <1>4, <2>3, <2>5 DEF ProcOK, PeriodOK, BlockedOK, Reading
  <2>7. QED
    BY <2>2, <2>4, <2>6 DEF ProcOK
<1>7. left' = [q \in Proc |-> left'[q]]
  BY <1>4 DEF SettlementInv
<1>8. \A q \in Proc : q # p => /\ Private(q)' = Private(q) /\ KeepsLocks(q)
                               /\ batch'[p] \cap batch[q] = {}
  BY <1>2, <1>3, <1>4 DEF Private, KeepsLocks
<1>9. QED
  BY <1>4, <1>5, <1>6, <1>7, <1>8, OwnStep DEF committed

\* The batch is taken from rows that are neither settled nor in a batch.
LEMMA LockUnsettledMeteringStep ==
    ASSUME SettlementInv, NEW p \in Proc, LockUnsettledMetering(p)
    PROVE  SettlementInv'
<1> DEFINE S == FirstRows(Unlocked(req[p].region))
<1>1. TypeOK /\ ProcOK(p) /\ BatchOK(p) /\ pc[p] = "lock" /\ Settling(p) /\ batch[p] = {}
  BY DEF SettlementInv, ProcOK, BatchOK, Position, Settling, LockUnsettledMetering
<1>2. /\ S \subseteq appended \ settled /\ \A q \in Proc : S \cap batch[q] = {}
      /\ \A i \in S : RowOf[i].region = req[p].region
  BY DEF FirstRows, Unlocked
<1> HIDE DEF S
<1>3. CASE Rollback(p)
  BY <1>3, RollbackStep DEF Rollback, SettlementInv, TypeOK
<1>4. CASE ~Rollback(p)
  <2>1. /\ S # {} /\ batch' = [batch EXCEPT ![p] = S]
        /\ left' = [left EXCEPT ![p] = TunnelIDs(S)]
        /\ Goto(p, IF TunnelIDs(S) = {} THEN "block" ELSE "tunnels")
        /\ UNCHANGED <<month, committed, req, at, view, draft, accountLock, tunnelLock,
                       failures>>
    BY <1>4 DEF LockUnsettledMetering, S
  <2>2. S \in SUBSET Row /\ left' = [q \in Proc |-> left'[q]]
    BY <1>1, <1>2, <2>1 DEF TypeOK, SettlementInv
  <2>3. /\ batch'[p] = S /\ left'[p] = TunnelIDs(S)
        /\ pc'[p] = (IF TunnelIDs(S) = {} THEN "block" ELSE "tunnels")
        /\ \A q \in Proc : q # p => /\ pc'[q] = pc[q] /\ batch'[q] = batch[q]
                                    /\ left'[q] = left[q]
        /\ pc' \in [Proc -> PC] /\ batch' \in [Proc -> SUBSET Row]
    BY <1>1, <2>1, <2>2 DEF SettlementInv, TypeOK, Goto, PC
  <2>4. TypeOK'
    <3>1. \A q \in Proc : left'[q] \subseteq IF pc'[q] = "tunnels" THEN Tunnel
                                            ELSE Account \X Month
      BY <1>1, <2>2, <2>3, BatchKeys DEF TypeOK
    <3>2. QED
      BY <1>1, <2>1, <2>3, <3>1 DEF TypeOK, committed
  <2>5. ProcOK(p)'
    <3>1. /\ TunnelIDs(S) = {} => PeriodKeys(S) = {}
          /\ TunnelIDs(batch'[p]) = TunnelIDs(S) /\ PeriodKeys(batch'[p]) = PeriodKeys(S)
      BY <2>2, <2>3, BatchKeys
    <3>2. Settling(p)' /\ req' = req /\ at' = at /\ draft' = draft
      BY <1>1, <2>1, <2>3 DEF Settling
    <3>3. Position(p)' /\ SettledOK(p)' /\ LockOK(p)' /\ TokenOK(p)'
      BY <1>1, <2>1, <2>3, <3>2 DEF ProcOK, Position, SettledOK, LockOK, TokenOK, Settling,
         Reading
    <3>4. BatchOK(p)'
      BY <1>2, <2>1, <2>3, <3>1, <3>2 DEF BatchOK, committed
    <3>5. TunnelsDone(p)' = {} /\ KeysDone(p)' = {}
      BY <2>3, <3>1 DEF TunnelsDone, KeysDone
    <3>6. \A t \in Tunnel : UsedOK(p, t)'
      BY <1>1, <3>2, <3>5, BatchKeys DEF ProcOK, UsedOK, TunnelsDone
    <3>7. \A a \in Account, m \in Month : draft'[p].period[a][m] = None
      BY <1>1, <3>2 DEF ProcOK, PeriodOK
    <3>8. \A a \in Account : BlockedOK(p, a)' /\ \A m \in Month : PeriodOK(p, a, m)'
      BY <1>1, <2>3, <3>2, <3>5, <3>7 DEF ProcOK, PeriodOK, BlockedOK
    <3>9. QED
      BY <3>3, <3>4, <3>6, <3>8 DEF ProcOK
  <2>6. \A q \in Proc : q # p => /\ Private(q)' = Private(q) /\ KeepsLocks(q)
                                 /\ batch'[p] \cap batch[q] = {}
    BY <1>2, <2>1, <2>3 DEF Private, KeepsLocks
  <2>7. QED
    BY <2>1, <2>2, <2>4, <2>5, <2>6, OwnStep DEF committed
<1>5. QED
  BY <1>3, <1>4

\* A tunnel's row, once locked, gets what the batch adds to it, or nothing if
\* it is gone or in another region.
LEMMA IncreaseTunnelUsageStep ==
    ASSUME SettlementInv, NEW p \in Proc, IncreaseTunnelUsage(p)
    PROVE  SettlementInv'
<1>1. TypeOK /\ ProcOK(p) /\ BatchOK(p) /\ Position(p) /\ pc[p] = "tunnels" /\ Settling(p)
  BY DEF SettlementInv, ProcOK, Position, Settling, IncreaseTunnelUsage
<1>2. CASE Rollback(p)
  BY <1>2, RollbackStep DEF Rollback, SettlementInv, TypeOK
<1>3. CASE ~Rollback(p)
  <2>1. PICK t \in NextTunnel(p) :
          LET matches == tunnel[t] # None /\ tunnel[t].region = req[p].region
              n == tunnel[t].used + TunnelUsage(batch[p], t)
          IN  /\ tunnelLock[t] = None
              /\ matches => n <= MaxBytes
              /\ tunnelLock' = [tunnelLock EXCEPT ![t] = p]
              /\ draft' = IF matches THEN [draft EXCEPT ![p].used[t] = n] ELSE draft
              /\ IF left[p] = {t}
                 THEN /\ left' = [left EXCEPT ![p] = PeriodKeys(batch[p])]
                      /\ Goto(p, "account")
                 ELSE /\ left' = [left EXCEPT ![p] = @ \ {t}]
                      /\ UNCHANGED pc
    BY <1>3 DEF IncreaseTunnelUsage
  <2>2. UNCHANGED <<month, committed, req, at, batch, view, accountLock, failures>>
    BY <1>3 DEF IncreaseTunnelUsage
  <2> DEFINE n == tunnel[t].used + TunnelUsage(batch[p], t)
             keys == PeriodKeys(batch[p])
  <2>3. /\ batch[p] \in SUBSET Row /\ t \in left[p] /\ t \in TunnelIDs(batch[p])
        /\ t \in Tunnel /\ left[p] \subseteq Tunnel /\ keys \subseteq Account \X Month
    <3>1. batch[p] \in SUBSET Row /\ t \in left[p] /\ left[p] \subseteq TunnelIDs(batch[p])
      BY <1>1 DEF TypeOK, NextTunnel, BatchOK
    <3>2. QED
      BY <3>1, BatchKeys
  <2>4. OwnTunnel(p, t) => n \in Bytes
    <3>1. OwnTunnel(p, t) => tunnel[t].used \in Bytes /\ n <= MaxBytes
      BY <1>1, <2>1, <2>3 DEF OwnTunnel, TypeOK, L!TunnelRow, Bytes
    <3>2. TunnelUsage(batch[p], t) \in Nat /\ MaxBytes \in Nat
      BY <2>3, TunnelUsageIs, QuotaAssumption
    <3> HIDE DEF n
    <3>3. QED
      BY <3>1, <3>2 DEF Bytes, n
  <2>5. /\ draft' \in [Proc -> Draft]
        /\ \A q \in Proc : q # p => draft'[q] = draft[q]
        /\ draft'[p].period = draft[p].period
        /\ draft'[p].blocked = draft[p].blocked
        /\ draft'[p].settled = draft[p].settled
        /\ \A u \in Tunnel : draft'[p].used[u] =
              IF u = t /\ OwnTunnel(p, t) THEN n ELSE draft[p].used[u]
    <3>1. CASE OwnTunnel(p, t)
      <4>1. n \in Bytes /\ draft' = [draft EXCEPT ![p].used[t] = n]
        BY <2>1, <2>4, <3>1 DEF OwnTunnel
      <4> HIDE DEF n
      <4>2. /\ draft' \in [Proc -> Draft]
            /\ \A q \in Proc : q # p => draft'[q] = draft[q]
            /\ draft'[p].period = draft[p].period
            /\ draft'[p].blocked = draft[p].blocked
            /\ draft'[p].settled = draft[p].settled
            /\ \A u \in Tunnel :
                  draft'[p].used[u] = IF u = t THEN n ELSE draft[p].used[u]
        <5>1. TypeOK /\ t \in Tunnel
          BY <1>1, <2>3
        <5>2. QED
          BY <4>1, <5>1, WriteUsed
      <4>3. QED
        BY <3>1, <4>2
    <3>2. CASE ~OwnTunnel(p, t)
      BY <1>1, <2>1, <3>2 DEF OwnTunnel, TypeOK
    <3>3. QED
      BY <3>1, <3>2
  <2> HIDE DEF n
  <2>6. /\ left'[p] = (IF left[p] = {t} THEN keys ELSE left[p] \ {t})
        /\ pc'[p] = (IF left[p] = {t} THEN "account" ELSE "tunnels")
        /\ \A q \in Proc : q # p => pc'[q] = pc[q] /\ left'[q] = left[q]
        /\ pc' \in [Proc -> PC] /\ left' = [q \in Proc |-> left'[q]]
    BY <1>1, <2>1 DEF SettlementInv, TypeOK, Goto, PC
  <2>7. /\ tunnelLock'[t] = p /\ tunnelLock' \in [Tunnel -> Proc \cup {None}]
        /\ \A u \in Tunnel, q \in Proc : tunnelLock[u] = q => tunnelLock'[u] = q
    BY <1>1, <2>1, <2>3, NoneApart DEF TypeOK
  <2>8. TypeOK'
    <3>1. \A q \in Proc : left'[q] \subseteq IF pc'[q] = "tunnels" THEN Tunnel
                                            ELSE Account \X Month
      BY <1>1, <2>3, <2>6 DEF TypeOK
    <3>2. QED
      BY <1>1, <2>2, <2>5, <2>6, <2>7, <3>1 DEF TypeOK, committed
  <2>9. ProcOK(p)'
    <3>1. /\ batch' = batch /\ req' = req /\ at' = at /\ accountLock' = accountLock
          /\ UNCHANGED committed /\ Settling(p)'
      BY <1>1, <2>2, <2>6 DEF Settling
    <3>2. TunnelIDs(batch[p])' = TunnelIDs(batch[p]) /\ PeriodKeys(batch[p])' = keys
      BY <3>1
    <3>3. Position(p)' /\ SettledOK(p)' /\ LockOK(p)' /\ TokenOK(p)'
      BY <1>1, <2>5, <2>6, <3>1 DEF ProcOK, Position, SettledOK, LockOK, TokenOK, Settling,
         Reading
    <3>4. BatchOK(p)'
      BY <1>1, <2>3, <2>6, <3>1, <3>2 DEF BatchOK, committed
    <3>5. TunnelsDone(p)' = TunnelsDone(p) \cup {t} /\ t \notin TunnelsDone(p)
      BY <1>1, <2>3, <2>6, <3>2 DEF TunnelsDone, BatchOK
    <3>6. ASSUME NEW u \in Tunnel  PROVE UsedOK(p, u)'
      <4>1. UsedOK(p, u) /\ OwnTunnel(p, u)' = OwnTunnel(p, u)
        BY <1>1, <3>1 DEF ProcOK, OwnTunnel, committed
      <4>2. TunnelUsage(batch[p], u)' = TunnelUsage(batch[p], u)
        BY <3>1
      <4>3. CASE u = t
        BY <2>5, <2>7, <3>1, <3>5, <4>1, <4>2, <4>3 DEF UsedOK, n, committed
      <4>4. CASE u # t
        BY <2>5, <2>7, <3>1, <3>5, <4>1, <4>2, <4>4 DEF UsedOK, committed
      <4>5. QED
        BY <4>3, <4>4
    <3>7. KeysDone(p)' = {} /\ KeysDone(p) = {}
      BY <1>1, <2>6, <3>2 DEF KeysDone
    <3>8. ASSUME NEW a \in Account
          PROVE  BlockedOK(p, a)' /\ \A m \in Month : PeriodOK(p, a, m)'
      <4>1. BlockedOK(p, a) /\ \A m \in Month : PeriodOK(p, a, m)
        BY <1>1 DEF ProcOK
      <4>2. BlockedOK(p, a)'
        BY <1>1, <2>5, <2>6, <4>1 DEF BlockedOK
      <4>3. ASSUME NEW m \in Month  PROVE PeriodOK(p, a, m)'
        <5>1. /\ PeriodUsage(batch[p], <<a, m>>)' = PeriodUsage(batch[p], <<a, m>>)
              /\ Billed(<<a, m>>)' = Billed(<<a, m>>)
          BY <3>1 DEF Billed, committed
        <5>2. QED
          BY <1>1, <2>5, <2>6, <3>1, <3>7, <4>1, <5>1 DEF PeriodOK, Reading, Settling
      <4>4. QED
        BY <4>2, <4>3
    <3>9. QED
      BY <3>3, <3>4, <3>6, <3>8 DEF ProcOK
  <2>10. \A q \in Proc : q # p => /\ Private(q)' = Private(q) /\ KeepsLocks(q)
                                  /\ batch'[p] \cap batch[q] = {}
    BY <2>2, <2>5, <2>6, <2>7 DEF SettlementInv, BatchesApart, Private, KeepsLocks
  <2>11. QED
    BY <2>2, <2>6, <2>8, <2>9, <2>10, OwnStep DEF committed
<1>4. QED
  BY <1>2, <1>3

\* A statement after those for the tunnels leaves what they wrote alone.
LEMMA UsedStays ==
    ASSUME NEW p \in Proc, NEW t \in Tunnel, UsedOK(p, t),
           pc[p] # "tunnels", pc'[p] # "tunnels", batch'[p] = batch[p],
           UNCHANGED <<req, tunnel, tunnelLock>>, draft'[p].used = draft[p].used
    PROVE  UsedOK(p, t)'
<1>1. TunnelsDone(p)' = TunnelsDone(p) /\ OwnTunnel(p, t)' = OwnTunnel(p, t)
  BY DEF TunnelsDone, TunnelIDs, OwnTunnel, L!Billable
<1>2. TunnelUsage(batch[p], t)' = TunnelUsage(batch[p], t)
  OBVIOUS
<1>3. QED
  BY <1>1, <1>2 DEF UsedOK

\* Accounts and months are visited in order, so one of them is next.
LEMMA NextKeyUnique ==
    ASSUME NEW p \in Proc, left[p] \subseteq Account \X Month,
           NEW j \in NextKey(p), NEW k \in NextKey(p)
    PROVE  j = k
<1>1. /\ j \in Account \X Month /\ k \in Account \X Month
      /\ j[1] < k[1] \/ (j[1] = k[1] /\ j[2] <= k[2])
      /\ k[1] < j[1] \/ (k[1] = j[1] /\ k[2] <= j[2])
  BY DEF NextKey
<1>2. j[1] \in Nat /\ j[2] \in Nat /\ k[1] \in Nat /\ k[2] \in Nat
  BY <1>1, KeyAssumption
<1>3. j[1] = k[1] /\ j[2] = k[2]
  BY <1>1, <1>2
<1>4. QED
  BY <1>1, <1>3

\* A statement that only reads and locks.
LEMMA LookStep ==
    ASSUME SettlementInv, NEW p \in Proc, pc[p] \in {"account", "plan"},
           NEW label \in {"plan", "period"}, Goto(p, label),
           UNCHANGED <<month, committed, req, at, batch, left, draft, tunnelLock, failures>>,
           view' \in [Proc -> PeriodRows \cup {None}],
           accountLock' \in [Account -> Proc \cup {None}],
           \A a \in Account, q \in Proc : accountLock[a] = q => accountLock'[a] = q,
           LockOK(p)'
    PROVE  SettlementInv'
<1>1. TypeOK /\ ProcOK(p) /\ left' = [q \in Proc |-> left'[q]]
  BY DEF SettlementInv
<1>2. /\ pc'[p] = label /\ pc' \in [Proc -> PC]
      /\ \A q \in Proc : q # p => pc'[q] = pc[q]
  BY <1>1 DEF TypeOK, Goto, PC
<1>3. TypeOK'
  <2>1. \A q \in Proc : left'[q] \subseteq IF pc'[q] = "tunnels" THEN Tunnel
                                          ELSE Account \X Month
    BY <1>1, <1>2 DEF TypeOK
  <2>2. QED
    BY <1>1, <1>2, <2>1 DEF TypeOK, committed
<1>4. ProcOK(p)'
  <2>1. Position(p)' /\ SettledOK(p)' /\ LockOK(p)' /\ TokenOK(p)'
    BY <1>1, <1>2 DEF ProcOK, Position, SettledOK, TokenOK, Reading
  <2>2. /\ TunnelIDs(batch[p])' = TunnelIDs(batch[p])
        /\ PeriodKeys(batch[p])' = PeriodKeys(batch[p])
    OBVIOUS
  <2>3. BatchOK(p)'
    BY <1>1, <1>2, <2>2 DEF ProcOK, BatchOK, Settling, committed
  <2>4. \A t \in Tunnel : UsedOK(p, t)'
    BY <1>1, <1>2, UsedStays DEF ProcOK, committed
  <2>5. ASSUME NEW a \in Account, NEW m \in Month  PROVE PeriodOK(p, a, m)'
    <3>1. KeysDone(p)' = KeysDone(p)
      BY <1>2, <2>2 DEF KeysDone
    <3>2. /\ PeriodUsage(batch[p], <<a, m>>)' = PeriodUsage(batch[p], <<a, m>>)
          /\ Billed(<<a, m>>)' = Billed(<<a, m>>)
      BY DEF Billed, committed
    <3>3. QED
      BY <1>1, <1>2, <3>1, <3>2 DEF ProcOK, PeriodOK, Reading
  <2>6. \A a \in Account : BlockedOK(p, a)'
    BY <1>1, <1>2 DEF ProcOK, BlockedOK
  <2>7. QED
    BY <2>1, <2>3, <2>4, <2>5, <2>6 DEF ProcOK
<1>5. \A q \in Proc : q # p => /\ Private(q)' = Private(q) /\ KeepsLocks(q)
                               /\ batch'[p] \cap batch[q] = {}
  BY <1>2 DEF SettlementInv, BatchesApart, Private, KeepsLocks
<1>6. QED
  BY <1>1, <1>3, <1>4, <1>5, OwnStep DEF committed

\* The account is locked for the period that comes next.
LEMMA LockAccountStep ==
    ASSUME SettlementInv, NEW p \in Proc, LockAccount(p)
    PROVE  SettlementInv'
<1>1. TypeOK /\ ProcOK(p) /\ BatchOK(p) /\ Position(p) /\ pc[p] = "account"
  BY DEF SettlementInv, ProcOK, LockAccount
<1>2. CASE Rollback(p)
  BY <1>2, RollbackStep DEF Rollback, SettlementInv, TypeOK
<1>3. CASE ~Rollback(p)
  <2>1. PICK k \in Keys(p) : /\ accountLock[k[1]] \in {p, None}
                             /\ accountLock' = [accountLock EXCEPT ![k[1]] = p]
    BY <1>3 DEF LockAccount
  <2>2. PICK label \in {"plan", "period"} : Goto(p, label)
    BY <1>3 DEF LockAccount
  <2>3. UNCHANGED <<month, committed, req, at, batch, left, view, draft, tunnelLock,
                    failures>>
    BY <1>3 DEF LockAccount
  <2>4. /\ req[p].op \in {"settle", "token", "limits"}
        /\ req[p].op = "settle" => k \in NextKey(p)
        /\ req[p].op # "settle" => k[1] = req[p].acct /\ k[1] \in Account
    <3>1. req[p] \in Request
      BY <1>1 DEF Position
    <3>2. QED
      BY <2>1, <3>1, RequestFields DEF Keys
  <2>5. k[1] \in Account /\ left[p] \subseteq Account \X Month
    BY <1>1, <2>4 DEF TypeOK, NextKey
  <2>6. /\ accountLock' \in [Account -> Proc \cup {None}] /\ accountLock'[k[1]] = p
        /\ \A a \in Account, q \in Proc : accountLock[a] = q => accountLock'[a] = q
    BY <1>1, <2>1, <2>5, NoneApart DEF TypeOK
  <2>7. LockOK(p)'
    <3>1. NextKey(p)' = NextKey(p)
      BY <2>3 DEF NextKey
    <3>2. \A j \in NextKey(p) : req[p].op = "settle" => j = k
      BY <2>4, <2>5, NextKeyUnique
    <3>3. QED
      BY <2>3, <2>4, <2>6, <3>1, <3>2 DEF LockOK, Settling, Reading
  <2>8. view' \in [Proc -> PeriodRows \cup {None}]
    BY <1>1, <2>3 DEF TypeOK
  <2>9. QED
    BY <1>1, <2>2, <2>3, <2>6, <2>7, <2>8, LookStep
<1>4. QED
  BY <1>2, <1>3

\* Opening the read view changes no table.
LEMMA FindPlanStep ==
    ASSUME SettlementInv, NEW p \in Proc, FindPlan(p)
    PROVE  SettlementInv'
<1>1. TypeOK /\ ProcOK(p) /\ pc[p] = "plan" /\ Goto(p, "period")
  BY DEF SettlementInv, FindPlan
<1>2. UNCHANGED <<month, committed, req, at, batch, left, draft, accountLock, tunnelLock,
                  failures>>
  BY DEF FindPlan
<1>3. view' \in [Proc -> PeriodRows \cup {None}]
  BY DEF SettlementInv, TypeOK, FindPlan
<1>4. LockOK(p)'
  <2>1. NextKey(p)' = NextKey(p)
    BY <1>2 DEF NextKey
  <2>2. pc'[p] = "period"
    BY <1>1 DEF TypeOK, Goto
  <2>3. QED
    BY <1>1, <1>2, <2>1, <2>2 DEF ProcOK, LockOK, Settling, Reading
<1>5. \A a \in Account, q \in Proc : accountLock[a] = q => accountLock'[a] = q
  BY <1>2
<1>6. accountLock' \in [Account -> Proc \cup {None}]
  BY <1>1, <1>2 DEF TypeOK
<1>7. QED
  BY <1>1, <1>2, <1>3, <1>4, <1>5, <1>6, LookStep

\* A period is written once its account is locked: its value then, and more.
LEMMA PeriodWritten ==
    ASSUME TypeOK, NEW p \in Proc, NEW a \in Account, NEW m \in Month, NEW n \in Bytes,
           \A j \in Month : PeriodOK(p, a, j), accountLock[a] = p, Put(p, <<a, m>>, n),
           n = Billed(<<a, m>>) + PeriodUsage(batch[p], <<a, m>>),
           UNCHANGED <<period, batch, req, accountLock>>,
           KeysDone(p)' \subseteq KeysDone(p) \cup {<<a, m>>},
           pc'[p] \in {"account", "block", "commit"}, Settling(p)' \/ pc'[p] = "commit",
           NEW j \in Month
    PROVE  PeriodOK(p, a, j)'
<1>1. draft'[p].period[a][j] = (IF j = m THEN n ELSE draft[p].period[a][j])
  BY WritePeriod
<1>2. /\ PeriodUsage(batch[p], <<a, j>>)' = PeriodUsage(batch[p], <<a, j>>)
      /\ Billed(<<a, j>>)' = Billed(<<a, j>>)
  BY DEF Billed
<1>3. n # None
  BY NoneApart
<1>4. <<a, j>> \in KeysDone(p)' => j = m \/ <<a, j>> \in KeysDone(p)
  OBVIOUS
<1>5. QED
  BY <1>1, <1>2, <1>3, <1>4 DEF PeriodOK, Reading, Settling

\* A period gets its committed value and what the batch adds, although it is
\* read by a view that may be older than the lock.
LEMMA IncreasePeriodUsageStep ==
    ASSUME SettlementInv, NEW p \in Proc, IncreasePeriodUsage(p)
    PROVE  SettlementInv'
<1>1. TypeOK /\ ProcOK(p) /\ BatchOK(p) /\ Position(p) /\ pc[p] = "period" /\ Settling(p)
  BY DEF SettlementInv, ProcOK, IncreasePeriodUsage, Settling
<1>2. CASE Rollback(p)
  BY <1>2, RollbackStep DEF Rollback, SettlementInv, TypeOK
<1>3. CASE ~Rollback(p)
  <2>1. PICK k \in NextKey(p) :
          LET n == Billed(k) + PeriodUsage(batch[p], k) IN
          /\ n <= MaxBytes /\ Put(p, k, n)
          /\ left' = [left EXCEPT ![p] = @ \ {k}]
          /\ Goto(p, IF left[p] = {k} THEN "block" ELSE "account")
    BY <1>3 DEF IncreasePeriodUsage
  <2>2. UNCHANGED <<month, committed, req, at, batch, view, accountLock, tunnelLock,
                    failures>>
    BY <1>3 DEF IncreasePeriodUsage
  <2>3. /\ batch[p] \in SUBSET Row /\ k \in left[p] /\ left[p] \subseteq Account \X Month
        /\ left[p] \subseteq PeriodKeys(batch[p])
    BY <1>1 DEF TypeOK, NextKey, BatchOK
  <2>4. PICK a \in Account, m \in Month : k = <<a, m>>
    BY <2>3
  <2> DEFINE n == Billed(<<a, m>>) + PeriodUsage(batch[p], <<a, m>>)
  <2>5. accountLock[a] = p
    <3>1. accountLock[k[1]] = p
      BY <1>1, <2>1 DEF ProcOK, LockOK
    <3>2. QED
      BY <2>4, <3>1
  <2>6. n \in Bytes /\ Put(p, <<a, m>>, n)
    <3>1. Billed(<<a, m>>) \in Nat
      BY <1>1, QuotaAssumption DEF TypeOK, PeriodRows, Billed, Bytes
    <3>2. PeriodUsage(batch[p], <<a, m>>) \in Nat /\ MaxBytes \in Nat
      BY <2>3, PeriodUsageIs, QuotaAssumption
    <3>3. n <= MaxBytes /\ Put(p, <<a, m>>, n)
      BY <2>1, <2>4
    <3>4. QED
      BY <3>1, <3>2, <3>3 DEF Bytes
  <2> HIDE DEF n
  <2>7. /\ draft' \in [Proc -> Draft]
        /\ \A q \in Proc : q # p => draft'[q] = draft[q]
        /\ draft'[p].used = draft[p].used
        /\ draft'[p].blocked = draft[p].blocked
        /\ draft'[p].settled = draft[p].settled
        /\ \A b \in Account, j \in Month :
              draft'[p].period[b][j] = IF b = a /\ j = m THEN n
                                       ELSE draft[p].period[b][j]
    BY <1>1, <2>6, WritePeriod
  <2>8. /\ left'[p] = left[p] \ {k}
        /\ pc'[p] = (IF left[p] = {k} THEN "block" ELSE "account")
        /\ \A q \in Proc : q # p => pc'[q] = pc[q] /\ left'[q] = left[q]
        /\ pc' \in [Proc -> PC] /\ left' = [q \in Proc |-> left'[q]]
    BY <1>1, <2>1 DEF SettlementInv, TypeOK, Goto, PC
  <2>9. TypeOK'
    <3>1. \A q \in Proc : left'[q] \subseteq IF pc'[q] = "tunnels" THEN Tunnel
                                            ELSE Account \X Month
      BY <1>1, <2>3, <2>8 DEF TypeOK
    <3>2. QED
      BY <1>1, <2>2, <2>7, <2>8, <3>1 DEF TypeOK, committed
  <2>10. ProcOK(p)'
    <3>1. /\ batch' = batch /\ req' = req /\ at' = at /\ accountLock' = accountLock
          /\ UNCHANGED committed /\ Settling(p)' /\ tunnelLock' = tunnelLock
      BY <1>1, <2>2, <2>8 DEF Settling
    <3>2. /\ TunnelIDs(batch[p])' = TunnelIDs(batch[p])
          /\ PeriodKeys(batch[p])' = PeriodKeys(batch[p])
      BY <3>1
    <3>3. Position(p)' /\ SettledOK(p)' /\ LockOK(p)' /\ TokenOK(p)'
      BY <1>1, <2>7, <2>8, <3>1 DEF ProcOK, Position, SettledOK, LockOK, TokenOK, Settling,
         Reading
    <3>4. BatchOK(p)'
      BY <1>1, <2>8, <3>1, <3>2 DEF BatchOK, committed
    <3>5. \A t \in Tunnel : UsedOK(p, t)'
      BY <1>1, <2>7, <2>8, <3>1, UsedStays DEF ProcOK, committed
    <3>6. KeysDone(p)' = KeysDone(p) \cup {k}
      BY <1>1, <2>3, <2>8, <3>2 DEF KeysDone
    <3>7. ASSUME NEW b \in Account, NEW j \in Month  PROVE PeriodOK(p, b, j)'
      <4>1. PeriodOK(p, b, j)
        BY <1>1 DEF ProcOK
      <4>2. CASE b = a
        <5>1. \A i \in Month : PeriodOK(p, a, i)
          BY <1>1 DEF ProcOK
        <5>2. KeysDone(p)' \subseteq KeysDone(p) \cup {<<a, m>>}
          BY <2>4, <3>6
        <5>3. pc'[p] \in {"account", "block", "commit"}
          BY <2>8
        <5>4. n = Billed(<<a, m>>) + PeriodUsage(batch[p], <<a, m>>)
          BY DEF n
        <5>5. QED
          BY <1>1, <2>5, <2>6, <3>1, <4>2, <5>1, <5>2, <5>3, <5>4, PeriodWritten
             DEF committed
      <4>3. CASE b # a
        <5>1. /\ PeriodUsage(batch[p], <<b, j>>)' = PeriodUsage(batch[p], <<b, j>>)
              /\ Billed(<<b, j>>)' = Billed(<<b, j>>)
          BY <3>1 DEF Billed, committed
        <5>2. draft'[p].period[b][j] = draft[p].period[b][j]
          BY <2>7, <4>3
        <5>3. <<b, j>> \in KeysDone(p)' => <<b, j>> \in KeysDone(p)
          BY <2>4, <3>6, <4>3
        <5>4. QED
          BY <2>8, <3>1, <4>1, <5>1, <5>2, <5>3 DEF PeriodOK, Reading, Settling
      <4>4. QED
        BY <4>2, <4>3
    <3>8. \A b \in Account : BlockedOK(p, b)'
      BY <1>1, <2>7, <2>8 DEF ProcOK, BlockedOK
    <3>9. QED
      BY <3>3, <3>4, <3>5, <3>7, <3>8 DEF ProcOK
  <2>11. \A q \in Proc : q # p => /\ Private(q)' = Private(q) /\ KeepsLocks(q)
                                  /\ batch'[p] \cap batch[q] = {}
    BY <2>2, <2>7, <2>8 DEF SettlementInv, BatchesApart, Private, KeepsLocks
  <2>12. QED
    BY <2>2, <2>8, <2>9, <2>10, <2>11, OwnStep DEF committed
<1>4. QED
  BY <1>2, <1>3

\* A token is granted by a period that its account's lock keeps as it is.
LEMMA ReadPeriodStep ==
    ASSUME SettlementInv, NEW p \in Proc, ReadPeriod(p)
    PROVE  SettlementInv'
<1>1. /\ TypeOK /\ ProcOK(p) /\ BatchOK(p) /\ Position(p) /\ pc[p] = "period"
      /\ req[p].op # "settle" /\ Reading(p) /\ ~Settling(p)
  BY DEF SettlementInv, ProcOK, ReadPeriod, Reading, Settling
<1>2. CASE Rollback(p)
  BY <1>2, RollbackStep DEF Rollback, SettlementInv, TypeOK
<1>3. CASE ~Rollback(p)
  <2>1. PICK k \in Keys(p) :
          /\ req[p].op = "token" => Billed(k) < Quota
          /\ at' = [at EXCEPT ![p] = k[2]]
          /\ IF period[k[1]][k[2]] = None THEN Put(p, k, 0) ELSE UNCHANGED draft
          /\ Goto(p, "commit")
    BY <1>3 DEF ReadPeriod
  <2>2. UNCHANGED <<month, committed, req, batch, left, view, accountLock, tunnelLock,
                    failures>>
    BY <1>3 DEF ReadPeriod
  <2>3. PICK a \in Account, m \in Month : k = <<a, m>> /\ a = req[p].acct
    <3>1. req[p] \in Request /\ month \in Month /\ req[p].acct \in Account
      BY <1>1, RequestFields DEF Position, TypeOK
    <3>2. /\ req[p].op = "token" => k = <<req[p].acct, month>>
          /\ req[p].op = "limits" => k = <<req[p].acct, at[p]>>
      BY <2>1 DEF Keys
    <3>3. req[p].op = "limits" => at[p] \in Month
      BY <1>1 DEF Position
    <3>4. QED
      BY <1>1, <3>1, <3>2, <3>3, RequestFields
  <2>4. accountLock[a] = p /\ batch[p] = {} /\ left[p] = {}
    <3>1. accountLock[a] = p /\ batch[p] = {}
      BY <1>1, <2>3 DEF ProcOK, LockOK, BatchOK
    <3>2. QED
      BY <1>1, <3>1, BatchKeys DEF BatchOK
  <2>5. PeriodKeys(batch[p]) = {} /\ TunnelIDs(batch[p]) = {}
    BY <2>4, BatchKeys
  <2>6. \A b \in Account, j \in Month :
           draft[p].period[b][j] = None /\ PeriodUsage(batch[p], <<b, j>>) = 0
    <3>1. ASSUME NEW b \in Account, NEW j \in Month
          PROVE  draft[p].period[b][j] = None /\ PeriodUsage(batch[p], <<b, j>>) = 0
      <4>1. PeriodOK(p, b, j) /\ batch[p] \in SUBSET Row
        BY <1>1 DEF ProcOK, TypeOK
      <4>2. QED
        BY <1>1, <2>5, <4>1, PeriodUsageIs DEF PeriodOK
    <3>2. QED
      BY <3>1
  <2>7. /\ draft' \in [Proc -> Draft]
        /\ \A q \in Proc : q # p => draft'[q] = draft[q]
        /\ draft'[p].used = draft[p].used
        /\ draft'[p].blocked = draft[p].blocked
        /\ draft'[p].settled = draft[p].settled
        /\ \A b \in Account, j \in Month :
              draft'[p].period[b][j] = IF b = a /\ j = m /\ period[a][m] = None THEN 0
                                       ELSE None
    <3>1. CASE period[a][m] = None
      <4>1. Put(p, <<a, m>>, 0) /\ 0 \in Bytes
        BY <2>1, <2>3, <3>1, NoneApart
      <4>2. /\ draft' \in [Proc -> Draft]
            /\ \A q \in Proc : q # p => draft'[q] = draft[q]
            /\ draft'[p].used = draft[p].used
            /\ draft'[p].blocked = draft[p].blocked
            /\ draft'[p].settled = draft[p].settled
            /\ \A b \in Account, j \in Month :
                  draft'[p].period[b][j] = IF b = a /\ j = m THEN 0
                                           ELSE draft[p].period[b][j]
        BY <1>1, <4>1, WritePeriod
      <4>3. ASSUME NEW b \in Account, NEW j \in Month
            PROVE  draft'[p].period[b][j] =
                      IF b = a /\ j = m /\ period[a][m] = None THEN 0 ELSE None
        <5>1. draft[p].period[b][j] = None
          BY <2>6
        <5>2. draft'[p].period[b][j] = IF b = a /\ j = m THEN 0
                                       ELSE draft[p].period[b][j]
          BY <4>2
        <5>3. QED
          BY <3>1, <5>1, <5>2, Zenon
      <4>4. QED
        BY <4>2, <4>3
    <3>2. CASE period[a][m] # None
      <4>1. draft' = draft
        BY <2>1, <2>3, <3>2
      <4>2. QED
        BY <1>1, <2>6, <3>2, <4>1 DEF TypeOK
    <3>3. QED
      BY <3>1, <3>2
  <2>8. /\ at'[p] = m /\ pc'[p] = "commit" /\ left' = [q \in Proc |-> left'[q]]
        /\ pc' \in [Proc -> PC] /\ at' \in [Proc -> Month \cup {0}]
        /\ \A q \in Proc : q # p => pc'[q] = pc[q] /\ at'[q] = at[q]
    BY <1>1, <2>1, <2>2, <2>3 DEF SettlementInv, TypeOK, Goto, PC
  <2>9. TypeOK'
    <3>1. \A q \in Proc : left'[q] \subseteq IF pc'[q] = "tunnels" THEN Tunnel
                                            ELSE Account \X Month
      BY <1>1, <2>2, <2>4, <2>8 DEF TypeOK
    <3>2. QED
      BY <1>1, <2>2, <2>7, <2>8, <3>1 DEF TypeOK, committed
  <2>10. ProcOK(p)'
    <3>1. /\ batch' = batch /\ req' = req /\ accountLock' = accountLock /\ left' = left
          /\ UNCHANGED committed /\ Reading(p)' /\ ~Settling(p)' /\ tunnelLock' = tunnelLock
      BY <1>1, <2>2, <2>8 DEF Reading, Settling
    <3>2. TunnelIDs(batch[p])' = {} /\ PeriodKeys(batch[p])' = {} /\ KeysDone(p)' = {}
      BY <2>5, <3>1 DEF KeysDone
    <3>3. SettledOK(p)' /\ Position(p)' /\ LockOK(p)'
      BY <1>1, <2>4, <2>7, <2>8, <3>1 DEF ProcOK, Position, SettledOK, LockOK
    <3>4. TokenOK(p)'
      <4>1. req[p].op = "token" => Billed(<<a, m>>) < Quota
        BY <2>1, <2>3
      <4>2. Billed(<<req[p].acct, at[p]>>)' = Billed(<<a, m>>)
        BY <2>3, <2>8, <3>1 DEF Billed, committed
      <4>3. QED
        BY <2>8, <3>1, <4>1, <4>2 DEF TokenOK
    <3>5. BatchOK(p)'
      BY <1>1, <2>4, <2>8, <3>1, <3>2 DEF BatchOK, committed
    <3>6. \A t \in Tunnel : UsedOK(p, t)'
      BY <1>1, <2>7, <2>8, <3>1, UsedStays DEF ProcOK, committed
    <3>7. ASSUME NEW b \in Account, NEW j \in Month  PROVE PeriodOK(p, b, j)'
      <4>1. /\ PeriodUsage(batch[p], <<b, j>>)' = 0
            /\ Billed(<<b, j>>)' = Billed(<<b, j>>)
        BY <2>6, <3>1 DEF Billed, committed
      <4>2. QED
        BY <2>4, <2>7, <2>8, <3>1, <3>2, <4>1 DEF PeriodOK, Billed
    <3>8. ASSUME NEW b \in Account  PROVE BlockedOK(p, b)'
      <4>1. \A j \in Month : draft'[p].period[b][j] \in {0, None}
        BY <2>7
      <4>2. Later(p, b)' = {}
        BY <4>1, QuotaAssumption DEF Later, ExhaustedMonths
      <4>3. QED
        BY <1>1, <2>7, <4>2 DEF ProcOK, BlockedOK
    <3>9. QED
      BY <3>3, <3>4, <3>5, <3>6, <3>7, <3>8 DEF ProcOK
  <2>11. \A q \in Proc : q # p => /\ Private(q)' = Private(q) /\ KeepsLocks(q)
                                  /\ batch'[p] \cap batch[q] = {}
    BY <2>2, <2>4, <2>7, <2>8 DEF Private, KeepsLocks
  <2>12. QED
    BY <2>2, <2>8, <2>9, <2>10, <2>11, OwnStep DEF committed
<1>4. QED
  BY <1>2, <1>3

\* The last of the months for which an account is to be blocked.
LEMMA LaterMonths ==
    ASSUME NEW p \in Proc, NEW a \in Account, Later(p, a) # {}
    PROVE  /\ Max(Later(p, a)) \in Later(p, a) /\ Later(p, a) \subseteq Month
           /\ \A m \in Later(p, a) : m <= Max(Later(p, a))
<1> DEFINE M == Later(p, a)
<1>1. M \subseteq Month
  BY DEF Later, ExhaustedMonths
<1> HIDE DEF M
<1>2. IsFiniteSet(M) /\ \A m \in M : m \in Int
  <2>1. IsFiniteSet(Month) /\ Month \subseteq Nat
    BY KeyAssumption
  <2>2. IsFiniteSet(M)
    BY <1>1, <2>1, FS_Subset, Zenon
  <2>3. QED
    BY <1>1, <2>1, <2>2
<1>3. M # {} => Max(M) \in M /\ \A m \in M : m <= Max(M)
  BY <1>2, MaxExists
<1>4. QED
  BY <1>1, <1>3 DEF M

\* Blocks are computed from periods that are all written by then.
LEMMA BlockQuotaIfExhaustedStep ==
    ASSUME SettlementInv, NEW p \in Proc, BlockQuotaIfExhausted(p)
    PROVE  SettlementInv'
<1>1. TypeOK /\ ProcOK(p) /\ BatchOK(p) /\ Position(p) /\ pc[p] = "block" /\ Settling(p)
  BY DEF SettlementInv, ProcOK, Position, BlockQuotaIfExhausted, Settling
<1>2. UNCHANGED <<month, committed, req, at, batch, left, view, accountLock, tunnelLock,
                  failures>>
  BY DEF BlockQuotaIfExhausted
<1> DEFINE f == [a \in Account |-> IF Later(p, a) = {} THEN None ELSE Max(Later(p, a))]
<1>3. f \in [Account -> Month \cup {None}]
  BY LaterMonths
<1>4. draft' = [draft EXCEPT ![p].blocked = f]
  BY DEF BlockQuotaIfExhausted, Later
<1> HIDE DEF f
<1>5. /\ draft' \in [Proc -> Draft]
      /\ \A q \in Proc : q # p => draft'[q] = draft[q]
      /\ draft'[p].used = draft[p].used
      /\ draft'[p].period = draft[p].period
      /\ draft'[p].settled = draft[p].settled
      /\ draft'[p].blocked = f
  BY <1>1, <1>3, <1>4, WriteBlocked, Zenon
<1>6. /\ pc'[p] = "mark" /\ pc' \in [Proc -> PC] /\ left' = [q \in Proc |-> left'[q]]
      /\ \A q \in Proc : q # p => pc'[q] = pc[q]
  BY <1>1 DEF SettlementInv, TypeOK, BlockQuotaIfExhausted, Goto, PC
<1>7. TypeOK'
  <2>1. \A q \in Proc : left'[q] \subseteq IF pc'[q] = "tunnels" THEN Tunnel
                                          ELSE Account \X Month
    BY <1>1, <1>2, <1>6 DEF TypeOK
  <2>2. QED
    BY <1>1, <1>2, <1>5, <1>6, <2>1 DEF TypeOK, committed
<1>8. ProcOK(p)'
  <2>1. Position(p)' /\ SettledOK(p)' /\ LockOK(p)' /\ TokenOK(p)'
    BY <1>1, <1>2, <1>5, <1>6 DEF ProcOK, Position, SettledOK, LockOK, TokenOK, Settling,
       Reading
  <2>2. /\ TunnelIDs(batch[p])' = TunnelIDs(batch[p])
        /\ PeriodKeys(batch[p])' = PeriodKeys(batch[p])
    BY <1>2
  <2>3. BatchOK(p)'
    BY <1>1, <1>2, <1>6, <2>2 DEF BatchOK, Settling, committed
  <2>4. \A t \in Tunnel : UsedOK(p, t)'
    BY <1>1, <1>2, <1>5, <1>6, UsedStays DEF ProcOK, committed
  <2>5. ASSUME NEW a \in Account, NEW m \in Month  PROVE PeriodOK(p, a, m)'
    <3>1. KeysDone(p)' = KeysDone(p)
      BY <1>1, <1>2, <1>6, <2>2 DEF KeysDone
    <3>2. /\ PeriodUsage(batch[p], <<a, m>>)' = PeriodUsage(batch[p], <<a, m>>)
          /\ Billed(<<a, m>>)' = Billed(<<a, m>>)
      BY <1>2 DEF Billed, committed
    <3>3. QED
      BY <1>1, <1>2, <1>5, <1>6, <3>1, <3>2 DEF ProcOK, PeriodOK, Reading, Settling
  <2>6. ASSUME NEW a \in Account  PROVE BlockedOK(p, a)'
    <3>1. Later(p, a)' = Later(p, a)
      BY <1>2, <1>5 DEF Later, ExhaustedMonths, committed
    <3>2. QED
      BY <1>5, <1>6, <3>1 DEF BlockedOK, f
  <2>7. QED
    BY <2>1, <2>3, <2>4, <2>5, <2>6 DEF ProcOK
<1>9. \A q \in Proc : q # p => /\ Private(q)' = Private(q) /\ KeepsLocks(q)
                               /\ batch'[p] \cap batch[q] = {}
  BY <1>2, <1>5, <1>6 DEF SettlementInv, BatchesApart, Private, KeepsLocks
<1>10. QED
  BY <1>2, <1>6, <1>7, <1>8, <1>9, OwnStep DEF committed

\* The marks are those of the whole batch.
LEMMA MarkMeteringSettledStep ==
    ASSUME SettlementInv, NEW p \in Proc, MarkMeteringSettled(p)
    PROVE  SettlementInv'
<1>1. TypeOK /\ ProcOK(p) /\ BatchOK(p) /\ Position(p) /\ pc[p] = "mark" /\ Settling(p)
  BY DEF SettlementInv, ProcOK, Position, MarkMeteringSettled, Settling
<1>2. CASE Rollback(p)
  BY <1>2, RollbackStep DEF Rollback, SettlementInv, TypeOK
<1>3. CASE ~Rollback(p)
  <2>1. /\ draft' = [draft EXCEPT ![p].settled = batch[p]]
        /\ Goto(p, "commit")
        /\ UNCHANGED <<month, committed, req, at, batch, left, view, accountLock,
                       tunnelLock, failures>>
    BY <1>3 DEF MarkMeteringSettled
  <2>2. batch[p] \in SUBSET Row
    BY <1>1 DEF TypeOK
  <2>3. /\ draft' \in [Proc -> Draft]
        /\ \A q \in Proc : q # p => draft'[q] = draft[q]
        /\ draft'[p].used = draft[p].used
        /\ draft'[p].period = draft[p].period
        /\ draft'[p].blocked = draft[p].blocked
        /\ draft'[p].settled = batch[p]
    BY <1>1, <2>1, <2>2, WriteSettled
  <2>4. /\ pc'[p] = "commit" /\ pc' \in [Proc -> PC] /\ left' = [q \in Proc |-> left'[q]]
        /\ \A q \in Proc : q # p => pc'[q] = pc[q]
    BY <1>1, <2>1 DEF SettlementInv, TypeOK, Goto, PC
  <2>5. TypeOK'
    <3>1. \A q \in Proc : left'[q] \subseteq IF pc'[q] = "tunnels" THEN Tunnel
                                            ELSE Account \X Month
      BY <1>1, <2>1, <2>4 DEF TypeOK
    <3>2. QED
      BY <1>1, <2>1, <2>3, <2>4, <3>1 DEF TypeOK, committed
  <2>6. ProcOK(p)'
    <3>1. Position(p)' /\ SettledOK(p)' /\ LockOK(p)' /\ TokenOK(p)'
      BY <1>1, <2>1, <2>3, <2>4 DEF ProcOK, Position, SettledOK, LockOK, TokenOK, Settling,
         Reading
    <3>2. /\ TunnelIDs(batch[p])' = TunnelIDs(batch[p])
          /\ PeriodKeys(batch[p])' = PeriodKeys(batch[p])
      BY <2>1
    <3>3. BatchOK(p)'
      BY <1>1, <2>1, <2>4, <3>2 DEF BatchOK, Settling, committed
    <3>4. \A t \in Tunnel : UsedOK(p, t)'
      BY <1>1, <2>1, <2>3, <2>4, UsedStays DEF ProcOK, committed
    <3>5. ASSUME NEW a \in Account, NEW m \in Month  PROVE PeriodOK(p, a, m)'
      <4>1. KeysDone(p)' = KeysDone(p)
        BY <1>1, <2>1, <2>4, <3>2 DEF KeysDone
      <4>2. /\ PeriodUsage(batch[p], <<a, m>>)' = PeriodUsage(batch[p], <<a, m>>)
            /\ Billed(<<a, m>>)' = Billed(<<a, m>>)
        BY <2>1 DEF Billed, committed
      <4>3. QED
        BY <1>1, <2>1, <2>3, <2>4, <4>1, <4>2 DEF ProcOK, PeriodOK, Reading, Settling
    <3>6. ASSUME NEW a \in Account  PROVE BlockedOK(p, a)'
      <4>1. Later(p, a)' = Later(p, a)
        BY <2>1, <2>3 DEF Later, ExhaustedMonths, committed
      <4>2. QED
        BY <1>1, <2>3, <2>4, <4>1 DEF ProcOK, BlockedOK
    <3>7. QED
      BY <3>1, <3>3, <3>4, <3>5, <3>6 DEF ProcOK
  <2>7. \A q \in Proc : q # p => /\ Private(q)' = Private(q) /\ KeepsLocks(q)
                                 /\ batch'[p] \cap batch[q] = {}
    BY <2>1, <2>3, <2>4 DEF SettlementInv, BatchesApart, Private, KeepsLocks
  <2>8. QED
    BY <2>1, <2>4, <2>5, <2>6, <2>7, OwnStep DEF committed
<1>4. QED
  BY <1>2, <1>3

-----------------------------------------------------------------------------
(* The commit.                                                             *)

\* What a commit does to the tables, whatever the request was: a transaction
\* that settled nothing has an empty batch.
LEMMA CommitRows ==
    ASSUME SettlementInv, NEW p \in Proc, Commit(p)
    PROVE  /\ batch[p] \in SUBSET Row /\ settled' = settled \cup batch[p]
           /\ \A a \in Account, m \in Month :
                 /\ Billed(<<a, m>>) \in Nat /\ PeriodUsage(batch[p], <<a, m>>) \in Nat
                 /\ Billed(<<a, m>>)'
                       = Billed(<<a, m>>) + PeriodUsage(batch[p], <<a, m>>)
                 /\ draft[p].period[a][m] \in {None, Billed(<<a, m>>)'}
                 /\ draft[p].period[a][m] = None =>
                       Billed(<<a, m>>)' = Billed(<<a, m>>)
           /\ \A a \in Account : blocked'[a] = IF Later(p, a) = {} THEN blocked[a]
                                               ELSE Max(Later(p, a))
           /\ \A t \in Tunnel :
                 tunnel'[t] = IF OwnTunnel(p, t)
                              THEN [tunnel[t] EXCEPT !.used = @ + TunnelUsage(batch[p], t)]
                              ELSE tunnel[t]
<1>1. /\ TypeOK /\ ProcOK(p) /\ BatchOK(p) /\ SettledOK(p) /\ pc[p] = "commit"
      /\ batch[p] \in SUBSET Row /\ left[p] = {}
  BY DEF SettlementInv, ProcOK, BatchOK, TypeOK, Commit
<1>2. settled' = settled \cup batch[p]
  BY <1>1 DEF Commit, SettledOK
<1>3. ASSUME NEW a \in Account, NEW m \in Month
      PROVE  /\ Billed(<<a, m>>) \in Nat /\ PeriodUsage(batch[p], <<a, m>>) \in Nat
             /\ Billed(<<a, m>>)' = Billed(<<a, m>>) + PeriodUsage(batch[p], <<a, m>>)
             /\ draft[p].period[a][m] \in {None, Billed(<<a, m>>)'}
             /\ draft[p].period[a][m] = None => Billed(<<a, m>>)' = Billed(<<a, m>>)
  <2> DEFINE d == draft[p].period[a][m]
             u == PeriodUsage(batch[p], <<a, m>>)
  <2>1. period'[a][m] = IF d = None THEN period[a][m] ELSE d
    BY DEF Commit
  <2>2. Billed(<<a, m>>) \in Nat /\ u \in Nat
    <3>1. Billed(<<a, m>>) \in Nat
      BY <1>1, QuotaAssumption DEF TypeOK, PeriodRows, Billed, Bytes
    <3>2. QED
      BY <1>1, <3>1, PeriodUsageIs
  <2>3. PeriodOK(p, a, m)
    BY <1>1 DEF ProcOK
  <2>4. CASE d # None
    <3>1. d = Billed(<<a, m>>) + u
      BY <2>3, <2>4 DEF PeriodOK
    <3>2. Billed(<<a, m>>)' = d
      BY <2>1, <2>4 DEF Billed
    <3>3. QED
      BY <2>2, <2>4, <3>1, <3>2
  <2>5. CASE d = None
    <3>1. <<a, m>> \notin PeriodKeys(batch[p])
      BY <1>1, <2>3, <2>5 DEF PeriodOK, KeysDone
    <3>2. u = 0
      BY <1>1, <3>1, PeriodUsageIs
    <3>3. Billed(<<a, m>>)' = Billed(<<a, m>>)
      BY <2>1, <2>5 DEF Billed
    <3>4. QED
      BY <2>2, <2>5, <3>2, <3>3
  <2>6. QED
    BY <2>4, <2>5
<1>4. ASSUME NEW a \in Account
      PROVE  blocked'[a] = IF Later(p, a) = {} THEN blocked[a] ELSE Max(Later(p, a))
  <2>1. blocked'[a] = IF draft[p].blocked[a] = None THEN blocked[a]
                      ELSE draft[p].blocked[a]
    BY DEF Commit
  <2>2. draft[p].blocked[a] = IF Later(p, a) = {} THEN None ELSE Max(Later(p, a))
    BY <1>1 DEF ProcOK, BlockedOK
  <2>3. Later(p, a) # {} => Max(Later(p, a)) # None
    BY LaterMonths, NoneApart
  <2>4. QED
    BY <2>1, <2>2, <2>3
<1>5. ASSUME NEW t \in Tunnel
      PROVE  tunnel'[t] = IF OwnTunnel(p, t)
                          THEN [tunnel[t] EXCEPT !.used = @ + TunnelUsage(batch[p], t)]
                          ELSE tunnel[t]
  <2> DEFINE u == TunnelUsage(batch[p], t)
  <2>1. UsedOK(p, t) /\ TunnelsDone(p) = TunnelIDs(batch[p])
    BY <1>1 DEF ProcOK, TunnelsDone
  <2>2. tunnel'[t] = IF draft[p].used[t] = None THEN tunnel[t]
                     ELSE [tunnel[t] EXCEPT !.used = draft[p].used[t]]
    BY DEF Commit
  <2>3. u \in Nat /\ (t \notin TunnelIDs(batch[p]) => u = 0)
    BY <1>1, TunnelUsageIs
  <2>4. OwnTunnel(p, t) => tunnel[t] \in L!TunnelRow /\ tunnel[t].used \in Nat
    BY <1>1, QuotaAssumption DEF OwnTunnel, TypeOK, L!TunnelRow
  <2> HIDE DEF u
  <2>5. CASE t \in TunnelIDs(batch[p]) /\ OwnTunnel(p, t)
    <3>1. draft[p].used[t] = tunnel[t].used + u
      BY <2>1, <2>5 DEF UsedOK, u
    <3>2. draft[p].used[t] # None
      BY <2>3, <2>4, <2>5, <3>1, NoneApart
    <3>3. QED
      BY <2>2, <2>5, <3>1, <3>2 DEF u
  <2>6. CASE ~(t \in TunnelIDs(batch[p]) /\ OwnTunnel(p, t))
    <3>1. tunnel'[t] = tunnel[t]
      BY <2>1, <2>2, <2>6 DEF UsedOK
    <3>2. OwnTunnel(p, t) => u = 0
      BY <2>3, <2>6
    <3>3. OwnTunnel(p, t) => [tunnel[t] EXCEPT !.used = @ + u] = tunnel[t]
      BY <2>4, <3>2 DEF L!TunnelRow
    <3>4. QED
      BY <3>1, <3>3 DEF u
  <2>7. QED
    BY <2>5, <2>6
<1>6. QED
  BY <1>1, <1>2, <1>3, <1>4, <1>5

\* A commit leaves every block at the last exhausted month, and moves none
\* back: usage only grows.
LEMMA CommitBlocks ==
    ASSUME SettlementInv, NEW p \in Proc, Commit(p)
    PROVE  /\ BlockOK'
           /\ \A a \in Account : blocked[a] <= blocked'[a] /\ blocked'[a] \in Nat
<1> USE DEF Exhausted
<1>1. ASSUME NEW a \in Account
      PROVE  /\ blocked[a] <= blocked'[a] /\ blocked'[a] \in Nat
             /\ blocked'[a] = 0 \/ blocked'[a] \in Exhausted(a)'
             /\ \A m \in Exhausted(a)' : m <= blocked'[a]
  <2>1. /\ blocked[a] \in Nat /\ Quota \in Nat /\ Month \subseteq Nat
        /\ blocked[a] = 0 \/ blocked[a] \in Exhausted(a)
        /\ \A m \in Exhausted(a) : m <= blocked[a]
    BY KeyAssumption, QuotaAssumption DEF SettlementInv, TypeOK, BlockOK
  <2>2. \A m \in Month :
           /\ Billed(<<a, m>>) \in Nat /\ Billed(<<a, m>>)' \in Nat
           /\ Billed(<<a, m>>) <= Billed(<<a, m>>)'
           /\ draft[p].period[a][m] \in {None, Billed(<<a, m>>)'}
           /\ draft[p].period[a][m] = None => Billed(<<a, m>>)' = Billed(<<a, m>>)
    BY CommitRows
  <2>3. blocked'[a] = IF Later(p, a) = {} THEN blocked[a] ELSE Max(Later(p, a))
    BY CommitRows
  <2>4. /\ Later(p, a) # {} => blocked'[a] \in Later(p, a)
        /\ \A m \in Later(p, a) : m <= blocked'[a]
    BY <2>3, LaterMonths
  <2>5. ASSUME NEW m \in Exhausted(a)  PROVE m \in Exhausted(a)'
    <3>1. m \in Month /\ Billed(<<a, m>>) >= Quota
      OBVIOUS
    <3>2. Billed(<<a, m>>)' >= Quota
      BY <2>1, <2>2, <3>1
    <3>3. QED
      BY <3>1, <3>2
  <2>6. \A m \in Later(p, a) : m \in Exhausted(a)' /\ m > blocked[a] /\ m \in Month
    BY <2>2 DEF Later, ExhaustedMonths
  <2>7. \A m \in Exhausted(a)' : m \in Exhausted(a) \/ m <= blocked[a] \/ m \in Later(p, a)
    BY <2>1, <2>2 DEF Later, ExhaustedMonths
  <2>8. blocked[a] <= blocked'[a] /\ blocked'[a] \in Nat
    <3>1. CASE Later(p, a) = {}
      BY <2>1, <2>3, <3>1
    <3>2. CASE Later(p, a) # {}
      <4>1. blocked'[a] \in Month /\ blocked'[a] > blocked[a]
        BY <2>4, <2>6, <3>2
      <4>2. blocked'[a] \in Nat /\ blocked[a] \in Nat
        BY <2>1, <4>1
      <4>3. QED
        BY <4>1, <4>2
    <3>3. QED
      BY <3>1, <3>2
  <2>9. \A m \in Exhausted(a)' : m <= blocked'[a]
    <3>1. SUFFICES ASSUME NEW m \in Exhausted(a)'  PROVE m <= blocked'[a]
      OBVIOUS
    <3>2. m \in Nat
      BY <2>1
    <3>3. QED
      BY <2>1, <2>4, <2>7, <2>8, <3>2
  <2>10. QED
    BY <2>1, <2>3, <2>4, <2>5, <2>6, <2>8, <2>9
<1>2. QED
  BY <1>1 DEF BlockOK

\* A commit adds to every period the usage of the rows it marks.
LEMMA CommitBilled ==
    ASSUME SettlementInv, NEW p \in Proc, Commit(p)
    PROVE  BilledExactly'
<1>1. ASSUME NEW a \in Account, NEW m \in Month
      PROVE  Billed(<<a, m>>)' = L!Usage(L!OfMonth(settled', a, m))
  <2> DEFINE A == L!OfMonth(settled, a, m)
             B == L!OfMonth(batch[p], a, m)
  <2>1. /\ batch[p] \in SUBSET Row /\ settled' = settled \cup batch[p]
        /\ Billed(<<a, m>>)' = Billed(<<a, m>>) + PeriodUsage(batch[p], <<a, m>>)
    BY CommitRows
  <2>2. settled \in SUBSET Row /\ settled \cap batch[p] = {}
    BY DEF SettlementInv, TypeOK, ProcOK, BatchOK
  <2>3. /\ L!OfMonth(settled', a, m) = A \cup B /\ A \cap B = {}
        /\ A \in SUBSET Row /\ B \in SUBSET Row
    BY <2>1, <2>2 DEF L!OfMonth
  <2>4. Billed(<<a, m>>) = L!Usage(A)
    BY DEF SettlementInv, BilledExactly
  <2>5. PeriodUsage(batch[p], <<a, m>>) = L!Usage(B)
    BY <2>1, PeriodUsageIs
  <2> HIDE DEF A, B
  <2>6. L!Usage(A \cup B) = L!Usage(A) + L!Usage(B)
    BY <2>3, UsageUnion
  <2>7. QED
    BY <2>1, <2>3, <2>4, <2>5, <2>6
<1>2. QED
  BY <1>1 DEF BilledExactly

\* A commit keeps the invariant, for its own process and for all others.
LEMMA CommitStep ==
    ASSUME SettlementInv, NEW p \in Proc, Commit(p)
    PROVE  SettlementInv'
<1>1. TypeOK /\ ProcOK(p) /\ Release(p) /\ UNCHANGED <<month, appended, failures>>
  BY DEF SettlementInv, Commit
<1>2. batch[p] \subseteq appended \ settled /\ settled' = settled \cup batch[p]
  BY CommitRows DEF SettlementInv, ProcOK, BatchOK
<1>3. draft[p] \in Draft
  BY <1>1, DraftRows
<1>4. /\ tunnel' \in [Tunnel -> L!TunnelRow \cup {None}]
      /\ blocked' \in [Account -> Month \cup {0}]
      /\ period' \in PeriodRows
  <2>1. tunnel' \in [Tunnel -> L!TunnelRow \cup {None}]
    <3>1. ASSUME NEW t \in Tunnel
          PROVE  (IF draft[p].used[t] = None THEN tunnel[t]
                  ELSE [tunnel[t] EXCEPT !.used = draft[p].used[t]])
                    \in L!TunnelRow \cup {None}
      <4>1. tunnel[t] \in L!TunnelRow \cup {None}
        BY <1>1 DEF TypeOK
      <4>2. UsedOK(p, t)
        BY <1>1 DEF ProcOK
      <4>3. draft[p].used[t] # None => draft[p].used[t] \in Bytes /\ tunnel[t] # None
        BY <1>1, <4>2, DraftRows DEF UsedOK, OwnTunnel
      <4>4. QED
        BY <4>1, <4>3 DEF L!TunnelRow, Bytes
    <3>2. QED
      BY <3>1 DEF Commit
  <2>2. blocked' \in [Account -> Month \cup {0}]
    BY <1>1, DraftRows DEF Commit, TypeOK
  <2>3. period' \in PeriodRows
    <3>1. \A a \in Account, m \in Month :
             /\ draft[p].period[a][m] \in Bytes \cup {None}
             /\ period[a][m] \in Bytes \cup {None}
      BY <1>1, DraftRows DEF TypeOK, PeriodRows
    <3>2. QED
      BY <3>1 DEF Commit, PeriodRows
  <2>4. QED
    BY <2>1, <2>2, <2>3
<1>5. TypeOK' /\ left' = [q \in Proc |-> left'[q]]
  BY <1>1, <1>2, <1>4, Released DEF SettlementInv, TypeOK
<1>6. ASSUME NEW q \in Proc  PROVE ProcOK(q)'
  <2>1. CASE q = p
    BY <1>1, <2>1, Released DEF SettlementInv
  <2>2. CASE q # p
    <3>1. Private(q)' = Private(q) /\ KeepsLocks(q)
      BY <1>1, <2>2, Released DEF SettlementInv
    <3>2. ASSUME NEW a \in Account, accountLock[a] = q
          PROVE  period'[a] = period[a] /\ blocked'[a] = blocked[a]
      <4>1. \A m \in Month : draft[p].period[a][m] = None
        BY <1>1, <2>2, <3>2 DEF ProcOK, PeriodOK
      <4>2. Later(p, a) = {}
        BY <4>1 DEF Later, ExhaustedMonths
      <4>3. period[a] = [m \in Month |-> period[a][m]]
        BY <1>1 DEF TypeOK, PeriodRows
      <4>4. period'[a] = [m \in Month |-> period[a][m]]
        BY <4>1 DEF Commit
      <4>5. QED
        BY <4>2, <4>3, <4>4, CommitRows
    <3>3. ASSUME NEW t \in Tunnel, tunnelLock[t] = q  PROVE tunnel'[t] = tunnel[t]
      <4>1. draft[p].used[t] = None
        BY <1>1, <2>2, <3>3 DEF ProcOK, UsedOK
      <4>2. QED
        BY <4>1 DEF Commit
    <3>4. batch[q] \cap settled' = {}
      BY <1>2, <2>2 DEF SettlementInv, BatchesApart, ProcOK, BatchOK
    <3>5. KeepsRows(q) /\ ProcOK(q)
      BY <1>1, <3>2, <3>3, <3>4 DEF KeepsRows, SettlementInv
    <3>6. QED
      BY <1>1, <3>1, <3>5, OthersStep
  <2>3. QED
    BY <2>1, <2>2
<1>7. BatchesApart'
  <2>1. batch'[p] = {} /\ \A q \in Proc : q # p => batch'[q] = batch[q]
    BY <1>1, Released DEF SettlementInv, Private
  <2>2. QED
    BY <2>1 DEF SettlementInv, BatchesApart
<1>8. QED
  BY <1>5, <1>6, <1>7, CommitBlocks, CommitBilled DEF SettlementInv

-----------------------------------------------------------------------------
(* The environment, and the invariant of the specification.                *)

\* Gateway, the clock and the tunnel transactions change no row that is locked.
LEMMA EnvironmentStep ==
    ASSUME SettlementInv, Environment
    PROVE  SettlementInv'
<1>1. TypeOK /\ left = [p \in Proc |-> left[p]] /\ \A p \in Proc : ProcOK(p)
  BY DEF SettlementInv
<1>2. UNCHANGED <<settled, blocked, period, pc, req, at, batch, left, view, draft,
                  accountLock, tunnelLock, failures>>
  BY DEF Environment, Append, ChangeTunnel, NextMonth, committed
<1>3. month' \in Month /\ appended \subseteq appended' /\ appended' \subseteq Row
  BY <1>1 DEF Environment, Append, ChangeTunnel, NextMonth, committed, TypeOK
<1>4. /\ tunnel' \in [Tunnel -> L!TunnelRow \cup {None}]
      /\ \A t \in Tunnel : tunnelLock[t] # None => tunnel'[t] = tunnel[t]
  <2>1. CASE UNCHANGED tunnel
    BY <1>1, <2>1 DEF TypeOK
  <2>2. CASE \E t \in Tunnel : ChangeTunnel(t)
    <3>1. PICK t \in Tunnel : ChangeTunnel(t)
      BY <2>2
    <3>2. PICK x \in L!TunnelRow \cup {None} :
             tunnelLock[t] = None /\ tunnel' = [tunnel EXCEPT ![t] = x]
      <4>1. \A r \in Region : [region |-> r, used |-> 0] \in L!TunnelRow
        BY QuotaAssumption DEF L!TunnelRow
      <4>2. QED
        BY <3>1, <4>1 DEF ChangeTunnel
    <3>3. QED
      BY <1>1, <3>2 DEF TypeOK
  <2>3. QED
    BY <2>1, <2>2 DEF Environment, Append, NextMonth, committed
<1>5. TypeOK'
  BY <1>1, <1>2, <1>3, <1>4 DEF TypeOK
<1>6. ASSUME NEW p \in Proc  PROVE ProcOK(p)'
  <2>1. Private(p)' = Private(p) /\ KeepsLocks(p)
    BY <1>2 DEF Private, KeepsLocks
  <2>2. p # None /\ batch[p] \cap settled = {}
    BY <1>1, NoneApart DEF ProcOK, BatchOK
  <2>3. KeepsRows(p)
    BY <1>2, <1>3, <1>4, <2>2 DEF KeepsRows
  <2>4. QED
    BY <1>1, <2>1, <2>3, OthersStep
<1>7. BatchesApart' /\ BlockOK' /\ BilledExactly' /\ left' = [p \in Proc |-> left'[p]]
  BY <1>2 DEF SettlementInv, BatchesApart, BlockOK, BilledExactly, Billed, Exhausted,
     L!OfMonth
<1>8. QED
  BY <1>5, <1>6, <1>7 DEF SettlementInv

\* Nothing is appended at first, so nothing has been billed.
LEMMA InitInv == Init => SettlementInv
<1> SUFFICES ASSUME Init  PROVE SettlementInv
  OBVIOUS
<1>1. month \in Month
  <2>1. \A m \in Month : m \in Int
    BY KeyAssumption
  <2>2. IsFiniteSet(Month) /\ Month # {}
    BY KeyAssumption
  <2>3. QED
    BY <2>1, <2>2, MinExists DEF Init
<1>2. TypeOK
  BY <1>1, NoDraftType, QuotaAssumption, SettlementAssumption
     DEF Init, TypeOK, PC, PeriodRows, L!TunnelRow
<1>3. \A p \in Proc : ProcOK(p)
  BY IdleProc DEF Init
<1>4. \A a \in Account, m \in Month : Billed(<<a, m>>) = 0
  BY DEF Init, Billed
<1>5. BlockOK
  BY <1>4, QuotaAssumption DEF Init, BlockOK, Exhausted
<1>6. BilledExactly
  <2>1. ASSUME NEW a \in Account, NEW m \in Month
        PROVE  L!Usage(L!OfMonth(settled, a, m)) = 0
    <3>1. L!OfMonth(settled, a, m) = {}
      BY DEF Init, L!OfMonth
    <3>2. L!Usage({}) = 0
      BY UsageUnbilled DEF L!Billable
    <3>3. QED
      BY <3>1, <3>2
  <2>2. QED
    BY <1>4, <2>1 DEF BilledExactly
<1>7. QED
  BY <1>2, <1>3, <1>5, <1>6 DEF SettlementInv, Init, BatchesApart

\* A step that changes nothing keeps the invariant.
LEMMA StutterInv ==
    ASSUME SettlementInv, UNCHANGED vars
    PROVE  SettlementInv'
<1>1. /\ TypeOK /\ left = [p \in Proc |-> left[p]] /\ BatchesApart
      /\ \A p \in Proc : ProcOK(p)
  BY DEF SettlementInv
<1>2. TypeOK' /\ left' = [p \in Proc |-> left'[p]]
  BY <1>1 DEF TypeOK, vars
<1>3. ASSUME NEW p \in Proc  PROVE ProcOK(p)'
  <2>1. Private(p)' = Private(p) /\ KeepsLocks(p) /\ KeepsRows(p)
    BY <1>1 DEF Private, KeepsLocks, KeepsRows, vars, ProcOK, BatchOK
  <2>2. QED
    BY <1>1, <2>1, OthersStep
<1>4. BatchesApart' /\ BlockOK' /\ BilledExactly'
  BY DEF SettlementInv, BatchesApart, BlockOK, BilledExactly, Billed, Exhausted,
     L!OfMonth, vars
<1>5. QED
  BY <1>2, <1>3, <1>4 DEF SettlementInv

\* Every step keeps the invariant.
LEMMA NextInv == SettlementInv /\ [Next]_vars => SettlementInv'
<1> SUFFICES ASSUME SettlementInv, [Next]_vars  PROVE SettlementInv'
  OBVIOUS
<1>1. ASSUME NEW p \in Proc, NEW r \in Work[p], Begin(p, r)  PROVE SettlementInv'
  BY <1>1, BeginStep
<1>2. ASSUME NEW p \in Proc, Statement(p)  PROVE SettlementInv'
  BY <1>2, LockUnsettledMeteringStep, IncreaseTunnelUsageStep, LockAccountStep,
     FindPlanStep, IncreasePeriodUsageStep, ReadPeriodStep, BlockQuotaIfExhaustedStep,
     MarkMeteringSettledStep, CommitStep DEF Statement
<1>3. ASSUME NEW p \in Proc, Fail(p)  PROVE SettlementInv'
  <2>1. Release(p) /\ UNCHANGED <<month, committed>> /\ failures' \in 0 .. MaxFailures
    BY <1>3, SettlementAssumption DEF Fail, SettlementInv, TypeOK
  <2>2. QED
    BY <2>1, RollbackStep
<1>4. CASE UNCHANGED vars
  BY <1>4, StutterInv
<1>5. QED
  BY <1>1, <1>2, <1>3, <1>4, EnvironmentStep DEF Next

\* The invariant holds in every reachable state.
LEMMA InvCorrect == Spec => []SettlementInv
BY InitInv, NextInv, PTL DEF Spec

-----------------------------------------------------------------------------
(* Theorems.                                                               *)

\* Every variable stays within its type: no counter exceeds a 64-bit value, no
\* lock belongs to anything but a process, and only appended rows are settled.
THEOREM TypeCorrect == Spec => []TypeOK
<1>1. SettlementInv => TypeOK
  BY DEF SettlementInv
<1>2. QED
  BY <1>1, InvCorrect, PTL

\* Each row is settled exactly once into the month it was reported in: at all
\* times a billing_period row holds the usage of its settled rows.
THEOREM BilledCorrect == Spec => []BilledExactly
<1>1. SettlementInv => BilledExactly
  BY DEF SettlementInv
<1>2. QED
  BY <1>1, InvCorrect, PTL

\* quota_blocked_until always names the latest month whose period has used up
\* the quota.
THEOREM BlockCorrect == Spec => []BlockAgrees
<1>1. SettlementInv => BlockAgrees
  <2>1. ASSUME SettlementInv, NEW a \in Account
        PROVE  blocked[a] = Max({0} \cup {m \in Month : Billed(<<a, m>>) >= Quota})
    <3> DEFINE M == {0} \cup {m \in Month : Billed(<<a, m>>) >= Quota}
    <3>1. /\ blocked[a] \in M /\ blocked[a] \in Nat
          /\ \A m \in Exhausted(a) : m <= blocked[a]
      BY <2>1, KeyAssumption DEF SettlementInv, TypeOK, BlockOK, Exhausted
    <3>2. \A m \in M : m <= blocked[a]
      BY <3>1 DEF Exhausted
    <3>3. \A m \in M : m \in Int
      BY KeyAssumption
    <3> HIDE DEF M
    <3>4. Max(M) = blocked[a]
      BY <3>1, <3>2, <3>3, MaxIs
    <3>5. QED
      BY <3>4 DEF M
  <2>2. QED
    BY <2>1 DEF BlockAgrees
<1>2. QED
  BY <1>1, InvCorrect, PTL

\* The month a token request has checked is within the quota until it commits.
THEOREM TokenCorrect == Spec => TokenWithinQuota
<1>1. SettlementInv =>
        \A p \in Proc : pc[p] = "commit" /\ pc'[p] = "idle" /\ req[p].op = "token"
                        /\ failures' = failures
                        => Billed(<<req[p].acct, at[p]>>) < Quota
  BY DEF SettlementInv, ProcOK, TokenOK, Reading
<1>2. QED
  BY <1>1, InvCorrect, PTL DEF TokenWithinQuota

-----------------------------------------------------------------------------
(* The refinement.                                                         *)

\* The ledger's view of the periods.
BilledRows == [a \in Account |-> [m \in Month |->
                  IF period[a][m] = None THEN 0 ELSE period[a][m]]]

\* Settling any rows of a region is a step of the ledger.
LEMMA SettleAllowed ==
    ASSUME NEW r \in Region, NEW S \in SUBSET Row, L!Settle(r, S)
    PROVE  L!Next
BY DEF L!Next, L!Settle

\* Months are numbers.
LEMMA MonthNumbers == \A m \in Month \cup {0} : m \in Nat
BY KeyAssumption

\* The commit of a batch is one step of the ledger: it settles that batch.
LEMMA CommitSettles ==
    ASSUME SettlementInv, NEW p \in Proc, Commit(p),
           NEW r \in Region, r = req[p].region, NEW S \in SUBSET Row, S = batch[p],
           S # {}
    PROVE  L!Settle(r, S)
<1>1. /\ S # {} /\ S \subseteq appended \ settled /\ S \in SUBSET Row
      /\ \A i \in S : RowOf[i].region = r
      /\ settled' = settled \cup S /\ appended' = appended
  BY CommitRows DEF SettlementInv, ProcOK, BatchOK, Commit
<1>2. \A a \in Account, m \in Month :
         BilledRows[a][m]' = BilledRows[a][m] + L!Usage(L!OfMonth(S, a, m))
  <2>1. ASSUME NEW a \in Account, NEW m \in Month
        PROVE  BilledRows[a][m]' = BilledRows[a][m] + L!Usage(L!OfMonth(S, a, m))
    <3>1. BilledRows[a][m] = Billed(<<a, m>>) /\ BilledRows[a][m]' = Billed(<<a, m>>)'
      BY DEF Billed, BilledRows
    <3>2. PeriodUsage(S, <<a, m>>) = L!Usage(L!OfMonth(S, a, m))
      BY <1>1, PeriodUsageIs
    <3>3. QED
      BY <3>1, <3>2, CommitRows
  <2>2. QED
    BY <2>1
<1>3. BilledRows' = [a \in Account |-> [m \in Month |->
                        BilledRows[a][m] + L!Usage(L!OfMonth(S, a, m))]]
  BY <1>2 DEF BilledRows
<1>4. tunnel' = [t \in Tunnel |->
                    IF tunnel[t] # None /\ tunnel[t].region = r
                    THEN [tunnel[t] EXCEPT !.used = @ + L!Usage(L!OfTunnel(S, t))]
                    ELSE tunnel[t]]
  <2>1. tunnel' = [t \in Tunnel |-> tunnel'[t]]
    BY DEF Commit
  <2>2. \A t \in Tunnel :
           tunnel'[t] = IF tunnel[t] # None /\ tunnel[t].region = r
                        THEN [tunnel[t] EXCEPT !.used = @ + L!Usage(L!OfTunnel(S, t))]
                        ELSE tunnel[t]
    BY CommitRows DEF OwnTunnel, TunnelUsage
  <2>3. QED
    BY <2>1, <2>2
<1>5. ASSUME NEW a \in Account
      PROVE  blocked'[a] = L!Max({blocked[a]} \cup L!Exhausted(BilledRows', a))
  <2> DEFINE M == {blocked[a]} \cup L!Exhausted(BilledRows', a)
  <2>1. L!Exhausted(BilledRows', a) = Exhausted(a)'
    BY DEF L!Exhausted, Exhausted, Billed, BilledRows
  <2>2. /\ blocked[a] \in Nat /\ blocked[a] <= blocked'[a] /\ blocked'[a] \in Nat
        /\ blocked'[a] = 0 \/ blocked'[a] \in Exhausted(a)'
        /\ \A m \in Exhausted(a)' : m <= blocked'[a]
    BY CommitBlocks, KeyAssumption DEF SettlementInv, TypeOK, BlockOK
  <2>3. \A m \in M : m \in Int
    <3>1. \A m \in Month : m \in Int
      BY KeyAssumption
    <3>2. L!Exhausted(BilledRows', a) \subseteq Month
      BY DEF L!Exhausted
    <3>3. QED
      BY <2>2, <3>1, <3>2
  <2>4. blocked'[a] \in M /\ \A m \in M : m <= blocked'[a]
    BY <2>1, <2>2
  <2> HIDE DEF M
  <2>5. blocked'[a] = Max(M)
    BY <2>3, <2>4, MaxIs
  <2>6. QED
    BY <2>5 DEF M, Max, L!Max
<1>6. blocked' = [a \in Account |->
                     L!Max({blocked[a]} \cup L!Exhausted(BilledRows', a))]
  <2>1. blocked' = [a \in Account |-> blocked'[a]]
    BY DEF Commit
  <2>2. QED
    BY <1>5, <2>1
<1>7. QED
  BY <1>1, <1>3, <1>4, <1>6 DEF L!Settle, BilledRows

\* A commit that settles nothing leaves the ledger as it is: a period it has
\* created is a month without usage.
LEMMA CommitWithoutRows ==
    ASSUME SettlementInv, NEW p \in Proc, Commit(p), batch[p] = {}
    PROVE  UNCHANGED <<appended, settled, BilledRows, tunnel, blocked>>
<1>1. TypeOK /\ ProcOK(p) /\ BatchOK(p) /\ appended' = appended
  BY DEF SettlementInv, ProcOK, Commit
<1>2. settled' = settled
  BY CommitRows
<1>3. \A a \in Account, m \in Month : BilledRows[a][m]' = BilledRows[a][m]
  <2>1. \A a \in Account, m \in Month : PeriodUsage(batch[p], <<a, m>>) = 0
    BY PeriodUsageIs, BatchKeys
  <2>2. \A a \in Account, m \in Month : Billed(<<a, m>>)' = Billed(<<a, m>>)
    <3>1. SUFFICES ASSUME NEW a \in Account, NEW m \in Month
                   PROVE  Billed(<<a, m>>)' = Billed(<<a, m>>)
      OBVIOUS
    <3>2. /\ Billed(<<a, m>>) \in Nat
          /\ Billed(<<a, m>>)' = Billed(<<a, m>>) + PeriodUsage(batch[p], <<a, m>>)
      BY CommitRows
    <3>3. QED
      BY <2>1, <3>2
  <2>3. QED
    BY <2>2 DEF Billed, BilledRows
<1>4. BilledRows' = BilledRows
  BY <1>3 DEF BilledRows
<1>5. tunnel' = tunnel
  <2>1. ASSUME NEW t \in Tunnel  PROVE tunnel'[t] = tunnel[t]
    <3>1. draft[p].used[t] = None
      BY <1>1, BatchKeys DEF ProcOK, UsedOK, TunnelsDone
    <3>2. QED
      BY <3>1 DEF Commit
  <2>2. QED
    BY <1>1, <2>1 DEF TypeOK, Commit
<1>6. blocked' = blocked
  <2>1. ASSUME NEW a \in Account  PROVE blocked'[a] = blocked[a]
    <3>1. \A m \in Exhausted(a) : m <= blocked[a]
      BY DEF SettlementInv, BlockOK
    <3>2. ASSUME NEW m \in Later(p, a)  PROVE FALSE
      <4>1. m \in Month /\ m > blocked[a] /\ draft[p].period[a][m] >= Quota
            /\ draft[p].period[a][m] # None
        BY DEF Later, ExhaustedMonths
      <4>2. Billed(<<a, m>>)' = Billed(<<a, m>>)
        BY <1>3, <4>1 DEF Billed, BilledRows
      <4>3. draft[p].period[a][m] = Billed(<<a, m>>)
        BY <4>1, <4>2, CommitRows
      <4>4. m \in Exhausted(a)
        BY <4>1, <4>3 DEF Exhausted
      <4>5. m \in Nat /\ blocked[a] \in Nat
        <5>1. blocked[a] \in Month \cup {0} /\ m \in Month
          BY <1>1, <4>1 DEF TypeOK
        <5>2. QED
          BY <5>1, MonthNumbers
      <4>6. QED
        BY <3>1, <4>1, <4>4, <4>5
    <3>3. QED
      BY <3>2, CommitRows
  <2>2. QED
    BY <1>1, <2>1 DEF TypeOK, Commit
<1>7. QED
  BY <1>1, <1>2, <1>4, <1>5, <1>6

\* Every step is a step of the ledger, or does not show there.
LEMMA StepRefines ==
    ASSUME SettlementInv, [Next]_vars
    PROVE  [L!Next]_<<appended, settled, BilledRows, tunnel, blocked>>
<1> DEFINE same == UNCHANGED <<appended, settled, BilledRows, tunnel, blocked>>
<1>1. UNCHANGED committed => same
  BY DEF committed, BilledRows
<1>2. ASSUME NEW p \in Proc, NEW r \in Work[p], Begin(p, r)  PROVE same
  BY <1>1, <1>2 DEF Begin
<1>3. ASSUME NEW p \in Proc, Statement(p), ~Commit(p)  PROVE same
  BY <1>1, <1>3 DEF Statement, LockUnsettledMetering, IncreaseTunnelUsage, LockAccount,
     FindPlan, IncreasePeriodUsage, ReadPeriod, BlockQuotaIfExhausted, MarkMeteringSettled,
     Rollback
<1>4. ASSUME NEW p \in Proc, Commit(p)  PROVE same \/ L!Next
  <2>1. CASE batch[p] = {}
    BY <1>4, <2>1, CommitWithoutRows
  <2>2. CASE batch[p] # {}
    <3>1. ProcOK(p) /\ BatchOK(p) /\ Position(p) /\ batch[p] \in SUBSET Row
      BY DEF SettlementInv, TypeOK, ProcOK
    <3>2. Settling(p)
      BY <2>2, <3>1 DEF BatchOK
    <3>3. PICK S \in SUBSET Row : S = batch[p]
      BY <3>1
    <3>4. PICK r \in Region : r = req[p].region
      BY <3>1, <3>2, RequestFields DEF Settling, Position
    <3>5. L!Settle(r, S)
      BY <1>4, <2>2, <3>3, <3>4, CommitSettles
    <3>6. QED
      BY <3>5, SettleAllowed
  <2>3. QED
    BY <2>1, <2>2
<1>5. ASSUME NEW p \in Proc, Fail(p)  PROVE same
  BY <1>1, <1>5 DEF Fail
<1>6. ASSUME NEW i \in Row, Append(i)  PROVE L!Next
  BY <1>6 DEF Append, L!Next, L!Append
<1>7. ASSUME NEW t \in Tunnel, ChangeTunnel(t)  PROVE L!Next
  <2>1. L!DeleteTunnel(t) \/ \E r \in Region : L!CreateTunnel(t, r)
    BY <1>7 DEF ChangeTunnel, L!DeleteTunnel, L!CreateTunnel
  <2>2. QED
    BY <2>1 DEF L!Next
<1>8. NextMonth => same
  BY <1>1 DEF NextMonth
<1>9. UNCHANGED vars => same
  BY <1>1 DEF vars, committed
<1> HIDE DEF same
<1>10. same \/ L!Next
  BY <1>2, <1>3, <1>4, <1>5, <1>6, <1>7, <1>8, <1>9 DEF Next, Environment
<1>11. QED
  BY <1>10 DEF same

\* All transactions of all replicas together implement the atomic ledger: a
\* commit settles rows of one region once and for all, into all their totals,
\* and no other step of a transaction shows in the tables.
THEOREM LedgerCorrect == Spec => LedgerSpec
<1>1. Init => L!Init
  BY DEF Init, L!Init
<1>2. SettlementInv /\ [Next]_vars => [L!Next]_(L!ledger)
  BY StepRefines DEF L!ledger, BilledRows
<1>3. QED
  BY <1>1, <1>2, InvCorrect, PTL DEF Spec, LedgerSpec, L!Spec
=============================================================================
