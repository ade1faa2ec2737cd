-------------------------- MODULE TunnelRowsProofs --------------------------
(***************************************************************************)
(* Proofs about what the transactions of Tunnels write: ports, deletions,  *)
(* deadlines, disabled accounts and regions.                               *)
(*                                                                         *)
(* Only Commit changes committed rows, so each property is a claim about   *)
(* the drafts that may be committed: RowsInv says of every draft how it    *)
(* was made from the committed row it locks.  The row lock keeps that row  *)
(* as it was, the account's lock keeps its status as it was read.          *)
(***************************************************************************)
EXTENDS TunnelsProofs

PortsOf(c) == {x \in Port : ports[c][x] # None}

\* The ports c will have when p has committed.
PortsAfter(p, c) ==
    {x \in Port : (IF draft[p][c].ports[x] = Same
                   THEN ports[c][x] ELSE draft[p][c].ports[x]) # None}

PaidFor(p, a) == accountLock[a] = p /\ status[a] = "active"

\* A handler with its row still to write holds that row alone, as committed.
AsRead(p, c) ==
    HoldsRow(p) =>
        /\ c = req[p].code
        /\ draft[p][c] = [tunnel |-> tunnel[c], ports |-> Untouched]
        /\ tunnel[c].ns = req[p].ns

DeletionOK(p, c) ==
    draft[p][c].tunnel = None =>
        /\ tunnel[c] # None
        /\ \A x \in Port : draft[p][c].ports[x] = None
        /\ \/ /\ req[p].op \in {"deleteTunnel", "deleteTunnels"}
              /\ req[p].ns = tunnel[c].ns
           \/ /\ req[p].op = "cleanup"
              /\ tunnel[c].exp + Retention <= clock

DeadlineOK(p, c) ==
    tunnel[c] # None /\ draft[p][c].tunnel # None
    /\ draft[p][c].tunnel.exp < tunnel[c].exp =>
        /\ req[p].op = "updateTunnel" /\ req[p].hours # Same
        /\ req[p].ns = tunnel[c].ns

PortsOK(p, c) ==
    /\ Cardinality(PortsAfter(p, c)) <= MaxPortsPerTunnel
    /\ \/ PortsAfter(p, c) \subseteq PortsOf(c)
       \/ /\ req[p].op = "createPort" /\ tunnel[c] # None
          /\ PaidFor(p, tunnel[c].acct)

RowOK(p, c) ==
    draft[p][c] # None =>
        /\ pc[p] # "lock"
        /\ tunnel[c] # None => req[p].region = RegionOf[tunnel[c].cluster]
        /\ AsRead(p, c)
        /\ DeletionOK(p, c)
        /\ DeadlineOK(p, c)
        /\ PortsOK(p, c)

\* A transaction past its check of an account holds that account, active.
AccountOK(p) ==
    /\ Creating(p, {"count", "insert", "commit"}) => PaidFor(p, req[p].acct)
    /\ pc[p] = "write" /\ req[p].op = "createPort" =>
          PaidFor(p, tunnel[req[p].code].acct)

RowsOK(p) == AccountOK(p) /\ \A c \in Code : RowOK(p, c)

RowsInv == /\ QuotaInv
           /\ \A p \in Proc : RowsOK(p)
           /\ NoOrphanPorts
           /\ PortQuota

-----------------------------------------------------------------------------
(* Ports and the frame of a step.                                          *)

\* Sets of ports are finite, and one more port is one more.
LEMMA PortSets ==
    ASSUME NEW S \in SUBSET Port, NEW T \in SUBSET S
    PROVE  /\ IsFiniteSet(S)
           /\ Cardinality(S) \in Nat /\ Cardinality(T) \in Nat
           /\ Cardinality(T) <= Cardinality(S)
           /\ \A x \in Port \ S : Cardinality(S \cup {x}) = Cardinality(S) + 1
  BY PortAssumption, FS_Subset, FS_CardinalityType, FS_AddElement

\* The limit on ports is a number.
LEMMA PortLimit == MaxPortsPerTunnel \in Nat
  BY LimitAssumption

\* A draft stays in order while its process neither looks for a row again nor
\* changes it, and the committed row, locked by it, stays as it is.
LEMMA RowStays ==
    ASSUME TypeInv, TypeInv', NEW p \in Proc, NEW c \in Code, RowOK(p, c),
           draft'[p][c] = draft[p][c], req'[p] = req[p],
           draft[p][c] # None =>
               /\ pc'[p] # "lock" /\ (HoldsRow(p)' => HoldsRow(p))
               /\ tunnel'[c] = tunnel[c] /\ ports'[c] = ports[c],
           \A a \in Account : PaidFor(p, a) => PaidFor(p, a)',
           clock <= clock'
    PROVE  RowOK(p, c)'
<1> SUFFICES ASSUME draft'[p][c] # None
             PROVE  RowOK(p, c)'
  BY DEF RowOK
<1>1. /\ draft[p][c] # None /\ pc'[p] # "lock"
      /\ HoldsRow(p)' => HoldsRow(p)
      /\ tunnel'[c] = tunnel[c] /\ ports'[c] = ports[c]
  OBVIOUS
<1>2. /\ tunnel[c] # None => req[p].region = RegionOf[tunnel[c].cluster]
      /\ AsRead(p, c) /\ DeletionOK(p, c) /\ DeadlineOK(p, c) /\ PortsOK(p, c)
  BY <1>1 DEF RowOK
<1>3. AsRead(p, c)'
  BY <1>1, <1>2 DEF AsRead
<1>4. DeletionOK(p, c)'
  <2> SUFFICES ASSUME draft[p][c].tunnel = None
               PROVE  /\ tunnel[c] # None
                      /\ \A x \in Port : draft[p][c].ports[x] = None
                      /\ \/ /\ req[p].op \in {"deleteTunnel", "deleteTunnels"}
                            /\ req[p].ns = tunnel[c].ns
                         \/ /\ req[p].op = "cleanup"
                            /\ tunnel[c].exp + Retention <= clock'
    BY <1>1 DEF DeletionOK
  <2>1. /\ tunnel[c] # None /\ \A x \in Port : draft[p][c].ports[x] = None
        /\ \/ /\ req[p].op \in {"deleteTunnel", "deleteTunnels"}
              /\ req[p].ns = tunnel[c].ns
           \/ /\ req[p].op = "cleanup"
              /\ tunnel[c].exp + Retention <= clock
    BY <1>2 DEF DeletionOK
  <2>2. CASE req[p].op = "cleanup" /\ tunnel[c].exp + Retention <= clock
    <3>1. tunnel[c].exp \in Nat
      BY <2>1 DEF TypeInv, TypeOK, Tunnel
    <3>2. QED
      BY <2>1, <2>2, <3>1, LimitAssumption DEF TypeInv, TypeOK
  <2>3. QED
    BY <2>1, <2>2
<1>5. DeadlineOK(p, c)'
  BY <1>1, <1>2 DEF DeadlineOK
<1>6. PortsOK(p, c)'
  <2>1. /\ PortsAfter(p, c)' = PortsAfter(p, c)
        /\ PortsOf(c)' = PortsOf(c)
    BY <1>1 DEF PortsAfter, PortsOf
  <2>2. tunnel[c] # None => tunnel[c].acct \in Account
    BY DEF TypeInv, TypeOK, Tunnel
  <2>3. QED
    BY <1>1, <1>2, <2>1, <2>2 DEF PortsOK
<1>7. QED
  BY <1>1, <1>2, <1>3, <1>4, <1>5, <1>6 DEF RowOK

\* What a step of one process leaves of the others.
Others(p) ==
    /\ \A q \in Proc \ {p} : /\ draft'[q] = draft[q] /\ pc'[q] = pc[q]
                             /\ req'[q] = req[q]
    /\ \A q \in Proc \ {p}, a \in Account : PaidFor(q, a) => PaidFor(q, a)'

\* A process is in order after a step that keeps what it holds: its draft and
\* its position, the rows it has locked and the account it has read.
LEMMA StillOK ==
    ASSUME QuotaInv, QuotaInv', NEW q \in Proc, RowsOK(q),
           draft'[q] = draft[q], pc'[q] = pc[q], req'[q] = req[q],
           \A a \in Account : PaidFor(q, a) => PaidFor(q, a)',
           \A c \in Code : draft[q][c] # None =>
               tunnel'[c] = tunnel[c] /\ ports'[c] = ports[c],
           clock <= clock'
    PROVE  RowsOK(q)'
<1>1. TypeInv /\ TypeInv'
  BY DEF QuotaInv
<1>2. HoldsRow(q)' <=> HoldsRow(q)
  BY DEF HoldsRow
<1>3. ASSUME NEW c \in Code
      PROVE  RowOK(q, c)'
  <2>1. RowOK(q, c) /\ (draft[q][c] # None => pc'[q] # "lock")
    BY DEF RowsOK, RowOK
  <2>2. QED
    BY <1>1, <1>2, <2>1, RowStays
<1>4. AccountOK(q)'
  <2>1. Creating(q, {"count", "insert", "commit"})' => PaidFor(q, req[q].acct)'
    <3> SUFFICES ASSUME Creating(q, {"count", "insert", "commit"})
                 PROVE  PaidFor(q, req[q].acct)'
      BY DEF Creating
    <3>1. PICK a : a = req[q].acct /\ a = req'[q].acct
      OBVIOUS
    <3>2. a \in Account
      BY <1>1, <3>1, RequestFields DEF Creating, TypeInv, Position
    <3>3. PaidFor(q, a)
      BY <3>1 DEF RowsOK, AccountOK
    <3>4. PaidFor(q, a)'
      BY <3>2, <3>3
    <3>5. QED
      BY <3>1, <3>4 DEF PaidFor
  <2>2. ASSUME pc[q] = "write", req[q].op = "createPort"
        PROVE  PaidFor(q, tunnel[req[q].code].acct)'
    <3>1. req[q].code \in Code /\ draft[q][req[q].code] # None
      BY <1>1, <2>2 DEF TypeInv, RowHeld, HoldsRow
    <3>2. tunnel'[req[q].code] = tunnel[req[q].code]
      BY <3>1
    <3>3. tunnel[req[q].code].acct \in Account
      <4>1. tunnel[req[q].code] # None
        BY <2>2, <3>1 DEF QuotaInv, DraftOK
      <4>2. QED
        BY <1>1, <3>1, <4>1 DEF TypeInv, TypeOK, Tunnel
    <3>4. PaidFor(q, tunnel[req[q].code].acct)
      BY <2>2 DEF RowsOK, AccountOK
    <3>5. PICK a \in Account : a = tunnel[req[q].code].acct /\ PaidFor(q, a)
      BY <3>3, <3>4
    <3>6. a = tunnel'[req'[q].code].acct /\ PaidFor(q, a)'
      BY <3>2, <3>5
    <3>7. QED
      BY <3>6 DEF PaidFor
  <2>3. QED
    BY <2>1, <2>2 DEF AccountOK
<1>5. QED
  BY <1>3, <1>4 DEF RowsOK

\* A step of one process that leaves the committed rows alone.
LEMMA RowsFrame ==
    ASSUME RowsInv, QuotaInv', NEW p \in Proc, Others(p),
           UNCHANGED <<clock, tunnel, ports>>, RowsOK(p)'
    PROVE  RowsInv'
<1>1. ASSUME NEW q \in Proc
      PROVE  RowsOK(q)'
  <2>1. CASE q = p
    BY <2>1
  <2>2. CASE q # p
    <3>1. clock <= clock'
      BY DEF RowsInv, QuotaInv, TypeInv, TypeOK
    <3>2. QED
      BY <2>2, <3>1, StillOK DEF RowsInv, Others
  <2>3. QED
    BY <2>1, <2>2
<1>2. NoOrphanPorts' /\ PortQuota'
  BY DEF RowsInv, NoOrphanPorts, PortQuota
<1>3. QED
  BY <1>1, <1>2 DEF RowsInv

\* Ending a transaction leaves the accounts of other processes alone.
LEMMA ReleaseOthers ==
    ASSUME QuotaInv, NEW p \in Proc, Release(p), UNCHANGED status
    PROVE  /\ Others(p) /\ pc'[p] = "idle"
           /\ \A c \in Code : draft'[p][c] = None
  BY DEF Release, Goto, Others, PaidFor, QuotaInv, TypeInv, TypeOK

\* A process that runs no transaction holds nothing.
LEMMA IdleOK ==
    ASSUME NEW p \in Proc, pc'[p] \in {"idle", "lock", "account"},
           \A c \in Code : draft'[p][c] = None
    PROVE  RowsOK(p)'
  BY DEF RowsOK, AccountOK, RowOK, Creating

\* The end of a transaction that publishes nothing.
LEMMA ReleaseRows ==
    ASSUME RowsInv, QuotaInv', NEW p \in Proc, Release(p),
           UNCHANGED <<clock, status, tunnel, ports>>
    PROVE  RowsInv'
<1>1. /\ Others(p) /\ pc'[p] = "idle"
      /\ \A c \in Code : draft'[p][c] = None
  BY ReleaseOthers DEF RowsInv
<1>2. RowsOK(p)'
  BY <1>1, IdleOK
<1>3. QED
  BY <1>1, <1>2, RowsFrame

\* A transaction that is rolled back leaves no trace.
LEMMA RollbackRows ==
    ASSUME RowsInv, QuotaInv', NEW p \in Proc, Rollback(p)
    PROVE  RowsInv'
  BY ReleaseRows DEF Rollback, shared

\* Each statement keeps the invariant: a transaction begins with nothing.
LEMMA StartRows ==
    ASSUME RowsInv, QuotaInv', NEW p \in Proc, NEW r \in Work[p],
           BeginCreateTunnel(p, r) \/ Begin(p, r)
    PROVE  RowsInv'
<1>1. PICK label \in {"account", "lock"} : Start(p, r, label)
  BY DEF BeginCreateTunnel, Begin
<1>2. /\ pc[p] = "idle" /\ Goto(p, label) /\ req' = [req EXCEPT ![p] = r]
      /\ UNCHANGED <<clock, tunnel, ports, draft, accountLock>>
  BY <1>1 DEF Start
<1>3. \A a \in Account : status[a] = "active" => status'[a] = "active"
  BY DEF BeginCreateTunnel, Begin, RowsInv, QuotaInv, TypeInv, TypeOK
<1>4. Others(p) /\ pc'[p] = label
  <2>1. \A q \in Proc \ {p} : draft'[q] = draft[q] /\ pc'[q] = pc[q] /\ req'[q] = req[q]
    BY <1>2 DEF Goto, RowsInv, QuotaInv, TypeInv, TypeOK
  <2>2. pc'[p] = label
    BY <1>2 DEF Goto, RowsInv, QuotaInv, TypeInv, TypeOK
  <2>3. QED
    BY <1>2, <1>3, <2>1, <2>2 DEF Others, PaidFor
<1>5. \A c \in Code : draft'[p][c] = None
  BY <1>2 DEF RowsInv, QuotaInv, DraftOK
<1>6. RowsOK(p)'
  BY <1>4, <1>5, IdleOK
<1>7. QED
  BY <1>2, <1>4, <1>6, RowsFrame

-----------------------------------------------------------------------------
(* The statements that lock rows.                                          *)

\* A row whose ports are not touched keeps its number of ports.
LEMMA UntouchedPorts ==
    ASSUME RowsInv, NEW p \in Proc, NEW c \in Code, UNCHANGED ports,
           draft'[p][c].ports = Untouched
    PROVE  PortsOK(p, c)'
<1>1. PortsAfter(p, c)' = PortsOf(c) /\ PortsOf(c)' = PortsOf(c)
  BY DEF PortsAfter, PortsOf, Untouched
<1>2. Cardinality(PortsOf(c)) <= MaxPortsPerTunnel
  BY DEF RowsInv, PortQuota, PortsOf
<1>3. QED
  BY <1>1, <1>2 DEF PortsOK

\* A step of one process that changes neither rows, drafts nor accounts.
LEMMA DraftsStay ==
    ASSUME RowsInv, QuotaInv', NEW p \in Proc, NEW label,
           UNCHANGED <<clock, tunnel, ports, req, draft>>,
           pc' = pc \/ Goto(p, label), pc'[p] # "lock",
           HoldsRow(p)' => HoldsRow(p),
           \A q \in Proc, a \in Account : PaidFor(q, a) => PaidFor(q, a)',
           AccountOK(p)'
    PROVE  RowsInv'
<1>1. Others(p)
  BY DEF Others, Goto, RowsInv, QuotaInv, TypeInv, TypeOK
<1>2. ASSUME NEW c \in Code
      PROVE  RowOK(p, c)'
  <2>1. /\ RowOK(p, c) /\ TypeInv /\ TypeInv' /\ clock <= clock'
    BY DEF RowsInv, RowsOK, QuotaInv, TypeInv, TypeOK
  <2>2. QED
    BY <2>1, RowStays
<1>3. QED
  BY <1>1, <1>2, RowsFrame DEF RowsOK

\* A handler's draft is first the row as committed.
LEMMA LockTunnelRows ==
    ASSUME RowsInv, QuotaInv', NEW p \in Proc, LockTunnel(p)
    PROVE  RowsInv'
<1> DEFINE c == req[p].code
<1>1. CASE Rollback(p)
  BY <1>1, RollbackRows
<1>2. CASE ~Rollback(p)
  <2>1. /\ Publish(p, [draft[p] EXCEPT ![c] = [tunnel |-> tunnel[c],
                                               ports |-> Untouched]])
        /\ Goto(p, IF req[p].op = "createPort" THEN "account" ELSE "write")
        /\ UNCHANGED <<clock, status, tunnel, ports, req, accountLock>>
        /\ tunnel[c] # None /\ RegionOf[tunnel[c].cluster] = req[p].region
        /\ tunnel[c].ns = req[p].ns
    BY <1>2 DEF LockTunnel, Owned, Found, shared
  <2>2. pc[p] = "lock" /\ req[p].op \in OwnedOps /\ c \in Code
    BY RequestFields DEF LockTunnel, RowsInv, QuotaInv, TypeInv, Position
  <2>3. tunnel[c] \in Tunnel
    BY <2>1, <2>2 DEF RowsInv, QuotaInv, TypeInv, TypeOK
  <2>4. /\ \A q \in Proc \ {p} : draft'[q] = draft[q]
        /\ draft'[p][c] = [tunnel |-> tunnel[c], ports |-> Untouched]
        /\ \A d \in Code \ {c} : draft'[p][d] = None
    <3>1. /\ \A q \in Proc \ {p} : draft'[q] = draft[q]
          /\ draft'[p][c] = [tunnel |-> tunnel[c], ports |-> Untouched]
          /\ \A d \in Code \ {c} : draft'[p][d] = draft[p][d]
      BY <2>1, <2>2, <2>3, DraftRow, PublishRow DEF RowsInv, QuotaInv, TypeInv
    <3>2. \A d \in Code : draft[p][d] = None
      BY <2>2 DEF RowsInv, RowsOK, RowOK
    <3>3. QED
      BY <3>1, <3>2
  <2>5. /\ \A q \in Proc \ {p} : pc'[q] = pc[q]
        /\ pc'[p] = IF req[p].op = "createPort" THEN "account" ELSE "write"
    BY <2>1 DEF Goto, RowsInv, QuotaInv, TypeInv, TypeOK
  <2>6. Others(p)
    BY <2>1, <2>4, <2>5 DEF Others, PaidFor
  <2>7. RowOK(p, c)'
    <3>1. AsRead(p, c)'
      BY <2>1, <2>4 DEF AsRead
    <3>2. draft'[p][c].tunnel = tunnel[c] /\ draft'[p][c].ports = Untouched
      BY <2>4
    <3>3. DeletionOK(p, c)' /\ DeadlineOK(p, c)'
      BY <2>1, <2>3, <3>2 DEF DeletionOK, DeadlineOK, Tunnel
    <3>4. PortsOK(p, c)'
      BY <2>1, <2>2, <3>2, UntouchedPorts
    <3>5. QED
      BY <2>1, <2>5, <3>1, <3>3, <3>4 DEF RowOK
  <2>8. \A d \in Code \ {c} : RowOK(p, d)'
    BY <2>4 DEF RowOK
  <2>9. AccountOK(p)'
    BY <2>1, <2>2, <2>5 DEF AccountOK, Creating, OwnedOps
  <2>10. QED
    BY <2>1, <2>6, <2>7, <2>8, <2>9, RowsFrame DEF RowsOK
<1>3. QED
  BY <1>1, <1>2

\* Past this statement the account is held, and was found active.
LEMMA LockAccountRows ==
    ASSUME RowsInv, QuotaInv', NEW p \in Proc, LockAccount(p)
    PROVE  RowsInv'
<1> DEFINE a == AccountNeeded(p)
<1>1. CASE Rollback(p)
  BY <1>1, RollbackRows
<1>2. CASE ~Rollback(p)
  <2>1. PICK label \in {"count", "write"} :
          /\ label = IF req[p].op = "createTunnel" THEN "count" ELSE "write"
          /\ Goto(p, label)
          /\ accountLock[a] = None /\ status[a] = "active"
          /\ accountLock' = [accountLock EXCEPT ![a] = p]
          /\ UNCHANGED <<clock, status, tunnel, ports, req, draft>>
    BY <1>2 DEF LockAccount, shared
  <2>2. /\ pc[p] = "account" /\ pc'[p] = label
        /\ req[p].op \in {"createTunnel", "createPort"} /\ req[p] \in Request
    BY <2>1 DEF LockAccount, RowsInv, QuotaInv, TypeInv, TypeOK, Position, Goto
  <2>3. /\ req[p].op = "createTunnel" => a = req[p].acct
        /\ req[p].op = "createPort" => a = tunnel[req[p].code].acct
        /\ a \in Account
    <3>1. CASE req[p].op = "createTunnel"
      BY <2>2, <3>1, RequestFields DEF AccountNeeded
    <3>2. CASE req[p].op = "createPort"
      <4>1. /\ HoldsRow(p) /\ req[p].code \in Code
            /\ draft[p][req[p].code] # None
            /\ draft[p][req[p].code].tunnel \in Tunnel
        BY <2>2, <3>2 DEF HoldsRow, RowsInv, QuotaInv, TypeInv, RowHeld
      <4>2. draft[p][req[p].code].tunnel = tunnel[req[p].code]
        <5>1. AsRead(p, req[p].code)
          BY <4>1 DEF RowsInv, RowsOK, RowOK
        <5>2. draft[p][req[p].code]
                = [tunnel |-> tunnel[req[p].code], ports |-> Untouched]
          BY <4>1, <5>1 DEF AsRead
        <5>3. QED
          BY <5>2
      <4>3. QED
        BY <3>2, <4>1, <4>2 DEF AccountNeeded, Tunnel
    <3>3. QED
      BY <2>2, <3>1, <3>2
  <2>4. \A q \in Proc, b \in Account : PaidFor(q, b) => PaidFor(q, b)'
    BY <2>1, NoneIsNoRow DEF PaidFor, RowsInv, QuotaInv, TypeInv, TypeOK
  <2>5. PaidFor(p, a)'
    <3>1. PICK b \in Account : b = a
      BY <2>3
    <3>2. accountLock'[b] = p /\ status'[b] = "active"
      BY <2>1, <3>1 DEF RowsInv, QuotaInv, TypeInv, TypeOK
    <3>3. b = a'
      BY <2>1, <3>1 DEF AccountNeeded
    <3>4. QED
      BY <3>2, <3>3 DEF PaidFor
  <2>6. AccountOK(p)'
    <3>1. a' = a
      BY <2>1 DEF AccountNeeded
    <3> HIDE DEF a
    <3>2. QED
      BY <2>1, <2>2, <2>3, <2>5, <3>1 DEF AccountOK, Creating, PaidFor
  <2>7. HoldsRow(p)' => HoldsRow(p)
    BY <2>1, <2>2 DEF HoldsRow
  <2>8. QED
    BY <2>1, <2>2, <2>4, <2>6, <2>7, DraftsStay
<1>3. QED
  BY <1>1, <1>2

\* Rows are taken for deletion by their namespace, or by their age.
LEMMA LockForDeletionRows ==
    ASSUME RowsInv, QuotaInv', NEW p \in Proc,
           LockNamespaceTunnels(p) \/ LockAgedTunnels(p)
    PROVE  RowsInv'
<1> DEFINE Deletable(c) ==
        /\ tunnel[c] # None /\ RegionOf[tunnel[c].cluster] = req[p].region
        /\ \/ /\ req[p].op \in {"deleteTunnel", "deleteTunnels"}
              /\ req[p].ns = tunnel[c].ns
           \/ req[p].op = "cleanup" /\ tunnel[c].exp <= at[p] - Retention
<1>1. PICK S \in SUBSET Code :
         /\ Publish(p, [c \in Code |-> IF c \in S THEN Erased ELSE None])
         /\ \A c \in S : Deletable(c)
  <2>1. CASE LockNamespaceTunnels(p)
    <3> DEFINE S == {c \in Code : Found(p, c) /\ tunnel[c].ns = req[p].ns}
    <3>1. /\ req[p].op = "deleteTunnels"
          /\ Publish(p, [c \in Code |-> IF c \in S THEN Erased ELSE None])
      BY <2>1 DEF LockNamespaceTunnels
    <3>2. S \in SUBSET Code /\ \A c \in S : Deletable(c)
      BY <3>1 DEF Found
    <3> HIDE DEF S, Deletable
    <3>3. QED
      BY <3>1, <3>2
  <2>2. CASE LockAgedTunnels(p)
    BY <2>2 DEF LockAgedTunnels, FirstOf, Aged, Found
  <2>3. QED
    BY <2>1, <2>2
<1>2. /\ Goto(p, "commit") /\ req[p].op \in {"deleteTunnels", "cleanup"}
      /\ UNCHANGED <<clock, status, tunnel, ports, req, accountLock>>
  BY DEF LockNamespaceTunnels, LockAgedTunnels, shared
<1>3. /\ \A q \in Proc \ {p} : draft'[q] = draft[q]
      /\ \A c \in Code : draft'[p][c] = IF c \in S THEN Erased ELSE None
  BY <1>1, PublishErased DEF RowsInv, QuotaInv, TypeInv
<1>4. pc'[p] = "commit" /\ \A q \in Proc \ {p} : pc'[q] = pc[q]
  BY <1>2 DEF Goto, RowsInv, QuotaInv, TypeInv, TypeOK
<1>5. Others(p)
  BY <1>2, <1>3, <1>4 DEF Others, PaidFor
<1>6. ASSUME NEW c \in Code, draft'[p][c] # None
      PROVE  RowOK(p, c)'
  <2>1. draft'[p][c] = Erased /\ Deletable(c)
    BY <1>1, <1>3, <1>6
  <2>2. /\ draft'[p][c].tunnel = None
        /\ \A x \in Port : draft'[p][c].ports[x] = None
    BY <2>1 DEF Erased
  <2>3. DeletionOK(p, c)'
    <3>1. ASSUME req[p].op = "cleanup", tunnel[c].exp <= at[p] - Retention
          PROVE  tunnel[c].exp + Retention <= clock
      <4>1. tunnel[c].exp \in Nat
        BY <2>1 DEF RowsInv, QuotaInv, TypeInv, TypeOK, Tunnel
      <4>2. at[p] \in Nat /\ clock \in Nat /\ at[p] <= clock /\ Retention \in Nat
        BY LimitAssumption DEF RowsInv, QuotaInv, TypeInv, TypeOK
      <4>3. QED
        BY <3>1, <4>1, <4>2
    <3>2. QED
      BY <1>2, <2>1, <2>2, <3>1 DEF DeletionOK
  <2>4. PortsOK(p, c)'
    <3>1. PortsAfter(p, c)' = {}
      BY <2>2, NoneIsNoRow DEF PortsAfter
    <3>2. Cardinality({}) = 0
      BY FS_EmptySet
    <3>3. QED
      BY <3>1, <3>2, PortLimit DEF PortsOK
  <2>5. AsRead(p, c)' /\ DeadlineOK(p, c)'
    BY <1>4, <2>2 DEF AsRead, HoldsRow, DeadlineOK
  <2>6. QED
    BY <1>2, <1>4, <2>1, <2>3, <2>4, <2>5 DEF RowOK
<1>7. RowsOK(p)'
  BY <1>2, <1>4, <1>6 DEF RowsOK, RowOK, AccountOK, Creating
<1>8. QED
  BY <1>2, <1>5, <1>7, RowsFrame

-----------------------------------------------------------------------------
(* CreateTunnel under the account's lock.                                  *)

\* The count reads committed rows and changes nothing.
LEMMA CountTunnelsRows ==
    ASSUME RowsInv, QuotaInv', NEW p \in Proc, CountTunnels(p)
    PROVE  RowsInv'
<1>1. CASE Rollback(p)
  BY <1>1, RollbackRows
<1>2. CASE ~Rollback(p)
  <2>1. /\ pc[p] = "count" /\ Goto(p, "insert")
        /\ UNCHANGED <<clock, status, tunnel, ports, req, draft, accountLock>>
    BY <1>2 DEF CountTunnels, shared
  <2>2. pc'[p] = "insert"
    BY <2>1 DEF Goto, RowsInv, QuotaInv, TypeInv, TypeOK
  <2>3. AccountOK(p)
    BY DEF RowsInv, RowsOK
  <2>4. AccountOK(p)'
    BY <2>1, <2>2, <2>3 DEF AccountOK, Creating, PaidFor
  <2>5. ~HoldsRow(p)'
    BY <2>2 DEF HoldsRow
  <2>6. QED
    BY <2>1, <2>2, <2>4, <2>5, DraftsStay DEF PaidFor
<1>3. QED
  BY <1>1, <1>2

\* The new row has no ports, and no committed row has its code.
LEMMA InsertTunnelRows ==
    ASSUME RowsInv, QuotaInv', NEW p \in Proc, NEW c \in Code, InsertTunnel(p, c)
    PROVE  RowsInv'
<1>1. /\ pc[p] = "insert" /\ req[p].op = "createTunnel" /\ req[p] \in Request
      /\ \A d \in Code : draft[p][d] = None
      /\ AccountOK(p)
  <2>1. pc[p] = "insert" /\ req[p].op = "createTunnel" /\ req[p] \in Request
    BY DEF InsertTunnel, RowsInv, QuotaInv, TypeInv, Position
  <2>2. \A d \in Code : draft[p][d] = None
    BY <2>1 DEF RowsInv, QuotaInv, DraftOK
  <2>3. QED
    BY <2>1, <2>2 DEF RowsInv, RowsOK
<1>2. CASE Rollback(p)
  BY <1>2, RollbackRows
<1>3. CASE UNCHANGED <<shared, pc, req, at, draft, accountLock, batch, left>>
  <2>1. UNCHANGED <<clock, status, tunnel, ports, pc, req, draft, accountLock>>
    BY <1>3 DEF shared
  <2>2. AccountOK(p)' /\ (HoldsRow(p)' => HoldsRow(p))
    BY <1>1, <2>1 DEF AccountOK, Creating, PaidFor, HoldsRow
  <2>3. QED
    BY <1>1, <2>1, <2>2, DraftsStay DEF PaidFor
<1>4. CASE /\ tunnel[c] = None
           /\ Publish(p, [draft[p] EXCEPT ![c] = [tunnel |-> NewTunnel(p),
                                                  ports |-> Untouched]])
           /\ Goto(p, "commit")
           /\ UNCHANGED <<shared, req, at, attempt, accountLock, batch, left>>
  <2>1. NewTunnel(p) \in Tunnel
    BY <1>1, RequestFields, LimitAssumption
       DEF NewTunnel, Tunnel, RowsInv, QuotaInv, TypeInv, TypeOK, Position,
           ValidHours
  <2>2. /\ \A q \in Proc \ {p} : draft'[q] = draft[q]
        /\ draft'[p][c] = [tunnel |-> NewTunnel(p), ports |-> Untouched]
        /\ \A d \in Code \ {c} : draft'[p][d] = None
    BY <1>1, <1>4, <2>1, DraftRow, PublishRow DEF RowsInv, QuotaInv, TypeInv
  <2>3. UNCHANGED <<clock, status, tunnel, ports, req, accountLock>>
    BY <1>4 DEF shared
  <2>4. pc'[p] = "commit" /\ \A q \in Proc \ {p} : pc'[q] = pc[q]
    BY <1>4 DEF Goto, RowsInv, QuotaInv, TypeInv, TypeOK
  <2>5. Others(p)
    BY <2>2, <2>3, <2>4 DEF Others, PaidFor
  <2>6. RowOK(p, c)'
    <3>1. draft'[p][c].tunnel # None /\ draft'[p][c].ports = Untouched
      BY <2>1, <2>2, NoneIsNoRow
    <3>2. AsRead(p, c)' /\ DeletionOK(p, c)' /\ DeadlineOK(p, c)'
      BY <1>4, <2>3, <2>4, <3>1 DEF AsRead, HoldsRow, DeletionOK, DeadlineOK
    <3>3. PortsOK(p, c)'
      BY <2>3, <3>1, UntouchedPorts
    <3>4. QED
      BY <1>4, <2>3, <2>4, <3>2, <3>3 DEF RowOK
  <2>7. \A d \in Code \ {c} : RowOK(p, d)'
    BY <2>2 DEF RowOK
  <2>8. AccountOK(p)'
    BY <1>1, <2>3, <2>4 DEF AccountOK, Creating, PaidFor
  <2>9. QED
    BY <2>3, <2>5, <2>6, <2>7, <2>8, RowsFrame DEF RowsOK
<1>5. QED
  BY <1>2, <1>3, <1>4 DEF InsertTunnel

-----------------------------------------------------------------------------
(* The writes of the handlers that hold one tunnel's row.                  *)

\* What holds of a handler's row when it comes to write it.
LEMMA RowAtWrite ==
    ASSUME RowsInv, NEW p \in Proc, pc[p] = "write"
    PROVE  /\ req[p].code \in Code /\ req[p] \in Request
           /\ draft[p][req[p].code] # None
           /\ tunnel[req[p].code] \in Tunnel
           /\ LockedRow(p) = tunnel[req[p].code]
           /\ tunnel[req[p].code].ns = req[p].ns
           /\ RegionOf[tunnel[req[p].code].cluster] = req[p].region
           /\ \A d \in Code \ {req[p].code} : draft[p][d] = None
<1> DEFINE c == req[p].code
<1>1. /\ c \in Code /\ draft[p][c] # None /\ req[p] \in Request
      /\ HoldsRow(p) /\ LockedRow(p) \in Tunnel
  BY DEF RowsInv, QuotaInv, TypeInv, Position, RowHeld, HoldsRow, LockedRow
<1>2. /\ AsRead(p, c)
      /\ tunnel[c] # None => req[p].region = RegionOf[tunnel[c].cluster]
  BY <1>1 DEF RowsInv, RowsOK, RowOK
<1>3. /\ draft[p][c] = [tunnel |-> tunnel[c], ports |-> Untouched]
      /\ tunnel[c].ns = req[p].ns
  BY <1>1, <1>2 DEF AsRead
<1>4. LockedRow(p) = tunnel[c]
  BY <1>3 DEF LockedRow
<1>5. ASSUME NEW d \in Code, draft[p][d] # None
      PROVE  d = c
  <2>1. AsRead(p, d)
    BY <1>5 DEF RowsInv, RowsOK, RowOK
  <2>2. QED
    BY <1>1, <2>1 DEF AsRead
<1>6. QED
  BY <1>1, <1>2, <1>3, <1>4, <1>5, NoneIsNoRow

\* The ports tunnel c will have once the port rows x are written.
PortsWith(c, x) ==
    {y \in Port : (IF x[y] = Same THEN ports[c][y] ELSE x[y]) # None}

\* A handler writes the row it holds: it may delete it, move its deadline back
\* if that is what it was asked for, and must respect the limit on ports.
LEMMA WriteRows ==
    ASSUME RowsInv, QuotaInv', NEW p \in Proc, pc[p] = "write",
           NEW t \in Tunnel \cup {None},
           NEW x \in [Port -> Policy \cup {None, Same}], Write(p, t, x),
           t = None => /\ req[p].op = "deleteTunnel"
                       /\ \A y \in Port : x[y] = None,
           t # None /\ t.exp < tunnel[req[p].code].exp =>
               req[p].op = "updateTunnel" /\ req[p].hours # Same,
           Cardinality(PortsWith(req[p].code, x)) <= MaxPortsPerTunnel,
           \/ PortsWith(req[p].code, x) \subseteq PortsOf(req[p].code)
           \/ req[p].op = "createPort"
    PROVE  RowsInv'
<1> DEFINE c == req[p].code
<1>1. /\ c \in Code /\ req[p] \in Request /\ draft[p][c] # None
      /\ tunnel[c] \in Tunnel /\ tunnel[c] # None
      /\ tunnel[c].ns = req[p].ns
      /\ RegionOf[tunnel[c].cluster] = req[p].region
      /\ \A d \in Code \ {c} : draft[p][d] = None
  BY RowAtWrite, NoneIsNoRow
<1>2. /\ Publish(p, [draft[p] EXCEPT ![c] = [tunnel |-> t, ports |-> x]])
      /\ Goto(p, "commit")
      /\ UNCHANGED <<clock, status, tunnel, ports, req, accountLock>>
  BY DEF Write, shared
<1>3. /\ \A q \in Proc \ {p} : draft'[q] = draft[q]
      /\ draft'[p][c] = [tunnel |-> t, ports |-> x]
      /\ \A d \in Code \ {c} : draft'[p][d] = None
  BY <1>1, <1>2, PublishRow DEF RowsInv, QuotaInv, TypeInv
<1>4. pc'[p] = "commit" /\ \A q \in Proc \ {p} : pc'[q] = pc[q]
  BY <1>2 DEF Goto, RowsInv, QuotaInv, TypeInv, TypeOK
<1>5. Others(p)
  BY <1>2, <1>3, <1>4 DEF Others, PaidFor
<1>6. RowOK(p, c)'
  <2>1. draft'[p][c].tunnel = t /\ draft'[p][c].ports = x
    BY <1>3
  <2>2. AsRead(p, c)'
    BY <1>4 DEF AsRead, HoldsRow
  <2>3. DeletionOK(p, c)' /\ DeadlineOK(p, c)'
    BY <1>1, <1>2, <2>1 DEF DeletionOK, DeadlineOK
  <2>4. PortsOK(p, c)'
    <3>1. /\ PortsAfter(p, c)' = PortsWith(c, x)
          /\ PortsOf(c)' = PortsOf(c)
      BY <1>2, <2>1 DEF PortsAfter, PortsWith, PortsOf
    <3>2. req[p].op = "createPort" => PaidFor(p, tunnel[c].acct)
      BY DEF RowsInv, RowsOK, AccountOK
    <3>3. PaidFor(p, tunnel[c].acct) => PaidFor(p, tunnel[c].acct)'
      BY <1>2 DEF PaidFor
    <3> HIDE DEF c
    <3>4. QED
      BY <1>1, <1>2, <3>1, <3>2, <3>3 DEF PortsOK, c
  <2>5. QED
    BY <1>1, <1>2, <1>4, <2>2, <2>3, <2>4 DEF RowOK
<1>7. \A d \in Code \ {c} : RowOK(p, d)'
  BY <1>3 DEF RowOK
<1>8. AccountOK(p)'
  <2>1. req[p].op # "createTunnel"
    BY DEF RowsInv, QuotaInv, TypeInv, Position, OwnedOps
  <2>2. QED
    BY <1>2, <1>4, <2>1 DEF AccountOK, Creating
<1>9. QED
  BY <1>2, <1>5, <1>6, <1>7, <1>8, RowsFrame DEF RowsOK

\* Ports that are left alone stay within their limit.
LEMMA UntouchedWith ==
    ASSUME RowsInv, NEW c \in Code
    PROVE  /\ PortsWith(c, Untouched) = PortsOf(c)
           /\ Cardinality(PortsWith(c, Untouched)) <= MaxPortsPerTunnel
  BY DEF PortsWith, PortsOf, Untouched, RowsInv, PortQuota

\* A handler that writes the row back with its ports untouched.
LEMMA WriteBackRows ==
    ASSUME RowsInv, QuotaInv', NEW p \in Proc, pc[p] = "write",
           NEW t \in Tunnel, Write(p, t, Untouched),
           t.exp < tunnel[req[p].code].exp =>
               req[p].op = "updateTunnel" /\ req[p].hours # Same
    PROVE  RowsInv'
<1>1. req[p].code \in Code
  BY RowAtWrite
<1>2. /\ PortsWith(req[p].code, Untouched) = PortsOf(req[p].code)
      /\ Cardinality(PortsWith(req[p].code, Untouched)) <= MaxPortsPerTunnel
  BY <1>1, UntouchedWith
<1>3. t # None /\ Untouched \in [Port -> Policy \cup {None, Same}]
  BY NoneIsNoRow, DraftRow
<1>4. QED
  BY <1>2, <1>3, WriteRows

\* A port is written: a new one while the plan has room, or one that exists.
LEMMA WritePortRows ==
    ASSUME RowsInv, QuotaInv', NEW p \in Proc, pc[p] = "write",
           req[p].port \in Port,
           NEW v \in Policy \cup {None, Same}, WritePort(p, v),
           \/ req[p].port \in PortsOf(req[p].code)
           \/ /\ req[p].op = "createPort"
              /\ Cardinality(PortsOf(req[p].code)) < MaxPortsPerTunnel
    PROVE  RowsInv'
<1> DEFINE c == req[p].code
           t == Refresh(tunnel[c], clock)
           x == [Untouched EXCEPT ![req[p].port] = v]
<1>1. c \in Code /\ tunnel[c] \in Tunnel /\ LockedRow(p) = tunnel[c]
  BY RowAtWrite
<1>2. t \in Tunnel /\ t # None /\ ~(t.exp < tunnel[c].exp)
  <2>1. t \in Tunnel /\ clock \in Nat
    BY <1>1, RefreshRow DEF RowsInv, QuotaInv, TypeInv, TypeOK
  <2>2. ~(t.exp < tunnel[c].exp)
    BY <1>1, <2>1, LimitAssumption DEF Refresh, Larger, Tunnel
  <2>3. QED
    BY <2>1, <2>2, NoneIsNoRow
<1>3. x \in [Port -> Policy \cup {None, Same}] /\ Write(p, t, x)
  BY <1>1, DraftRow DEF WritePort
<1>4. PortsWith(c, x) \subseteq PortsOf(c) \cup {req[p].port}
  BY DEF PortsWith, PortsOf, Untouched
<1>5. /\ PortsOf(c) \in SUBSET Port /\ Cardinality(PortsOf(c)) \in Nat
      /\ Cardinality(PortsOf(c)) <= MaxPortsPerTunnel
  <2>1. PortsOf(c) \in SUBSET Port
    BY DEF PortsOf
  <2>2. QED
    BY <1>1, <2>1, PortSets DEF RowsInv, PortQuota, PortsOf
<1> HIDE DEF t, x
<1>6. /\ Cardinality(PortsWith(c, x)) <= MaxPortsPerTunnel
      /\ \/ PortsWith(c, x) \subseteq PortsOf(c)
         \/ req[p].op = "createPort"
  <2>1. CASE req[p].port \in PortsOf(c)
    <3>1. PortsWith(c, x) \in SUBSET PortsOf(c)
      BY <1>4, <2>1
    <3>2. /\ Cardinality(PortsWith(c, x)) \in Nat
          /\ Cardinality(PortsWith(c, x)) <= Cardinality(PortsOf(c))
      BY <1>5, <3>1, PortSets
    <3>3. QED
      BY <1>5, <3>1, <3>2, PortLimit
  <2>2. CASE req[p].port \notin PortsOf(c)
    <3> DEFINE U == PortsOf(c) \cup {req[p].port}
    <3>1. /\ req[p].op = "createPort"
          /\ Cardinality(PortsOf(c)) < MaxPortsPerTunnel
      BY <2>2
    <3>2. Cardinality(U) = Cardinality(PortsOf(c)) + 1
      BY <1>5, <2>2, PortSets
    <3>3. U \in SUBSET Port /\ PortsWith(c, x) \in SUBSET U
      BY <1>4, <1>5
    <3>4. /\ Cardinality(PortsWith(c, x)) \in Nat /\ Cardinality(U) \in Nat
          /\ Cardinality(PortsWith(c, x)) <= Cardinality(U)
      BY <3>3, PortSets
    <3>5. QED
      BY <1>5, <3>1, <3>2, <3>4, PortLimit
  <2>3. QED
    BY <2>1, <2>2
<1>7. QED
  BY <1>2, <1>3, <1>6, WriteRows

\* What UpdateTunnel, DeleteTunnel and the operations on ports write.
LEMMA WritesRows ==
    ASSUME RowsInv, QuotaInv', NEW p \in Proc, Writes(p)
    PROVE  RowsInv'
<1> DEFINE c == req[p].code
           used == {x \in Port : LockedPorts(p)[x] # None}
<1>1. /\ pc[p] = "write" /\ req[p] \in Request /\ tunnel[c] \in Tunnel
      /\ LockedRow(p) = tunnel[c] /\ used = PortsOf(c)
  BY WritesAtWrite, RowAtWrite DEF LockedPorts, PortsOf
<1>2. CASE Rollback(p)
  BY <1>2, RollbackRows
<1>3. CASE Write(p, LockedRow(p), Untouched)
  <2>1. ~(tunnel[c].exp < tunnel[c].exp)
    BY <1>1 DEF Tunnel
  <2>2. QED
    BY <1>1, <1>3, <2>1, WriteBackRows
<1>4. CASE WriteTunnel(p)
  <2> DEFINE h == req[p].hours
             t == [LockedRow(p) EXCEPT !.hours = h, !.exp = at[p] + h]
  <2>1. CASE h # Same /\ ValidHours(h) /\ Write(p, t, Untouched)
    <3>1. h \in 1 .. MaxHours /\ at[p] + h \in Nat
      BY <2>1, LimitAssumption DEF ValidHours, RowsInv, QuotaInv, TypeInv, TypeOK
    <3>2. t \in Tunnel
      BY <1>1, <3>1 DEF Tunnel
    <3>3. req[p].op = "updateTunnel" /\ req[p].hours # Same
      BY <1>4, <2>1 DEF WriteTunnel, Writing
    <3> HIDE DEF t
    <3>4. QED
      BY <1>1, <2>1, <3>2, <3>3, WriteBackRows
  <2>2. QED
    BY <1>2, <1>3, <1>4, <2>1 DEF WriteTunnel
<1>5. CASE DeleteTunnelGraph(p)
  <2>1. /\ req[p].op = "deleteTunnel"
        /\ Write(p, Erased.tunnel, Erased.ports)
    BY <1>5 DEF DeleteTunnelGraph, Writing
  <2>2. /\ Erased.tunnel = None
        /\ Erased.ports \in [Port -> Policy \cup {None, Same}]
        /\ \A y \in Port : Erased.ports[y] = None
    BY DEF Erased
  <2>3. PortsWith(c, Erased.ports) = {}
    BY <2>2, NoneIsNoRow DEF PortsWith
  <2>4. Cardinality({}) = 0
    BY FS_EmptySet
  <2>5. QED
    BY <1>1, <2>1, <2>2, <2>3, <2>4, PortLimit, WriteRows
<1>6. CASE InsertPort(p) \/ UpdatePort(p) \/ DeletePort(p)
  <2>1. /\ req[p].op \in {"createPort", "updatePort", "deletePort"}
        /\ ~DeletePort(p) => req[p].op \in {"createPort", "updatePort"}
        /\ InsertPort(p) => req[p].op = "createPort"
    BY <1>6 DEF InsertPort, UpdatePort, DeletePort, Writing
  <2>2. /\ req[p].port \in Port
        /\ ~DeletePort(p) => req[p].policy \in Policy \cup {None, Same}
    BY <1>1, <2>1, RequestFields
  <2>3. ASSUME NEW v \in Policy \cup {None, Same}, WritePort(p, v),
               \/ req[p].port \in used
               \/ InsertPort(p) /\ Cardinality(used) < MaxPortsPerTunnel
        PROVE  RowsInv'
    BY <1>1, <2>1, <2>2, <2>3, WritePortRows
  <2>4. CASE InsertPort(p)
    <3>1. \/ Rollback(p)
          \/ WritePort(p, req[p].policy) /\ Cardinality(used) < MaxPortsPerTunnel
      BY <2>4 DEF InsertPort
    <3> HIDE DEF used
    <3>2. QED
      BY <1>2, <2>2, <2>3, <2>4, <3>1 DEF InsertPort, DeletePort, Writing
  <2>5. CASE UpdatePort(p)
    <3>1. \/ Rollback(p) \/ Write(p, LockedRow(p), Untouched)
          \/ WritePort(p, req[p].policy) /\ req[p].port \in used
      BY <2>2, <2>5 DEF UpdatePort
    <3> HIDE DEF used
    <3>2. QED
      BY <1>2, <1>3, <2>2, <2>3, <2>5, <3>1 DEF UpdatePort, DeletePort, Writing
  <2>6. CASE DeletePort(p)
    <3>1. Rollback(p) \/ (WritePort(p, None) /\ req[p].port \in used)
      BY <2>2, <2>6 DEF DeletePort
    <3> HIDE DEF used
    <3>2. QED
      BY <1>2, <2>3, <3>1
  <2>7. QED
    BY <1>6, <2>4, <2>5, <2>6
<1>7. QED
  BY <1>4, <1>5, <1>6 DEF Writes

-----------------------------------------------------------------------------
(* Settlement.                                                             *)

\* A settlement begins with metering rows, which are no part of the invariant.
LEMMA LockUnsettledMeteringRows ==
    ASSUME RowsInv, QuotaInv', NEW p \in Proc, LockUnsettledMetering(p)
    PROVE  RowsInv'
<1>1. PICK label \in {"commit", "tunnels"} : Goto(p, label)
  BY DEF LockUnsettledMetering
<1>2. /\ pc[p] = "lock" /\ req[p].op = "settle"
      /\ UNCHANGED <<clock, status, tunnel, ports, req, draft, accountLock>>
  BY DEF LockUnsettledMetering, shared
<1>3. pc'[p] = label
  BY <1>1 DEF Goto, RowsInv, QuotaInv, TypeInv, TypeOK
<1>4. AccountOK(p)' /\ ~HoldsRow(p)'
  BY <1>2, <1>3 DEF AccountOK, Creating, HoldsRow
<1>5. QED
  BY <1>1, <1>2, <1>3, <1>4, DraftsStay DEF PaidFor

\* A refresh only moves a deadline on, and only in its own region.
LEMMA RefreshSettledTunnelRows ==
    ASSUME RowsInv, QuotaInv', NEW p \in Proc, RefreshSettledTunnel(p)
    PROVE  RowsInv'
<1>1. PICK c \in Code, m \in batch[p] :
         /\ Publish(p, IF Found(p, c)
                       THEN [draft[p] EXCEPT ![c] = SettledTunnel(c, m.at)]
                       ELSE draft[p])
         /\ pc' = pc \/ Goto(p, "accounts")
  BY DEF RefreshSettledTunnel
<1>2. /\ pc[p] = "tunnels" /\ req[p].op = "settle"
      /\ UNCHANGED <<clock, status, tunnel, ports, req, accountLock>>
  BY DEF RefreshSettledTunnel, shared, RowsInv, QuotaInv, TypeInv, Position
<1>3. /\ pc'[p] \in {"tunnels", "accounts"}
      /\ \A q \in Proc \ {p} : pc'[q] = pc[q]
  BY <1>1, <1>2 DEF Goto, RowsInv, QuotaInv, TypeInv, TypeOK
<1>4. m \in Metering /\ draft \in [Proc -> [Code -> Draft \cup {None}]]
  BY DEF RowsInv, QuotaInv, TypeInv, TypeOK
<1>5. /\ \A q \in Proc \ {p} : draft'[q] = draft[q]
      /\ \A d \in Code \ {c} : draft'[p][d] = draft[p][d]
      /\ Found(p, c) => draft'[p][c] = SettledTunnel(c, m.at)
      /\ ~Found(p, c) => draft'[p][c] = draft[p][c]
  BY <1>1, <1>4 DEF Publish
<1>6. Others(p)
  BY <1>2, <1>3, <1>5 DEF Others, PaidFor
<1>7. AccountOK(p)' /\ ~HoldsRow(p)'
  BY <1>2, <1>3 DEF AccountOK, Creating, HoldsRow
<1>8. ASSUME NEW d \in Code, draft'[p][d] = draft[p][d]
      PROVE  RowOK(p, d)'
  <2>1. /\ RowOK(p, d) /\ TypeInv /\ TypeInv' /\ clock <= clock'
        /\ \A a \in Account : PaidFor(p, a) => PaidFor(p, a)'
        /\ pc'[p] # "lock" /\ (HoldsRow(p)' => HoldsRow(p))
    BY <1>2, <1>3, <1>7 DEF RowsInv, RowsOK, QuotaInv, TypeInv, TypeOK, PaidFor
  <2>2. QED
    BY <1>2, <1>8, <2>1, RowStays
<1>9. ASSUME Found(p, c)
      PROVE  RowOK(p, c)'
  <2> DEFINE t == Refresh(tunnel[c], m.at)
  <2>1. /\ tunnel[c] \in Tunnel /\ m.at \in Nat
        /\ RegionOf[tunnel[c].cluster] = req[p].region
    BY <1>4, <1>9 DEF Found, Metering, RowsInv, QuotaInv, TypeInv, TypeOK
  <2>2. t \in Tunnel /\ t # None /\ ~(t.exp < tunnel[c].exp)
    <3>1. t \in Tunnel
      BY <2>1, RefreshRow
    <3>2. ~(t.exp < tunnel[c].exp)
      BY <2>1, <3>1, LimitAssumption DEF Refresh, Larger, Tunnel
    <3>3. QED
      BY <3>1, <3>2, NoneIsNoRow
  <2>3. draft'[p][c].tunnel = t /\ draft'[p][c].ports = Untouched
    BY <1>5, <1>9 DEF SettledTunnel
  <2> HIDE DEF t
  <2>4. DeletionOK(p, c)' /\ DeadlineOK(p, c)'
    BY <1>2, <2>2, <2>3 DEF DeletionOK, DeadlineOK
  <2>5. AsRead(p, c)'
    BY <1>7 DEF AsRead
  <2>6. PortsOK(p, c)'
    BY <1>2, <2>3, UntouchedPorts
  <2>7. QED
    BY <1>2, <1>3, <2>1, <2>4, <2>5, <2>6 DEF RowOK
<1>10. \A d \in Code : RowOK(p, d)'
  BY <1>5, <1>8, <1>9
<1>11. QED
  BY <1>2, <1>6, <1>7, <1>10, RowsFrame DEF RowsOK

\* The account's lock is taken after the rows and changes none of them.
LEMMA LockSettledAccountRows ==
    ASSUME RowsInv, QuotaInv', NEW p \in Proc, LockSettledAccount(p)
    PROVE  RowsInv'
<1>1. PICK a \in Account :
         /\ accountLock[a] = None
         /\ accountLock' = [accountLock EXCEPT ![a] = p]
         /\ pc' = pc \/ Goto(p, "commit")
  BY DEF LockSettledAccount
<1>2. /\ pc[p] = "accounts" /\ req[p].op = "settle"
      /\ UNCHANGED <<clock, status, tunnel, ports, req, draft>>
  BY DEF LockSettledAccount, shared, RowsInv, QuotaInv, TypeInv, Position
<1>3. pc'[p] \in {"accounts", "commit"}
  BY <1>1, <1>2 DEF Goto, RowsInv, QuotaInv, TypeInv, TypeOK
<1>4. AccountOK(p)' /\ ~HoldsRow(p)'
  BY <1>2, <1>3 DEF AccountOK, Creating, HoldsRow
<1>5. \A q \in Proc, b \in Account : PaidFor(q, b) => PaidFor(q, b)'
  BY <1>1, <1>2, NoneIsNoRow DEF PaidFor, RowsInv, QuotaInv, TypeInv, TypeOK
<1>6. QED
  BY <1>1, <1>2, <1>3, <1>4, <1>5, DraftsStay

-----------------------------------------------------------------------------
(* The steps that publish rows, or leave them to the environment.          *)

\* What a commit makes of a row.
LEMMA CommittedRow ==
    ASSUME RowsInv, NEW p \in Proc, Commit(p), NEW c \in Code
    PROVE  /\ draft[p][c] = None =>
                 tunnel'[c] = tunnel[c] /\ ports'[c] = ports[c]
           /\ draft[p][c] # None =>
                 /\ tunnel'[c] = draft[p][c].tunnel
                 /\ PortsOf(c)' = PortsAfter(p, c)
                 /\ tunnel[c] # None => req[p].region = RegionOf[tunnel[c].cluster]
                 /\ DeletionOK(p, c) /\ DeadlineOK(p, c) /\ PortsOK(p, c)
<1>1. /\ tunnel'[c] = IF draft[p][c] = None THEN tunnel[c]
                      ELSE draft[p][c].tunnel
      /\ ports'[c] = [x \in Port |->
                        IF draft[p][c] = None \/ draft[p][c].ports[x] = Same
                        THEN ports[c][x] ELSE draft[p][c].ports[x]]
  BY DEF Commit
<1>2. ports[c] \in [Port -> Policy \cup {None}]
  BY DEF RowsInv, QuotaInv, TypeInv, TypeOK
<1>3. draft[p][c] = None => ports'[c] = ports[c]
  BY <1>1, <1>2
<1>4. draft[p][c] # None => PortsOf(c)' = PortsAfter(p, c)
  BY <1>1 DEF PortsOf, PortsAfter
<1>5. RowOK(p, c)
  BY DEF RowsInv, RowsOK
<1>6. QED
  BY <1>1, <1>3, <1>4, <1>5 DEF RowOK

\* A commit publishes drafts that are in order and gives up its locks.
LEMMA CommitRows ==
    ASSUME RowsInv, QuotaInv', NEW p \in Proc, Commit(p)
    PROVE  RowsInv'
<1>1. Release(p) /\ UNCHANGED <<clock, status>>
  BY DEF Commit
<1>2. /\ Others(p) /\ pc'[p] = "idle"
      /\ \A c \in Code : draft'[p][c] = None
  BY <1>1, ReleaseOthers DEF RowsInv
<1>3. ASSUME NEW q \in Proc
      PROVE  RowsOK(q)'
  <2>1. CASE q = p
    BY <1>2, <2>1, IdleOK
  <2>2. CASE q # p
    <3>1. \A c \in Code : draft[q][c] # None =>
              tunnel'[c] = tunnel[c] /\ ports'[c] = ports[c]
      BY <2>2, CommittedRow DEF RowsInv, QuotaInv, RowLocks
    <3>2. clock <= clock'
      BY <1>1 DEF RowsInv, QuotaInv, TypeInv, TypeOK
    <3>3. QED
      BY <1>2, <2>2, <3>1, <3>2, StillOK DEF RowsInv, Others
  <2>3. QED
    BY <2>1, <2>2
<1>4. NoOrphanPorts'
  <2>1. ASSUME NEW c \in Code, tunnel'[c] = None, NEW x \in Port
        PROVE  ports'[c][x] = None
    <3>1. CASE draft[p][c] = None
      BY <2>1, <3>1, CommittedRow DEF RowsInv, NoOrphanPorts
    <3>2. CASE draft[p][c] # None
      <4>1. draft[p][c].ports[x] = None
        BY <2>1, <3>2, CommittedRow DEF DeletionOK
      <4>2. QED
        BY <3>2, <4>1, NoneIsNoRow DEF Commit
    <3>3. QED
      BY <3>1, <3>2
  <2>2. QED
    BY <2>1 DEF NoOrphanPorts
<1>5. PortQuota'
  <2>1. ASSUME NEW c \in Code
        PROVE  Cardinality(PortsOf(c)') <= MaxPortsPerTunnel
    <3>1. CASE draft[p][c] = None
      <4>1. PortsOf(c)' = PortsOf(c)
        BY <3>1, CommittedRow DEF PortsOf
      <4>2. QED
        BY <4>1 DEF RowsInv, PortQuota, PortsOf
    <3>2. CASE draft[p][c] # None
      BY <3>2, CommittedRow DEF PortsOK
    <3>3. QED
      BY <3>1, <3>2
  <2>2. QED
    BY <2>1 DEF PortQuota, PortsOf
<1>6. QED
  BY <1>3, <1>4, <1>5 DEF RowsInv

\* Time passes for rows to be deleted by age; a status changes only while
\* nobody holds its account.
LEMMA EnvironmentRows ==
    ASSUME RowsInv, QuotaInv', Environment \/ UNCHANGED vars
    PROVE  RowsInv'
<1>1. /\ UNCHANGED <<tunnel, ports, pc, req, draft, accountLock>>
      /\ clock' = clock \/ clock' = clock + 1
      /\ status' = status \/ \E a \in Account : SetStatus(a)
  BY DEF Environment, Tick, Report, SetStatus, vars
<1>2. clock <= clock'
  BY <1>1 DEF RowsInv, QuotaInv, TypeInv, TypeOK
<1>3. \A q \in Proc, a \in Account : PaidFor(q, a) => PaidFor(q, a)'
  BY <1>1, NoneIsNoRow DEF SetStatus, PaidFor, RowsInv, QuotaInv, TypeInv, TypeOK
<1>4. \A q \in Proc : RowsOK(q)'
  BY <1>1, <1>2, <1>3, StillOK DEF RowsInv
<1>5. NoOrphanPorts' /\ PortQuota'
  BY <1>1 DEF RowsInv, NoOrphanPorts, PortQuota
<1>6. QED
  BY <1>4, <1>5 DEF RowsInv

\* There are no tunnels and no ports at first.
LEMMA RowsInit == Init => RowsInv
<1> SUFFICES ASSUME Init
             PROVE  RowsInv
  OBVIOUS
<1>1. QuotaInv
  BY QuotaInit
<1>2. \A p \in Proc : RowsOK(p)
  BY DEF Init, RowsOK, RowOK, AccountOK, Creating
<1>3. NoOrphanPorts
  BY DEF Init, NoOrphanPorts
<1>4. PortQuota
  <2>1. ASSUME NEW c \in Code
        PROVE  Cardinality(PortsOf(c)) <= MaxPortsPerTunnel
    <3>1. PortsOf(c) = {}
      BY <2>1 DEF Init, PortsOf
    <3>2. Cardinality({}) = 0
      BY FS_EmptySet
    <3>3. QED
      BY <3>1, <3>2, PortLimit
  <2>2. QED
    BY <2>1 DEF PortQuota, PortsOf
<1>5. QED
  BY <1>1, <1>2, <1>3, <1>4 DEF RowsInv

\* Every step keeps the invariant.
LEMMA RowsStep == RowsInv /\ [Next]_vars => RowsInv'
<1> SUFFICES ASSUME RowsInv, [Next]_vars
             PROVE  RowsInv'
  OBVIOUS
<1>1. QuotaInv'
  BY QuotaStep DEF RowsInv
<1>2. ASSUME NEW p \in Proc, Accept(p)
      PROVE  RowsInv'
  BY <1>1, <1>2, StartRows DEF Accept
<1>3. ASSUME NEW p \in Proc, Lock(p)
      PROVE  RowsInv'
  BY <1>1, <1>3, LockTunnelRows, LockAccountRows, LockForDeletionRows,
     LockUnsettledMeteringRows, RefreshSettledTunnelRows, LockSettledAccountRows
     DEF Lock
<1>4. ASSUME NEW p \in Proc, Change(p)
      PROVE  RowsInv'
  BY <1>1, <1>4, CountTunnelsRows, WritesRows, InsertTunnelRows DEF Change, Writes
<1>5. ASSUME NEW p \in Proc, Commit(p) \/ AbortWait(p) \/ Fail(p)
      PROVE  RowsInv'
  BY <1>1, <1>5, CommitRows, RollbackRows, ReleaseRows DEF AbortWait, Fail
<1>6. CASE Environment \/ UNCHANGED vars
  BY <1>1, <1>6, EnvironmentRows
<1>7. QED
  BY <1>2, <1>3, <1>4, <1>5, <1>6 DEF Next

\* Every draft that may be committed was made from the committed row it locks,
\* by the rules of its operation, in every reachable state.
THEOREM RowsCorrect == Spec => []RowsInv
  BY RowsInit, RowsStep, PTL DEF Spec

-----------------------------------------------------------------------------
(* The properties of the states.                                           *)

\* A tunnel never has more ports than its plan allows: the row lock that
\* CreatePort takes keeps its count true until it commits.
THEOREM PortCorrect == Spec => []PortQuota
<1>1. RowsInv => PortQuota
  BY DEF RowsInv
<1>2. QED
  BY <1>1, RowsCorrect, PTL

\* No port row outlives its tunnel, so a code that is given out again starts
\* without ports, whatever raced with the deletion.
THEOREM OrphanCorrect == Spec => []NoOrphanPorts
<1>1. RowsInv => NoOrphanPorts
  BY DEF RowsInv
<1>2. QED
  BY <1>1, RowsCorrect, PTL

-----------------------------------------------------------------------------
(* The properties of the steps.  Each is what RowsInv says of the draft    *)
(* that a commit makes the new row of.                                     *)

\* No step but a commit changes a tunnel or a port.
LEMMA OnlyCommits ==
    ASSUME [Next]_vars, ~ \E p \in Proc : Commit(p)
    PROVE  UNCHANGED <<tunnel, ports>>
<1>1. ASSUME NEW p \in Proc, Accept(p)
      PROVE  UNCHANGED <<tunnel, ports>>
  BY <1>1 DEF Accept, BeginCreateTunnel, Begin, Start
<1>2. ASSUME NEW p \in Proc, Rollback(p)
      PROVE  UNCHANGED <<tunnel, ports>>
  BY <1>2 DEF Rollback, shared
<1>3. ASSUME NEW p \in Proc, Lock(p)
      PROVE  UNCHANGED <<tunnel, ports>>
  BY <1>3 DEF Lock, LockTunnel, LockAccount, LockNamespaceTunnels,
     LockAgedTunnels, LockUnsettledMetering, RefreshSettledTunnel,
     LockSettledAccount, Rollback, shared
<1>4. ASSUME NEW p \in Proc, Writes(p)
      PROVE  UNCHANGED <<tunnel, ports>>
  BY <1>2, <1>4 DEF Writes, WriteTunnel, DeleteTunnelGraph, InsertPort, UpdatePort,
     DeletePort, WritePort, Write, shared
<1>5. ASSUME NEW p \in Proc, Change(p)
      PROVE  UNCHANGED <<tunnel, ports>>
  BY <1>2, <1>4, <1>5 DEF Change, Writes, CountTunnels, InsertTunnel, shared
<1>6. ASSUME NEW p \in Proc, AbortWait(p) \/ Fail(p)
      PROVE  UNCHANGED <<tunnel, ports>>
  BY <1>2, <1>6 DEF AbortWait, Fail
<1>7. CASE Environment \/ UNCHANGED vars
  BY <1>7 DEF Environment, Tick, Report, SetStatus, vars
<1>8. QED
  BY <1>1, <1>3, <1>5, <1>6, <1>7 DEF Next

\* A row that changes was in the draft of the transaction that commits.
LEMMA ChangedRow ==
    ASSUME RowsInv, [Next]_vars, NEW c \in Code,
           tunnel'[c] # tunnel[c] \/ ports'[c] # ports[c]
    PROVE  \E p \in Proc : /\ Commit(p) /\ Commits(p) /\ draft[p][c] # None
<1>1. PICK p \in Proc : Commit(p)
  BY OnlyCommits
<1>2. draft[p][c] # None
  BY <1>1, CommittedRow
<1>3. Commits(p)
  BY <1>1 DEF Commit, Commits, Release, Goto, RowsInv, QuotaInv, TypeInv, TypeOK
<1>4. QED
  BY <1>1, <1>2, <1>3

\* A tunnel disappears only by its own namespace's request in its own region,
\* or by cleanup after the retention time, judged at the commit.
THEOREM DeletedCorrect == Spec => DeletedByOwnerOrAge
<1> DEFINE Removal(c) == tunnel[c] # None /\ tunnel'[c] = None =>
        \E p \in Proc :
           /\ Commits(p)
           /\ req[p].region = RegionOf[tunnel[c].cluster]
           /\ \/ /\ req[p].op \in {"deleteTunnel", "deleteTunnels"}
                 /\ req[p].ns = tunnel[c].ns
              \/ /\ req[p].op = "cleanup"
                 /\ tunnel[c].exp + Retention <= clock
<1>1. ASSUME RowsInv, [Next]_vars, NEW c \in Code
      PROVE  Removal(c)
  <2> SUFFICES ASSUME tunnel[c] # None, tunnel'[c] = None
               PROVE  Removal(c)
    OBVIOUS
  <2>1. PICK p \in Proc : Commit(p) /\ Commits(p) /\ draft[p][c] # None
    BY <1>1, ChangedRow
  <2>2. /\ draft[p][c].tunnel = None /\ DeletionOK(p, c)
        /\ req[p].region = RegionOf[tunnel[c].cluster]
    BY <1>1, <2>1, CommittedRow
  <2>3. QED
    BY <2>1, <2>2 DEF DeletionOK
<1>2. RowsInv /\ [Next]_vars => [\A c \in Code : Removal(c)]_vars
  BY <1>1
<1>3. QED
  BY <1>2, RowsCorrect, PTL DEF Spec, DeletedByOwnerOrAge

\* No transaction writes back a deadline older than the one committed, unless
\* the tunnel's owner asked for a new expiration.
THEOREM DeadlineCorrect == Spec => DeadlineNotLost
<1> DEFINE Forward(c) ==
        tunnel[c] # None /\ tunnel'[c] # None /\ tunnel'[c].exp < tunnel[c].exp =>
           \E p \in Proc : /\ Commits(p)
                           /\ req[p].op = "updateTunnel" /\ req[p].hours # Same
                           /\ req[p].ns = tunnel[c].ns
<1>1. ASSUME RowsInv, [Next]_vars, NEW c \in Code
      PROVE  Forward(c)
  <2> SUFFICES ASSUME tunnel[c] # None, tunnel'[c] # None,
                      tunnel'[c].exp < tunnel[c].exp
               PROVE  Forward(c)
    OBVIOUS
  <2>1. tunnel[c].exp \in Nat
    BY <1>1 DEF RowsInv, QuotaInv, TypeInv, TypeOK, Tunnel
  <2>2. tunnel'[c] # tunnel[c]
    BY <2>1
  <2>3. PICK p \in Proc : Commit(p) /\ Commits(p) /\ draft[p][c] # None
    BY <1>1, <2>2, ChangedRow
  <2>4. draft[p][c].tunnel = tunnel'[c] /\ DeadlineOK(p, c)
    BY <1>1, <2>3, CommittedRow
  <2>5. QED
    BY <2>3, <2>4 DEF DeadlineOK
<1>2. RowsInv /\ [Next]_vars => [\A c \in Code : Forward(c)]_vars
  BY <1>1
<1>3. QED
  BY <1>2, RowsCorrect, PTL DEF Spec, DeadlineNotLost

\* No tunnel is added to an account, and no port to its tunnels, by a commit
\* at which the account is not active.
THEOREM DisabledCorrect == Spec => NoDisabledGrowth
<1> DEFINE Growth(c) ==
        /\ tunnel[c] = None /\ tunnel'[c] # None =>
              status[tunnel'[c].acct] = "active"
        /\ \A x \in Port : ports[c][x] = None /\ ports'[c][x] # None =>
              status[tunnel[c].acct] = "active"
<1>1. ASSUME RowsInv, [Next]_vars, NEW c \in Code
      PROVE  Growth(c)
  <2>1. ASSUME tunnel[c] = None, tunnel'[c] # None
        PROVE  status[tunnel'[c].acct] = "active"
    <3>1. PICK p \in Proc : Commit(p) /\ Commits(p) /\ draft[p][c] # None
      BY <1>1, <2>1, ChangedRow
    <3>2. draft[p][c].tunnel = tunnel'[c]
      BY <1>1, <3>1, CommittedRow
    <3>3. /\ req[p].op = "createTunnel" /\ pc[p] = "commit"
          /\ draft[p][c].tunnel.acct = req[p].acct
      BY <1>1, <2>1, <3>1 DEF RowsInv, QuotaInv, DraftOK
    <3>4. PaidFor(p, req[p].acct)
      BY <1>1, <3>3 DEF RowsInv, RowsOK, AccountOK, Creating
    <3>5. QED
      BY <3>2, <3>3, <3>4 DEF PaidFor
  <2>2. ASSUME NEW x \in Port, ports[c][x] = None, ports'[c][x] # None
        PROVE  status[tunnel[c].acct] = "active"
    <3>1. PICK p \in Proc : Commit(p) /\ Commits(p) /\ draft[p][c] # None
      BY <1>1, <2>2, ChangedRow
    <3>2. PortsOf(c)' = PortsAfter(p, c) /\ PortsOK(p, c)
      BY <1>1, <3>1, CommittedRow
    <3>3. x \notin PortsOf(c) /\ x \in PortsOf(c)'
      BY <2>2 DEF PortsOf
    <3>4. QED
      BY <3>2, <3>3 DEF PortsOK, PaidFor
  <2>3. QED
    BY <2>1, <2>2
<1>2. RowsInv /\ [Next]_vars => [\A c \in Code : Growth(c)]_vars
  BY <1>1
<1>3. QED
  BY <1>2, RowsCorrect, PTL DEF Spec, NoDisabledGrowth

\* A transaction of one region never changes a tunnel of another, even when a
\* settlement's batch names a code that has moved there since.
THEOREM RegionCorrect == Spec => RegionIsolation
<1> DEFINE Home(c) == tunnel[c] # None /\ tunnel'[c] # tunnel[c] =>
        \E p \in Proc : /\ Commits(p)
                        /\ req[p].region = RegionOf[tunnel[c].cluster]
<1>1. ASSUME RowsInv, [Next]_vars, NEW c \in Code
      PROVE  Home(c)
  <2> SUFFICES ASSUME tunnel[c] # None, tunnel'[c] # tunnel[c]
               PROVE  Home(c)
    OBVIOUS
  <2>1. PICK p \in Proc : Commit(p) /\ Commits(p) /\ draft[p][c] # None
    BY <1>1, ChangedRow
  <2>2. QED
    BY <1>1, <2>1, CommittedRow
<1>2. RowsInv /\ [Next]_vars => [\A c \in Code : Home(c)]_vars
  BY <1>1
<1>3. QED
  BY <1>2, RowsCorrect, PTL DEF Spec, RegionIsolation
=============================================================================
