--------------------------- MODULE TunnelsProofs ---------------------------
(***************************************************************************)
(* Proofs about Tunnels, for any sets of codes, accounts, processes and    *)
(* requests and any limits.                                                *)
(***************************************************************************)
EXTENDS Tunnels, TLAPS, FiniteSetTheorems

-----------------------------------------------------------------------------
(* Requests and rows.                                                      *)

Ops == OwnedOps \cup {"createTunnel", "deleteTunnels", "cleanup", "settle"}

\* A request has the fields its operation reads.
LEMMA RequestFields ==
    ASSUME NEW r \in Request
    PROVE  /\ r.op \in Ops
           /\ r.op \in OwnedOps => r.code \in Code
           /\ r.op = "createTunnel" =>
                 /\ r.ns \in Namespace /\ r.acct \in Account
                 /\ r.cluster \in Cluster /\ r.hours \in Hours
           /\ r.op = "updateTunnel" => r.hours \in Hours \cup {Same}
           /\ r.op \in {"createPort", "updatePort", "deletePort"} => r.port \in Port
           /\ r.op \in {"createPort", "updatePort"} => r.policy \in Policy \cup {Same}
  BY DEF Request, Ops, OwnedOps

\* Refreshing a deadline leaves the rest of a row alone.
LEMMA RefreshRow ==
    ASSUME NEW t \in Tunnel, NEW n \in Nat
    PROVE  /\ Refresh(t, n) \in Tunnel
           /\ Refresh(t, n).acct = t.acct
  BY LimitAssumption DEF Refresh, Tunnel, Larger

\* None and Same are no rows, requests, processes or policies.
LEMMA NoneIsNoRow ==
    /\ None \notin Tunnel /\ None \notin Draft /\ None \notin Request
    /\ None \notin Proc /\ None \notin Policy
    /\ Same # None /\ Same \notin Policy
  BY NoneAssumption

\* What the versions of a row in a draft are made of.
LEMMA DraftRow ==
    /\ Untouched \in [Port -> Policy \cup {None, Same}]
    /\ Erased \in Draft /\ Erased.tunnel = None
    /\ \A t \in Tunnel \cup {None}, x \in [Port -> Policy \cup {None, Same}] :
          [tunnel |-> t, ports |-> x] \in Draft
    /\ \A d \in Draft : /\ d.tunnel \in Tunnel \cup {None}
                        /\ d.ports \in [Port -> Policy \cup {None, Same}]
  BY DEF Untouched, Erased, Draft

-----------------------------------------------------------------------------
(* Type correctness.  A handler writes back the row it locked, so the      *)
(* types rest on what each position of the program says of its request and *)
(* of the rows it holds.                                                   *)

\* The request a process runs at each of its statements.
Position ==
    \A p \in Proc :
        /\ pc[p] # "idle" => req[p] \in Request
        /\ pc[p] = "lock" => req[p].op # "createTunnel"
        /\ pc[p] = "account" => req[p].op \in {"createTunnel", "createPort"}
        /\ pc[p] \in {"count", "insert"} => req[p].op = "createTunnel"
        /\ pc[p] = "write" => req[p].op \in OwnedOps
        /\ pc[p] \in {"tunnels", "accounts"} => req[p].op = "settle"
        /\ pc[p] # "idle" /\ req[p].op = "createTunnel" =>
              ValidHours(req[p].hours)

\* A handler past its row lock, with its row still to write.
HoldsRow(p) == pc[p] = "write" \/ (pc[p] = "account" /\ req[p].op = "createPort")

RowHeld ==
    \A p \in Proc : HoldsRow(p) =>
        /\ req[p].code \in Code
        /\ draft[p][req[p].code] # None
        /\ draft[p][req[p].code].tunnel \in Tunnel

TypeInv == TypeOK /\ Position /\ RowHeld

\* The initial state is well-typed.
LEMMA TypeInit == Init => TypeInv
  BY NoneIsNoRow DEF Init, TypeInv, TypeOK, Position, RowHeld, HoldsRow, PC

\* Ending a transaction keeps the types of what it does not publish.
LEMMA ReleaseType ==
    ASSUME TypeInv, NEW p \in Proc, Release(p),
           clock' \in Nat, failures' \in Nat, UNCHANGED status,
           tunnel' \in [Code -> Tunnel \cup {None}],
           ports' \in [Code -> [Port -> Policy \cup {None}]],
           metering' \in SUBSET Metering, revived' \in SUBSET Code
    PROVE  TypeInv'
<1>1. TypeOK'
  BY DEF TypeInv, TypeOK, Release, Goto, PC
<1>2. Position' /\ RowHeld'
  BY DEF TypeInv, TypeOK, Position, RowHeld, HoldsRow, Release, Goto
<1>3. QED
  BY <1>1, <1>2 DEF TypeInv

\* A rollback publishes nothing.
LEMMA RollbackType ==
    ASSUME TypeInv, NEW p \in Proc, Rollback(p)
    PROVE  TypeInv'
  BY ReleaseType DEF Rollback, shared, TypeInv, TypeOK

\* Setting one process's draft of one row to a well-typed version.
LEMMA PublishRow ==
    ASSUME TypeOK, NEW p \in Proc, NEW c \in Code, NEW t \in Tunnel \cup {None},
           NEW x \in [Port -> Policy \cup {None, Same}],
           Publish(p, [draft[p] EXCEPT ![c] = [tunnel |-> t, ports |-> x]])
    PROVE  /\ draft' \in [Proc -> [Code -> Draft \cup {None}]]
           /\ \A q \in Proc \ {p} : draft'[q] = draft[q]
           /\ draft'[p][c] = [tunnel |-> t, ports |-> x]
           /\ \A d \in Code \ {c} : draft'[p][d] = draft[p][d]
  BY DraftRow DEF TypeOK, Publish

\* Marking rows as deleted in one process's draft.
LEMMA PublishErased ==
    ASSUME TypeOK, NEW p \in Proc, NEW S,
           Publish(p, [c \in Code |-> IF c \in S THEN Erased ELSE None])
    PROVE  /\ draft' \in [Proc -> [Code -> Draft \cup {None}]]
           /\ \A q \in Proc \ {p} : draft'[q] = draft[q]
           /\ \A c \in Code : draft'[p][c] = IF c \in S THEN Erased ELSE None
  BY DraftRow DEF TypeOK, Publish

\* Every step keeps the types and positions; first, that a request begins.
LEMMA StartType ==
    ASSUME TypeInv, NEW p \in Proc, NEW r \in Work[p],
           BeginCreateTunnel(p, r) \/ Begin(p, r)
    PROVE  TypeInv'
<1>1. r \in Request
  BY WorkAssumption
<1>2. /\ r.op \in Ops
      /\ r.op = "createTunnel" => r.acct \in Account
  BY <1>1, RequestFields
<1>3. TypeOK'
  <2>1. status' \in [Account -> {"absent", "active", "disabled"}]
    <3>1. CASE BeginCreateTunnel(p, r)
      <4> DEFINE s == IF status[r.acct] = "absent" THEN "active" ELSE status[r.acct]
      <4>1. r.acct \in Account /\ status' = [status EXCEPT ![r.acct] = s]
        BY <1>2, <3>1 DEF BeginCreateTunnel
      <4>2. s \in {"absent", "active", "disabled"}
        BY <4>1 DEF TypeInv, TypeOK
      <4> HIDE DEF s
      <4>3. QED
        BY <4>1, <4>2 DEF TypeInv, TypeOK
    <3>2. CASE Begin(p, r)
      BY <3>2 DEF TypeInv, TypeOK, Begin
    <3>3. QED
      BY <3>1, <3>2
  <2>2. Start(p, r, "account") \/ Start(p, r, "lock")
    BY DEF BeginCreateTunnel, Begin
  <2>3. at' \in [Proc -> Nat]
    <3> DEFINE n == IF r.op \in ReadsClockFirst THEN clock ELSE 0
    <3>1. at' = [at EXCEPT ![p] = n] /\ n \in Nat
      BY <2>2 DEF Start, TypeInv, TypeOK
    <3> HIDE DEF n
    <3>2. QED
      BY <3>1 DEF TypeInv, TypeOK
  <2>4. pc' \in [Proc -> PC] /\ req' \in [Proc -> Request \cup {None}]
    <3>1. /\ Goto(p, "account") \/ Goto(p, "lock")
          /\ req' = [req EXCEPT ![p] = r]
      BY <2>2 DEF Start
    <3>2. QED
      BY <1>1, <3>1 DEF TypeInv, TypeOK, Goto, PC
  <2>5. QED
    BY <2>1, <2>2, <2>3, <2>4 DEF TypeInv, TypeOK, Start
<1>4. Position'
  BY <1>1, <1>2 DEF TypeInv, TypeOK, Position, BeginCreateTunnel, Begin, Start, Goto
<1>5. RowHeld'
  BY <1>1, <1>2 DEF TypeInv, TypeOK, RowHeld, HoldsRow, BeginCreateTunnel, Begin,
                    Start, Goto
<1>6. QED
  BY <1>3, <1>4, <1>5 DEF TypeInv

\* A handler that has found its row has a version of it.
LEMMA LockTunnelType ==
    ASSUME TypeInv, NEW p \in Proc, LockTunnel(p)
    PROVE  TypeInv'
<1> DEFINE c == req[p].code
<1>1. /\ req[p] \in Request /\ req[p].op \in OwnedOps /\ pc[p] = "lock"
  BY DEF LockTunnel, TypeInv, Position
<1>2. c \in Code
  BY <1>1, RequestFields
<1>3. CASE Rollback(p)
  BY <1>3, RollbackType
<1>4. CASE ~Rollback(p)
  <2>1. /\ Publish(p, [draft[p] EXCEPT ![c] = [tunnel |-> tunnel[c],
                                               ports |-> Untouched]])
        /\ Goto(p, IF req[p].op = "createPort" THEN "account" ELSE "write")
        /\ UNCHANGED <<shared, req, at, attempt, accountLock, batch, left>>
        /\ tunnel[c] # None
    BY <1>4 DEF LockTunnel, Owned, Found
  <2>2. tunnel[c] \in Tunnel
    BY <1>2, <2>1 DEF TypeInv, TypeOK
  <2> DEFINE D == [tunnel |-> tunnel[c], ports |-> Untouched]
  <2>3. D \in Draft /\ D # None
    BY <2>2, DraftRow, NoneIsNoRow
  <2>4. /\ draft' \in [Proc -> [Code -> Draft \cup {None}]]
        /\ \A q \in Proc \ {p} : draft'[q] = draft[q]
        /\ draft'[p][c] = D
    BY <1>2, <2>1, <2>2, DraftRow, PublishRow DEF TypeInv
  <2>5. TypeOK'
    BY <2>1, <2>4 DEF TypeInv, TypeOK, Goto, shared, PC
  <2>6. Position'
    BY <1>1, <2>1 DEF TypeInv, TypeOK, Position, Goto
  <2>7. RowHeld'
    BY <1>2, <2>1, <2>2, <2>3, <2>4 DEF TypeInv, TypeOK, RowHeld, HoldsRow, Goto
  <2>8. QED
    BY <2>5, <2>6, <2>7 DEF TypeInv
<1>5. QED
  BY <1>3, <1>4

\* What an account's lock or a step inside the handler changes besides drafts.
LEMMA LockAccountType ==
    ASSUME TypeInv, NEW p \in Proc, LockAccount(p)
    PROVE  TypeInv'
<1>1. req[p] \in Request /\ req[p].op \in {"createTunnel", "createPort"}
  BY DEF LockAccount, TypeInv, Position
<1>2. CASE Rollback(p)
  BY <1>2, RollbackType
<1>3. CASE ~Rollback(p)
  <2>1. /\ pc[p] = "account"
        /\ Goto(p, IF req[p].op = "createTunnel" THEN "count" ELSE "write")
        /\ UNCHANGED <<shared, req, at, attempt, draft, batch, left>>
        /\ accountLock' = [accountLock EXCEPT ![AccountNeeded(p)] = p]
    BY <1>3 DEF LockAccount
  <2>2. TypeOK'
    BY <2>1 DEF TypeInv, TypeOK, Goto, shared, PC
  <2>3. Position'
    BY <1>1, <2>1 DEF TypeInv, TypeOK, Position, Goto, OwnedOps
  <2>4. RowHeld'
    BY <1>1, <2>1 DEF TypeInv, TypeOK, RowHeld, HoldsRow, Goto
  <2>5. QED
    BY <2>2, <2>3, <2>4 DEF TypeInv
<1>4. QED
  BY <1>2, <1>3

\* The statements that lock a set of tunnels to delete them.
LEMMA LockForDeletionType ==
    ASSUME TypeInv, NEW p \in Proc,
           LockNamespaceTunnels(p) \/ LockAgedTunnels(p)
    PROVE  TypeInv'
<1>1. PICK S : Publish(p, [c \in Code |-> IF c \in S THEN Erased ELSE None])
  BY DEF LockNamespaceTunnels, LockAgedTunnels
<1>2. /\ pc[p] = "lock" /\ Goto(p, "commit")
      /\ UNCHANGED <<shared, req, at, attempt, accountLock, batch, left>>
  BY DEF LockNamespaceTunnels, LockAgedTunnels
<1>3. /\ draft' \in [Proc -> [Code -> Draft \cup {None}]]
      /\ \A q \in Proc \ {p} : draft'[q] = draft[q]
  BY <1>1, PublishErased DEF TypeInv
<1>4. TypeOK'
  BY <1>2, <1>3 DEF TypeInv, TypeOK, Goto, shared, PC
<1>5. Position' /\ RowHeld'
  BY <1>2, <1>3 DEF TypeInv, TypeOK, Position, RowHeld, HoldsRow, Goto
<1>6. QED
  BY <1>4, <1>5 DEF TypeInv

\* The count changes nothing but the statement.
LEMMA CountTunnelsType ==
    ASSUME TypeInv, NEW p \in Proc, CountTunnels(p)
    PROVE  TypeInv'
<1>1. CASE Rollback(p)
  BY <1>1, RollbackType
<1>2. CASE ~Rollback(p)
  <2>1. /\ pc[p] = "count" /\ Goto(p, "insert")
        /\ UNCHANGED <<shared, req, at, attempt, draft, accountLock, batch, left>>
    BY <1>2 DEF CountTunnels
  <2>2. TypeOK'
    BY <2>1 DEF TypeInv, TypeOK, Goto, shared, PC
  <2>3. Position' /\ RowHeld'
    BY <2>1 DEF TypeInv, TypeOK, Position, RowHeld, HoldsRow, Goto
  <2>4. QED
    BY <2>2, <2>3 DEF TypeInv
<1>3. QED
  BY <1>1, <1>2

\* A CreateTunnel past its checks carries an expiration that was validated.
LEMMA InsertTunnelType ==
    ASSUME TypeInv, NEW p \in Proc, NEW c \in Code, InsertTunnel(p, c)
    PROVE  TypeInv'
<1>1. req[p] \in Request /\ req[p].op = "createTunnel" /\ pc[p] = "insert"
  BY DEF InsertTunnel, TypeInv, Position
<1>2. NewTunnel(p) \in Tunnel
  BY <1>1, RequestFields, LimitAssumption
     DEF Position, NewTunnel, Tunnel, TypeInv, TypeOK, ValidHours
<1>3. CASE Rollback(p)
  BY <1>3, RollbackType
<1>4. CASE UNCHANGED <<shared, pc, req, at, draft, accountLock, batch, left>>
             /\ attempt' = [attempt EXCEPT ![p] = @ + 1]
  BY <1>4 DEF TypeInv, TypeOK, Position, RowHeld, HoldsRow, shared
<1>5. CASE /\ Publish(p, [draft[p] EXCEPT ![c] = [tunnel |-> NewTunnel(p),
                                                  ports |-> Untouched]])
           /\ Goto(p, "commit")
           /\ UNCHANGED <<shared, req, at, attempt, accountLock, batch, left>>
  <2>1. /\ draft' \in [Proc -> [Code -> Draft \cup {None}]]
        /\ \A q \in Proc \ {p} : draft'[q] = draft[q]
    BY <1>2, <1>5, DraftRow, PublishRow DEF TypeInv
  <2>2. TypeOK'
    BY <1>5, <2>1 DEF TypeInv, TypeOK, Goto, shared, PC
  <2>3. Position' /\ RowHeld'
    BY <1>1, <1>5, <2>1 DEF TypeInv, TypeOK, Position, RowHeld, HoldsRow, Goto
  <2>4. QED
    BY <2>2, <2>3 DEF TypeInv
<1>6. QED
  BY <1>3, <1>4, <1>5 DEF InsertTunnel

\* The handlers that hold one row: each publishes a version of it, or gives up.
LEMMA WriteType ==
    ASSUME TypeInv, NEW p \in Proc, pc[p] = "write",
           NEW t \in Tunnel \cup {None},
           NEW x \in [Port -> Policy \cup {None, Same}], Write(p, t, x)
    PROVE  TypeInv'
<1>1. req[p].code \in Code
  BY DEF TypeInv, RowHeld, HoldsRow
<1>2. /\ draft' \in [Proc -> [Code -> Draft \cup {None}]]
      /\ \A q \in Proc \ {p} : draft'[q] = draft[q]
  BY <1>1, PublishRow DEF Write, TypeInv
<1>3. TypeOK'
  BY <1>2 DEF TypeInv, TypeOK, Write, Goto, shared, PC
<1>4. Position' /\ RowHeld'
  BY <1>2 DEF TypeInv, TypeOK, Position, RowHeld, HoldsRow, Write, Goto
<1>5. QED
  BY <1>3, <1>4 DEF TypeInv

\* A handler that is about to write holds a row.
LEMMA LockedRowType ==
    ASSUME TypeInv, NEW p \in Proc, pc[p] = "write"
    PROVE  LockedRow(p) \in Tunnel
  BY DEF TypeInv, RowHeld, HoldsRow, LockedRow

\* What a handler that holds a row writes to it: the row keeps its account.
Written(p, t, x) == /\ t \in Tunnel => t.acct = LockedRow(p).acct
                    /\ t \in Tunnel \cup {None}
                    /\ x \in [Port -> Policy \cup {None, Same}]
                    /\ Write(p, t, x)

Writes(p) == \/ WriteTunnel(p) \/ DeleteTunnelGraph(p)
             \/ InsertPort(p) \/ UpdatePort(p) \/ DeletePort(p)

\* A port is written beside a row that keeps its account.
LEMMA WritePortWritten ==
    ASSUME TypeInv, NEW p \in Proc, pc[p] = "write", req[p].port \in Port,
           NEW v \in Policy \cup {None, Same}, WritePort(p, v)
    PROVE  \E t, x : Written(p, t, x)
<1> DEFINE t == Refresh(LockedRow(p), clock)
           x == [Untouched EXCEPT ![req[p].port] = v]
<1>1. t \in Tunnel /\ t.acct = LockedRow(p).acct
  BY LockedRowType, RefreshRow DEF TypeInv, TypeOK
<1>2. x \in [Port -> Policy \cup {None, Same}]
  BY DraftRow
<1>3. Write(p, t, x)
  BY DEF WritePort
<1> HIDE DEF t, x
<1>4. QED
  BY <1>1, <1>2, <1>3 DEF Written

\* Handlers write at their statement "write" only.
LEMMA WritesAtWrite ==
    ASSUME NEW p \in Proc, Writes(p)
    PROVE  pc[p] = "write"
  BY DEF Writes, WriteTunnel, DeleteTunnelGraph, InsertPort, UpdatePort,
         DeletePort, Writing

\* What any handler writes is such a row, or it rolls back.
LEMMA WritesWritten ==
    ASSUME TypeInv, NEW p \in Proc, Writes(p)
    PROVE  Rollback(p) \/ \E t, x : Written(p, t, x)
<1>1. pc[p] = "write"
  BY WritesAtWrite
<1>2. req[p] \in Request /\ LockedRow(p) \in Tunnel
  BY <1>1, LockedRowType DEF TypeInv, Position
<1>3. CASE WriteTunnel(p)
  <2> DEFINE h == req[p].hours
             t == [LockedRow(p) EXCEPT !.hours = h, !.exp = at[p] + h]
  <2>1. CASE Write(p, LockedRow(p), Untouched)
    BY <1>2, <2>1, DraftRow DEF Written
  <2>2. CASE ValidHours(h) /\ Write(p, t, Untouched)
    <3>1. h \in 1 .. MaxHours /\ at[p] \in Nat /\ at[p] + h \in Nat
      BY <2>2, LimitAssumption DEF ValidHours, TypeInv, TypeOK
    <3>2. t \in Tunnel /\ t.acct = LockedRow(p).acct
      BY <1>2, <3>1 DEF Tunnel
    <3> HIDE DEF t
    <3>3. QED
      BY <2>2, <3>2, DraftRow DEF Written
  <2>3. QED
    BY <1>3, <2>1, <2>2 DEF WriteTunnel
<1>4. CASE DeleteTunnelGraph(p)
  BY <1>4, DraftRow, NoneIsNoRow DEF DeleteTunnelGraph, Written, Erased
<1>5. CASE InsertPort(p) \/ UpdatePort(p) \/ DeletePort(p)
  <2>1. /\ req[p].op \in {"createPort", "updatePort", "deletePort"}
        /\ ~DeletePort(p) => req[p].op \in {"createPort", "updatePort"}
    BY <1>5 DEF InsertPort, UpdatePort, DeletePort, Writing
  <2>2. /\ req[p].port \in Port
        /\ ~DeletePort(p) => req[p].policy \in Policy \cup {Same}
    BY <1>2, <2>1, RequestFields
  <2>3. CASE Write(p, LockedRow(p), Untouched)
    BY <1>2, <2>3, DraftRow DEF Written
  <2>4. ASSUME NEW v \in Policy \cup {None, Same}, WritePort(p, v)
        PROVE  \E t, x : Written(p, t, x)
    BY <1>1, <2>2, <2>4, WritePortWritten
  <2>5. QED
    BY <1>5, <2>2, <2>3, <2>4 DEF InsertPort, UpdatePort, DeletePort
<1>6. QED
  BY <1>1, <1>3, <1>4, <1>5 DEF Writes

\* Handlers write well-typed rows.
LEMMA WritesType ==
    ASSUME TypeInv, NEW p \in Proc, Writes(p)
    PROVE  TypeInv'
<1>1. CASE Rollback(p)
  BY <1>1, RollbackType
<1>2. CASE \E t, x : Written(p, t, x)
  BY <1>2, WritesAtWrite, WriteType DEF Written
<1>3. QED
  BY <1>1, <1>2, WritesWritten

\* A metering row's fields are numbers, so that rows have an order.
LEMMA MeteringIds ==
    \A m \in Metering : m.code \in Nat /\ m.acct \in Nat /\ m.at \in Nat
  BY CodeAssumption, AccountAssumption DEF Metering

\* A batch consists of metering rows; its tunnels are visited first.
LEMMA LockUnsettledMeteringType ==
    ASSUME TypeInv, NEW p \in Proc, LockUnsettledMetering(p)
    PROVE  TypeInv'
<1>1. PICK S \in SUBSET metering :
         /\ batch' = [batch EXCEPT ![p] = S]
         /\ left' = [left EXCEPT ![p] = {m.code : m \in S}]
         /\ Goto(p, IF S = {} THEN "commit" ELSE "tunnels")
  BY DEF LockUnsettledMetering
<1>2. /\ pc[p] = "lock" /\ req[p].op = "settle"
      /\ UNCHANGED <<shared, req, at, attempt, draft, accountLock>>
  BY DEF LockUnsettledMetering
<1>3. S \in SUBSET Metering /\ {m.code : m \in S} \in SUBSET Nat
  <2>1. S \in SUBSET Metering
    BY DEF TypeInv, TypeOK
  <2>2. QED
    BY <2>1, MeteringIds
<1>4. /\ batch' \in [Proc -> SUBSET Metering]
      /\ left' \in [Proc -> SUBSET Nat]
  <2> DEFINE L == {m.code : m \in S}
  <2>1. left' = [left EXCEPT ![p] = L] /\ L \in SUBSET Nat
    BY <1>1, <1>3
  <2> HIDE DEF L
  <2>2. QED
    BY <1>1, <1>3, <2>1 DEF TypeInv, TypeOK
<1>5. TypeOK'
  BY <1>1, <1>2, <1>4 DEF TypeInv, TypeOK, Goto, shared, PC
<1>6. Position' /\ RowHeld'
  BY <1>1, <1>2 DEF TypeInv, TypeOK, Position, RowHeld, HoldsRow, Goto
<1>7. QED
  BY <1>5, <1>6 DEF TypeInv

\* The draft a settlement makes of one tunnel.
LEMMA SettledTunnelRow ==
    ASSUME TypeOK, NEW c \in Code, NEW m \in Metering, tunnel[c] # None
    PROVE  /\ SettledTunnel(c, m.at) \in Draft
           /\ SettledTunnel(c, m.at).tunnel \in Tunnel
           /\ SettledTunnel(c, m.at).tunnel.acct = tunnel[c].acct
<1>1. tunnel[c] \in Tunnel /\ m.at \in Nat
  BY DEF TypeOK, Metering
<1>2. QED
  BY <1>1, RefreshRow, DraftRow DEF SettledTunnel

\* A refresh changes no more than a deadline.
LEMMA RefreshSettledTunnelType ==
    ASSUME TypeInv, NEW p \in Proc, RefreshSettledTunnel(p)
    PROVE  TypeInv'
<1>1. PICK c \in Code, m \in batch[p] :
         /\ Publish(p, IF Found(p, c)
                       THEN [draft[p] EXCEPT ![c] = SettledTunnel(c, m.at)]
                       ELSE draft[p])
         /\ IF left[p] = {c}
            THEN /\ left' = [left EXCEPT ![p] = {n.acct : n \in batch[p]}]
                 /\ Goto(p, "accounts")
            ELSE /\ left' = [left EXCEPT ![p] = @ \ {c}]
                 /\ UNCHANGED pc
  BY DEF RefreshSettledTunnel
<1>2. /\ pc[p] = "tunnels"
      /\ UNCHANGED <<shared, req, at, attempt, accountLock, batch>>
  BY DEF RefreshSettledTunnel
<1>3. /\ draft' \in [Proc -> [Code -> Draft \cup {None}]]
      /\ \A q \in Proc \ {p} : draft'[q] = draft[q]
  <2>1. m \in Metering
    BY DEF TypeInv, TypeOK
  <2>2. CASE Found(p, c)
    <3>1. SettledTunnel(c, m.at) \in Draft
      BY <2>1, <2>2, SettledTunnelRow DEF Found, TypeInv
    <3>2. QED
      BY <1>1, <2>2, <3>1 DEF Publish, TypeInv, TypeOK
  <2>3. CASE ~Found(p, c)
    BY <1>1, <2>3 DEF Publish, TypeInv, TypeOK
  <2>4. QED
    BY <2>2, <2>3
<1>4. left' \in [Proc -> SUBSET Nat]
  <2> DEFINE L == {n.acct : n \in batch[p]}
  <2>1. L \in SUBSET Nat
    <3>1. batch[p] \in SUBSET Metering
      BY DEF TypeInv, TypeOK
    <3>2. QED
      BY <3>1, MeteringIds
  <2>2. \/ left' = [left EXCEPT ![p] = L]
        \/ left' = [left EXCEPT ![p] = @ \ {c}]
    BY <1>1
  <2> HIDE DEF L
  <2>3. QED
    BY <2>1, <2>2 DEF TypeInv, TypeOK
<1>5. pc' \in [Proc -> PC] /\ (pc' = pc \/ Goto(p, "accounts"))
  BY <1>1 DEF TypeInv, TypeOK, Goto, PC
<1>6. TypeOK'
  BY <1>2, <1>3, <1>4, <1>5 DEF TypeInv, TypeOK, shared
<1>7. Position' /\ RowHeld'
  BY <1>2, <1>3, <1>5 DEF TypeInv, TypeOK, Position, RowHeld, HoldsRow, Goto
<1>8. QED
  BY <1>6, <1>7 DEF TypeInv

\* After the tunnels the batch's accounts are visited.
LEMMA LockSettledAccountType ==
    ASSUME TypeInv, NEW p \in Proc, LockSettledAccount(p)
    PROVE  TypeInv'
<1>1. PICK a \in Account :
         /\ accountLock' = [accountLock EXCEPT ![a] = p]
         /\ left' = [left EXCEPT ![p] = @ \ {a}]
         /\ IF left[p] = {a} THEN Goto(p, "commit") ELSE UNCHANGED pc
  BY DEF LockSettledAccount
<1>2. /\ pc[p] = "accounts"
      /\ UNCHANGED <<shared, req, at, attempt, draft, batch>>
  BY DEF LockSettledAccount
<1>3. pc' \in [Proc -> PC] /\ (pc' = pc \/ Goto(p, "commit"))
  BY <1>1 DEF TypeInv, TypeOK, Goto, PC
<1>4. TypeOK'
  BY <1>1, <1>2, <1>3 DEF TypeInv, TypeOK, shared
<1>5. Position' /\ RowHeld'
  BY <1>2, <1>3 DEF TypeInv, TypeOK, Position, RowHeld, HoldsRow, Goto
<1>6. QED
  BY <1>4, <1>5 DEF TypeInv

\* A commit publishes well-typed rows.
LEMMA CommitType ==
    ASSUME TypeInv, NEW p \in Proc, Commit(p)
    PROVE  TypeInv'
<1>1. /\ Release(p) /\ UNCHANGED <<clock, status, failures>>
      /\ metering' = metering \ batch[p]
      /\ tunnel' = [c \in Code |-> IF draft[p][c] = None THEN tunnel[c]
                                   ELSE draft[p][c].tunnel]
  BY DEF Commit
<1>2. \A c \in Code : draft[p][c] # None => draft[p][c] \in Draft
  BY DEF TypeInv, TypeOK
<1>3. tunnel' \in [Code -> Tunnel \cup {None}]
  BY <1>1, <1>2, DraftRow DEF TypeInv, TypeOK
<1>4. ports' \in [Code -> [Port -> Policy \cup {None}]]
  <2>1. \A c \in Code, x \in Port :
           (IF draft[p][c] = None \/ draft[p][c].ports[x] = Same
            THEN ports[c][x] ELSE draft[p][c].ports[x]) \in Policy \cup {None}
    BY <1>2, DraftRow DEF TypeInv, TypeOK
  <2>2. QED
    BY <2>1 DEF Commit
<1>5. revived' \in SUBSET Code
  BY DEF Commit
<1>6. clock' \in Nat /\ failures' \in Nat /\ metering' \in SUBSET Metering
  BY <1>1 DEF TypeInv, TypeOK
<1>7. QED
  BY <1>1, <1>3, <1>4, <1>5, <1>6, ReleaseType

\* A failure is a rollback.
LEMMA FailType ==
    ASSUME TypeInv, NEW p \in Proc, Fail(p)
    PROVE  TypeInv'
<1>1. /\ clock' \in Nat /\ failures' \in Nat /\ Release(p)
      /\ UNCHANGED <<clock, status, tunnel, ports, metering, revived>>
  BY DEF Fail, TypeInv, TypeOK
<1>2. QED
  BY <1>1, ReleaseType DEF TypeInv, TypeOK

\* Time, reports and operators change nothing that a process holds.
LEMMA EnvironmentType ==
    ASSUME TypeInv, Environment
    PROVE  TypeInv'
<1>1. CASE Tick
  BY <1>1 DEF Tick, TypeInv, TypeOK, Position, RowHeld, HoldsRow
<1>2. ASSUME NEW c \in Code, Report(c)
      PROVE  TypeInv'
  <2>1. tunnel[c] \in Tunnel
    BY <1>2 DEF Report, TypeInv, TypeOK
  <2> DEFINE m == [code |-> c, acct |-> tunnel[c].acct,
                   cluster |-> tunnel[c].cluster, at |-> clock]
  <2>2. m \in Metering
    BY <2>1 DEF Metering, Tunnel, TypeInv, TypeOK
  <2>3. /\ metering' = metering \cup {m}
        /\ UNCHANGED <<clock, status, tunnel, ports, revived, pc, req, at, attempt,
                       draft, accountLock, batch, left, failures>>
    BY <1>2 DEF Report
  <2> HIDE DEF m
  <2>4. QED
    BY <2>2, <2>3 DEF TypeInv, TypeOK, Position, RowHeld, HoldsRow
<1>3. ASSUME NEW a \in Account, SetStatus(a)
      PROVE  TypeInv'
  BY <1>3 DEF SetStatus, TypeInv, TypeOK, Position, RowHeld, HoldsRow
<1>4. QED
  BY <1>1, <1>2, <1>3 DEF Environment

\* A step that changes nothing keeps the types.
LEMMA StutterType ==
    ASSUME TypeInv, UNCHANGED vars
    PROVE  TypeInv'
  BY DEF vars, TypeInv, TypeOK, Position, RowHeld, HoldsRow

\* Every step keeps the types and positions.
LEMMA TypeStep == TypeInv /\ [Next]_vars => TypeInv'
<1> SUFFICES ASSUME TypeInv, [Next]_vars
             PROVE  TypeInv'
  OBVIOUS
<1>1. ASSUME NEW p \in Proc, Accept(p)
      PROVE  TypeInv'
  BY <1>1, StartType DEF Accept
<1>2. ASSUME NEW p \in Proc, Lock(p)
      PROVE  TypeInv'
  BY <1>2, LockTunnelType, LockAccountType, LockForDeletionType,
     LockUnsettledMeteringType, RefreshSettledTunnelType, LockSettledAccountType
     DEF Lock
<1>3. ASSUME NEW p \in Proc, Change(p)
      PROVE  TypeInv'
  BY <1>3, CountTunnelsType, WritesType, InsertTunnelType DEF Change, Writes
<1>4. ASSUME NEW p \in Proc, Commit(p) \/ AbortWait(p) \/ Fail(p)
      PROVE  TypeInv'
  BY <1>4, CommitType, RollbackType, FailType DEF AbortWait
<1>5. QED
  BY <1>1, <1>2, <1>3, <1>4, EnvironmentType, StutterType DEF Next

\* Every reachable state is well typed: no handler writes back a row it does
\* not hold, or an expiration that was not validated.
THEOREM TypeCorrect == Spec => []TypeOK
<1>1. Spec => []TypeInv
  BY TypeInit, TypeStep, PTL DEF Spec
<1>2. TypeInv => TypeOK
  BY DEF TypeInv
<1>3. QED
  BY <1>1, <1>2, PTL

-----------------------------------------------------------------------------
(* The quota.  Between its count and its commit a CreateTunnel holds the   *)
(* lock of its account and the count leaves room for one tunnel; no other  *)
(* transaction can add to the continuously active tunnels of an account.   *)

ContinuousOf(a) == ActiveOf(a) \ revived

\* A row lock has one holder.
RowLocks ==
    \A p, q \in Proc, c \in Code :
        draft[p][c] # None /\ draft[q][c] # None => p = q

\* A draft is a version of a committed row, for the same account, or the one
\* row CreateTunnel inserts.
DraftOK(p, c) ==
    draft[p][c] # None =>
        /\ pc[p] # "idle"
        /\ tunnel[c] # None =>
              /\ req[p].op # "createTunnel"
              /\ draft[p][c].tunnel # None =>
                    draft[p][c].tunnel.acct = tunnel[c].acct
        /\ tunnel[c] = None =>
              /\ req[p].op = "createTunnel" /\ pc[p] = "commit"
              /\ draft[p][c].tunnel # None
              /\ draft[p][c].tunnel.acct = req[p].acct
              /\ \A d \in Code \ {c} : draft[p][d] = None

Creating(p, labels) == pc[p] \in labels /\ req[p].op = "createTunnel"

CreatorOK(p) ==
    Creating(p, {"count", "insert", "commit"}) => accountLock[req[p].acct] = p

RoomOK(p) ==
    Creating(p, {"insert", "commit"}) =>
        Cardinality(ContinuousOf(req[p].acct)) < MaxTunnels

QuotaInv ==
    /\ TypeInv
    /\ RowLocks
    /\ \A p \in Proc : /\ \A c \in Code : DraftOK(p, c)
                       /\ CreatorOK(p)
                       /\ RoomOK(p)
                       /\ at[p] <= clock
    /\ ContinuousQuota

\* The quota is a number.
LEMMA MaxTunnelsNat == MaxTunnels \in Nat
  BY LimitAssumption

\* A subset of the codes has no more members than the whole.
LEMMA CardinalitySubset ==
    ASSUME NEW T \in SUBSET Code, NEW S \in SUBSET T
    PROVE  /\ Cardinality(S) \in Nat /\ Cardinality(T) \in Nat
           /\ Cardinality(S) <= Cardinality(T)
  BY CodeAssumption, FS_Subset, FS_CardinalityType

\* A step of one process that leaves the committed tunnels alone keeps the
\* invariant if what it locks was free and what it drafts is in order.
LEMMA FrameStep ==
    ASSUME QuotaInv, TypeInv', NEW p \in Proc,
           UNCHANGED <<clock, tunnel, revived>>,
           \A q \in Proc \ {p} : /\ draft'[q] = draft[q] /\ pc'[q] = pc[q]
                                 /\ req'[q] = req[q] /\ at'[q] = at[q],
           \A q \in Proc \ {p}, a \in Account :
               accountLock[a] = q => accountLock'[a] = q,
           \A c \in Code : /\ draft'[p][c] # None => ~LockedByOther(p, c)
                          /\ DraftOK(p, c)',
           CreatorOK(p)',
           Creating(p, {"insert", "commit"})' =>
               Cardinality(ContinuousOf(req'[p].acct)) < MaxTunnels,
           at'[p] <= clock
    PROVE  QuotaInv'
<1>1. RowLocks'
  BY DEF QuotaInv, RowLocks, LockedByOther
<1>2. \A a : ContinuousOf(a)' = ContinuousOf(a)
  BY DEF ContinuousOf, ActiveOf, Active
<1>3. ASSUME NEW q \in Proc
      PROVE  /\ \A c \in Code : DraftOK(q, c)'
             /\ CreatorOK(q)'
             /\ RoomOK(q)'
             /\ at'[q] <= clock'
  <2>1. CASE q = p
    BY <1>2, <2>1 DEF RoomOK, Creating
  <2>2. CASE q # p
    <3>1. /\ \A c \in Code : DraftOK(q, c)
          /\ CreatorOK(q) /\ RoomOK(q) /\ at[q] <= clock
      BY DEF QuotaInv
    <3>2. \A c \in Code : DraftOK(q, c)'
      BY <2>2, <3>1 DEF DraftOK
    <3>3. CreatorOK(q)'
      <4>1. Creating(q, {"count", "insert", "commit"}) => req[q].acct \in Account
        BY RequestFields DEF Creating, QuotaInv, TypeInv, Position
      <4>2. QED
        BY <2>2, <3>1, <4>1 DEF CreatorOK, Creating
    <3>4. RoomOK(q)'
      BY <1>2, <2>2, <3>1 DEF RoomOK, Creating
    <3>5. QED
      BY <2>2, <3>1, <3>2, <3>3, <3>4
  <2>3. QED
    BY <2>1, <2>2
<1>4. ContinuousQuota'
  BY <1>2 DEF QuotaInv, ContinuousQuota, ContinuousOf
<1>5. QED
  BY <1>1, <1>3, <1>4 DEF QuotaInv

\* Ending a transaction without publishing anything.
LEMMA ReleaseFrame ==
    ASSUME QuotaInv, TypeInv', NEW p \in Proc, Release(p),
           UNCHANGED <<clock, tunnel, revived>>
    PROVE  QuotaInv'
<1>1. /\ \A c \in Code : draft'[p][c] = None
      /\ \A q \in Proc \ {p} : draft'[q] = draft[q]
  BY DEF Release, QuotaInv, TypeInv, TypeOK
<1>2. /\ pc'[p] = "idle" /\ at'[p] = 0
      /\ \A q \in Proc \ {p} : /\ pc'[q] = pc[q] /\ req'[q] = req[q]
                               /\ at'[q] = at[q]
  BY DEF Release, Goto, QuotaInv, TypeInv, TypeOK
<1>3. \A q \in Proc \ {p}, a \in Account :
          accountLock[a] = q => accountLock'[a] = q
  BY DEF Release
<1>4. /\ CreatorOK(p)' /\ ~Creating(p, {"insert", "commit"})'
      /\ \A c \in Code : DraftOK(p, c)'
  BY <1>1, <1>2 DEF CreatorOK, Creating, DraftOK
<1>5. at'[p] <= clock
  BY <1>2 DEF QuotaInv, TypeInv, TypeOK
<1>6. QED
  BY <1>1, <1>2, <1>3, <1>4, <1>5, FrameStep

\* A rollback keeps the quota and what it rests on.
LEMMA RollbackQuota ==
    ASSUME QuotaInv, TypeInv', NEW p \in Proc, Rollback(p)
    PROVE  QuotaInv'
  BY ReleaseFrame DEF Rollback, shared

\* A step of one process that keeps its drafts, its request and every lock.
LEMMA SameDrafts ==
    ASSUME QuotaInv, TypeInv', NEW p \in Proc, NEW label,
           UNCHANGED <<clock, tunnel, revived, req, at, draft>>,
           pc' = pc \/ Goto(p, label),
           \A q \in Proc \ {p}, a \in Account :
               accountLock[a] = q => accountLock'[a] = q,
           pc'[p] # "idle",
           req[p].op = "createTunnel" => pc[p] # "commit",
           CreatorOK(p)',
           Creating(p, {"insert", "commit"})' =>
               Cardinality(ContinuousOf(req[p].acct)) < MaxTunnels
    PROVE  QuotaInv'
<1>1. /\ \A q \in Proc \ {p} : /\ draft'[q] = draft[q] /\ pc'[q] = pc[q]
                               /\ req'[q] = req[q] /\ at'[q] = at[q]
      /\ draft'[p] = draft[p] /\ req'[p] = req[p] /\ at'[p] <= clock
  BY DEF Goto, QuotaInv, TypeInv, TypeOK
<1>2. \A c \in Code : /\ draft'[p][c] # None => ~LockedByOther(p, c)
                     /\ DraftOK(p, c)'
  <2> SUFFICES ASSUME NEW c \in Code
               PROVE  /\ draft'[p][c] # None => ~LockedByOther(p, c)
                      /\ DraftOK(p, c)'
    OBVIOUS
  <2>1. draft'[p][c] # None => ~LockedByOther(p, c)
    BY <1>1 DEF QuotaInv, RowLocks, LockedByOther
  <2>2. DraftOK(p, c)
    BY DEF QuotaInv
  <2>3. QED
    BY <1>1, <2>1, <2>2 DEF DraftOK
<1>3. QED
  BY <1>1, <1>2, FrameStep

\* Each statement keeps the quota's invariant: a request begins with nothing.
LEMMA StartQuota ==
    ASSUME QuotaInv, TypeInv', NEW p \in Proc, NEW r,
           BeginCreateTunnel(p, r) \/ Begin(p, r)
    PROVE  QuotaInv'
<1>1. PICK label \in {"account", "lock"} : Start(p, r, label)
  BY DEF BeginCreateTunnel, Begin
<1>2. /\ pc[p] = "idle" /\ Goto(p, label) /\ req' = [req EXCEPT ![p] = r]
      /\ UNCHANGED <<clock, tunnel, revived, draft, accountLock>>
  BY <1>1 DEF Start
<1>3. at'[p] <= clock /\ \A q \in Proc \ {p} : at'[q] = at[q]
  <2> DEFINE n == IF r.op \in ReadsClockFirst THEN clock ELSE 0
  <2>1. at' = [at EXCEPT ![p] = n] /\ n <= clock
    BY <1>1 DEF Start, QuotaInv, TypeInv, TypeOK
  <2> HIDE DEF n
  <2>2. QED
    BY <2>1 DEF QuotaInv, TypeInv, TypeOK
<1>4. \A q \in Proc \ {p} : draft'[q] = draft[q] /\ pc'[q] = pc[q] /\ req'[q] = req[q]
  BY <1>2 DEF Goto, QuotaInv, TypeInv, TypeOK
<1>5. pc'[p] = label
  BY <1>2 DEF Goto, QuotaInv, TypeInv, TypeOK
<1>6. \A c \in Code : draft'[p][c] = None
  BY <1>2 DEF QuotaInv, DraftOK
<1>7. /\ \A c \in Code : DraftOK(p, c)'
      /\ CreatorOK(p)' /\ ~Creating(p, {"insert", "commit"})'
  BY <1>5, <1>6 DEF DraftOK, CreatorOK, Creating
<1>8. QED
  BY <1>2, <1>3, <1>4, <1>6, <1>7, FrameStep

\* Publishing new versions of some rows for an operation other than
\* CreateTunnel, each row committed, free of other locks and kept for its
\* account.
LEMMA PublishRows ==
    ASSUME QuotaInv, TypeInv', NEW p \in Proc, NEW label,
           UNCHANGED <<clock, tunnel, revived, req, at, accountLock>>,
           pc' = pc \/ Goto(p, label), pc'[p] # "idle",
           req[p].op # "createTunnel",
           \A q \in Proc \ {p} : draft'[q] = draft[q],
           \A c \in Code :
              \/ draft'[p][c] = draft[p][c]
              \/ draft'[p][c] = None
              \/ /\ tunnel[c] # None /\ ~LockedByOther(p, c)
                 /\ draft'[p][c].tunnel # None =>
                       draft'[p][c].tunnel.acct = tunnel[c].acct
    PROVE  QuotaInv'
<1>1. /\ \A q \in Proc \ {p} : /\ draft'[q] = draft[q] /\ pc'[q] = pc[q]
                               /\ req'[q] = req[q] /\ at'[q] = at[q]
      /\ req'[p] = req[p] /\ at'[p] <= clock
  BY DEF Goto, QuotaInv, TypeInv, TypeOK
<1>2. \A c \in Code : /\ draft'[p][c] # None => ~LockedByOther(p, c)
                     /\ DraftOK(p, c)'
  <2> SUFFICES ASSUME NEW c \in Code
               PROVE  /\ draft'[p][c] # None => ~LockedByOther(p, c)
                      /\ DraftOK(p, c)'
    OBVIOUS
  <2>1. /\ DraftOK(p, c)
        /\ draft[p][c] # None => ~LockedByOther(p, c)
    BY DEF QuotaInv, RowLocks, LockedByOther
  <2>2. draft[p][c] # None => tunnel[c] # None
    BY <2>1 DEF DraftOK
  <2>3. QED
    BY <1>1, <2>1, <2>2 DEF DraftOK
<1>3. CreatorOK(p)' /\ ~Creating(p, {"insert", "commit"})'
  BY <1>1 DEF CreatorOK, Creating
<1>4. QED
  BY <1>1, <1>2, <1>3, FrameStep

\* A row is locked by one process, whose draft begins as committed.
LEMMA LockTunnelQuota ==
    ASSUME QuotaInv, TypeInv', NEW p \in Proc, LockTunnel(p)
    PROVE  QuotaInv'
<1> DEFINE c == req[p].code
<1>1. CASE Rollback(p)
  BY <1>1, RollbackQuota
<1>2. CASE ~Rollback(p)
  <2>1. PICK label \in {"account", "write"} :
          /\ Publish(p, [draft[p] EXCEPT ![c] = [tunnel |-> tunnel[c],
                                                 ports |-> Untouched]])
          /\ Goto(p, label)
          /\ UNCHANGED <<shared, req, at, attempt, accountLock, batch, left>>
          /\ tunnel[c] # None /\ ~LockedByOther(p, c)
    BY <1>2 DEF LockTunnel, Owned, Found
  <2>2. req[p].op \in OwnedOps /\ c \in Code
    BY RequestFields DEF LockTunnel, QuotaInv, TypeInv, Position
  <2>3. tunnel[c] \in Tunnel /\ pc'[p] = label
    BY <2>1, <2>2 DEF QuotaInv, TypeInv, TypeOK, Goto
  <2>4. /\ \A q \in Proc \ {p} : draft'[q] = draft[q]
        /\ draft'[p][c] = [tunnel |-> tunnel[c], ports |-> Untouched]
        /\ \A d \in Code \ {c} : draft'[p][d] = draft[p][d]
    BY <2>1, <2>2, <2>3, DraftRow, PublishRow DEF QuotaInv, TypeInv
  <2>5. /\ draft'[p][c].tunnel = tunnel[c]
        /\ req[p].op # "createTunnel" /\ pc'[p] # "idle"
    BY <2>2, <2>3, <2>4 DEF OwnedOps
  <2>6. UNCHANGED <<clock, tunnel, revived, req, at, accountLock>>
    BY <2>1 DEF shared
  <2>7. QED
    BY <2>1, <2>4, <2>5, <2>6, PublishRows
<1>3. QED
  BY <1>1, <1>2

\* One process holds an account.
LEMMA LockAccountQuota ==
    ASSUME QuotaInv, TypeInv', NEW p \in Proc, LockAccount(p)
    PROVE  QuotaInv'
<1> DEFINE a == AccountNeeded(p)
<1>1. CASE Rollback(p)
  BY <1>1, RollbackQuota
<1>2. CASE ~Rollback(p)
  <2>1. PICK label \in {"count", "write"} :
          /\ Goto(p, label)
          /\ accountLock[a] = None
          /\ accountLock' = [accountLock EXCEPT ![a] = p]
          /\ UNCHANGED <<shared, req, at, attempt, draft, batch, left>>
    BY <1>2 DEF LockAccount
  <2>2. pc[p] = "account" /\ pc'[p] = label
    BY <2>1 DEF LockAccount, QuotaInv, TypeInv, TypeOK, Goto
  <2>3. \A q \in Proc \ {p}, b \in Account :
            accountLock[b] = q => accountLock'[b] = q
    BY <2>1, NoneIsNoRow DEF QuotaInv, TypeInv, TypeOK
  <2>4. CreatorOK(p)'
    <3>1. req[p].op = "createTunnel" => a = req[p].acct /\ a \in Account
      BY <2>2, RequestFields DEF AccountNeeded, QuotaInv, TypeInv, Position
    <3>2. QED
      BY <2>1, <3>1 DEF CreatorOK, Creating, QuotaInv, TypeInv, TypeOK
  <2>5. ~Creating(p, {"insert", "commit"})' /\ pc'[p] # "idle"
    BY <2>2 DEF Creating
  <2>6. UNCHANGED <<clock, tunnel, revived, req, at, draft>>
    BY <2>1 DEF shared
  <2>7. QED
    BY <2>1, <2>2, <2>3, <2>4, <2>5, <2>6, SameDrafts
<1>3. QED
  BY <1>1, <1>2

\* Rows marked for deletion are locked like all others.
LEMMA LockForDeletionQuota ==
    ASSUME QuotaInv, TypeInv', NEW p \in Proc,
           LockNamespaceTunnels(p) \/ LockAgedTunnels(p)
    PROVE  QuotaInv'
<1>1. PICK S \in SUBSET Code :
         /\ Publish(p, [c \in Code |-> IF c \in S THEN Erased ELSE None])
         /\ \A c \in S : tunnel[c] # None /\ ~LockedByOther(p, c)
  <2>1. CASE LockNamespaceTunnels(p)
    BY <2>1 DEF LockNamespaceTunnels, Found
  <2>2. CASE LockAgedTunnels(p)
    BY <2>2 DEF LockAgedTunnels, FirstOf, Aged, Found, Skipped, LockedByOther
  <2>3. QED
    BY <2>1, <2>2
<1>2. /\ pc[p] = "lock" /\ Goto(p, "commit")
      /\ req[p].op # "createTunnel"
      /\ UNCHANGED <<clock, tunnel, revived, req, at, accountLock>>
  BY DEF LockNamespaceTunnels, LockAgedTunnels, shared
<1>3. /\ \A q \in Proc \ {p} : draft'[q] = draft[q]
      /\ \A c \in Code : draft'[p][c] = IF c \in S THEN Erased ELSE None
  BY <1>1, PublishErased DEF QuotaInv, TypeInv
<1>4. pc'[p] # "idle"
  BY <1>2 DEF Goto, QuotaInv, TypeInv, TypeOK
<1>5. \A c \in Code : \/ draft'[p][c] = None
                     \/ /\ tunnel[c] # None /\ ~LockedByOther(p, c)
                        /\ draft'[p][c].tunnel = None
  BY <1>1, <1>3, DraftRow
<1>6. QED
  BY <1>2, <1>3, <1>4, <1>5, PublishRows

\* The rows CreateTunnel counts include every continuously active tunnel of
\* the account: its clock reading is at most the present time.
LEMMA CountTunnelsQuota ==
    ASSUME QuotaInv, TypeInv', NEW p \in Proc, CountTunnels(p)
    PROVE  QuotaInv'
<1> DEFINE counted == {c \in Code : /\ tunnel[c] # None
                                   /\ tunnel[c].acct = req[p].acct
                                   /\ tunnel[c].exp > at[p]}
<1>1. CASE Rollback(p)
  BY <1>1, RollbackQuota
<1>2. CASE ~Rollback(p)
  <2>1. /\ pc[p] = "count" /\ Goto(p, "insert")
        /\ Cardinality(counted) < MaxTunnels
        /\ UNCHANGED <<shared, req, at, attempt, draft, accountLock, batch, left>>
    BY <1>2 DEF CountTunnels
  <2>2. ContinuousOf(req[p].acct) \subseteq counted
    <3> SUFFICES ASSUME NEW c \in ContinuousOf(req[p].acct)
                 PROVE  c \in counted
      OBVIOUS
    <3>1. /\ c \in Code /\ tunnel[c] # None /\ tunnel[c].acct = req[p].acct
          /\ tunnel[c].exp > clock
      BY DEF ContinuousOf, ActiveOf, Active
    <3>2. tunnel[c].exp \in Nat /\ at[p] \in Nat /\ clock \in Nat /\ at[p] <= clock
      BY <3>1 DEF QuotaInv, TypeInv, TypeOK, Tunnel
    <3>3. QED
      BY <3>1, <3>2
  <2>3. Cardinality(ContinuousOf(req[p].acct)) < MaxTunnels
    <3>1. /\ Cardinality(ContinuousOf(req[p].acct)) \in Nat
          /\ Cardinality(counted) \in Nat
          /\ Cardinality(ContinuousOf(req[p].acct)) <= Cardinality(counted)
      BY <2>2, CardinalitySubset
    <3>2. QED
      BY <2>1, <3>1, LimitAssumption
  <2>4. pc'[p] = "insert" /\ req[p].op = "createTunnel"
    BY <2>1 DEF Goto, QuotaInv, TypeInv, TypeOK, Position
  <2>5. CreatorOK(p)'
    BY <2>1, <2>4 DEF CreatorOK, Creating, QuotaInv
  <2>6. UNCHANGED <<clock, tunnel, revived, req, at, draft>>
    BY <2>1 DEF shared
  <2>7. QED
    BY <2>1, <2>3, <2>4, <2>5, <2>6, SameDrafts
<1>3. QED
  BY <1>1, <1>2

\* The new row takes the room that was counted.
LEMMA InsertTunnelQuota ==
    ASSUME QuotaInv, TypeInv', NEW p \in Proc, NEW c \in Code, InsertTunnel(p, c)
    PROVE  QuotaInv'
<1>1. /\ pc[p] = "insert" /\ req[p].op = "createTunnel" /\ req[p] \in Request
      /\ ~LockedByOther(p, c)
      /\ RoomOK(p) /\ CreatorOK(p)
      /\ \A d \in Code : draft[p][d] = None
  <2>1. /\ pc[p] = "insert" /\ req[p].op = "createTunnel" /\ req[p] \in Request
        /\ ~LockedByOther(p, c)
    BY DEF InsertTunnel, QuotaInv, TypeInv, Position
  <2>2. QED
    BY <2>1 DEF QuotaInv, DraftOK
<1>2. CASE Rollback(p)
  BY <1>2, RollbackQuota
<1>3. CASE UNCHANGED <<shared, pc, req, at, draft, accountLock, batch, left>>
  <2>1. CreatorOK(p)' /\ pc'[p] # "idle"
    BY <1>1, <1>3 DEF CreatorOK, Creating
  <2>2. UNCHANGED <<clock, tunnel, revived, req, at, draft, pc, accountLock>>
    BY <1>3 DEF shared
  <2>3. QED
    BY <1>1, <2>1, <2>2, SameDrafts DEF RoomOK, Creating
<1>4. CASE /\ tunnel[c] = None
           /\ Publish(p, [draft[p] EXCEPT ![c] = [tunnel |-> NewTunnel(p),
                                                  ports |-> Untouched]])
           /\ Goto(p, "commit")
           /\ UNCHANGED <<shared, req, at, attempt, accountLock, batch, left>>
  <2>1. NewTunnel(p) \in Tunnel /\ NewTunnel(p).acct = req[p].acct
    BY <1>1, RequestFields, LimitAssumption
       DEF NewTunnel, Tunnel, QuotaInv, TypeInv, TypeOK, Position, ValidHours
  <2>2. /\ \A q \in Proc \ {p} : draft'[q] = draft[q]
        /\ draft'[p][c] = [tunnel |-> NewTunnel(p), ports |-> Untouched]
        /\ \A d \in Code \ {c} : draft'[p][d] = None
    BY <1>1, <1>4, <2>1, DraftRow, PublishRow DEF QuotaInv, TypeInv
  <2>3. /\ pc'[p] = "commit" /\ UNCHANGED <<clock, tunnel, revived, req, at,
                                             accountLock>>
        /\ \A q \in Proc \ {p} : pc'[q] = pc[q]
    BY <1>4 DEF Goto, shared, QuotaInv, TypeInv, TypeOK
  <2>4. \A d \in Code : /\ draft'[p][d] # None => ~LockedByOther(p, d)
                       /\ DraftOK(p, d)'
    BY <1>1, <1>4, <2>1, <2>2, <2>3, NoneIsNoRow DEF DraftOK
  <2>5. CreatorOK(p)' /\ Cardinality(ContinuousOf(req'[p].acct)) < MaxTunnels
    BY <1>1, <2>3 DEF CreatorOK, RoomOK, Creating
  <2>6. at'[p] <= clock
    BY <2>3 DEF QuotaInv
  <2>7. QED
    BY <2>2, <2>3, <2>4, <2>5, <2>6, FrameStep
<1>5. QED
  BY <1>2, <1>3, <1>4 DEF InsertTunnel

\* Writers keep a row's account, and start no continuous activity.
LEMMA WritesQuota ==
    ASSUME QuotaInv, TypeInv', NEW p \in Proc, Writes(p)
    PROVE  QuotaInv'
<1> DEFINE c == req[p].code
<1>1. CASE Rollback(p)
  BY <1>1, RollbackQuota
<1>2. CASE \E t, x : Written(p, t, x)
  <2>1. PICK t, x : Written(p, t, x)
    BY <1>2
  <2>2. /\ pc[p] = "write" /\ c \in Code /\ draft[p][c] # None
        /\ req[p].op # "createTunnel" /\ LockedRow(p) \in Tunnel
    BY WritesAtWrite, LockedRowType
       DEF QuotaInv, TypeInv, Position, RowHeld, HoldsRow, OwnedOps
  <2>3. /\ tunnel[c] # None /\ ~LockedByOther(p, c)
        /\ LockedRow(p).acct = tunnel[c].acct
    BY <2>2, NoneIsNoRow
       DEF QuotaInv, RowLocks, LockedByOther, DraftOK, LockedRow
  <2>4. /\ Publish(p, [draft[p] EXCEPT ![c] = [tunnel |-> t, ports |-> x]])
        /\ Goto(p, "commit")
        /\ UNCHANGED <<clock, tunnel, revived, req, at, accountLock>>
    BY <2>1 DEF Written, Write, shared
  <2>5. /\ t \in Tunnel \cup {None}
        /\ x \in [Port -> Policy \cup {None, Same}]
        /\ t # None => t.acct = tunnel[c].acct
    BY <2>1, <2>3 DEF Written
  <2>6. /\ \A q \in Proc \ {p} : draft'[q] = draft[q]
        /\ draft'[p][c].tunnel = t
        /\ \A d \in Code \ {c} : draft'[p][d] = draft[p][d]
    <3>1. /\ \A q \in Proc \ {p} : draft'[q] = draft[q]
          /\ draft'[p][c] = [tunnel |-> t, ports |-> x]
          /\ \A d \in Code \ {c} : draft'[p][d] = draft[p][d]
      BY <2>2, <2>4, <2>5, PublishRow DEF QuotaInv, TypeInv
    <3>2. QED
      BY <3>1
  <2>7. pc'[p] # "idle"
    BY <2>4 DEF Goto, QuotaInv, TypeInv, TypeOK
  <2>8. QED
    BY <2>2, <2>3, <2>4, <2>5, <2>6, <2>7, PublishRows
<1>3. QED
  BY <1>1, <1>2, WritesWritten DEF QuotaInv

\* A settlement takes its batch and no row.
LEMMA LockUnsettledMeteringQuota ==
    ASSUME QuotaInv, TypeInv', NEW p \in Proc, LockUnsettledMetering(p)
    PROVE  QuotaInv'
<1>1. PICK label \in {"commit", "tunnels"} : Goto(p, label)
  BY DEF LockUnsettledMetering
<1>2. /\ req[p].op # "createTunnel"
      /\ UNCHANGED <<clock, tunnel, revived, req, at, draft, accountLock>>
  BY DEF LockUnsettledMetering, shared
<1>3. pc'[p] # "idle" /\ CreatorOK(p)' /\ ~Creating(p, {"insert", "commit"})'
  BY <1>1, <1>2 DEF Goto, QuotaInv, TypeInv, TypeOK, CreatorOK, Creating
<1>4. QED
  BY <1>1, <1>2, <1>3, SameDrafts

\* A refresh keeps a row's account; its row becomes active at the commit.
LEMMA RefreshSettledTunnelQuota ==
    ASSUME QuotaInv, TypeInv', NEW p \in Proc, req[p].op = "settle",
           RefreshSettledTunnel(p)
    PROVE  QuotaInv'
<1>1. PICK c \in Code, m \in batch[p] :
         /\ ~LockedByOther(p, c)
         /\ Publish(p, IF Found(p, c)
                       THEN [draft[p] EXCEPT ![c] = SettledTunnel(c, m.at)]
                       ELSE draft[p])
         /\ pc' = pc \/ Goto(p, "accounts")
  BY DEF RefreshSettledTunnel
<1>2. /\ pc[p] = "tunnels"
      /\ UNCHANGED <<clock, tunnel, revived, req, at, accountLock>>
  BY DEF RefreshSettledTunnel, shared
<1>3. pc'[p] # "idle"
  BY <1>1, <1>2 DEF Goto, QuotaInv, TypeInv, TypeOK
<1>4. m \in Metering /\ draft \in [Proc -> [Code -> Draft \cup {None}]]
  BY DEF QuotaInv, TypeInv, TypeOK
<1>5. /\ \A q \in Proc \ {p} : draft'[q] = draft[q]
      /\ \A d \in Code \ {c} : draft'[p][d] = draft[p][d]
  BY <1>1, <1>4 DEF Publish
<1>6. \/ draft'[p][c] = draft[p][c]
      \/ tunnel[c] # None /\ draft'[p][c].tunnel.acct = tunnel[c].acct
  <2>1. CASE Found(p, c)
    <3>1. draft'[p][c] = SettledTunnel(c, m.at) /\ tunnel[c] # None
      BY <1>1, <1>4, <2>1 DEF Publish, Found
    <3>2. QED
      BY <1>4, <3>1, SettledTunnelRow DEF QuotaInv, TypeInv
  <2>2. CASE ~Found(p, c)
    BY <1>1, <1>4, <2>2 DEF Publish
  <2>3. QED
    BY <2>1, <2>2
<1>7. QED
  BY <1>1, <1>2, <1>3, <1>5, <1>6, PublishRows

\* An account that settlement locks is nobody else's.
LEMMA LockSettledAccountQuota ==
    ASSUME QuotaInv, TypeInv', NEW p \in Proc, req[p].op = "settle",
           LockSettledAccount(p)
    PROVE  QuotaInv'
<1>1. PICK a \in Account :
         /\ accountLock[a] = None
         /\ accountLock' = [accountLock EXCEPT ![a] = p]
         /\ pc' = pc \/ Goto(p, "commit")
  BY DEF LockSettledAccount
<1>2. /\ pc[p] = "accounts"
      /\ UNCHANGED <<clock, tunnel, revived, req, at, draft>>
  BY DEF LockSettledAccount, shared
<1>3. \A q \in Proc \ {p}, b \in Account :
          accountLock[b] = q => accountLock'[b] = q
  BY <1>1, NoneIsNoRow DEF QuotaInv, TypeInv, TypeOK
<1>4. pc'[p] # "idle" /\ CreatorOK(p)' /\ ~Creating(p, {"insert", "commit"})'
  BY <1>1, <1>2 DEF Goto, QuotaInv, TypeInv, TypeOK, CreatorOK, Creating
<1>5. QED
  BY <1>1, <1>2, <1>3, <1>4, SameDrafts

\* What a commit adds to the continuously active tunnels: at most the row that
\* a CreateTunnel inserts.
LEMMA CommitAdds ==
    ASSUME QuotaInv, NEW p \in Proc, Commit(p), NEW a,
           NEW c \in ContinuousOf(a)', c \notin ContinuousOf(a)
    PROVE  /\ Creating(p, {"commit"}) /\ a = req[p].acct
           /\ draft[p][c] # None
<1>1. /\ c \in Code
      /\ tunnel'[c] = IF draft[p][c] = None THEN tunnel[c] ELSE draft[p][c].tunnel
      /\ c \in revived' <=> ~Removes(p, c) /\ (c \in revived \/ Revives(p, c))
  BY DEF ContinuousOf, ActiveOf, Commit
<1>2. /\ tunnel'[c] # None /\ tunnel'[c].acct = a /\ tunnel'[c].exp > clock
      /\ c \notin revived'
  BY DEF ContinuousOf, ActiveOf, Active, Commit
<1>3. draft[p][c] # None
  BY <1>1, <1>2 DEF ContinuousOf, ActiveOf, Active, Removes, Revives
<1>4. /\ tunnel'[c] = draft[p][c].tunnel /\ ~Removes(p, c)
      /\ c \notin revived /\ ~Revives(p, c)
  BY <1>1, <1>2, <1>3 DEF Removes
<1>5. tunnel[c] = None
  <2> SUFFICES ASSUME tunnel[c] # None PROVE FALSE
    OBVIOUS
  <2>1. tunnel[c].acct = a
    BY <1>1, <1>2, <1>3, <1>4 DEF QuotaInv, DraftOK
  <2>2. ~(tunnel[c].exp <= clock)
    BY <1>2, <1>3, <1>4 DEF Revives
  <2>3. tunnel[c].exp \in Nat /\ clock \in Nat
    BY <1>1 DEF QuotaInv, TypeInv, TypeOK, Tunnel
  <2>4. QED
    BY <1>1, <1>4, <2>1, <2>2, <2>3 DEF ContinuousOf, ActiveOf, Active
<1>6. QED
  BY <1>1, <1>2, <1>3, <1>4, <1>5 DEF QuotaInv, DraftOK, Creating

\* Two transactions between count and commit create for different accounts.
LEMMA CreatorsApart ==
    ASSUME QuotaInv, NEW p \in Proc, NEW q \in Proc, p # q,
           Creating(p, {"count", "insert", "commit"}),
           Creating(q, {"count", "insert", "commit"})
    PROVE  req[p].acct # req[q].acct
  BY DEF QuotaInv, CreatorOK

\* A commit of a creation uses its room; any other makes nothing active that
\* had not lapsed.
LEMMA CommitQuota ==
    ASSUME QuotaInv, TypeInv', NEW p \in Proc, Commit(p)
    PROVE  QuotaInv'
<1>1. /\ Release(p) /\ pc[p] = "commit" /\ UNCHANGED clock
      /\ \A c \in Code : draft[p][c] = None => tunnel'[c] = tunnel[c]
  BY DEF Commit
<1>2. /\ \A c \in Code : draft'[p][c] = None
      /\ \A q \in Proc \ {p} : /\ draft'[q] = draft[q] /\ pc'[q] = pc[q]
                               /\ req'[q] = req[q] /\ at'[q] = at[q]
      /\ pc'[p] = "idle" /\ at'[p] = 0
  BY <1>1 DEF Release, Goto, QuotaInv, TypeInv, TypeOK
<1>3. RowLocks'
  BY <1>2 DEF QuotaInv, RowLocks
<1>4. ASSUME NEW q \in Proc, q # p
      PROVE  /\ \A c \in Code : DraftOK(q, c)'
             /\ CreatorOK(q)'
             /\ RoomOK(q)'
             /\ at'[q] <= clock'
  <2>1. \A c \in Code : DraftOK(q, c)'
    <3> SUFFICES ASSUME NEW c \in Code, draft[q][c] # None
                 PROVE  DraftOK(q, c)'
      BY <1>2, <1>4 DEF DraftOK
    <3>1. tunnel'[c] = tunnel[c] /\ DraftOK(q, c)
      BY <1>1, <1>4 DEF QuotaInv, RowLocks
    <3>2. QED
      BY <1>2, <1>4, <3>1 DEF DraftOK
  <2>2. Creating(q, {"count", "insert", "commit"}) => req[q].acct \in Account
    BY RequestFields DEF Creating, QuotaInv, TypeInv, Position
  <2>3. CreatorOK(q)'
    BY <1>1, <1>2, <1>4, <2>2 DEF CreatorOK, Creating, Release, QuotaInv
  <2>4. RoomOK(q)'
    <3> SUFFICES ASSUME Creating(q, {"insert", "commit"})
                 PROVE  Cardinality(ContinuousOf(req[q].acct)') < MaxTunnels
      BY <1>2, <1>4 DEF RoomOK, Creating
    <3>1. PICK a : a = req[q].acct /\ a = req'[q].acct
      BY <1>2, <1>4
    <3>2. ASSUME NEW c \in ContinuousOf(a)', c \notin ContinuousOf(a)
          PROVE  FALSE
      <4>1. Creating(p, {"commit"}) /\ a = req[p].acct
        BY <3>2, CommitAdds
      <4>2. /\ Creating(p, {"count", "insert", "commit"})
            /\ Creating(q, {"count", "insert", "commit"})
        BY <4>1 DEF Creating
      <4>3. QED
        BY <1>4, <3>1, <4>1, <4>2, CreatorsApart
    <3>3. ContinuousOf(a)' \in SUBSET ContinuousOf(a)
      BY <3>2
    <3>4. ContinuousOf(a) \in SUBSET Code
      BY DEF ContinuousOf, ActiveOf
    <3>5. Cardinality(ContinuousOf(a)) < MaxTunnels
      BY <3>1 DEF QuotaInv, RoomOK
    <3>6. Cardinality(ContinuousOf(a)') < MaxTunnels
      BY <3>3, <3>4, <3>5, CardinalitySubset, MaxTunnelsNat
    <3>7. ContinuousOf(a)' = ContinuousOf(req[q].acct)'
      BY <3>1 DEF ContinuousOf, ActiveOf
    <3>8. QED
      BY <3>6, <3>7
  <2>5. QED
    BY <1>1, <1>2, <1>4, <2>1, <2>3, <2>4 DEF QuotaInv
<1>5. /\ \A c \in Code : DraftOK(p, c)'
      /\ CreatorOK(p)' /\ RoomOK(p)' /\ at'[p] <= clock'
  BY <1>1, <1>2 DEF DraftOK, CreatorOK, RoomOK, Creating, QuotaInv, TypeInv, TypeOK
<1>6. ASSUME NEW a \in Account
      PROVE  Cardinality(ContinuousOf(a)') <= MaxTunnels
  <2> DEFINE S == ContinuousOf(a)
  <2>1. /\ S \in SUBSET Code /\ S' \in SUBSET Code
        /\ Cardinality(S) <= MaxTunnels
    BY <1>6 DEF ContinuousOf, ActiveOf, QuotaInv, ContinuousQuota
  <2>2. CASE S' \subseteq S
    BY <2>1, <2>2, CardinalitySubset, LimitAssumption
  <2>3. CASE ~(S' \subseteq S)
    <3>1. PICK c \in S' : c \notin S
      BY <2>3
    <3>2. /\ Creating(p, {"commit"}) /\ a = req[p].acct /\ draft[p][c] # None
      BY <3>1, CommitAdds
    <3>3. \A d \in Code \ {c} : draft[p][d] = None
      <4>1. c \in Code
        BY <2>1, <3>1
      <4>2. tunnel[c] = None
        BY <3>2, <4>1 DEF QuotaInv, DraftOK, Creating
      <4>3. QED
        BY <3>2, <4>1, <4>2 DEF QuotaInv, DraftOK
    <3>4. S' \subseteq S \cup {c}
      BY <2>1, <3>3, CommitAdds
    <3>5. Cardinality(S) < MaxTunnels
      BY <3>2 DEF QuotaInv, RoomOK, Creating
    <3>6. /\ IsFiniteSet(S) /\ Cardinality(S) \in Nat
          /\ Cardinality(S \cup {c}) = Cardinality(S) + 1
      BY <2>1, <3>1, CodeAssumption, FS_Subset, FS_AddElement, CardinalitySubset
    <3>7. S \cup {c} \in SUBSET Code
      BY <2>1, <3>1
    <3>8. Cardinality(S') \in Nat /\ Cardinality(S') <= Cardinality(S \cup {c})
      BY <3>4, <3>7, CardinalitySubset
    <3>9. QED
      BY <3>5, <3>6, <3>8, LimitAssumption
  <2>4. QED
    BY <2>2, <2>3
<1>7. ContinuousQuota'
  BY <1>6 DEF ContinuousQuota, ContinuousOf
<1>8. QED
  BY <1>3, <1>4, <1>5, <1>7 DEF QuotaInv

\* As time passes, tunnels lapse and none becomes active.
LEMMA EnvironmentQuota ==
    ASSUME QuotaInv, TypeInv', Environment \/ UNCHANGED vars
    PROVE  QuotaInv'
<1>1. /\ UNCHANGED <<tunnel, revived, pc, req, at, draft, accountLock>>
      /\ clock' \in Nat /\ clock \in Nat /\ clock <= clock'
  <2>1. /\ UNCHANGED <<tunnel, revived, pc, req, at, draft, accountLock>>
        /\ clock' = clock \/ clock' = clock + 1
    <3>1. CASE Tick
      BY <3>1 DEF Tick
    <3>2. ASSUME NEW c \in Code, Report(c)
          PROVE  UNCHANGED <<clock, tunnel, revived, pc, req, at, draft, accountLock>>
      BY <3>2 DEF Report
    <3>3. ASSUME NEW a \in Account, SetStatus(a)
          PROVE  UNCHANGED <<clock, tunnel, revived, pc, req, at, draft, accountLock>>
      BY <3>3 DEF SetStatus
    <3>4. CASE UNCHANGED vars
      BY <3>4 DEF vars
    <3>5. QED
      BY <3>1, <3>2, <3>3, <3>4 DEF Environment
  <2>2. clock \in Nat
    BY DEF QuotaInv, TypeInv, TypeOK
  <2>3. QED
    BY <2>1, <2>2
<1>2. /\ RowLocks'
      /\ \A p \in Proc : /\ \A c \in Code : DraftOK(p, c)'
                         /\ CreatorOK(p)'
  BY <1>1 DEF QuotaInv, RowLocks, DraftOK, CreatorOK, Creating
<1>3. \A p \in Proc : at'[p] <= clock'
  BY <1>1 DEF QuotaInv, TypeInv, TypeOK
<1>4. ASSUME NEW a
      PROVE  /\ Cardinality(ContinuousOf(a)') \in Nat
             /\ Cardinality(ContinuousOf(a)) \in Nat
             /\ Cardinality(ContinuousOf(a)') <= Cardinality(ContinuousOf(a))
  <2>1. ContinuousOf(a)' \subseteq ContinuousOf(a)
    <3> SUFFICES ASSUME NEW c \in ContinuousOf(a)'
                 PROVE  c \in ContinuousOf(a)
      OBVIOUS
    <3>1. /\ c \in Code /\ tunnel[c] # None /\ tunnel[c].acct = a
          /\ tunnel[c].exp > clock' /\ c \notin revived
      BY <1>1 DEF ContinuousOf, ActiveOf, Active
    <3>2. tunnel[c].exp \in Nat
      BY <3>1 DEF QuotaInv, TypeInv, TypeOK, Tunnel
    <3>3. QED
      BY <1>1, <3>1, <3>2 DEF ContinuousOf, ActiveOf, Active
  <2>2. ContinuousOf(a) \in SUBSET Code
    BY DEF ContinuousOf, ActiveOf
  <2>3. QED
    BY <2>1, <2>2, CardinalitySubset
<1>5. ASSUME NEW p \in Proc
      PROVE  RoomOK(p)'
  <2> SUFFICES ASSUME Creating(p, {"insert", "commit"})
               PROVE  Cardinality(ContinuousOf(req[p].acct)') < MaxTunnels
    BY <1>1 DEF RoomOK, Creating
  <2>1. PICK a : a = req[p].acct /\ a = req'[p].acct
    BY <1>1
  <2>2. Cardinality(ContinuousOf(a)) < MaxTunnels
    BY <2>1, <1>5 DEF QuotaInv, RoomOK
  <2>3. Cardinality(ContinuousOf(a)') < MaxTunnels
    <3>1. /\ Cardinality(ContinuousOf(a)') \in Nat
          /\ Cardinality(ContinuousOf(a)) \in Nat
          /\ Cardinality(ContinuousOf(a)') <= Cardinality(ContinuousOf(a))
      BY <1>4
    <3>2. QED
      BY <2>2, <3>1, MaxTunnelsNat
  <2>4. ContinuousOf(a)' = ContinuousOf(req[p].acct)'
    BY <2>1 DEF ContinuousOf, ActiveOf
  <2>5. QED
    BY <2>3, <2>4
<1>6. ContinuousQuota'
  <2>1. ASSUME NEW a \in Account
        PROVE  Cardinality(ContinuousOf(a)') <= MaxTunnels
    <3>1. /\ Cardinality(ContinuousOf(a)') \in Nat
          /\ Cardinality(ContinuousOf(a)) \in Nat
          /\ Cardinality(ContinuousOf(a)') <= Cardinality(ContinuousOf(a))
      BY <1>4
    <3>2. Cardinality(ContinuousOf(a)) <= MaxTunnels
      BY <2>1 DEF QuotaInv, ContinuousQuota, ContinuousOf
    <3>3. QED
      BY <3>1, <3>2, MaxTunnelsNat
  <2>2. QED
    BY <2>1 DEF ContinuousQuota, ContinuousOf
<1>7. QED
  BY <1>2, <1>3, <1>5, <1>6 DEF QuotaInv

\* There are no tunnels at first.
LEMMA QuotaInit == Init => QuotaInv
<1> SUFFICES ASSUME Init
             PROVE  QuotaInv
  OBVIOUS
<1>1. TypeInv
  BY TypeInit
<1>2. /\ RowLocks
      /\ \A p \in Proc : /\ \A c \in Code : DraftOK(p, c)
                         /\ CreatorOK(p) /\ RoomOK(p) /\ at[p] <= clock
  BY DEF Init, RowLocks, DraftOK, CreatorOK, RoomOK, Creating
<1>3. ASSUME NEW a \in Account
      PROVE  Cardinality(ActiveOf(a) \ revived) <= MaxTunnels
  <2>1. ActiveOf(a) \ revived = {}
    BY DEF ActiveOf, Active, Init
  <2>2. Cardinality({}) = 0
    BY FS_EmptySet
  <2>3. QED
    BY <2>1, <2>2, MaxTunnelsNat
<1>4. QED
  BY <1>1, <1>2, <1>3 DEF QuotaInv, ContinuousQuota

\* Every step keeps the quota and what it rests on.
LEMMA QuotaStep == QuotaInv /\ [Next]_vars => QuotaInv'
<1> SUFFICES ASSUME QuotaInv, [Next]_vars
             PROVE  QuotaInv'
  OBVIOUS
<1>1. TypeInv /\ TypeInv'
  BY TypeStep DEF QuotaInv
<1>2. ASSUME NEW p \in Proc, Accept(p)
      PROVE  QuotaInv'
  BY <1>1, <1>2, StartQuota DEF Accept
<1>3. ASSUME NEW p \in Proc, Lock(p)
      PROVE  QuotaInv'
  <2>1. CASE LockTunnel(p)
    BY <1>1, <2>1, LockTunnelQuota
  <2>2. CASE LockAccount(p)
    BY <1>1, <2>2, LockAccountQuota
  <2>3. CASE LockNamespaceTunnels(p) \/ LockAgedTunnels(p)
    BY <1>1, <2>3, LockForDeletionQuota
  <2>4. CASE LockUnsettledMetering(p)
    BY <1>1, <2>4, LockUnsettledMeteringQuota
  <2>5. CASE RefreshSettledTunnel(p)
    <3>1. req[p].op = "settle"
      BY <1>1, <2>5 DEF RefreshSettledTunnel, TypeInv, Position
    <3>2. QED
      BY <1>1, <2>5, <3>1, RefreshSettledTunnelQuota
  <2>6. CASE LockSettledAccount(p)
    <3>1. req[p].op = "settle"
      BY <1>1, <2>6 DEF LockSettledAccount, TypeInv, Position
    <3>2. QED
      BY <1>1, <2>6, <3>1, LockSettledAccountQuota
  <2>7. QED
    BY <1>3, <2>1, <2>2, <2>3, <2>4, <2>5, <2>6 DEF Lock
<1>4. ASSUME NEW p \in Proc, Change(p)
      PROVE  QuotaInv'
  <2>1. CASE CountTunnels(p)
    BY <1>1, <2>1, CountTunnelsQuota
  <2>2. CASE Writes(p)
    BY <1>1, <2>2, WritesQuota
  <2>3. CASE \E c \in Code : InsertTunnel(p, c)
    BY <1>1, <2>3, InsertTunnelQuota
  <2>4. QED
    BY <1>4, <2>1, <2>2, <2>3 DEF Change, Writes
<1>5. ASSUME NEW p \in Proc, Commit(p)
      PROVE  QuotaInv'
  BY <1>1, <1>5, CommitQuota
<1>6. ASSUME NEW p \in Proc, AbortWait(p) \/ Fail(p)
      PROVE  QuotaInv'
  <2>1. CASE AbortWait(p)
    BY <1>1, <2>1, RollbackQuota DEF AbortWait
  <2>2. CASE Fail(p)
    BY <1>1, <2>2, ReleaseFrame DEF Fail
  <2>3. QED
    BY <1>6, <2>1, <2>2
<1>7. CASE Environment \/ UNCHANGED vars
  BY <1>1, <1>7, EnvironmentQuota
<1>8. QED
  BY <1>2, <1>3, <1>4, <1>5, <1>6, <1>7 DEF Next

\* In every instance, with any number of replicas and whatever fails, an
\* account never has more than MaxTunnels tunnels that have been active ever
\* since CreateTunnel inserted them.
THEOREM QuotaCorrect == Spec => []ContinuousQuota
<1>1. Spec => []QuotaInv
  BY QuotaInit, QuotaStep, PTL DEF Spec
<1>2. QuotaInv => ContinuousQuota
  BY DEF QuotaInv
<1>3. QED
  BY <1>1, <1>2, PTL
=============================================================================
