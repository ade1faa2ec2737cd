------------------------- MODULE ProvisioningProofs -------------------------
(***************************************************************************)
(* Theorems about Provisioning, for any number of domains, users, replicas *)
(* and rotations: type correctness, the implementation of Identities, and  *)
(* KeyNamesIdentity.  All follow from one invariant, ProvisioningInv.      *)
(***************************************************************************)
EXTENDS Provisioning, TLAPS

Holds(p) == pc[p] \in {"user", "commit"}

\* What a request's next statement says about its draft.
PositionOK ==
    \A p \in Proc :
        /\ pc[p] # "idle" => req[p] # None
        /\ Holds(p) <=> draft[p].account # None
        /\ pc[p] = "commit" <=> draft[p].identity # None

\* The unique keys of the two tables.
RowsUnique ==
    /\ \A d, e \in Domain : account[d] # None /\ account[e] # None /\ d # e
                            => account[d].id # account[e].id
    /\ \A u, v \in User : identity[u] # None /\ identity[v] # None /\ u # v
                          => identity[u].ns # identity[v].ns

\* A draft has the stored row, or one that nobody else has.
AccountDraft(p) ==
    LET d == DomainOf[req[p].user]
        a == draft[p].account
    IN  /\ a.active
        /\ account[d] # None => a = account[d]
        /\ \A e \in Domain \ {d} : account[e] # None => account[e].id # a.id

UserDraft(p) ==
    LET u == req[p].user
        i == draft[p].identity
    IN  /\ i.active /\ i.key = req[p]
        /\ identity[u] # None => i = [identity[u] EXCEPT !.key = req[p]]
        /\ \A v \in User \ {u} : identity[v] # None => identity[v].ns # i.ns

DraftsOK ==
    \A p \in Proc : /\ Holds(p) => AccountDraft(p)
                    /\ pc[p] = "commit" => UserDraft(p)

\* The transactions that hold rows have different ones.
LocksOK ==
    \A p, q \in Proc : p # q /\ Holds(p) /\ Holds(q) =>
        /\ DomainOf[req[p].user] # DomainOf[req[q].user]
        /\ draft[p].account.id # draft[q].account.id
        /\ pc[p] = "commit" /\ pc[q] = "commit"
           => draft[p].identity.ns # draft[q].identity.ns

\* What was answered is what is stored, but for a key replaced since.
AnswersOK ==
    /\ \A u \in User : identity[u] # None => identity[u].key.user = u
    /\ \A a \in answers :
          /\ a.key.user = a.user
          /\ identity[a.user] # None /\ identity[a.user].ns = a.ns
          /\ account[DomainOf[a.user]].id = a.account

\* Before the first rotation there is one secret.
SecretsOK ==
    configured = 0 =>
        /\ \A r \in Replica : secret[r] = 0
        /\ \A p \in Proc : req[p] # None => req[p].secret = 0
        /\ \A u \in User : identity[u] # None => identity[u].key.secret = 0
        /\ \A a \in answers : a.key.secret = 0

ProvisioningInv ==
    /\ TypeOK /\ PositionOK /\ RowsUnique /\ DraftsOK /\ LocksOK
    /\ AnswersOK /\ SecretsOK

-----------------------------------------------------------------------------

\* There are no accounts, users and answers at first.
LEMMA InitInv ==
    ASSUME ProvisioningAssumption, Init
    PROVE  ProvisioningInv
<1>1. TypeOK
  BY DEF ProvisioningAssumption, Init, I!Init, TypeOK, NoDraft, Secret
<1>2. PositionOK /\ RowsUnique /\ DraftsOK /\ LocksOK
  BY DEF Init, I!Init, PositionOK, RowsUnique, DraftsOK, LocksOK, Holds, NoDraft
<1>3. AnswersOK /\ SecretsOK
  BY DEF Init, I!Init, AnswersOK, SecretsOK
<1>4. QED
  BY <1>1, <1>2, <1>3 DEF ProvisioningInv

\* Requests that end take nothing with them that others rely on.
LEMMA ReleaseStep ==
    ASSUME ProvisioningAssumption, ProvisioningInv,
           NEW ps \in SUBSET Proc, Release(ps),
           UNCHANGED <<identities, configured>>,
           secret' \in [Replica -> Secret], failures' \in 0 .. MaxFailures,
           configured = 0 => \A r \in Replica : secret'[r] = 0
    PROVE  ProvisioningInv'
<1> USE DEF ProvisioningInv, TypeOK, Release, identities, NoDraft
<1>1. TypeOK'
  OBVIOUS
<1>2. PositionOK'
  BY DEF PositionOK, Holds
<1>3. RowsUnique'
  BY DEF RowsUnique
<1>4. DraftsOK'
  BY DEF DraftsOK, Holds, AccountDraft, UserDraft
<1>5. LocksOK'
  BY DEF LocksOK, Holds
<1>6. AnswersOK' /\ SecretsOK'
  BY DEF AnswersOK, SecretsOK
<1>7. QED
  BY <1>1, <1>2, <1>3, <1>4, <1>5, <1>6

\* A request begins with an empty draft.
LEMMA BeginStep ==
    ASSUME ProvisioningAssumption, ProvisioningInv,
           NEW p \in Proc, NEW u \in User, Begin(p, u)
    PROVE  ProvisioningInv'
<1> USE DEF ProvisioningInv, TypeOK, Begin, identities
<1>1. I!For(secret[On[p]], u) \in I!Key
  BY DEF I!For, I!Key, ProvisioningAssumption
<1>2. TypeOK'
  BY <1>1
<1>3. PositionOK'
  BY <1>1 DEF PositionOK, Holds, ProvisioningAssumption
<1>4. RowsUnique' /\ AnswersOK'
  BY DEF RowsUnique, AnswersOK
<1>5. DraftsOK'
  BY DEF DraftsOK, Holds, AccountDraft, UserDraft
<1>6. LocksOK'
  BY DEF LocksOK, Holds
<1>7. SecretsOK'
  BY DEF SecretsOK, I!For, ProvisioningAssumption
<1>8. QED
  BY <1>2, <1>3, <1>4, <1>5, <1>6, <1>7

\* A seed is none of the uncommitted rows' identifiers.
LEMMA SeedsNew ==
    /\ SeedAccounts \subseteq Id /\ SeedNamespaces \subseteq Id
    /\ \A q \in Proc : draft[q].account # None
                       => draft[q].account.id \notin SeedAccounts
    /\ \A q \in Proc : draft[q].identity # None
                       => draft[q].identity.ns \notin SeedNamespaces
BY DEF SeedAccounts, SeedNamespaces

\* The row that LockAccount has found and locked.
LEMMA LockAccountStep ==
    ASSUME ProvisioningAssumption, ProvisioningInv,
           NEW p \in Proc, pc[p] = "account",
           AccountFree(DomainOf[req[p].user]),
           NEW a \in AccountFound(DomainOf[req[p].user]), a # None, a.active,
           pc' = [pc EXCEPT ![p] = "user"],
           draft' = [draft EXCEPT ![p].account = a],
           UNCHANGED <<identities, configured, secret, req, failures>>
    PROVE  ProvisioningInv'
<1> DEFINE d == DomainOf[req[p].user]
<1> USE DEF ProvisioningInv, TypeOK, identities
<1>1. req[p] \in I!Key /\ req[p].user \in User /\ d \in Domain
  BY DEF PositionOK, I!Key, ProvisioningAssumption
<1>2. \/ account[d] # None /\ a = account[d]
      \/ /\ account[d] = None
         /\ \E n \in SeedAccounts \ I!AccountIds : a = [id |-> n, active |-> TRUE]
  <2>1. CASE account[d] = None
    <3>1. PICK n \in SeedAccounts :
             a = IF n \in I!AccountIds THEN None ELSE [id |-> n, active |-> TRUE]
      BY <2>1 DEF AccountFound
    <3>2. n \notin I!AccountIds
      BY <3>1
    <3>3. QED
      BY <2>1, <3>1, <3>2
  <2>2. CASE account[d] # None
    BY <2>2 DEF AccountFound
  <2>3. QED
    BY <2>1, <2>2
<1>3. a \in I!Account
  <2>1. CASE account[d] # None /\ a = account[d]
    BY <1>1, <2>1
  <2>2. CASE \E n \in SeedAccounts : a = [id |-> n, active |-> TRUE]
    BY <2>2, SeedsNew DEF I!Account
  <2>3. QED
    BY <1>2, <2>1, <2>2
<1>4. TypeOK'
  BY <1>3
<1>5. PositionOK'
  BY DEF PositionOK, Holds
<1>6. RowsUnique' /\ AnswersOK' /\ SecretsOK'
  BY DEF RowsUnique, AnswersOK, SecretsOK
<1>7. \A e \in Domain \ {d} : account[e] # None => account[e].id # a.id
  BY <1>1, <1>2 DEF RowsUnique, I!AccountIds
<1>8. AccountDraft(p)'
  <2>1. draft'[p].account = a
    OBVIOUS
  <2>2. QED
    BY <1>2, <1>7, <2>1 DEF AccountDraft
<1>9. DraftsOK'
  <2> SUFFICES ASSUME NEW q \in Proc, q # p
               PROVE  /\ Holds(q)' => AccountDraft(q)'
                      /\ pc'[q] = "commit" => UserDraft(q)'
    BY <1>8 DEF DraftsOK
  <2>1. QED
    BY DEF DraftsOK, Holds, AccountDraft, UserDraft
<1>10. ASSUME NEW q \in Proc, q # p, Holds(q)
       PROVE  DomainOf[req[q].user] # d /\ draft[q].account.id # a.id
  <2>1. DomainOf[req[q].user] # d
    BY <1>10 DEF AccountFree, Holds
  <2>2. DomainOf[req[q].user] \in Domain
    BY <1>10 DEF PositionOK, Holds, I!Key, ProvisioningAssumption
  <2>3. CASE account[d] # None /\ a = account[d]
    BY <1>1, <1>10, <2>1, <2>2, <2>3 DEF DraftsOK, AccountDraft
  <2>4. CASE a.id \in SeedAccounts
    <3>1. draft[q].account # None
      BY <1>10 DEF PositionOK
    <3>2. QED
      BY <2>1, <2>4, <3>1, SeedsNew
  <2>5. QED
    BY <1>2, <2>1, <2>3, <2>4
<1>11. LocksOK'
  <2> SUFFICES ASSUME NEW q \in Proc, NEW r \in Proc, q # r,
                      Holds(q)', Holds(r)'
               PROVE  /\ DomainOf[req[q].user] # DomainOf[req[r].user]
                      /\ draft'[q].account.id # draft'[r].account.id
                      /\ pc'[q] = "commit" /\ pc'[r] = "commit"
                         => draft'[q].identity.ns # draft'[r].identity.ns
    BY DEF LocksOK
  <2>1. CASE q = p
    BY <1>10, <2>1 DEF Holds
  <2>2. CASE r = p
    BY <1>10, <2>2 DEF Holds
  <2>3. CASE q # p /\ r # p
    BY <2>3 DEF LocksOK, Holds
  <2>4. QED
    BY <2>1, <2>2, <2>3
<1>12. QED
  BY <1>4, <1>5, <1>6, <1>9, <1>11

\* The row that LockUser has found and locked.
LEMMA LockUserStep ==
    ASSUME ProvisioningAssumption, ProvisioningInv,
           NEW p \in Proc, pc[p] = "user",
           NEW i \in UserFound(req[p].user, req[p]), i # None, i.active,
           pc' = [pc EXCEPT ![p] = "commit"],
           draft' = [draft EXCEPT ![p].identity = i],
           UNCHANGED <<identities, configured, secret, req, failures>>
    PROVE  ProvisioningInv'
<1> DEFINE u == req[p].user
<1> USE DEF ProvisioningInv, TypeOK, identities
<1>1. req[p] \in I!Key /\ u \in User
  BY DEF PositionOK, I!Key
<1>2. \/ identity[u] # None /\ i = [identity[u] EXCEPT !.key = req[p]]
      \/ /\ identity[u] = None
         /\ \E n \in SeedNamespaces \ I!Namespaces :
               i = [ns |-> n, key |-> req[p], active |-> TRUE]
  <2>1. CASE identity[u] = None
    <3>1. PICK n \in SeedNamespaces :
             i = IF n \in I!Namespaces THEN None
                 ELSE [ns |-> n, key |-> req[p], active |-> TRUE]
      BY <2>1 DEF UserFound
    <3>2. n \notin I!Namespaces
      BY <3>1
    <3>3. QED
      BY <2>1, <3>1, <3>2
  <2>2. CASE identity[u] # None
    BY <2>2 DEF UserFound
  <2>3. QED
    BY <2>1, <2>2
<1>3. i \in I!Identity /\ i.key = req[p]
  <2>1. CASE identity[u] # None /\ i = [identity[u] EXCEPT !.key = req[p]]
    <3>1. identity[u] \in I!Identity
      BY <1>1, <2>1
    <3>2. QED
      BY <1>1, <2>1, <3>1 DEF I!Identity
  <2>2. CASE \E n \in SeedNamespaces :
                i = [ns |-> n, key |-> req[p], active |-> TRUE]
    BY <1>1, <2>2, SeedsNew DEF I!Identity
  <2>3. QED
    BY <1>2, <2>1, <2>2
<1>4. TypeOK'
  BY <1>3
<1>5. PositionOK'
  BY DEF PositionOK, Holds
<1>6. RowsUnique' /\ AnswersOK' /\ SecretsOK'
  BY DEF RowsUnique, AnswersOK, SecretsOK
<1>7. \A v \in User \ {u} : identity[v] # None => identity[v].ns # i.ns
  <2>1. CASE identity[u] # None /\ i = [identity[u] EXCEPT !.key = req[p]]
    <3>1. i.ns = identity[u].ns
      BY <1>1, <2>1 DEF I!Identity
    <3>2. QED
      BY <1>1, <2>1, <3>1 DEF RowsUnique
  <2>2. CASE i.ns \notin I!Namespaces
    BY <2>2 DEF I!Namespaces
  <2>3. QED
    BY <1>2, <2>1, <2>2
<1>8. UserDraft(p)'
  <2>1. draft'[p].identity = i
    OBVIOUS
  <2>2. QED
    BY <1>2, <1>3, <1>7, <2>1 DEF UserDraft
<1>9. DraftsOK'
  <2>1. AccountDraft(p)'
    BY DEF DraftsOK, Holds, AccountDraft
  <2>2. \A q \in Proc \ {p} : /\ Holds(q)' => AccountDraft(q)'
                              /\ pc'[q] = "commit" => UserDraft(q)'
    BY DEF DraftsOK, Holds, AccountDraft, UserDraft
  <2>3. QED
    BY <1>8, <2>1, <2>2 DEF DraftsOK
<1>10. ASSUME NEW q \in Proc, q # p, pc[q] = "commit"
       PROVE  draft[q].identity.ns # i.ns
  <2>1. req[q].user # u /\ req[q].user \in User
    BY <1>10 DEF LocksOK, Holds, PositionOK, I!Key
  <2>2. CASE identity[u] # None /\ i = [identity[u] EXCEPT !.key = req[p]]
    <3>1. i.ns = identity[u].ns
      BY <1>1, <2>2 DEF I!Identity
    <3>2. QED
      <4>1. UserDraft(q)
        BY <1>10 DEF DraftsOK
      <4>2. QED
        BY <1>1, <2>1, <2>2, <3>1, <4>1 DEF UserDraft
  <2>3. CASE i.ns \in SeedNamespaces
    BY <1>10, <2>3, SeedsNew DEF PositionOK
  <2>4. QED
    BY <1>2, <2>2, <2>3
<1>11. LocksOK'
  <2> SUFFICES ASSUME NEW q \in Proc, NEW r \in Proc, q # r,
                      Holds(q)', Holds(r)'
               PROVE  /\ DomainOf[req[q].user] # DomainOf[req[r].user]
                      /\ draft'[q].account.id # draft'[r].account.id
                      /\ pc'[q] = "commit" /\ pc'[r] = "commit"
                         => draft'[q].identity.ns # draft'[r].identity.ns
    BY DEF LocksOK
  <2>1. Holds(q) /\ Holds(r)
    BY DEF Holds
  <2>2. /\ DomainOf[req[q].user] # DomainOf[req[r].user]
        /\ draft'[q].account.id # draft'[r].account.id
    BY <2>1 DEF LocksOK
  <2>3. ASSUME pc'[q] = "commit" /\ pc'[r] = "commit"
        PROVE  draft'[q].identity.ns # draft'[r].identity.ns
    <3>1. CASE q = p
      BY <1>10, <2>3, <3>1
    <3>2. CASE r = p
      BY <1>10, <2>3, <3>2
    <3>3. CASE q # p /\ r # p
      BY <2>1, <2>3, <3>3 DEF LocksOK
    <3>4. QED
      BY <3>1, <3>2, <3>3
  <2>4. QED
    BY <2>2, <2>3
<1>12. QED
  BY <1>4, <1>5, <1>6, <1>9, <1>11

\* What a request that commits writes.
LEMMA Committed ==
    ASSUME ProvisioningAssumption, ProvisioningInv,
           NEW p \in Proc, pc[p] = "commit"
    PROVE  /\ req[p] \in I!Key /\ req[p].user \in User
           /\ req[p].secret \in Secret
           /\ DomainOf[req[p].user] \in Domain
           /\ draft[p].account \in I!Account
           /\ draft[p].identity \in I!Identity
           /\ AccountDraft(p) /\ UserDraft(p)
<1> USE DEF ProvisioningInv, TypeOK, PositionOK, Holds
<1>1. req[p] \in I!Key /\ draft[p].account # None /\ draft[p].identity # None
  OBVIOUS
<1>2. /\ req[p].user \in User /\ req[p].secret \in Secret
      /\ DomainOf[req[p].user] \in Domain
  BY <1>1 DEF I!Key, ProvisioningAssumption
<1>3. draft[p].account \in I!Account /\ draft[p].identity \in I!Identity
  BY <1>1
<1>4. AccountDraft(p) /\ UserDraft(p)
  BY DEF DraftsOK
<1>5. QED
  BY <1>1, <1>2, <1>3, <1>4

\* A commit publishes rows that agree with all others and with all answers.
LEMMA CommitStep ==
    ASSUME ProvisioningAssumption, ProvisioningInv, NEW p \in Proc, Commit(p)
    PROVE  ProvisioningInv'
<1> DEFINE u == req[p].user
           d == DomainOf[u]
           a == draft[p].account
           i == draft[p].identity
           new == [user |-> u, account |-> a.id, ns |-> i.ns, key |-> req[p]]
<1>0. /\ pc[p] = "commit" /\ u \in User /\ d \in Domain
      /\ a \in I!Account /\ i \in I!Identity /\ req[p] \in I!Key
      /\ AccountDraft(p) /\ UserDraft(p)
  BY Committed DEF Commit
<1>1. /\ account' = [account EXCEPT ![d] = a]
      /\ identity' = [identity EXCEPT ![u] = i]
      /\ answers' \in {answers, answers \cup {new}}
      /\ UNCHANGED <<configured, secret, failures>>
  BY DEF Commit
<1>2. /\ pc' = [q \in Proc |-> IF q = p THEN "idle" ELSE pc[q]]
      /\ req' = [q \in Proc |-> IF q = p THEN None ELSE req[q]]
      /\ draft' = [q \in Proc |-> IF q = p THEN NoDraft ELSE draft[q]]
  BY DEF Commit, Release
<1>3. a # None /\ i # None
  BY <1>0 DEF ProvisioningAssumption
<1> USE DEF ProvisioningInv, TypeOK
<1>4. TypeOK'
  <2>1. new \in I!Answer
    BY <1>0 DEF I!Answer, I!Account, I!Identity
  <2>2. answers' \subseteq I!Answer
    BY <1>1, <2>1
  <2>3. /\ account' \in [Domain -> I!Account \cup {None}]
        /\ identity' \in [User -> I!Identity \cup {None}]
    BY <1>0, <1>1
  <2>4. \A v \in User : identity'[v] # None => account'[DomainOf[v]] # None
    BY <1>0, <1>1, <1>3 DEF ProvisioningAssumption
  <2>5. QED
    BY <1>1, <1>2, <2>2, <2>3, <2>4 DEF NoDraft
<1>5. PositionOK'
  BY <1>2 DEF PositionOK, Holds, NoDraft
<1>6. RowsUnique'
  <2>1. \A e \in Domain \ {d} : account[e] # None => account[e].id # a.id
    BY <1>0 DEF AccountDraft
  <2>2. \A v \in User \ {u} : identity[v] # None => identity[v].ns # i.ns
    BY <1>0 DEF UserDraft
  <2>3. QED
    BY <1>0, <1>1, <2>1, <2>2 DEF RowsUnique
<1>7. ASSUME NEW q \in Proc \ {p}, Holds(q)
      PROVE  AccountDraft(q)' /\ (pc[q] = "commit" => UserDraft(q)')
  <2>1. req[q].user \in User /\ DomainOf[req[q].user] \in Domain
    BY <1>7 DEF PositionOK, Holds, I!Key, ProvisioningAssumption
  <2>2. DomainOf[req[q].user] # d /\ draft[q].account.id # a.id
    BY <1>0, <1>7 DEF LocksOK, Holds
  <2>3. AccountDraft(q)
    BY <1>7 DEF DraftsOK
  <2>4. AccountDraft(q)'
    BY <1>0, <1>1, <1>2, <2>1, <2>2, <2>3 DEF AccountDraft
  <2>5. ASSUME pc[q] = "commit"  PROVE UserDraft(q)'
    <3>1. UserDraft(q) /\ draft[q].identity.ns # i.ns
      BY <1>0, <1>7, <2>5 DEF DraftsOK, LocksOK, Holds
    <3>2. QED
      BY <1>0, <1>1, <1>2, <2>1, <2>2, <3>1 DEF UserDraft
  <2>6. QED
    BY <2>4, <2>5
<1>8. DraftsOK'
  BY <1>2, <1>7 DEF DraftsOK, Holds
<1>9. LocksOK'
  BY <1>2 DEF LocksOK, Holds
<1>10. AnswersOK'
  <2>1. i.key.user = u /\ req[p].user = u
    BY <1>0 DEF UserDraft
  <2>2. \A v \in User : identity'[v] # None => identity'[v].key.user = v
    BY <1>0, <1>1, <2>1 DEF AnswersOK
  <2>3. identity[u] # None => i.ns = identity[u].ns
    BY <1>0 DEF UserDraft, I!Identity
  <2>4. ASSUME NEW b \in answers
        PROVE  /\ b.key.user = b.user
               /\ identity'[b.user] # None /\ identity'[b.user].ns = b.ns
               /\ account'[DomainOf[b.user]].id = b.account
    <3>1. /\ b.key.user = b.user
          /\ identity[b.user] # None /\ identity[b.user].ns = b.ns
          /\ account[DomainOf[b.user]].id = b.account
          /\ b.user \in User
      BY DEF AnswersOK, I!Answer
    <3>2. DomainOf[b.user] \in Domain /\ account[DomainOf[b.user]] # None
      BY <3>1 DEF ProvisioningAssumption
    <3>3. identity'[b.user] # None /\ identity'[b.user].ns = b.ns
      BY <1>0, <1>1, <1>3, <2>3, <3>1
    <3>4. account'[DomainOf[b.user]].id = b.account
      BY <1>0, <1>1, <3>1, <3>2 DEF AccountDraft
    <3>5. QED
      BY <3>1, <3>3, <3>4
  <2>5. /\ new.key.user = new.user
        /\ identity'[new.user] # None /\ identity'[new.user].ns = new.ns
        /\ account'[DomainOf[new.user]].id = new.account
    BY <1>0, <1>1, <1>3
  <2>6. QED
    BY <1>1, <2>2, <2>4, <2>5 DEF AnswersOK
<1>11. SecretsOK'
  <2>1. i.key = req[p] /\ req[p] # None
    BY <1>0 DEF UserDraft, PositionOK
  <2>2. QED
    BY <1>0, <1>1, <1>2, <2>1 DEF SecretsOK
<1>12. QED
  BY <1>4, <1>5, <1>6, <1>8, <1>9, <1>10, <1>11

\* An operator changes a row that no transaction holds.
LEMMA OperatorStep ==
    ASSUME ProvisioningAssumption, ProvisioningInv,
           \/ \E d \in Domain : SetAccountStatus(d)
           \/ \E u \in User : SetUserStatus(u)
    PROVE  ProvisioningInv'
<1> USE DEF ProvisioningInv, TypeOK
<1>1. ASSUME NEW d \in Domain, SetAccountStatus(d)  PROVE ProvisioningInv'
  <2>1. /\ account[d] \in I!Account
        /\ account' = [account EXCEPT ![d] = [account[d] EXCEPT !.active = ~@]]
        /\ UNCHANGED <<identity, answers, configured, secret, pc, req, draft,
                       failures>>
    BY <1>1 DEF SetAccountStatus, I!SetAccountStatus
  <2>2. /\ account'[d] \in I!Account /\ account'[d].id = account[d].id
        /\ account'[d] # None
    BY <2>1 DEF I!Account, ProvisioningAssumption
  <2>3. \A q \in Proc : Holds(q) => DomainOf[req[q].user] # d
    BY <1>1 DEF SetAccountStatus, AccountFree, Holds
  <2>4. TypeOK'
    BY <2>1, <2>2
  <2>5. PositionOK' /\ LocksOK'
    BY <2>1 DEF PositionOK, LocksOK, Holds
  <2>6. RowsUnique'
    BY <2>1, <2>2 DEF RowsUnique
  <2>7. DraftsOK'
    <3>1. \A q \in Proc : Holds(q) => DomainOf[req[q].user] \in Domain
      BY DEF PositionOK, Holds, I!Key, ProvisioningAssumption
    <3>2. QED
      BY <2>1, <2>2, <2>3, <3>1 DEF DraftsOK, Holds, AccountDraft, UserDraft
  <2>8. AnswersOK' /\ SecretsOK'
    <3>1. \A e \in Domain : account[e] # None => account'[e].id = account[e].id
      BY <2>1, <2>2
    <3>2. \A b \in answers : /\ DomainOf[b.user] \in Domain
                             /\ account[DomainOf[b.user]] # None
      BY DEF AnswersOK, I!Answer, ProvisioningAssumption
    <3>3. QED
      BY <2>1, <3>1, <3>2 DEF AnswersOK, SecretsOK
  <2>9. QED
    BY <2>4, <2>5, <2>6, <2>7, <2>8
<1>2. ASSUME NEW u \in User, SetUserStatus(u)  PROVE ProvisioningInv'
  <2>1. /\ identity[u] \in I!Identity
        /\ identity' = [identity EXCEPT ![u] = [identity[u] EXCEPT !.active = ~@]]
        /\ UNCHANGED <<account, answers, configured, secret, pc, req, draft,
                       failures>>
    BY <1>2 DEF SetUserStatus, I!SetUserStatus
  <2>2. /\ identity'[u] \in I!Identity /\ identity'[u] # None
        /\ identity'[u].ns = identity[u].ns /\ identity'[u].key = identity[u].key
    BY <2>1 DEF I!Identity, ProvisioningAssumption
  <2>3. \A q \in Proc : pc[q] = "commit" => req[q].user # u
    BY <1>2 DEF SetUserStatus, UserFree
  <2>4. TypeOK'
    BY <2>1, <2>2
  <2>5. PositionOK' /\ LocksOK'
    BY <2>1 DEF PositionOK, LocksOK, Holds
  <2>6. RowsUnique'
    BY <2>1, <2>2 DEF RowsUnique
  <2>7. DraftsOK'
    <3>1. \A q \in Proc : pc[q] = "commit" => req[q].user \in User
      BY DEF PositionOK, I!Key
    <3>2. ASSUME NEW q \in Proc, pc[q] = "commit"  PROVE UserDraft(q)'
      <4>1. UserDraft(q) /\ req[q].user \in User /\ req[q].user # u
        BY <2>3, <3>1, <3>2 DEF DraftsOK
      <4>2. /\ identity'[req[q].user] = identity[req[q].user]
            /\ \A v \in User : /\ identity'[v] # None => identity[v] # None
                               /\ identity'[v].ns = identity[v].ns
        BY <2>1, <2>2, <4>1
      <4>3. QED
        BY <2>1, <4>1, <4>2 DEF UserDraft
    <3>3. QED
      BY <2>1, <3>2 DEF DraftsOK, Holds, AccountDraft
  <2>8. AnswersOK' /\ SecretsOK'
    BY <2>1, <2>2 DEF AnswersOK, SecretsOK
  <2>9. QED
    BY <2>4, <2>5, <2>6, <2>7, <2>8
<1>3. QED
  BY <1>1, <1>2

\* A rotation changes the configured secret, which no row depends on.
LEMMA RotateStep ==
    ASSUME ProvisioningAssumption, ProvisioningInv, Rotate
    PROVE  ProvisioningInv'
<1> USE DEF ProvisioningInv, TypeOK, Rotate, identities, Secret
<1>1. TypeOK'
  BY DEF ProvisioningAssumption
<1>2. PositionOK' /\ RowsUnique' /\ LocksOK' /\ AnswersOK'
  BY DEF PositionOK, RowsUnique, LocksOK, AnswersOK, Holds
<1>3. DraftsOK'
  BY DEF DraftsOK, Holds, AccountDraft, UserDraft
<1>4. SecretsOK'
  BY DEF SecretsOK
<1>5. QED
  BY <1>1, <1>2, <1>3, <1>4

\* A step that changes nothing keeps the invariant.
LEMMA StutterStep ==
    ASSUME ProvisioningInv, UNCHANGED vars
    PROVE  ProvisioningInv'
BY DEF vars, ProvisioningInv, TypeOK, PositionOK, RowsUnique, DraftsOK, LocksOK,
       AnswersOK, SecretsOK, Holds, AccountDraft, UserDraft

\* A rollback leaves no trace.
LEMMA RollbackStep ==
    ASSUME ProvisioningAssumption, ProvisioningInv, NEW p \in Proc, Rollback(p)
    PROVE  ProvisioningInv'
BY ReleaseStep DEF Rollback, ProvisioningInv, TypeOK, SecretsOK

\* A request finds the committed rows, or draws identifiers nobody has.
LEMMA StatementStep ==
    ASSUME ProvisioningAssumption, ProvisioningInv, NEW p \in Proc, Statement(p)
    PROVE  ProvisioningInv'
<1>1. CASE LockAccount(p)
  BY <1>1, RollbackStep, LockAccountStep DEF LockAccount
<1>2. CASE LockUser(p)
  BY <1>2, RollbackStep, LockUserStep DEF LockUser
<1>3. CASE Commit(p)
  BY <1>3, CommitStep
<1>4. QED
  BY <1>1, <1>2, <1>3 DEF Statement

\* Every step keeps the invariant.
LEMMA NextInv ==
    ASSUME ProvisioningAssumption, ProvisioningInv, [Next]_vars
    PROVE  ProvisioningInv'
<1>1. ASSUME NEW p \in Proc, NEW u \in User, Begin(p, u)
      PROVE  ProvisioningInv'
  BY <1>1, BeginStep
<1>2. ASSUME NEW p \in Proc, Statement(p)  PROVE ProvisioningInv'
  BY <1>2, StatementStep
<1>3. ASSUME NEW p \in Proc, Fail(p)  PROVE ProvisioningInv'
  <2>1. failures' \in 0 .. MaxFailures
    BY <1>3 DEF Fail, ProvisioningInv, TypeOK, ProvisioningAssumption
  <2>2. QED
    BY <1>3, <2>1, ReleaseStep DEF Fail, ProvisioningInv, TypeOK, SecretsOK
<1>4. ASSUME NEW r \in Replica, Restart(r)  PROVE ProvisioningInv'
  <2>1. failures' \in 0 .. MaxFailures
    BY <1>4 DEF Restart, ProvisioningInv, TypeOK, ProvisioningAssumption
  <2>2. /\ secret' \in [Replica -> Secret]
        /\ configured = 0 => \A q \in Replica : secret'[q] = 0
    BY <1>4 DEF Restart, ProvisioningInv, TypeOK, SecretsOK
  <2>3. /\ Release({p \in Proc : On[p] = r})
        /\ UNCHANGED <<identities, configured>>
    BY <1>4 DEF Restart
  <2>4. QED
    BY <2>1, <2>2, <2>3, ReleaseStep
<1>5. QED
  BY <1>1, <1>2, <1>3, <1>4, OperatorStep, RotateStep, StutterStep DEF Next

-----------------------------------------------------------------------------

\* The invariant holds in every reachable state.
LEMMA InvCorrect == Spec => []ProvisioningInv
<1>1. Init => ProvisioningInv
  BY InitInv, ProvisioningAssumption
<1>2. ProvisioningInv /\ [Next]_vars => ProvisioningInv'
  BY NextInv, ProvisioningAssumption
<1>3. QED
  BY <1>1, <1>2, PTL DEF Spec

\* Store.Provision keeps the types of its tables and transactions, and no
\* identity is without its account.
THEOREM TypeCorrect == Spec => []TypeOK
BY InvCorrect, PTL DEF ProvisioningInv

\* A commit is a step of Identities, and so is an operator's update; every
\* other step changes nothing there.
LEMMA StepRefines ==
    ASSUME ProvisioningAssumption, ProvisioningInv, [Next]_vars
    PROVE  [I!Next]_(I!identities)
<1> USE DEF I!identities, identities
<1>1. ASSUME NEW p \in Proc, Commit(p)  PROVE I!Next
  <2> DEFINE u == req[p].user
             d == DomainOf[u]
             a == draft[p].account
             i == draft[p].identity
  <2>1. /\ u \in User /\ d \in Domain /\ req[p] \in I!Key
        /\ req[p].secret \in Secret
        /\ a \in I!Account /\ i \in I!Identity
        /\ AccountDraft(p) /\ UserDraft(p)
    BY <1>1, Committed DEF Commit
  <2>2. req[p] = I!For(req[p].secret, u)
    BY <2>1 DEF I!Key, I!For
  <2>3. a \in I!AccountRow(d)
    <3>1. CASE account[d] # None
      BY <2>1, <3>1 DEF I!AccountRow, AccountDraft
    <3>2. CASE account[d] = None
      <4>1. a.id \in Id /\ a.active = TRUE /\ a = [id |-> a.id, active |-> a.active]
        BY <2>1 DEF I!Account, AccountDraft
      <4>2. a.id \notin I!AccountIds
        BY <2>1, <3>2 DEF I!AccountIds, AccountDraft
      <4>3. QED
        BY <3>2, <4>1, <4>2 DEF I!AccountRow
    <3>3. QED
      BY <3>1, <3>2
  <2>4. i \in I!IdentityRow(u, req[p])
    <3>1. CASE identity[u] # None
      BY <2>1, <3>1 DEF I!IdentityRow, UserDraft
    <3>2. CASE identity[u] = None
      <4>1. /\ i.ns \in Id /\ i.active = TRUE /\ i.key = req[p]
            /\ i = [ns |-> i.ns, key |-> i.key, active |-> i.active]
        BY <2>1 DEF I!Identity, UserDraft
      <4>2. i.ns \notin I!Namespaces
        BY <2>1, <3>2 DEF I!Namespaces, UserDraft
      <4>3. QED
        BY <3>2, <4>1, <4>2 DEF I!IdentityRow
    <3>3. QED
      BY <3>1, <3>2
  <2>5. a.active /\ i.active
    BY <2>1 DEF AccountDraft, UserDraft
  <2>6. I!Provision(u, req[p])
    BY <1>1, <2>3, <2>4, <2>5 DEF Commit, I!Provision
  <2>7. QED
    BY <2>1, <2>2, <2>6 DEF I!Next
<1>2. ASSUME NEW p \in Proc, LockAccount(p) \/ LockUser(p) \/ Fail(p)
      PROVE  UNCHANGED I!identities
  BY <1>2 DEF LockAccount, LockUser, Fail, Rollback
<1>3. ASSUME NEW d \in Domain, SetAccountStatus(d)  PROVE I!Next
  BY <1>3 DEF SetAccountStatus, I!Next
<1>4. ASSUME NEW u \in User, SetUserStatus(u)  PROVE I!Next
  BY <1>4 DEF SetUserStatus, I!Next
<1>5. QED
  BY <1>1, <1>2, <1>3, <1>4
  DEF Next, Statement, Begin, Restart, Rotate, vars

\* Provisioning is an atomic step on the table of identities, however many
\* requests, replicas, crashes, operators and rotations meet.
THEOREM IdentityCorrect == Spec => IdentitySpec
<1>1. Init => I!Init
  BY DEF Init
<1>2. ProvisioningInv /\ [Next]_vars => [I!Next]_(I!identities)
  BY StepRefines, ProvisioningAssumption
<1>3. QED
  BY <1>1, <1>2, InvCorrect, PTL DEF Spec, IdentitySpec, I!Spec

\* Every key that Store.Provision has handed out authenticates as the identity
\* it was handed out with or not at all, and does before the first rotation.
THEOREM KeysCorrect == Spec => []KeyNamesIdentity
<1>1. ProvisioningInv => KeyNamesIdentity
  <2> SUFFICES ASSUME ProvisioningInv, NEW a \in answers
               PROVE  /\ FindIdentity(a.key) \subseteq {a}
                      /\ /\ configured = 0
                         /\ account[DomainOf[a.user]].active
                         /\ identity[a.user].active
                         => a \in FindIdentity(a.key)
    BY DEF KeyNamesIdentity
  <2> USE DEF ProvisioningInv, TypeOK
  <2>1. /\ a.user \in User /\ a.key.user = a.user
        /\ identity[a.user] # None /\ identity[a.user].ns = a.ns
        /\ account[DomainOf[a.user]].id = a.account
        /\ a = [user |-> a.user, account |-> a.account, ns |-> a.ns,
                key |-> a.key]
    BY DEF AnswersOK, I!Answer
  <2>2. \A v \in User : identity[v] # None /\ identity[v].key = a.key
                        => v = a.user
    BY <2>1 DEF AnswersOK
  <2>3. FindIdentity(a.key) \subseteq {a}
    BY <2>1, <2>2 DEF FindIdentity
  <2>4. configured = 0 => identity[a.user].key = a.key
    <3>1. identity[a.user].key \in I!Key /\ a.key \in I!Key
      BY <2>1 DEF I!Identity, I!Answer
    <3>2. configured = 0 => /\ identity[a.user].key.secret = 0
                            /\ a.key.secret = 0
      BY <2>1 DEF SecretsOK
    <3>3. identity[a.user].key.user = a.key.user
      BY <2>1 DEF AnswersOK
    <3>4. QED
      BY <3>1, <3>2, <3>3 DEF I!Key
  <2>5. ASSUME configured = 0, account[DomainOf[a.user]].active,
               identity[a.user].active
        PROVE  a \in FindIdentity(a.key)
    BY <2>1, <2>4, <2>5 DEF FindIdentity
  <2>6. QED
    BY <2>3, <2>5
<1>2. QED
  BY <1>1, InvCorrect, PTL
=============================================================================
