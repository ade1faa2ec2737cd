---------------------------- MODULE Provisioning ----------------------------
(***************************************************************************)
(* Store.Provision of the management service, statement by statement: any  *)
(* number of concurrent requests on several replicas, an operator who      *)
(* disables accounts and users, crashes, and the rotation of               *)
(* API_KEY_SECRET, which a replica reads when it starts.                   *)
(*                                                                         *)
(* INSERT .. ON DUPLICATE KEY UPDATE and SELECT .. FOR UPDATE wait for a   *)
(* row that another transaction has inserted or locked, and then see what  *)
(* it has committed, so each such pair is one step.                        *)
(***************************************************************************)
EXTENDS Naturals

CONSTANTS
    Domain, User, DomainOf, Id, None,   \* as in Identities
    Replica,
    Proc,           \* request handlers
    On,             \* the replica each of them runs on
    MaxRotations,   \* bound: changes of the deployment's API_KEY_SECRET
    MaxFailures     \* bound: requests cut short and replicas that crash

VARIABLES
    account, identity, answers,     \* as in Identities
    configured,     \* the deployment's API_KEY_SECRET
    secret,         \* the one each replica was started with
    pc,             \* each request's next statement
    req,            \* the key it provisions, which names its user
    draft,          \* the rows its transaction holds, as it will commit them
    failures

Secret == 0 .. MaxRotations

I == INSTANCE Identities

ASSUME ProvisioningAssumption ==
    /\ MaxRotations \in Nat /\ MaxFailures \in Nat
    /\ DomainOf \in [User -> Domain] /\ On \in [Proc -> Replica]
    /\ None \notin I!Account \cup I!Identity \cup I!Key

identities == <<account, identity, answers>>

vars == <<account, identity, answers, configured, secret, pc, req, draft,
          failures>>

NoDraft == [account |-> None, identity |-> None]

TypeOK ==
    /\ account \in [Domain -> I!Account \cup {None}]
    /\ identity \in [User -> I!Identity \cup {None}]
    /\ \A u \in User : identity[u] # None => account[DomainOf[u]] # None
    /\ answers \subseteq I!Answer
    /\ configured \in Secret /\ secret \in [Replica -> Secret]
    /\ pc \in [Proc -> {"idle", "account", "user", "commit"}]
    /\ req \in [Proc -> I!Key \cup {None}]
    /\ draft \in [Proc -> [account : I!Account \cup {None},
                           identity : I!Identity \cup {None}]]
    /\ failures \in 0 .. MaxFailures

Init ==
    /\ I!Init
    /\ configured = 0 /\ secret = [r \in Replica |-> 0]
    /\ pc = [p \in Proc |-> "idle"]
    /\ req = [p \in Proc |-> None]
    /\ draft = [p \in Proc |-> NoDraft]
    /\ failures = 0

-----------------------------------------------------------------------------
(* One provisioning request.                                               *)

\* The transactions of ps end; their locks and uncommitted rows are gone.
Release(ps) ==
    /\ pc' = [p \in Proc |-> IF p \in ps THEN "idle" ELSE pc[p]]
    /\ req' = [p \in Proc |-> IF p \in ps THEN None ELSE req[p]]
    /\ draft' = [p \in Proc |-> IF p \in ps THEN NoDraft ELSE draft[p]]

Rollback(p) ==
    Release({p}) /\ UNCHANGED <<identities, configured, secret, failures>>

\* The trusted proxy names the user; the key follows from the replica's secret.
Begin(p, u) ==
    /\ pc[p] = "idle"
    /\ pc' = [pc EXCEPT ![p] = "account"]
    /\ req' = [req EXCEPT ![p] = I!For(secret[On[p]], u)]
    /\ UNCHANGED <<identities, configured, secret, draft, failures>>

\* Mutant: the row is not locked.
AccountFreeAlways(d) == TRUE

\* No transaction has the domain's row locked, or inserted and uncommitted.
AccountFree(d) ==
    \A q \in Proc : pc[q] \in {"user", "commit"} => DomainOf[req[q].user] # d

UserFree(u) == \A q \in Proc : pc[q] = "commit" => req[q].user # u

\* A new identifier that an uncommitted row has would have to wait for it.
SeedAccounts == Id \ {draft[q].account.id : q \in
                         {r \in Proc : draft[r].account # None}}
SeedNamespaces == Id \ {draft[q].identity.ns : q \in
                           {r \in Proc : draft[r].identity # None}}

\* What the SELECT finds: the domain's row, old or just inserted; none if the
\* INSERT ran into another domain's row with the id it had drawn.
AccountFound(d) ==
    IF account[d] # None THEN {account[d]}
    ELSE {IF i \in I!AccountIds THEN None ELSE [id |-> i, active |-> TRUE] :
             i \in SeedAccounts}

LockAccount(p) ==
    /\ pc[p] = "account"
    /\ AccountFree(DomainOf[req[p].user])
    /\ \E a \in AccountFound(DomainOf[req[p].user]) :
          \/ /\ a # None => ~a.active
             /\ Rollback(p)
          \/ /\ a # None /\ a.active
             /\ pc' = [pc EXCEPT ![p] = "user"]
             /\ draft' = [draft EXCEPT ![p].account = a]
             /\ UNCHANGED <<identities, configured, secret, req, failures>>

\* Mutant: ON DUPLICATE KEY UPDATE namespace = VALUES(namespace).
UserFoundOverwritten(u, k) ==
    {IF i \in I!Namespaces THEN None ELSE
        [ns |-> i, key |-> k,
         active |-> IF identity[u] # None THEN identity[u].active ELSE TRUE] :
        i \in SeedNamespaces}

\* Mutant: the hash of a user who is there is left as it is.
UserFoundKept(u, k) ==
    IF identity[u] # None THEN {identity[u]}
    ELSE {IF i \in I!Namespaces THEN None
          ELSE [ns |-> i, key |-> k, active |-> TRUE] : i \in SeedNamespaces}

\* The user's row, with the hash of this request's key in it.
UserFound(u, k) ==
    IF identity[u] # None THEN {[identity[u] EXCEPT !.key = k]}
    ELSE {IF i \in I!Namespaces THEN None
          ELSE [ns |-> i, key |-> k, active |-> TRUE] : i \in SeedNamespaces}

LockUser(p) ==
    /\ pc[p] = "user"
    /\ UserFree(req[p].user)
    /\ \E i \in UserFound(req[p].user, req[p]) :
          \/ /\ i # None => ~i.active
             /\ Rollback(p)
          \/ /\ i # None /\ i.active
             /\ pc' = [pc EXCEPT ![p] = "commit"]
             /\ draft' = [draft EXCEPT ![p].identity = i]
             /\ UNCHANGED <<identities, configured, secret, req, failures>>

\* Mutant: the account's row is not part of the transaction.
CommitIdentity(p) ==
    /\ pc[p] = "commit"
    /\ identity' = [identity EXCEPT ![req[p].user] = draft[p].identity]
    /\ UNCHANGED <<account, answers>>
    /\ Release({p})
    /\ UNCHANGED <<configured, secret, failures>>

\* The connection may break before the reply has gone out.
Commit(p) ==
    /\ pc[p] = "commit"
    /\ LET u == req[p].user
           a == draft[p].account
           i == draft[p].identity
       IN
       /\ account' = [account EXCEPT ![DomainOf[u]] = a]
       /\ identity' = [identity EXCEPT ![u] = i]
       /\ answers' \in {answers, answers \cup
             {[user |-> u, account |-> a.id, ns |-> i.ns, key |-> req[p]]}}
    /\ Release({p})
    /\ UNCHANGED <<configured, secret, failures>>

\* A statement or COMMIT that fails, a client that goes away, a lock wait that
\* the database ends.
Fail(p) ==
    /\ pc[p] # "idle" /\ failures < MaxFailures
    /\ failures' = failures + 1
    /\ Release({p})
    /\ UNCHANGED <<identities, configured, secret>>

\* Whom a key authenticates, and what GET /v1/me answers.
FindIdentity(k) ==
    {[user |-> u, account |-> account[DomainOf[u]].id, ns |-> identity[u].ns,
      key |-> k] :
        u \in {v \in User : /\ identity[v] # None /\ identity[v].key = k
                            /\ identity[v].active
                            /\ account[DomainOf[v]].active}}

-----------------------------------------------------------------------------
(* The deployment and the operator.                                        *)

Rotate ==
    /\ configured < MaxRotations
    /\ configured' = configured + 1
    /\ UNCHANGED <<identities, secret, pc, req, draft, failures>>

\* A replica starts again, after a rotation or a crash; its requests are cut.
Restart(r) ==
    /\ \/ secret[r] # configured /\ UNCHANGED failures
       \/ failures < MaxFailures /\ failures' = failures + 1
    /\ secret' = [secret EXCEPT ![r] = configured]
    /\ Release({p \in Proc : On[p] = r})
    /\ UNCHANGED <<identities, configured>>

\* The operator's UPDATEs wait for the row, too.
SetAccountStatus(d) ==
    /\ AccountFree(d)
    /\ I!SetAccountStatus(d)
    /\ UNCHANGED <<configured, secret, pc, req, draft, failures>>

SetUserStatus(u) ==
    /\ UserFree(u)
    /\ I!SetUserStatus(u)
    /\ UNCHANGED <<configured, secret, pc, req, draft, failures>>

-----------------------------------------------------------------------------

Statement(p) == LockAccount(p) \/ LockUser(p) \/ Commit(p)

Next == \/ \E p \in Proc : \/ \E u \in User : Begin(p, u)
                           \/ Statement(p)
                           \/ Fail(p)
        \/ \E r \in Replica : Restart(r)
        \/ \E d \in Domain : SetAccountStatus(d)
        \/ \E u \in User : SetUserStatus(u)
        \/ Rotate

Spec == Init /\ [][Next]_vars

\* Users provision again and again, as a rotation requires of them; statements
\* that can run do, InnoDB grants a row to those who wait in turn, and a
\* rotation restarts every replica.
Ask(u) == \E p \in Proc : Begin(p, u)
RollOut(r) == secret[r] # configured /\ Restart(r)

Fairness == /\ \A p \in Proc : WF_vars(Statement(p)) /\ SF_vars(LockAccount(p))
            /\ \A u \in User : SF_vars(Ask(u))
            /\ \A r \in Replica : WF_vars(RollOut(r))

FairSpec == Spec /\ Fairness

-----------------------------------------------------------------------------
(* Properties.                                                             *)

\* However first requests of one domain or user interleave, whatever fails and
\* whoever is disabled meanwhile, provisioning is an atomic step on the table
\* of identities: the request that comes second is given what the first has
\* stored, nothing is ever replaced but the key, and nobody disabled is served.
IdentitySpec == I!Spec

\* A key that was handed out authenticates as the identity it was handed out
\* with, or not at all; before the first rotation it is permanent.
KeyNamesIdentity ==
    \A a \in answers :
        /\ FindIdentity(a.key) \subseteq {a}
        /\ /\ configured = 0
           /\ account[DomainOf[a.user]].active /\ identity[a.user].active
           => a \in FindIdentity(a.key)

\* README: changing the secret "is a coordinated rotation completed as each
\* user provisions again": once the replicas have been restarted, the keys of
\* old secrets disappear, unless account or user keep being disabled.  A
\* request that an old replica still serves may bring one back until then.
RotationCompletes ==
    \A u \in User :
        \/ <>[](identity[u] # None => identity[u].key.secret = configured)
        \/ []<>(\/ account[DomainOf[u]] # None /\ ~account[DomainOf[u]].active
                \/ identity[u] # None /\ ~identity[u].active)
=============================================================================
