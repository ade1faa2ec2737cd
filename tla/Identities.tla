----------------------------- MODULE Identities -----------------------------
(***************************************************************************)
(* What the management service promises: a table of identities, as atomic  *)
(* steps see it.  A domain gets one account namespace and each of its      *)
(* users one namespace, for ever; a user's API key follows from the        *)
(* deployment's secret.  Provisioning stores and returns them together.    *)
(* Provisioning implements this specification.                             *)
(***************************************************************************)
CONSTANTS
    Domain,
    User,           \* the users of all domains: pairs of a domain and a user id
    DomainOf,       \* the domain of each user
    Id,             \* random identifiers, for namespaces and account ids
    Secret,         \* values API_KEY_SECRET may have
    None

VARIABLES
    account,        \* the domain_account rows
    identity,       \* the user_identity rows
    answers         \* what provisioning has returned so far

identities == <<account, identity, answers>>

\* The key is an HMAC of domain and user: different users, different keys.
Key == [secret : Secret, user : User]
For(s, u) == [secret |-> s, user |-> u]

\* id and account_namespace of an account are drawn together.
Account == [id : Id, active : BOOLEAN]
Identity == [ns : Id, key : Key, active : BOOLEAN]
Answer == [user : User, account : Id, ns : Id, key : Key]

Init ==
    /\ account = [d \in Domain |-> None]
    /\ identity = [u \in User |-> None]
    /\ answers = {}

AccountIds == {account[d].id : d \in {e \in Domain : account[e] # None}}
Namespaces == {identity[u].ns : u \in {v \in User : identity[v] # None}}

\* The row a request works on: the one that is there, or a new one.
AccountRow(d) == IF account[d] # None THEN {account[d]}
                 ELSE [id : Id \ AccountIds, active : {TRUE}]

IdentityRow(u, k) ==
    IF identity[u] # None THEN {[identity[u] EXCEPT !.key = k]}
    ELSE [ns : Id \ Namespaces, key : {k}, active : {TRUE}]

\* The reply may be lost after the rows were stored.
Provision(u, k) ==
    \E a \in AccountRow(DomainOf[u]), i \in IdentityRow(u, k) :
       /\ a.active /\ i.active
       /\ account' = [account EXCEPT ![DomainOf[u]] = a]
       /\ identity' = [identity EXCEPT ![u] = i]
       /\ answers' \in {answers, answers \cup
             {[user |-> u, account |-> a.id, ns |-> i.ns, key |-> k]}}

SetAccountStatus(d) ==
    /\ account[d] # None
    /\ account' = [account EXCEPT ![d].active = ~@]
    /\ UNCHANGED <<identity, answers>>

SetUserStatus(u) ==
    /\ identity[u] # None
    /\ identity' = [identity EXCEPT ![u].active = ~@]
    /\ UNCHANGED <<account, answers>>

Next == \/ \E u \in User, s \in Secret : Provision(u, For(s, u))
        \/ \E d \in Domain : SetAccountStatus(d)
        \/ \E u \in User : SetUserStatus(u)

Spec == Init /\ [][Next]_identities
=============================================================================
