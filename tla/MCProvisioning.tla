--------------------------- MODULE MCProvisioning ---------------------------
(* A small instance of Provisioning for TLC: two replicas, one domain.        *)
EXTENDS Provisioning, TLC

CONSTANTS d1, u1, u2, r1, r2, p1, p2

SharedDomain == u1 :> d1 @@ u2 :> d1
OneEach == p1 :> r1 @@ p2 :> r2
=============================================================================
