------------------------------- MODULE MCGateway -------------------------------
(* Gateway on small instances. *)
EXTENDS Gateway

CONSTANTS alice, bob, junior, vp, admin, default, other, j1, j2, j3

OneToken == {[jti |-> j1, sub |-> alice, role |-> admin, tenant |-> default]}

\* Alice administers one tenant and has a token of another, whose admin is Bob.
ThreeTokens ==
    {[jti |-> j1, sub |-> alice, role |-> admin, tenant |-> default],
     [jti |-> j2, sub |-> alice, role |-> junior, tenant |-> other],
     [jti |-> j3, sub |-> bob, role |-> admin, tenant |-> other]}

NobodyGranted == [e \in {alice, bob} |-> NoRole]
AliceGranted == [e \in {alice, bob} |-> IF e = alice THEN admin ELSE NoRole]
===============================================================================
