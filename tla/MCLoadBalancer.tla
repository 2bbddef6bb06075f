--------------------------- MODULE MCLoadBalancer ----------------------------
(***************************************************************************)
(* Small instances of LoadBalancer: definitions the .cfg files give to its *)
(* constants.                                                              *)
(***************************************************************************)
EXTENDS LoadBalancer, TLC

CONSTANTS ip1, ip2, v6, junk, app, APP, app2, blank, t1, r1, r2

NormDef == [n \in Names |-> IF n = APP THEN app ELSE n]
IpSymmetry == Permutations(IPv4)
==============================================================================
