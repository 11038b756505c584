---------------------------- MODULE MCSiteAccess ----------------------------
(* An administrator, an operator under a mandate, a requester, and three requests. *)
EXTENDS SiteAccess, TLC

CONSTANTS ada, oma, req, m1, t1, t2, r1, r2, r3

Alike == Permutations(Requests)
=============================================================================
