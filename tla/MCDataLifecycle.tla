--------------------------- MODULE MCDataLifecycle ---------------------------
(* Instances of DataLifecycle for TLC: the runs of one thread. *)
EXTENDS DataLifecycle, TLC

CONSTANTS t1, r1, r2, u1, u2, s1, s2, p1, p2

OneThread == [r \in Runs |-> t1]
FirstRun == [a \in Artifacts |-> r1]
TwoNames == (u1 :> "a") @@ (u2 :> "b")
Alike == Permutations(Purges) \union Permutations(Scans)
=============================================================================
