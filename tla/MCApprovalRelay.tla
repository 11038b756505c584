--------------------------- MODULE MCApprovalRelay ---------------------------
(***************************************************************************)
(* ApprovalRelay on small instances.                                       *)
(***************************************************************************)
EXTENDS ApprovalRelay, TLC

CONSTANT t1

OneThread == [r \in Runs |-> t1]

RelaySymmetry == Permutations(Readers) \union Permutations(Approvers)
=============================================================================
