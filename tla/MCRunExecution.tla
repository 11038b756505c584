--------------------------- MODULE MCRunExecution ---------------------------
(***************************************************************************)
(* RunExecution on small instances: the values of its constants, and the   *)
(* sets under which TLC may identify states.                               *)
(***************************************************************************)
EXTENDS RunExecution, TLC

CONSTANT t1

\* The conversation of every run is t1: admission to it is contended.
OneThread == [r \in Runs |-> t1]

ReaderSymmetry == Permutations(Readers)
=============================================================================
