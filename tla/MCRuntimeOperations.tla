-------------------------- MODULE MCRuntimeOperations --------------------------
(* Instances of RuntimeOperations for TLC. *)
EXTENDS RuntimeOperations, TLC

CONSTANTS migration, u1, u2, k1, k2, configuring, p1, p2

AllMutators == {migration, configuring} \union Updates \union Rotations

\* Bounds.  No operation crosses a migration that is not over, whose effect is what
\* RestoredIsKnown is about.  Plans, updates, changes of key and crashes are three in all;
\* a runtime that is not reached by SSH counts as one, a poll or a run that is under way
\* as two.  The revisions are no more than the plans and the changes of key need.
Begun  == {u \in Updates : updater[u].pc # "idle"}
          \union {k \in Rotations : rotation[k].pc \notin {"idle", "planned"}}
Beside == {p \in Pollers : poll[p].pc # "idle"} \union holders \union followed
Load   == crashes + journal.row + Cardinality(Begun) + 2 * Cardinality(Beside)
          + IF config.exists /\ config.ssh THEN 0 ELSE 1
Apart  == ~crossed /\ Load <= 3 /\ config.revision <= 1 + journal.row + Cardinality(Begun \ Updates)

\* SSH-STORIES.md:142 : "le runtime précédent est restauré, sinon l'état `récupération
\* requise` bloque les missions".  After a migration that is recorded as undone, Hermes
\* has the key the Console stores.  The rollback does not hold the lease: it may undo the
\* change of key that was committed meanwhile.
RestoredIsKnown == journal.status = "rolled_back" => KeyIsRecorded
=============================================================================
