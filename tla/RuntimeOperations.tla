-------------------------- MODULE RuntimeOperations --------------------------
(***************************************************************************)
(* The long operations on the runtime together: the migration of its       *)
(* storage, its updates, the changes of its key, the changes of its        *)
(* configuration, and the runs they exclude, in one process that may       *)
(* crash.                                                                  *)
(*                                                                         *)
(* A request for a run checks the two journals and then reserves: what it  *)
(* has read may be stale by then, so here a reservation depends on the     *)
(* lease only.                                                             *)
(***************************************************************************)
EXTENDS StorageMigration, RuntimeUpdate, CredentialRotation

CONSTANT Configuring \* the lease of the requests that change the configuration

ASSUME OperationsAssumption ==
    /\ Configuring \in Mutators \ ({Migration} \union Updates \union Rotations)
    /\ Migration \notin Updates \union Rotations /\ Updates \intersect Rotations = {}

VARIABLE crossed \* ghost: an operation took the runtime while a migration was not over

opsVars == <<exclusionVars, hostVars, migrationVars, updateVars, rotationVars, crossed>>

OpsTypeOK ==
    HostTypeOK /\ MigrationTypeOK /\ UpdateTypeOK /\ RotationTypeOK /\ crossed \in BOOLEAN

OpsInit == HostInit /\ MigrationInit /\ UpdateInit /\ RotationInit /\ crossed = FALSE

\* The journals do not exclude an operation, the lease does; and the catch of a migration
\* rolls back without it.
Crosses(takes) == crossed' = (crossed \/ (takes /\ journal.status \in {"running", "recovery_required"}))
Takes(mutators) == mutationLease = NoLease /\ mutationLease' \in mutators

-----------------------------------------------------------------------------
(* The configuration: each of these requests takes the lease, changes the row  *)
(* and releases the lease; nothing else happens on the host meanwhile.         *)

MayConfigure == Serving /\ mutationLease = NoLease /\ runReservations = 0 /\ followed = {}

Configures(c) ==
    /\ MayConfigure /\ c.revision <= MaxRevision
    /\ config' = c
    /\ UNCHANGED <<exclusionVars, host, crashes>>

KeepsJournals == UNCHANGED <<migrationVars, updateVars, rotationVars>>

SaveDirect == Configures(SavedDirect(config)) /\ KeepsJournals

\* The token given, or the stored one, must be the one Hermes has.
ConnectSsh ==
    /\ Healthy(host) /\ Configures(SavedSsh(config, host.token))
    /\ detected' = IF host.version = "old" THEN "old" ELSE "new"
    /\ UNCHANGED <<migrationVars, rotationVars, update, updater, poll, astray>>

\* The path is that of a mount with a directory on the host.
ActivateWorkspace ==
    /\ StoredSsh(config.revision) /\ host.mount \in {"inner", "bind"} /\ host.running
    /\ Configures([config EXCEPT !.workspace = "ready", !.revision = @ + 1])
    /\ KeepsJournals

\* The journals of the operations refer to the row and are deleted with it.
DeleteConfig ==
    /\ config.exists /\ Configures(NoConfig)
    /\ journal' = [journal EXCEPT !.status = "none"]
    /\ update' = [u \in Updates |-> "none"]
    /\ rotation' = [k \in Rotations |-> [rotation[k] EXCEPT !.status = "none"]]
    /\ UNCHANGED <<task, unsaved, updater, poll, detected, astray, lost>>

ConfigStep == SaveDirect \/ ConnectSsh \/ ActivateWorkspace \/ DeleteConfig

-----------------------------------------------------------------------------
(* The runs, as the exclusion sees them *)

RunStep ==
    /\ Serving
    /\ \E r \in Runs : AcquireRunStartLease(r) \/ ReleaseRunStart(r) \/ HandOver(r) \/ Unfollow(r)
    /\ UNCHANGED hostVars /\ KeepsJournals

-----------------------------------------------------------------------------
(* A crash: what is in memory is lost; the next process reconciles the journal *)
(* of the migration before it serves.                                          *)

Crash ==
    /\ crashes < MaxCrashes /\ crashes' = crashes + 1
    /\ Restart
    /\ task' = [pc |-> "boot", row |-> 0, revision |-> 0, boot |-> TRUE]
    /\ updater' = [u \in Updates |->
           [pc |-> IF IsAt(u, "idle") THEN "idle" ELSE "done", checkpoint |-> FALSE]]
    /\ poll' = [p \in Pollers |-> NoPoll]
    /\ rotation' = [k \in Rotations |->
           NoRequest(IF rotation[k].pc \in {"idle", "planned"} THEN "idle" ELSE "done", rotation[k].status)]
    /\ UNCHANGED <<config, host, journal, unsaved, update, detected, astray, lost, crossed>>

-----------------------------------------------------------------------------

MigrationStep ==
    /\ CreatePlan \/ ExpirePlan \/ StartMigration \/ TaskStep
    /\ UNCHANGED <<updateVars, rotationVars, crossed>>

OpsNext ==
    \/ MigrationStep
    \/ Serving /\ UpdateStep /\ UNCHANGED <<migrationVars, rotationVars>> /\ Crosses(Takes(Updates))
    \/ Serving /\ RotationStep /\ UNCHANGED <<migrationVars, updateVars>> /\ Crosses(Takes(Rotations))
    \/ ConfigStep /\ Crosses(TRUE)
    \/ RunStep /\ UNCHANGED crossed
    \/ Crash

\* The promise of the migration goes on as long as the process lives: each of its
\* commands ends or times out.  Nothing forces the operator.
OpsFairness == WF_opsVars(TaskStep /\ UNCHANGED <<updateVars, rotationVars, crossed>>)

OpsSpec == OpsInit /\ [][OpsNext]_opsVars /\ OpsFairness

-----------------------------------------------------------------------------
(* Properties *)

\* Hermes is never given, as its data, a directory the copy of which was not proved equal
\* to its source: neither by a cutover, nor by a rollback, nor by a change of key or an
\* update that recreates the container from the deployment of the migration.  Two things
\* get round it: an update of a container without labels adopts whatever deployment a
\* migration has left behind, and an operation may cross a migration that is not over.
NoPartialData == host.mount = "bind" /\ host.data # "full" => astray \/ crossed

\* A migration that is recorded as a success still has its two ways back: the old
\* container and the copy ("Le rollback est conservé").
SucceededKeepsBoth ==
    journal.status = "succeeded" => (host.kept /\ host.data = "full") \/ astray \/ crossed

\* What the journal of a migration says is true of the host: a success still has its two
\* ways back ("Le rollback est conservé"), and after a rollback the container of before
\* runs on its volume under its name ("le runtime précédent est restauré"), whatever the
\* updates and the changes of key have done between two migrations.
RecordsAreTrue ==
    /\ []SucceededKeepsBoth
    /\ [][journal.status # "rolled_back" /\ journal'.status = "rolled_back"
           => (host.mount = "volume" /\ host.running /\ ~host.kept) \/ astray \/ crossed]_opsVars

\* The machine of the runtime is changed by who holds the lease only, and by the
\* rollback of a migration, which comes after its lease.
ChangedUnderLease ==
    [][host' # host => mutationLease # NoLease \/ task.pc \in {"rollback", "clean"}]_opsVars

\* When the key the Console stores is not the one Hermes has, a change of key is under
\* way or recorded as to be recovered, or its command timed out.
KeyIsRecorded ==
    config.exists /\ config.ssh /\ host.mount # "none" /\ host.token # config.token =>
        \E k \in Rotations : rotation[k].status \in ActiveRotation \/ k \in lost

\* The Console does not lose the key of Hermes unnoticed.  An update that adopts the
\* deployment of a migration brings the key of that time back: as long as Hermes has not
\* answered with the key that is stored, the container that has it is there under
\* another name.
TokenIsKnown ==
    KeyIsRecorded \/ (\E u \in Updates : host.left[u].legacy) \/ crossed

\* An update that has to be undone still has what that takes, the former compose file and
\* the container it has renamed, or else Hermes answers: the checkpoint may be discarded
\* before the last write of the operation fails, but only then.
UndoHasAWayBack ==
    \A u \in Updates : updater[u].pc \in {"restore", "undo"} =>
        \/ /\ host.left[u].backup
           /\ host.left[u].adopts => host.left[u].legacy \/ (host.project = "none" /\ host.mount # "none")
        \/ Answers(host)
        \/ crossed

\* The operations, whatever they do, keep to the protocol of the exclusion.
OpsImplementExclusion == ExclusionSpec

\* A migration that was started is brought to an end, over crashes.
MigrationIsSettled ==
    journal.status \in {"queued", "running"} ~>
        journal.status \notin {"queued", "running"} \/ journal.row \in unsaved
=============================================================================
