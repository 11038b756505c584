--------------------------- MODULE StorageMigration ---------------------------
(***************************************************************************)
(* The migration of /opt/data from a named volume to a bind mount: its     *)
(* journal (runtime_storage_migrations), the task that executes it and the *)
(* reconciliation that each start of the Console runs before it serves.    *)
(*                                                                         *)
(* The database admits one active row (a partial unique index); `journal`  *)
(* is the newest row.  Progress, phase and messages are left out: nothing  *)
(* is decided on them.  Every remote command and every write may fail.     *)
(***************************************************************************)
EXTENDS RuntimeHost

CONSTANTS
    Migration,     \* the lease this operation takes
    MaxMigrations  \* bound: plans inserted

ASSUME MigrationAssumption == Migration \in Mutators /\ MaxMigrations \in Nat

VARIABLES
    journal, \* the newest row: its number, status and expectedRevision
    task,    \* executeStorageMigration, or the reconciliation of a start
    unsaved  \* ghost: rows whose closing write failed, and was swallowed

migrationVars == <<journal, task, unsaved>>

MigrationStatuses == {"none", "planned", "queued", "running", "succeeded", "rolled_back",
                      "failed", "recovery_required"}
Blocking == {"queued", "running", "recovery_required"}

\* The pcs between "revalidate" and "activate", and "inspect" and "admit" of the
\* reconciliation, hold the runtime; the others come after the lease is released.
TaskPCs == {"idle", "execute", "revalidate", "copy", "cutover", "verify", "activate",
            "refuse", "clean", "rollback", "rolled", "unproven", "succeed",
            "boot", "inspect", "admit"}

\* row: the row the task closes; boot: the server does not serve before it ends.
MigrationTypeOK ==
    /\ journal \in [row : 0..MaxMigrations, status : MigrationStatuses, revision : 0..MaxRevision]
    /\ task \in [pc : TaskPCs, row : 0..MaxMigrations, revision : 0..MaxRevision, boot : BOOLEAN]
    /\ unsaved \subseteq 0..MaxMigrations

IdleTask == [pc |-> "idle", row |-> 0, revision |-> 0, boot |-> FALSE]

MigrationInit ==
    /\ journal = [row |-> 0, status |-> "none", revision |-> 0]
    /\ task = IdleTask
    /\ unsaved = {}

-----------------------------------------------------------------------------
(* The commands sent to the host *)

\* storageMigrationBlockers on a fresh inspection: among others, both directories are
\* missing or empty, the one of the deployment also of the backups of updates.
NoBlocker(h) ==
    /\ h.mount = "volume" /\ Healthy(h)
    /\ h.data \in {"missing", "empty"} /\ h.compose = "none"
    /\ \A u \in Updates : h.left[u].project = "managed" => ~h.left[u].backup

\* runtime.env gets the key of the container, compose.yml its image and the bind mount.
Prepare(h) ==
    LET empty == [h EXCEPT !.data = "empty"]
        env   == [empty EXCEPT !.compose = "env", !.env = h.token]
    IN  Outcomes(h, {empty, env}, [env EXCEPT !.compose = IF h.version = "old" THEN "old" ELSE "new"])

\* Mutant: the deployment starts on what was copied so far.
CopyInPlace(h) ==
    Outcomes(h, {[h EXCEPT !.running = FALSE]}, [h EXCEPT !.running = FALSE, !.data = "partial"])

\* Stops Hermes first; succeeds when the two manifests are equal.
BackupAndCopy(h) ==
    LET stopped == [h EXCEPT !.running = FALSE] IN
    Outcomes(h, {stopped, [stopped EXCEPT !.data = "partial"]}, [stopped EXCEPT !.data = "full"])

\* The container becomes the kept one; Compose makes another from the deployment.
Renamed(h) ==
    [h EXCEPT !.mount = "none", !.kept = TRUE,
              !.keptAs = [token |-> h.token, version |-> h.version, project |-> h.project]]
Created(h) == [h EXCEPT !.mount = "bind", !.token = h.env, !.project = "managed"]

\* Mutant: the old container is removed.
CutoverRemoves(h) ==
    LET created == Created(h) IN
    Outcomes(h, {[h EXCEPT !.mount = "none"], created}, [created EXCEPT !.running = TRUE])

Cutover(h) ==
    LET created == Created(Renamed(h)) IN
    Outcomes(h, {Renamed(h), created}, [created EXCEPT !.running = TRUE])

\* The copy is set aside once the old container runs again, then the deployment, with
\* what updates have left in its directory.
SetAside(h) ==
    LET left == [u \in Updates |->
            [h.left[u] EXCEPT !.backup = h.left[u].backup /\ h.left[u].project # "managed"]]
    IN  [h EXCEPT !.data = "missing", !.compose = "none", !.left = left]

Rollback(h) ==
    IF h.kept
    THEN LET removed  == [h EXCEPT !.mount = "none", !.running = FALSE]
             restored == [removed EXCEPT !.mount = "volume", !.kept = FALSE,
                              !.token = h.keptAs.token, !.version = h.keptAs.version,
                              !.project = h.keptAs.project, !.keptAs = NotKept]
             started  == [restored EXCEPT !.running = TRUE]
         IN  Outcomes(h, {removed, restored, started, [started EXCEPT !.data = "missing"]},
                      SetAside(started))
    ELSE LET started == [h EXCEPT !.running = TRUE] IN
         IF ~Startable(h) THEN Refused(h)
         ELSE Outcomes(h, {started, [started EXCEPT !.data = "missing"]}, SetAside(started))

\* The two files, then the directories that are empty.
Clean(h) ==
    LET removed == [h EXCEPT !.compose = "none"] IN
    Outcomes(h, {removed},
             [removed EXCEPT !.data = IF h.data = "empty" THEN "missing" ELSE h.data])

\* inspectRecoveryState finds the bind mount running, or the old runtime.
OnBind(h)      == h.mount = "bind" /\ h.running
Recoverable(h) == h.kept \/ h.mount = "volume"

-----------------------------------------------------------------------------
(* The requests: createStorageMigrationPlan, startStorageMigration *)

Serving == ~task.boot

CreatePlan ==
    /\ Serving /\ journal.row < MaxMigrations
    /\ NoBlocker(host) /\ Answers(host)
    /\ journal.status \notin Blocking \union {"planned"}
    /\ journal' = [row |-> journal.row + 1, status |-> "planned", revision |-> config.revision]
    /\ UNCHANGED <<exclusionVars, hostVars, task, unsaved>>

ExpirePlan ==
    /\ journal.status = "planned"
    /\ journal' = [journal EXCEPT !.status = "failed"]
    /\ UNCHANGED <<exclusionVars, hostVars, task, unsaved>>

\* Bound: one task at a time, even when the row of the first was deleted.
StartMigration ==
    /\ Serving /\ task.pc = "idle"
    /\ journal.status = "planned" /\ StoredSsh(journal.revision)
    /\ journal' = [journal EXCEPT !.status = "queued"]
    /\ task' = [pc |-> "execute", row |-> journal.row, revision |-> journal.revision, boot |-> FALSE]
    /\ UNCHANGED <<exclusionVars, hostVars, unsaved>>

-----------------------------------------------------------------------------
(* Steps of the task *)

Goto(pc) == task' = [task EXCEPT !.pc = pc]

\* updateMigration: there may be no such row any more.
Writes(status) ==
    /\ journal.row = task.row /\ journal.status # "none"
    /\ journal' = [journal EXCEPT !.status = status]

\* The task ends on a closing write, which may fail and is not tried again.
ClosesAs(status) ==
    /\ \/ Writes(status) /\ UNCHANGED unsaved
       \/ unsaved' = unsaved \union {task.row} /\ UNCHANGED journal
    /\ task' = IdleTask

\* Sends a script: on success the task goes on, otherwise it goes to `catch`.
Sends(outcomes, next, catch) ==
    \E o \in outcomes :
        /\ host' = o.host
        /\ IF o.ok THEN Goto(next) /\ UNCHANGED exclusionVars
                   ELSE Goto(catch) /\ Leaves(Migration)
        /\ UNCHANGED <<config, crashes, journal, unsaved>>

\* An error before any command that changes the host.
Gives(catch) ==
    /\ Goto(catch) /\ Leaves(Migration)
    /\ UNCHANGED <<hostVars, journal, unsaved>>

-----------------------------------------------------------------------------
(* executeStorageMigration *)

TakesLease ==
    /\ task.pc = "execute"
    /\ AcquireMutationLease(Migration)
    /\ StoredSsh(task.revision) /\ Writes("running") /\ Goto("revalidate")
    /\ UNCHANGED <<hostVars, unsaved>>

\* The runtime is busy, the configuration changed, the host cannot be reached,
\* or the write of the next phase fails: the catch for the step that was reached.
Catch ==
    [execute |-> "refuse", revalidate |-> "refuse", copy |-> "clean", cutover |-> "rollback",
     verify |-> "rollback", activate |-> "rollback", inspect |-> "unproven", admit |-> "unproven"]

\* Mutant: the inspection of a start is not in a try.
InterruptedOnly == task.pc \in DOMAIN Catch \ {"inspect"} /\ Gives(Catch[task.pc])

Interrupted == task.pc \in DOMAIN Catch /\ Gives(Catch[task.pc])

Revalidates ==
    /\ task.pc = "revalidate" /\ NoBlocker(host)
    /\ Sends(Prepare(host), "copy", "clean")

Copies == task.pc = "copy" /\ Sends(BackupAndCopy(host), "cutover", "rollback")

CutsOver == task.pc = "cutover" /\ Sends(Cutover(host), "verify", "rollback")

Verifies ==
    /\ task.pc = "verify" /\ OnBind(host) /\ Answers(host)
    /\ Goto("activate") /\ UNCHANGED <<exclusionVars, hostVars, journal, unsaved>>

\* activateSshWorkspace: it commits the next revision, then reads it back, and
\* throws when that read fails.
Activates(catch) ==
    /\ StoredSsh(task.revision) /\ config.revision < MaxRevision
    /\ config' = [config EXCEPT !.revision = @ + 1, !.workspace = "ready"]
    /\ Goto("succeed") \/ Goto(catch)
    /\ Leaves(Migration) /\ UNCHANGED <<host, crashes, journal, unsaved>>

ActivatesTask == task.pc = "activate" /\ Activates("rollback")

Succeeds ==
    /\ task.pc = "succeed"
    /\ \/ Writes("succeeded") /\ task' = IdleTask /\ UNCHANGED unsaved
       \/ IF task.boot THEN Goto("unproven") /\ UNCHANGED <<journal, unsaved>>
                       ELSE ClosesAs("recovery_required")
    /\ UNCHANGED <<exclusionVars, hostVars>>

Refuses ==
    /\ task.pc = "refuse" /\ ClosesAs("failed")
    /\ UNCHANGED <<exclusionVars, hostVars>>

\* Whatever cleanupPreparedDeployment gives, the row is closed as failed.
Cleans ==
    /\ task.pc = "clean"
    /\ IF config.exists /\ config.ssh
       THEN \E o \in Clean(host) \union Refused(host) : host' = o.host
       ELSE UNCHANGED host
    /\ Goto("refuse")
    /\ UNCHANGED <<exclusionVars, config, crashes, journal, unsaved>>

\* Mutant: the result of the rollback is not looked at.
RollsBackUnproved ==
    /\ task.pc = "rollback" /\ config.exists /\ config.ssh
    /\ Sends(Rollback(host), "rolled", "rolled")

\* The catch runs after the lease was released.
RollsBack ==
    /\ task.pc = "rollback"
    /\ \/ config.exists /\ config.ssh /\ Sends(Rollback(host), "rolled", "unproven")
       \/ Gives("unproven")

RecordsRollback ==
    /\ task.pc = "rolled"
    /\ \/ Writes("rolled_back") /\ task' = IdleTask
       \/ Goto("unproven") /\ UNCHANGED journal
    /\ Leaves(Migration) /\ UNCHANGED <<hostVars, unsaved>>

RecordsUnproven ==
    /\ task.pc = "unproven" /\ ClosesAs("recovery_required")
    /\ UNCHANGED <<exclusionVars, hostVars>>

-----------------------------------------------------------------------------
(* reconcilePendingStorageMigrations *)

\* A queued row is executed; of another one the lease is taken and the host
\* inspected.
BootExamines ==
    /\ task.pc = "boot"
    /\ CASE journal.status = "queued" ->
              /\ task' = [pc |-> "execute", row |-> journal.row, revision |-> journal.revision,
                          boot |-> TRUE]
              /\ UNCHANGED exclusionVars
         [] journal.status \in {"running", "recovery_required"} ->
              /\ AcquireMutationLease(Migration)
              /\ task' = [pc |-> "inspect", row |-> journal.row, revision |-> journal.revision,
                          boot |-> TRUE]
         [] OTHER -> task' = IdleTask /\ UNCHANGED exclusionVars
    /\ UNCHANGED <<hostVars, journal, unsaved>>

BootInspects ==
    /\ task.pc = "inspect" /\ config.exists /\ config.ssh
    /\ IF OnBind(host)
       THEN Answers(host) /\ Goto("admit") /\ UNCHANGED <<exclusionVars, hostVars, journal, unsaved>>
       ELSE Recoverable(host) /\ Sends(Rollback(host), "rolled", "unproven")

BootAdmits ==
    /\ task.pc = "admit"
    /\ \/ Activates("unproven")
       \/ /\ config.revision = task.revision + 1 /\ config.workspace = "ready"
          /\ Goto("succeed") /\ Leaves(Migration)
          /\ UNCHANGED <<hostVars, journal, unsaved>>

\* What a step of the migration may be, without the requests and the crash.
TaskStep ==
    \/ TakesLease \/ Interrupted \/ Revalidates \/ Copies \/ CutsOver \/ Verifies
    \/ ActivatesTask \/ Succeeds \/ Refuses \/ Cleans \/ RollsBack \/ RecordsRollback
    \/ RecordsUnproven \/ BootExamines \/ BootInspects \/ BootAdmits
=============================================================================
