---------------------------- MODULE RuntimeUpdate ----------------------------
(***************************************************************************)
(* The update of Hermes: the rows of runtime_update_operations, the        *)
(* promise that executes each of them, and the readers that reconcile a    *)
(* row which has no such promise any more.                                 *)
(*                                                                         *)
(* Versions are "old" and "new"; an operation updates from the one to the  *)
(* other.  Progress and messages are left out, but not the writes that     *)
(* carry them: each of them may fail, and a failure is an error of the     *)
(* operation.                                                              *)
(***************************************************************************)
EXTENDS RuntimeHost

CONSTANT Pollers \* requests for the active operation

VARIABLES
    update,   \* the row of each operation
    updater,  \* executeOperation; an operation is the lease it takes
    poll,     \* getActiveRuntimeUpdateOperation
    detected, \* runtime_config.detectedVersion
    astray    \* ghost: an update has put Hermes on a deployment that no migration cut over to

updateVars == <<update, updater, poll, detected, astray>>

ActiveUpdate == {"queued", "running", "recovery_required"}
ClosedUpdate == {"succeeded", "rolled_back", "failed"}
UpdateStatuses == {"none"} \union ActiveUpdate \union ClosedUpdate

\* "inserted": the row is written, the promise is not registered yet.  A pc that
\* is a status: the operation is to be closed with it.
UpdaterPCs == {"idle", "inserted", "start", "begin", "apply", "restore", "verify", "clean", "undo",
               "recheck", "done", "succeeded", "rolled_back", "failed", "recovery_required"}
Holding == {"apply", "restore", "verify", "clean", "undo", "recheck"}

\* checkpoint: the Docker script has announced what it leaves for a rollback.
UpdateTypeOK ==
    /\ update \in [Updates -> UpdateStatuses]
    /\ updater \in [Updates -> [pc : UpdaterPCs, checkpoint : BOOLEAN]]
    /\ poll \in [Pollers -> [pc : {"idle", "check", "plan", "write"}, row : Updates \union {NoLease},
                             seen : {"old", "new", "unknown", "recovery_required"}]]
    /\ detected \in {"old", "new"}
    /\ astray \in BOOLEAN

NoPoll == [pc |-> "idle", row |-> NoLease, seen |-> "unknown"]

UpdateInit ==
    /\ update = [u \in Updates |-> "none"]
    /\ updater = [u \in Updates |-> [pc |-> "idle", checkpoint |-> FALSE]]
    /\ poll = [p \in Pollers |-> NoPoll]
    /\ detected = "old"
    /\ astray = FALSE

-----------------------------------------------------------------------------
(* The commands *)

Deploys(h, v) == [h EXCEPT !.running = TRUE, !.version = v]

\* INSPECT_SCRIPT: the deployment p is the one the labels name; a container without labels
\* is adopted by the deployment of a migration when it finds one there with its image.
ImageOf(v)    == IF v = "old" THEN "old" ELSE "new"
Named(h, p)   == IF p = "managed" THEN h.compose ELSE h.own
Adopts(h)     == h.project = "none"
Supports(h, p) ==
    /\ h.mount # "none" /\ p \in {"own", "managed"}
    /\ h.project = p \/ (Adopts(h) /\ p = "managed" /\ h.compose = ImageOf(h.version))

\* The file of p names an image; `docker compose up` recreates the container from the
\* file: the migration's has a bind mount, which Docker creates when it is missing, and the
\* key of runtime.env.
Names(h, p, image) == IF p = "managed" THEN [h EXCEPT !.compose = image]
                                       ELSE [h EXCEPT !.own = image]
Up(h, p, v) ==
    LET up == [Deploys(h, v) EXCEPT !.project = p]
    IN  IF p # "managed" THEN up
        ELSE [up EXCEPT !.mount = "bind", !.token = h.env,
                        !.data = IF @ = "full" THEN "full" ELSE "partial"]

\* dockerUpdateScript, once the backup is written: it announces it and what follows, names
\* the new image in place of the container's (there must be a file, and that line in it),
\* stops and renames a container it adopts, and recreates.  The new one may never become
\* healthy.
Recreates(h, u, p) ==
    LET left      == [project |-> p, backup |-> TRUE, image |-> Named(h, p), adopts |-> Adopts(h),
                      legacy |-> FALSE, mount |-> "none", token |-> FirstToken, version |-> h.version]
        backed    == [h EXCEPT !.left[u] = left]
        rewritten == Names(backed, p, "new")
        stopped   == [rewritten EXCEPT !.running = FALSE]
        renamed   == [stopped EXCEPT !.mount = "none", !.left[u] =
                         [left EXCEPT !.legacy = TRUE, !.mount = h.mount, !.token = h.token]]
        base      == IF Adopts(h) THEN renamed ELSE stopped
    IN  CASE Named(h, p) \notin Images -> Refused(h)
          [] Named(h, p) \in Images \ {ImageOf(h.version)} -> Refused(backed)
          [] OTHER -> Outcomes(backed, {rewritten, stopped, base}, Up(base, p, "new"))
                      \union {[host |-> Up(base, p, "broken"), ok |-> TRUE]}

\* rollbackDocker: it tests the backup, puts the file back (useless when the deployment was
\* removed meanwhile with its runtime.env), then the container it had renamed, or else
\* starts the one there is; one that was not adopted is recreated.
Restores(h, u) ==
    LET left      == h.left[u]
        file      == Names(h, left.project, left.image)
        removed   == [file EXCEPT !.mount = "none", !.running = FALSE]
        renamed   == [removed EXCEPT !.mount = left.mount, !.token = left.token, !.version = left.version,
                                     !.project = "none", !.left[u].legacy = FALSE]
        started   == [file EXCEPT !.running = TRUE]
        again     == [renamed EXCEPT !.running = TRUE]
        recreated == Up(file, left.project, IF left.image = ImageOf(left.version) THEN left.version
                                                                                  ELSE left.image)
    IN  IF ~left.backup \/ Named(h, left.project) = "none" THEN Refused(h)
        ELSE CASE left.legacy ->
                    IF Startable(renamed) THEN Outcomes(h, {file, removed, renamed}, again)
                    ELSE Refused(h) \union Refused(removed) \union Refused(renamed)
               [] left.adopts /\ ~left.legacy ->
                    IF Startable(h) THEN Outcomes(h, {file}, started) ELSE Refused(h) \union Refused(file)
               [] OTHER -> Outcomes(h, {file, [file EXCEPT !.running = FALSE]}, recreated)

\* cleanupDockerCheckpoint, whose errors are ignored.
Discards(h, u) ==
    LET removed == [h EXCEPT !.left[u].legacy = FALSE]
    IN  {h, removed, [h EXCEPT !.left[u].backup = FALSE], [removed EXCEPT !.left[u].backup = FALSE]}

\* The manager's own update: it verifies and rolls back by itself, and reports.
Managed(h) ==
    {[host |-> Deploys(h, "new"), pc |-> "verify"], [host |-> h, pc |-> "verify"],
     [host |-> Deploys(h, "old"), pc |-> "rolled_back"],
     [host |-> Deploys(h, "broken"), pc |-> "recovery_required"],
     [host |-> h, pc |-> "failed"], [host |-> Deploys(h, "new"), pc |-> "failed"]}

-----------------------------------------------------------------------------
(* startRuntimeUpdateOperation, executeOperation, applyRuntimeUpdate *)

GoesOn(u, pc) == updater' = [updater EXCEPT ![u].pc = pc]
IsAt(u, pc)   == updater[u].pc = pc

\* A step of the promise that leaves the host and the rows alone.
OnlyMoves == UNCHANGED <<config, host, crashes, update, poll, detected, astray>>

\* updateRow: there is a row, and at most one is active (a unique index).
SavesUpdate(u, status) ==
    /\ update[u] # "none"
    /\ status \in ActiveUpdate => \A v \in Updates \ {u} : update[v] \notin ActiveUpdate
    /\ update' = [update EXCEPT ![u] = status]

\* currentRuntime: the version that answers, else the one stored last.
Current == IF Answers(host) THEN host.version ELSE detected

\* `available` of the plan.  The update of a runtime that is reached directly happens on
\* another machine and is left out.
Outdated == config.exists /\ config.ssh /\ Current = "old"

StartUpdate(u) ==
    /\ IsAt(u, "idle") /\ Outdated
    /\ \A v \in Updates : update[v] \notin ActiveUpdate
    /\ update' = [update EXCEPT ![u] = "queued"]
    /\ GoesOn(u, "inserted") /\ detected' = Current
    /\ UNCHANGED <<exclusionVars, hostVars, poll, astray>>

RegistersRunner(u) ==
    /\ IsAt(u, "inserted") /\ GoesOn(u, "start")
    /\ OnlyMoves /\ UNCHANGED exclusionVars

\* The first write is before the try: when it fails the row stays as it is.
MarksRunning(u) ==
    /\ IsAt(u, "start")
    /\ \/ SavesUpdate(u, "running") /\ GoesOn(u, "begin")
       \/ GoesOn(u, "done") /\ UNCHANGED update
    /\ UNCHANGED <<exclusionVars, hostVars, poll, detected, astray>>

\* Mutants: it only looks whether the runtime is free; or only at other operations.
BeginsUnlocked(u) ==
    /\ IsAt(u, "begin") /\ mutationLease = NoLease /\ GoesOn(u, "apply")
    /\ OnlyMoves /\ UNCHANGED exclusionVars

BeginsOverRuns(u) ==
    /\ IsAt(u, "begin") /\ AcquireOverRuns(u) /\ GoesOn(u, "apply")
    /\ OnlyMoves

BeginsUpdate(u) ==
    /\ IsAt(u, "begin")
    /\ \/ AcquireMutationLease(u) /\ GoesOn(u, "apply")
       \/ GoesOn(u, "failed") /\ UNCHANGED exclusionVars
    /\ OnlyMoves

\* Already up to date, not supported, or a write of the progress fails.
GivesUpUpdate(u) ==
    /\ updater[u].pc \in {"apply", "restore", "verify", "undo"}
    /\ CASE IsAt(u, "apply") /\ ~Outdated -> GoesOn(u, "succeeded") \/ GoesOn(u, "failed")
         [] IsAt(u, "verify") /\ updater[u].checkpoint -> GoesOn(u, "undo")
         [] OTHER -> GoesOn(u, "failed")
    /\ IF updater'[u].pc = "undo" THEN UNCHANGED exclusionVars ELSE Leaves(u)
    /\ OnlyMoves

AppliesByManager(u) ==
    /\ IsAt(u, "apply") /\ Outdated
    /\ \E o \in Managed(host) :
        /\ host' = o.host /\ GoesOn(u, o.pc)
        /\ IF o.pc = "verify" THEN UNCHANGED exclusionVars ELSE Leaves(u)
    /\ UNCHANGED <<config, crashes, update, poll, detected, astray>>

\* Mutant: what is inspected is only that there is a deployment.
AppliesUnmatched(u) ==
    /\ IsAt(u, "apply") /\ host.compose # "none"
    /\ host' = Up(host, "managed", "new")
    /\ GoesOn(u, "verify") /\ UNCHANGED <<exclusionVars, config, crashes, update, poll, detected, astray>>

\* inspectInstallation, then the script: the lease lets nothing come between them but the
\* rollback of a migration.  Without the announcement (an error before it, or a timeout
\* whatever the script has done) there is no checkpoint to go back to.
AppliesByDocker(u) ==
    /\ IsAt(u, "apply") /\ Outdated
    /\ \E p \in Projects : Supports(host, p) /\ \E o \in Recreates(host, u, p), heard \in BOOLEAN :
        /\ host' = o.host
        /\ heard => o.host.left[u].backup
        /\ IF heard
           THEN /\ updater' = [updater EXCEPT ![u] =
                        [pc |-> IF o.ok THEN "verify" ELSE "restore", checkpoint |-> TRUE]]
                /\ UNCHANGED exclusionVars
           ELSE GoesOn(u, "failed") /\ Leaves(u)
        /\ astray' = (astray \/ (o.host.mount = "bind" /\ ~o.host.kept))
    /\ UNCHANGED <<config, crashes, update, poll, detected>>

RestoresDocker(u) ==
    /\ IsAt(u, "restore")
    /\ \E o \in Restores(host, u) :
        /\ host' = o.host
        /\ GoesOn(u, IF o.ok THEN "rolled_back" ELSE "recovery_required")
    /\ Leaves(u)
    /\ UNCHANGED <<config, crashes, update, poll, detected, astray>>

\* Mutant: the checkpoint is cleaned before Hermes has answered.
CleansFirst(u) ==
    /\ IsAt(u, "verify")
    /\ host' \in Discards(host, u) /\ GoesOn(u, IF Answers(host) THEN "succeeded" ELSE "undo")
    /\ IF Answers(host) THEN Leaves(u) ELSE UNCHANGED exclusionVars
    /\ UNCHANGED <<config, crashes, update, poll, detected, astray>>

\* waitForHealthyRuntime and the plan.
VerifiesUpdate(u) ==
    /\ IsAt(u, "verify") /\ Answers(host)
    /\ detected' = host.version
    /\ GoesOn(u, "clean")
    /\ UNCHANGED <<exclusionVars, config, host, crashes, update, poll, astray>>

\* cleanupDockerCheckpoint, then a last write of the progress, whose failure is caught as
\* that of the update.
CleansUpdate(u) ==
    /\ IsAt(u, "clean")
    /\ host' \in IF updater[u].checkpoint THEN Discards(host, u) ELSE {host}
    /\ \/ GoesOn(u, "succeeded") /\ Leaves(u)
       \/ updater[u].checkpoint /\ GoesOn(u, "undo") /\ UNCHANGED exclusionVars
       \/ ~updater[u].checkpoint /\ GoesOn(u, "failed") /\ Leaves(u)
    /\ UNCHANGED <<config, crashes, update, poll, detected, astray>>

UndoesDocker(u) ==
    /\ IsAt(u, "undo")
    /\ \E o \in Restores(host, u) :
        /\ host' = o.host
        /\ GoesOn(u, IF o.ok THEN "recheck" ELSE "recovery_required")
        /\ IF o.ok THEN UNCHANGED exclusionVars ELSE Leaves(u)
    /\ UNCHANGED <<config, crashes, update, poll, detected, astray>>

RechecksDocker(u) ==
    /\ IsAt(u, "recheck")
    /\ IF Answers(host)
       THEN detected' = host.version /\ GoesOn(u, "rolled_back")
       ELSE GoesOn(u, "failed") /\ UNCHANGED detected
    /\ Leaves(u)
    /\ UNCHANGED <<config, host, crashes, update, poll, astray>>

\* The closing write is not tried again; the promise is removed from the map.
ClosesUpdate(u) ==
    /\ updater[u].pc \in ClosedUpdate \union {"recovery_required"}
    /\ SavesUpdate(u, updater[u].pc) \/ UNCHANGED update
    /\ updater' = [updater EXCEPT ![u] = [pc |-> "done", checkpoint |-> FALSE]]
    /\ UNCHANGED <<exclusionVars, hostVars, poll, detected, astray>>

-----------------------------------------------------------------------------
(* getActiveRuntimeUpdateOperation, reconcileInterrupted *)

HasRunner(u) == updater[u].pc \notin {"idle", "inserted", "done"}

Saw(row, seen, pc) == [pc |-> pc, row |-> row, seen |-> seen]

\* The row is read first, the map of the promises is looked at afterwards.
PollReads(p, u) ==
    /\ poll[p].pc = "idle" /\ update[u] \in ActiveUpdate
    /\ poll' = [poll EXCEPT ![p] =
           Saw(u, IF update[u] = "recovery_required" THEN update[u] ELSE "unknown", "check")]
    /\ UNCHANGED <<exclusionVars, hostVars, update, updater, detected, astray>>

PollChecks(p) ==
    /\ poll[p].pc = "check"
    /\ poll' = [poll EXCEPT ![p] =
           IF @.seen = "recovery_required" \/ ~HasRunner(@.row) THEN Saw(@.row, "unknown", "plan")
                                                               ELSE NoPoll]
    /\ UNCHANGED <<exclusionVars, hostVars, update, updater, detected, astray>>

\* The plan is null when the host cannot be inspected.
PollPlans(p) ==
    /\ poll[p].pc = "plan"
    /\ detected' = Current
    /\ \E seen \in {detected', "unknown"} :
        poll' = [poll EXCEPT ![p] = Saw(@.row, seen, "write")]
    /\ UNCHANGED <<exclusionVars, hostVars, update, updater, astray>>

Concludes(seen) ==
    CASE seen = "new" -> "succeeded"
      [] seen = "old" -> "rolled_back"
      [] OTHER -> "recovery_required"

PollWrites(p) ==
    /\ poll[p].pc = "write"
    /\ SavesUpdate(poll[p].row, Concludes(poll[p].seen)) \/ UNCHANGED update
    /\ poll' = [poll EXCEPT ![p] = NoPoll]
    /\ UNCHANGED <<exclusionVars, hostVars, updater, detected, astray>>

UpdaterStep(u) ==
    \/ RegistersRunner(u) \/ MarksRunning(u) \/ BeginsUpdate(u) \/ GivesUpUpdate(u)
    \/ AppliesByManager(u) \/ AppliesByDocker(u) \/ RestoresDocker(u) \/ VerifiesUpdate(u)
    \/ CleansUpdate(u) \/ UndoesDocker(u) \/ RechecksDocker(u) \/ ClosesUpdate(u)

UpdateStep ==
    \/ \E u \in Updates : StartUpdate(u) \/ UpdaterStep(u)
    \/ \E p \in Pollers : (\E u \in Updates : PollReads(p, u)) \/ PollChecks(p) \/ PollPlans(p) \/ PollWrites(p)
=============================================================================
