-------------------------- MODULE CredentialRotation --------------------------
(***************************************************************************)
(* The change of API_SERVER_KEY: plans kept in memory, rows of             *)
(* runtime_credential_operations and the request that applies a plan, all  *)
(* under the lease.  The adapter is that of a Docker container; the native *)
(* one has the same steps on a service.                                    *)
(***************************************************************************)
EXTENDS RuntimeHost

VARIABLES
    rotation, \* each operation: its plan, its row, and the request's local state
    lost      \* ghost: operations whose script was not heard of again (timeout)

rotationVars == <<rotation, lost>>

ActiveRotation == {"applying", "verifying", "recovery_required"}

RotationPCs == {"idle", "planned", "write", "save", "verify", "succeed", "undo", "close", "done"}

\* before: what the backup holds, known to the request when `backup`; closing: the
\* status of the last write.
RotationTypeOK ==
    /\ rotation \in [Rotations ->
           [pc : RotationPCs, imports : BOOLEAN, revision : 0..MaxRevision,
            status : {"none", "succeeded", "rolled_back"} \union ActiveRotation,
            backup : BOOLEAN, before : [mount : Mounts, token : Tokens], candidate : Tokens,
            closing : {"none", "rolled_back", "recovery_required"}]]
    /\ lost \subseteq Rotations

\* There is no plan and no request, or it is over: a row remains.
NoRequest(pc, status) ==
    [pc |-> pc, imports |-> FALSE, revision |-> 0, status |-> status,
     backup |-> FALSE, before |-> [mount |-> "none", token |-> FirstToken],
     candidate |-> FirstToken, closing |-> "none"]

RotationInit == rotation = [k \in Rotations |-> NoRequest("idle", "none")] /\ lost = {}

-----------------------------------------------------------------------------
(* The commands *)

\* docker run -v "$data:/opt/data", where $data is the Source of the mount: of a
\* named volume it is the directory of the volume.
Mounted(mount) == IF mount = "volume" THEN "inner" ELSE mount

\* The container is removed, then created again on that data with that key, and without
\* the labels of Compose.
Removed(h) == [h EXCEPT !.mount = "none", !.running = FALSE]
RunsAgain(h, mount, token) ==
    [h EXCEPT !.mount = Mounted(mount), !.running = TRUE, !.token = token, !.project = "none"]

\* writeRemoteToken: the backup is announced before anything is changed.
WriteToken(h, k) ==
    {[host |-> h, announced |-> FALSE, ok |-> FALSE],
     [host |-> h, announced |-> TRUE, ok |-> FALSE],
     [host |-> Removed(h), announced |-> TRUE, ok |-> FALSE],
     [host |-> RunsAgain(h, h.mount, k), announced |-> TRUE, ok |-> FALSE],
     [host |-> RunsAgain(h, h.mount, k), announced |-> TRUE, ok |-> TRUE]}

\* rollbackRemoteToken tests the backup, which lies in the data directory.
RestoreToken(h, before) ==
    IF before.mount = "bind" /\ h.data = "missing" THEN Refused(h)
    ELSE Outcomes(h, {Removed(h)}, RunsAgain(h, before.mount, before.token))

-----------------------------------------------------------------------------
(* planRuntimeCredentialOperation, applyRuntimeCredentialOperation *)

Now(k, pc) == rotation[k].pc = pc
Becomes(k, r) == rotation' = [rotation EXCEPT ![k] = r]

PlanRotation(k, imports) ==
    /\ Now(k, "idle") /\ config.exists /\ config.ssh /\ host.mount # "none"
    /\ Becomes(k, [rotation[k] EXCEPT !.pc = "planned", !.imports = imports,
                                      !.revision = config.revision])
    /\ UNCHANGED <<exclusionVars, hostVars, lost>>

\* The insertion fails while a row is active (a unique index), and then nothing
\* is done.
BeginsRotation(k) ==
    /\ Now(k, "planned") /\ AcquireMutationLease(k)
    /\ StoredSsh(rotation[k].revision)
    /\ \A j \in Rotations : rotation[j].status \notin ActiveRotation
    /\ Becomes(k, [rotation[k] EXCEPT !.pc = "write", !.status = "applying"])
    /\ UNCHANGED <<hostVars, lost>>

\* Where an error leads when the backup is, or is not, known.
Fails(r) == IF r.backup /\ ~r.imports THEN [r EXCEPT !.pc = "undo"]
                                      ELSE [r EXCEPT !.pc = "close", !.closing = "rolled_back"]

ImportsToken(k) ==
    /\ Now(k, "write") /\ rotation[k].imports
    /\ Becomes(k, IF host.mount = "none" THEN Fails(rotation[k])
                  ELSE [rotation[k] EXCEPT !.pc = "save", !.candidate = host.token])
    /\ UNCHANGED <<exclusionVars, hostVars, lost>>

WritesToken(k) ==
    /\ Now(k, "write") /\ ~rotation[k].imports
    /\ \E o \in IF Startable(host) THEN WriteToken(host, k) ELSE {}, heard \in BOOLEAN :
        LET r == [rotation[k] EXCEPT !.backup = heard /\ o.announced, !.candidate = k,
                                     !.before = [mount |-> host.mount, token |-> host.token]]
        IN
        /\ host' = o.host
        /\ Becomes(k, IF heard /\ o.ok THEN [r EXCEPT !.pc = "save"] ELSE Fails(r))
        /\ lost' = IF heard THEN lost ELSE lost \union {k}
    /\ UNCHANGED <<exclusionVars, config, crashes>>

\* The SSH channel cannot be opened, or a write of the row or of runtime_config
\* fails, or Hermes does not answer.
FailsRotation(k) ==
    /\ rotation[k].pc \in {"write", "save", "verify"}
    /\ Becomes(k, Fails(rotation[k]))
    /\ UNCHANGED <<exclusionVars, hostVars, lost>>

SavesCandidate(k) ==
    /\ Now(k, "save")
    /\ Becomes(k, [rotation[k] EXCEPT !.pc = "verify", !.status = "verifying"])
    /\ UNCHANGED <<exclusionVars, hostVars, lost>>

\* Mutant: the row is committed without Hermes having accepted the key.
CommitsUnverified(k) ==
    /\ Now(k, "verify") /\ StoredSsh(rotation[k].revision) /\ config.revision < MaxRevision
    /\ config' = [config EXCEPT !.token = rotation[k].before.token, !.revision = @ + 1]
    /\ Becomes(k, [rotation[k] EXCEPT !.pc = "succeed"])
    /\ UNCHANGED <<exclusionVars, host, crashes, lost>>

\* testHermesRuntimeAgainst with the candidate, then the update guarded by the
\* revision of the plan.
CommitsToken(k) ==
    /\ Now(k, "verify") /\ Healthy(host) /\ host.token = rotation[k].candidate
    /\ config.exists /\ config.revision = rotation[k].revision /\ config.revision < MaxRevision
    /\ config' = [config EXCEPT !.token = rotation[k].candidate, !.revision = @ + 1]
    /\ Becomes(k, [rotation[k] EXCEPT !.pc = "succeed"])
    /\ UNCHANGED <<exclusionVars, host, crashes, lost>>

\* The row is closed; the write is tried a second time when the first one fails.
\* What was committed is never rolled back.
RecordsSuccess(k) ==
    /\ Now(k, "succeed")
    /\ \E status \in {rotation[k].status, "succeeded"} : Becomes(k, NoRequest("done", status))
    /\ Leaves(k) /\ UNCHANGED <<hostVars, lost>>

UndoesToken(k) ==
    /\ Now(k, "undo")
    /\ \E o \in RestoreToken(host, rotation[k].before) :
        /\ host' = o.host
        /\ Becomes(k, [rotation[k] EXCEPT !.pc = "close",
               !.closing = IF o.ok THEN "rolled_back" ELSE "recovery_required"])
    /\ UNCHANGED <<exclusionVars, config, crashes, lost>>

\* The last write is not tried again.
ClosesRotation(k) ==
    /\ Now(k, "close")
    /\ \E status \in {rotation[k].status, rotation[k].closing} :
        Becomes(k, NoRequest("done", status))
    /\ Leaves(k) /\ UNCHANGED <<hostVars, lost>>

RotationStep ==
    \E k \in Rotations :
        \/ \E imports \in BOOLEAN : PlanRotation(k, imports)
        \/ BeginsRotation(k) \/ ImportsToken(k) \/ WritesToken(k) \/ FailsRotation(k)
        \/ SavesCandidate(k) \/ CommitsToken(k) \/ RecordsSuccess(k) \/ UndoesToken(k)
        \/ ClosesRotation(k)
=============================================================================
