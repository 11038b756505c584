----------------------------- MODULE RuntimeHost -----------------------------
(***************************************************************************)
(* What the long operations on the runtime share: the row of               *)
(* runtime_config, the machine Hermes runs on, and the shell scripts the   *)
(* Console sends there over SSH.                                           *)
(*                                                                         *)
(* A script runs under `set -eu`: it stops at the first command that       *)
(* fails, and the channel may be lost even after the last one.  Its        *)
(* outcomes are therefore the states between two commands, each with a     *)
(* failure, and the last state with success.                               *)
(***************************************************************************)
EXTENDS RuntimeExclusion

CONSTANTS
    Rotations,   \* the changes of API_SERVER_KEY; each makes one fresh token
    Updates,     \* the updates of Hermes
    FirstToken,  \* the token before any of them
    MaxRevision, \* bound: revisions of the configuration
    MaxCrashes   \* bound: crashes of the process of the Console

ASSUME HostAssumption ==
    /\ Rotations \subseteq Mutators /\ FirstToken \notin Rotations
    /\ Updates \subseteq Mutators
    /\ MaxRevision \in Nat \ {0} /\ MaxCrashes \in Nat

Tokens == Rotations \union {FirstToken}

VARIABLES
    config,  \* the row "default" of runtime_config
    host,    \* the machine of the runtime
    crashes  \* crashes so far

hostVars == <<config, host, crashes>>

\* Of a container: mount is what it mounts on /opt/data: a named volume, that volume's
\* directory on the host ("inner"), or the bind mount of the migration ("none": there is
\* no such container); token is API_SERVER_KEY as Hermes has it; version is what answers
\* ("broken": nothing becomes healthy); project is the deployment of Compose its labels
\* name: none, the operator's own, or the one that a migration has made ("managed").
Mounts   == {"none", "volume", "inner", "bind"}
Versions == {"old", "new", "broken"}
Projects == {"none", "own", "managed"}
Images   == {"old", "new"}

\* What an update has left beside the container: its backup of the compose file of its
\* project, with the image named there, and the container it has renamed (`adopts`: it
\* had no labels) with all it had.
Checkpoints ==
    [project : Projects, backup : BOOLEAN, image : Images, adopts : BOOLEAN,
     legacy : BOOLEAN, mount : Mounts, token : Tokens, version : Versions]

\* mount, running, version, token, project: the container hermes-console-runtime.  kept:
\* the container renamed for rollback exists, and was `keptAs`.  data: the directory the
\* migration copies to.  compose: the deployment it prepares: runtime.env, with the key
\* `env`, then compose.yml, which names an image.  own: the image the operator's file names.
Hosts ==
    [mount : Mounts, running : BOOLEAN, version : Versions, token : Tokens, project : Projects,
     kept : BOOLEAN, keptAs : [token : Tokens, version : Versions, project : Projects],
     data : {"missing", "empty", "partial", "full"},
     compose : {"none", "env"} \union Images, env : Tokens, own : Images,
     left : [Updates -> Checkpoints]]

\* exists: there is a row; ssh: its transport; workspace: the shared directory is
\* activated ("ready"); token: the token it stores.
Configs ==
    [exists : BOOLEAN, ssh : BOOLEAN, revision : 0..MaxRevision,
     workspace : {"none", "ready"}, token : Tokens]

NotKept == [token |-> FirstToken, version |-> "old", project |-> "none"]

NoCheckpoint ==
    [project |-> "none", backup |-> FALSE, image |-> "old", adopts |-> FALSE,
     legacy |-> FALSE, mount |-> "none", token |-> FirstToken, version |-> "old"]

HostTypeOK ==
    /\ ExclusionTypeOK
    /\ config \in Configs
    /\ host \in Hosts
    /\ crashes \in 0..MaxCrashes

HostInit ==
    /\ ExclusionInit
    /\ config = [exists |-> TRUE, ssh |-> TRUE, revision |-> 1, workspace |-> "none", token |-> FirstToken]
    /\ \E project \in {"none", "own"} :
        host = [mount |-> "volume", running |-> TRUE, version |-> "old", token |-> FirstToken,
                project |-> project, kept |-> FALSE,
                keptAs |-> NotKept,
                data |-> "missing", compose |-> "none", env |-> FirstToken, own |-> "old",
                left |-> [u \in Updates |-> NoCheckpoint]]
    /\ crashes = 0

-----------------------------------------------------------------------------
(* Scripts *)

\* A script sent to a host h goes `through` some states and ends in another.
Outcomes(h, through, end) ==
    {[host |-> s, ok |-> FALSE] : s \in {h, end} \union through}
    \union {[host |-> end, ok |-> TRUE]}

\* testHermesRuntimeAgainst, with the right token; then with the one that is stored.
Healthy(h) == h.mount # "none" /\ h.running /\ h.version # "broken"
Answers(h) == config.exists /\ config.ssh /\ Healthy(h) /\ h.token = config.token

\* docker start: the directory of a bind mount must be there.
Startable(h) == h.mount # "none" /\ (h.mount = "bind" => h.data # "missing")

\* A script whose first command cannot succeed.
Refused(h) == {[host |-> h, ok |-> FALSE]}

-----------------------------------------------------------------------------
(* The lease *)

\* `finally` of withRuntimeMutationLease, when m holds it.
Leaves(m) ==
    /\ mutationLease' = IF mutationLease = m THEN NoLease ELSE mutationLease
    /\ UNCHANGED <<runReservations, holders, followed>>

-----------------------------------------------------------------------------
(* runtime_config *)

\* getStoredSshRuntime(expectedRevision)
StoredSsh(revision) == config.exists /\ config.ssh /\ config.revision = revision

\* saveRuntimeConfigUnlocked: another runtime, reached directly; a new revision.
SavedDirect(c) ==
    [exists |-> TRUE, ssh |-> FALSE, revision |-> IF c.exists THEN c.revision + 1 ELSE 1,
     workspace |-> "none", token |-> FirstToken]

\* connectAndSaveSshRuntimeUnlocked, with a token the runtime has accepted: the
\* row keeps its revision when nothing changed, its workspace when it was
\* already about this machine.
SavedSsh(c, token) ==
    [exists |-> TRUE, ssh |-> TRUE,
     revision |-> IF ~c.exists THEN 1
                  ELSE IF c.ssh /\ c.token = token THEN c.revision ELSE c.revision + 1,
     workspace |-> IF c.exists /\ c.ssh THEN c.workspace ELSE "none",
     token |-> token]

NoConfig ==
    [exists |-> FALSE, ssh |-> FALSE, revision |-> 0, workspace |-> "none", token |-> FirstToken]
=============================================================================
