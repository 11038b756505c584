--------------------------- MODULE SshProvisioning ---------------------------
(***************************************************************************)
(* The provisioning of Hermes on a machine reached over SSH: the requests  *)
(* that start a job, the job (provisioning.ts), the activation of the      *)
(* shared directory that ends it or that is asked for by itself            *)
(* (workspace.ts), and the updates made by the manager that the job        *)
(* installs (remote-update-manager.sh).                                    *)
(*                                                                         *)
(* A remote script stops at the first command that fails, or where its     *)
(* channel is lost: its outcomes are the states between two commands, with *)
(* a failure, and the last one, with success or a lost answer.  The        *)
(* machine belongs to one runtime_config, whose row only these requests    *)
(* write.                                                                  *)
(***************************************************************************)
EXTENDS RuntimeExclusion

CONSTANTS
    Jobs,       \* requests for a provisioning; also their leases and fresh tokens
    Activators, \* requests for the activation of a directory
    Updaters,   \* updates by the manager
    Modes,      \* those that are asked for, among "docker" and "native"
    Dirs,       \* values of remoteWorkdir
    Paths,      \* what terminal.cwd is set to, under /opt/data
    MainPath,   \* /opt/data/workspace
    Versions,   \* what the channels latest and main resolve to
    Broken,     \* the versions that never become healthy
    NoToken, NoDir, NoVersion, Home,
    MaxFaults   \* bound: crashes of the Console, stops of the runtime by its operator

Tasks == Jobs \union Activators \union Updaters

ASSUME ProvisioningAssumption ==
    /\ Tasks \subseteq Mutators /\ Jobs \intersect (Activators \union Updaters) = {}
    /\ Activators \intersect Updaters = {} /\ NoToken \notin Jobs
    /\ Modes \subseteq {"docker", "native"} /\ Broken \subseteq Versions
    /\ NoDir \notin Dirs /\ Versions \intersect {NoVersion, "none", "loop", "foreign"} = {}
    /\ MainPath \in Paths /\ Home \notin Paths
    /\ MaxFaults \in Nat

VARIABLES
    host,      \* the machine
    up,        \* who has the port 8642
    latest,    \* the version both channels resolve to
    config,    \* the row of runtime_config; revision 0: there is none
    lock,      \* provisioningLock
    task,      \* each request
    unsettled, \* ghost: a change of the machine was left half way
    faults

vars == <<exclusionVars, host, up, latest, config, lock, task, unsettled, faults>>

-----------------------------------------------------------------------------
(* State *)

Tokens == Jobs \union {NoToken}
Cwds   == Paths \union {Home}

\* env: runtime.env of a directory.  cwd: terminal.cwd in the directory.  box: the
\* container hermes-console-runtime, with the token it was created with.  unit: the
\* file of hermes-gateway.service and the link `current` ("loop": it names itself).
\* svc: what that service was last started with.  dash: the image of the container
\* of the dashboard.
Hosts ==
    [env : [Dirs -> Tokens], cwd : [Dirs -> Cwds],
     manager : [mode : {"none", "docker", "native"}, dir : Dirs \union {NoDir}],
     box : [is : {"none", "foreign", "owned"}, dir : Dirs \union {NoDir},
            version : Versions \union {NoVersion}, token : Tokens],
     unit : [dir : Dirs \union {NoDir}, current : Versions \union {"none", "loop"}],
     svc : [dir : Dirs \union {NoDir}, version : Versions \union {NoVersion}, token : Tokens],
     releases : [Versions -> {"absent", "partial", "full"}],
     dash : Versions \union {"none", "foreign"}]

NoBox == [is |-> "none", dir |-> NoDir, version |-> NoVersion, token |-> NoToken]

Deploying  == {"deploy", "health", "dash", "verify", "save"}
Activating == {"align", "persist", "restore", "retract"}
Running    == {"prepare"} \union Deploying \union Activating
Ended      == {"succeeded", "failed", "refused", "lost"}

ProvisioningTypeOK ==
    /\ ExclusionTypeOK
    /\ host \in Hosts
    /\ up \in {"none", "docker", "native"}
    /\ latest \in Versions
    /\ config \in [revision : Nat, token : Tokens, mode : {"docker", "native"}, ready : BOOLEAN,
                   dir : Dirs \union {NoDir}, path : Cwds]
    /\ lock \in BOOLEAN
    /\ task \in [Tasks ->
           [pc : {"idle", "inspect", "admitted", "chosen", "update"} \union Running \union Ended,
            mode : {"docker", "native"}, dir : Dirs \union {NoDir}, path : Cwds, given : BOOLEAN,
            aligns : BOOLEAN, seen : Nat, token : Tokens, before : Cwds]]
    /\ unsettled \in BOOLEAN
    /\ faults \in 0..MaxFaults

\* A machine on which nothing was provisioned, where somebody else may own the
\* names of the containers.
Init ==
    /\ ExclusionInit
    /\ \E is \in {"none", "foreign"}, dash \in {"none", "foreign"} :
        host = [env |-> [d \in Dirs |-> NoToken], cwd |-> [d \in Dirs |-> Home],
                manager |-> [mode |-> "none", dir |-> NoDir], box |-> [NoBox EXCEPT !.is = is],
                unit |-> [dir |-> NoDir, current |-> "none"],
                svc |-> [dir |-> NoDir, version |-> NoVersion, token |-> NoToken],
                releases |-> [v \in Versions |-> "absent"], dash |-> dash]
    /\ up = "none"
    /\ latest \in Versions
    /\ config = [revision |-> 0, token |-> NoToken, mode |-> "docker", ready |-> FALSE,
                 dir |-> NoDir, path |-> Home]
    /\ lock = FALSE
    /\ task = [x \in Tasks |-> [pc |-> "idle", mode |-> "docker", dir |-> NoDir, path |-> MainPath,
                                given |-> FALSE, aligns |-> TRUE, seen |-> 0, token |-> NoToken,
                                before |-> Home]]
    /\ unsettled = FALSE
    /\ faults = 0

\* What a process on the port is.
Process(h, u) == IF u = "docker" THEN h.box ELSE h.svc
Serves(h, u)  == u # "none" /\ Process(h, u).version \notin Broken

\* testHermesRuntimeAgainst, through a channel of the service's account.
Answers(token) == Serves(host, up) /\ Process(host, up).token = token

-----------------------------------------------------------------------------
(* The scripts: a state is a pair of the machine and the owner of the port *)

Cut(states)  == {[to |-> s, ok |-> FALSE] : s \in states}
Done(states) == {[to |-> s, ok |-> TRUE] : s \in states}

\* docker run, docker start: the port must be free, and a service that never
\* becomes healthy may let it go.  Busy: the container is there and not started.
Starts(h, u) == IF u # "native" \/ ~Serves(h, u) THEN {<<h, "docker">>} ELSE {}
Busy(h, u)   == IF u = "native" THEN {<<h, u>>} ELSE {}
Without(who, u) == IF u = who THEN "none" ELSE u

Boxed(h, d, v) == [h EXCEPT !.box = [is |-> "owned", dir |-> d, version |-> v, token |-> h.env[d]]]

\* The file with the token is written before the container is looked at, and the
\* container is kept when its shape and its token are those wanted.
DeployDocker(h, u, d, v, token) ==
    LET wrote == [h EXCEPT !.env[d] = token]
        bare  == [wrote EXCEPT !.box = NoBox]
        made  == Boxed(wrote, d, v)
        free  == Without("docker", u)
    IN  Cut({<<h, u>>, <<wrote, u>>}) \union
        CASE h.box.is = "foreign" -> {}
          [] made = wrote         -> LET ran == Starts(made, u) \union Busy(made, u)
                                     IN  Cut(ran) \union Done(ran)
          [] OTHER                -> Cut({<<bare, free>>} \union Starts(made, free) \union Busy(made, free))
                                     \union Done(Starts(made, free))

\* systemctl restart: the service reads its files again.
Restarts(h, u) ==
    LET new == [h EXCEPT !.svc = [dir |-> h.unit.dir, version |-> h.unit.current,
                                  token |-> h.env[h.unit.dir]]]
    IN  IF h.unit.current \notin Versions THEN {<<h, Without("native", u)>>}
        ELSE (IF u = "docker" THEN {<<new, u>>} ELSE {})
             \union (IF u = "docker" /\ Serves(h, u) THEN {} ELSE {<<new, "native">>})

Linked(h, current) == [h EXCEPT !.unit.current = current]

\* The link is switched, and switched back when the service does not restart or
\* does not become healthy; `who` may answer the health check.
Switch(h, u, v, previous, who) ==
    LET linked    == Linked(h, v)
        restarted == Restarts(linked, u)
        back      == {<<Linked(s[1], previous), Without("native", s[2])>> : s \in restarted}
    IN  Cut({<<linked, u>>} \union restarted \union back)
        \union Cut(UNION {Restarts(s[1], s[2]) : s \in back})
        \union Done({s \in restarted : s[2] \in who /\ Serves(s[1], s[2])})

\* The release is installed in its own directory, by steps.
Installing(h, u, v) ==
    IF h.releases[v] = "full" THEN {}
    ELSE {<<[h EXCEPT !.releases[v] = r], u>> : r \in {"absent", "partial", "full"}}

\* PREVIOUS of the deployment: `readlink -f` prints the path of a link that does not
\* exist, and fails on one that names itself.
Previous(h) == CASE h.unit.current = "none" -> "loop"
                 [] h.unit.current = "loop" -> "none"
                 [] OTHER                   -> h.unit.current

\* Its health check is a curl on the port, whoever answers there.
DeployNative(h, u, d, v, token) ==
    LET full   == [h EXCEPT !.releases[v] = "full"]
        wrote  == [full EXCEPT !.env[d] = token]
        placed == [wrote EXCEPT !.unit.dir = d]
    IN  Cut({<<h, u>>, <<wrote, u>>, <<placed, u>>} \union Installing(h, u, v))
        \union Switch(placed, u, v, Previous(h), {"native", "docker"})

\* validate_docker of the manager
ValidDocker(h) ==
    /\ h.box.is = "owned" /\ h.box.dir = h.manager.dir
    /\ h.env[h.manager.dir] # NoToken

\* update_docker: the old container is renamed until the new one is healthy.
UpdateDocker(h, u, v) ==
    LET bare == [h EXCEPT !.box = NoBox]
        made == Boxed(h, h.manager.dir, v)
        free == Without("docker", u)
        ran  == Starts(made, free) \union Busy(made, free)
    IN  Cut({<<h, u>>}) \union
        IF ~ValidDocker(h) THEN {}
        ELSE IF h.box.version = v THEN Done(Starts(h, u) \union Busy(h, u))
        ELSE Cut({<<h, free>>, <<bare, free>>} \union ran)
             \union Cut(Starts(h, free) \union Busy(h, free))
             \union Done({s \in ran : Serves(s[1], s[2])})

\* Mutant: a release that is there is not looked into.
UpdateNativeBlind(h, u, v) ==
    Cut({<<h, u>>}) \union
    CASE h.unit.current \notin Versions -> {}
      [] h.unit.current = v             -> Done({<<h, u>>})
      [] h.releases[v] = "partial"      -> Switch(h, u, v, h.unit.current, {"native"})
      [] OTHER -> Cut(Installing(h, u, v))
                  \union Switch([h EXCEPT !.releases[v] = "full"], u, v, h.unit.current, {"native"})

\* update_native: a release that is there without an executable is a collision, and
\* the process of the service is the one that must listen.
UpdateNative(h, u, v) ==
    Cut({<<h, u>>}) \union
    CASE h.unit.current \notin Versions -> {}
      [] h.unit.current = v             -> Done({<<h, u>>})
      [] h.releases[v] = "partial"      -> {}
      [] OTHER -> Cut(Installing(h, u, v))
                  \union Switch([h EXCEPT !.releases[v] = "full"], u, v, h.unit.current, {"native"})

-----------------------------------------------------------------------------
(* Steps of a request *)

Now(x, pc)  == task[x].pc = pc
Goes(x, pc) == task' = [task EXCEPT ![x].pc = pc]

KeepsHost   == UNCHANGED <<host, up, latest>>
KeepsMemory == UNCHANGED <<exclusionVars, lock>>

\* The end of a request under its lease: `finally` of withRuntimeMutationLease,
\* then that of the job.
Leaves(x) ==
    /\ mutationLease' = IF mutationLease = x THEN NoLease ELSE mutationLease
    /\ lock' = IF x \in Jobs THEN FALSE ELSE lock
    /\ UNCHANGED <<runReservations, holders, followed>>

\* An error: what a job has done to the machine stays.
Fails(x) ==
    /\ Goes(x, "failed") /\ Leaves(x)
    /\ unsettled' = (unsettled \/ x \in Jobs)

\* A step that goes on to pc, or is an error.
Proceeds(x, pc) == \/ Goes(x, pc) /\ KeepsMemory /\ UNCHANGED unsettled
                   \/ Fails(x)

-----------------------------------------------------------------------------
(* POST /api/runtime/ssh/provision *)

ActiveJob == \E j \in Jobs : task[j].pc \in Running

\* Between the request and its job there are two inspections to wait for.
Post(j) ==
    /\ Now(j, "idle") /\ ~lock /\ ~ActiveJob
    /\ lock' = TRUE
    /\ \E mode \in Modes, dir \in Dirs, given \in BOOLEAN :
        task' = [task EXCEPT ![j] = [@ EXCEPT !.pc = "inspect", !.mode = mode, !.dir = dir,
                                              !.given = given]]
    /\ UNCHANGED <<exclusionVars, config, unsettled, faults>> /\ KeepsHost

\* A request whose body is not valid never took the lock; its `catch` gives it back.
RejectsInvalid ==
    /\ lock /\ lock' = FALSE
    /\ UNCHANGED <<exclusionVars, config, task, unsettled, faults>> /\ KeepsHost

Refuses(j) == Goes(j, "refused") /\ lock' = FALSE /\ UNCHANGED <<exclusionVars, unsettled>>

\* inspectSshTarget: a healthy installation is not to be replaced.
Inspects(j) ==
    /\ Now(j, "inspect")
    /\ \/ ~Serves(host, up) /\ Goes(j, "admitted") /\ KeepsMemory /\ UNCHANGED unsettled
       \/ Refuses(j)
    /\ UNCHANGED <<config, faults>> /\ KeepsHost

\* Mutant: the job does not ask for the lease.
CreatesUnlocked(j) ==
    /\ Now(j, "admitted")
    /\ Goes(j, "prepare") /\ KeepsMemory
    /\ UNCHANGED <<config, unsettled, faults>> /\ KeepsHost

\* The second inspection; then the job is put in the map, and takes the lease before
\* it waits for anything.
CreatesJob(j) ==
    /\ Now(j, "admitted")
    /\ \/ Refuses(j)
       \/ AcquireMutationLease(j) /\ Goes(j, "prepare") /\ UNCHANGED <<lock, unsettled>>
       \/ /\ mutationLease # NoLease
          /\ Goes(j, "failed") /\ lock' = FALSE /\ UNCHANGED <<exclusionVars, unsettled>>
    /\ UNCHANGED <<config, faults>> /\ KeepsHost

-----------------------------------------------------------------------------
(* provisionSshRuntimeOnChannel *)

\* The identities, the directory and the manager, which is installed for the
\* directory and the mode to come.
Prepares(j) ==
    /\ Now(j, "prepare")
    /\ LET managed == [host EXCEPT !.manager = [mode |-> task[j].mode, dir |-> task[j].dir]]
       IN  \/ host' = managed /\ Proceeds(j, "deploy")
           \/ UNCHANGED host /\ Goes(j, "failed") /\ Leaves(j) /\ UNCHANGED unsettled
    /\ UNCHANGED <<up, latest, config, faults>>

\* The token is the one given, the one of runtime.env, or a fresh one.
Deploys(j) ==
    /\ Now(j, "deploy")
    /\ LET d     == task[j].dir
           token == IF task[j].given \/ host.env[d] = NoToken THEN j ELSE host.env[d]
       IN  \E o \in IF task[j].mode = "docker" THEN DeployDocker(host, up, d, latest, token)
                                               ELSE DeployNative(host, up, d, latest, token) :
               /\ host' = o.to[1] /\ up' = o.to[2]
               /\ IF o.ok
                  THEN /\ task' = [task EXCEPT ![j] = [@ EXCEPT !.token = token,
                              !.pc = IF task[j].mode = "docker" THEN "health" ELSE "verify"]]
                       /\ KeepsMemory /\ UNCHANGED unsettled
                  ELSE Fails(j)
    /\ UNCHANGED <<latest, config, faults>>

\* curl on the port.
AwaitsHealth(j) ==
    /\ Now(j, "health")
    /\ IF Serves(host, up) THEN Proceeds(j, "dash") ELSE Fails(j)
    /\ UNCHANGED <<config, faults>> /\ KeepsHost

\* ensureDockerDashboard, verifyRemoteDashboard
EnsuresDashboard(j) ==
    /\ Now(j, "dash")
    /\ \/ UNCHANGED host /\ Fails(j)
       \/ /\ host.dash # "foreign"
          /\ \/ host' = [host EXCEPT !.dash = host.box.version] /\ Proceeds(j, "verify")
             \/ host' = [host EXCEPT !.dash = "none"] /\ Fails(j)
    /\ UNCHANGED <<up, latest, config, faults>>

Verifies(j) ==
    /\ Now(j, "verify")
    /\ IF Answers(task[j].token) THEN Proceeds(j, "save") ELSE Fails(j)
    /\ UNCHANGED <<config, faults>> /\ KeepsHost

\* connectAndSaveSshRuntime: a second test, then the row, which keeps the workspace of
\* the same machine, and its revision when nothing has changed; reading it back may
\* fail.
Saves(j) ==
    /\ Now(j, "save")
    /\ LET token   == task[j].token
           changed == config.revision = 0 \/ config.token # token \/ config.mode # task[j].mode
           next    == config.revision + (IF changed THEN 1 ELSE 0)
       IN  \/ /\ Answers(token)
              /\ config' = [config EXCEPT !.token = token, !.mode = task[j].mode, !.revision = next]
              /\ \/ /\ task' = [task EXCEPT ![j] = [@ EXCEPT !.pc = "align", !.seen = next]]
                    /\ KeepsMemory /\ UNCHANGED unsettled
                 \/ Fails(j)
           \/ Fails(j) /\ UNCHANGED config
    /\ UNCHANGED faults /\ KeepsHost

-----------------------------------------------------------------------------
(* activateSshWorkspace, as the end of a job and for PUT .../ssh/workspace *)

\* What the inspection of the service's account must say: it sees the container by
\* the manager only, and the account of the service that a job installs is a number
\* which sudo takes for a name, so that nothing native can be set.
Maps(x) ==
    /\ host.manager.mode = "docker" /\ ValidDocker(host) /\ up = "docker"
    /\ host.box.dir = task[x].dir

\* discoverSshWorkspace: the screen asks later for a path it was shown, and for
\* terminal.cwd to be set unless it is that path already.
Discovers(a) ==
    /\ Now(a, "idle") /\ config.revision > 0
    /\ host.manager.mode = "docker" /\ ValidDocker(host)
    /\ LET cwd == IF up = "docker" THEN host.cwd[host.box.dir] ELSE Home
       IN  \E path \in Paths :
               task' = [task EXCEPT ![a] =
                   [@ EXCEPT !.pc = "chosen", !.dir = host.box.dir, !.path = path,
                             !.aligns = (path # cwd), !.seen = config.revision]]
    /\ UNCHANGED <<exclusionVars, config, lock, unsettled, faults>> /\ KeepsHost

BeginsActivation(a) ==
    /\ Now(a, "chosen")
    /\ \/ AcquireMutationLease(a) /\ task[a].seen = config.revision /\ Goes(a, "align")
       \/ UNCHANGED exclusionVars /\ Goes(a, "refused")
    /\ UNCHANGED <<config, lock, unsettled, faults>> /\ KeepsHost

\* alignTerminalCwd: set, then read back.  A channel that is lost in between leaves
\* what was set, for the caller does not hold the rollback yet.
Aligns(x) ==
    /\ Now(x, "align")
    /\ LET d   == host.box.dir
           set == [host EXCEPT !.cwd[d] = task[x].path]
       IN  \/ UNCHANGED host /\ Fails(x)
           \/ /\ Maps(x) /\ ~task[x].aligns
              /\ UNCHANGED host /\ Proceeds(x, "persist")
           \/ /\ Maps(x) /\ task[x].aligns /\ host' = set
              /\ \/ /\ \E pc \in {"persist", "restore"} :
                        task' = [task EXCEPT ![x] = [@ EXCEPT !.pc = pc, !.before = host.cwd[d]]]
                    /\ KeepsMemory /\ UNCHANGED unsettled
                 \/ Goes(x, "failed") /\ Leaves(x) /\ unsettled' = TRUE
    /\ UNCHANGED <<up, latest, config, faults>>

\* An error of an activation that may have set terminal.cwd.
Undoes(x, pc) ==
    \/ task[x].aligns /\ Goes(x, pc) /\ KeepsMemory /\ UNCHANGED unsettled
    \/ ~task[x].aligns /\ Fails(x)

\* The proofs of writing, then persistSshWorkspace, which reads the row back after
\* its transaction: an error there undoes terminal.cwd and not the row.
Persists(x) ==
    /\ Now(x, "persist")
    /\ \/ /\ up = "docker" /\ task[x].seen = config.revision
          /\ config' = [config EXCEPT !.ready = TRUE, !.dir = task[x].dir,
                                      !.path = task[x].path, !.revision = @ + 1]
          /\ \/ /\ Goes(x, "succeeded") /\ Leaves(x)
                /\ unsettled' = (unsettled /\ x \notin Jobs)
             \/ Undoes(x, "retract")
       \/ Undoes(x, "restore") /\ UNCHANGED config
    /\ UNCHANGED faults /\ KeepsHost

\* A screen was shown the path that x undoes, and will not ask for it to be set.
ShowsWhatIsUndone(x) ==
    \E a \in Activators :
        /\ Now(a, "chosen") /\ ~task[a].aligns /\ task[a].seen = config.revision
        /\ task[a].path # task[x].before

\* Mutant: the path of before is forgotten.
RestoresNothing(x) ==
    /\ task[x].pc \in {"restore", "retract"}
    /\ Goes(x, "failed") /\ Leaves(x)
    /\ unsettled' = (unsettled \/ x \in Jobs \/ Now(x, "retract"))
    /\ UNCHANGED <<config, faults>> /\ KeepsHost

\* withTerminalCwdRollback
Restores(x) ==
    /\ task[x].pc \in {"restore", "retract"}
    /\ \/ /\ Maps(x) /\ host' = [host EXCEPT !.cwd[host.box.dir] = task[x].before]
          /\ unsettled' = (unsettled \/ x \in Jobs \/ Now(x, "retract") \/ ShowsWhatIsUndone(x))
       \/ UNCHANGED host /\ unsettled' = TRUE
    /\ Goes(x, "failed") /\ Leaves(x)
    /\ UNCHANGED <<up, latest, config, faults>>

-----------------------------------------------------------------------------
(* An update by the manager, under the lease of the update *)

BeginsUpdate(u) ==
    /\ Now(u, "idle") /\ config.revision > 0 /\ AcquireMutationLease(u)
    /\ Goes(u, "update")
    /\ UNCHANGED <<config, lock, unsettled, faults>> /\ KeepsHost

RunsManager(u) ==
    /\ Now(u, "update")
    /\ \E o \in IF host.manager.mode = "docker" THEN UpdateDocker(host, up, latest)
                                                ELSE UpdateNative(host, up, latest) :
        /\ host' = o.to[1] /\ up' = o.to[2]
        /\ Goes(u, IF o.ok THEN "succeeded" ELSE "failed")
    /\ Leaves(u)
    /\ UNCHANGED <<latest, config, unsettled, faults>>

-----------------------------------------------------------------------------
(* What happens outside *)

\* The process of the Console dies: the jobs, the lock and the lease are lost, and
\* nothing takes up what they were doing.
Crash ==
    /\ faults < MaxFaults /\ faults' = faults + 1
    /\ Restart
    /\ lock' = FALSE
    /\ task' = [x \in Tasks |-> IF task[x].pc \in {"idle", "chosen"} \union Ended THEN task[x]
                                ELSE [task[x] EXCEPT !.pc = "lost"]]
    /\ unsettled' = (unsettled \/ \E x \in Tasks :
                        \/ task[x].pc \in {"restore", "retract"}
                        \/ task[x].pc = "persist" /\ task[x].aligns
                        \/ x \in Jobs /\ task[x].pc \in Deploying \union Activating)
    /\ UNCHANGED config /\ KeepsHost

\* The operator stops the runtime.
Stops ==
    /\ faults < MaxFaults /\ faults' = faults + 1
    /\ up # "none" /\ up' = "none"
    /\ UNCHANGED <<exclusionVars, host, latest, config, lock, task, unsettled>>

\* Another version is published.
Advances ==
    /\ latest' \in Versions \ {latest}
    /\ UNCHANGED <<exclusionVars, host, up, config, lock, task, unsettled, faults>>

Next ==
    \/ \E j \in Jobs :
        \/ Post(j) \/ Inspects(j) \/ CreatesJob(j) \/ Prepares(j) \/ Deploys(j)
        \/ AwaitsHealth(j) \/ EnsuresDashboard(j) \/ Verifies(j) \/ Saves(j)
    \/ \E a \in Activators : Discovers(a) \/ BeginsActivation(a)
    \/ \E x \in Jobs \union Activators : Aligns(x) \/ Persists(x) \/ Restores(x)
    \/ \E u \in Updaters : BeginsUpdate(u) \/ RunsManager(u)
    \/ RejectsInvalid \/ Crash \/ Stops \/ Advances

Spec == Init /\ [][Next]_vars

-----------------------------------------------------------------------------
(* Properties *)

\* The link `current` never names a release whose installation was cut off, however
\* many attempts, rollbacks and updates there were.
CurrentIsWhole ==
    host.unit.current \in Versions => host.releases[host.unit.current] = "full"

\* As long as no request left its change half way, the process on the port is the one
\* runtime_config describes: it has the stored token, it has the directory of the
\* active workspace and terminal.cwd is its path, whatever updates, stops, crashes and
\* activations that failed there were.
RuntimeIsTheConfiguredOne ==
    mutationLease = NoLease /\ ~unsettled /\ config.revision > 0 /\ up # "none" =>
        /\ Process(host, up).token = config.token
        /\ config.ready =>
             /\ up = "docker" /\ host.box.dir = config.dir
             /\ host.cwd[config.dir] = config.path

\* The state of a machine and of its row stays coherent: the variables have their
\* types, the current release is whole, and outside the requests that were cut off
\* the runtime is the one that is configured.
ProvisioningInvariant ==
    ProvisioningTypeOK /\ CurrentIsWhole /\ RuntimeIsTheConfiguredOne

\* A job is reported as succeeded only on a machine where the container it asked for
\* is in its directory with the token of the row, and works in the workspace the row
\* calls ready: no other request came between its steps.
SucceededIsConnected ==
    [][\A j \in Jobs : ~Now(j, "succeeded") /\ task'[j].pc = "succeeded" =>
        /\ host.manager = [mode |-> "docker", dir |-> task[j].dir]
        /\ host.box.is = "owned" /\ host.box.dir = task[j].dir
        /\ host.box.token = config'.token /\ config'.token = task[j].token
        /\ config'.ready /\ config'.dir = task[j].dir
        /\ host.cwd[task[j].dir] = MainPath]_vars
=============================================================================
