# Hermes Console: formal models

TLA+ models of the server of Hermes Console (`src/tui-v0.1.0/apps/server`), the TLC
configurations that check them and the proofs that TLAPS checks. The Console is a web
application in front of Hermes, an agent runtime that is another process on a local or a
remote host: a user writes in a conversation, the Console opens a *run*, submits it to
Hermes, follows the stream of events Hermes sends, stores it, shows it, relays the
authorisations Hermes asks for, and closes the run.

Nothing here is about the wording of a screen or the content of a message. What is modelled
is what makes this server hard to test: one Node process in which dozens of `await`s
interleave, a PostgreSQL database under READ COMMITTED, a process outside that fails and
answers late, and restarts at any point.

Contents: [inventory](#1-inventory) · [how the code is modelled](#2-how-the-code-is-modelled) ·
[modules](#3-modules) · [runs](#4-runs-bounds-and-what-they-show) ·
[fairness and deadlock](#5-fairness-and-deadlock) · [proofs](#6-proofs) ·
[divergences](#7-where-code-and-documentation-disagree) ·
[left out](#8-what-is-only-model-checked-what-is-not-modelled) · [plan](#9-plan) ·
[running](#10-running-the-checks)

## 1. Inventory

Paths are relative to `src/tui-v0.1.0/apps/server/src/modules/` unless they start with
`apps/` or `packages/` (then relative to `src/tui-v0.1.0/`).

### Modelled now

**Run store** (`runs/repository.ts`, `runs/approval-requests.ts`).
*State*: table `runs` (status, `hermes_response_id`, `approval_claim_id`) and table
`approval_requests` (state and outcome of each demand).
*Operations*: `createThreadWithRun`, `createRunForThread`, `discardUnstartedRun`,
`markRunStarting`, `markRunStarted`, `markRunAwaitingApproval`, `setHermesResponseId`,
`completeRun`, `failRun`, `claimRunApproval`, `releaseRunApprovalClaim`,
`finalizeRunApprovalClaim`, and persist / claim / resolve / release of a request.
*Hard*: some of these test and write in one statement, others read the status in one
statement and write it in the next, others do not test it at all.
*Correct when*: one active run per conversation; a closed run is not rewritten; a request is
claimed, resolved and released by one caller at a time.

**Run execution** (`runs/runner.ts`, the POST routes, `runs/retry-run.ts`,
`runs/cancel-run.ts`).
*State*: `hermesConsoleActiveRuns` (the registry of readers: controller, source,
`hermesRunId`), and where each asynchronous activity is suspended.
*Operations*: `startRun` → `executeAgentRun` → `consumeAgentStream`;
`resumeAgentRun` → `resumeAgentStream`; `handleAgentRunError`; `cancelRun` /
`cancelActiveRun`.
*Interactions*: calls the store at each step, Hermes by HTTP (submit, stream, status, stop),
and the guard of the runtime; called by the routes, the reconciliation and the approval relay.
*Hard*: cancellation at any await, including before the submission is recorded; a stream
that ends, breaks or answers 404; the `finally` of a reader that leaves late.
*Correct when*: the registry names the readers at work; a status that is recorded is true of
Hermes; nobody is cancelled who was not asked to be; no run stays `running` with nobody to
close it.

**Boot reconciliation** (`runs/reconciler.ts`, `runs/reconcile-decision.ts`,
`instrumentation.ts`).
*State*: the list of orphans read at boot.
*Operations*: list, probe Hermes for each, then close, cancel or resume.
*Hard*: it runs in the background of a server that already answers (`void
reconcileOrphanRuns()`), on a list that ages.
*Correct when*: every orphan ends up closed or followed, and no live run is overwritten by a
wrong closure.

**Runtime exclusion** (`runs/active-runtime-guard.ts`).
*State*: `mutationLease`, `runReservations`, and the registry of readers.
*Operations*: `acquireRuntimeMutationLease`, `withRuntimeMutationLease`,
`acquireRunStartLease`, `assertRuntimeMutationIdle`. Long operations that take the lease:
`runtime/credentials.ts`, `runtime/config.ts`, `runtime/update.ts`, `runtime/ssh/workspace.ts`,
`runtime/ssh/provisioning.ts`, `runtime/ssh/storage-migration.ts`. Requests that reserve: the
two POST routes of a conversation and `runs/retry-run.ts`.
*Hard*: it counts reservations without knowing whose they are, and hands them over to the
registry in `startRun`.
*Correct when*: a long operation and a run never overlap, and the count never drifts.

**Approval relay** (`runs/respond-approval.ts`, `policy/hermes-approval.ts`).
*State*: both claims in the database; nothing in memory.
*Operations*: look up, claim the run, claim the request, write the audit intent, call Hermes,
resolve, write the audit outcome, finalise the claim, resume the reader.
*Interactions*: the call to Hermes names only the run, never the demand.
*Hard*: nine awaits; two humans; an answer of Hermes that is lost after it took effect.
*Correct when*: a decision reaches the demand it was taken for, once, and what is recorded is
what Hermes was told.

**Event stream** (`runs/runner.ts` `consumeAgentStream`/`persistEvents`,
`packages/console-core/src/lib/hermes-events.ts`, `runs/repository.ts` `appendRunEvents`,
`runs/event-bus.ts`, `runs/product-event-sse.ts`).
*State*: the buffer and the counter of the normalizer, table `run_events`, the subscribers of
the bus, the cursor and queue of each SSE connection.
*Operations*: number, coalesce, flush on a timer of 100 ms, insert in a transaction, publish;
subscribe, list what was missed, poll every two seconds, send in one queue.
*Hard*: the loop and the timer write in transactions that overlap; identities are drawn in
one order and committed in another; the result of a tool is numbered before the text that came
before it, and the error of a reader that throws before the text it is written after.
*Correct when*: text is neither lost nor numbered twice, and a viewer gets every event once
and in order.

**Storage migration** (`runtime/ssh/storage-migration.ts`).
*State*: a row of `runtime_storage_migrations` (queued, running, succeeded, rolled_back,
failed, recovery_required), the configuration, and the containers, volumes and directories of a
remote host.
*Operations*: plan, start, execute (stop, copy, cut over, verify, activate, save), roll back,
reconcile at boot.
*Hard*: a command that fails or times out after it took effect; a crash between a command and
its journal entry; a rollback that runs after the lease was released, and may fail too.
*Correct when*: Hermes never runs on half a copy; a success keeps its way back; a migration
that is not recorded as a success has put the previous storage back, or says that it could not.

**Runtime updates** (`runtime/update.ts`, `runtime/update-operations.ts`).
*State*: the row of each operation, the map of the promises that execute them; on the host the
backup of the compose file and, of a container without the labels of Compose, that container under
another name.
*Operations*: start, inspect, execute with its checkpoint, clean it, roll back, poll (which
reconciles a row nobody executes), end.
*Hard*: a container without labels is made again from whatever deployment a migration has left
there, with its mount and its key; two starts that both find nothing active; a poll that reads a row,
then its worker, then writes; a failure after the new version already answers.
*Correct when*: the host changes only under the lease; an update that has to be undone can be;
Hermes does not lose its key nor get half a copy by being updated.

**Runtime configuration and credentials** (`runtime/config.ts`, `runtime/credentials.ts`).
*State*: the row of `runtime_config` with its revision; plans in memory; rows of
`runtime_credential_operations`; the key on the remote host.
*Operations*: plan, apply (write, restart, commit, verify), undo; save and delete the configuration.
*Hard*: the key is in two places that change one after the other; each step may be lost.
*Correct when*: the Console knows the key of its runtime, or says that it needs recovery.

**SSH provisioning and workspace** (`runtime/ssh/provisioning.ts`, `runtime/ssh/workspace.ts`,
`runtime/ssh/remote-update-manager.ts`, `runtime/service.ts` `connectAndSaveSshRuntime`, the routes
of `/api/runtime/ssh`).
*State*: in the process, `provisioningLock` and the map of jobs; on the machine, the manager and its
configuration, `runtime.env`, the container or the unit with its link `current` and its releases,
`terminal.cwd`; the row of `runtime_config` with its workspace.
*Operations*: install (inspect twice, prepare, deploy, wait, verify, save, activate), choose a
workspace, update through the manager.
*Hard*: a script is cut at any command and the channel at any moment; what it moved is put back by
another command that may fail too; a lock that another request can give back.
*Correct when*: outside the requests that were cut off, the runtime is the one the row describes;
the current release is whole; a job that is reported as succeeded left a runtime that answers.

**SSH transport** (`runtime/ssh/index.ts`, `system-ssh.ts`, `ssh2-password.ts`).
*State*: the active channel of the process with the identity of its account; of a channel by the
system's `ssh`, the tunnel it has, the promise of the one being opened, the child process; in other
processes, the detached masters and the exits on their way to them; of a channel by password, its
connection, the attempt under way and the local server.
*Operations*: get or replace the shared channel, open a channel for one operation and close it,
`forward` (check, join, or reserve a port, start, wait, probe), `close`, `exec`.
*Interactions*: each call to Hermes resolves the configuration and asks for a tunnel; a saved
configuration changes what the next call asks for, a deleted one closes the channel.
*Hard*: a close is a process that nobody waits for; calls join what another call has started; a
connection is lost, refused, or its end is reported late.
*Correct when*: no call cuts a tunnel another one uses; a URL leads to the account it was asked for;
an operation leaves no connection behind; every call is answered.

**Guided tasks** (`guided-task/`).
*State*: a task, its revisions, the decisions on them, its attempts with their evidence, the
sandbox of the execution in the background.
*Operations*: revise, decide, launch, execute, validate, accept, cancel, clean up.
*Hard*: a launch reads the approvals outside the transaction it uses them in; execution and
cleanup write rows without a lock while a human revises or accepts.
*Correct when*: one execution at a time, on approvals that were given; a task is completed only
with its proof; what the task says follows from its attempts.

**Artifacts** (`artifacts/repository.ts`, `artifacts/delete-artifact.ts`), **conversation
deletion** (`runs/delete-thread.ts`) and **retention** (`retention/`).
*State*: rows of `artifacts`; bytes in a private store and in the shared work directories;
policies, legal holds, previews and purges.
*Operations*: upload, deliver outputs, delete everywhere, set a policy, preview, purge, delete a
conversation.
*Hard*: the file system does not roll back: files are moved aside inside a transaction, moved
back when it fails, removed after the commit. When the COMMIT of a purge is what fails, its locks
are gone before its directories are back.
*Correct when*: a live row has its bytes; what was deleted is out of reach; a purge deletes what
its preview listed, under the policy it was accepted under.

**Site membership, mandates, ownership and audit** (`auth/`, `audit/service.ts`, the triggers of
`apps/server/drizzle/*.sql`).
*State*: memberships and roles, mandates, owners of conversations, the hash chain of a site.
*Operations*: first login, change of role, assignment and withdrawal of a mandate, transfer and
creation of a conversation; each appends its audit entry in its transaction.
*Hard*: READ COMMITTED transactions that lock rows, keys and advisory locks in different orders;
triggers that read what another transaction is changing; runs to cancel after the commit.
*Correct when*: a site keeps one active administrator; nobody owns what their role may not own;
an entry of the ledger was warranted by the state it was committed in; no run outlives the
mandate it was created under without somebody stopping it, save those that section 7 (30) names.

**Web client** (`apps/web/src/components/run/use-live-thread.ts`,
`packages/console-core/src/lib/thread-snapshot-mutations.ts`).
*State*: the screen of a conversation, the stream of a message, fetches in flight, two caches.
*Operations*: first fetch, polls, message, stream, retry, answer, cancellation, revocation.
*Hard*: several snapshots in flight and a stream, each older than the screen it lands on.
*Correct when*: nothing is shown twice; an older answer does not have the last word; a screen
that lost its access stays closed.

### Not modelled

The `/v1/responses` protocol of Hermes (one request whose answer is the stream: its closures
are those of the agent protocol, and it has neither authorisations nor resumption); sessions, setup, settings and connectors (single queries on their own tables);
export, restoration and release feeds (encoding and I/O); the screens other than the
conversation, the design prototype, the styles and the translations. `PROJECT.json` lists each
with its reason.

### How the modelled parts interact

```
 LiveThread (web client): snapshots, stream, message, retry, answer
        |                                      |                    ^
 POST /threads, /messages, /retry       POST /cancel, /approval     | SSE
        | reserves                             |                    |
        v                                      v                    |
 RuntimeExclusion <--- registry --- RunExecution <- ApprovalRelay   |
   (lease, count)                  (readers, cancel, (claims,       |
        ^                           reconciliation)   decision)     |
        | lease                            |             |          |
 RuntimeOperations                     RunStore <--------+          |
  StorageMigration, RuntimeUpdate,   (runs, approval_requests)      |
  CredentialRotation                       |                        |
   over RuntimeHost (external)             |                        |
 SshProvisioning (its own host)  Hermes (external) ------> EventStream
        | probes                       ^
        v                              | every call, when the runtime is remote
 SshTunnel, PasswordTunnel (channels) -+

 GuidedTask          DataLifecycle over ArtifactStore          SiteAccess
 (tasks, attempts)   (purge, deletions; rows and bytes)  (roles, mandates, ledger)
```

`RuntimeExclusion` is the one thing the first two families share, and each is shown to refine
it. `SshTunnel` and `PasswordTunnel` are the two kinds of channel behind one interface; what runs and
operations see of them is that a call to Hermes, or a remote command, fails. The parts of the last line share tables with the runs but no decision: what they need of a
run (it is active, it is over, it belongs to a mandate) is a variable of their own, changed by
the actions the runs may take.

## 2. How the code is modelled

**Granularity.** The server is one JavaScript process. Whatever a function does between two
`await`s is one atomic action, with everything it assigns. Each SQL statement, and each
transaction that locks its row `FOR UPDATE`, is one atomic action; a function that reads in
one statement and writes in the next is two. `completeRun` is therefore `CloseRead` followed
by `CloseWrite`, and anything may come between them.

**Activities.** `proc` (in `RunExecution`) and `approver` (in `ApprovalRelay`) give each
asynchronous call a program counter: the await at which it is suspended. The identifiers of
the activities are bounds: as many calls exist as the constant has members. A reader slot is
reused once its reader has left.

**Hermes** is outside the repository. Its actions (`HermesAsks`, `HermesEnds`, `HermesStops`,
`HermesDropsEvents`) are the least the client code expects of it, and they are marked external
in `PROJECT.json`: it accepts a run, raises demands one at a time, waits for a decision,
completes, fails, or is stopped; events sent while nobody reads the stream are not repeated;
a call to it may fail with or without having had its effect.

**The machine of the runtime** (`RuntimeHost`, external too) is what the scripts the Console
sends over SSH see and change: the container and its image, the mount of its data and how much
of the copy is there, the key it was started with, the deployment its labels name (`project`), the compose file and the `runtime.env` that a
migration has prepared (`compose`, `env`), the image the operator's own file names, and what each update
has left beside them (`left`). A script runs under `set -eu`: it ends in any
of the states between two of its commands with a failure, or in the last state with success, and
the channel may be lost even then.

**Processes of `ssh`** (`SshTunnel`): the child that detaches as a master, and the `ssh -O exit` that
each close starts, take their steps at any later time, in any order. A master is named by its socket,
so that an exit ends whichever master listens there when it arrives.

**PostgreSQL** runs each statement atomically under READ COMMITTED. Where a transaction holds
locks while others act, the locks are state: in `SiteAccess`, one step takes one lock, rows and
advisory keys have holders and waiters, and a cycle of waits ends with one transaction rolled
back. In `DataLifecycle` the transaction of a purge is open while its files move.

**The browser** (`LiveThread`) is one event loop as well: what `useLiveThread` does between two
`await`s is one step, the server's answer to a fetch is read at one step and lands at another.

**Crashes** lose the memory of the process and keep the database and Hermes. The requests in
flight are lost with their client; the next boot starts the reconciliation. Transactions that
are open at a crash are rolled back; files stay where they were moved.

**Faults** (`MaxFaults`) bound the failures of the database, the file system, a request or a
command that happen in one behaviour, each at any step that the code lets fail.

**Data** is reduced to what the properties distinguish. A demand is a number (its order in
the run), an event is its number, its kind and how many deltas of text it carries, a claim is
the call that drew it (`randomUUID` never repeats). Prompts, outputs, usage, dates and error
texts are left out. Time is left out: that a request has expired when a statement looks at it
(`late`) is a choice made at that statement.

## 3. Modules

| Module | Models | Lines of state and actions to the code |
|---|---|---|
| `RunStore` | the statements on `runs` and `approval_requests` | one operator per statement, named as in `repository.ts`; `Update(r, cond, row)` is `UPDATE ... WHERE id = r AND cond`, which changes nothing when no row matches |
| `RunExecution` | creation, readers, cancellation, reconciliation, long operations, crashes | extends `RunStore`; one action per await, `pc` names the await; `activeRuns`, `mutationLease`, `runReservations` are the variables of the code |
| `RuntimeExclusion` | the abstract guard | what `active-runtime-guard.ts` promises to both sides, with the ghost set `holders` of the requests behind the count |
| `ApprovalRelay` | `respondRunApproval` | extends `RunExecution`: the relay runs in the same process as the readers, and its last step replaces one |
| `EventStream` | from the stream of Hermes to the SSE connections | a model of its own: it shares no variable with the runs that its properties need, beyond `loop`, where the reader is |
| `RuntimeHost` | the configuration row and the remote machine | extends `RuntimeExclusion`, whose actions the operations take for the lease; one operator per script |
| `StorageMigration` | the migration of `/opt/data` | `journal` is the newest row, `task` is `executeStorageMigration` or the reconciliation of a start |
| `RuntimeUpdate` | `startRuntimeUpdate` and its operation in the background, `getActiveRuntimeUpdateOperation` | a row, a worker and a registration for each operation; a poller keeps what it read between its awaits |
| `CredentialRotation` | plan and application of a new key | `rotation` joins the plan, the row and the local state of the request; `lost` is a ghost |
| `RuntimeOperations` | the four kinds of operations and the runs they exclude, in one process that crashes | extends the three above |
| `SshProvisioning` | installation, choice of a workspace, update by the manager | extends `RuntimeExclusion`; a script is the set of the states it may end in, each with whether it reports a success; `task` is a job, a choice of workspace or an update |
| `SshTunnel` | the shared channel by `ssh`, the channels of single operations, the row they read | `ssh` is the transport: active channel, channels, runs of `openForward`, exits on their way; `call[u].pc` is where a call of `forward` is suspended |
| `PasswordTunnel` | one channel of `ssh2-password.ts` | `client`, `connecting`, `server`, `forwarded` are the variables of the code, `conns` and `servers` the objects they name |
| `GuidedTask` | `guided-task/` | `task`, `revisions`, `decisions`, `attempts` are tables; `launch` what a request has read before its transaction |
| `ArtifactStore` | bytes and rows of artifacts | `files` is the set of copies with their place (private store, work directory, quarantine) |
| `DataLifecycle` | purge, policy, deletion of a conversation | extends `ArtifactStore`; `leaving` the conversations being deleted with the runs that were seen |
| `SiteAccess` | roles, mandates, ownership, ledger | `request` is an open transaction: stage, locks, what it read on arrival |
| `LiveThread` | `useLiveThread` and the functions of `thread-snapshot-mutations.ts` | `screen` is the snapshot on display, `fetch` the requests in flight by kind, `thread` and `log` the server |
| `MCRunExecution`, `MCApprovalRelay`, `MCRuntimeOperations`, `MCSshProvisioning`, `MCSshTransport`, `MCGuidedTask`, `MCDataLifecycle`, `MCSiteAccess` | values of constants and symmetry | `MCSshTransport` puts the two kinds of channel beside each other (a process has one of them), `MCRuntimeOperations` names the bound `Apart` |
| `RunExecutionProofs`, `EventStreamProofs`, `RuntimeOperationsProofs`, `SshProvisioningProofs`, `SshTransportProofs`, `GuidedTaskProofs`, `SiteAccessProofs`, `DataLifecycleProofs` | theorems | section 6; the guard is proved in `RuntimeOperationsProofs`, the relay in `RunExecutionProofs`, whose facts it needs at every step, the screen in `EventStreamProofs`, with which it shares the lists in the order of the cursors |

Correspondences that are not obvious:

* A run id of `Runs` is also the activity that creates it (`At(r, "reserved")` is the POST
  route between the reservation and the insertion of its row).
* `proc[p].aborted` is the reason the `AbortController` of a reader was given: "user" by
  `cancelActiveRun`, "reconnect" by `resumeAgentRun(force)`. The first one wins, as with
  `AbortController.abort`.
* `proc[p].next` is where `completeRun` and `failRun` return to: back to the loop of the reader
  ("read", after a terminal event), to its `finally` ("leaving"), to the reconciliation
  ("next") or to the end of a cancellation ("finished").
* `Attended(r)` is not a variable of the code: it says that some activity is still bound to
  the run, or that the reconciliation of this boot is not over.
* `RuntimeExclusion!holders` is the set of requests at "reserved", "prepared" or "discarding",
  `followed` the domain of the registry: the refinement mapping of `ImplementsExclusion`.
* In `EventStream`, `identity` is the sequence of PostgreSQL behind `run_events.id`: it is drawn
  at the `INSERT` and is visible only after the `COMMIT`. `rowLock` is the lock that the
  `UPDATE runs` of `appendRunEvents` keeps until the commit, and that `completeRun` waits for.
* What makes the buffered text come out is the kind of the event: `ReceiveCall` is every event
  whose branch of `push` calls `flush()`, `ReceiveResult` is `tool.completed`, whose branch does
  not. The stream ends by its end (`StreamCloses`, then `PersistError`) or by a reader that throws
  (`StreamFails`, `FailsAfterEnd`: `handleAgentRunError`), which gives the error its number before
  it flushes and writes both in one batch, the text first (`ErrorBatch`). The branch of a 404 is
  reached when the stream is opened, with nothing in the buffer, and belongs to the runs.
* `ahead` (in `viewer`) counts what stands in the queue of a connection before the backlog
  event whose `enqueue` is awaited.
* `RuntimeOperations`: what holds the lease is the *name* of an operation: `Migration`, an
  update, a rotation, or `Configuring` for the requests that save or delete the configuration
  (atomic under the lease). A reservation depends on the lease only, because the two journals a
  request checks first (`assertNoBlocking*`) may have changed when it reserves.
* `StorageMigration!unsaved` is a ghost: the rows whose closing write failed and was swallowed.
* `RuntimeUpdate!Supports` is `INSPECT_SCRIPT` with `inspectInstallation`: the deployment is the one the
  labels of the container name or, when it has none (`Adopts`: so is one that an operator has run by hand,
  and any that a change of key has made again, `RunsAgain`), `/opt/hermes-console-runtime/compose.yml`
  when it is there with the image of the container (`update.ts:64`). `Up` is `docker compose up` on a
  file: from that of a migration the container gets the bind mount, which Docker creates when it is
  missing, and the key of `runtime.env` (`storage-migration.ts:173-199`). `Recreates` is
  `dockerUpdateScript` command by command, `Restores` and `Discards` the two ends of its checkpoint.
* Two ghosts of `RuntimeOperations` name what the properties about the machine leave out. `astray`: an
  update has put Hermes on the bind mount of a migration that did not cut over to it (divergence 32).
  `crossed`: an update, a change of key or a change of the configuration took the runtime while the journal
  of a migration was `running` or `recovery_required`, which the lease allows and the rollback outside
  the lease pays for (divergence 1).
* In `SshProvisioning`, `unsettled` is a ghost: some job failed or crashed after it had begun to
  move the manager, or an activation lost the command that was to put `terminal.cwd` back, kept
  the row it was undoing, or undid a path that a screen has been shown (`ShowsWhatIsUndone`, section 7).
  The success of a job clears it. `Home` is the directory a fresh
  `terminal.cwd` has, `MainPath` the one a job activates, `Paths` those a user may choose.
* In `SshTunnel`, a run of `openForward`, the port it reserves and the process it starts are one
  record of `opens`; `forwarded`, `forwarding` and `child` of a channel are numbers of such records, 0
  for `null`. An exit carries why it was started ("left" for the end of a channel, "start" and "failed"
  for the two ends of an opening) and for which opening: the properties read them, no step does.
  `ChecksAreShort` is the one assumption on time: a connection to a port of this machine is answered
  before an opening, which first looks at its own port after 200 ms, is over.
* In `PasswordTunnel`, what promises do until they wait again is one step with the event that settles
  them: `Ready` moves every call that waits for the connection.
* In `GuidedTask`, the date of a decision is taken before the lock of its task: `asked` holds the
  dates of the decisions in flight. `executor` is where the process stands with an attempt: a
  crash ends it, and leaves the row as it was.
* In `DataLifecycle`, `clock` and the versions of the policy stand for the dates that a preview is
  compared by.
* In `SiteAccess`, the locks are "take" (`FOR UPDATE`), "change" (`FOR NO KEY UPDATE`, what an
  `UPDATE` takes that leaves the key alone) and "share" (`FOR KEY SHARE`, what a foreign key takes).
* A run of `SiteAccess` is named by the request that creates it, and its status is active or ended.
  `reader` is what the process does for it: a start is due, a reader reads and writes the status, or
  there is none. An operator's refusal for want of a mandate is an entry that names no mandate.
* In `LiveThread`, an event is its cursor, a run its status and the last cursor it counts, and
  `send` is `sendMessage`, from the click to the refresh that ends it.
* Operators commented as `Mutant` are not used by any specification: each is a plausible bug in
  one definition, kept to show that a property depends on it (`PROJECT.json`, "mutants").

## 4. Runs, bounds and what they show

Figures are distinct states and the depth of the complete graph. Every property of a passing run
has a mutant in `PROJECT.json` that breaks it under the same configuration. A property whose name
ends in `Invariant` is the conjunction of the type invariant of its module and of the smaller
properties it names; `StatusesAreWarranted`, `RecordsAreTrue`, `AttemptsAreWarranted`,
`FilesFollowRows`, `ChangesAreWarranted` and `EveryCallEnds` join two properties each, named and
commented one by one in the modules.

### Passing

| Run | Bounds | States | Shows |
|---|---|---|---|
| `two_runs` | 2 runs of one conversation, one under a withdrawn mandate, 2 readers, 1 demand each, 1 long operation, 1 crash, faults of the context, of the creating request and of the runtime at boot | 835 957, depth 49 | the registry (`ReaderIsRegistered`), closures (`CompletedIsGenuine`, `ClosedRunIsKept`), and that every step is one the guard allows (`ImplementsExclusion`) |
| `settle` | 1 run, 1 demand, 2 readers, 1 cancellation, 1 long operation, 2 crashes, fair | 97 913, depth 37 | `NoStrandedRun`, `StatusesAreWarranted` (a run that waits has its request, a cancelled one was asked for) and, under fairness, `EveryRunSettles` |
| `answer` | 1 run, 2 demands, 2 approvers, 2 readers, 1 long operation, 1 crash | 1 768 570, depth 71 | `DecisionReachesItsDemand`, `OneDecisionPerRequest`, `ResolvedAsDecided` |
| `stream` | 2 deltas, 1 other event (a call, a result, or what a reader that throws adds after the end) and the end, 1 batch of the timer, 1 viewer that comes and goes, fair | 1 640 979, depth 38 | text, numbers and the message (`StreamInvariant`), order and completeness of what a viewer gets (`ViewersAreServed`) and, under fairness, `TextIsStored` |
| `operations` | 1 run, 1 update, 1 poller, 1 change of key, 2 migrations, 2 crashes, requests that change the configuration, three of them in one behaviour (`Load`); a container with or without labels; fair | 1 957 482, depth 35 | `NoPartialData`, `TokenIsKnown`, `RecordsAreTrue` (a success keeps both copies, a rollback that is recorded put the previous storage back), `ChangedUnderLease`, `UndoHasAWayBack`, the refinement `OpsImplementExclusion` and, under fairness, `MigrationIsSettled` |
| `provision` | 2 jobs, both modes, 2 directories, 2 paths, 2 versions of which one does not start, 2 choices of a workspace, 1 update, 1 crash of the Console or stop of the runtime | 5.6 million, depth 36 | `ProvisioningInvariant` (the current release is whole, the runtime is the configured one) and `SucceededIsConnected` |
| `transport` | by `ssh`: 2 callers, 3 calls, 1 operation with its own channel, 2 accounts, 2 endpoints, 1 save or deletion, 1 fault; by password: 3 calls, 2 endpoints, 2 losses; fair | 430 146, depth 31 | `TunnelInvariant` (one opening at a time, the right account), `TunnelIsKept`, `ProbesAreClosed`, `PasswordInvariant` (every open connection is known), `OnlyTheOwnerEnds` and, under fairness, `EveryCallEnds` |
| `guided` | 2 launches, 3 revisions, 2 decisions, 2 attempts, 1 fault | 1.9 million | `GuidedInvariant` (one execution at a time), `AttemptsAreWarranted` (launched with approvals, completed with its proof), `StatusFollowsAttempts` |
| `files` | 1 conversation, 1 run, 1 upload, 2 deliveries, 2 purges of 1 preview, 2 versions of the policy, 1 fault | 6 694 245, depth 31 | `LifecycleInvariant` (a live row has its bytes), `FilesFollowRows` (what is put back is back in its place, what was deleted is out of reach), `PolicyIsFollowed` |
| `governance` | 3 users, 1 mandate, 1 conversation, 3 requests at once, the runs they create and their readers, 1 fault | 5 643 998, depth 49 | `AccessInvariant`, `RevokedRunsAreFollowed`, `ChangesAreWarranted` (ledger and ownership) |
| `screen` | 2 runs of a conversation, 1 event of them beside those that end them, 1 act of the user, 1 fault, fair | 1 286 583, depth 36 | `ShownOnce`, `RefusalStays` and, under fairness, `ScreenCatchesUp` |

Why the bounds are enough for the cases that matter:

* *Two readers.* A run has at most one registered reader; the interesting state is a second
  one that has not left yet (after a replacement by the relay). A third adds a reader that
  nobody can tell from the second.
* *One cancellation, one crash* reach every await of a reader and of the reconciliation: the
  graphs are complete. A second crash (in `settle` and `operations`) reaches a reconciliation that
  is interrupted by a crash and started again.
* *Two runs of one conversation* is what admission is about; two conversations do not share
  anything but the guard, which `two_runs` and the theorems cover.
* *Two demands* is the smallest number at which a decision may reach the wrong one; *two
  approvers* the smallest at which they may both claim.
* *One batch of the timer* next to the loop is the smallest overlap: the two transactions are
  open together, and either commits first. Two deltas allow the timer to take one and the loop
  the other.
* *Two migrations*: the second meets what the first left on the host, the renamed container and
  the copy included. *One update beside one change of key* is the smallest pair of operations
  that recreate the same container; two of a kind are kept apart by the lease, which the theorems
  cover for any number. The constraint `Apart` is a budget: of plans of a migration, updates, changes of
  key, crashes and a configuration without SSH a behaviour has three, and a poll or a run under way costs
  two of them. So an update meets what a migration has left, whether it succeeded, was
  refused or was rolled back (a plan, an update, and a crash or a second plan); migrate, change the key and
  update is in it, which brings the old key back; so is a change of key that takes the labels from a
  container before an update adopts a deployment for it. What it leaves out is a fourth, and a behaviour
  in which something has crossed a migration that is not over: `TokenIsKnown` fails there, because the
  rollback works outside the lease, and `rollback_key` shows what follows. The theorems have no budget.
* *Two jobs* are at work at once only because another request gave the lock back, which one
  step of `RejectsInvalid` does; one after the other, the second meets what the first left. *Two
  directories and both modes* let the second job move away from the first; *two versions* let a
  switch fail and be undone, or be cut off. *Two choices of a workspace* is the number at which one is
  made from what the other has set and then undoes; the update is the third kind of request that changes
  the machine. The constraint `Situations` puts two choices beside one job by container only, and two
  jobs, or a native one, beside one choice; the theorems are about all of them together.
* *Two callers of a tunnel* are the smallest number at which one joins, or cuts, what the other has
  opened; *three calls* let a caller come back to a tunnel that was lost, given up or moved. *One
  operation* with its own channel is enough to share an account with the others. *Two losses* of the
  password channel lose a connection and refuse the next. The constraint `Situations` keeps apart what
  meets nowhere in the code or adds nothing: one kind of channel in a behaviour; the operation on the
  account of the row, beside one call; the third call where the row does not change. It cuts
  requests only, never a step that fairness asks for.
* *Two launches and two attempts* is the smallest number at which approvals may be read by one
  and used after the other; *three revisions* leave one to be written during each attempt.
* *Two purges* may name the same preview; *two deliveries* scan the same run.
* *Three requests* are the smallest number at which a third reads what a second changes under
  the locks of the first.
* *One event besides the ends* is enough for a demand or for text; the three refreshes, the poll
  and the first fetch are separate requests and may all be in flight.
* `runReservations` and the counters of `EventStream` are not capped by a guard: they are
  bounded by the number of requests and of events.
* Symmetry: readers are interchangeable in `two_runs`, readers and approvers (who are also the
  claims) in `answer`, the deliveries and the purges in `files`, the requests in `governance`,
  the jobs, the choices and the directories in `provision`.
  None of the properties of these runs names one of them, and no run that checks liveness uses
  symmetry.

`NoStrandedRun` and `EveryRunSettles` exempt the runs that a cancellation was asked for: the fifth
divergence of section 7 strands those. Faults of the database are left out of `settle` because
its fairness assumes a database that answers. `files` has one upload, so that two uploads of one
name (section 7) do not meet there.

### Violation

A property that a document of the repository states and that the code does not keep; section 7
explains it (first divergence).

| Run | Property | Bounds |
|---|---|---|
| `rollback_key` | `RestoredIsKnown`: where a migration was rolled back, the Console knows the key of its runtime or says that it needs recovery | 1 migration, 1 change of key, no crash, no run |

## 5. Fairness and deadlock

`Fairness` (in `RunExecution`) asks weak fairness of: the requests that have begun, each
reader, each closure, each cancellation that has begun, the reconciliation, and the end of
each long operation. It stands for four facts: the event loop of Node resumes what can resume;
the database answers; a call to Hermes returns or fails (`hermes-adapter.ts` aborts each of
them after 5 to 30 seconds); the stream of a run sends something, ends or breaks (it carries no
timeout of its own: this is an assumption on the connection, and the only one on Hermes). It obliges nobody to start a request, Hermes
neither to raise a demand nor to finish a run (a reader may always lose its stream, and the
Console then closes the run), and the process neither to crash nor to stay up: crashes are
bounded by `MaxCrashes`, without which a process that dies at every boot settles nothing.

`StreamFairness` (in `EventStream`) asks weak fairness of the timer while it is set
(`setInterval` fires again and again) and of each transaction. The stream of Hermes has none:
text that was received is stored whatever Hermes does next. The interval is cleared at the end
of the stream, after which the last flush has taken what was left.

`OpsFairness` (in `RuntimeOperations`) asks weak fairness of the task of the migration alone: the
promise in the background and the reconciliation of a start go on, and each of their remote
commands ends or fails (ssh notices a dead connection, `ServerAliveInterval` in `system-ssh.ts`;
that a script on a live host ends is an assumption). Nobody is obliged to plan or start one,
nor to release the lease in favour of it: a migration that does not get the lease fails, which is
an end.

`LiveFairness` (in `LiveThread`) asks weak fairness of: the status the server writes after an
event that announced it, each snapshot that was asked for, the timer of the polls (each poll
schedules the next), `sendMessage` and the request of the user once they have begun, and an open
stream while it has something to deliver or a reason to close. The runs themselves have none:
`ScreenCatchesUp` speaks of the states in which they are over. A stream that has nothing to
deliver and no reason to close stays open: `AttachedForNothing` names that state
(section 7, fourth divergence), and `ScreenCatchesUp` excepts it.

`EveryCallEnds` rests on two formulas. `Fairness` (in `SshTunnel`) asks weak fairness of what the server does by itself: a call goes on once
its promise is settled, and each run of `openForward` goes from one await to the next, because the
port is reserved or refused, `READY_TIMEOUT_MS` ends the wait and `PROBE_TIMEOUT_MS` the probe. The
processes of `ssh` have none. `PasswordFairness` is what `ssh2` promises: a connection is ready or
fails within `readyTimeout`, one that is lost is reported closed (`keepaliveInterval`), callbacks come,
and a remote command ends on a connection that works (an assumption on the host, as above).

`SshProvisioning`, `GuidedTask`, `DataLifecycle` and `SiteAccess` state safety only. Nothing takes up again what a
crash has interrupted there (section 7), so that the code justifies no "eventually" about it.

`CHECK_DEADLOCK FALSE` stands in every configuration, because the
modelled system may really stop: there are finitely many requests, cancellations, approvers,
events and acts, and once all of them are over and the process waits for a human or has nothing to
do, no step is left. What must not stop half-way is stated by `NoStrandedRun`, `EveryRunSettles`,
`TextIsStored`, `MigrationIsSettled`, `ScreenCatchesUp` and `EveryCallEnds`; the deadlocks of PostgreSQL are modelled as
what it does with them (`InCycle`, `AbortVictim`).

## 6. Proofs

TLAPS checks these for every value of the constants that satisfies the named assumptions of
the modules.

| Theorem | States |
|---|---|
| `RuntimeOperationsProofs!ExclusionIsKept` | `ExclusionSpec => [](ExclusionTypeOK /\ MutualExclusion /\ ReservationsAreCounted)` |
| `RunExecutionProofs!RunsAreInductive` | `Spec => []IInv` |
| `RunExecutionProofs!RunsAreTyped` | `Spec => []TypeOK` |
| `RunExecutionProofs!RegistryIsSound` | `Spec => [](ReaderIsRegistered /\ RegistrationIsAlive)` |
| `RunExecutionProofs!RunsImplementTheGuard` | `Spec => ImplementsExclusion` |
| `RunExecutionProofs!LongOperationsExcludeRuns` | while a long operation holds the lease, no request is under way and no reader is registered |
| `RunExecutionProofs!CompletionsAreGenuine` | `Spec => []CompletedIsGenuine` |
| `RunExecutionProofs!StatusesStayWarranted` | `Spec => []StatusesAreWarranted` |
| `RunExecutionProofs!ClosedRunsAreKept` | `Spec => ClosedRunIsKept` |
| `RunExecutionProofs!NoRunIsStranded` | `Spec => []NoStrandedRun`, when `Faults = {}` |
| `EventStreamProofs!TextAndNumbersAreKept` | `StreamSpec => []StreamInvariant` |
| `EventStreamProofs!ViewersStayServed` | `StreamSpec => []ViewersAreServed` |
| `EventStreamProofs!ScreenShowsOnce` | `LiveSpec => []ShownOnce` |
| `EventStreamProofs!RefusalIsKept` | `LiveSpec => RefusalStays` |
| `RunExecutionProofs!RelayIsInductive` | `RelaySpec => []RelayInv` |
| `RunExecutionProofs!RelayIsTyped` | `RelaySpec => []RelayTypeOK` |
| `RunExecutionProofs!ClaimsAreExclusive` | `RelaySpec => []ClaimIsExclusive` |
| `RunExecutionProofs!DecisionsReachTheirDemands` | `RelaySpec => []DecisionReachesItsDemand` |
| `RunExecutionProofs!RequestsAreDecidedOnce` | `RelaySpec => []OneDecisionPerRequest` |
| `RunExecutionProofs!ResolutionsAreDecisions` | `RelaySpec => []ResolvedAsDecided` |
| `RunExecutionProofs!RegistryIsSoundUnderRelay` | `RelaySpec => []ReaderIsRegistered` |
| `RunExecutionProofs!RelayImplementsTheGuard` | `RelaySpec => ImplementsExclusion` |
| `RuntimeOperationsProofs!OperationsAreTyped` | `OpsSpec => []OpsTypeOK` |
| `RuntimeOperationsProofs!OperationsHoldTheLease` | `OpsSpec => []LeaseIsHeld`: an operation at a step that works on the runtime is the one that holds the lease |
| `RuntimeOperationsProofs!OperationsImplementTheGuard` | `OpsSpec => OpsImplementExclusion` |
| `RuntimeOperationsProofs!OperationsExcludeRuns` | no operation overlaps a request that reserved the runtime |
| `RuntimeOperationsProofs!ChangesAreUnderLease` | `OpsSpec => ChangedUnderLease` |
| `RuntimeOperationsProofs!DataIsNeverPartial` | `OpsSpec => []NoPartialData` |
| `RuntimeOperationsProofs!UndoingHasAWayBack` | `OpsSpec => []UndoHasAWayBack` |
| `RuntimeOperationsProofs!KeyIsKnown` | `OpsSpec => []TokenIsKnown` |
| `RuntimeOperationsProofs!SuccessKeepsBothWays` | `OpsSpec => []SucceededKeepsBoth` |
| `RuntimeOperationsProofs!RecordsTellTheTruth` | `OpsSpec => RecordsAreTrue` |
| `SshProvisioningProofs!ProvisioningIsCoherent` | `Spec => []ProvisioningInvariant` |
| `SshProvisioningProofs!SuccessIsConnected` | `Spec => SucceededIsConnected` |
| `SshTransportProofs!TunnelsAreOneAtATime` | `Spec => []TunnelInvariant` |
| `SshTransportProofs!TunnelsAreKept` | `Spec => TunnelIsKept` |
| `SshTransportProofs!ProbesLeaveNothing` | `Spec => []ProbesAreClosed` |
| `SshTransportProofs!ConnectionsHaveAnOwner` | `PasswordSpec => []PasswordInvariant` |
| `SshTransportProofs!WorkingConnectionsAreKept` | `PasswordSpec => OnlyTheOwnerEnds` |
| `GuidedTaskProofs!TasksAreGuarded` | `GuidedSpec => []GuidedInvariant` |
| `GuidedTaskProofs!AttemptsStayWarranted` | `GuidedSpec => []AttemptsAreWarranted` |
| `GuidedTaskProofs!StatusesAreAccountedFor` | `GuidedSpec => []StatusFollowsAttempts` |
| `SiteAccessProofs!OwnershipAgreesWithRoles` | `AccessSpec => []AccessInvariant` |
| `SiteAccessProofs!RevokedRunsStayFollowed` | `AccessSpec => []RevokedRunsAreFollowed` |
| `SiteAccessProofs!ChangesStayWarranted` | `AccessSpec => ChangesAreWarranted` |
| `DataLifecycleProofs!PolicyStaysFollowed` | `LifecycleSpec => PolicyIsFollowed` |
| `DataLifecycleProofs!PurgesAreOnce` | `LifecycleSpec => [](LifecycleTypeOK /\ PreviewPurgesOnce)` |
| `DataLifecycleProofs!DataIsKept` | `LifecycleSpec => []LifecycleInvariant`, when the inputs of a run have names of their own |
| `DataLifecycleProofs!FilesStayWithRows` | `LifecycleSpec => []FilesFollowRows`, under the same condition |

**The guard.** The inductive invariant is the conjunction of the three properties: the guard
looks at a number, so that the exclusion of the requests themselves rests on the count being
exact (`NoReservationNoHolder`: the count is zero exactly when nobody holds a reservation).
Assumption: finitely many runs.

**The runs.** `ReaderIsRegistered` is not inductive. That the `finally` of one reader does not
erase the registration of another needs (1) `RegistrationIsAlive`, (2) the run of every reader
at work, and (3) which program counters each kind of activity may have, since a step of a
reader, of a cancellation and of the reconciliation go through the same closures. These are
`ReaderShape`, `RequestShape` and `CancellerShape`; with the two properties and the types of
the registry they make `ActivityInv`. `DataInv` types the rest. `IInv == ActivityInv /\
DataInv` is preserved by each action: the proofs have one lemma per family of actions
(creation, readers, closures, cancellations, reconciliation, long operations, Hermes, crash),
after the lemmas on records and on `Returned`, `Reader` and `Reconciled` that they cite.
`StutterKeepsActivities` factors what most steps have in common: an activity moves within its
kind and leaves its run and the registry alone. Assumptions: `RunStoreAssumption` and
`RunExecutionAssumption`, that is, the kinds of activities are disjoint and the sentinels are
not ids; neither finiteness nor any bound is used.

**The refinement.** Each action is shown to be a step of `RuntimeExclusion` or a stutter under
the mapping `holders <- Holders, followed <- Followed`, from `IInv`: a creation acquires,
releases or hands over, a resumption follows, a reader that leaves unfollows, a crash restarts,
everything else stutters. `LongOperationsExcludeRuns` then carries the exclusion over to the
runs: an allowed step keeps `GuardInv` (the count is exact, and a lease excludes the rest).
Assumption added: finitely many runs.

**What becomes of the runs.** A status is written one await after it was decided, so that none of the
four results is inductive. `CompletedInv` and `WarrantInv` give each activity the warrant of what it is
about to write: an outcome "completed" at a closure is that of Hermes, a reader about to write
`awaiting_approval` has a pending request in the table, a reader that was aborted and a closure as
"cancelled" have a cancellation behind them. They need `SubmissionInv` (below), without which
a second submission could take back what Hermes had said. `NoStrandedRun` says that some activity owes
each open run its end (`Covered`), and an activity may only go once the run is `Settled`. That takes
three facts about the activities: a reader works for a request that is over, alone, so that a request
cannot abandon the run of a reader (`RequestInv`); the reconciliation resumes submitted runs only, and ends
when its list is empty (`BootInv`); a reader leaves, or reads on after a terminal event, only when
its run is settled (`EndsInv`). A crash empties the list and starts the reconciliation again, which covers
every run until it has drawn its list. The theorem assumes `Faults = {}`, because each kind of fault
does strand a run (`context`: the reader leaves when its first query fails; `abandon`: the
request fails between its commit and the start; `runtime`: the reconciliation skips a run): it
says that nothing else does. The three other results hold whatever the faults.

**The relay.** Nothing in the call to Hermes says which demand is answered; that it is the
right one follows from a chain of four invariants, none of which is enough alone:

1. `ClaimInv`: an approver between its claim of the run and the end of it is the one that
   `runs.approval_claim_id` names, so that two of them never work on one run;
2. `OwnerInv`: a request in the hands of an approver is claimed (or has expired since), and
   is in the hands of that one only. The run is already given back when a request is
   (`back_run` comes before `back_request`), which is why the request needs an owner of its own;
3. `DecidedInv`: a request whose decision was relayed is claimed, resolved or expired, and
   nobody is about to put it back to pending. This is what `canReleaseApprovalClaim` is for:
   after a lost answer the claims must stay;
4. `DemandInv`: every demand before the one Hermes waits on was decided, on its own request.
   An approver about to relay owns a request that was not decided, hence that of the last
   demand, and Hermes waits on no other.

`SubmissionInv` says that a run is submitted once (one fresh reader, while Hermes does not know
the run), without which `DemandInv` is not inductive: a second submission would count as an
answer. With `IInv` and the types of the approvers they make `RelayInv`. Each conjunct has its
lemmas for the steps of the runs (which keep every claim, and touch no request but the one they
write) and for the steps of the relay. For the registry, `Resume` is the one step the runs do not
have: the reader it replaces is not fresh and is aborted, so that `ReaderIsRegistered` asks
nothing of it any more. Assumption added: `ApprovalRelayAssumption` (a claim is the call that
drew it); no bound on demands, approvers or crashes is used.

**The event stream.** Two invariants. `NumbersIInv` says how far each batch has got (`BatchInv`: a prefix
of its events has identities; its numbers are below the next one and those of no other batch, nor, before the
commit, of any row), that an identity which was drawn is that of exactly one event (`CursorInv`), and that what was
received is what is held back plus the text of all events (`TextInv`). Two things need an argument beyond one step. The
identities stay in their range because each belongs to one event and the events are no more than the
numbers given: a pigeonhole, as long as one event has no row (`IdentitiesAreCounted`). And `TextOf` is
a fold, that is, a recursion that takes the elements of a set in an order nobody knows: that any element may be taken first
(`TextOfOne`), and hence that the text of two disjoint sets is the sum of theirs (`TextOfBoth`), is an
induction on finite sets. The induction theorems of the library cannot be used (below), so it is done by hand: among the subsets that
refute the claim there is one without a smaller one, because the strict subsets of a finite set are
well founded (`BySubsets`). A batch then carries exactly the text that was held back but what it
leaves (`Leaves`, `Fresh` when it leaves nothing), under the next numbers in any order, an insertion replaces an event by itself with a cursor (`TextOfReplaced`), and the rest of the transaction moves it
from one side of the sum to the other.

`ViewersInv` says of every stream that its cursor is not behind what it has sent, which was sent in order, and,
while it is open, that it `Reaches` every row: it has passed its cursor, holds it in its queue or its list,
has yet to list it, or will be told of it by the writer that has committed it and not published yet. Each way in
which a row comes nearer keeps it: a commit adds to what is to be published, a publication to the queue, a list
or a poll has every row after the cursor (`RowsAfterAre`, by `BySubsets` again). What a stream drops is behind its cursor.
That a row is behind the cursor does not mean that it was sent (a batch that commits late, section 7): neither
property says so. Assumption: `EventStreamAssumption`, the names of the writers are distinct; any number of deltas, calls, batches of the timer and viewers.

**The screen of a conversation.** `ShownOnce` is not inductive: that a message gets its run when the
stream says which one it is (`onMeta`) shows the run twice if a snapshot has brought that run while the
optimistic one is still there, and a second message sent meanwhile would show two optimistic runs. `LiveInv` says why
neither happens. The optimistic run is the last one on the screen and never closed, so that the composer takes no
other message (`SoundScreen`); every snapshot replaces the list of runs by one of the server, in which it does not
appear (`SoundCopy`, of what is fetched, of the stored header and of the screen kept to be put back); and while
it is there, the run that will take its place is not (`HasPlace`): the run is made after the screen was, with an
identity greater than any on it. The events on the screen are in order and up to its cursor, because an event is
applied only past the cursor and a merge sorts the union (`ByCursorIs`: a finite set of cursors can
be listed in order, by `OrderedExists` as above; `LeastIs`: the stream has a next event). `RefusalStays` needs that
after a refusal the first snapshot is not asked, or will not be shown (`FirstIsOver`); everything else follows from the steps. No assumption: any number of
runs, events, acts and failures. The lists are bounded by what the server has, so nothing here uses `MaxRuns` or `MaxEvents`.

**The operations on the runtime.** Each action takes or returns the lease as the guard allows or
leaves it alone, which is the refinement, and needs no invariant; the exclusion follows from the
theorem about the guard. `OpsTypeOK` is inductive beside the types of the guard, with one lemma
per operator that changes a row or the host. `LeaseIsHeld` ties the program counters of the
migration, of each update and of each rotation to the value of the lease; with the types it is
inductive, and gives `ChangedUnderLease`: a script is sent by an operation whose counter says that
it holds the lease, or by the rollback of a migration.

What is known of the machine is known as long as nothing has `crossed` a migration. `Turns` says that
a migration is then alone from its first write to its last: at each step of its task the newest row is
its own and is not over, and while a row is `running` or `recovery_required` no update and no change of
key has the runtime, which the rollback after the lease needs. On top of it `Known` has five parts, and none of them is inductive without the others.
`HostIsSound`: the container that is kept aside and the complete copy go together, and what runs on the
directory was cut over to, or is `astray`. `TaskKnows`: what the migration has learnt at each of its
steps (a cutover comes after a complete copy; a rollback that finds no container kept aside is on the
volume). `UpdateKnows`: what the checkpoint of an update would bring back is sound, and at the steps that
may lead to an undoing it is there, or Hermes answers. `RotationKnows`: the same of the backup of a
change of key, whose row is active as long as it has the lease. `KeyIsSettled`: when nobody has the key in
hand, it is the one that is stored, or its loss is on record. `RotationMoves` sums up the ten actions of a
change of key as four kinds of moves (quiet, write, commit, undo), so that each part is shown once per
kind. The four theorems `DataIsNeverPartial`, `SuccessKeepsBothWays`, `KeyIsKnown` and
`UndoingHasAWayBack` follow from `Known`, and `RecordsTellTheTruth` from `Known` at the one step that
records a rollback (`OnlyTheTaskRecords`).

Assumptions of all these: `HostAssumption`, `MigrationAssumption`,
`OperationsAssumption` (the names of the operations are distinct) and that of
the guard; no bound is used.

**The provisioning.** The scripts come first, one lemma each: wherever one is cut off it leaves a machine that is
`Sound` (the current release is whole, because a switch is made after the installation and undone to
a release that was current; a container of ours is in a directory), the manager it found, and, when it reports a
success, the container asked for. The script of the manager that updates a container keeps `Managed`
besides, whichever command fails: the container is the one of its directory with the token of its file, or
there is none. Then the requests. `RuntimeIsTheConfiguredOne` speaks of the moments when nobody
holds the lease, and is far from inductive: `JobKnows` and `ActivatorKnows` say what each request has left
on the machine and in the row at each of its steps, which stays true because a request that
may change either has the lease (`LeaseIsHeld`; `OthersKnow`: what is changed under a lease is not
what the others know). `Settled` says what holds as long as nothing was left half way: outside a job the manager,
its directory, its container and its token are those of the row (`Connected`), and so is `terminal.cwd`, but
while an activation may still undo it. What it undoes it to is the path of the row; and a screen that will
not ask for `terminal.cwd` to be set was shown either that path or the one being tried (`Placed`). The second is the case in which
the code does diverge (section 7, divergence 20): the invariant was not inductive without it, and the run, which
had one choice of a workspace until then, has found it with two. A success is `Connected` by what the job
knows, whatever there was before, which is also `SucceededIsConnected`. Assumptions: `ProvisioningAssumption` and
that of the guard; any number of requests, directories, paths and versions, and `MaxFaults` of any value.

**The transport.** A channel's `forwarding` joins every later call to the opening under way, so that
`OneOpening` is a fact about two places: what the channel says and what the openings are doing.
`Linked` makes it inductive: what a channel names is an opening of its own, and an opening in progress
is the one its channel names; an opening therefore starts only where none is in progress, and settles
only its own channel. `RightAccount` rests on the same links and on `Served`, what each call keeps
across its awaits: its channel is of the account it has read, and its tunnel one of its channel. Each
operator on the transport is shown to keep `Sound` (types and links) and to be `Grown` (channels keep
their account, openings their channel, nothing is dropped), from which what the other calls keep
follows; there is then one lemma per action. For the channel by password, `ConnectionsAreOwned` needs
`OneOfTwo` (nothing is attempted beside a connection in use), and gives `OnlyTheOwnerEnds` with no
more.

`TunnelIsKept` and `ProbesAreClosed` are about what listens, and rest on the order of the openings of a channel.
`Kept` says it: an opening in progress is the last of its channel; one that was replaced while its tunnel
listened was refused by Hermes, or the channel was asked for another endpoint (`Dropped`); the last
tunnel of the shared channel that was opened is the one it would hand out again; an exit is of an
opening of its channel. `CallsKept` adds what a call knows of it: it checks the last tunnel of its channel
(`ChecksLast`), and the channel of an operation is never the shared one and has one opening
(`HasItsOwn`). Each operator of the transport keeps them, and every step but the end of an exit and the loss of a
connection is `Gentle`: it stops no tunnel that listens, and starts none that had been told to stop.
What is left of `TunnelIsKept` is the end of an exit, which the reason of the exit and `Kept` account
for. Assumption: `TransportAssumption`, an operation with its own channel never asks
for the shared one; no bound is used.

**Guided tasks.** Nothing in the table protects the row of an attempt from the process
that executes it: `UPDATE`s go by its number. `StageOf` says what the row of an attempt is while the process is
at each stage, and holds because the transactions of the requests, which write beside the process, ask
for another status than those of an execution. With the numbers by which rows designate one
another (`Numbered`), the finality of decisions (`DecidedStays`) and the approvals behind
launches in flight and attempts (`MeansInv`, `AcceptedInv`: decisions are only added) they make `GuidedIInv`.
`OneExecution` follows from `OneActiveAttempt`, an attempt that executes being active. `StatusFollowsAttempts`
is then inductive beside it. Assumption: `GuidedAssumption`; the bounds on rows are constants of any value.

**The site.** What a transaction decides rests on rows it has read, and locked, at earlier steps of its
plan. `Knows` says for each operation what is true at each step and which lock keeps it so: a creation
keeps its owner's row from changing, a change of role has locked the owner and seen that he owns
nothing, a transfer has locked the conversation and its next owner, a revocation has locked the mandate
and lists every active run below it save those whose reader has undone a closure since, a first login has the bootstrap lock and has found nobody. `Exclusive`
(no two transactions hold conflicting locks) shows that what one transaction writes leaves the others what they
know: for each pair of operations, either the written row is one whose lock the other holds, or it is
not one the other has read. Between the entry in the ledger and the commit stands the lock of the site
(`Appended`), so that the role and the mandate the trigger has checked are those of the
commit, which is `ChangesAreWarranted`. Of the runs, `RunMoved` says what every step of a reader, a
closure or the boot may do: a run that is active and has not slipped was active before, and had not. `Lasting` (a member stays a member, a conversation that was opened stays)
and `Distinct` (a new conversation has one creator) are what needs no lock. Assumption:
`AccessAssumption`; sets of users, mandates, conversations and requests may be infinite.

**Files and retention.** Two layers. `PolicyIInv` is about transactions: a purge between its inspection
and its end, and a deletion between its quarantine and its commit where the site has a policy, hold the
row of the policy, which says what they have read; a purge that has committed has consumed its preview. It is
inductive without anything about files, and gives `PolicyIsFollowed` and `PreviewPurgesOnce`. That the
activity of a listed conversation is a date of the model needs the greatest element of a bounded set of
numbers (`LastDate`), by well-foundedness as above.

`FilesIInv` adds what rows say of one another (`RowsInv`), what previews and deletions of conversations
have listed (`ListedInv`), and `CopiesInv`: every copy on the disk is `Fine`, a file has one copy in each place
(`Alone`), and a row that is live, or about to be, has private bytes somewhere while its run is stored
(`KeptInv`). `Fine` says of one copy whose file it is (`Placed`), which deletion or purge has moved it,
and where this one must be for the copy to be still away (`SetAside`, `MovedAway`, `OutOfReach`): bytes that a purge
has moved belong to a run that is gone, unless it failed, and then they are back, or their directory was made
anew, or another purge has moved that one. A purge whose COMMIT failed holds no lock while it restores
(`restoring`, then `undone`): it may bring back what was deleted meanwhile, which `Undone` names. The awkward case is a restoration that finds its path taken; a deletion
never does, because the only file that may be there is its own, and that one is aside. `Lasts` collects
what no step takes back (a run that is gone, a failure, what a purge has listed), so that a copy nobody
touches stays `Fine` by four lemmas, and each family of actions has to show its own renames only.

`DataIsKept` and `FilesStayWithRows` take `OneFilePerName` as a hypothesis: two inputs of a run have
different names. It is needed, and the code does not ensure it: a second input of a name removes the first
one's bytes (section 7, divergence 26). The hypothesis also excludes a name that is used again after the
deletion of its file, which may well be harmless. Assumptions:
`ArtifactAssumption` (requests are finitely many, which only the count of failures in `RestoredInPlace`
uses; inputs, outputs and what Hermes writes have directories of their own) and `LifecycleAssumption`;
`MaxVersions`, `MaxPreviews`, `MaxClock` and `MaxFaults` are of any value.

## 7. Where code and documentation disagree

The first has a run that shows it; the others were met while modelling and are reproduced by the
models, whose properties state what remains true.

1. **A rollback outside the lease undoes a change of key** (`rollback_key`). The lease of a migration ends with
   `withRuntimeMutationLease` (`storage-migration.ts:427`), and the `catch` that rolls it back comes
   after (line 450). A change of key that starts in between recreates the container under the new key,
   verifies it and commits it; the rollback then removes that container and starts the previous one,
   with the previous key. The Console has lost the key of its runtime, and its journal says
   `rolled_back`. `docs/user-stories/SSH-STORIES.md:142-143`: "aucun succès n’est persisté et le runtime
   précédent est restauré, sinon l’état `récupération requise` bloque les missions". An update or a run
   may start there as well, on the container that is about to be removed.
2. **A purge removes what its preview did not list.** `purgeDataLifecycle` compares the
   manifest with the candidates at `retention/purge.ts:246`, moves the files, and deletes the
   conversations at `purge.ts:288` with the runs created since: neither the conversations nor their
   runs are locked in between. `docs/user-stories/guides/G1-006E-PURGE.md:13-14`: "une mission non
   terminale, une dérive ou une portée croisée bloque la purge".
3. **A call gets the tunnel of another endpoint.** `forward` returns the opening under
   way before it looks at the endpoint (`system-ssh.ts:137`, `146`): a call made after the port of Hermes
   was changed is given the URL of the former one. `ssh/types.ts:36`: "Ouvre (ou réutilise) un forward
   local et renvoie" its URL. `RightAccount` is what holds instead. Two calls also close each other's
   tunnel by password: `forward` is not serialised in `ssh2-password.ts`, both listen, and line 134
   closes the server whose URL the first was given, which is what `system-ssh.ts:131-134` serialises
   its own `forward` for.
4. **A screen stays attached to a run that is over.** The polls stop while the
   stream of a message is attached (`use-live-thread.ts:719`), and that stream ends after a terminal
   event (`product-event-sse.ts:80`). `handleAgentRunError` closes a run that Hermes reports as over
   after a 404 without an event (`runner.ts:445-459`), and so does the reconciliation of a boot.
   `use-live-thread.ts:338` says of the attached stream that the polls have nothing to catch up with.
   `ScreenCatchesUp` excepts the screens in that state (`AttachedForNothing`).

Of the runs, their approvals and their events:

5. **A cancellation between two events strands the run.** `runner.ts:302`
   leaves the loop when the controller is aborted; `runner.ts:343` then closes the run only if
   it was *not* aborted, and no exception reaches `handleAgentRunError`. The run stays
   `running` until the next boot, against the contract `reconciler.ts:219-220` quotes.
6. **A closed run comes back.** `markRunStarting` and `markRunStarted` do not
   look at the status. A run cancelled or reconciled before its reader has read its context
   becomes active again beside the run its conversation has accepted since, against what
   `repository.ts:268-270` and `648-649` count on.
7. **A replaced reader cancels its run.** `handleAgentRunError` tests
   `aborted` (`runner.ts:425`) before the reason "reconnect" (`runner.ts:465`), although
   `runner.ts:92-94` says that this reason must not become a user cancellation.
8. **A claim survives its decision.** A second demand that arrives before
   `finalizeRunApprovalClaim` changes the status, and the claim is cleared only while the run is
   `running` (`repository.ts:986`): the second demand cannot be answered.
9. **Streams have holes.** A batch of the timer that draws its identities first
   and commits last stays behind the cursor of every connection (`product-event-sse.ts:72`), and
   the poll only lists what follows the cursor. A viewer sees it at its next snapshot, which the
   web client does not fetch while its stream is attached.
10. **The message may lack its last text.** `completeRun` builds the message
    from the committed events while a batch of the timer, which nobody awaits, is still open:
    `MessageLacksOnlyOpenBatches` says that nothing else is missing.
11. A cancellation during the submission closes the run without telling Hermes to stop
    (`runner.ts:124`, the reader does not know the id yet); claims kept "for reconcile" after an
    ambiguous failure are reconciled by nothing (`respond-approval.ts:62`); a decision relayed while a
    fresh reader is about to leave is followed by nobody (`respond-approval.ts:300`); a
    reconciliation that meets a long operation closes a live run as failed (`reconciler.ts:192`).

Of the operations on the runtime:

12. A migration whose closing write fails is settled by nothing but the next boot (the ghost
    `unsaved`, `storage-migration.ts:437`), and meanwhile no run starts.
13. A poll that reads an operation, then its worker, then writes may close an update that is alive
    or reopen one that was closed; it decides from the version that was detected before, so that
    an undone update may be recorded as a success (`update-operations.ts:133-152`).
14. A rotation whose script timed out is recorded as rolled back although the key may have changed
    (the ghost `lost`), and a Docker rotation turns the named volume into a bind mount of its
    directory (`PRD.md:697-698`).
15. The journals are read before the reservation (`assertNoBlocking*`, then `acquireRunStartLease`);
    deleting the configuration deletes the journals with it and unblocks the runs
    (`PRD.md:702-703`); revisions restart at 1, so that a plan of the deleted configuration may match
    the new one.
16. An update that answers already is undone when the plan or the progress cannot be written
    afterwards; one whose row cannot be marked as running stays queued.

Of the provisioning:

17. **The lock of a job is given back by a request that never took it.** The `catch` of
    `provision/route.ts:67` clears `provisioningLock` (line 32) after a body that is not valid. Two jobs
    may then be admitted, both inspected before either deploys, and the second replaces the healthy
    installation the first has made: `provisioning.ts` refuses to start on one "pour éviter de la
    remplacer".
18. **A native provisioning never ends with a success.** The unit is written with the number of the
    account (`User=<uid>`, and `provisioning.test.ts:190` expects `User=1002`), while the workspace is
    inspected under the name `systemctl show -p User` gives (`workspace.test.ts:105` expects
    `native_service_user=hermes`): commands sent as `sudo -n -u '1002'` are refused by the exact rules of
    `remote-update-manager.ts:105`. The job fails after Hermes answers and its row is saved, and a
    second attempt is refused because the installation is healthy.
19. What a failed job leaves: the native rollback starts the previous release under the new token,
    which the row does not have; the first install has no `current` to come back to, and
    `readlink -f` makes the rollback write a link to itself; a release cut off in its installation is
    a `native_release_collision` for each later update; the manager is configured for the new mode
    and directory before anything is deployed, and `runtime.env` is rewritten before the owner of the
    container is checked.
20. `persistSshWorkspace` commits, then reads the row back: if that fails, `terminal.cwd` is put back and
    the row stays ready. A channel lost between the setting of `terminal.cwd` and its reading leaves
    it set. And a screen that looks at the workspace while an activation has set `terminal.cwd` and not
    saved its row is shown the new path as the one in force; if the activation then undoes it, the screen
    still holds the current revision and asks with `alignHermesCwd: false` (`ssh-runtime-setup.tsx:358`),
    so that `workspace.ts:358` sets nothing and the row names a directory Hermes does not work in. These are
    what `unsettled` excuses.

Of the transport:

21. `forwarded` is read again after the check of its port (`system-ssh.ts:142-143`): a close in between
    makes the call end with a `TypeError` ("crashed"). A close that arrives while a port is being
    reserved, or while `ssh2` connects, finds nothing to close: the master stays until `ControlPersist`
    ends (300 s), the connection of `ssh2` as long as its keepalive is answered. A direct configuration
    that is saved leaves the channel of the former one open, on purpose for the missions that use it
    (`config.ts:436`), until another account is asked for.
22. An exit is not awaited (`system-ssh.ts:195`): one that comes late ends a tunnel of the same channel that
    was opened after it was started. `TunnelIsKept` names this case (`e.of <= k`).
23. A remote command whose connection is lost, or that a signal ends, has no code, and
    `exitCode ?? 0` (`ssh2-password.ts:187`) reports a success; the channel by `ssh` reports a failure.
    `SshProvisioning`, `StorageMigration` and the others take a command that was cut off for a failure, as
    their code is written for. A local server of `ssh2` that starts listening after its connection was
    lost is remembered as the tunnel, and serves the next connection's calls with errors.

Of guided tasks:

24. A launch uses approvals read outside its transaction (`guided-task/delivery.ts:86` against
    `181-225`; `PRD.md:422-424`): one may have been withdrawn. `LaunchedWithApprovals` states what
    remains: somebody had approved.
25. An accepted attempt becomes failed when its cleanup fails (`delivery.ts:463-481`), and the
    cleanup of an older execution overwrites the status of the task; a new revision during an
    attempt, or a crash, strands it in `pending` or `running` for ever. The latest decision
    is that of the latest date, which is taken before the lock, not that of the greatest number.

Of files and retention:

26. `rm(destination)` after a failed exclusive write (`artifacts/repository.ts:742`) deletes the bytes
    of the earlier upload of that name (`GATE-1-CONTRAT-EXPLOITATION.md:12`).
27. The deletion of a conversation reads no legal hold (`delete-thread.ts:46`;
    `GATE-1-CONTRAT-EXPLOITATION.md:219-221`); delivered outputs can never be deleted
    (`delete-artifact.ts:66`; same document, line 341).
28. Two scans may record one output twice; an upload or a scan that races a purge or a deletion
    leaves bytes without a row; a crash between a rename and its commit leaves them in quarantine,
    and two failures at once are not undone. When the COMMIT of a purge fails, its row locks are
    released before `restoreMoves` runs (`purge.ts:337-341`): a deletion in between finds neither of its
    files, takes `ENOENT` for done (`delete-artifact.ts:262-266`) and commits, and the bytes are put back
    within reach of Hermes and of readers of the directory; so are those of a conversation that a second
    purge of the same preview removes in between. `DeletedIsOutOfReach` names the purge (`Undone`). A file that fails to be deposited otherwise than
    by a refusal leaves its run pending (`messages/route.ts:60-84`).

Of the site:

29. Two members who open conversations at once deadlock: each insertion shares the key of the
    site through a foreign key, then wants it `FOR UPDATE` for the audit entry
    (`audit/service.ts:80`). PostgreSQL aborts one, and nothing tries again.
30. A run of a mandate that was withdrawn goes on after a cancellation that failed (only logged).
    It also goes on when it is closed before its reader begins: a revocation that lists a pending run
    not registered yet closes its row (`cancel-run.ts:60-83`), then `startRun` registers it and
    `markRunStarting` writes an active status over the closed row, testing neither the status nor the
    authorisation (`runner.ts:164`, `repository.ts:544-549`), under the withdrawn mandate and with
    nobody following it. `markRunStarted` and `markRunAwaitingApproval` (which tests the status in an
    earlier statement) can undo the cancellation of a run that has a reader in the same way, and the
    boot passes by a run that has one (`reconciler.ts:87`). `RevokedRunsAreFollowed` names these runs
    (`slipped`); without them TLC finds the first trace. A demoted member's run keeps its
    authorisation.

Of the web client:

31. The first fetch replaces the screen without a merge: it drops a message shown before it was
    sent. A message that fails puts back the screen as it was when it was sent, even if a refusal
    has cleared it since: the `catch` does so (`use-live-thread.ts:687-690`) after a message that
    was itself refused with 403 or 404 and has cleared the conversation (`641-648`), so that a
    conversation the user may not read any more is back on the screen, the polls stopped. Refreshes
    in flight are not guarded by a revocation either. `RefusalStays` names these exceptions. The
    replay of events after a merge never finds any; a poll of an effect that is over can still
    stop the polls of the next one.

Of the updates of the runtime:

32. An update of a container without labels adopts the compose file that a migration has left
    (`update.ts:64`), whatever became of that migration. When its cleaning failed
    (`storage-migration.ts:431-440` closes the row as failed all the same) or its rollback was cut short,
    the container is made again on a directory that is empty, partial, or new (`docker compose up` creates
    it), and Hermes answers on data nobody has compared; a boot that finds the bind mount running and
    a row still `recovery_required` may then record the migration as a success. After a migration and a
    change of key, which takes the labels away (`credentials.ts:434`), the same adoption brings back the
    key of `runtime.env`; Hermes does not answer with the key that is stored and the former container is
    put back, unless that fails or the process dies first. `astray` names the first case
    (`crossed` too, when the row was not over), and `TokenIsKnown` the second by the container that lies beside. When the cleaning of the checkpoint is cut
    between its two commands (`update.ts:462-467`) and the last write fails, the undoing finds the backup
    but not the container, starts the new one and records that the image was restored.

Known from reading, not modelled: tool outputs published again under their old cursors are dropped
by the streams (`runner.ts:404`); a poll may bring back the card of an answered demand; after a
navigation without a remount the poll of one conversation may land on another.

## 8. What is only model-checked, what is not modelled

Only model-checked, on the bounds of section 4: the liveness properties. Neither checked nor proved:
`LifecycleInvariant` and `FilesFollowRows` with two inputs of one name, `NoStrandedRun` with faults
(section 6 says why for each), and `CompletedIsGenuine` and its companions under the relay, whose run
asks only about decisions. What the operations promise of the machine is stated but for `astray` and
`crossed` (section 3), beyond which divergences 1 and 32 break it.

Liveness is out of reach of this prover and will stay with TLC; so are the theorems of its library that take an operator
as a parameter, induction among them, in the place of which section 6 uses well-foundedness. Conversely the type invariants of the runs, the relay
and the operations, and `MutualExclusion`, `ReservationsAreCounted`, `ClaimIsExclusive` and
`RegistrationIsAlive` are proved and no longer run.

Abstractions inside the modelled parts:

* `RunExecution`: the payload of runs; artifacts and the backfill of tool outputs at
  completion; the checks of the workspace before a submission (an error like another); the
  `/v1/responses` protocol; the logging. A failure of the database is modelled in
  `getRunContext` and around the creation of a run, not in each statement.
* `ApprovalRelay`: the expiry sweep (`expireApprovalRequests`, `approval-requests.ts:404`, which
  nothing in the repository calls; a request expires when a statement finds it late); the
  content of policy envelopes and audit entries, each one step that succeeds or fails;
  the choices "session" and "always", which the server refuses before it does anything.
* `EventStream`: one run, one reader; the content of tool events and of reasoning; failures
  of a transaction; the list of a poll is taken when the queue is empty and there is something
  to list (otherwise what it adds is dropped by `Send`, or queued by the next poll).
* `RuntimeExclusion`: nothing.
* `RuntimeOperations`: each remote script is one step, so that two scripts do not interleave
  (a script that goes on after its channel was lost is not modelled). `inspectInstallation` and the script
  of a Docker update are one step: what may come between them is a rollback outside the lease.
  Left out: the image the plan of a migration has read, compared again before it starts; the native
  adapters of rotations (that of updates behaves as the manager does); the update of a runtime
  that is reached directly; the management of a local runtime, the dashboard, the health probes, the
  release feed. The backup of a change of key is `runtime.env` of the data directory, taken to have the
  key of the container.
* `SshTunnel`: the stop of the server, which closes the channel and waits for its exit; copies of files
  and the standard streams of commands; the lines of `ssh` that tell a refused account from a refused
  port; the local configuration file of the keys.
* `PasswordTunnel`: copies of files; the host key, whose refusal is a connection that is refused; the
  limits on the bytes a command writes.
* `SshProvisioning`: keys and packages (the channels are those of the transport); connections as root and the adoption of a runtime
  that is there already; a request for a workspace other than what the screen sends; a script that
  goes on after its channel was lost; the steps of a native job past its inspection of the
  workspace, which it cannot pass (section 7).
* `GuidedTask`: the commands in the sandbox (each succeeds or fails), the preparation of the pull
  request, the texts of revisions and proofs.
* `DataLifecycle`: downloads and integrity reads; quotas other than the number of files of a run;
  the deletion of sessions at Hermes; the audit of denials; export and restoration.
* `SiteAccess`: sessions, expiry dates, the organisations (so that of the two refusals without mandate only `MSP_MANDATE_REQUIRED`
  is reached), what Hermes does with a run whose row was closed, the choice among several mandates and their projects, the
  development login, owned resources other than conversations, memberships of the organisation; of
  the ledger, the hashes and the identity of an entry that is sent again.
* `LiveThread`: mentions, commands, files, the contents of messages; two conversations; a change of
  scope; the events that record an answer; the gaps of the connector; the holes of
  `EventStream` (an event reaches a snapshot and a stream in the order of its cursor).

**How much of the repository this covers.** The map names about an eighth of its implementation
lines. The rest of the repository is for the most part not a protocol: the screens and their
design prototype (half of the lines), adapters that encode and
decode HTTP, schemas and validation, translations.

## 9. Plan

Done: the runs, the guard, the relay and the event stream; the operations on the runtime and its
provisioning; guided tasks; the transport;
artifacts, retention and deletions; the site; the conversation of the web client.

No safety property that a run checks is left without a theorem (some under the conditions of section 6).

To model later, each inside an existing module: the reconciliation of left claims in `ApprovalRelay`; the backfill of tool outputs and a second normalizer of the same run in
`EventStream`; the native adapters in `RuntimeUpdate` and `CredentialRotation`.

## 10. Running the checks

```
tlc -workers 2 -config MCRunExecution_two.cfg MCRunExecution.tla
tlc -workers 2 -config MCRuntimeOperations_all.cfg MCRuntimeOperations.tla
tlc -workers 2 -config MCSshTransport.cfg MCSshTransport.tla
tlc -workers 2 -config MCSshProvisioning.cfg MCSshProvisioning.tla
tlc -workers 2 -config LiveThread.cfg LiveThread.tla
tlapm RunExecutionProofs.tla
tlapm EventStreamProofs.tla
tlapm RuntimeOperationsProofs.tla
tlapm SshProvisioningProofs.tla
tlapm SshTransportProofs.tla
tlapm SiteAccessProofs.tla
```

Each configuration ends within five minutes on two workers; the proofs within a few (`SiteAccessProofs` takes the longest).
