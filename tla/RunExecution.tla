---------------------------- MODULE RunExecution ----------------------------
(***************************************************************************)
(* The life of a run inside the Console: the requests that create it, the  *)
(* readers that submit it to Hermes and follow its event stream, the       *)
(* requests that cancel it, the reconciliation at boot, the exclusion with *)
(* the operations that change the runtime, and crashes of the process.     *)
(*                                                                         *)
(* The server is one JavaScript process: what a function does between two  *)
(* awaits is one atomic step, and each statement sent to the database is   *)
(* one atomic step of its own.  `proc` gives every asynchronous activity a *)
(* program counter: the await at which it is suspended.  The activities    *)
(* are the runs themselves (the HTTP request that creates them), Readers   *)
(* (slots for executeAgentRun and resumeAgentStream), Cancels (calls of    *)
(* cancelRun) and Boot (reconcileOrphanRuns).                              *)
(*                                                                         *)
(* Hermes is another process, outside the repository: its actions are what *)
(* the code of the Console expects of it.                                  *)
(***************************************************************************)
EXTENDS RunStore

CONSTANTS
    Readers,    \* bound: readers alive at the same time
    Cancels,    \* bound: calls of cancelRun, each used once
    Mutators,   \* long operations on the runtime (update, migration, ...)
    Boot,       \* the reconciliation that each start of the process launches
    Revoked,    \* runs created under a mandate that has been withdrawn since
    Faults,     \* failures allowed besides those of Hermes, see FaultKinds
    MaxCrashes, \* bound: crashes of the process
    NoReader, NoLease

\* "context": the database fails in getRunContext or nextRunSequence;
\* "abandon": the request that created a run fails before startRun;
\* "runtime": no runtime is configured when the process boots.
FaultKinds == {"context", "abandon", "runtime"}

ASSUME RunExecutionAssumption ==
    /\ NoReader \notin Readers \union Runs \union Cancels \union {Boot}
    /\ NoLease \notin Mutators
    /\ Runs \intersect Readers = {}
    /\ Runs \intersect (Cancels \union {Boot}) = {}
    /\ Readers \intersect (Cancels \union {Boot}) = {}
    /\ Boot \notin Cancels
    /\ Revoked \subseteq Runs
    /\ Faults \subseteq FaultKinds
    /\ MaxCrashes \in Nat

VARIABLES
    proc,            \* the asynchronous activities of the process
    todo,            \* orphans the reconciliation listed and has not handled
    activeRuns,      \* hermesConsoleActiveRuns: the reader registered for a run
    mutationLease,   \* exclusion.mutationLease
    runReservations, \* exclusion.runReservations
    hermes,          \* the run as Hermes knows it
    crashes,         \* crashes so far
    cancelAsked      \* history: runs whose cancellation was requested

processVars == <<proc, todo, activeRuns, mutationLease, runReservations>>
vars == <<storeVars, processVars, hermes, crashes, cancelAsked>>

Cancellers == Cancels \union {Boot}
Procs      == Runs \union Readers \union Cancellers

ReaderPCs == {"context", "starting", "submit", "submitted", "status", "connect",
              "mark_started", "read", "insert", "mark_read", "mark_write",
              "ended", "error", "notfound", "poll", "check", "leaving"}
PCs == ReaderPCs \union
       {"idle", "finished", "reserved", "prepared", "discarding",
        "cancel", "local", "list", "next", "probe", "resume",
        "close_read", "close_write"}

Outcomes == TerminalStatuses \union {"none"}

\* pc: the await; run: the run concerned; next: where closing the run returns to;
\* source, aborted: ActiveRun.source and the reason its controller was aborted
\* with; terminal: a terminal event was read; outcome: the closure to write;
\* known: the activity holds the Hermes id of the run.
Activities ==
    [pc : PCs, run : Runs \union {"none"}, next : {"none", "read", "leaving", "next", "finished"},
     source : {"none", "fresh", "reconciled"}, aborted : {"no", "user", "reconnect"},
     terminal : BOOLEAN, outcome : Outcomes, known : BOOLEAN]

Idle == [pc |-> "idle", run |-> "none", next |-> "none", source |-> "none",
         aborted |-> "no", terminal |-> FALSE, outcome |-> "none", known |-> FALSE]

Finished == [Idle EXCEPT !.pc = "finished"]
Listing  == [Idle EXCEPT !.pc = "list"]

HermesStates == {"none", "running", "waiting"} \union TerminalStatuses

\* asks: authorisation demands raised; seen: those whose event left the stream;
\* stop: a stop request was sent.
HermesRuns == [state : HermesStates, asks : 0..MaxAsks, seen : 0..MaxAsks, stop : BOOLEAN]
HermesUnknown == [state |-> "none", asks |-> 0, seen |-> 0, stop |-> FALSE]

TypeOK ==
    /\ StoreTypeOK
    /\ proc \in [Procs -> Activities]
    /\ todo \subseteq Runs \X BOOLEAN
    /\ activeRuns \in [Runs -> Readers \union {NoReader}]
    /\ mutationLease \in Mutators \union {NoLease}
    /\ runReservations \in Nat
    /\ hermes \in [Runs -> HermesRuns]
    /\ crashes \in 0..MaxCrashes
    /\ cancelAsked \subseteq Runs

Init ==
    /\ StoreInit
    /\ proc = [p \in Procs |-> IF p = Boot THEN Listing ELSE Idle]
    /\ todo = {}
    /\ activeRuns = [r \in Runs |-> NoReader]
    /\ mutationLease = NoLease
    /\ runReservations = 0
    /\ hermes = [r \in Runs |-> HermesUnknown]
    /\ crashes = 0
    /\ cancelAsked = {}

-----------------------------------------------------------------------------
(* Steps of an activity *)

At(p, pc)   == proc[p].pc = pc
RunOf(p)    == proc[p].run
Goto(p, pc) == proc' = [proc EXCEPT ![p].pc = pc]
Ends(p)     == proc' = [proc EXCEPT ![p] = Finished]

\* Back to what called completeRun, failRun or cancelRun.
Returned(p) ==
    CASE proc[p].next = "finished" -> Finished
      [] proc[p].next = "next"     -> [Idle EXCEPT !.pc = "next"]
      [] OTHER -> [proc[p] EXCEPT !.pc = proc[p].next, !.next = "none", !.outcome = "none"]

Returns(p) == proc' = [proc EXCEPT ![p] = Returned(p)]

\* Continue with completeRun or failRun, then with `next`.
GoClose(p, outcome, next) ==
    proc' = [proc EXCEPT ![p].pc = "close_read", ![p].outcome = outcome, ![p].next = next]

Reader(r, source) ==
    [Idle EXCEPT !.pc = "context", !.run = r, !.source = source,
                 !.known = (source = "reconciled")]

\* Mutant: the first release forgets the other reservations.
ReleaseAllReservations == runReservations' = 0

ReleaseReservation ==
    runReservations' = IF runReservations = 0 THEN 0 ELSE runReservations - 1

\* A step that touches neither the registry of readers nor the exclusion.
Keeps == UNCHANGED <<todo, activeRuns, mutationLease, runReservations, crashes, cancelAsked>>

-----------------------------------------------------------------------------
(* Creation: POST /threads, POST /threads/:id/messages, POST /runs/:id/retry *)

AcquireRunStart(r) ==
    /\ At(r, "idle")
    /\ mutationLease = NoLease
    /\ runReservations' = runReservations + 1
    /\ proc' = [proc EXCEPT ![r].pc = "reserved", ![r].run = r]
    /\ UNCHANGED <<storeVars, todo, activeRuns, mutationLease, hermes, crashes, cancelAsked>>

CreateRun(r) ==
    /\ At(r, "reserved")
    /\ InsertRun(r)
    /\ Goto(r, "prepared")
    /\ UNCHANGED <<approval, hermes>> /\ Keeps

\* The workspace is not ready, or the thread already has an active run.
RefuseRun(r) ==
    /\ At(r, "reserved")
    /\ ReleaseReservation
    /\ Ends(r)
    /\ UNCHANGED <<storeVars, todo, activeRuns, mutationLease, hermes, crashes, cancelAsked>>

\* startRun, then the release of the reservation in the same synchronous segment.
StartRun(r) ==
    /\ At(r, "prepared")
    /\ mutationLease = NoLease
    /\ activeRuns[r] = NoReader
    /\ ReleaseReservation
    /\ \E p \in Readers :
        /\ At(p, "idle")
        /\ proc' = [proc EXCEPT ![r] = Finished, ![p] = Reader(r, "fresh")]
        /\ activeRuns' = [activeRuns EXCEPT ![r] = p]
    /\ UNCHANGED <<storeVars, todo, mutationLease, hermes, crashes, cancelAsked>>

\* An input file is refused: discardUnstartedRun reads the status ...
DiscardRead(r) ==
    /\ At(r, "prepared")
    /\ IF run[r].status = "pending"
         THEN /\ Goto(r, "discarding")
              /\ UNCHANGED runReservations
         ELSE /\ Ends(r)
              /\ ReleaseReservation
    /\ UNCHANGED <<storeVars, todo, activeRuns, mutationLease, hermes, crashes, cancelAsked>>

\* ... then deletes the row if it is still pending.
DiscardDelete(r) ==
    /\ At(r, "discarding")
    /\ DeletePendingRun(r)
    /\ Ends(r)
    /\ ReleaseReservation
    /\ UNCHANGED <<approval, todo, activeRuns, mutationLease, hermes, crashes, cancelAsked>>

\* Any other error between the commit of the row and startRun.
AbandonRun(r) ==
    /\ "abandon" \in Faults
    /\ At(r, "prepared")
    /\ Ends(r)
    /\ ReleaseReservation
    /\ UNCHANGED <<storeVars, todo, activeRuns, mutationLease, hermes, crashes, cancelAsked>>

Creation(r) ==
    \/ AcquireRunStart(r) \/ CreateRun(r) \/ RefuseRun(r) \/ StartRun(r)
    \/ DiscardRead(r) \/ DiscardDelete(r) \/ AbandonRun(r)

-----------------------------------------------------------------------------
(* A reader: executeAgentRun when fresh, resumeAgentStream when reconciled *)

Aborted(p) == proc[p].aborted # "no"
Fresh(p)   == proc[p].source = "fresh"
Live(r)    == hermes[r].state \in {"running", "waiting"}

\* A step of a reader that writes neither the store nor Hermes.
Local == UNCHANGED <<storeVars, hermes>> /\ Keeps

\* Without a context the error handler returns at once: nothing is closed.
ReadContext(p) ==
    /\ At(p, "context")
    /\ \/ Goto(p, IF Fresh(p) THEN "starting" ELSE "status")
       \/ "context" \in Faults /\ Goto(p, "leaving")
    /\ Local

\* The workspace may not be ready any more: an error like another.
MarkStarting(p) ==
    /\ At(p, "starting")
    /\ \/ MarkRunStarting(RunOf(p)) /\ Goto(p, "submit")
       \/ UNCHANGED run /\ Goto(p, "error")
    /\ UNCHANGED <<approval, hermes>> /\ Keeps

\* createHermesAgentRun.  The answer can be lost after Hermes started the run.
Submit(p) ==
    /\ At(p, "submit")
    /\ \/ /\ ~Aborted(p)
          /\ hermes' = [hermes EXCEPT ![RunOf(p)].state = "running"]
          /\ Goto(p, "submitted")
       \/ /\ hermes' \in {hermes, [hermes EXCEPT ![RunOf(p)].state = "running"]}
          /\ Goto(p, "error")
    /\ UNCHANGED storeVars /\ Keeps

\* setHermesResponseId; `active.hermesRunId` is set when it returns.
RecordSubmission(p) ==
    /\ At(p, "submitted")
    /\ SetHermesResponseId(RunOf(p))
    /\ proc' = [proc EXCEPT ![p].pc = "connect", ![p].known = TRUE]
    /\ UNCHANGED <<approval, hermes>> /\ Keeps

\* A resumed reader leaves a run that waits for a human in that status.
ReadStatus(p) ==
    /\ At(p, "status")
    /\ Goto(p, IF run[RunOf(p)].status = "awaiting_approval" THEN "connect" ELSE "mark_started")
    /\ Local

\* streamHermesAgentRun.  Hermes answers 404 once the run is over.
Connect(p) ==
    /\ At(p, "connect")
    /\ \/ ~Aborted(p) /\ Goto(p, IF Fresh(p) THEN "mark_started" ELSE "read")
       \/ Goto(p, "error")
       \/ ~Live(RunOf(p)) /\ Goto(p, "notfound")
    /\ Local

MarkStarted(p) ==
    /\ At(p, "mark_started")
    /\ MarkRunStarted(RunOf(p))
    /\ Goto(p, IF Fresh(p) THEN "read" ELSE "connect")
    /\ UNCHANGED <<approval, hermes>> /\ Keeps

\* Mutant: the run is marked before its request is in the table.
ReceiveAskUnwritten(p) ==
    LET r == RunOf(p) IN
    /\ At(p, "read")
    /\ hermes[r].seen < hermes[r].asks
    /\ hermes' = [hermes EXCEPT ![r].seen = @ + 1]
    /\ Goto(p, IF Aborted(p) THEN "ended" ELSE "mark_read")
    /\ UNCHANGED storeVars /\ Keeps

\* An `approval.requested` event; an aborted reader leaves its loop on any event.
ReceiveAsk(p) ==
    LET r == RunOf(p) IN
    /\ At(p, "read")
    /\ hermes[r].seen < hermes[r].asks
    /\ hermes' = [hermes EXCEPT ![r].seen = @ + 1]
    /\ Goto(p, IF Aborted(p) THEN "ended" ELSE "insert")
    /\ UNCHANGED storeVars /\ Keeps

\* run.completed, run.failed or run.cancelled: the event that closes the run.
ReceiveEnd(p) ==
    LET r == RunOf(p) IN
    /\ At(p, "read")
    /\ hermes[r].seen = hermes[r].asks
    /\ hermes[r].state \in TerminalStatuses
    /\ ~proc[p].terminal
    /\ IF Aborted(p)
         THEN Goto(p, "ended")
         ELSE proc' = [proc EXCEPT ![p].pc = "close_read", ![p].outcome = hermes[r].state,
                                   ![p].next = "read", ![p].terminal = TRUE]
    /\ Local

\* The stream ends, or fails (always so once the fetch is aborted).
StreamStops(p) ==
    /\ At(p, "read")
    /\ \/ ~Aborted(p) /\ Goto(p, "ended")
       \/ Goto(p, "error")
    /\ Local

\* persistApprovalRequest, then the event; a row already there is an error.
InsertRequest(p) ==
    LET r == RunOf(p)  k == hermes[r].seen IN
    /\ At(p, "insert")
    /\ IF CanPersistApprovalRequest(r, k)
         THEN PersistApprovalRequest(r, k) /\ Goto(p, "mark_read")
         ELSE UNCHANGED approval /\ Goto(p, "error")
    /\ UNCHANGED <<run, hermes>> /\ Keeps

AwaitingRead(p) ==
    /\ At(p, "mark_read")
    /\ Goto(p, IF IsTerminal(RunOf(p)) THEN "read" ELSE "mark_write")
    /\ Local

AwaitingWrite(p) ==
    /\ At(p, "mark_write")
    /\ WriteAwaitingApproval(RunOf(p))
    /\ Goto(p, "read")
    /\ UNCHANGED <<approval, hermes>> /\ Keeps

\* Mutant: a stream that ends without a terminal event is taken for the end.
StreamEndedInSilence(p) == At(p, "ended") /\ Goto(p, "leaving") /\ Local

\* Out of the loop without an exception.
StreamEnded(p) ==
    /\ At(p, "ended")
    /\ IF \/ proc[p].terminal
          \/ Aborted(p)
          \/ run[RunOf(p)].status = "awaiting_approval"
         THEN Goto(p, "leaving")
         ELSE GoClose(p, "failed", "leaving")
    /\ Local

\* Mutant: any 404 of the stream is taken for a cancellation.
HandleErrorHastily(p) ==
    /\ proc[p].pc \in {"error", "notfound"}
    /\ IF Aborted(p) \/ At(p, "notfound")
         THEN GoClose(p, "cancelled", "leaving")
         ELSE Goto(p, "check")
    /\ Local

\* handleAgentRunError, up to its first await.
HandleError(p) ==
    /\ proc[p].pc \in {"error", "notfound"}
    /\ IF Aborted(p)
         THEN GoClose(p, "cancelled", "leaving")
         ELSE Goto(p, IF At(p, "notfound") THEN "poll" ELSE "check")
    /\ Local

\* Mutant: the 404 alone is proof of success.
PollHermesNever(p) == At(p, "poll") /\ GoClose(p, "completed", "leaving") /\ Local

\* readHermesAfterStreamFailure: eight reads, or a failure of one of them.
PollHermes(p) ==
    LET state == hermes[RunOf(p)].state IN
    /\ At(p, "poll")
    /\ \/ state \in TerminalStatuses /\ GoClose(p, state, "leaving")
       \/ Goto(p, IF proc[p].aborted = "reconnect" THEN "leaving" ELSE "check")
    /\ Local

\* The rest of handleAgentRunError: a run that waits for a human is kept.
CheckAwaiting(p) ==
    /\ At(p, "check")
    /\ IF run[RunOf(p)].status = "awaiting_approval"
         THEN Goto(p, "leaving")
         ELSE GoClose(p, "failed", "leaving")
    /\ Local

\* The `finally` of startRun deletes whatever is registered, that of
\* resumeAgentRun only its own registration.
ReaderLeaves(p) ==
    LET r == RunOf(p) IN
    /\ At(p, "leaving")
    /\ activeRuns' = IF Fresh(p) \/ activeRuns[r] = p
                       THEN [activeRuns EXCEPT ![r] = NoReader]
                       ELSE activeRuns
    /\ proc' = [proc EXCEPT ![p] = Idle]
    /\ UNCHANGED <<storeVars, todo, mutationLease, runReservations, hermes, crashes, cancelAsked>>

Reading(p) ==
    \/ ReadContext(p) \/ MarkStarting(p) \/ Submit(p) \/ RecordSubmission(p)
    \/ ReadStatus(p) \/ Connect(p) \/ MarkStarted(p)
    \/ ReceiveAsk(p) \/ ReceiveEnd(p) \/ StreamStops(p)
    \/ InsertRequest(p) \/ AwaitingRead(p) \/ AwaitingWrite(p)
    \/ StreamEnded(p) \/ HandleError(p) \/ PollHermes(p) \/ CheckAwaiting(p)
    \/ ReaderLeaves(p)

-----------------------------------------------------------------------------
(* completeRun and failRun, whoever calls them: a read of the status, then *)
(* a write that does not test it again.                                    *)

CloseRead(p) ==
    LET r == RunOf(p) IN
    /\ At(p, "close_read")
    /\ IF ~Exists(r) \/ IsTerminal(r)
         THEN Returns(p)
         ELSE Goto(p, "close_write")
    /\ Local

CloseWrite(p) ==
    /\ At(p, "close_write")
    /\ WriteClosed(RunOf(p), proc[p].outcome)
    /\ Returns(p)
    /\ UNCHANGED <<approval, hermes>> /\ Keeps

Closing(p) == CloseRead(p) \/ CloseWrite(p)

-----------------------------------------------------------------------------
(* cancelRun, called by a request or by the reconciliation *)

RequestCancel(c, r) ==
    /\ c \in Cancels
    /\ At(c, "idle")
    /\ Exists(r)
    /\ cancelAsked' = cancelAsked \union {r}
    /\ proc' = [proc EXCEPT ![c].pc = "cancel", ![c].run = r, ![c].next = "finished"]
    /\ UNCHANGED <<storeVars, todo, activeRuns, mutationLease, runReservations, hermes, crashes>>

CancelLookup(c) ==
    LET r == RunOf(c) IN
    /\ At(c, "cancel")
    /\ IF ~Exists(r) \/ IsTerminal(r)
         THEN Returns(c)
         ELSE proc' = [proc EXCEPT ![c].pc = "local", ![c].known = run[r].submitted]
    /\ Local

\* Mutant: the cancellation also deletes the registration.
CancelAndForget(c) ==
    LET r == RunOf(c)  p == activeRuns[r] IN
    /\ At(c, "local")
    /\ p # NoReader
    /\ hermes' = [hermes EXCEPT ![r].stop = @ \/ proc[p].known]
    /\ proc' = [proc EXCEPT ![p].aborted = IF @ = "no" THEN "user" ELSE @,
                            ![c] = Returned(c)]
    /\ activeRuns' = [activeRuns EXCEPT ![r] = NoReader]
    /\ UNCHANGED <<storeVars, todo, mutationLease, runReservations, crashes, cancelAsked>>

\* cancelActiveRun: a reader of this process is aborted (the first reason an
\* AbortController receives is kept) and the cancellation is over; Hermes is
\* told to stop if the reader knows its id.
CancelLocally(c) ==
    LET r == RunOf(c)  p == activeRuns[r] IN
    /\ At(c, "local")
    /\ p # NoReader
    /\ hermes' = [hermes EXCEPT ![r].stop = @ \/ proc[p].known]
    /\ proc' = [proc EXCEPT ![p].aborted = IF @ = "no" THEN "user" ELSE @,
                            ![c] = Returned(c)]
    /\ UNCHANGED storeVars /\ Keeps

\* No reader in this process: stop Hermes, then close the run from here.
CancelRemotely(c) ==
    LET r == RunOf(c) IN
    /\ At(c, "local")
    /\ activeRuns[r] = NoReader
    /\ hermes' = [hermes EXCEPT ![r].stop = @ \/ proc[c].known]
    /\ GoClose(c, "cancelled", proc[c].next)
    /\ UNCHANGED storeVars /\ Keeps

Cancelling(c) == CancelLookup(c) \/ CancelLocally(c) \/ CancelRemotely(c)

-----------------------------------------------------------------------------
(* reconcileOrphanRuns, launched in the background by each boot *)

\* The snapshot keeps whether the run had a Hermes id when it was listed.
BootList ==
    /\ At(Boot, "list")
    /\ todo' = {<<r, run[r].submitted>> : r \in {r \in Runs : IsActive(r)}}
    /\ Goto(Boot, "next")
    /\ UNCHANGED <<storeVars, activeRuns, mutationLease, runReservations,
                   hermes, crashes, cancelAsked>>

BootEnds ==
    /\ At(Boot, "next")
    /\ todo = {}
    /\ Ends(Boot)
    /\ Local

\* Mutant: an orphan that was never submitted is skipped.
SkipsUnsubmitted(r, submitted) ==
    {[Idle EXCEPT !.run = IF submitted THEN r ELSE "none", !.next = "next",
                  !.pc = IF submitted THEN "probe" ELSE "next"]}

\* Where reconcileOne may go with an orphan it does not skip: under a withdrawn
\* mandate it is cancelled, without a Hermes id it is closed, else Hermes is asked,
\* unless no runtime is configured.
Reconciled(r, submitted) ==
    LET orphan == [Idle EXCEPT !.run = r, !.next = "next", !.known = submitted] IN
    CASE r \in Revoked -> {[orphan EXCEPT !.pc = "cancel"]}
      [] r \notin Revoked /\ ~submitted ->
            {[orphan EXCEPT !.pc = "close_read", !.outcome = "failed"]}
      [] OTHER -> {[orphan EXCEPT !.pc = "probe"]} \union
                    (IF "runtime" \in Faults THEN {[Idle EXCEPT !.pc = "next"]} ELSE {})

BootNext ==
    /\ At(Boot, "next")
    /\ \E t \in todo :
        /\ todo' = todo \ {t}
        /\ IF activeRuns[t[1]] # NoReader
             THEN UNCHANGED proc
             ELSE \E activity \in Reconciled(t[1], t[2]) :
                    proc' = [proc EXCEPT ![Boot] = activity]
        /\ cancelAsked' = IF activeRuns[t[1]] = NoReader /\ t[1] \in Revoked
                            THEN cancelAsked \union {t[1]} ELSE cancelAsked
    /\ UNCHANGED <<storeVars, activeRuns, mutationLease, runReservations, hermes, crashes>>

\* decideReconcileAction on the status of GET /v1/runs/:id
ReconcileDecision(state) == IF state \in TerminalStatuses THEN state ELSE "resume"

\* The answer of Hermes, or a failure to obtain one.
BootProbe ==
    LET decision == ReconcileDecision(hermes[RunOf(Boot)].state) IN
    /\ At(Boot, "probe")
    /\ \/ decision = "resume" /\ Goto(Boot, "resume")
       \/ decision # "resume" /\ GoClose(Boot, decision, "next")
       \/ GoClose(Boot, "failed", "next")
    /\ Local

\* resumeAgentRun without `force`, which throws while the runtime is changed:
\* reconcileOne then closes the run as failed.
BootResume ==
    LET r == RunOf(Boot) IN
    /\ At(Boot, "resume")
    /\ \/ /\ mutationLease # NoLease
          /\ GoClose(Boot, "failed", "next")
          /\ UNCHANGED activeRuns
       \/ /\ mutationLease = NoLease /\ activeRuns[r] # NoReader
          /\ Returns(Boot)
          /\ UNCHANGED activeRuns
       \/ /\ mutationLease = NoLease /\ activeRuns[r] = NoReader
          /\ \E p \in Readers :
              /\ At(p, "idle")
              /\ proc' = [proc EXCEPT ![Boot] = Returned(Boot), ![p] = Reader(r, "reconciled")]
              /\ activeRuns' = [activeRuns EXCEPT ![r] = p]
    /\ UNCHANGED <<storeVars, todo, mutationLease, runReservations, hermes, crashes, cancelAsked>>

Reconciliation == BootList \/ BootNext \/ BootEnds \/ BootProbe \/ BootResume

-----------------------------------------------------------------------------
(* Operations that change the runtime (withRuntimeMutationLease) *)

AcquireMutation(m) ==
    /\ mutationLease = NoLease
    /\ runReservations = 0
    /\ \A r \in Runs : activeRuns[r] = NoReader
    /\ mutationLease' = m
    /\ UNCHANGED <<storeVars, proc, todo, activeRuns, runReservations, hermes, crashes, cancelAsked>>

ReleaseMutation(m) ==
    /\ mutationLease = m
    /\ mutationLease' = NoLease
    /\ UNCHANGED <<storeVars, proc, todo, activeRuns, runReservations, hermes, crashes, cancelAsked>>

-----------------------------------------------------------------------------
(* Hermes (external) *)

HermesOnly == UNCHANGED <<storeVars, processVars, crashes, cancelAsked>>

HermesAsks(r) ==
    /\ hermes[r].state = "running"
    /\ hermes[r].asks < MaxAsks
    /\ hermes' = [hermes EXCEPT ![r].state = "waiting", ![r].asks = @ + 1]
    /\ HermesOnly

HermesEnds(r) ==
    /\ hermes[r].state = "running"
    /\ \E outcome \in {"completed", "failed"} :
         hermes' = [hermes EXCEPT ![r].state = outcome]
    /\ HermesOnly

HermesStops(r) ==
    /\ hermes[r].stop
    /\ Live(r)
    /\ hermes' = [hermes EXCEPT ![r].state = "cancelled"]
    /\ HermesOnly

\* Events sent while nobody reads the stream are not sent again.
HermesDropsEvents(r) ==
    /\ hermes[r].seen < hermes[r].asks
    /\ \A p \in Readers : ~(At(p, "read") /\ RunOf(p) = r)
    /\ hermes' = [hermes EXCEPT ![r].seen = hermes[r].asks]
    /\ HermesOnly

HermesSteps(r) == HermesAsks(r) \/ HermesEnds(r) \/ HermesStops(r) \/ HermesDropsEvents(r)

-----------------------------------------------------------------------------
(* The process dies and starts again: only the database and Hermes remain. *)
(* Requests in flight are lost with it.                                    *)

AfterCrash(p) ==
    IF p = Boot THEN Listing
    ELSE IF p \in Readers \/ At(p, "idle") THEN Idle
    ELSE Finished

Crash ==
    /\ crashes < MaxCrashes
    /\ crashes' = crashes + 1
    /\ proc' = [p \in Procs |-> AfterCrash(p)]
    /\ todo' = {}
    /\ activeRuns' = [r \in Runs |-> NoReader]
    /\ mutationLease' = NoLease
    /\ runReservations' = 0
    /\ UNCHANGED <<storeVars, hermes, cancelAsked>>

-----------------------------------------------------------------------------

ConsoleStep ==
    \/ \E r \in Runs : Creation(r)
    \/ \E p \in Readers : Reading(p)
    \/ \E p \in Procs : Closing(p)
    \/ \E c \in Cancels, r \in Runs : RequestCancel(c, r)
    \/ \E c \in Cancellers : Cancelling(c)
    \/ Reconciliation
    \/ \E m \in Mutators : AcquireMutation(m) \/ ReleaseMutation(m)

\* What happens while the process stays up.
Running == ConsoleStep \/ \E r \in Runs : HermesSteps(r)

Next == Running \/ Crash

Spec == Init /\ [][Next]_vars

(***************************************************************************)
(* Fairness.  An await of the process that can resume does so: the event   *)
(* loop is fair, the database answers, a call to Hermes returns or fails,  *)
(* and the stream of a run sends an event, ends or breaks.  Nothing        *)
(* obliges a user to act, Hermes to raise a demand, nor the process to die.*)
(***************************************************************************)
Fairness ==
    /\ \A r \in Runs : WF_vars(~At(r, "idle") /\ Creation(r))
    /\ \A p \in Readers : WF_vars(Reading(p))
    /\ \A p \in Procs : WF_vars(Closing(p))
    /\ \A c \in Cancellers : WF_vars(Cancelling(c))
    /\ WF_vars(Reconciliation)
    /\ \A m \in Mutators : WF_vars(ReleaseMutation(m))

FairSpec == Spec /\ Fairness

-----------------------------------------------------------------------------
(* The guard of the runtime, as RuntimeExclusion states it *)

Holders  == {r \in Runs : proc[r].pc \in {"reserved", "prepared", "discarding"}}
Followed == {r \in Runs : activeRuns[r] # NoReader}

Exclusion == INSTANCE RuntimeExclusion WITH holders <- Holders, followed <- Followed

\* Every step of the runs keeps the promise of the guard: reservations, readers
\* and long operations take, hand over and give back as RuntimeExclusion allows.
ImplementsExclusion == Exclusion!ExclusionSpec

-----------------------------------------------------------------------------
(* Properties *)

\* A fresh reader, and any reader nobody aborted, is the one activeRuns gives for
\* its run.  cancelActiveRun, the refusal of a second reader and the exclusion with
\* the runtime all rest on it: the `finally` of one reader must not erase the
\* registration of another.
ReaderIsRegistered ==
    \A p \in Readers :
        ~At(p, "idle") /\ (Fresh(p) \/ ~Aborted(p)) => activeRuns[RunOf(p)] = p

\* An entry of activeRuns is a reader at work on that run.
RegistrationIsAlive ==
    \A r \in Runs : activeRuns[r] # NoReader =>
        ~At(activeRuns[r], "idle") /\ RunOf(activeRuns[r]) = r

\* A run the Console reports as completed has completed in Hermes: no race of
\* the stream, the 404 polling and the reconciliation invents a success.
CompletedIsGenuine ==
    \A r \in Runs : run[r].status = "completed" => hermes[r].state = "completed"

\* A run is cancelled only when somebody asked for it.
CancelIsAsked ==
    \A r \in Runs : run[r].status = "cancelled" => r \in cancelAsked

\* Somebody may still move the run: its request, a reader, a cancellation, or
\* the reconciliation that the current boot has not finished.
Attended(r) ==
    \/ \E p \in Procs : RunOf(p) = r
    \/ ~At(Boot, "finished")

\* A run that is neither over nor waiting for a human is attended: it is never
\* left `running` with nobody to close it (the contract that reconciler.ts and
\* runner.ts quote as "paragraph 29").  A run whose cancellation was asked for is
\* set apart: runner.ts may lose it between two events of its stream.
NoStrandedRun ==
    \A r \in Runs :
        run[r].status \in {"pending", "starting", "running"} /\ r \notin cancelAsked => Attended(r)

\* A run that was cancelled or closed between the creation of its row and the
\* refusal of one of its input files is not deleted by that refusal.
ClosedRunIsKept ==
    [][\A r \in Runs : IsTerminal(r) => run'[r].status # "absent"]_vars

\* A run that waits for a human has a request he can answer: the request is in the
\* table before the status says so, whatever cancellation, resumption or crash
\* came between the two.
AwaitingHasItsRequest ==
    \A r \in Runs :
        run[r].status = "awaiting_approval" => \E k \in Asks : approval[r][k].state = "pending"

\* The statuses that tell of a human, what he must do or has asked for, are true.
StatusesAreWarranted == AwaitingHasItsRequest /\ CancelIsAsked

\* Every run ends, or waits for a human, across crashes of the process, unless its
\* cancellation was asked for.
EveryRunSettles ==
    \A r \in Runs :
        Exists(r) ~> (\/ ~Exists(r) \/ IsTerminal(r) \/ run[r].status = "awaiting_approval"
                      \/ r \in cancelAsked)
=============================================================================
