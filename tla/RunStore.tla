------------------------------ MODULE RunStore ------------------------------
(***************************************************************************)
(* The two tables of the database that carry the life of a run: `runs` and *)
(* `approval_requests`, with the statements that the repository of the     *)
(* server issues on them.  Each operator below is one SQL statement, or    *)
(* one transaction that locks its row FOR UPDATE, hence one atomic step.   *)
(* A function of the repository that reads in one statement and writes in  *)
(* a later one is two operators here: the statements of other requests can *)
(* come between them (READ COMMITTED).                                     *)
(*                                                                         *)
(* The payload of a run (prompt, output, usage, dates, error text) is left *)
(* out; an UPDATE of a row that does not exist changes nothing.            *)
(***************************************************************************)
EXTENDS Naturals

CONSTANTS
    Runs,       \* run ids
    Threads,    \* conversation ids
    ThreadOf,   \* the conversation each run belongs to
    Claims,     \* the ids claimRunApproval draws (randomUUID: never reused)
    NoClaim,    \* approval_claim_id IS NULL
    MaxAsks     \* bound: authorisation demands Hermes may raise in one run

ASSUME RunStoreAssumption ==
    /\ ThreadOf \in [Runs -> Threads]
    /\ NoClaim \notin Claims
    /\ MaxAsks \in Nat

VARIABLES
    run,        \* runs: status, hermes_response_id IS NOT NULL, approval_claim_id
    approval    \* approval_requests: one request per demand of a run

storeVars == <<run, approval>>

Asks == 1..MaxAsks

ActiveStatuses   == {"pending", "starting", "running", "awaiting_approval"}
TerminalStatuses == {"completed", "failed", "cancelled"}

\* "absent": the row is not (or no longer) in the table.
Statuses == {"absent"} \union ActiveStatuses \union TerminalStatuses

Rows == [status : Statuses, submitted : BOOLEAN, claim : Claims \union {NoClaim}]

Absent  == [status |-> "absent", submitted |-> FALSE, claim |-> NoClaim]
Pending == [status |-> "pending", submitted |-> FALSE, claim |-> NoClaim]

RequestStates == {"none", "pending", "claimed", "resolved", "expired"}
Choices       == {"once", "deny"}
Requests      == [state : RequestStates, outcome : Choices \union {"none"}]

Request(state) == [state |-> state, outcome |-> "none"]

StoreTypeOK ==
    /\ run \in [Runs -> Rows]
    /\ approval \in [Runs -> [Asks -> Requests]]

StoreInit ==
    /\ run = [r \in Runs |-> Absent]
    /\ approval = [r \in Runs |-> [k \in Asks |-> Request("none")]]

-----------------------------------------------------------------------------
(* runs *)

IsTerminal(r) == run[r].status \in TerminalStatuses
IsActive(r)   == run[r].status \in ActiveStatuses
Exists(r)     == run[r].status # "absent"

\* The test createRunForThread makes while it holds the row of the thread.
ThreadIsBusy(t) == \E r \in Runs : ThreadOf[r] = t /\ IsActive(r)

\* UPDATE runs SET ... WHERE id = r AND cond
Update(r, cond, row) ==
    run' = IF Exists(r) /\ cond THEN [run EXCEPT ![r] = row] ELSE run

SetStatus(r, status) == Update(r, TRUE, [run[r] EXCEPT !.status = status])

InsertRun(r) ==
    /\ ~Exists(r)
    /\ ~ThreadIsBusy(ThreadOf[r])
    /\ run' = [run EXCEPT ![r] = Pending]

\* Mutant: the DELETE does not repeat the test of the status.
DeleteWhatWasPending(r) == run' = [run EXCEPT ![r] = Absent]

DeletePendingRun(r) ==
    run' = IF run[r].status = "pending" THEN [run EXCEPT ![r] = Absent] ELSE run

\* Three updates that test nothing.
MarkRunStarting(r)     == SetStatus(r, "starting")
MarkRunStarted(r)      == SetStatus(r, "running")
SetHermesResponseId(r) == Update(r, TRUE, [run[r] EXCEPT !.submitted = TRUE])

\* The write that markRunAwaitingApproval issues after its read of the status.
WriteAwaitingApproval(r) == SetStatus(r, "awaiting_approval")

\* The write that completeRun and failRun issue after their read of the status.
WriteClosed(r, outcome) == SetStatus(r, outcome)

ClaimRunApproval(r, c) ==
    Update(r, run[r].status = "awaiting_approval" /\ run[r].claim = NoClaim,
           [run[r] EXCEPT !.status = "running", !.claim = c])

OwnsClaim(r, c) == run[r].status = "running" /\ run[r].claim = c

ReleaseRunApprovalClaim(r, c) ==
    Update(r, OwnsClaim(r, c),
           [run[r] EXCEPT !.status = "awaiting_approval", !.claim = NoClaim])

FinalizeRunApprovalClaim(r, c) ==
    Update(r, OwnsClaim(r, c), [run[r] EXCEPT !.claim = NoClaim])

-----------------------------------------------------------------------------
(* approval_requests.  `late` stands for expiresAt <= now. *)

SetRequest(r, k, state) == approval' = [approval EXCEPT ![r][k] = Request(state)]

CanPersistApprovalRequest(r, k) ==
    Exists(r) /\ run[r].submitted /\ approval[r][k].state = "none"

PersistApprovalRequest(r, k) == SetRequest(r, k, "pending")

\* Whether claiming or resolving expires the request instead (expireLocked).
Expires(r, k, late) ==
    \/ approval[r][k].state = "expired"
    \/ late /\ approval[r][k].state \in {"pending", "claimed"}

\* Mutant: a request already answered may be claimed again.
ClaimsAgain(r, k, late) == ~late

ClaimSucceeds(r, k, late) == approval[r][k].state = "pending" /\ ~late

\* claimApprovalRequestForScope: what the transaction leaves in the row.
ClaimedRequest(r, k, late) ==
    IF Expires(r, k, late) THEN Request("expired")
    ELSE IF ClaimSucceeds(r, k, late) THEN Request("claimed")
    ELSE approval[r][k]

ResolveSucceeds(r, k, late) == approval[r][k].state = "claimed" /\ ~late

\* resolveApprovalRequestForScope
ResolvedRequest(r, k, choice, late) ==
    IF Expires(r, k, late) THEN Request("expired")
    ELSE IF ResolveSucceeds(r, k, late) THEN [state |-> "resolved", outcome |-> choice]
    ELSE approval[r][k]

\* releaseApprovalRequestForScope
ReleasedRequest(r, k) ==
    IF approval[r][k].state = "claimed" THEN Request("pending") ELSE approval[r][k]
=============================================================================
