---------------------------- MODULE ApprovalRelay ----------------------------
(***************************************************************************)
(* The relay of a human decision to Hermes (respondRunApproval), on top of *)
(* the life of runs of RunExecution.                                       *)
(*                                                                         *)
(* A demand of Hermes is answered through POST /v1/runs/:id/approval, which*)
(* does not name the demand: the Console alone makes sure that a decision  *)
(* taken on request k reaches demand k.  It claims the run (a compare-and- *)
(* set of runs.approval_claim_id), then the request, writes an audit       *)
(* intent, calls Hermes, resolves the request, writes the audit outcome,   *)
(* clears the claim of the run and listens to Hermes again.  Each of these *)
(* is an await, between which readers, other approvers and crashes come.   *)
(*                                                                         *)
(* The claims of RunStore are the approvers themselves: claimRunApproval   *)
(* draws a new UUID for each call, and each approver calls it once.        *)
(***************************************************************************)
EXTENDS RunExecution

CONSTANT Approvers      \* bound: calls of respondRunApproval, each used once

ASSUME ApprovalRelayAssumption == Claims = Approvers

VARIABLES
    approver,   \* the calls of respondRunApproval
    decisions   \* history: the decisions Hermes accepted

relayVars == <<vars, approver, decisions>>

\* "answered": the call returned a success; "failed": it threw.
ClaimingPCs == {"request", "intent", "relay", "undo_request", "undo_run",
                "back_run", "back_request", "resolve", "audit", "finalize"}
ApproverPCs == {"idle", "claim", "resume", "answered", "failed"} \union ClaimingPCs

Approver == [pc : ApproverPCs, run : Runs \union {"none"}, request : Asks \union {0},
             choice : Choices \union {"none"}]

IdleApprover == [pc |-> "idle", run |-> "none", request |-> 0, choice |-> "none"]

Decision == [run : Runs, demand : Asks, request : Asks, choice : Choices, by : Approvers]

RelayTypeOK ==
    /\ TypeOK
    /\ approver \in [Approvers -> Approver]
    /\ decisions \subseteq Decision

RelayInit ==
    /\ Init
    /\ approver = [a \in Approvers |-> IdleApprover]
    /\ decisions = {}

-----------------------------------------------------------------------------

Is(a, pc)    == approver[a].pc = pc
Moves(a, pc) == approver' = [approver EXCEPT ![a].pc = pc]
Target(a)    == approver[a].run
Asked(a)     == approver[a].request

\* A step of an approver that leaves the process and Hermes alone.
Quiet == UNCHANGED <<processVars, hermes, crashes, cancelAsked, decisions>>

\* A user answers a request he was shown, perhaps long ago; the lookup of the
\* run wants it to await an authorisation.  The durable choices are refused.
Lookup(a) ==
    /\ Is(a, "idle")
    /\ \E r \in Runs, k \in Asks, choice \in Choices :
        /\ approval[r][k].state # "none"
        /\ run[r].status = "awaiting_approval"
        /\ run[r].submitted
        /\ approver' = [approver EXCEPT ![a] =
               [pc |-> "claim", run |-> r, request |-> k, choice |-> choice]]
    /\ UNCHANGED storeVars /\ Quiet

ClaimRun(a) ==
    /\ Is(a, "claim")
    /\ ClaimRunApproval(Target(a), a)
    /\ Moves(a, IF run'[Target(a)].claim = a THEN "request" ELSE "failed")
    /\ UNCHANGED approval /\ Quiet

ClaimRequest(a) ==
    LET r == Target(a)  k == Asked(a) IN
    /\ Is(a, "request")
    /\ \E late \in BOOLEAN :
        /\ approval' = [approval EXCEPT ![r][k] = ClaimedRequest(r, k, late)]
        /\ Moves(a, IF ClaimSucceeds(r, k, late) THEN "intent" ELSE "undo_run")
    /\ UNCHANGED run /\ Quiet

\* The audit intent; when it cannot be written nothing is sent to Hermes.
WriteIntent(a) ==
    /\ Is(a, "intent")
    /\ \/ Moves(a, "relay")
       \/ Moves(a, "undo_request")
    /\ UNCHANGED storeVars /\ Quiet

UndoRequest(a) ==
    LET r == Target(a)  k == Asked(a) IN
    /\ Is(a, "undo_request")
    /\ approval' = [approval EXCEPT ![r][k] = ReleasedRequest(r, k)]
    /\ Moves(a, IF approval[r][k].state = "claimed" THEN "undo_run" ELSE "failed")
    /\ UNCHANGED run /\ Quiet

UndoRun(a) ==
    /\ Is(a, "undo_run")
    /\ ReleaseRunApprovalClaim(Target(a), a)
    /\ Moves(a, "failed")
    /\ UNCHANGED approval /\ Quiet

\* Mutants: the claims are released whatever the error; a lost answer is a success.
AlwaysReleases(definitive) == "back_run"
TakesSilenceForYes(definitive) == IF definitive THEN "back_run" ELSE "resolve"

\* Whether the claims are released when the relay throws (canReleaseApprovalClaim):
\* after a 4xx of Hermes, or when it was not called at all, but not otherwise.
AfterRelayError(definitive) == IF definitive THEN "back_run" ELSE "failed"

\* Hermes takes the decision for the demand it waits on; its answer may be lost.
RelayAccepted(a) ==
    LET r == Target(a) IN
    /\ Is(a, "relay")
    /\ hermes[r].state = "waiting"
    /\ hermes' = [hermes EXCEPT ![r].state = "running"]
    /\ decisions' = decisions \union
           {[run |-> r, demand |-> hermes[r].asks, request |-> Asked(a),
             choice |-> approver[a].choice, by |-> a]}
    /\ \/ Moves(a, "resolve")
       \/ Moves(a, AfterRelayError(FALSE))
    /\ UNCHANGED <<storeVars, processVars, crashes, cancelAsked>>

\* No effect in Hermes: runtime or policy failure, 4xx, 5xx or a lost request.
RelayFailed(a) ==
    /\ Is(a, "relay")
    /\ \E definitive \in BOOLEAN : Moves(a, AfterRelayError(definitive))
    /\ UNCHANGED storeVars /\ Quiet

BackRun(a) ==
    /\ Is(a, "back_run")
    /\ ReleaseRunApprovalClaim(Target(a), a)
    /\ Moves(a, "back_request")
    /\ UNCHANGED approval /\ Quiet

BackRequest(a) ==
    LET r == Target(a)  k == Asked(a) IN
    /\ Is(a, "back_request")
    /\ approval' = [approval EXCEPT ![r][k] = ReleasedRequest(r, k)]
    /\ Moves(a, "failed")
    /\ UNCHANGED run /\ Quiet

\* A request that expired meanwhile, or an audit failure, keeps the run claimed.
Resolve(a) ==
    LET r == Target(a)  k == Asked(a) IN
    /\ Is(a, "resolve")
    /\ \E late \in BOOLEAN :
        /\ approval' = [approval EXCEPT ![r][k] =
                           ResolvedRequest(r, k, approver[a].choice, late)]
        /\ Moves(a, IF ResolveSucceeds(r, k, late) THEN "audit" ELSE "failed")
    /\ UNCHANGED run /\ Quiet

WriteOutcome(a) ==
    /\ Is(a, "audit")
    /\ \/ Moves(a, "finalize")
       \/ Moves(a, "failed")
    /\ UNCHANGED storeVars /\ Quiet

Finalize(a) ==
    /\ Is(a, "finalize")
    /\ FinalizeRunApprovalClaim(Target(a), a)
    /\ Moves(a, "resume")
    /\ UNCHANGED approval /\ Quiet

FollowedAfresh(r) == activeRuns[r] # NoReader /\ Fresh(activeRuns[r])

\* resumeAgentRun(force = isRunReconciled(run)): a reader the reconciliation or an
\* earlier answer started is replaced, a fresh one is left, a missing one is
\* launched.  While the runtime is being changed it throws.
Resume(a) ==
    LET r == Target(a)  old == activeRuns[r] IN
    /\ Is(a, "resume")
    /\ \/ /\ mutationLease # NoLease
          /\ Moves(a, "failed")
          /\ UNCHANGED <<proc, activeRuns>>
       \/ /\ mutationLease = NoLease /\ FollowedAfresh(r)
          /\ Moves(a, "answered")
          /\ UNCHANGED <<proc, activeRuns>>
       \/ /\ mutationLease = NoLease /\ ~FollowedAfresh(r)
          /\ Moves(a, "answered")
          /\ \E p \in Readers :
              /\ At(p, "idle")
              /\ activeRuns' = [activeRuns EXCEPT ![r] = p]
              /\ proc' = [q \in Procs |->
                   CASE q = p -> Reader(r, "reconciled")
                     [] q = old /\ q # p ->
                          [proc[q] EXCEPT !.aborted = IF @ = "no" THEN "reconnect" ELSE @]
                     [] OTHER -> proc[q]]
    /\ UNCHANGED <<storeVars, todo, mutationLease, runReservations, hermes, crashes,
                   cancelAsked, decisions>>

Relaying(a) ==
    \/ Lookup(a) \/ ClaimRun(a) \/ ClaimRequest(a) \/ WriteIntent(a)
    \/ UndoRequest(a) \/ UndoRun(a) \/ RelayAccepted(a) \/ RelayFailed(a)
    \/ BackRun(a) \/ BackRequest(a) \/ Resolve(a) \/ WriteOutcome(a)
    \/ Finalize(a) \/ Resume(a)

\* A crash loses the calls in flight: the client gets no answer.
CrashRelay ==
    /\ Crash
    /\ approver' = [a \in Approvers |->
                       IF Is(a, "idle") THEN IdleApprover
                       ELSE [approver[a] EXCEPT !.pc = IF @ = "answered" THEN @ ELSE "failed"]]
    /\ UNCHANGED decisions

RelayNext ==
    \/ Running /\ UNCHANGED <<approver, decisions>>
    \/ \E a \in Approvers : Relaying(a)
    \/ CrashRelay

RelaySpec == RelayInit /\ [][RelayNext]_relayVars

-----------------------------------------------------------------------------
(* Properties *)

\* A run is in the hands of one decision at a time, from the claim of the run to
\* its release or its finalisation: the compare-and-set of claimRunApproval holds
\* against approvers that all saw `awaiting_approval`.
ClaimIsExclusive ==
    \A a, b \in Approvers :
        /\ a # b /\ Target(a) = Target(b)
        /\ approver[a].pc \in ClaimingPCs \ {"back_request"}
        => approver[b].pc \notin ClaimingPCs \ {"back_request"}

\* A decision taken on a request reaches the demand this request stands for, and
\* no other one, although the call to Hermes names only the run.
DecisionReachesItsDemand == \A d \in decisions : d.demand = d.request

\* A request carries one decision to Hermes at most (G1-004B: "une seconde requete
\* ne peut donc pas relayer une deuxieme decision").
OneDecisionPerRequest ==
    \A d, e \in decisions : d.run = e.run /\ d.request = e.request => d = e

\* What the Console records as resolved is what Hermes was told.
ResolvedAsDecided ==
    \A r \in Runs, k \in Asks :
        approval[r][k].state = "resolved" =>
            \E d \in decisions :
                d.run = r /\ d.request = k /\ d.choice = approval[r][k].outcome
=============================================================================
