------------------------------ MODULE GuidedTask ------------------------------
(***************************************************************************)
(* A guided task: its revisions, the decisions people take on them, and    *)
(* the attempts that execute the current revision in a sandbox.            *)
(*                                                                         *)
(* A revision, a decision and the creation of an attempt each lock the     *)
(* row of the task; the approvals a launch needs are read before that      *)
(* lock, the date of a decision is taken before it, and the execution      *)
(* writes the rows without it.  A request whose key has already been       *)
(* served changes nothing and is left out, except for launches, whose key  *)
(* is checked outside the transaction.                                     *)
(***************************************************************************)
EXTENDS Integers, Sequences, FiniteSets

CONSTANTS
    Keys,         \* the idempotency keys of the launches
    MaxRevisions, MaxDecisions, MaxAttempts, MaxFaults \* bounds

\* A task is created with its first revision.
ASSUME GuidedAssumption ==
    /\ {MaxRevisions, MaxDecisions, MaxAttempts, MaxFaults} \subseteq Nat
    /\ MaxRevisions # 0

VARIABLES
    task,       \* the row of the task: its status, its current revision
    revisions,  \* its revisions, by number
    decisions,  \* its decisions, by number; "at" is the date of the row
    attempts,   \* its attempts, by number
    executor,   \* where the process is with an attempt
    asked,      \* the dates of the technical and tool decisions in flight
    launch,     \* by key, the launch in flight: the revision whose approvals it has read
    clock, faults

guidedVars ==
    <<task, revisions, decisions, attempts, executor, asked, launch, clock, faults>>

Active == {"pending", "running", "awaiting_functional_validation"}

Attempt == [revision : 1 .. MaxRevisions, key : Keys,
            status : Active \union {"completed", "failed"},
            testsPassed : BOOLEAN, evidenceComplete : BOOLEAN,
            proofs : SUBSET {"hermes_output", "tests_passed", "tests_failed", "refusal"}]

Executing == {"worktree", "hermes", "finish"}

GuidedTypeOK ==
    /\ task \in [status : {"draft", "ready", "running", "awaiting_validation", "completed", "failed"},
                 current : 1 .. MaxRevisions]
    /\ revisions \in Seq([state : {"draft", "validated"}, technical : BOOLEAN])
    /\ decisions \in Seq([revision : 1 .. MaxRevisions, attempt : 0 .. MaxAttempts, at : 0 .. MaxDecisions,
                          kind : {"plan", "technical", "tool", "functional"},
                          outcome : {"approved", "rejected"}])
    /\ attempts \in Seq(Attempt)
    /\ executor \in [1 .. MaxAttempts -> Executing \union {"none", "failing", "cleanup", "uncleaned", "done"}]
    /\ asked \subseteq 1 .. MaxDecisions
    /\ launch \in [Keys -> 0 .. MaxRevisions]
    /\ clock \in 0 .. MaxDecisions /\ faults \in 0 .. MaxFaults

\* What a draft requires is never read.
Draft == [state |-> "draft", technical |-> FALSE]

\* createGuidedTask: the task and its first revision, a draft.
GuidedInit ==
    /\ task = [status |-> "draft", current |-> 1]
    /\ revisions = <<Draft>>
    /\ decisions = <<>> /\ attempts = <<>>
    /\ executor = [a \in 1 .. MaxAttempts |-> "none"]
    /\ asked = {} /\ launch = [k \in Keys |-> 0]
    /\ clock = 0 /\ faults = 0

-----------------------------------------------------------------------------
(* The revisions *)

\* The date of a plan or functional decision is never compared with another.
PlanApproved(revision) ==
    [revision |-> revision, attempt |-> 0, at |-> 0, kind |-> "plan", outcome |-> "approved"]

\* The new revision is current whatever the attempts are doing.
Revises(revision, status) ==
    /\ Len(revisions) < MaxRevisions
    /\ revisions' = Append(revisions, revision)
    /\ task' = [status |-> status, current |-> Len(revisions) + 1]
    /\ UNCHANGED <<attempts, executor, asked, launch, clock, faults>>

createGuidedTaskRevision ==
    \/ Revises(Draft, "draft") /\ UNCHANGED decisions
    \/ /\ \E technical \in BOOLEAN : Revises([state |-> "validated", technical |-> technical], "ready")
       /\ decisions' = Append(decisions, PlanApproved(Len(revisions) + 1))

-----------------------------------------------------------------------------
(* The decisions *)

\* The date is taken when the request arrives, the lock later.
AskDecision ==
    /\ clock < MaxDecisions
    /\ clock' = clock + 1 /\ asked' = asked \union {clock'}
    /\ UNCHANGED <<task, revisions, decisions, attempts, executor, launch, faults>>

Decided(at, attempt, kind, outcome) ==
    /\ revisions[task.current].state = "validated"
    /\ decisions' = Append(decisions, [revision |-> task.current, attempt |-> attempt, at |-> at,
                                       kind |-> kind, outcome |-> outcome])
    /\ UNCHANGED <<revisions, executor, launch, clock, faults>>

\* Technical and tool decisions are about the current, validated revision.
DecideRevision(at) ==
    /\ at \in asked /\ asked' = asked \ {at}
    /\ \E kind \in {"technical", "tool"}, outcome \in {"approved", "rejected"} :
        /\ kind = "technical" => revisions[task.current].technical
        /\ Decided(at, 0, kind, outcome)
    /\ UNCHANGED <<task, attempts>>

\* Mutant: an attempt that was decided may be decided again.
AwaitsDecisionOfRevision(a) == attempts[a].revision = task.current

AwaitsDecision(a) ==
    /\ attempts[a].revision = task.current
    /\ attempts[a].status = "awaiting_functional_validation"

Acceptable(a) == attempts[a].evidenceComplete /\ attempts[a].testsPassed

\* A functional decision closes the attempt and the task.
DecideAttempt ==
    \E a \in DOMAIN attempts, outcome \in {"approved", "rejected"} :
        /\ AwaitsDecision(a) /\ (outcome = "approved" => Acceptable(a))
        /\ Decided(0, a, "functional", outcome)
        /\ attempts' = [attempts EXCEPT ![a].status = IF outcome = "approved" THEN "completed" ELSE "failed"]
        /\ task' = [task EXCEPT !.status = IF outcome = "approved" THEN "completed" ELSE "ready"]
        /\ UNCHANGED asked

-----------------------------------------------------------------------------
(* The launch of an attempt *)

\* The last decision of a kind, by date.
Latest(revision, kind) ==
    LET of == {i \in DOMAIN decisions : decisions[i].revision = revision /\ decisions[i].kind = kind}
    IN  {i \in of : \A j \in of : decisions[j].at < decisions[i].at \/ i = j}

ApprovedBefore(revision, kind) ==
    \E i \in DOMAIN decisions : decisions[i].kind = kind /\ decisions[i].outcome = "approved"

Approved(revision, kind) == \E i \in Latest(revision, kind) : decisions[i].outcome = "approved"

assertGuidedAttemptCanStart(revision) ==
    /\ revisions[revision].state = "validated"
    /\ Approved(revision, "plan") /\ Approved(revision, "tool")
    /\ revisions[revision].technical => Approved(revision, "technical")

KeyNotActive(k) == \A a \in DOMAIN attempts : attempts[a].key = k => attempts[a].status \notin Active

KeyUnused(k) == \A a \in DOMAIN attempts : attempts[a].key # k

\* The approvals are read, and the key is looked up, outside the transaction.
loadAttemptSnapshot(k) ==
    /\ launch[k] = 0 /\ KeyUnused(k)
    /\ assertGuidedAttemptCanStart(task.current)
    /\ launch' = [launch EXCEPT ![k] = task.current]
    /\ UNCHANGED <<task, revisions, decisions, attempts, executor, asked, clock, faults>>

NoneRunning == \A a \in DOMAIN attempts : attempts[a].status # "running"

NoneActive == \A a \in DOMAIN attempts : attempts[a].status \notin Active

\* The transaction locks the task; the index on the keys refuses a second
\* attempt for the same key.  A launch may have been sent twice: a copy stays
\* in flight until it is refused.
createGuidedDeliveryAttempt(k) ==
    LET a == Len(attempts) + 1 IN
    /\ launch[k] # 0 /\ launch[k] = task.current
    /\ NoneActive /\ KeyUnused(k) /\ a <= MaxAttempts
    /\ attempts' = Append(attempts, [revision |-> launch[k], key |-> k, status |-> "pending",
                                     testsPassed |-> FALSE, evidenceComplete |-> FALSE, proofs |-> {}])
    /\ task' = [task EXCEPT !.status = "running"]
    /\ executor' = [executor EXCEPT ![a] = "worktree"]
    /\ UNCHANGED <<revisions, decisions, asked, launch, clock, faults>>

RefuseLaunch(k) ==
    /\ launch[k] # 0
    /\ launch[k] # task.current \/ ~NoneActive \/ ~KeyUnused(k)
    /\ launch' = [launch EXCEPT ![k] = 0]
    /\ UNCHANGED <<task, revisions, decisions, attempts, executor, asked, clock, faults>>

-----------------------------------------------------------------------------
(* The execution of an attempt *)

Goes(a, from, to) == executor[a] = from /\ executor' = [executor EXCEPT ![a] = to]

KeepsRequests == UNCHANGED <<revisions, decisions, asked, launch, clock>>

\* createGuidedWorktree: the branch and the worktree of the attempt.
PrepareSandbox(a) ==
    /\ Goes(a, "worktree", "hermes")
    /\ attempts' = [attempts EXCEPT ![a].status = "running"]
    /\ KeepsRequests /\ UNCHANGED <<task, faults>>

\* The output of Hermes is stored, then the git proofs with the result of the
\* configured tests.
RunHermes(a) ==
    /\ Goes(a, "hermes", "finish")
    /\ \E result \in {"tests_passed", "tests_failed"} :
        attempts' = [attempts EXCEPT ![a].proofs = {"hermes_output", result}]
    /\ KeepsRequests /\ UNCHANGED <<task, faults>>

Tested(a) == {"tests_passed", "tests_failed"} \intersect attempts[a].proofs # {}

Passed(a) == "tests_passed" \in attempts[a].proofs

\* The attempt is offered for validation before its sandbox is cleaned up.
FinishAttempt(a) ==
    /\ Goes(a, "finish", "cleanup")
    /\ attempts' = [attempts EXCEPT ![a].status = IF Passed(a) THEN "awaiting_functional_validation" ELSE "failed",
                                    ![a].testsPassed = Passed(a), ![a].evidenceComplete = Passed(a)]
    /\ task' = [task EXCEPT !.status = IF Passed(a) THEN "awaiting_validation" ELSE "failed"]
    /\ KeepsRequests /\ UNCHANGED faults

\* A command, a time limit or a write has failed.
FailExecution(a) ==
    /\ \E from \in Executing : Goes(a, from, "failing")
    /\ KeepsRequests /\ UNCHANGED <<task, attempts, faults>>

RefuseAttemptOnly(a) ==
    /\ Goes(a, "failing", "cleanup")
    /\ attempts' = [attempts EXCEPT ![a].status = "failed", ![a].testsPassed = FALSE,
                                    ![a].evidenceComplete = FALSE, ![a].proofs = @ \union {"refusal"}]
    /\ KeepsRequests /\ UNCHANGED <<task, faults>>

RefuseAttempt(a) ==
    /\ Goes(a, "failing", "cleanup")
    /\ attempts' = [attempts EXCEPT ![a].status = "failed", ![a].testsPassed = FALSE,
                                    ![a].evidenceComplete = FALSE, ![a].proofs = @ \union {"refusal"}]
    /\ task' = [task EXCEPT !.status = "failed"]
    /\ KeepsRequests /\ UNCHANGED faults

\* The database is away: the refusal is not recorded, the cleanup follows.
LoseRefusal(a) ==
    /\ faults < MaxFaults /\ faults' = faults + 1
    /\ Goes(a, "failing", "cleanup")
    /\ KeepsRequests /\ UNCHANGED <<task, attempts>>

CleanUp(a) ==
    /\ Goes(a, "cleanup", "done")
    /\ KeepsRequests /\ UNCHANGED <<task, attempts, faults>>

\* The attempt fails, even one that has been accepted meanwhile; then the task.
FailCleanup(a) ==
    /\ Goes(a, "cleanup", "uncleaned")
    /\ attempts' = [attempts EXCEPT ![a].status = "failed", ![a].evidenceComplete = FALSE]
    /\ KeepsRequests /\ UNCHANGED <<task, faults>>

CloseUncleaned(a) ==
    /\ Goes(a, "uncleaned", "done")
    /\ task' = [task EXCEPT !.status = "failed"]
    /\ KeepsRequests /\ UNCHANGED <<attempts, faults>>

Execute(a) ==
    \/ PrepareSandbox(a) \/ RunHermes(a) \/ FinishAttempt(a) \/ FailExecution(a)
    \/ RefuseAttempt(a) \/ CleanUp(a) \/ FailCleanup(a) \/ CloseUncleaned(a)

\* The process stops during an execution: no start resumes an attempt.  (A
\* crash that interrupts none only loses requests.)
CrashGuided ==
    /\ \E a \in 1 .. MaxAttempts : executor[a] \notin {"none", "done"}
    /\ faults < MaxFaults /\ faults' = faults + 1
    /\ executor' = [a \in 1 .. MaxAttempts |-> IF executor[a] = "none" THEN "none" ELSE "done"]
    /\ asked' = {} /\ launch' = [k \in Keys |-> 0]
    /\ UNCHANGED <<task, revisions, decisions, attempts, clock>>

GuidedNext ==
    \/ createGuidedTaskRevision \/ DecideAttempt \/ AskDecision
    \/ \E at \in 1 .. MaxDecisions : DecideRevision(at)
    \/ \E k \in Keys : loadAttemptSnapshot(k) \/ createGuidedDeliveryAttempt(k) \/ RefuseLaunch(k)
    \/ \E a \in 1 .. MaxAttempts : Execute(a) \/ LoseRefusal(a)
    \/ CrashGuided

GuidedSpec == GuidedInit /\ [][GuidedNext]_guidedVars
-----------------------------------------------------------------------------
(* Properties *)

\* Launches that read the same approvals, or carry the same key, never have
\* two attempts of a task active at once.
OneActiveAttempt ==
    \A a, b \in DOMAIN attempts :
        attempts[a].status \in Active /\ attempts[b].status \in Active => a = b

\* Two executions of a task never work in their sandboxes at the same time,
\* though one that is over may still be cleaning up.
OneExecution == Cardinality({a \in 1 .. MaxAttempts : executor[a] \in Executing}) <= 1

\* A launch that is sent again runs once, even when both copies have read the
\* approvals before either has inserted, or the first has failed meanwhile.
KeyRunsOnce ==
    \A a, b \in DOMAIN attempts : attempts[a].key = attempts[b].key => a = b

\* What an attempt was executed for had its plan, its tools and, where the
\* revision asks for it, its technique approved by somebody.
LaunchedWithApprovals ==
    \A a \in DOMAIN attempts :
        LET revision == attempts[a].revision
            Some(kind) == \E i \in DOMAIN decisions : /\ decisions[i].revision = revision
                                                     /\ decisions[i].kind = kind
                                                     /\ decisions[i].outcome = "approved"
        IN  /\ Some("plan") /\ Some("tool")
            /\ revisions[revision].technical => Some("technical")

\* A completed attempt has its output and its passed tests stored, and was
\* approved by a functional decision about the revision it executed.
CompletedIsProven ==
    \A a \in DOMAIN attempts : attempts[a].status = "completed" =>
        /\ {"hermes_output", "tests_passed"} \subseteq attempts[a].proofs
        /\ "refusal" \notin attempts[a].proofs
        /\ attempts[a].testsPassed /\ attempts[a].evidenceComplete
        /\ \E i \in DOMAIN decisions :
              /\ decisions[i].kind = "functional" /\ decisions[i].attempt = a
              /\ decisions[i].outcome = "approved" /\ decisions[i].revision = attempts[a].revision

\* What was executed, and what is recorded as done, had the approvals it needs.
AttemptsAreWarranted == LaunchedWithApprovals /\ CompletedIsProven

\* An attempt is decided at most once, whatever the requests and the cleanup.
DecidedOnce ==
    \A i, j \in DOMAIN decisions :
        decisions[i].attempt # 0 /\ decisions[i].attempt = decisions[j].attempt => i = j

\* The guards that hold a task to one active attempt, one execution in its sandbox,
\* one run per key and one decision per attempt, with the types.
GuidedInvariant == GuidedTypeOK /\ OneActiveAttempt /\ OneExecution /\ KeyRunsOnce /\ DecidedOnce

\* The status of the task, written in other statements than that of the
\* attempts and by other actors, is accounted for by an attempt.
StatusFollowsAttempts ==
    LET Some(S) == \E a \in DOMAIN attempts : attempts[a].status \in S
        Uncleaned == faults > 0 \/ \E a \in DOMAIN attempts : executor[a] = "uncleaned"
    IN  /\ task.status = "running" => Some({"pending", "running"}) \/ faults > 0
        /\ task.status = "awaiting_validation" => Some({"awaiting_functional_validation"}) \/ Uncleaned
        /\ task.status = "completed" => Some({"completed"}) \/ Uncleaned
=============================================================================
