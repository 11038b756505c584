------------------------------ MODULE SiteAccess ------------------------------
(***************************************************************************)
(* Who may do what on a site: the memberships and their roles, the         *)
(* mandates of outside operators, the ownership of conversations, and the  *)
(* audit ledger that every decision is written to.                         *)
(*                                                                         *)
(* A request is served under the role and the mandate read when it         *)
(* arrived.  Its decision is one READ COMMITTED transaction that takes     *)
(* locks one after the other: rows locked by SELECT FOR UPDATE ("take"),   *)
(* rows an UPDATE changes without their key ("change"), rows a foreign key *)
(* refers to ("share"), and advisory locks ("take").  It ends by locking   *)
(* the row of the site to append to its ledger, and commits.  PostgreSQL   *)
(* ends a cycle of waits by aborting one of its transactions.              *)
(*                                                                         *)
(* Roles: "auditor" stands for the two roles that may own nothing.  The    *)
(* session is left out: an operator arrives under any of its mandates.     *)
(* A run is named by the request that creates it.  Of the process's        *)
(* promises only what bears on a run's status is kept: one is to start a   *)
(* reader, one reads and writes the status, or none is left.               *)
(***************************************************************************)
EXTENDS Integers, Sequences, FiniteSets, SequencesExt

CONSTANTS
    Users, Mandates, Threads,
    Requests,    \* each is served once
    None,
    Admins, Operators, \* the members of a site that is already set up
    MaxFaults    \* bound on the crashes and on the failed cancellations

ASSUME AccessAssumption ==
    /\ Admins \subseteq Users /\ Operators \subseteq Users \ Admins
    /\ None \notin Users \union Mandates
    /\ MaxFaults \in Nat

VARIABLES
    member,     \* the role of each user on the site, or "none"
    mandate,    \* the state of each mandate
    assigned,   \* the mandates people are assigned to
    thread,     \* the owner of each conversation, None before it exists
    runs,       \* the run each request created: its conversation, author, mandate and status
    ledger,     \* the audit ledger
    request,    \* where each request is
    held,       \* the locks of the transactions
    founders,   \* the users whose first login made them administrator
    reader,     \* what the process does for each run
    orphans,    \* after a crash, the runs the boot has still to look at
    missed,     \* the runs whose cancellation failed, which is only logged
    slipped,    \* the runs a reader made active again, or that the boot left to a reader
    faults

rows == <<member, mandate, assigned, thread, runs, ledger>>
following == <<reader, orphans, missed, slipped>>
accessVars == <<rows, request, held, founders, following, faults>>

Roles == {"admin", "operator", "requester", "auditor"}
OwnerRoles == {"admin", "operator", "requester"}

Uncreated == [on |-> None, author |-> None, under |-> None, status |-> "none"]
Idle == [op |-> "none", by |-> None, role |-> "none", under |-> None, on |-> None, to |-> None,
         stage |-> "idle", step |-> 0, verdict |-> "open", targets |-> {}]

Ops == {"create", "send", "transfer", "role", "mandate", "assign", "unassign", "revoke", "deny", "login"}

Objects == {<<name>> : name \in {"site", "roles", "bootstrap", "mandates"}}
             \union {<<"mandate", m>> : m \in Mandates} \union {<<"thread", t>> : t \in Threads}
             \union {<<name, u>> : name \in {"member", "owner"}, u \in Users}

AccessTypeOK ==
    /\ member \in [Users -> Roles \union {"none"}]
    /\ mandate \in [Mandates -> {"none", "active", "revoked"}]
    /\ assigned \subseteq Mandates \X Users
    /\ thread \in [Threads -> Users \union {None}]
    /\ runs \in [Requests -> [on : Threads \union {None}, author : Users \union {None},
                              under : Mandates \union {None}, status : {"none", "active", "ended"}]]
    /\ \A i \in DOMAIN ledger :
        ledger[i] \in [by : Users, role : Roles, under : Mandates \union {None}, op : Ops]
    /\ \A r \in Requests :
        /\ request[r].stage \in {"idle", "locking", "appended", "cancelling", "done"}
        /\ request[r].verdict \in {"open", "denied", "missing", "void"}
        /\ request[r].targets \subseteq Requests
    /\ held \subseteq Requests \X Objects \X {"share", "change", "take"}
    /\ founders \subseteq Users
    /\ reader \in [Requests -> {"none", "due", "reading"}]
    /\ orphans \subseteq Requests /\ missed \subseteq Requests /\ slipped \subseteq Requests
    /\ faults \in 0 .. MaxFaults

\* A site that is set up, its first mandate in force; or one nobody has joined.
AccessInit ==
    /\ \/ /\ member = [u \in Users |-> CASE u \in Admins -> "admin"
                                         [] u \in Operators -> "operator"
                                         [] OTHER -> "requester"]
          /\ mandate \in [Mandates -> {"none", "active"}]
          /\ assigned = {m \in Mandates : mandate[m] = "active"} \X Operators
       \/ /\ member = [u \in Users |-> "none"]
          /\ mandate = [m \in Mandates |-> "none"] /\ assigned = {}
    /\ thread = [t \in Threads |-> None]
    /\ runs = [r \in Requests |-> Uncreated]
    /\ ledger = <<>>
    /\ request = [r \in Requests |-> Idle]
    /\ reader = [r \in Requests |-> "none"]
    /\ held = {} /\ founders = {} /\ orphans = {} /\ missed = {} /\ slipped = {} /\ faults = 0

Authorised(u, m) == mandate[m] = "active" /\ <<m, u>> \in assigned

-----------------------------------------------------------------------------
(* Arrival: the context of the request, and what its role lets it ask *)

\* requireSiteRequestContext: an operator acts under a mandate in force.
Contexts(u) ==
    IF member[u] = "operator" THEN {m \in Mandates : Authorised(u, m)} ELSE {None}

Permitted(role) ==
    CASE role = "admin" -> Ops \ {"deny", "login"}
      [] role = "operator" -> {"create", "send", "transfer"}
      [] role = "requester" -> {"create", "send"}
      [] OTHER -> {}

\* Identifiers are random: no two requests create the same conversation.
Fresh(t) == thread[t] = None /\ \A r \in Requests : request[r].op = "create" => request[r].on # t

Existing(t) == thread[t] # None

\* The arguments of an operation: what it is about, and the new value.
Arguments(op) ==
    CASE op = "create" -> {t \in Threads : Fresh(t)} \X {None}
      [] op = "send" -> {t \in Threads : Existing(t)} \X {None}
      [] op = "transfer" -> {t \in Threads : Existing(t)} \X Users
      [] op = "role" -> Users \X Roles
      [] op = "mandate" -> {m \in Mandates : mandate[m] = "none"} \X {None}
      [] op \in {"assign", "unassign"} -> {m \in Mandates : mandate[m] # "none"} \X Users
      [] op = "revoke" -> {m \in Mandates : mandate[m] # "none"} \X {None}
      [] OTHER -> {<<None, None>>}

Opened(op, u, role, under, args) ==
    [Idle EXCEPT !.op = op, !.by = u, !.role = role, !.under = under,
                 !.on = args[1], !.to = args[2], !.stage = "locking"]

Arrive(r) ==
    /\ request[r].stage = "idle"
    /\ \E u \in Users :
        /\ member[u] # "none"
        /\ \E under \in Contexts(u), op \in Permitted(member[u]) : \E args \in Arguments(op) :
            request' = [request EXCEPT ![r] = Opened(op, u, member[u], under, args)]
    /\ UNCHANGED <<rows, held, founders, following, faults>>

\* What the role does not permit is refused, and the refusal appended.
ArriveRefused(r) ==
    /\ request[r].stage = "idle"
    /\ \E u \in Users :
        /\ member[u] \in {"operator", "requester", "auditor"}
        /\ \E under \in Contexts(u) :
            request' = [request EXCEPT ![r] = Opened("deny", u, member[u], under, <<None, None>>)]
    /\ UNCHANGED <<rows, held, founders, following, faults>>

\* An operator without a mandate in force is refused before it has a context:
\* the entry names no mandate.
ArriveWithoutMandate(r) ==
    /\ request[r].stage = "idle"
    /\ \E u \in Users :
        /\ member[u] = "operator" /\ Contexts(u) = {}
        /\ request' = [request EXCEPT ![r] = Opened("deny", u, "operator", None, <<None, None>>)]
    /\ UNCHANGED <<rows, held, founders, following, faults>>

\* The first login of an account without a site.
ArriveUnknown(r) ==
    /\ request[r].stage = "idle"
    /\ \E u \in Users :
        /\ member[u] = "none"
        /\ request' = [request EXCEPT ![r] = Opened("login", u, "none", None, <<None, None>>)]
    /\ UNCHANGED <<rows, held, founders, following, faults>>

-----------------------------------------------------------------------------
(* The locks *)

Conflicts(mode, other) == "take" \in {mode, other} \/ (mode = "change" /\ other = "change")

\* Mutant of InsertLocks: no foreign key from the run to its mandate.
InsertUnlinked(owner, under) ==
    <<<<<<"owner", owner>>, "take">>, <<<<"site">>, "share">>, <<<<"member", owner>>, "share">>>>

\* Inserting an owned row: the trigger on its owner, then the foreign keys.
InsertLocks(owner, under) ==
    <<<<<<"owner", owner>>, "take">>, <<<<"site">>, "share">>, <<<<"member", owner>>, "share">>>>
      \o (IF under = None THEN <<>> ELSE <<<<<<"mandate", under>>, "share">>>>)

\* Mutant of RoleLocks: no trigger on a role that may own nothing.
RoleRow(u, role) ==
    IF member[u] = "none" THEN <<<<<<"site">>, "share">>>> ELSE <<<<<<"member", u>>, "change">>>>

\* Writing a role: a new row refers to the site; the trigger on a role that
\* may own nothing locks the resources of the member.
RoleLocks(u, role) ==
    IF member[u] = "none" THEN <<<<<<"site">>, "share">>>>
    ELSE <<<<<<"member", u>>, "change">>>>
           \o (IF role \in OwnerRoles THEN <<>> ELSE <<<<<<"owner", u>>, "take">>>>)

\* Mutant of TransferLocks: the conversation is read without FOR UPDATE.
TransferShares(q) ==
    <<<<<<"thread", q.on>>, "share">>, <<<<"member", q.by>>, "take">>,
      <<<<"member", q.to>>, "take">>, <<<<"owner", q.to>>, "take">>>>

TransferLocks(q) ==
    <<<<<<"thread", q.on>>, "take">>, <<<<"member", q.by>>, "take">>,
      <<<<"member", q.to>>, "take">>, <<<<"owner", q.to>>, "take">>>>

\* The locks of a transaction, in the order it takes them, before the site's.
Plan(q) ==
    CASE q.op = "create" -> InsertLocks(q.by, q.under)
      [] q.op = "send" -> <<<<<<"thread", q.on>>, "take">>>> \o InsertLocks(thread[q.on], q.under)
      [] q.op = "transfer" -> TransferLocks(q)
      [] q.op = "role" -> <<<<<<"roles">>, "take">>, <<<<"member", q.by>>, "take">>>> \o RoleLocks(q.on, q.to)
      [] q.op = "mandate" -> <<<<<<"mandates">>, "take">>, <<<<"site">>, "share">>>>
      [] q.op = "assign" -> <<<<<<"mandate", q.on>>, "take">>, <<<<"member", q.to>>, "take">>>>
      [] q.op \in {"revoke", "unassign"} -> <<<<<<"mandate", q.on>>, "take">>>>
      [] q.op = "login" -> <<<<<<"bootstrap">>, "take">>, <<<<"site">>, "share">>>>
      [] OTHER -> <<>>

Ready(q) == q.stage = "locking" /\ (q.verdict # "open" \/ q.step = Len(Plan(q)))

Audited(q) == q.op # "login" /\ q.verdict \in {"open", "denied"}

\* The lock a transaction needs for its next step, if it needs one.
Wanted(q) ==
    CASE q.stage = "locking" /\ ~Ready(q) -> {Plan(q)[q.step + 1]}
      [] Ready(q) /\ Audited(q) -> {<<<<"site">>, "take">>}
      [] OTHER -> {}

Blocks(s, r) ==
    /\ s # r
    /\ \E want \in Wanted(request[r]), lock \in held :
        lock[1] = s /\ lock[2] = want[1] /\ Conflicts(lock[3], want[2])

MayProceed(r) == \A s \in Requests : ~Blocks(s, r)

Locks(r) == {<<r, want[1], want[2]>> : want \in Wanted(request[r])}
HeldBy(r) == {lock \in held : lock[1] = r}

-----------------------------------------------------------------------------
(* What a transaction reads once it has a lock *)

Owns(u) == \E t \in Threads : thread[t] = u

OtherAdmins(u) == {v \in Users \ {u} : member[v] = "admin"}

\* The checks of setSiteMembershipRole, each refused with an entry of the ledger.
RoleRefused(q) ==
    \/ member[q.by] # "admin"
    \/ q.on = q.by
    \/ q.to = "operator" /\ member[q.on] # "operator"
    \/ member[q.on] = "admin" /\ q.to # "admin" /\ OtherAdmins(q.on) = {}
    \/ member[q.on] # "none" /\ q.to \notin OwnerRoles /\ Owns(q.on)

\* A requester sees its own conversations only.
SendRefused(q, step) ==
    q.op = "send" /\ step = 1 /\ q.role = "requester" /\ thread[q.on] # q.by

TransferRefused(q, step) ==
    \/ step = 1 /\ q.role # "admin" /\ ~(q.role = "operator" /\ thread[q.on] = q.by)
    \/ step = 2 /\ member[q.by] # q.role
    \/ step = 3 /\ member[q.to] \notin OwnerRoles

OwnerRefused(q, step) ==
    \/ q.op = "create" /\ step = 1 /\ member[q.by] \notin OwnerRoles
    \/ q.op = "send" /\ step = 2 /\ member[thread[q.on]] \notin OwnerRoles
    \/ q.op = "transfer" /\ step = 4 /\ member[q.to] \notin OwnerRoles

\* The trigger on the memberships, for a role that may own nothing.
DemotionRefused(q, step) == q.op = "role" /\ step = 4 /\ Owns(q.on)

Active(run) == runs[run].status = "active"

ActiveRefused(q, step) ==
    q.op = "send" /\ step = 1 /\ \E run \in Requests : Active(run) /\ runs[run].on = q.on

MandateRefused(q, step) ==
    \/ q.op = "revoke" /\ step = 1 /\ mandate[q.on] = "revoked"
    \/ q.op = "assign" /\ step = 1 /\ mandate[q.on] = "revoked"
    \/ q.op = "assign" /\ step = 2 /\ member[q.to] # "operator"
    \/ q.op = "unassign" /\ step = 1 /\ <<q.on, q.to>> \notin assigned

\* Mutant of LoginRefused: the memberships are not read again under the lock.
LoginNotReread(q, step) == FALSE

LoginRefused(q, step) == q.op = "login" /\ step = 1 /\ \E u \in Users : member[u] # "none"

Verdict(q, step) ==
    CASE q.op = "role" /\ step = 2 /\ RoleRefused(q) -> "denied"
      [] SendRefused(q, step) \/ (q.op = "transfer" /\ TransferRefused(q, step)) -> "missing"
      [] \/ OwnerRefused(q, step) \/ DemotionRefused(q, step) \/ ActiveRefused(q, step)
         \/ MandateRefused(q, step) \/ LoginRefused(q, step) -> "void"
      [] OTHER -> q.verdict

\* The runs a revocation will cancel, listed under the lock of the mandate.
Targets(q) ==
    {run \in Requests : /\ q.op \in {"revoke", "unassign"}
                        /\ Active(run) /\ runs[run].under = q.on
                        /\ q.op = "unassign" => runs[run].author = q.to}

Advance(q) ==
    [q EXCEPT !.step = @ + 1, !.verdict = Verdict(q, q.step + 1), !.targets = Targets(q)]

Acquire(r) ==
    /\ request[r].stage = "locking" /\ ~Ready(request[r]) /\ MayProceed(r)
    /\ held' = held \union Locks(r)
    /\ request' = [request EXCEPT ![r] = Advance(@)]
    /\ UNCHANGED <<rows, founders, following, faults>>

-----------------------------------------------------------------------------
(* The end of a transaction *)

\* Mutant of Warranted: the trigger of the first version reads the role only.
RoleWarranted(q) == member[q.by] = q.role

\* The refusal of an operator that has no mandate.
Unmandated(q) == q.op = "deny" /\ q.under = None

\* The trigger of the ledger reads the membership and the mandate of the actor.
Warranted(q) ==
    /\ member[q.by] = q.role
    /\ q.role = "operator" => Unmandated(q) \/ (q.under # None /\ Authorised(q.by, q.under))

Release(r) == held' = held \ HeldBy(r)

Ends(r, q) == request' = [request EXCEPT ![r] = q] /\ Release(r)

\* A refused change of role is recorded under the role the actor has now.
Signed(q) == IF q.verdict = "denied" THEN [q EXCEPT !.role = member[q.by]] ELSE q

AppendEntry(r) ==
    /\ Ready(request[r]) /\ Audited(request[r]) /\ MayProceed(r)
    /\ LET q == Signed(request[r]) IN
        IF Warranted(q)
        THEN /\ request' = [request EXCEPT ![r] = [q EXCEPT !.stage = "appended"]]
             /\ held' = held \union Locks(r)
        ELSE Ends(r, [q EXCEPT !.stage = "done"])
    /\ UNCHANGED <<rows, founders, following, faults>>

Created(q) == [on |-> q.on, author |-> q.by, under |-> q.under, status |-> "active"]

\* A run that was created has still to be started by the request.
Written(r, q) ==
    /\ thread' = CASE q.op = "create" -> [thread EXCEPT ![q.on] = q.by]
                   [] q.op = "transfer" -> [thread EXCEPT ![q.on] = q.to]
                   [] OTHER -> thread
    /\ IF q.op \in {"create", "send"}
       THEN runs' = [runs EXCEPT ![r] = Created(q)] /\ reader' = [reader EXCEPT ![r] = "due"]
       ELSE UNCHANGED <<runs, reader>>
    /\ member' = IF q.op = "role" THEN [member EXCEPT ![q.on] = q.to] ELSE member
    /\ mandate' = CASE q.op = "mandate" -> [mandate EXCEPT ![q.on] = "active"]
                    [] q.op = "revoke" -> [mandate EXCEPT ![q.on] = "revoked"]
                    [] OTHER -> mandate
    /\ assigned' = CASE q.op = "assign" -> assigned \union {<<q.on, q.to>>}
                     [] q.op = "unassign" -> assigned \ {<<q.on, q.to>>}
                     [] OTHER -> assigned

Unwritten == UNCHANGED <<member, mandate, assigned, thread, runs, reader>>

Entry(q) == [by |-> q.by, role |-> q.role, under |-> q.under, op |-> q.op]

Commit(r) ==
    /\ request[r].stage = "appended"
    /\ LET q == request[r] IN
        /\ IF q.verdict = "open" THEN Written(r, q) ELSE Unwritten
        /\ ledger' = Append(ledger, Entry(q))
        /\ Ends(r, [q EXCEPT !.stage = IF q.targets = {} THEN "done" ELSE "cancelling"])
    /\ UNCHANGED <<founders, orphans, missed, slipped, faults>>

\* The first login writes no entry.
CommitLogin(r) ==
    /\ request[r].op = "login" /\ request[r].verdict = "open" /\ Ready(request[r])
    /\ member' = [member EXCEPT ![request[r].by] = "admin"]
    /\ founders' = founders \union {request[r].by}
    /\ Ends(r, [request[r] EXCEPT !.stage = "done"])
    /\ UNCHANGED <<mandate, assigned, thread, runs, ledger, following, faults>>

\* A transaction that wrote nothing; a missing resource is then refused with
\* an entry of the ledger, in a transaction of its own.
Rollback(r) ==
    /\ Ready(request[r]) /\ request[r].verdict \in {"missing", "void"}
    /\ LET q == request[r] IN
        Ends(r, IF q.verdict = "missing"
                THEN Opened("deny", q.by, q.role, q.under, <<None, None>>)
                ELSE [q EXCEPT !.stage = "done"])
    /\ UNCHANGED <<rows, founders, following, faults>>

\* PostgreSQL aborts one transaction of a cycle of waits; nothing retries it.
InCycle(r) ==
    \E cycle \in SUBSET Requests :
        /\ r \in cycle
        /\ \A s \in cycle : (\E b \in cycle : Blocks(b, s)) /\ (\E b \in cycle : Blocks(s, b))

AbortVictim(r) ==
    /\ InCycle(r)
    /\ Ends(r, [request[r] EXCEPT !.stage = "done"])
    /\ UNCHANGED <<rows, founders, following, faults>>

-----------------------------------------------------------------------------
(* The runs and their readers *)

\* startRun and resumeAgentRun register a reader whatever the run has become.
StartReader(run) ==
    /\ reader[run] = "due" /\ reader' = [reader EXCEPT ![run] = "reading"]
    /\ UNCHANGED <<rows, request, held, founders, orphans, missed, slipped, faults>>

\* A start that is refused, a reader that is aborted or waits for a human.
LeaveRun(run) ==
    /\ reader[run] # "none" /\ reader' = [reader EXCEPT ![run] = "none"]
    /\ UNCHANGED <<rows, request, held, founders, orphans, missed, slipped, faults>>

\* The decision of a human resumes the run nobody reads.
respondRunApproval(run) ==
    /\ Active(run) /\ reader[run] = "none" /\ reader' = [reader EXCEPT ![run] = "due"]
    /\ UNCHANGED <<rows, request, held, founders, orphans, missed, slipped, faults>>

\* A reader writes "starting", "running" or "awaiting_approval" over whatever
\* status the run has by then.
MarkActive(run) ==
    /\ reader[run] = "reading" /\ runs[run].status = "ended"
    /\ runs' = [runs EXCEPT ![run].status = "active"]
    /\ slipped' = slipped \union {run}
    /\ UNCHANGED <<member, mandate, assigned, thread, ledger, request, held, founders,
                   reader, orphans, missed, faults>>

Closed(run) ==
    /\ runs' = [runs EXCEPT ![run].status = IF @ = "active" THEN "ended" ELSE @]
    /\ slipped' = slipped \ {run}

\* By its reader, which ends; or by a user, whatever its reader still does.
EndRun(run) ==
    /\ Active(run) /\ Closed(run)
    /\ \/ reader' = [reader EXCEPT ![run] = "none"]
       \/ UNCHANGED reader
    /\ UNCHANGED <<member, mandate, assigned, thread, ledger, request, held, founders,
                   orphans, missed, faults>>

-----------------------------------------------------------------------------
(* The runs of a lost mandate *)

LostMandate(run) == runs[run].under # None /\ ~Authorised(runs[run].author, runs[run].under)

NextTarget(r, run) ==
    /\ request[r].stage = "cancelling" /\ run \in request[r].targets
    /\ request' = [request EXCEPT ![r].targets = @ \ {run},
                                  ![r].stage = IF request[r].targets = {run} THEN "done" ELSE @]

\* The row is closed; a reader that is registered is aborted, and ends later.
cancelRevokedRuns(r, run) ==
    /\ NextTarget(r, run) /\ Closed(run)
    /\ UNCHANGED <<member, mandate, assigned, thread, ledger, held, founders,
                   reader, orphans, missed, faults>>

\* A cancellation that fails is logged; the revocation stays.
MissCancellation(r, run) ==
    /\ faults < MaxFaults /\ faults' = faults + 1
    /\ NextTarget(r, run)
    /\ missed' = missed \union {run}
    /\ UNCHANGED <<rows, held, founders, reader, orphans, slipped>>

\* The process stops: transactions are rolled back, lists and readers lost.
CrashAccess ==
    /\ faults < MaxFaults /\ faults' = faults + 1
    /\ request' = [r \in Requests |-> IF request[r].stage = "idle" THEN request[r]
                                      ELSE [request[r] EXCEPT !.stage = "done", !.targets = {}]]
    /\ held' = {}
    /\ reader' = [r \in Requests |-> "none"]
    /\ orphans' = {run \in Requests : Active(run)} /\ missed' = {} /\ slipped' = {}
    /\ UNCHANGED <<rows, founders>>

\* The boot leaves alone a run that has a reader, cancels one whose author has
\* lost the mandate, and asks Hermes whether to close another or resume it;
\* without a runtime, or when something fails, it leaves the run as it is.
reconcileOne(run) ==
    /\ run \in orphans /\ orphans' = orphans \ {run}
    /\ \/ /\ reader[run] = "reading"
          /\ slipped' = IF Active(run) /\ LostMandate(run) THEN slipped \union {run} ELSE slipped
          /\ UNCHANGED <<runs, reader, missed, faults>>
       \/ /\ reader[run] # "reading" /\ Closed(run)
          /\ UNCHANGED <<reader, missed, faults>>
       \/ /\ reader[run] # "reading" /\ ~LostMandate(run)
          /\ \/ UNCHANGED reader
             \/ reader' = [reader EXCEPT ![run] = "due"]
          /\ UNCHANGED <<runs, slipped, missed, faults>>
       \/ /\ reader[run] # "reading" /\ LostMandate(run)
          /\ faults < MaxFaults /\ faults' = faults + 1
          /\ missed' = missed \union {run}
          /\ UNCHANGED <<runs, slipped, reader>>
    /\ UNCHANGED <<member, mandate, assigned, thread, ledger, request, held, founders>>

-----------------------------------------------------------------------------
Serve(r) ==
    \/ Acquire(r) \/ AppendEntry(r) \/ Commit(r) \/ CommitLogin(r) \/ Rollback(r) \/ AbortVictim(r)

AccessNext ==
    \/ \E r \in Requests :
        \/ Arrive(r) \/ ArriveRefused(r) \/ ArriveWithoutMandate(r) \/ ArriveUnknown(r) \/ Serve(r)
        \/ StartReader(r) \/ LeaveRun(r) \/ respondRunApproval(r) \/ MarkActive(r) \/ EndRun(r)
        \/ reconcileOne(r)
        \/ \E run \in Requests : cancelRevokedRuns(r, run) \/ MissCancellation(r, run)
    \/ CrashAccess

AccessSpec == AccessInit /\ [][AccessNext]_accessVars

-----------------------------------------------------------------------------
(* Properties *)

(* A role that may own nothing is never given to an owner, and nothing is  *)
(* given to such a member, whatever the order of a change of role, a       *)
(* creation and a transfer: the two triggers lock the same key             *)
(* (validate_resource_owner_role, prevent_owned_membership_revocation).    *)
OwnersMayOwn ==
    \A t \in Threads : thread[t] # None => member[thread[t]] \in OwnerRoles

(* When a decision commits, its author still has the role it was taken     *)
(* under and an operator still has the mandate, although both were read    *)
(* when the request arrived; the one entry of an operator without mandate  *)
(* is the refusal for want of one (advance_audit_ledger_head, under the    *)
(* lock of the site).                                                      *)
EntriesAreWarranted ==
    [][ledger' # ledger =>
         LET entry == Last(ledger') IN
             /\ member[entry.by] = entry.role
             /\ entry.role = "operator" => Unmandated(entry) \/ Authorised(entry.by, entry.under)]_accessVars

(* No active run outlives its mandate unnoticed: it is listed by the       *)
(* revocation, or the boot has still to look at it, or its cancellation    *)
(* failed, or a reader undid it: by a status written blindly after the     *)
(* run was closed, or by being there when the boot looked (cancelRun,      *)
(* markRunStarting, reconcileOne).                                         *)
RevokedRunsAreFollowed ==
    \A run \in Requests :
        Active(run) /\ LostMandate(run)
            => \/ run \in orphans \union missed \union slipped
               \/ \E r \in Requests : request[r].stage = "cancelling" /\ run \in request[r].targets

(* Two first logins at once make one administrator (completeGoogleLogin).  *)
OneFounder == Cardinality(founders) <= 1

(* Who owns what agrees with the roles, and one login founds the site.     *)
AccessInvariant == AccessTypeOK /\ OwnersMayOwn /\ OneFounder

(* A conversation changes hands by its owner or by an administrator, as    *)
(* they are when the transfer commits: of two transfers at once, the       *)
(* second sees the owner the first has set (transferResourceOwnership).    *)
OwnershipIsHanded ==
    [][\A t \in Threads : thread[t] \notin {None, thread'[t]} =>
         LET entry == Last(ledger') IN
             /\ entry.op = "transfer"
             /\ member[entry.by] = "admin" \/ thread[t] = entry.by]_accessVars

(* What changes is changed by who may, as he may when it commits.          *)
ChangesAreWarranted == EntriesAreWarranted /\ OwnershipIsHanded
=============================================================================
