--------------------------- MODULE GuidedTaskProofs ---------------------------
(***************************************************************************)
(* GuidedTask for any number of revisions, decisions, attempts, keys and   *)
(* faults: one attempt is active and one executes, a key runs once, an     *)
(* attempt is decided once, what was executed had its approvals, what is   *)
(* recorded as done has its proofs, and the status of the task is that of  *)
(* an attempt.                                                             *)
(*                                                                         *)
(* What the rows say of an attempt is guarded by nothing in the table: it  *)
(* holds because of the place where the process is with it (StageOf), and  *)
(* because the transactions that write beside the process require another  *)
(* status.                                                                 *)
(***************************************************************************)
EXTENDS GuidedTask, FiniteSetTheorems, TLAPS

\* What the row of an attempt says while the process is at a stage of it.
StageOf(attempt, stage, lost) ==
    /\ stage = "worktree" => attempt.status = "pending"
    /\ stage \in {"hermes", "finish"} => attempt.status = "running"
    /\ stage = "failing" => attempt.status \in {"pending", "running"}
    /\ stage = "cleanup" /\ attempt.status \in {"pending", "running"} => lost > 0
    /\ stage = "finish" =>
          \E result \in {"tests_passed", "tests_failed"} :
              attempt.proofs = {"hermes_output", result}
    /\ attempt.status \in {"awaiting_functional_validation", "completed"} =>
          /\ attempt.proofs = {"hermes_output", "tests_passed"}
          /\ attempt.testsPassed /\ attempt.evidenceComplete

Stages == \A a \in DOMAIN attempts : StageOf(attempts[a], executor[a], faults)

\* The numbers by which the rows and the process designate one another.
Numbered ==
    /\ task.current = Len(revisions)
    /\ Len(attempts) <= MaxAttempts
    /\ \A a \in 1 .. MaxAttempts : executor[a] = "none" <=> a > Len(attempts)
    /\ \A a \in DOMAIN attempts : attempts[a].revision <= Len(revisions)
    /\ \A k \in Keys : launch[k] <= Len(revisions)
    /\ \A i \in DOMAIN decisions : decisions[i].attempt <= Len(attempts)

Decisive == {"completed", "failed"}

\* A decision on an attempt is final.
DecidedStays ==
    \A i \in DOMAIN decisions :
        decisions[i].attempt # 0 => attempts[decisions[i].attempt].status \in Decisive

ApprovedOnce(revision, kind) ==
    \E i \in DOMAIN decisions : /\ decisions[i].revision = revision
                                /\ decisions[i].kind = kind
                                /\ decisions[i].outcome = "approved"

Means(revision) ==
    /\ ApprovedOnce(revision, "plan") /\ ApprovedOnce(revision, "tool")
    /\ revisions[revision].technical => ApprovedOnce(revision, "technical")

\* A launch in flight has read approvals, and so had every attempt.
MeansInv ==
    /\ \A k \in Keys : launch[k] # 0 => Means(launch[k])
    /\ \A a \in DOMAIN attempts : Means(attempts[a].revision)

\* A functional approval of an attempt is about the revision it executed.
Accepted(a) ==
    \E i \in DOMAIN decisions :
        /\ decisions[i].kind = "functional" /\ decisions[i].attempt = a
        /\ decisions[i].outcome = "approved" /\ decisions[i].revision = attempts[a].revision

AcceptedInv == \A a \in DOMAIN attempts : attempts[a].status = "completed" => Accepted(a)

GuidedIInv ==
    /\ GuidedTypeOK /\ Numbered /\ Stages
    /\ OneActiveAttempt /\ KeyRunsOnce
    /\ DecidedOnce /\ DecidedStays
    /\ MeansInv /\ AcceptedInv

Decision == [revision : 1 .. MaxRevisions, attempt : 0 .. MaxAttempts, at : 0 .. MaxDecisions,
             kind : {"plan", "technical", "tool", "functional"},
             outcome : {"approved", "rejected"}]

-----------------------------------------------------------------------------
(* Rows added and rows written *)

LEMMA Added ==
    ASSUME NEW S, NEW s \in Seq(S), NEW e \in S
    PROVE  /\ Append(s, e) \in Seq(S) /\ Len(Append(s, e)) = Len(s) + 1
           /\ DOMAIN s = 1 .. Len(s) /\ Len(s) \in Nat
           /\ DOMAIN Append(s, e) = 1 .. (Len(s) + 1)
           /\ \A i \in DOMAIN s : Append(s, e)[i] = s[i]
           /\ Append(s, e)[Len(s) + 1] = e
OBVIOUS

LEMMA Written ==
    ASSUME NEW S, NEW s \in Seq(S), NEW i \in DOMAIN s, NEW e \in S
    PROVE  /\ [s EXCEPT ![i] = e] \in Seq(S) /\ Len([s EXCEPT ![i] = e]) = Len(s)
           /\ DOMAIN [s EXCEPT ![i] = e] = DOMAIN s
           /\ DOMAIN s = 1 .. Len(s) /\ Len(s) \in Nat
           /\ [s EXCEPT ![i] = e][i] = e
           /\ \A j \in DOMAIN s : j # i => [s EXCEPT ![i] = e][j] = s[j]
OBVIOUS

\* The rows, one by one.
LEMMA RowsAreTyped ==
    ASSUME GuidedTypeOK
    PROVE  /\ decisions \in Seq(Decision) /\ attempts \in Seq(Attempt)
           /\ \A i \in DOMAIN decisions : decisions[i] \in Decision
           /\ \A a \in DOMAIN attempts : attempts[a] \in Attempt
           /\ DOMAIN attempts = 1 .. Len(attempts) /\ Len(attempts) \in Nat
           /\ DOMAIN decisions = 1 .. Len(decisions) /\ Len(decisions) \in Nat
           /\ DOMAIN revisions = 1 .. Len(revisions) /\ Len(revisions) \in Nat
<1>1. decisions \in Seq(Decision) /\ attempts \in Seq(Attempt)
    BY DEF GuidedTypeOK, Decision
<1>2. revisions \in Seq([state : {"draft", "validated"}, technical : BOOLEAN])
    BY DEF GuidedTypeOK
<1>3. QED
    BY <1>1, <1>2

\* Decisions and revisions are only added: what was approved stays so.
LEMMA ApprovalsStay ==
    ASSUME GuidedIInv, NEW revision \in DOMAIN revisions, Means(revision),
           DOMAIN decisions \subseteq DOMAIN decisions',
           \A i \in DOMAIN decisions : decisions'[i] = decisions[i],
           revisions'[revision] = revisions[revision]
    PROVE  Means(revision)'
<1>1. ASSUME NEW kind, ApprovedOnce(revision, kind)
      PROVE  ApprovedOnce(revision, kind)'
    BY <1>1 DEF ApprovedOnce
<1>2. QED
    BY <1>1 DEF Means

\* One execution, because what executes is active.
LEMMA OneExecutes ==
    ASSUME GuidedTypeOK, Numbered, Stages, OneActiveAttempt
    PROVE  OneExecution
<1> DEFINE E == {a \in 1 .. MaxAttempts : executor[a] \in Executing}
<1>1. \A a \in E : a \in DOMAIN attempts /\ attempts[a].status \in Active
  <2> SUFFICES ASSUME NEW a \in E PROVE a \in DOMAIN attempts /\ attempts[a].status \in Active
    OBVIOUS
  <2>1. DOMAIN attempts = 1 .. Len(attempts) /\ Len(attempts) \in Nat /\ MaxAttempts \in Nat
    BY GuidedAssumption DEF GuidedTypeOK
  <2>2. executor[a] # "none"
    BY DEF Executing
  <2>3. a \in DOMAIN attempts
    BY <2>1, <2>2 DEF Numbered
  <2>4. QED
    BY <2>3 DEF Stages, StageOf, Executing, Active
<1>2. \A a, b \in E : a = b
    BY <1>1 DEF OneActiveAttempt
<1>3. CASE E = {}
    BY <1>3, FS_EmptySet DEF OneExecution
<1>4. CASE E # {}
  <2>1. PICK a \in E : TRUE
    BY <1>4
  <2>2. E = {a}
    BY <1>2, <2>1
  <2>3. QED
    BY <2>2, FS_Singleton DEF OneExecution
<1>5. QED
    BY <1>3, <1>4

-----------------------------------------------------------------------------
(* The steps that write the row of an attempt *)

\* Whoever writes it, a row stays what its stage allows, becomes active no more, stays
\* decided, and is completed only by an approval.
LEMMA AttemptWritten ==
    ASSUME GuidedIInv, NEW a \in DOMAIN attempts, NEW b \in Attempt,
           attempts' = [attempts EXCEPT ![a] = b],
           b.revision = attempts[a].revision, b.key = attempts[a].key,
           b.status \in Active => attempts[a].status \in Active,
           attempts[a].status \in Decisive => b.status \in Decisive,
           b.status = "completed" => Accepted(a)',
           NEW e \in Executing \union {"failing", "cleanup", "uncleaned", "done"},
           executor' = [executor EXCEPT ![a] = e],
           StageOf(b, e, faults'),
           faults' \in 0 .. MaxFaults, faults' >= faults,
           task' \in [status : {"draft", "ready", "running", "awaiting_validation", "completed",
                                "failed"}, current : 1 .. MaxRevisions],
           task'.current = task.current,
           decisions' \in Seq(Decision), DOMAIN decisions \subseteq DOMAIN decisions',
           \A i \in DOMAIN decisions : decisions'[i] = decisions[i],
           \A i \in DOMAIN decisions' : i \notin DOMAIN decisions =>
               /\ decisions'[i].attempt = a /\ attempts[a].status \notin Decisive
               /\ b.status \in Decisive
               /\ \A j \in DOMAIN decisions' : j \notin DOMAIN decisions => i = j,
           UNCHANGED <<revisions, asked, launch, clock>>
    PROVE  GuidedIInv'
<1>0. /\ attempts' \in Seq(Attempt) /\ Len(attempts') = Len(attempts)
      /\ DOMAIN attempts' = DOMAIN attempts /\ DOMAIN attempts = 1 .. Len(attempts)
      /\ Len(attempts) \in Nat
      /\ attempts'[a] = b /\ \A c \in DOMAIN attempts : c # a => attempts'[c] = attempts[c]
    BY Written DEF GuidedIInv, GuidedTypeOK
<1>1. /\ a \in 1 .. MaxAttempts /\ executor'[a] = e
      /\ \A c \in 1 .. MaxAttempts : c # a => executor'[c] = executor[c]
      /\ executor' \in [1 .. MaxAttempts ->
                          Executing \union {"none", "failing", "cleanup", "uncleaned", "done"}]
    BY <1>0, GuidedAssumption DEF GuidedIInv, GuidedTypeOK, Numbered
<1>2. GuidedTypeOK'
    BY <1>0, <1>1 DEF GuidedIInv, GuidedTypeOK, Decision
<1>3. Numbered'
  <2>1. \A i \in DOMAIN decisions' : decisions'[i].attempt <= Len(attempts')
    BY <1>0 DEF GuidedIInv, Numbered
  <2>2. e # "none" /\ executor[a] # "none" /\ a <= Len(attempts)
    BY <1>0, <1>1 DEF GuidedIInv, Numbered, Executing
  <2>3. \A c \in 1 .. MaxAttempts : executor'[c] = "none" <=> c > Len(attempts')
    BY <1>0, <1>1, <2>2 DEF GuidedIInv, Numbered
  <2>4. QED
    BY <1>0, <2>1, <2>3 DEF GuidedIInv, Numbered
<1>4. Stages'
  <2> SUFFICES ASSUME NEW c \in DOMAIN attempts
               PROVE  StageOf(attempts'[c], executor'[c], faults')
    BY <1>0 DEF Stages
  <2>1. CASE c = a
    BY <1>0, <1>1, <2>1
  <2>2. CASE c # a
    <3>1. c \in 1 .. MaxAttempts
      BY <1>0, GuidedAssumption DEF GuidedIInv, Numbered
    <3>2. StageOf(attempts[c], executor[c], faults)
      BY DEF GuidedIInv, Stages
    <3>3. faults \in Nat /\ faults' \in Nat /\ faults' >= faults
      BY GuidedAssumption DEF GuidedIInv, GuidedTypeOK
    <3>4. StageOf(attempts[c], executor[c], faults')
      BY <3>2, <3>3 DEF StageOf
    <3>5. QED
      BY <1>0, <1>1, <2>2, <3>1, <3>4
  <2>3. QED
    BY <2>1, <2>2
<1>5. OneActiveAttempt'
    BY <1>0 DEF GuidedIInv, OneActiveAttempt
<1>6. KeyRunsOnce'
    BY <1>0 DEF GuidedIInv, KeyRunsOnce
<1>7. DecidedOnce'
  <2> SUFFICES ASSUME NEW i \in DOMAIN decisions', NEW j \in DOMAIN decisions',
                      decisions'[i].attempt # 0, decisions'[i].attempt = decisions'[j].attempt
               PROVE  i = j
    BY DEF DecidedOnce
  <2>1. \A k \in DOMAIN decisions : decisions[k].attempt = a /\ a # 0 =>
            attempts[a].status \in Decisive
    BY DEF GuidedIInv, DecidedStays
  <2>2. QED
    BY <2>1 DEF GuidedIInv, DecidedOnce
<1>8. DecidedStays'
  <2> SUFFICES ASSUME NEW i \in DOMAIN decisions', decisions'[i].attempt # 0
               PROVE  attempts'[decisions'[i].attempt].status \in Decisive
    BY DEF DecidedStays
  <2>1. CASE i \notin DOMAIN decisions
    BY <1>0, <2>1
  <2>2. CASE i \in DOMAIN decisions
    <3>1. PICK d : d = decisions[i].attempt
      OBVIOUS
    <3>2. d = decisions'[i].attempt /\ d \in 0 .. MaxAttempts /\ d <= Len(attempts)
      BY <2>2, <3>1, RowsAreTyped DEF GuidedIInv, Numbered, Decision
    <3>3. d \in DOMAIN attempts
      BY <1>0, <3>2, GuidedAssumption
    <3>4. attempts[d].status \in Decisive
      BY <2>2, <3>1, <3>2 DEF GuidedIInv, DecidedStays
    <3>5. attempts'[d].status \in Decisive
      BY <1>0, <3>3, <3>4
    <3>6. QED
      BY <3>2, <3>5
  <2>3. QED
    BY <2>1, <2>2
<1>9. MeansInv'
  <2>1. \A k \in Keys : launch[k] # 0 => launch[k] \in DOMAIN revisions
    BY DEF GuidedIInv, Numbered, GuidedTypeOK
  <2>2. ASSUME NEW c \in DOMAIN attempts
        PROVE  attempts[c].revision \in DOMAIN revisions
    <3>1. /\ attempts[c] \in Attempt
          /\ revisions \in Seq([state : {"draft", "validated"}, technical : BOOLEAN])
      BY <1>0 DEF GuidedIInv, GuidedTypeOK
    <3>2. attempts[c].revision \in 1 .. MaxRevisions /\ attempts[c].revision <= Len(revisions)
      BY <3>1 DEF Attempt, GuidedIInv, Numbered
    <3>3. QED
      BY <3>1, <3>2, GuidedAssumption
  <2>3. \A r \in DOMAIN revisions : Means(r) => Means(r)'
    BY ApprovalsStay
  <2>4. \A c \in DOMAIN attempts : attempts'[c].revision = attempts[c].revision
    BY <1>0
  <2>5. ASSUME NEW c \in DOMAIN attempts
        PROVE  Means(attempts[c].revision)'
    BY <1>0, <2>2, <2>3, <2>4 DEF GuidedIInv, MeansInv
  <2>6. QED
    BY <1>0, <2>1, <2>3, <2>5 DEF GuidedIInv, MeansInv
<1>10. AcceptedInv'
  <2> SUFFICES ASSUME NEW c \in DOMAIN attempts, attempts'[c].status = "completed"
               PROVE  Accepted(c)'
    BY <1>0 DEF AcceptedInv
  <2>1. CASE c = a
    BY <1>0, <2>1
  <2>2. CASE c # a
    <3>1. Accepted(c)
      BY <1>0, <2>2 DEF GuidedIInv, AcceptedInv
    <3>2. QED
      BY <1>0, <2>2, <3>1 DEF Accepted
  <2>3. QED
    BY <2>1, <2>2
<1>11. QED
    BY <1>2, <1>3, <1>4, <1>5, <1>6, <1>7, <1>8, <1>9, <1>10 DEF GuidedIInv

-----------------------------------------------------------------------------
(* The requests *)

\* A request that writes no attempt may add a revision, a decision on a revision, or a
\* launch that has read its approvals.
LEMMA AttemptsStay ==
    ASSUME GuidedIInv, GuidedTypeOK', UNCHANGED <<attempts, executor, faults>>,
           task'.current = Len(revisions'),
           DOMAIN revisions \subseteq DOMAIN revisions',
           \A r \in DOMAIN revisions : revisions'[r] = revisions[r],
           DOMAIN decisions \subseteq DOMAIN decisions',
           \A i \in DOMAIN decisions : decisions'[i] = decisions[i],
           \A i \in DOMAIN decisions' : i \notin DOMAIN decisions => decisions'[i].attempt = 0,
           \A k \in Keys : \/ launch'[k] \in {0, launch[k]}
                           \/ launch'[k] \in DOMAIN revisions /\ Means(launch'[k])
    PROVE  GuidedIInv'
<1>0. /\ \A a \in DOMAIN attempts : attempts[a] \in Attempt
      /\ DOMAIN attempts = 1 .. Len(attempts) /\ Len(attempts) \in Nat
      /\ DOMAIN revisions = 1 .. Len(revisions) /\ Len(revisions) \in Nat
      /\ DOMAIN revisions' = 1 .. Len(revisions') /\ Len(revisions') \in Nat
    BY RowsAreTyped DEF GuidedIInv, GuidedTypeOK
<1>1. Len(revisions) <= Len(revisions')
  <2>1. CASE Len(revisions) = 0
    BY <1>0, <2>1
  <2>2. CASE Len(revisions) # 0
    <3>1. Len(revisions) \in DOMAIN revisions
      BY <1>0, <2>2
    <3>2. QED
      BY <1>0, <3>1
  <2>3. QED
    BY <2>1, <2>2
<1>2. \A r \in DOMAIN revisions : Means(r) => Means(r)'
    BY ApprovalsStay
<1>3. \A k \in Keys : launch[k] # 0 => launch[k] \in DOMAIN revisions
    BY <1>0 DEF GuidedIInv, Numbered, GuidedTypeOK
<1>4. \A a \in DOMAIN attempts : attempts[a].revision \in DOMAIN revisions
    BY <1>0, GuidedAssumption DEF GuidedIInv, Numbered, Attempt
<1>5. Numbered'
  <2>1. \A a \in DOMAIN attempts : attempts[a].revision <= Len(revisions')
    BY <1>0, <1>1, <1>4
  <2>2. \A k \in Keys : launch'[k] <= Len(revisions')
    BY <1>0, <1>1, <1>3
  <2>3. \A i \in DOMAIN decisions' : decisions'[i].attempt <= Len(attempts)
    BY <1>0 DEF GuidedIInv, Numbered
  <2>4. QED
    BY <2>1, <2>2, <2>3 DEF GuidedIInv, Numbered
<1>6. Stages' /\ OneActiveAttempt' /\ KeyRunsOnce'
    BY DEF GuidedIInv, Stages, OneActiveAttempt, KeyRunsOnce
<1>7. DecidedOnce' /\ DecidedStays'
    BY DEF GuidedIInv, DecidedOnce, DecidedStays
<1>8. MeansInv'
  <2>1. ASSUME NEW k \in Keys, launch'[k] # 0
        PROVE  Means(launch[k])'
    <3>1. PICK r : r = launch'[k]
      OBVIOUS
    <3>2. r \in DOMAIN revisions /\ Means(r)
      BY <1>3, <2>1, <3>1 DEF GuidedIInv, MeansInv
    <3>3. Means(r)'
      BY <1>2, <3>2
    <3>4. QED
      BY <3>1, <3>3 DEF Means, ApprovedOnce
  <2>2. ASSUME NEW a \in DOMAIN attempts
        PROVE  Means(attempts[a].revision)'
    BY <1>2, <1>4 DEF GuidedIInv, MeansInv
  <2>3. QED
    BY <2>1, <2>2 DEF MeansInv
<1>9. AcceptedInv'
    BY DEF GuidedIInv, AcceptedInv, Accepted
<1>10. QED
    BY <1>5, <1>6, <1>7, <1>8, <1>9 DEF GuidedIInv

\* A new revision: what was approved, launched or executed keeps its own.
LEMMA RevisionsAreSafe ==
    ASSUME GuidedIInv, createGuidedTaskRevision
    PROVE  GuidedIInv'
<1>1. PICK revision \in [state : {"draft", "validated"}, technical : BOOLEAN],
           status \in {"draft", "ready"} :
        /\ Revises(revision, status)
        /\ \/ UNCHANGED decisions
           \/ decisions' = Append(decisions, PlanApproved(Len(revisions) + 1))
    BY DEF createGuidedTaskRevision, Draft
<1>2. /\ Len(revisions) < MaxRevisions /\ Len(revisions) \in Nat /\ MaxRevisions \in Nat
      /\ revisions \in Seq([state : {"draft", "validated"}, technical : BOOLEAN])
      /\ decisions \in Seq(Decision)
    BY <1>1, RowsAreTyped, GuidedAssumption DEF Revises, GuidedIInv, GuidedTypeOK
<1>3. /\ revisions' \in Seq([state : {"draft", "validated"}, technical : BOOLEAN])
      /\ Len(revisions') = Len(revisions) + 1
      /\ DOMAIN revisions \subseteq DOMAIN revisions'
      /\ \A r \in DOMAIN revisions : revisions'[r] = revisions[r]
    BY <1>1, <1>2, Added DEF Revises
<1>4. PlanApproved(Len(revisions) + 1) \in Decision
    BY <1>2, GuidedAssumption DEF PlanApproved, Decision
<1>5. /\ decisions' \in Seq(Decision) /\ DOMAIN decisions \subseteq DOMAIN decisions'
      /\ \A i \in DOMAIN decisions : decisions'[i] = decisions[i]
      /\ \A i \in DOMAIN decisions' : i \notin DOMAIN decisions => decisions'[i].attempt = 0
  <2>1. CASE UNCHANGED decisions
    BY <1>2, <2>1
  <2>2. CASE decisions' = Append(decisions, PlanApproved(Len(revisions) + 1))
    <3>1. PICK d \in Decision : d = PlanApproved(Len(revisions) + 1)
      BY <1>4
    <3>2. d.attempt = 0
      BY <3>1 DEF PlanApproved
    <3>3. QED
      BY <1>2, <2>2, <3>1, <3>2, Added
  <2>3. QED
    BY <1>1, <2>1, <2>2
<1>6. task' = [status |-> status, current |-> Len(revisions) + 1]
      /\ UNCHANGED <<attempts, executor, asked, launch, clock, faults>>
    BY <1>1 DEF Revises
<1>7. GuidedTypeOK'
    BY <1>2, <1>3, <1>5, <1>6 DEF GuidedIInv, GuidedTypeOK, Decision
<1>8. QED
    BY <1>3, <1>5, <1>6, <1>7, AttemptsStay

LEMMA AskIsSafe ==
    ASSUME GuidedIInv, AskDecision
    PROVE  GuidedIInv'
<1>1. /\ clock' \in 0 .. MaxDecisions /\ asked' \subseteq 1 .. MaxDecisions
      /\ UNCHANGED <<task, revisions, decisions, attempts, executor, launch, faults>>
    BY GuidedAssumption DEF AskDecision, GuidedIInv, GuidedTypeOK
<1>2. GuidedTypeOK'
    BY <1>1 DEF GuidedIInv, GuidedTypeOK
<1>3. QED
    BY <1>1, <1>2, AttemptsStay DEF GuidedIInv, Numbered

LEMMA DecideRevisionIsSafe ==
    ASSUME GuidedIInv, NEW at \in 1 .. MaxDecisions, DecideRevision(at)
    PROVE  GuidedIInv'
<1>1. PICK kind \in {"technical", "tool"}, outcome \in {"approved", "rejected"} :
          Decided(at, 0, kind, outcome)
    BY DEF DecideRevision
<1> DEFINE d == [revision |-> task.current, attempt |-> 0, at |-> at,
                 kind |-> kind, outcome |-> outcome]
<1>2. d \in Decision /\ d.attempt = 0
    BY GuidedAssumption DEF GuidedIInv, GuidedTypeOK, Decision
<1>3. decisions' = Append(decisions, d) /\ decisions \in Seq(Decision)
    BY <1>1, RowsAreTyped DEF Decided, GuidedIInv
<1> HIDE DEF d
<1>4. /\ decisions' \in Seq(Decision) /\ DOMAIN decisions \subseteq DOMAIN decisions'
      /\ \A i \in DOMAIN decisions : decisions'[i] = decisions[i]
      /\ \A i \in DOMAIN decisions' : i \notin DOMAIN decisions => decisions'[i].attempt = 0
    BY <1>2, <1>3, Added
<1>5. /\ asked' \subseteq asked
      /\ UNCHANGED <<task, attempts, revisions, executor, launch, clock, faults>>
    BY <1>1 DEF DecideRevision, Decided
<1>6. GuidedTypeOK'
    BY <1>4, <1>5 DEF GuidedIInv, GuidedTypeOK, Decision
<1>7. QED
    BY <1>4, <1>5, <1>6, AttemptsStay DEF GuidedIInv, Numbered

\* The approvals are read for the revision the launch carries.
LEMMA LaunchIsSafe ==
    ASSUME GuidedIInv, NEW k \in Keys, loadAttemptSnapshot(k) \/ RefuseLaunch(k)
    PROVE  GuidedIInv'
<1>1. /\ UNCHANGED <<task, revisions, decisions, attempts, executor, asked, clock, faults>>
      /\ launch \in [Keys -> 0 .. MaxRevisions] /\ MaxRevisions \in Nat
      /\ task.current = Len(revisions) /\ task.current \in 1 .. MaxRevisions
      /\ DOMAIN revisions = 1 .. Len(revisions)
    BY RowsAreTyped, GuidedAssumption
    DEF loadAttemptSnapshot, RefuseLaunch, GuidedIInv, GuidedTypeOK, Numbered
<1>2. task.current \in DOMAIN revisions
    BY <1>1
<1>3. \/ launch' = [launch EXCEPT ![k] = 0]
      \/ launch' = [launch EXCEPT ![k] = task.current] /\ Means(task.current)
  <2>1. ASSUME NEW kind, Approved(task.current, kind)
        PROVE  ApprovedOnce(task.current, kind)
    BY <2>1 DEF Approved, Latest, ApprovedOnce
  <2>2. assertGuidedAttemptCanStart(task.current) => Means(task.current)
    BY <2>1 DEF assertGuidedAttemptCanStart, Means
  <2>3. QED
    BY <2>2 DEF loadAttemptSnapshot, RefuseLaunch
<1>4. /\ launch' \in [Keys -> 0 .. MaxRevisions]
      /\ \A j \in Keys : \/ launch'[j] \in {0, launch[j]}
                         \/ launch'[j] = task.current /\ Means(task.current)
    BY <1>1, <1>3
<1>5. GuidedTypeOK'
    BY <1>1, <1>4 DEF GuidedIInv, GuidedTypeOK
<1>6. QED
    BY <1>1, <1>2, <1>4, <1>5, AttemptsStay

\* The insertion: no attempt is active, the key is new, the approvals were read.
LEMMA CreationIsSafe ==
    ASSUME GuidedIInv, NEW k \in Keys, createGuidedDeliveryAttempt(k)
    PROVE  GuidedIInv'
<1> DEFINE n == Len(attempts) + 1
           new == [revision |-> launch[k], key |-> k, status |-> "pending",
                   testsPassed |-> FALSE, evidenceComplete |-> FALSE, proofs |-> {}]
<1>0. /\ attempts \in Seq(Attempt) /\ \A c \in DOMAIN attempts : attempts[c] \in Attempt
      /\ DOMAIN attempts = 1 .. Len(attempts) /\ Len(attempts) \in Nat
      /\ MaxAttempts \in Nat /\ MaxRevisions \in Nat
      /\ launch[k] \in 1 .. MaxRevisions /\ launch[k] # 0 /\ launch[k] <= Len(revisions)
      /\ DOMAIN decisions = 1 .. Len(decisions)
      /\ \A i \in DOMAIN decisions : decisions[i] \in Decision
    BY RowsAreTyped, GuidedAssumption
    DEF GuidedIInv, GuidedTypeOK, Numbered, createGuidedDeliveryAttempt
<1>1. /\ NoneActive /\ KeyUnused(k) /\ n <= MaxAttempts
      /\ attempts' = Append(attempts, new)
      /\ task' = [task EXCEPT !.status = "running"]
      /\ executor' = [executor EXCEPT ![n] = "worktree"]
      /\ UNCHANGED <<revisions, decisions, asked, launch, clock, faults>>
    BY DEF createGuidedDeliveryAttempt
<1>2. /\ new \in Attempt /\ new.status = "pending" /\ new.key = k /\ new.revision = launch[k]
      /\ StageOf(new, "worktree", faults)
    BY <1>0 DEF Attempt, Active, StageOf
<1> HIDE DEF new
<1>3. /\ attempts' \in Seq(Attempt) /\ Len(attempts') = n /\ DOMAIN attempts' = 1 .. n
      /\ attempts'[n] = new /\ \A c \in DOMAIN attempts : attempts'[c] = attempts[c]
    BY <1>0, <1>1, <1>2, Added
<1>4. /\ n \in 1 .. MaxAttempts /\ executor'[n] = "worktree"
      /\ \A c \in 1 .. MaxAttempts : c # n => executor'[c] = executor[c]
      /\ executor' \in [1 .. MaxAttempts ->
                          Executing \union {"none", "failing", "cleanup", "uncleaned", "done"}]
    BY <1>0, <1>1 DEF GuidedIInv, GuidedTypeOK, Executing
<1>5. task' \in [status : {"draft", "ready", "running", "awaiting_validation", "completed",
                           "failed"}, current : 1 .. MaxRevisions]
      /\ task'.current = task.current
    BY <1>1 DEF GuidedIInv, GuidedTypeOK
<1>6. GuidedTypeOK'
    BY <1>1, <1>3, <1>4, <1>5 DEF GuidedIInv, GuidedTypeOK
<1>7. Numbered'
  <2>1. \A c \in 1 .. MaxAttempts : executor'[c] = "none" <=> c > Len(attempts')
    BY <1>0, <1>3, <1>4 DEF GuidedIInv, Numbered
  <2>2. \A c \in DOMAIN attempts' : attempts'[c].revision <= Len(revisions')
    BY <1>0, <1>1, <1>2, <1>3 DEF GuidedIInv, Numbered
  <2>3. \A i \in DOMAIN decisions : decisions[i].attempt <= Len(attempts')
    BY <1>0, <1>3 DEF GuidedIInv, Numbered, Decision
  <2>4. QED
    BY <1>1, <1>3, <1>5, <2>1, <2>2, <2>3 DEF GuidedIInv, Numbered
<1>8. Stages'
    BY <1>0, <1>1, <1>2, <1>3, <1>4 DEF GuidedIInv, Stages, Numbered
<1>9. OneActiveAttempt'
    BY <1>0, <1>1, <1>3 DEF OneActiveAttempt, NoneActive
<1>10. KeyRunsOnce'
    BY <1>0, <1>1, <1>2, <1>3 DEF GuidedIInv, KeyRunsOnce, KeyUnused
<1>11. DecidedOnce' /\ DecidedStays'
  <2>1. ASSUME NEW i \in DOMAIN decisions, decisions[i].attempt # 0
        PROVE  decisions[i].attempt \in DOMAIN attempts
    BY <1>0, <2>1 DEF GuidedIInv, Numbered, Decision
  <2>2. QED
    BY <1>1, <1>3, <2>1 DEF GuidedIInv, DecidedOnce, DecidedStays
<1>12. MeansInv'
  <2>1. ASSUME NEW r, Means(r)
        PROVE  Means(r)'
    BY <1>1, <2>1 DEF Means, ApprovedOnce
  <2>2. ASSUME NEW c \in DOMAIN attempts'
        PROVE  Means(attempts[c].revision)'
    <3>1. PICK r : r = attempts'[c].revision
      OBVIOUS
    <3>2. Means(r)
      BY <1>0, <1>2, <1>3, <3>1 DEF GuidedIInv, MeansInv
    <3>3. Means(r)'
      BY <2>1, <3>2
    <3>4. QED
      BY <3>1, <3>3 DEF Means, ApprovedOnce
  <2>3. ASSUME NEW j \in Keys, launch[j] # 0
        PROVE  Means(launch[j])'
    <3>1. PICK r : r = launch[j]
      OBVIOUS
    <3>2. Means(r)'
      BY <2>1, <2>3, <3>1 DEF GuidedIInv, MeansInv
    <3>3. QED
      BY <1>1, <3>1, <3>2 DEF Means, ApprovedOnce
  <2>4. QED
    BY <1>1, <2>2, <2>3 DEF MeansInv
<1>13. AcceptedInv'
    BY <1>0, <1>1, <1>2, <1>3 DEF GuidedIInv, AcceptedInv, Accepted
<1>14. QED
    BY <1>6, <1>7, <1>8, <1>9, <1>10, <1>11, <1>12, <1>13 DEF GuidedIInv

\* A functional decision closes an attempt that awaits one.
LEMMA DecideAttemptIsSafe ==
    ASSUME GuidedIInv, DecideAttempt
    PROVE  GuidedIInv'
<1>0. /\ attempts \in Seq(Attempt) /\ \A c \in DOMAIN attempts : attempts[c] \in Attempt
      /\ DOMAIN attempts = 1 .. Len(attempts) /\ Len(attempts) \in Nat
      /\ decisions \in Seq(Decision)
      /\ Len(attempts) <= MaxAttempts /\ MaxAttempts \in Nat
      /\ DOMAIN executor = 1 .. MaxAttempts
    BY RowsAreTyped, GuidedAssumption DEF GuidedIInv, Numbered, GuidedTypeOK
<1>1. PICK a \in DOMAIN attempts, outcome \in {"approved", "rejected"} :
        /\ AwaitsDecision(a) /\ (outcome = "approved" => Acceptable(a))
        /\ Decided(0, a, "functional", outcome)
        /\ attempts' = [attempts EXCEPT
                            ![a].status = IF outcome = "approved" THEN "completed" ELSE "failed"]
        /\ task' = [task EXCEPT !.status = IF outcome = "approved" THEN "completed" ELSE "ready"]
        /\ UNCHANGED asked
    BY DEF DecideAttempt
<1> DEFINE status == IF outcome = "approved" THEN "completed" ELSE "failed"
           b == [attempts[a] EXCEPT !.status = status]
           d == [revision |-> task.current, attempt |-> a, at |-> 0,
                 kind |-> "functional", outcome |-> outcome]
<1>2. /\ attempts' = [attempts EXCEPT ![a] = b] /\ b \in Attempt /\ b.status = status
      /\ b.revision = attempts[a].revision /\ b.key = attempts[a].key
      /\ b.proofs = attempts[a].proofs /\ b.testsPassed = attempts[a].testsPassed
      /\ b.evidenceComplete = attempts[a].evidenceComplete
    BY <1>0, <1>1 DEF Attempt
<1>3. d \in Decision /\ decisions' = Append(decisions, d) /\ a \in 1 .. MaxAttempts /\ a # 0
    BY <1>0, <1>1, GuidedAssumption DEF GuidedIInv, GuidedTypeOK, Decision, Decided
<1>4. d.attempt = a /\ d.kind = "functional" /\ d.outcome = outcome /\ d.revision = task.current
    OBVIOUS
<1> HIDE DEF b, d
<1>5. /\ decisions' \in Seq(Decision) /\ DOMAIN decisions \subseteq DOMAIN decisions'
      /\ \A i \in DOMAIN decisions : decisions'[i] = decisions[i]
      /\ \A i \in DOMAIN decisions' : i \notin DOMAIN decisions => i = Len(decisions) + 1
      /\ Len(decisions) + 1 \in DOMAIN decisions' /\ decisions'[Len(decisions) + 1] = d
    BY <1>0, <1>3, Added
<1>6. /\ attempts[a].revision = task.current
      /\ attempts[a].status = "awaiting_functional_validation"
      /\ status \in Decisive
    BY <1>1 DEF AwaitsDecision, Decisive
<1>7. /\ attempts[a].proofs = {"hermes_output", "tests_passed"}
      /\ attempts[a].testsPassed /\ attempts[a].evidenceComplete
      /\ StageOf(attempts[a], executor[a], faults)
    BY <1>6 DEF GuidedIInv, Stages, StageOf
<1>8. /\ StageOf(b, executor[a], faults)
      /\ b.status \in Active => attempts[a].status \in Active
      /\ attempts[a].status \notin Decisive /\ b.status \in Decisive
    BY <1>2, <1>6, <1>7 DEF StageOf, Active, Decisive
<1>9. b.status = "completed" => Accepted(a)'
  <2> SUFFICES ASSUME outcome = "approved" PROVE Accepted(a)'
    BY <1>2
  <2>1. attempts'[a].revision = task.current
    BY <1>0, <1>2, <1>6
  <2>2. QED
    BY <1>4, <1>5, <2>1 DEF Accepted
<1>10. /\ executor[a] \in Executing \union {"failing", "cleanup", "uncleaned", "done"}
       /\ executor' = [executor EXCEPT ![a] = executor[a]]
       /\ UNCHANGED <<revisions, asked, launch, clock, faults>>
       /\ faults \in 0 .. MaxFaults /\ faults' >= faults
    BY <1>0, <1>1, <1>3, GuidedAssumption DEF Decided, GuidedIInv, GuidedTypeOK, Numbered
<1>11. task' \in [status : {"draft", "ready", "running", "awaiting_validation", "completed",
                            "failed"}, current : 1 .. MaxRevisions]
       /\ task'.current = task.current
    BY <1>1 DEF GuidedIInv, GuidedTypeOK
<1>12. QED
    BY <1>0, <1>2, <1>4, <1>5, <1>8, <1>9, <1>10, <1>11, AttemptWritten

-----------------------------------------------------------------------------
(* The execution *)

\* What a step of the execution of an attempt works on.
LEMMA ExecutionFacts ==
    ASSUME GuidedIInv, NEW a \in 1 .. MaxAttempts, executor[a] # "none"
    PROVE  /\ a \in DOMAIN attempts /\ attempts[a] \in Attempt
           /\ attempts \in Seq(Attempt) /\ decisions \in Seq(Decision)
           /\ StageOf(attempts[a], executor[a], faults)
           /\ attempts = [attempts EXCEPT ![a] = attempts[a]]
           /\ faults \in 0 .. MaxFaults /\ faults \in Nat
           /\ attempts[a].status \in Active \union Decisive
<1>1. /\ attempts \in Seq(Attempt) /\ \A c \in DOMAIN attempts : attempts[c] \in Attempt
      /\ DOMAIN attempts = 1 .. Len(attempts) /\ Len(attempts) \in Nat
      /\ decisions \in Seq(Decision)
      /\ faults \in 0 .. MaxFaults
    BY RowsAreTyped DEF GuidedIInv, GuidedTypeOK
<1>2. a \in DOMAIN attempts
    BY <1>1, GuidedAssumption DEF GuidedIInv, Numbered
<1>3. QED
    BY <1>1, <1>2, GuidedAssumption DEF GuidedIInv, Stages, Attempt, Decisive

\* A step of the execution: the row, the stage and the status of the task.
LEMMA ExecutionIsSafe ==
    ASSUME GuidedIInv, NEW a \in 1 .. MaxAttempts, executor[a] # "none",
           NEW b \in Attempt, attempts' = [attempts EXCEPT ![a] = b],
           b.revision = attempts[a].revision, b.key = attempts[a].key,
           b.status \in Active => attempts[a].status \in Active,
           attempts[a].status \in Decisive => b.status \in Decisive,
           b.status = "completed" => attempts[a].status = "completed",
           NEW from, NEW to \in Executing \union {"failing", "cleanup", "uncleaned", "done"},
           Goes(a, from, to), StageOf(b, to, faults'),
           faults' \in 0 .. MaxFaults, faults' >= faults,
           \/ UNCHANGED task
           \/ \E status \in {"draft", "ready", "running", "awaiting_validation", "completed",
                             "failed"} : task' = [task EXCEPT !.status = status],
           KeepsRequests
    PROVE  GuidedIInv'
<1>1. /\ a \in DOMAIN attempts /\ decisions \in Seq(Decision) /\ attempts \in Seq(Attempt)
      /\ executor' = [executor EXCEPT ![a] = to]
      /\ UNCHANGED <<revisions, decisions, asked, launch, clock>>
    BY ExecutionFacts DEF Goes, KeepsRequests
<1>2. b.status = "completed" => Accepted(a)'
  <2> SUFFICES ASSUME b.status = "completed" PROVE Accepted(a)'
    OBVIOUS
  <2>1. Accepted(a)
    BY <1>1 DEF GuidedIInv, AcceptedInv
  <2>2. attempts'[a].revision = attempts[a].revision
    BY <1>1, Written
  <2>3. QED
    BY <1>1, <2>1, <2>2 DEF Accepted
<1>3. task' \in [status : {"draft", "ready", "running", "awaiting_validation", "completed",
                           "failed"}, current : 1 .. MaxRevisions]
      /\ task'.current = task.current
    BY DEF GuidedIInv, GuidedTypeOK
<1>4. QED
    BY <1>1, <1>2, <1>3, AttemptWritten

\* A step that moves the process on and leaves the row as it is.
LEMMA StageMoves ==
    ASSUME GuidedIInv, NEW a \in 1 .. MaxAttempts,
           NEW from \in Executing \union {"failing", "cleanup", "uncleaned"},
           NEW to \in {"failing", "cleanup", "done"},
           Goes(a, from, to), KeepsRequests, UNCHANGED attempts,
           to = "failing" => from \in Executing,
           to = "cleanup" => faults' > 0,
           faults' \in 0 .. MaxFaults, faults' >= faults,
           \/ UNCHANGED task
           \/ task' = [task EXCEPT !.status = "failed"]
    PROVE  GuidedIInv'
<1>1. executor[a] = from /\ from # "none"
    BY DEF Goes, Executing
<1>2. /\ attempts[a] \in Attempt /\ attempts' = [attempts EXCEPT ![a] = attempts[a]]
      /\ StageOf(attempts[a], from, faults)
    BY <1>1, ExecutionFacts
<1>3. StageOf(attempts[a], to, faults')
    BY <1>2 DEF StageOf, Executing
<1>4. QED
    BY <1>1, <1>2, <1>3, ExecutionIsSafe

LEMMA ExecuteIsSafe ==
    ASSUME GuidedIInv, NEW a \in 1 .. MaxAttempts, Execute(a) \/ LoseRefusal(a)
    PROVE  GuidedIInv'
<1>0. executor[a] # "none"
    BY DEF Execute, PrepareSandbox, RunHermes, FinishAttempt, FailExecution, RefuseAttempt,
       CleanUp, FailCleanup, CloseUncleaned, LoseRefusal, Goes, Executing
<1>1. /\ a \in DOMAIN attempts /\ attempts[a] \in Attempt /\ attempts \in Seq(Attempt)
      /\ StageOf(attempts[a], executor[a], faults)
      /\ faults \in 0 .. MaxFaults /\ faults \in Nat /\ faults >= faults
      /\ attempts[a].status \in Active \union Decisive
    BY <1>0, ExecutionFacts
<1>2. CASE PrepareSandbox(a)
  <2> DEFINE b == [attempts[a] EXCEPT !.status = "running"]
  <2>1. /\ b \in Attempt /\ b.status = "running" /\ attempts' = [attempts EXCEPT ![a] = b]
        /\ b.revision = attempts[a].revision /\ b.key = attempts[a].key
    BY <1>1, <1>2 DEF PrepareSandbox, Attempt, Active
  <2>2. attempts[a].status = "pending" /\ StageOf(b, "hermes", faults)
    BY <1>1, <1>2, <2>1 DEF PrepareSandbox, Goes, StageOf
  <2> HIDE DEF b
  <2>3. QED
    BY <1>0, <1>1, <1>2, <2>1, <2>2, ExecutionIsSafe
    DEF PrepareSandbox, Executing, Active, Decisive
<1>3. CASE RunHermes(a)
  <2>1. PICK result \in {"tests_passed", "tests_failed"} :
            attempts' = [attempts EXCEPT ![a].proofs = {"hermes_output", result}]
    BY <1>3 DEF RunHermes
  <2> DEFINE b == [attempts[a] EXCEPT !.proofs = {"hermes_output", result}]
  <2>2. /\ b \in Attempt /\ b.status = attempts[a].status
        /\ attempts' = [attempts EXCEPT ![a] = b]
        /\ b.proofs = {"hermes_output", result}
        /\ b.revision = attempts[a].revision /\ b.key = attempts[a].key
    BY <1>1, <2>1 DEF Attempt
  <2>3. attempts[a].status = "running"
    BY <1>1, <1>3 DEF RunHermes, Goes, StageOf
  <2> HIDE DEF b
  <2>4. StageOf(b, "finish", faults)
    BY <2>2, <2>3 DEF StageOf
  <2>5. QED
    BY <1>0, <1>1, <1>3, <2>2, <2>3, <2>4, ExecutionIsSafe
    DEF RunHermes, Executing, Active, Decisive
<1>4. CASE FinishAttempt(a)
  <2> DEFINE status == IF Passed(a) THEN "awaiting_functional_validation" ELSE "failed"
             b == [attempts[a] EXCEPT !.status = status, !.testsPassed = Passed(a),
                                      !.evidenceComplete = Passed(a)]
  <2>0. Passed(a) \in BOOLEAN
    BY DEF Passed
  <2>1. /\ b \in Attempt /\ b.status = status /\ attempts' = [attempts EXCEPT ![a] = b]
        /\ b.testsPassed = Passed(a) /\ b.evidenceComplete = Passed(a)
        /\ b.proofs = attempts[a].proofs
        /\ b.revision = attempts[a].revision /\ b.key = attempts[a].key
    BY <1>1, <1>4, <2>0 DEF FinishAttempt, Attempt, Active
  <2>2. /\ attempts[a].status = "running"
        /\ Passed(a) => attempts[a].proofs = {"hermes_output", "tests_passed"}
    BY <1>1, <1>4 DEF FinishAttempt, Goes, StageOf, Passed
  <2> HIDE DEF b
  <2>3. StageOf(b, "cleanup", faults)
    BY <2>1, <2>2 DEF StageOf
  <2>4. \E s \in {"draft", "ready", "running", "awaiting_validation", "completed", "failed"} :
            task' = [task EXCEPT !.status = s]
    BY <1>4 DEF FinishAttempt
  <2>5. b.status \in {"awaiting_functional_validation", "failed"}
    BY <2>1
  <2>6. QED
    BY <1>0, <1>1, <1>4, <2>1, <2>2, <2>3, <2>4, <2>5, ExecutionIsSafe
    DEF FinishAttempt, Active, Decisive
<1>5. CASE FailExecution(a)
    BY <1>1, <1>5, StageMoves DEF FailExecution
<1>6. CASE RefuseAttempt(a)
  <2> DEFINE b == [attempts[a] EXCEPT !.status = "failed", !.testsPassed = FALSE,
                                      !.evidenceComplete = FALSE, !.proofs = @ \union {"refusal"}]
  <2>1. /\ b \in Attempt /\ b.status = "failed" /\ attempts' = [attempts EXCEPT ![a] = b]
        /\ b.revision = attempts[a].revision /\ b.key = attempts[a].key
    BY <1>1, <1>6 DEF RefuseAttempt, Attempt
  <2> HIDE DEF b
  <2>2. StageOf(b, "cleanup", faults)
    BY <2>1 DEF StageOf
  <2>3. QED
    BY <1>0, <1>1, <1>6, <2>1, <2>2, ExecutionIsSafe DEF RefuseAttempt, Active, Decisive
<1>7. CASE CleanUp(a)
    BY <1>1, <1>7, StageMoves DEF CleanUp
<1>8. CASE FailCleanup(a)
  <2> DEFINE b == [attempts[a] EXCEPT !.status = "failed", !.evidenceComplete = FALSE]
  <2>1. /\ b \in Attempt /\ b.status = "failed" /\ attempts' = [attempts EXCEPT ![a] = b]
        /\ b.revision = attempts[a].revision /\ b.key = attempts[a].key
    BY <1>1, <1>8 DEF FailCleanup, Attempt
  <2> HIDE DEF b
  <2>2. StageOf(b, "uncleaned", faults)
    BY <2>1 DEF StageOf
  <2>3. QED
    BY <1>0, <1>1, <1>8, <2>1, <2>2, ExecutionIsSafe DEF FailCleanup, Active, Decisive
<1>9. CASE CloseUncleaned(a)
    BY <1>1, <1>9, StageMoves DEF CloseUncleaned
<1>10. CASE LoseRefusal(a)
  <2>1. faults' \in 0 .. MaxFaults /\ faults' > 0 /\ faults' >= faults
    BY <1>1, <1>10, GuidedAssumption DEF LoseRefusal
  <2>2. QED
    BY <1>10, <2>1, StageMoves DEF LoseRefusal
<1>11. QED
    BY <1>2, <1>3, <1>4, <1>5, <1>6, <1>7, <1>8, <1>9, <1>10 DEF Execute

\* A crash ends the executions and the requests; the rows say what they said.
LEMMA CrashIsSafe ==
    ASSUME GuidedIInv, CrashGuided
    PROVE  GuidedIInv'
<1>1. /\ UNCHANGED <<task, revisions, decisions, attempts, clock>>
      /\ executor' = [a \in 1 .. MaxAttempts |->
                        IF executor[a] = "none" THEN "none" ELSE "done"]
      /\ asked' = {} /\ launch' = [k \in Keys |-> 0]
      /\ faults' \in 0 .. MaxFaults
      /\ DOMAIN attempts = 1 .. Len(attempts) /\ Len(attempts) <= MaxAttempts
      /\ DOMAIN revisions = 1 .. Len(revisions) /\ Len(revisions) \in Nat
      /\ MaxAttempts \in Nat /\ MaxRevisions \in Nat /\ Len(attempts) \in Nat
    BY RowsAreTyped, GuidedAssumption DEF CrashGuided, GuidedIInv, GuidedTypeOK, Numbered
<1>2. GuidedTypeOK'
    BY <1>1 DEF GuidedIInv, GuidedTypeOK
<1>3. Numbered'
    BY <1>1 DEF GuidedIInv, Numbered
<1>4. Stages'
  <2> SUFFICES ASSUME NEW a \in DOMAIN attempts
               PROVE  StageOf(attempts[a], executor'[a], faults')
    BY <1>1 DEF Stages
  <2>1. StageOf(attempts[a], executor[a], faults) /\ executor'[a] \in {"none", "done"}
    BY <1>1 DEF GuidedIInv, Stages
  <2>2. QED
    BY <2>1 DEF StageOf
<1>5. /\ OneActiveAttempt' /\ KeyRunsOnce' /\ DecidedOnce' /\ DecidedStays'
      /\ AcceptedInv'
    BY <1>1 DEF GuidedIInv, OneActiveAttempt, KeyRunsOnce, DecidedOnce, DecidedStays,
       AcceptedInv, Accepted
<1>6. MeansInv'
    BY <1>1 DEF GuidedIInv, MeansInv, Means, ApprovedOnce
<1>7. QED
    BY <1>2, <1>3, <1>4, <1>5, <1>6 DEF GuidedIInv

LEMMA GuidedInitially == GuidedInit => GuidedIInv
<1> SUFFICES ASSUME GuidedInit PROVE GuidedIInv
    OBVIOUS
<1>1. /\ attempts = <<>> /\ decisions = <<>> /\ DOMAIN attempts = {} /\ DOMAIN decisions = {}
      /\ Len(attempts) = 0 /\ revisions = <<Draft>> /\ Len(revisions) = 1
      /\ \A k \in Keys : launch[k] = 0
      /\ \A a \in 1 .. MaxAttempts : executor[a] = "none"
    BY DEF GuidedInit
<1>2. GuidedTypeOK
    BY <1>1, GuidedAssumption DEF GuidedInit, GuidedTypeOK, Draft
<1>3. Numbered
    BY <1>1, GuidedAssumption DEF Numbered, GuidedInit
<1>4. QED
    BY <1>1, <1>2, <1>3 DEF GuidedIInv, Stages, OneActiveAttempt, KeyRunsOnce, DecidedOnce,
       DecidedStays, MeansInv, AcceptedInv

LEMMA GuidedNextIsSafe == GuidedIInv /\ [GuidedNext]_guidedVars => GuidedIInv'
<1> SUFFICES ASSUME GuidedIInv, [GuidedNext]_guidedVars PROVE GuidedIInv'
    OBVIOUS
<1>1. CASE UNCHANGED guidedVars
  <2>1. GuidedTypeOK' /\ task'.current = Len(revisions')
    BY <1>1 DEF guidedVars, GuidedIInv, GuidedTypeOK, Numbered
  <2>2. QED
    BY <1>1, <2>1, AttemptsStay DEF guidedVars
<1>2. CASE GuidedNext
    BY <1>2, RevisionsAreSafe, DecideAttemptIsSafe, AskIsSafe, DecideRevisionIsSafe,
       LaunchIsSafe, CreationIsSafe, ExecuteIsSafe, CrashIsSafe DEF GuidedNext
<1>3. QED
    BY <1>1, <1>2

LEMMA GuidedIsInductive == GuidedSpec => []GuidedIInv
BY GuidedInitially, GuidedNextIsSafe, PTL DEF GuidedSpec

-----------------------------------------------------------------------------

\* Two launches never have two attempts of a task active, nor two executions in their
\* sandboxes; a key that is sent again runs once; an attempt is decided once, whatever
\* the cleanup and the crashes do beside the decision.
THEOREM TasksAreGuarded == GuidedSpec => []GuidedInvariant
<1>1. GuidedIInv => GuidedInvariant
    BY OneExecutes DEF GuidedIInv, GuidedInvariant
<1>2. QED
    BY <1>1, GuidedIsInductive, PTL

\* What was executed had its plan, its tools and its technique approved, and what is
\* recorded as completed has its output, its passed tests and the approval of the
\* revision it executed.
THEOREM AttemptsStayWarranted == GuidedSpec => []AttemptsAreWarranted
<1>1. GuidedIInv => LaunchedWithApprovals
    BY DEF GuidedIInv, MeansInv, Means, ApprovedOnce, LaunchedWithApprovals
<1>2. GuidedIInv => CompletedIsProven
    BY DEF GuidedIInv, AcceptedInv, Accepted, Stages, StageOf, CompletedIsProven
<1>3. QED
    BY <1>1, <1>2, GuidedIsInductive, PTL DEF AttemptsAreWarranted

-----------------------------------------------------------------------------
(* The status of the task *)

\* A step that leaves the status of the task is accounted for by the same attempt when
\* it keeps what the attempts are, or only starts one, and closes none that is uncleaned.
LEMMA StatusIsKept ==
    ASSUME GuidedIInv, StatusFollowsAttempts, task'.status = task.status,
           DOMAIN attempts' = DOMAIN attempts,
           \A c \in DOMAIN attempts :
               \/ attempts'[c].status = attempts[c].status
               \/ {attempts[c].status, attempts'[c].status} \subseteq {"pending", "running"},
           \A c \in DOMAIN attempts : executor[c] = "uncleaned" => executor'[c] = "uncleaned",
           faults' \in Nat, faults \in Nat, faults' >= faults
    PROVE  StatusFollowsAttempts'
<1>1. faults > 0 => faults' > 0
    OBVIOUS
<1>2. (\E c \in DOMAIN attempts : executor[c] = "uncleaned") =>
            \E c \in DOMAIN attempts' : executor'[c] = "uncleaned"
    OBVIOUS
<1>3. ASSUME NEW S \in {{"pending", "running"}, {"awaiting_functional_validation"},
                         {"completed"}},
             \E c \in DOMAIN attempts : attempts[c].status \in S
      PROVE  \E c \in DOMAIN attempts' : attempts'[c].status \in S
  <2>1. PICK c \in DOMAIN attempts : attempts[c].status \in S
    BY <1>3
  <2>2. attempts'[c].status \in S
    BY <2>1
  <2>3. QED
    BY <2>2
<1>4. QED
    BY <1>1, <1>2, <1>3 DEF StatusFollowsAttempts

\* After a fault, or once the task has failed, nothing is asked of the attempts.
LEMMA StatusIsExcused ==
    ASSUME faults' > 0 \/ task'.status \in {"draft", "ready", "failed"}
    PROVE  StatusFollowsAttempts'
BY DEF StatusFollowsAttempts

LEMMA DecisionsKeepStatus ==
    ASSUME GuidedIInv, StatusFollowsAttempts, DecideAttempt
    PROVE  StatusFollowsAttempts'
<1>1. PICK a \in DOMAIN attempts, outcome \in {"approved", "rejected"} :
        /\ attempts' = [attempts EXCEPT ![a].status =
                           IF outcome = "approved" THEN "completed" ELSE "failed"]
        /\ task' = [task EXCEPT !.status = IF outcome = "approved" THEN "completed" ELSE "ready"]
    BY DEF DecideAttempt
<1>2. attempts[a] \in Attempt /\ attempts \in Seq(Attempt)
    BY RowsAreTyped DEF GuidedIInv
<1>3. task \in [status : {"draft", "ready", "running", "awaiting_validation", "completed",
                          "failed"}, current : 1 .. MaxRevisions]
    BY DEF GuidedIInv, GuidedTypeOK
<1>4. CASE outcome = "rejected"
  <2>1. task'.status = "ready"
    BY <1>1, <1>3, <1>4
  <2>2. QED
    BY <2>1, StatusIsExcused
<1>5. CASE outcome = "approved"
  <2>1. task'.status = "completed"
    BY <1>1, <1>3, <1>5
  <2>2. attempts' = [attempts EXCEPT ![a].status = "completed"]
    BY <1>1, <1>5
  <2>3. a \in DOMAIN attempts' /\ attempts'[a].status = "completed"
    BY <1>2, <2>2 DEF Attempt
  <2>4. QED
    BY <2>1, <2>3 DEF StatusFollowsAttempts
<1>6. QED
    BY <1>4, <1>5

LEMMA CreationKeepsStatus ==
    ASSUME GuidedIInv, StatusFollowsAttempts, NEW k \in Keys, createGuidedDeliveryAttempt(k)
    PROVE  StatusFollowsAttempts'
<1> DEFINE e == [revision |-> launch[k], key |-> k, status |-> "pending",
                 testsPassed |-> FALSE, evidenceComplete |-> FALSE, proofs |-> {}]
<1>1. attempts' = Append(attempts, e) /\ task' = [task EXCEPT !.status = "running"]
    BY DEF createGuidedDeliveryAttempt
<1>2. attempts \in Seq(Attempt)
    BY DEF GuidedIInv, GuidedTypeOK
<1>3. Len(attempts) + 1 \in DOMAIN attempts' /\ attempts'[Len(attempts) + 1].status = "pending"
    BY <1>1, <1>2
<1>4. task'.status = "running"
    BY <1>1 DEF GuidedIInv, GuidedTypeOK
<1>5. QED
    BY <1>3, <1>4 DEF StatusFollowsAttempts

LEMMA ExecutionKeepsStatus ==
    ASSUME GuidedIInv, StatusFollowsAttempts, NEW a \in 1 .. MaxAttempts,
           Execute(a) \/ LoseRefusal(a)
    PROVE  StatusFollowsAttempts'
<1>0. executor[a] # "none"
    BY DEF Execute, PrepareSandbox, RunHermes, FinishAttempt, FailExecution, RefuseAttempt,
       CleanUp, FailCleanup, CloseUncleaned, LoseRefusal, Goes, Executing
<1>1. /\ a \in DOMAIN attempts /\ attempts[a] \in Attempt /\ attempts \in Seq(Attempt)
      /\ \A c \in DOMAIN attempts : attempts[c] \in Attempt
      /\ StageOf(attempts[a], executor[a], faults)
      /\ faults \in 0 .. MaxFaults /\ faults \in Nat /\ faults >= faults
      /\ task.status \in {"draft", "ready", "running", "awaiting_validation", "completed",
                          "failed"}
    BY <1>0, ExecutionFacts, RowsAreTyped DEF GuidedIInv, GuidedTypeOK
<1>2. /\ \A c \in DOMAIN attempts : c \in 1 .. MaxAttempts
      /\ executor \in [1 .. MaxAttempts ->
                          Executing \union {"none", "failing", "cleanup", "uncleaned", "done"}]
    BY RowsAreTyped, GuidedAssumption DEF GuidedIInv, GuidedTypeOK, Numbered
\* The stage changes, and it is not "uncleaned" that is left.
<1>3. ASSUME NEW from, NEW to, Goes(a, from, to), from # "uncleaned"
      PROVE  \A c \in DOMAIN attempts : executor[c] = "uncleaned" => executor'[c] = "uncleaned"
    BY <1>2, <1>3 DEF Goes
<1>4. CASE PrepareSandbox(a)
  <2>1. attempts' = [attempts EXCEPT ![a].status = "running"]
    BY <1>4 DEF PrepareSandbox
  <2>2. /\ DOMAIN attempts' = DOMAIN attempts /\ attempts'[a].status = "running"
        /\ \A c \in DOMAIN attempts : c # a => attempts'[c] = attempts[c]
    BY <1>1, <2>1 DEF Attempt
  <2>3. attempts[a].status = "pending"
    BY <1>1, <1>4 DEF PrepareSandbox, Goes, StageOf
  <2>4. \A c \in DOMAIN attempts : executor[c] = "uncleaned" => executor'[c] = "uncleaned"
    BY <1>3, <1>4 DEF PrepareSandbox
  <2>5. \A c \in DOMAIN attempts :
            \/ attempts'[c].status = attempts[c].status
            \/ {attempts[c].status, attempts'[c].status} \subseteq {"pending", "running"}
    BY <2>2, <2>3
  <2>6. QED
    BY <1>1, <1>4, <2>2, <2>4, <2>5, StatusIsKept DEF PrepareSandbox
<1>5. CASE RunHermes(a)
  <2>1. PICK result : attempts' = [attempts EXCEPT ![a].proofs = result]
    BY <1>5 DEF RunHermes
  <2>2. /\ DOMAIN attempts' = DOMAIN attempts
        /\ \A c \in DOMAIN attempts : attempts'[c].status = attempts[c].status
    BY <1>1, <2>1 DEF Attempt
  <2>3. \A c \in DOMAIN attempts : executor[c] = "uncleaned" => executor'[c] = "uncleaned"
    BY <1>3, <1>5 DEF RunHermes
  <2>4. QED
    BY <1>1, <1>5, <2>2, <2>3, StatusIsKept DEF RunHermes
<1>6. CASE FinishAttempt(a)
  <2>0. task' = [task EXCEPT !.status = IF Passed(a) THEN "awaiting_validation" ELSE "failed"]
    BY <1>6 DEF FinishAttempt
  <2>1. CASE ~Passed(a)
    <3>1. task'.status = "failed"
      BY <2>0, <2>1 DEF GuidedIInv, GuidedTypeOK
    <3>2. QED
      BY <3>1, StatusIsExcused
  <2>2. CASE Passed(a)
    <3>1. task'.status = "awaiting_validation"
      BY <2>0, <2>2 DEF GuidedIInv, GuidedTypeOK
    <3>2. attempts' = [attempts EXCEPT ![a].status = "awaiting_functional_validation",
                                       ![a].testsPassed = Passed(a),
                                       ![a].evidenceComplete = Passed(a)]
      BY <1>6, <2>2 DEF FinishAttempt
    <3>3. a \in DOMAIN attempts' /\ attempts'[a].status = "awaiting_functional_validation"
      BY <1>1, <3>2 DEF Attempt
    <3>4. QED
      BY <3>1, <3>3 DEF StatusFollowsAttempts
  <2>3. QED
    BY <2>1, <2>2
<1>7. CASE FailExecution(a)
  <2>1. \A c \in DOMAIN attempts : executor[c] = "uncleaned" => executor'[c] = "uncleaned"
    BY <1>3, <1>7 DEF FailExecution, Executing
  <2>2. QED
    BY <1>1, <1>7, <2>1, StatusIsKept DEF FailExecution
<1>8. CASE RefuseAttempt(a)
  <2>1. task'.status = "failed"
    BY <1>8 DEF RefuseAttempt, GuidedIInv, GuidedTypeOK
  <2>2. QED
    BY <2>1, StatusIsExcused
<1>9. CASE CleanUp(a)
  <2>1. \A c \in DOMAIN attempts : executor[c] = "uncleaned" => executor'[c] = "uncleaned"
    BY <1>3, <1>9 DEF CleanUp
  <2>2. QED
    BY <1>1, <1>9, <2>1, StatusIsKept DEF CleanUp
\* The attempt fails, and the task has yet to.
<1>10. CASE FailCleanup(a)
  <2>1. /\ attempts' = [attempts EXCEPT ![a].status = "failed", ![a].evidenceComplete = FALSE]
        /\ executor[a] = "cleanup" /\ executor' = [executor EXCEPT ![a] = "uncleaned"]
        /\ UNCHANGED <<task, faults>>
    BY <1>10 DEF FailCleanup, Goes
  <2>2. /\ DOMAIN attempts' = DOMAIN attempts /\ executor'[a] = "uncleaned"
        /\ \A c \in DOMAIN attempts : c # a => attempts'[c] = attempts[c]
    BY <1>1, <1>2, <2>1
  <2>3. task.status = "running" =>
            \/ \E c \in DOMAIN attempts' : attempts'[c].status \in {"pending", "running"}
            \/ faults > 0
    <3> SUFFICES ASSUME task.status = "running", ~(faults > 0)
                 PROVE  \E c \in DOMAIN attempts' : attempts'[c].status \in {"pending", "running"}
      OBVIOUS
    <3>1. PICK c \in DOMAIN attempts : attempts[c].status \in {"pending", "running"}
      BY DEF StatusFollowsAttempts
    <3>2. c # a
      BY <1>1, <2>1, <3>1 DEF StageOf
    <3>3. QED
      BY <2>2, <3>1, <3>2
  <2>4. \E c \in DOMAIN attempts' : executor'[c] = "uncleaned"
    BY <1>1, <2>2
  <2>5. QED
    BY <2>1, <2>3, <2>4 DEF StatusFollowsAttempts
<1>11. CASE CloseUncleaned(a)
  <2>1. task'.status = "failed"
    BY <1>11 DEF CloseUncleaned, GuidedIInv, GuidedTypeOK
  <2>2. QED
    BY <2>1, StatusIsExcused
<1>12. CASE LoseRefusal(a)
    BY <1>1, <1>12, StatusIsExcused DEF LoseRefusal
<1>13. QED
    BY <1>4, <1>5, <1>6, <1>7, <1>8, <1>9, <1>10, <1>11, <1>12 DEF Execute

LEMMA GuidedNextKeepsStatus ==
    GuidedIInv /\ StatusFollowsAttempts /\ [GuidedNext]_guidedVars => StatusFollowsAttempts'
<1> SUFFICES ASSUME GuidedIInv, StatusFollowsAttempts, [GuidedNext]_guidedVars
             PROVE  StatusFollowsAttempts'
    OBVIOUS
<1>0. faults \in Nat /\ faults >= faults
    BY GuidedAssumption DEF GuidedIInv, GuidedTypeOK
\* A step of people writes neither the attempts nor the status.
<1>1. ASSUME UNCHANGED <<task, attempts, executor, faults>> PROVE StatusFollowsAttempts'
    BY <1>1 DEF StatusFollowsAttempts
<1>2. CASE UNCHANGED guidedVars
    BY <1>1, <1>2 DEF guidedVars
<1>3. CASE createGuidedTaskRevision
  <2>1. ASSUME NEW revision, NEW status \in {"draft", "ready"}, Revises(revision, status)
        PROVE  StatusFollowsAttempts'
    BY <2>1, StatusIsExcused DEF Revises
  <2>2. QED
    BY <1>3, <2>1 DEF createGuidedTaskRevision
<1>4. CASE AskDecision
    BY <1>1, <1>4 DEF AskDecision
<1>5. ASSUME NEW at, DecideRevision(at) PROVE StatusFollowsAttempts'
    BY <1>1, <1>5 DEF DecideRevision, Decided
<1>6. ASSUME NEW k \in Keys, loadAttemptSnapshot(k) \/ RefuseLaunch(k)
      PROVE  StatusFollowsAttempts'
    BY <1>1, <1>6 DEF loadAttemptSnapshot, RefuseLaunch
<1>7. CASE CrashGuided
    BY <1>0, <1>7, StatusIsExcused DEF CrashGuided
<1>8. QED
    BY <1>2, <1>3, <1>4, <1>5, <1>6, <1>7, DecisionsKeepStatus, CreationKeepsStatus,
       ExecutionKeepsStatus DEF GuidedNext

\* The status of the task, which three actors write beside the attempts, is that of an
\* attempt, but for an attempt whose cleanup has failed and the task is yet to be told,
\* and for what a fault has left.
THEOREM StatusesAreAccountedFor == GuidedSpec => []StatusFollowsAttempts
<1>1. GuidedInit => StatusFollowsAttempts
    BY DEF GuidedInit, StatusFollowsAttempts
<1>2. QED
    BY <1>1, GuidedNextKeepsStatus, GuidedIsInductive, PTL DEF GuidedSpec
=============================================================================
