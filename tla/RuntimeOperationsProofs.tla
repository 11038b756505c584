----------------------- MODULE RuntimeOperationsProofs -----------------------
(***************************************************************************)
(* The long operations on the runtime for any number of runs, updates and  *)
(* changes of key, any number of crashes and of migrations: they keep to   *)
(* the protocol of the guard, the machine is changed by the holder of the  *)
(* lease, and, as long as none of them crosses a migration that is not     *)
(* over, the data, the journals, the key and the checkpoints of the        *)
(* updates are what they have to be.                                       *)
(*                                                                         *)
(* None of these is inductive by itself.  That the machine is changed      *)
(* under the lease needs LeaseIsHeld, which ties the program counters of   *)
(* the three operations to the lease.  The rest needs, on top of it, that  *)
(* a migration is alone from its first write to its last (Turns), and      *)
(* Known: what each program counter knows of the machine (TaskKnows,       *)
(* UpdateKnows, RotationKnows), that what a checkpoint, a backup or the    *)
(* container that is kept would bring back is sound (HostIsSound), and     *)
(* that the key is settled when nobody has it in hand (KeyIsSettled).      *)
(***************************************************************************)
EXTENDS RuntimeOperations, FiniteSetTheorems, TLAPS

USE HostAssumption, MigrationAssumption, OperationsAssumption,
    ExclusionAssumption

-----------------------------------------------------------------------------
(* The guard by itself: it decides on a number of reservations, so that    *)
(* the exclusion of the requests rests on the count being exact; the       *)
(* inductive invariant is their conjunction.                               *)
ExclusionInv == ExclusionTypeOK /\ ReservationsAreCounted /\ MutualExclusion

USE DEF ExclusionInv, ExclusionTypeOK, ReservationsAreCounted, MutualExclusion

\* The requests that hold a reservation are finitely many.
LEMMA HoldersAreFinite ==
    ASSUME ExclusionTypeOK
    PROVE  IsFiniteSet(holders) /\ Cardinality(holders) \in Nat
<1>1. IsFiniteSet(holders)
    BY FS_Subset
<1>2. Cardinality(holders) \in Nat
    BY <1>1, FS_CardinalityType
<1>3. QED
    BY <1>1, <1>2

\* No reservation is counted when nobody holds one, and conversely.
LEMMA NoReservationNoHolder ==
    ASSUME ExclusionInv
    PROVE  (runReservations = 0) <=> (holders = {})
BY HoldersAreFinite, FS_EmptySet

\* Giving a reservation back takes one holder away from the count.
LEMMA GivesBackKeepsTheCount ==
    ASSUME ExclusionInv, NEW r \in Runs, GivesBack(r)
    PROVE  /\ runReservations' \in Nat
           /\ runReservations' = Cardinality(holders')
           /\ holders' \subseteq holders
<1>1. holders # {} /\ runReservations # 0
    BY NoReservationNoHolder DEF GivesBack
<1>2. Cardinality(holders \ {r}) = Cardinality(holders) - 1
    BY HoldersAreFinite, FS_RemoveElement DEF GivesBack
<1>3. QED
    BY <1>1, <1>2, HoldersAreFinite DEF GivesBack

LEMMA ExclusionInitially == ExclusionInit => ExclusionInv
BY FS_EmptySet DEF ExclusionInit

LEMMA ExclusionStep ==
    ExclusionInv /\ [ExclusionNext]_exclusionVars => ExclusionInv'
<1> SUFFICES ASSUME ExclusionInv, [ExclusionNext]_exclusionVars
             PROVE  ExclusionInv'
    OBVIOUS
<1>1. ASSUME NEW m \in Mutators, AcquireMutationLease(m)
      PROVE  ExclusionInv'
    BY <1>1, NoReservationNoHolder DEF AcquireMutationLease
<1>2. ASSUME NEW m \in Mutators, ReleaseMutationLease(m)
      PROVE  ExclusionInv'
    BY <1>2 DEF ReleaseMutationLease
<1>3. ASSUME NEW r \in Runs, AcquireRunStartLease(r)
      PROVE  ExclusionInv'
    <2>1. Cardinality(holders \union {r}) = Cardinality(holders) + 1
        BY <1>3, HoldersAreFinite, FS_AddElement DEF AcquireRunStartLease
    <2>2. QED
        BY <1>3, <2>1 DEF AcquireRunStartLease
<1>4. ASSUME NEW r \in Runs, ReleaseRunStart(r)
      PROVE  ExclusionInv'
    BY <1>4, GivesBackKeepsTheCount DEF ReleaseRunStart
<1>5. ASSUME NEW r \in Runs, HandOver(r)
      PROVE  ExclusionInv'
    BY <1>5, GivesBackKeepsTheCount DEF HandOver
<1>6. ASSUME NEW r \in Runs, Follow(r)
      PROVE  ExclusionInv'
    BY <1>6 DEF Follow
<1>7. ASSUME NEW r \in Runs, Unfollow(r)
      PROVE  ExclusionInv'
    BY <1>7 DEF Unfollow
<1>8. CASE Restart
    BY <1>8, FS_EmptySet DEF Restart
<1>9. CASE UNCHANGED exclusionVars
    BY <1>9 DEF exclusionVars
<1>10. QED
    BY <1>1, <1>2, <1>3, <1>4, <1>5, <1>6, <1>7, <1>8, <1>9 DEF ExclusionNext

\* The guard is well typed, its count is exact and it excludes the long operations
\* from the runs, in every behaviour.
THEOREM ExclusionIsKept ==
    ExclusionSpec => [](ExclusionTypeOK /\ ReservationsAreCounted /\ MutualExclusion)
<1>1. ExclusionSpec => []ExclusionInv
    BY ExclusionInitially, ExclusionStep, PTL DEF ExclusionSpec
<1>2. QED
    BY <1>1, PTL

HIDE DEF ExclusionInv, ExclusionTypeOK, ReservationsAreCounted, MutualExclusion

-----------------------------------------------------------------------------
(* The guard under the operations *)

\* The `finally` of withRuntimeMutationLease is a step of the guard, or none.
LEMMA LeavesIsARelease ==
    ASSUME NEW m \in Mutators, Leaves(m)
    PROVE  [ExclusionNext]_exclusionVars
BY DEF Leaves, ReleaseMutationLease, ExclusionNext, exclusionVars

LEMMA AcquireIsAStep ==
    ASSUME NEW m \in Mutators, AcquireMutationLease(m)
    PROVE  [ExclusionNext]_exclusionVars
BY DEF ExclusionNext

\* Every step of the migration is a step of the guard or leaves it alone.
LEMMA MigrationKeepsTheGuard ==
    ASSUME CreatePlan \/ ExpirePlan \/ StartMigration \/ TaskStep
    PROVE  [ExclusionNext]_exclusionVars
<1>1. CASE CreatePlan \/ ExpirePlan \/ StartMigration \/ Succeeds \/ Refuses \/ Cleans
            \/ RecordsUnproven \/ Verifies
    BY <1>1 DEF CreatePlan, ExpirePlan, StartMigration, Succeeds, Refuses, Cleans,
                RecordsUnproven, Verifies, exclusionVars
<1>2. ASSUME NEW outcomes, NEW next, NEW catch, Sends(outcomes, next, catch)
      PROVE  [ExclusionNext]_exclusionVars
    BY <1>2, LeavesIsARelease DEF Sends
<1>3. ASSUME NEW catch, Gives(catch) \/ Activates(catch)
      PROVE  [ExclusionNext]_exclusionVars
    BY <1>3, LeavesIsARelease DEF Gives, Activates
<1>4. CASE TakesLease
    BY <1>4, AcquireIsAStep DEF TakesLease
<1>5. CASE BootExamines
    BY <1>5, AcquireIsAStep DEF BootExamines
<1>6. CASE RecordsRollback
    BY <1>6, LeavesIsARelease DEF RecordsRollback
<1>7. CASE Interrupted \/ ActivatesTask
    BY <1>7, <1>3 DEF Interrupted, ActivatesTask
<1>8. CASE Revalidates \/ Copies \/ CutsOver
    BY <1>8, <1>2 DEF Revalidates, Copies, CutsOver
<1>9. CASE RollsBack
    BY <1>9, <1>2, <1>3 DEF RollsBack
<1>10. CASE BootInspects
    BY <1>10, <1>2 DEF BootInspects
<1>11. CASE BootAdmits
    BY <1>11, <1>3, LeavesIsARelease DEF BootAdmits
<1>12. QED
    BY <1>1, <1>4, <1>5, <1>6, <1>7, <1>8, <1>9, <1>10, <1>11 DEF TaskStep

LEMMA UpdateKeepsTheGuard ==
    ASSUME UpdateStep
    PROVE  [ExclusionNext]_exclusionVars
<1>1. ASSUME NEW p \in Pollers,
             (\E u \in Updates : PollReads(p, u)) \/ PollChecks(p) \/ PollPlans(p) \/ PollWrites(p)
      PROVE  [ExclusionNext]_exclusionVars
    BY <1>1 DEF PollReads, PollChecks, PollPlans, PollWrites, exclusionVars
<1>2. ASSUME NEW u \in Updates, StartUpdate(u) \/ UpdaterStep(u)
      PROVE  [ExclusionNext]_exclusionVars
    <2>1. u \in Mutators
        OBVIOUS
    <2>2. CASE StartUpdate(u) \/ RegistersRunner(u) \/ MarksRunning(u) \/ ClosesUpdate(u)
        BY <2>2 DEF StartUpdate, RegistersRunner, MarksRunning, ClosesUpdate, exclusionVars
    <2>3. CASE BeginsUpdate(u)
        BY <2>1, <2>3, AcquireIsAStep DEF BeginsUpdate
    <2>4. CASE GivesUpUpdate(u)
        BY <2>1, <2>4, LeavesIsARelease DEF GivesUpUpdate
    <2>5. CASE AppliesByManager(u) \/ AppliesByDocker(u)
        BY <2>1, <2>5, LeavesIsARelease DEF AppliesByManager, AppliesByDocker
    <2>6. CASE RestoresDocker(u) \/ RechecksDocker(u)
        BY <2>1, <2>6, LeavesIsARelease DEF RestoresDocker, RechecksDocker
    <2>7. CASE VerifiesUpdate(u) \/ CleansUpdate(u) \/ UndoesDocker(u)
        BY <2>1, <2>7, LeavesIsARelease DEF VerifiesUpdate, CleansUpdate, UndoesDocker, exclusionVars
    <2>8. QED
        BY <1>2, <2>2, <2>3, <2>4, <2>5, <2>6, <2>7 DEF UpdaterStep
<1>3. QED
    BY <1>1, <1>2 DEF UpdateStep

LEMMA RotationKeepsTheGuard ==
    ASSUME RotationStep
    PROVE  [ExclusionNext]_exclusionVars
<1>1. PICK k \in Rotations :
        \/ \E imports \in BOOLEAN : PlanRotation(k, imports)
        \/ BeginsRotation(k) \/ ImportsToken(k) \/ WritesToken(k) \/ FailsRotation(k)
        \/ SavesCandidate(k) \/ CommitsToken(k) \/ RecordsSuccess(k) \/ UndoesToken(k)
        \/ ClosesRotation(k)
    BY DEF RotationStep
<1>2. k \in Mutators
    OBVIOUS
<1>3. CASE BeginsRotation(k)
    BY <1>2, <1>3, AcquireIsAStep DEF BeginsRotation
<1>4. CASE RecordsSuccess(k) \/ ClosesRotation(k)
    BY <1>2, <1>4, LeavesIsARelease DEF RecordsSuccess, ClosesRotation
<1>5. CASE (\E imports \in BOOLEAN : PlanRotation(k, imports)) \/ ImportsToken(k)
            \/ WritesToken(k) \/ FailsRotation(k) \/ SavesCandidate(k) \/ CommitsToken(k)
            \/ UndoesToken(k)
    BY <1>5 DEF PlanRotation, ImportsToken, WritesToken, FailsRotation, SavesCandidate,
                CommitsToken, UndoesToken, exclusionVars
<1>6. QED
    BY <1>1, <1>3, <1>4, <1>5

\* Whatever an operation, a request or a crash does is a step of the guard.
LEMMA OperationsKeepTheGuard ==
    [OpsNext]_opsVars => [ExclusionNext]_exclusionVars
<1> SUFFICES ASSUME [OpsNext]_opsVars
             PROVE  [ExclusionNext]_exclusionVars
    OBVIOUS
<1>1. CASE MigrationStep
    BY <1>1, MigrationKeepsTheGuard DEF MigrationStep
<1>2. CASE UpdateStep \/ RotationStep
    BY <1>2, UpdateKeepsTheGuard, RotationKeepsTheGuard
<1>3. CASE ConfigStep
    BY <1>3 DEF ConfigStep, SaveDirect, ConnectSsh, ActivateWorkspace, DeleteConfig, Configures
<1>4. CASE RunStep
    BY <1>4 DEF RunStep, ExclusionNext
<1>5. CASE Crash
    BY <1>5 DEF Crash, ExclusionNext
<1>6. CASE UNCHANGED opsVars
    BY <1>6 DEF opsVars, exclusionVars
<1>7. QED
    BY <1>1, <1>2, <1>3, <1>4, <1>5, <1>6 DEF OpsNext

\* The long operations, with the requests and the crashes around them, implement
\* the guard of the runtime.
THEOREM OperationsImplementTheGuard == OpsSpec => OpsImplementExclusion
<1>1. OpsInit => ExclusionInit
    BY DEF OpsInit, HostInit
<1>2. QED
    BY <1>1, OperationsKeepTheGuard, PTL DEF OpsSpec, OpsImplementExclusion, ExclusionSpec

\* Updates, migrations and changes of key exclude the runs: no request holds a
\* reservation and no run is followed while one of them holds the lease.
THEOREM OperationsExcludeRuns ==
    OpsSpec => [](MutualExclusion /\ ReservationsAreCounted)
BY OperationsImplementTheGuard, ExclusionIsKept, PTL DEF OpsImplementExclusion

-----------------------------------------------------------------------------
(* The commands *)

\* The outcomes of a script are among the states it goes through; a success is the
\* last of them.
LEMMA OutcomesLie ==
    ASSUME NEW h, NEW through, NEW end, NEW o \in Outcomes(h, through, end)
    PROVE  /\ o.host = h \/ o.host = end \/ o.host \in through
           /\ o.ok \in BOOLEAN
           /\ o.ok => o.host = end
<1>1. CASE o = [host |-> end, ok |-> TRUE]
    BY <1>1
<1>2. CASE \E s \in {h, end} \union through : o = [host |-> s, ok |-> FALSE]
    BY <1>2
<1>3. QED
    BY <1>1, <1>2 DEF Outcomes

LEMMA RefusedLies ==
    ASSUME NEW h, NEW o \in Refused(h)
    PROVE  o.host = h /\ o.ok = FALSE
<1>1. o = [host |-> h, ok |-> FALSE]
    BY DEF Refused
<1>2. QED
    BY <1>1

\* What a script leaves alone of a machine h: the container, what is kept beside it,
\* the containers that updates have renamed (and it makes no backup of theirs).
SamePlace(h, g)  == g.mount = h.mount /\ g.token = h.token /\ g.project = h.project
SameKept(h, g)   == g.kept = h.kept /\ g.keptAs = h.keptAs
SameLegacy(h, g) ==
    \A u \in Updates : g.left[u].legacy = h.left[u].legacy /\ (g.left[u].backup => h.left[u].backup)

\* What the scripts of the migration may do to the machine.
LEMMA PrepareChanges ==
    ASSUME NEW h \in Hosts, NEW o \in Prepare(h)
    PROVE  /\ o.host \in Hosts /\ o.ok \in BOOLEAN
           /\ SamePlace(h, o.host) /\ SameKept(h, o.host) /\ o.host.left = h.left
           /\ o.ok => o.host.env = h.token
<1> DEFINE Good(g) == g \in Hosts /\ SamePlace(h, g) /\ SameKept(h, g) /\ g.left = h.left
           empty == [h EXCEPT !.data = "empty"]
           env   == [empty EXCEPT !.compose = "env", !.env = h.token]
           end   == [env EXCEPT !.compose = IF h.version = "old" THEN "old" ELSE "new"]
<1>1. o \in Outcomes(h, {empty, env}, end)
    BY DEF Prepare
<1>2. Good(h) /\ Good(empty)
    BY DEF Hosts, SamePlace, SameKept
<1>3. Good(env) /\ env.env = h.token
    <2> HIDE DEF empty
    <2>1. h.token \in Tokens
        BY DEF Hosts
    <2>2. QED
        BY <1>2, <2>1 DEF Hosts, SamePlace, SameKept, Images
<1> HIDE DEF env
<1>4. Good(end) /\ end.env = h.token
    BY <1>3 DEF Hosts, SamePlace, SameKept, Images
<1> HIDE DEF empty, end, Good
<1>5. /\ o.ok \in BOOLEAN /\ (o.ok => o.host = end)
      /\ o.host = h \/ o.host = end \/ o.host \in {empty, env}
    BY <1>1, OutcomesLie
<1>6. Good(o.host) /\ (o.ok => o.host.env = h.token)
    BY <1>2, <1>3, <1>4, <1>5
<1>7. QED
    BY <1>5, <1>6 DEF Good

LEMMA CopyChanges ==
    ASSUME NEW h \in Hosts, NEW o \in BackupAndCopy(h)
    PROVE  /\ o.host \in Hosts /\ o.ok \in BOOLEAN
           /\ SamePlace(h, o.host) /\ SameKept(h, o.host)
           /\ o.host.left = h.left /\ o.host.env = h.env
           /\ o.ok => o.host.data = "full"
<1> DEFINE Good(g) == /\ g \in Hosts /\ SamePlace(h, g) /\ SameKept(h, g)
                      /\ g.left = h.left /\ g.env = h.env
           stopped == [h EXCEPT !.running = FALSE]
           partial == [stopped EXCEPT !.data = "partial"]
           full    == [stopped EXCEPT !.data = "full"]
<1>1. o \in Outcomes(h, {stopped, partial}, full)
    BY DEF BackupAndCopy
<1>2. Good(h) /\ Good(stopped)
    BY DEF Hosts, SamePlace, SameKept
<1> HIDE DEF stopped
<1>3. Good(partial) /\ Good(full) /\ full.data = "full"
    BY <1>2 DEF Hosts, SamePlace, SameKept
<1> HIDE DEF partial, full, Good
<1>4. /\ o.ok \in BOOLEAN /\ (o.ok => o.host = full)
      /\ o.host = h \/ o.host = full \/ o.host \in {stopped, partial}
    BY <1>1, OutcomesLie
<1>5. Good(o.host) /\ (o.ok => o.host.data = "full")
    BY <1>2, <1>3, <1>4
<1>6. QED
    BY <1>4, <1>5 DEF Good

\* A cutover keeps the container with its key, and gives the new one that of runtime.env.
CutOver(h, g) ==
    /\ g.kept /\ g.keptAs.token = h.token /\ g.keptAs.project = h.project
    /\ \/ g.mount = "none" /\ g.token = h.token /\ g.project = h.project
       \/ g.mount = "bind" /\ g.token = h.env /\ g.project = "managed"

LEMMA CutoverChanges ==
    ASSUME NEW h \in Hosts, NEW o \in Cutover(h)
    PROVE  /\ o.host \in Hosts /\ o.ok \in BOOLEAN
           /\ o.host.data = h.data /\ o.host.env = h.env /\ o.host.left = h.left
           /\ o.host = h \/ CutOver(h, o.host)
           /\ o.ok => CutOver(h, o.host)
<1> DEFINE Good(g) == /\ g \in Hosts /\ g.data = h.data /\ g.env = h.env /\ g.left = h.left
                      /\ CutOver(h, g)
           renamed == Renamed(h)
           created == Created(renamed)
           started == [created EXCEPT !.running = TRUE]
<1>1. o \in Outcomes(h, {renamed, created}, started)
    BY DEF Cutover
<1>2. Good(renamed)
    <2>1. [token |-> h.token, version |-> h.version, project |-> h.project]
              \in [token : Tokens, version : Versions, project : Projects]
        BY DEF Hosts
    <2>2. QED
        BY <2>1 DEF Hosts, Renamed, CutOver, Mounts
<1>3. Good(created) /\ created.mount = "bind" /\ created.token = h.env /\ created.project = "managed"
    <2> HIDE DEF renamed
    <2>1. h.env \in Tokens /\ "managed" \in Projects /\ "bind" \in Mounts
        BY DEF Hosts, Projects, Mounts
    <2>2. QED
        BY <1>2, <2>1 DEF Hosts, Created, CutOver
<1> HIDE DEF renamed, created
<1>4. Good(started)
    BY <1>3 DEF Hosts, CutOver
<1> HIDE DEF started, Good
<1>5. /\ o.ok \in BOOLEAN /\ (o.ok => o.host = started)
      /\ o.host = h \/ o.host = started \/ o.host \in {renamed, created}
    BY <1>1, OutcomesLie
<1>6. o.host = h \/ Good(o.host)
    BY <1>2, <1>3, <1>4, <1>5
<1>7. o.ok => Good(o.host)
    BY <1>4, <1>5
<1>8. QED
    BY <1>5, <1>6, <1>7 DEF Good

\* The deployment is set aside: nothing else of the machine changes.
LEMMA SetAsideChanges ==
    ASSUME NEW h \in Hosts
    PROVE  LET g == SetAside(h) IN
           /\ g \in Hosts /\ SamePlace(h, g) /\ SameKept(h, g) /\ SameLegacy(h, g)
           /\ g.env = h.env /\ g.running = h.running
<1> DEFINE left == [u \in Updates |->
               [h.left[u] EXCEPT !.backup = h.left[u].backup /\ h.left[u].project # "managed"]]
           g    == [h EXCEPT !.data = "missing", !.compose = "none", !.left = left]
<1>1. h.left \in [Updates -> Checkpoints]
    BY DEF Hosts
<1>2. ASSUME NEW u \in Updates
      PROVE  /\ left[u] \in Checkpoints /\ left[u].legacy = h.left[u].legacy
             /\ left[u].backup => h.left[u].backup
    <2>1. h.left[u] \in Checkpoints
        BY <1>1
    <2>2. (h.left[u].backup /\ h.left[u].project # "managed") \in BOOLEAN
        OBVIOUS
    <2>3. QED
        BY <2>1, <2>2 DEF Checkpoints
<1>3. left \in [Updates -> Checkpoints]
    BY <1>2
<1>4. SetAside(h) = g
    BY DEF SetAside
<1> HIDE DEF left
<1>5. /\ g \in Hosts /\ SamePlace(h, g) /\ SameKept(h, g) /\ g.left = left
      /\ g.env = h.env /\ g.running = h.running
    BY <1>3 DEF Hosts, SamePlace, SameKept
<1> HIDE DEF g
<1>6. SameLegacy(h, g)
    BY <1>2, <1>5 DEF SameLegacy
<1>7. QED
    BY <1>4, <1>5, <1>6

\* A rollback that finds a kept container brings it back with its own key, or has not
\* reached that yet; otherwise it starts the one there is.
BroughtBack(h, g) ==
    ~g.kept /\ g.mount = "volume" /\ g.token = h.keptAs.token /\ g.project = h.keptAs.project
NotYet(h, g) ==
    /\ SameKept(h, g) /\ g.token = h.token /\ g.project = h.project
    /\ g.mount \in {h.mount, "none"} /\ g.data = h.data

LEMMA RollbackChanges ==
    ASSUME NEW h \in Hosts, NEW o \in Rollback(h)
    PROVE  /\ o.host \in Hosts /\ o.ok \in BOOLEAN
           /\ SameLegacy(h, o.host) /\ o.host.env = h.env
           /\ h.kept => NotYet(h, o.host) \/ BroughtBack(h, o.host)
           /\ ~h.kept => SamePlace(h, o.host) /\ ~o.host.kept
           /\ o.ok => o.host.running /\ (h.kept => BroughtBack(h, o.host))
<1> DEFINE Good(g) == g \in Hosts /\ SameLegacy(h, g) /\ g.env = h.env
<1>0. Good(h) /\ h.keptAs \in [token : Tokens, version : Versions, project : Projects]
    BY DEF Hosts, SameLegacy
<1>1. CASE h.kept
    <2> DEFINE Back(g)  == Good(g) /\ BroughtBack(h, g)
               removed  == [h EXCEPT !.mount = "none", !.running = FALSE]
               restored == [removed EXCEPT !.mount = "volume", !.kept = FALSE,
                                 !.token = h.keptAs.token, !.version = h.keptAs.version,
                                 !.project = h.keptAs.project, !.keptAs = NotKept]
               started  == [restored EXCEPT !.running = TRUE]
               missing  == [started EXCEPT !.data = "missing"]
    <2>1. o \in Outcomes(h, {removed, restored, started, missing}, SetAside(started))
        BY <1>1 DEF Rollback
    <2>2. Good(removed) /\ NotYet(h, removed)
        BY DEF Hosts, Mounts, SameLegacy, NotYet, SameKept
    <2> HIDE DEF removed
    <2>3. Back(restored)
        <3>1. NotKept \in [token : Tokens, version : Versions, project : Projects]
            BY DEF NotKept, Tokens, Versions, Projects
        <3>2. /\ h.keptAs.token \in Tokens /\ h.keptAs.version \in Versions
              /\ h.keptAs.project \in Projects /\ "volume" \in Mounts
            BY <1>0 DEF Mounts
        <3>3. QED
            BY <2>2, <3>1, <3>2 DEF Hosts, SameLegacy, BroughtBack
    <2> HIDE DEF restored
    <2>4. Back(started) /\ started.running
        BY <2>3 DEF Hosts, SameLegacy, BroughtBack
    <2> HIDE DEF started
    <2>5. Back(missing)
        BY <2>4 DEF Hosts, SameLegacy, BroughtBack
    <2> DEFINE end == SetAside(started)
    <2>6. Back(end) /\ end.running
        <3>1. /\ end \in Hosts /\ SamePlace(started, end) /\ SameKept(started, end)
              /\ SameLegacy(started, end) /\ end.env = started.env /\ end.running = started.running
            BY <2>4, SetAsideChanges
        <3> HIDE DEF end
        <3>2. QED
            BY <2>4, <3>1 DEF SamePlace, SameKept, SameLegacy, BroughtBack
    <2> HIDE DEF missing, end
    <2>7. /\ o.ok \in BOOLEAN /\ (o.ok => o.host = end)
          /\ o.host = h \/ o.host = end \/ o.host \in {removed, restored, started, missing}
        BY <2>1, OutcomesLie DEF end
    <2>8. NotYet(h, h)
        BY DEF NotYet, SameKept
    <2> HIDE DEF Good
    <2>9. Good(o.host) /\ (NotYet(h, o.host) \/ BroughtBack(h, o.host))
        BY <1>0, <2>2, <2>3, <2>4, <2>5, <2>6, <2>7, <2>8
    <2>10. o.ok => o.host.running /\ BroughtBack(h, o.host)
        BY <2>6, <2>7
    <2>11. QED
        BY <1>1, <2>7, <2>9, <2>10 DEF Good
<1>2. CASE ~h.kept
    <2> DEFINE Same(g) == Good(g) /\ SamePlace(h, g) /\ ~g.kept
               started == [h EXCEPT !.running = TRUE]
               missing == [started EXCEPT !.data = "missing"]
               end     == SetAside(started)
    <2>1. Same(h)
        BY <1>0, <1>2 DEF SamePlace
    <2>2. Same(started) /\ started.running
        BY <1>2 DEF Hosts, SameLegacy, SamePlace
    <2> HIDE DEF started
    <2>3. Same(missing)
        BY <2>2 DEF Hosts, SameLegacy, SamePlace
    <2>4. Same(end) /\ end.running
        <3>1. /\ end \in Hosts /\ SamePlace(started, end) /\ SameKept(started, end)
              /\ SameLegacy(started, end) /\ end.env = started.env /\ end.running = started.running
            BY <2>2, SetAsideChanges
        <3> HIDE DEF end
        <3>2. QED
            BY <2>2, <3>1 DEF SamePlace, SameKept, SameLegacy
    <2> HIDE DEF missing, Good
    <2>5. CASE o \in Refused(h)
        <3>1. o.host = h /\ o.ok = FALSE
            BY <2>5, RefusedLies
        <3>2. QED
            BY <1>2, <2>1, <3>1 DEF Good
    <2>6. CASE o \in Outcomes(h, {started, missing}, end)
        <3> HIDE DEF end
        <3>1. /\ o.ok \in BOOLEAN /\ (o.ok => o.host = end)
              /\ o.host = h \/ o.host = end \/ o.host \in {started, missing}
            BY <2>6, OutcomesLie
        <3>2. Same(o.host) /\ (o.ok => o.host.running)
            BY <2>1, <2>2, <2>3, <2>4, <3>1
        <3>3. QED
            BY <1>2, <3>1, <3>2 DEF Good
    <2>7. o \in Refused(h) \/ o \in Outcomes(h, {started, missing}, end)
        BY <1>2 DEF Rollback, started, missing
    <2>8. QED
        BY <2>5, <2>6, <2>7
<1>3. QED
    BY <1>1, <1>2

LEMMA CleanChanges ==
    ASSUME NEW h \in Hosts, NEW o \in Clean(h) \union Refused(h)
    PROVE  /\ o.host \in Hosts /\ o.ok \in BOOLEAN
           /\ SamePlace(h, o.host) /\ SameKept(h, o.host)
           /\ o.host.left = h.left /\ o.host.env = h.env
           /\ o.host.data = h.data \/ h.data # "full"
<1> DEFINE Good(g) == /\ g \in Hosts /\ SamePlace(h, g) /\ SameKept(h, g)
                      /\ g.left = h.left /\ g.env = h.env /\ (g.data = h.data \/ h.data # "full")
           removed == [h EXCEPT !.compose = "none"]
           data    == IF h.data = "empty" THEN "missing" ELSE h.data
           end     == [removed EXCEPT !.data = data]
<1>1. Good(h) /\ Good(removed)
    BY DEF Hosts, SamePlace, SameKept
<1>2. data \in {"missing", "empty", "partial", "full"} /\ (data = h.data \/ h.data # "full")
    BY DEF Hosts
<1> HIDE DEF removed, data
<1>3. Good(end)
    BY <1>1, <1>2 DEF Hosts, SamePlace, SameKept
<1> HIDE DEF end, Good
<1>4. CASE o \in Refused(h)
    <2>1. o.host = h /\ o.ok = FALSE
        BY <1>4, RefusedLies
    <2>2. QED
        BY <1>1, <2>1 DEF Good
<1>5. CASE o \in Clean(h)
    <2>1. o \in Outcomes(h, {removed}, end)
        BY <1>5 DEF Clean, removed, end, data
    <2>2. o.ok \in BOOLEAN /\ (o.host = h \/ o.host = end \/ o.host \in {removed})
        BY <2>1, OutcomesLie
    <2>3. Good(o.host)
        BY <1>1, <1>3, <2>2
    <2>4. QED
        BY <2>2, <2>3 DEF Good
<1>6. QED
    BY <1>4, <1>5

\* An update of a machine h by u has not touched the container yet; has stopped and
\* renamed it; or has recreated it from the file of the deployment p.
BesideSame(h, g, u) == \A v \in Updates \ {u} : g.left[v] = h.left[v]
BroughtUp(h, g, p) ==
    /\ g.project = p
    /\ IF p = "managed" THEN g.mount = "bind" /\ g.token = h.env /\ (h.data = "full" => g.data = "full")
                        ELSE g.mount = h.mount /\ g.token = h.token /\ g.data = h.data
Recreated(h, g, u, p) ==
    LET left == g.left[u] IN
    /\ left.project = p /\ left.backup /\ left.adopts = (h.project = "none")
    /\ left.legacy => left.adopts /\ left.mount = h.mount /\ left.token = h.token
    /\ \/ ~left.legacy /\ SamePlace(h, g) /\ g.data = h.data
       \/ left.legacy /\ g.mount = "none" /\ g.token = h.token /\ g.project = h.project /\ g.data = h.data
       \/ (left.adopts => left.legacy) /\ BroughtUp(h, g, p)

LEMMA RecreatesChanges ==
    ASSUME NEW h \in Hosts, NEW u \in Updates, NEW p \in Projects, Supports(h, p),
           NEW o \in Recreates(h, u, p)
    PROVE  /\ o.host \in Hosts /\ o.ok \in BOOLEAN
           /\ SameKept(h, o.host) /\ o.host.env = h.env /\ BesideSame(h, o.host, u)
           /\ (o.host = h /\ ~o.ok) \/ Recreated(h, o.host, u, p)
<1> DEFINE left      == [project |-> p, backup |-> TRUE, image |-> Named(h, p), adopts |-> Adopts(h),
                         legacy |-> FALSE, mount |-> "none", token |-> FirstToken, version |-> h.version]
           gone      == [left EXCEPT !.legacy = TRUE, !.mount = h.mount, !.token = h.token]
           backed    == [h EXCEPT !.left[u] = left]
           rewritten == Names(backed, p, "new")
           stopped   == [rewritten EXCEPT !.running = FALSE]
           renamed   == [stopped EXCEPT !.mount = "none", !.left[u] = gone]
           base      == IF Adopts(h) THEN renamed ELSE stopped
           Frame(g)  == /\ g \in Hosts /\ SameKept(h, g) /\ g.env = h.env /\ BesideSame(h, g, u)
           Good(g)   == Frame(g) /\ Recreated(h, g, u, p)
           At(g, l, m) == /\ Frame(g) /\ g.left[u] = l /\ g.mount = m /\ g.token = h.token
                          /\ g.project = h.project /\ g.data = h.data
<1>0. /\ h.left \in [Updates -> Checkpoints] /\ h.mount \in Mounts /\ h.token \in Tokens
      /\ h.version \in Versions /\ Adopts(h) \in BOOLEAN
      /\ (Adopts(h) <=> h.project = "none") /\ FirstToken \in Tokens /\ "none" \in Mounts
    BY DEF Hosts, Adopts, Tokens, Mounts
<1>00. Frame(h)
    BY DEF SameKept, BesideSame
<1>1. CASE Named(h, p) \notin Images
    <2>1. o \in Refused(h)
        BY <1>1 DEF Recreates
    <2>2. o.host = h /\ o.ok = FALSE
        BY <2>1, RefusedLies
    <2>3. QED
        BY <1>00, <2>2
<1>2. CASE Named(h, p) \in Images
    <2>1. left \in Checkpoints /\ gone \in Checkpoints
        <3>1. left \in Checkpoints
            BY <1>0, <1>2 DEF Checkpoints
        <3> HIDE DEF left
        <3>2. gone \in Checkpoints
            BY <1>0, <3>1 DEF Checkpoints
        <3>3. QED
            BY <3>1, <3>2
    <2>2. /\ left.project = p /\ left.backup /\ left.adopts = Adopts(h) /\ ~left.legacy
          /\ gone.project = p /\ gone.backup /\ gone.adopts = Adopts(h) /\ gone.legacy
          /\ gone.mount = h.mount /\ gone.token = h.token
        OBVIOUS
    <2> HIDE DEF left, gone
    <2>3. At(backed, left, h.mount)
        BY <1>0, <2>1 DEF Hosts, SameKept, BesideSame
    <2> HIDE DEF backed
    <2>4. At(rewritten, left, h.mount)
        BY <2>3 DEF Names, Hosts, Images, SameKept, BesideSame
    <2> HIDE DEF rewritten
    <2>5. At(stopped, left, h.mount)
        BY <2>4 DEF Hosts, SameKept, BesideSame
    <2> HIDE DEF stopped
    <2>6. At(renamed, gone, "none")
        BY <1>0, <2>1, <2>5 DEF Hosts, SameKept, BesideSame
    <2> HIDE DEF renamed
    <2>7. \/ Adopts(h) /\ base = renamed /\ At(base, gone, "none")
          \/ ~Adopts(h) /\ base = stopped /\ At(base, left, h.mount)
        BY <2>5, <2>6
    <2>8. ASSUME NEW v \in {"new", "broken"}
          PROVE  Good(Up(base, p, v))
        <3> HIDE DEF base
        <3> DEFINE g == Up(base, p, v)
        <3>0. v \in Versions /\ p \in {"own", "managed"} /\ (Adopts(h) => p = "managed")
            BY <1>0 DEF Versions, Supports
        <3>1. /\ Frame(g) /\ g.left[u] = base.left[u] /\ g.project = p
              /\ IF p = "managed" THEN g.mount = "bind" /\ g.token = h.env
                                       /\ (h.data = "full" => g.data = "full")
                                  ELSE g.mount = base.mount /\ g.token = h.token /\ g.data = h.data
            <4>1. Frame(base) /\ base.token = h.token /\ base.data = h.data
                BY <2>7
            <4> DEFINE up == [Deploys(base, v) EXCEPT !.project = p]
            <4>2. /\ Frame(up) /\ up.left[u] = base.left[u] /\ up.project = p
                  /\ up.mount = base.mount /\ up.token = h.token /\ up.data = h.data
                BY <3>0, <4>1 DEF Deploys, Hosts, Projects, SameKept, BesideSame
            <4>3. g = IF p # "managed" THEN up
                      ELSE [up EXCEPT !.mount = "bind", !.token = h.env,
                                      !.data = IF up.data = "full" THEN "full" ELSE "partial"]
                BY <4>1 DEF Up
            <4> HIDE DEF up, g
            <4>4. CASE p # "managed"
                BY <4>2, <4>3, <4>4
            <4>5. CASE p = "managed"
                BY <4>2, <4>3, <4>5 DEF Hosts, Mounts, SameKept, BesideSame
            <4>6. QED
                BY <4>4, <4>5
        <3> HIDE DEF g
        <3>2. Adopts(h) => Good(g)
            BY <1>0, <2>2, <2>7, <3>0, <3>1 DEF Recreated, BroughtUp
        <3>3. ~Adopts(h) => Good(g)
            BY <1>0, <2>2, <2>7, <3>0, <3>1 DEF Recreated, BroughtUp
        <3>4. QED
            BY <3>2, <3>3 DEF g
    <2>9. Good(backed) /\ Good(rewritten) /\ Good(stopped) /\ Good(base)
        <3>1. ASSUME NEW g, At(g, left, h.mount)
              PROVE  Good(g)
            BY <1>0, <2>2, <3>1 DEF Recreated, SamePlace
        <3>2. At(base, gone, "none") /\ Adopts(h) => Good(base)
            BY <1>0, <2>2 DEF Recreated
        <3> HIDE DEF base, Good, At
        <3>3. QED
            BY <2>3, <2>4, <2>5, <2>7, <3>1, <3>2
    <2> DEFINE end    == Up(base, p, "new")
               broken == [host |-> Up(base, p, "broken"), ok |-> TRUE]
    <2>10. \/ o \in Refused(backed)
           \/ o \in Outcomes(backed, {rewritten, stopped, base}, end)
           \/ o = broken
        BY <1>2 DEF Recreates, backed, rewritten, stopped, base, renamed, gone, left
    <2>11. Good(end) /\ Good(broken.host) /\ broken.ok = TRUE
        BY <2>8
    <2> HIDE DEF base, end, Good
    <2>12. o.ok \in BOOLEAN /\ Good(o.host)
        <3>1. CASE o \in Refused(backed)
            BY <2>9, <3>1, RefusedLies
        <3>2. CASE o \in Outcomes(backed, {rewritten, stopped, base}, end)
            <4>1. /\ o.ok \in BOOLEAN
                  /\ o.host = backed \/ o.host = end \/ o.host \in {rewritten, stopped, base}
                BY <3>2, OutcomesLie
            <4>2. QED
                BY <2>9, <2>11, <4>1
        <3>3. QED
            BY <2>10, <2>11, <3>1, <3>2
    <2>13. QED
        BY <2>12 DEF Good
<1>3. QED
    BY <1>1, <1>2

\* The undoing of an update by u leaves the container as it is; has removed it; has put
\* the renamed one in its place; or has recreated it from the former file.
Restored(h, g, u) ==
    LET left == h.left[u] IN
    \/ g.left[u] = left /\ SamePlace(h, g)
    \/ left.legacy /\ g.left[u] = left /\ g.mount = "none" /\ g.token = h.token /\ g.project = h.project
    \/ left.legacy /\ ~g.left[u].legacy /\ g.mount = left.mount /\ g.token = left.token /\ g.project = "none"
    \/ left.backup /\ ~left.adopts /\ g.left[u] = left /\ g.project = left.project
       /\ IF left.project = "managed" THEN g.mount = "bind" /\ g.token = h.env
                                      ELSE g.mount = h.mount /\ g.token = h.token

LEMMA RestoresChanges ==
    ASSUME NEW h \in Hosts, NEW u \in Updates, NEW o \in Restores(h, u)
    PROVE  /\ o.host \in Hosts /\ o.ok \in BOOLEAN
           /\ SameKept(h, o.host) /\ o.host.env = h.env /\ BesideSame(h, o.host, u)
           /\ h.data = "full" => o.host.data = "full"
           /\ Restored(h, o.host, u)
<1> DEFINE left     == h.left[u]
           file     == Names(h, left.project, left.image)
           removed  == [file EXCEPT !.mount = "none", !.running = FALSE]
           back     == [left EXCEPT !.legacy = FALSE]
           renamed  == [removed EXCEPT !.mount = left.mount, !.token = left.token,
                            !.version = left.version, !.project = "none", !.left[u].legacy = FALSE]
           started  == [file EXCEPT !.running = TRUE]
           again    == [renamed EXCEPT !.running = TRUE]
           stopped  == [file EXCEPT !.running = FALSE]
           version  == IF left.image = ImageOf(left.version) THEN left.version ELSE left.image
           end      == Up(file, left.project, version)
           Frame(g) == /\ g \in Hosts /\ SameKept(h, g) /\ g.env = h.env /\ BesideSame(h, g, u)
                       /\ (h.data = "full" => g.data = "full")
           Good(g)  == Frame(g) /\ Restored(h, g, u)
           Same(g)  == Frame(g) /\ g.left[u] = left /\ SamePlace(h, g) /\ g.data = h.data
<1>0. left \in Checkpoints /\ h.left \in [Updates -> Checkpoints] /\ "none" \in Mounts
    BY DEF Hosts, Mounts
<1>1. /\ left.project \in Projects /\ left.image \in Images /\ left.mount \in Mounts
      /\ left.token \in Tokens /\ left.version \in Versions /\ back \in Checkpoints /\ ~back.legacy
      /\ version \in Versions /\ left.adopts \in BOOLEAN /\ left.legacy \in BOOLEAN
      /\ left.backup \in BOOLEAN
    BY <1>0 DEF Checkpoints, Images, Versions
<1>2. Same(h)
    BY DEF SameKept, BesideSame, SamePlace
<1> HIDE DEF left, back, version
<1>3. Same(file)
    BY <1>1, <1>2 DEF Names, Hosts, SameKept, BesideSame, SamePlace
<1> HIDE DEF file
<1>4. Same(started) /\ Same(stopped)
    BY <1>3 DEF Hosts, SameKept, BesideSame, SamePlace
<1>5. /\ Frame(removed) /\ removed.left[u] = left /\ removed.mount = "none" /\ removed.token = h.token
      /\ removed.project = h.project
    BY <1>0, <1>3 DEF Hosts, SameKept, BesideSame, SamePlace
<1> HIDE DEF removed, started, stopped
<1>6. /\ Frame(renamed) /\ renamed.left[u] = back /\ renamed.mount = left.mount
      /\ renamed.token = left.token /\ renamed.project = "none"
    <2>1. "none" \in Projects
        BY DEF Projects
    <2>2. renamed = [removed EXCEPT !.mount = left.mount, !.token = left.token,
                         !.version = left.version, !.project = "none", !.left[u] = back]
        BY <1>5 DEF back
    <2> HIDE DEF renamed
    <2>3. QED
        BY <1>0, <1>1, <1>5, <2>1, <2>2 DEF Hosts, SameKept, BesideSame
<1> HIDE DEF renamed
<1>7. /\ Frame(again) /\ again.left[u] = back /\ again.mount = left.mount
      /\ again.token = left.token /\ again.project = "none"
    BY <1>6 DEF Hosts, SameKept, BesideSame
<1> HIDE DEF again
<1>8. /\ Frame(end) /\ end.left[u] = left /\ end.project = left.project
      /\ IF left.project = "managed" THEN end.mount = "bind" /\ end.token = h.env
                                     ELSE end.mount = h.mount /\ end.token = h.token
    <2> DEFINE up == [Deploys(file, version) EXCEPT !.project = left.project]
    <2>1. /\ Frame(up) /\ up.left[u] = left /\ up.project = left.project
          /\ up.mount = h.mount /\ up.token = h.token /\ up.data = h.data
        BY <1>1, <1>3 DEF Deploys, Hosts, SameKept, BesideSame, SamePlace
    <2>2. end = IF left.project # "managed" THEN up
                ELSE [up EXCEPT !.mount = "bind", !.token = h.env,
                                !.data = IF up.data = "full" THEN "full" ELSE "partial"]
        BY <1>3 DEF Up
    <2> HIDE DEF up, end
    <2>3. CASE left.project # "managed"
        BY <2>1, <2>2, <2>3
    <2>4. CASE left.project = "managed"
        BY <2>1, <2>2, <2>4 DEF Hosts, Mounts, SameKept, BesideSame
    <2>5. QED
        BY <2>3, <2>4
<1> HIDE DEF end
<1>9. \A g : Same(g) => Good(g)
    BY DEF Restored, left
<1>10. left.legacy => Good(removed) /\ Good(renamed) /\ Good(again)
    BY <1>1, <1>5, <1>6, <1>7 DEF Restored, left
<1>11. left.backup /\ ~left.adopts => Good(end)
    BY <1>8 DEF Restored, left
<1> HIDE DEF Same, Good
<1>12. Good(h) /\ Good(file) /\ Good(started) /\ Good(stopped)
    BY <1>2, <1>3, <1>4, <1>9
<1>13. CASE o \in Refused(h) \/ o \in Refused(file)
    <2>1. o.ok = FALSE /\ (o.host = h \/ o.host = file)
        BY <1>13, RefusedLies
    <2>2. QED
        BY <1>12, <2>1 DEF Good
<1>14. CASE /\ left.legacy
            /\ \/ o \in Outcomes(h, {file, removed, renamed}, again)
               \/ o \in Refused(removed) \/ o \in Refused(renamed)
    <2>1. o.ok \in BOOLEAN /\ (o.host = h \/ o.host = again \/ o.host \in {file, removed, renamed})
        <3>1. CASE o \in Refused(removed) \/ o \in Refused(renamed)
            BY <3>1, RefusedLies
        <3>2. CASE o \in Outcomes(h, {file, removed, renamed}, again)
            BY <3>2, OutcomesLie
        <3>3. QED
            BY <1>14, <3>1, <3>2
    <2>2. QED
        BY <1>10, <1>12, <1>14, <2>1 DEF Good
<1>15. CASE o \in Outcomes(h, {file}, started)
    <2>1. o.ok \in BOOLEAN /\ (o.host = h \/ o.host = started \/ o.host \in {file})
        BY <1>15, OutcomesLie
    <2>2. QED
        BY <1>12, <2>1 DEF Good
<1>16. CASE left.backup /\ ~left.adopts /\ o \in Outcomes(h, {file, stopped}, end)
    <2>1. o.ok \in BOOLEAN /\ (o.host = h \/ o.host = end \/ o.host \in {file, stopped})
        BY <1>16, OutcomesLie
    <2>2. QED
        BY <1>11, <1>12, <1>16, <2>1 DEF Good
<1>17. QED
    <2>1. CASE ~left.backup \/ Named(h, left.project) = "none"
        <3>1. o \in Refused(h)
            BY <1>1, <2>1 DEF Restores, left
        <3>2. QED
            BY <1>13, <3>1
    <2>2. CASE left.backup /\ Named(h, left.project) # "none" /\ left.legacy
        <3>1. \/ o \in Outcomes(h, {file, removed, renamed}, again)
              \/ o \in Refused(h) \/ o \in Refused(removed) \/ o \in Refused(renamed)
            BY <2>2 DEF Restores, left, file, removed, renamed, again
        <3>2. QED
            BY <1>13, <1>14, <2>2, <3>1
    <2>3. CASE left.backup /\ Named(h, left.project) # "none" /\ ~left.legacy /\ left.adopts
        <3>1. o \in Outcomes(h, {file}, started) \/ o \in Refused(h) \/ o \in Refused(file)
            BY <2>3 DEF Restores, left, file, started
        <3>2. QED
            BY <1>13, <1>15, <3>1
    <2>4. CASE left.backup /\ Named(h, left.project) # "none" /\ ~left.legacy /\ ~left.adopts
        <3>1. o \in Outcomes(h, {file, stopped}, end)
            BY <2>4 DEF Restores, left, file, stopped, end, version
        <3>2. QED
            BY <1>16, <2>4, <3>1
    <2>5. QED
        BY <1>1, <2>1, <2>2, <2>3, <2>4

\* The cleaning of an update takes its own backup and renamed container away, or not.
LEMMA DiscardsChanges ==
    ASSUME NEW h \in Hosts, NEW u \in Updates, NEW g \in Discards(h, u)
    PROVE  /\ g \in Hosts /\ SamePlace(h, g) /\ SameKept(h, g) /\ g.env = h.env /\ g.data = h.data
           /\ g.running = h.running /\ g.version = h.version
           /\ BesideSame(h, g, u) /\ g.left[u].adopts = h.left[u].adopts
           /\ g.left[u].project = h.left[u].project /\ g.left[u].mount = h.left[u].mount
           /\ g.left[u].token = h.left[u].token
           /\ g.left[u].legacy => h.left[u].legacy
           /\ g.left[u].backup => h.left[u].backup
<1> DEFINE Less(l) == /\ l \in Checkpoints /\ l.adopts = h.left[u].adopts
                      /\ l.project = h.left[u].project /\ l.mount = h.left[u].mount
                      /\ l.token = h.left[u].token
                      /\ (l.legacy => h.left[u].legacy) /\ (l.backup => h.left[u].backup)
           one == [h.left[u] EXCEPT !.legacy = FALSE]
           two == [h.left[u] EXCEPT !.backup = FALSE]
           three == [one EXCEPT !.backup = FALSE]
<1>1. h.left[u] \in Checkpoints /\ h.left \in [Updates -> Checkpoints]
    BY DEF Hosts
<1>2. Less(h.left[u]) /\ Less(one) /\ Less(two)
    BY <1>1 DEF Checkpoints
<1>3. Less(three)
    BY <1>2 DEF Checkpoints
<1>4. \E l \in {h.left[u], one, two, three} : g = [h EXCEPT !.left[u] = l]
    <2>1. h = [h EXCEPT !.left[u] = h.left[u]]
        BY <1>1 DEF Hosts
    <2>2. [[h EXCEPT !.left[u].legacy = FALSE] EXCEPT !.left[u].backup = FALSE]
              = [h EXCEPT !.left[u] = three]
        BY <1>1 DEF Hosts
    <2>3. QED
        BY <2>1, <2>2 DEF Discards
<1> HIDE DEF one, two, three
<1>5. PICK l : Less(l) /\ g = [h EXCEPT !.left[u] = l]
    BY <1>2, <1>3, <1>4
<1>6. g.left[u] = l /\ g \in Hosts
    BY <1>1, <1>5 DEF Hosts
<1>7. QED
    BY <1>5, <1>6 DEF SamePlace, SameKept, BesideSame

\* The manager's own update changes the version that answers, and nothing else.
LEMMA ManagedChanges ==
    ASSUME NEW h \in Hosts, NEW o \in Managed(h)
    PROVE  /\ o.host \in Hosts /\ SamePlace(h, o.host) /\ SameKept(h, o.host)
           /\ o.host.env = h.env /\ o.host.data = h.data /\ o.host.left = h.left
           /\ o.pc \in {"verify", "rolled_back", "recovery_required", "failed"}
<1> DEFINE Good(g) == /\ g \in Hosts /\ SamePlace(h, g) /\ SameKept(h, g)
                      /\ g.env = h.env /\ g.data = h.data /\ g.left = h.left
<1>1. Good(h) /\ \A v \in Versions : Good(Deploys(h, v))
    <2>1. ASSUME NEW v \in Versions
          PROVE  Good(Deploys(h, v))
        BY DEF Deploys, Hosts, SamePlace, SameKept
    <2>2. Good(h)
        BY DEF SamePlace, SameKept
    <2>3. QED
        BY <2>1, <2>2
<1> HIDE DEF Good
<1>2. Good(o.host) /\ o.pc \in {"verify", "rolled_back", "recovery_required", "failed"}
    BY <1>1 DEF Managed, Versions
<1>3. QED
    BY <1>2 DEF Good

\* A change of key leaves the container, removes it, or puts one without labels on the
\* same data, with a token, in its place.
Rekeyed(h, g, mount, token) ==
    /\ g \in Hosts /\ SameKept(h, g) /\ g.env = h.env /\ g.data = h.data /\ g.left = h.left
    /\ \/ SamePlace(h, g)
       \/ g.mount = "none" /\ g.token = h.token /\ g.project = h.project
       \/ g.mount = Mounted(mount) /\ g.token = token /\ g.project = "none"

LEMMA ContainersAreHosts ==
    ASSUME NEW h \in Hosts, NEW mount \in Mounts, NEW token \in Tokens
    PROVE  /\ Rekeyed(h, h, mount, token) /\ Rekeyed(h, Removed(h), mount, token)
           /\ Rekeyed(h, RunsAgain(h, mount, token), mount, token)
           /\ RunsAgain(h, mount, token).mount = Mounted(mount)
           /\ RunsAgain(h, mount, token).token = token
           /\ RunsAgain(h, mount, token).project = "none"
<1>1. Mounted(mount) \in Mounts /\ "none" \in Mounts /\ "none" \in Projects
    BY DEF Mounted, Mounts, Projects
<1>2. QED
    BY <1>1 DEF Rekeyed, Removed, RunsAgain, Hosts, SamePlace, SameKept

LEMMA WriteTokenChanges ==
    ASSUME NEW h \in Hosts, NEW k \in Tokens, NEW o \in WriteToken(h, k)
    PROVE  /\ Rekeyed(h, o.host, h.mount, k) /\ o.announced \in BOOLEAN /\ o.ok \in BOOLEAN
           /\ o.ok => o.announced
           /\ ~o.announced => o.host = h
<1>1. h.mount \in Mounts
    BY DEF Hosts
<1>2. /\ Rekeyed(h, h, h.mount, k) /\ Rekeyed(h, Removed(h), h.mount, k)
      /\ Rekeyed(h, RunsAgain(h, h.mount, k), h.mount, k)
    BY <1>1, ContainersAreHosts
<1> DEFINE removed == Removed(h)
           again   == RunsAgain(h, h.mount, k)
<1>3. \/ o = [host |-> h, announced |-> FALSE, ok |-> FALSE]
      \/ \E g \in {h, removed, again} : o = [host |-> g, announced |-> TRUE, ok |-> FALSE]
      \/ o = [host |-> again, announced |-> TRUE, ok |-> TRUE]
    BY DEF WriteToken
<1> HIDE DEF removed, again
<1>4. /\ o.host \in {h, removed, again} /\ o.announced \in BOOLEAN /\ o.ok \in BOOLEAN
      /\ o.ok => o.announced
      /\ ~o.announced => o.host = h
    <2>1. CASE o = [host |-> h, announced |-> FALSE, ok |-> FALSE]
        BY <2>1
    <2>2. CASE \E g \in {h, removed, again} : o = [host |-> g, announced |-> TRUE, ok |-> FALSE]
        BY <2>2
    <2>3. CASE o = [host |-> again, announced |-> TRUE, ok |-> TRUE]
        BY <2>3
    <2>4. QED
        BY <1>3, <2>1, <2>2, <2>3
<1>5. QED
    BY <1>2, <1>4 DEF removed, again

LEMMA RestoreTokenChanges ==
    ASSUME NEW h \in Hosts, NEW before \in [mount : Mounts, token : Tokens],
           NEW o \in RestoreToken(h, before)
    PROVE  /\ Rekeyed(h, o.host, before.mount, before.token) /\ o.ok \in BOOLEAN
           /\ o.ok => o.host.token = before.token /\ o.host.project = "none"
                      /\ o.host.mount = Mounted(before.mount)
<1> DEFINE end == RunsAgain(h, before.mount, before.token)
           Good(g) == Rekeyed(h, g, before.mount, before.token)
<1>1. before.mount \in Mounts /\ before.token \in Tokens
    OBVIOUS
<1>2. Good(h) /\ Good(Removed(h)) /\ Good(end)
    BY <1>1, ContainersAreHosts
<1>3. end.mount = Mounted(before.mount) /\ end.token = before.token /\ end.project = "none"
    BY <1>1, ContainersAreHosts
<1> HIDE DEF end, Good
<1>4. CASE o \in Refused(h)
    <2>1. o.host = h /\ o.ok = FALSE
        BY <1>4, RefusedLies
    <2>2. QED
        BY <1>2, <2>1 DEF Good
<1>5. CASE o \in Outcomes(h, {Removed(h)}, end)
    <2>1. /\ o.ok \in BOOLEAN /\ (o.ok => o.host = end)
          /\ o.host = h \/ o.host = end \/ o.host \in {Removed(h)}
        BY <1>5, OutcomesLie
    <2>2. Good(o.host)
        BY <1>2, <2>1
    <2>3. QED
        BY <1>3, <2>1, <2>2 DEF Good
<1>6. QED
    BY <1>4, <1>5 DEF RestoreToken, end

-----------------------------------------------------------------------------
(* Types *)

\* The part of the types a step of the migration is about.
TaskTypeOK == HostTypeOK /\ MigrationTypeOK

\* The records of an update, of a request for the active one, and of a change of key.
UpdaterRecords == [pc : UpdaterPCs, checkpoint : BOOLEAN]
PollRecords ==
    [pc : {"idle", "check", "plan", "write"}, row : Updates \union {NoLease},
     seen : {"old", "new", "unknown", "recovery_required"}]
RotationRecords ==
    [pc : RotationPCs, imports : BOOLEAN, revision : 0..MaxRevision,
     status : {"none", "succeeded", "rolled_back"} \union ActiveRotation,
     backup : BOOLEAN, before : [mount : Mounts, token : Tokens], candidate : Tokens,
     closing : {"none", "rolled_back", "recovery_required"}]

LEMMA NoRequestIsTyped ==
    ASSUME NEW pc \in {"idle", "done"}, NEW status \in {"none", "succeeded", "rolled_back"} \union ActiveRotation
    PROVE  NoRequest(pc, status) \in RotationRecords
BY DEF NoRequest, RotationRecords, RotationPCs, Mounts, Tokens

LEMMA TypesInitially == OpsInit => OpsTypeOK
<1> SUFFICES ASSUME OpsInit
             PROVE  OpsTypeOK
    OBVIOUS
<1>1. HostTypeOK
    <2>1. NoCheckpoint \in Checkpoints /\ NotKept \in [token : Tokens, version : Versions, project : Projects]
        BY DEF NoCheckpoint, NotKept, Checkpoints, Projects, Images, Mounts, Tokens, Versions
    <2>2. host \in Hosts
        <3>1. PICK project \in {"none", "own"} :
                host = [mount |-> "volume", running |-> TRUE, version |-> "old", token |-> FirstToken,
                        project |-> project, kept |-> FALSE, keptAs |-> NotKept,
                        data |-> "missing", compose |-> "none", env |-> FirstToken, own |-> "old",
                        left |-> [u \in Updates |-> NoCheckpoint]]
            BY DEF OpsInit, HostInit
        <3>2. QED
            BY <2>1, <3>1 DEF Hosts, Projects, Images, Mounts, Tokens, Versions
    <2>3. QED
        BY <2>2 DEF OpsInit, HostInit, ExclusionInit, HostTypeOK, ExclusionTypeOK, Configs, Tokens
<1>2. MigrationTypeOK
    BY DEF OpsInit, MigrationInit, MigrationTypeOK, MigrationStatuses, Blocking, TaskPCs, IdleTask
<1>3. UpdateTypeOK
    BY DEF OpsInit, UpdateInit, UpdateTypeOK, UpdateStatuses, ActiveUpdate, ClosedUpdate, UpdaterPCs,
           NoPoll
<1>4. RotationTypeOK
    BY NoRequestIsTyped DEF OpsInit, RotationInit, RotationTypeOK, RotationRecords
<1>5. QED
    BY <1>1, <1>2, <1>3, <1>4 DEF OpsTypeOK, OpsInit

LEMMA LeavesIsTyped ==
    ASSUME ExclusionTypeOK, NEW m, Leaves(m)
    PROVE  ExclusionTypeOK'
BY DEF Leaves, ExclusionTypeOK

LEMMA AcquireIsTyped ==
    ASSUME ExclusionTypeOK, NEW m \in Mutators, AcquireMutationLease(m)
    PROVE  ExclusionTypeOK'
BY DEF AcquireMutationLease, ExclusionTypeOK

LEMMA GotoIsTyped ==
    ASSUME MigrationTypeOK, NEW pc \in TaskPCs, Goto(pc), UNCHANGED <<journal, unsaved>>
    PROVE  MigrationTypeOK'
BY DEF MigrationTypeOK, Goto

LEMMA WritesIsTyped ==
    ASSUME MigrationTypeOK, NEW status \in MigrationStatuses, Writes(status), UNCHANGED unsaved,
           task' = IdleTask \/ UNCHANGED task \/ \E pc \in TaskPCs : Goto(pc)
    PROVE  MigrationTypeOK'
<1> DEFINE Tasks == [pc : TaskPCs, row : 0..MaxMigrations, revision : 0..MaxRevision, boot : BOOLEAN]
           Journals == [row : 0..MaxMigrations, status : MigrationStatuses, revision : 0..MaxRevision]
<1>1. task \in Tasks /\ journal \in Journals
    BY DEF MigrationTypeOK
<1>2. journal' \in Journals
    BY <1>1 DEF Writes
<1>3. IdleTask \in Tasks
    BY DEF IdleTask, TaskPCs
<1>4. task' \in Tasks
    BY <1>1, <1>3 DEF Goto
<1>5. QED
    BY <1>2, <1>4 DEF MigrationTypeOK

LEMMA ClosesIsTyped ==
    ASSUME MigrationTypeOK, NEW status \in MigrationStatuses, ClosesAs(status)
    PROVE  MigrationTypeOK'
<1>1. CASE Writes(status) /\ UNCHANGED unsaved
    BY <1>1, WritesIsTyped DEF ClosesAs
<1>2. CASE unsaved' = unsaved \union {task.row} /\ UNCHANGED journal
    <2>1. task' = IdleTask
        BY DEF ClosesAs
    <2>2. /\ task' \in [pc : TaskPCs, row : 0..MaxMigrations, revision : 0..MaxRevision, boot : BOOLEAN]
          /\ task.row \in 0..MaxMigrations
        BY <2>1 DEF MigrationTypeOK, IdleTask, TaskPCs
    <2>3. QED
        BY <1>2, <2>2 DEF MigrationTypeOK
<1>3. QED
    BY <1>1, <1>2 DEF ClosesAs

LEMMA SendsIsTyped ==
    ASSUME TaskTypeOK, NEW outcomes, \A o \in outcomes : o.host \in Hosts,
           NEW next \in TaskPCs, NEW catch \in TaskPCs, Sends(outcomes, next, catch)
    PROVE  TaskTypeOK'
<1>1. PICK o \in outcomes :
        /\ host' = o.host
        /\ IF o.ok THEN Goto(next) /\ UNCHANGED exclusionVars
                   ELSE Goto(catch) /\ Leaves(Migration)
        /\ UNCHANGED <<config, crashes, journal, unsaved>>
    BY DEF Sends
<1>2. ExclusionTypeOK'
    BY <1>1, LeavesIsTyped DEF TaskTypeOK, HostTypeOK, exclusionVars, ExclusionTypeOK
<1>3. MigrationTypeOK'
    BY <1>1, GotoIsTyped DEF TaskTypeOK
<1>4. QED
    BY <1>1, <1>2, <1>3 DEF TaskTypeOK, HostTypeOK

LEMMA GivesIsTyped ==
    ASSUME TaskTypeOK, NEW catch \in TaskPCs, Gives(catch)
    PROVE  TaskTypeOK'
BY LeavesIsTyped, GotoIsTyped DEF Gives, TaskTypeOK, HostTypeOK, hostVars

LEMMA ActivatesIsTyped ==
    ASSUME TaskTypeOK, NEW catch \in TaskPCs, Activates(catch)
    PROVE  TaskTypeOK'
<1>1. ExclusionTypeOK'
    BY LeavesIsTyped DEF Activates, TaskTypeOK, HostTypeOK
<1>2. config' \in Configs
    <2>1. config \in Configs /\ config.revision < MaxRevision
        BY DEF Activates, TaskTypeOK, HostTypeOK
    <2>2. config.revision + 1 \in 0..MaxRevision
        BY <2>1 DEF Configs
    <2>3. config' = [config EXCEPT !.revision = @ + 1, !.workspace = "ready"]
        BY DEF Activates
    <2>4. QED
        BY <2>1, <2>2, <2>3 DEF Configs
<1>3. "succeed" \in TaskPCs
    BY DEF TaskPCs
<1>4. MigrationTypeOK'
    BY <1>3, GotoIsTyped DEF Activates, TaskTypeOK
<1>5. QED
    BY <1>1, <1>2, <1>4 DEF Activates, TaskTypeOK, HostTypeOK

LEMMA TaskIsTyped ==
    ASSUME TaskTypeOK, CreatePlan \/ ExpirePlan \/ StartMigration \/ TaskStep
    PROVE  TaskTypeOK'
<1> USE DEF TaskTypeOK
<1>0. /\ host \in Hosts
      /\ "refuse" \in TaskPCs /\ "clean" \in TaskPCs /\ "rollback" \in TaskPCs
      /\ "unproven" \in TaskPCs /\ "rolled" \in TaskPCs /\ "succeed" \in TaskPCs
      /\ "revalidate" \in TaskPCs /\ "copy" \in TaskPCs /\ "cutover" \in TaskPCs
      /\ "verify" \in TaskPCs /\ "activate" \in TaskPCs /\ "admit" \in TaskPCs
    BY DEF TaskPCs, HostTypeOK
<1>1. CASE CreatePlan \/ ExpirePlan
    BY <1>1 DEF CreatePlan, ExpirePlan, HostTypeOK, ExclusionTypeOK, exclusionVars, hostVars,
                MigrationTypeOK, MigrationStatuses, Configs
<1>2. CASE StartMigration
    BY <1>2 DEF StartMigration, HostTypeOK, ExclusionTypeOK, exclusionVars, hostVars,
                MigrationTypeOK, MigrationStatuses, Blocking, TaskPCs
<1>3. CASE TakesLease
    <2>1. ExclusionTypeOK'
        BY <1>3, AcquireIsTyped DEF TakesLease, HostTypeOK
    <2>2. MigrationTypeOK'
        BY <1>0, <1>3, WritesIsTyped DEF TakesLease, MigrationStatuses, Blocking
    <2>3. QED
        BY <1>3, <2>1, <2>2 DEF TakesLease, HostTypeOK, hostVars
<1>4. CASE Interrupted
    <2>1. \A pc \in DOMAIN Catch : Catch[pc] \in TaskPCs
        BY DEF Catch, TaskPCs
    <2>2. QED
        BY <1>4, <2>1, GivesIsTyped DEF Interrupted
<1>5. CASE Revalidates
    BY <1>0, <1>5, PrepareChanges, SendsIsTyped DEF Revalidates
<1>6. CASE Copies
    BY <1>0, <1>6, CopyChanges, SendsIsTyped DEF Copies
<1>7. CASE CutsOver
    BY <1>0, <1>7, CutoverChanges, SendsIsTyped DEF CutsOver
<1>8. CASE Verifies
    BY <1>0, <1>8, GotoIsTyped DEF Verifies, HostTypeOK, ExclusionTypeOK, exclusionVars, hostVars
<1>9. CASE ActivatesTask
    BY <1>0, <1>9, ActivatesIsTyped DEF ActivatesTask
<1>10. CASE Succeeds \/ Refuses \/ RecordsUnproven
    <2>1. "recovery_required" \in MigrationStatuses /\ "succeeded" \in MigrationStatuses
          /\ "failed" \in MigrationStatuses
        BY DEF MigrationStatuses
    <2>2. MigrationTypeOK'
        BY <1>0, <1>10, <2>1, WritesIsTyped, ClosesIsTyped, GotoIsTyped
           DEF Succeeds, Refuses, RecordsUnproven
    <2>3. HostTypeOK'
        BY <1>10 DEF Succeeds, Refuses, RecordsUnproven, HostTypeOK, ExclusionTypeOK, exclusionVars,
                     hostVars
    <2>4. QED
        BY <2>2, <2>3
<1>11. CASE Cleans
    <2>1. host' \in Hosts
        BY <1>0, <1>11, CleanChanges DEF Cleans
    <2>2. MigrationTypeOK'
        BY <1>0, <1>11, GotoIsTyped DEF Cleans
    <2>3. QED
        BY <1>11, <2>1, <2>2 DEF Cleans, HostTypeOK, ExclusionTypeOK, exclusionVars
<1>12. CASE RollsBack
    BY <1>0, <1>12, RollbackChanges, SendsIsTyped, GivesIsTyped DEF RollsBack
<1>13. CASE RecordsRollback
    <2>1. ExclusionTypeOK'
        BY <1>13, LeavesIsTyped DEF RecordsRollback, HostTypeOK
    <2>2. "rolled_back" \in MigrationStatuses
        BY DEF MigrationStatuses
    <2>3. MigrationTypeOK'
        BY <1>0, <1>13, <2>2, WritesIsTyped, GotoIsTyped DEF RecordsRollback
    <2>4. QED
        BY <1>13, <2>1, <2>3 DEF RecordsRollback, HostTypeOK, hostVars
<1>14. CASE BootExamines
    <2>1. ExclusionTypeOK'
        BY <1>14, AcquireIsTyped DEF BootExamines, HostTypeOK, ExclusionTypeOK, exclusionVars
    <2>2. MigrationTypeOK'
        <3>1. /\ UNCHANGED <<journal, unsaved>>
              /\ \/ task' = IdleTask
                 \/ \E pc \in {"execute", "inspect"} :
                       task' = [pc |-> pc, row |-> journal.row, revision |-> journal.revision, boot |-> TRUE]
            BY <1>14 DEF BootExamines
        <3>2. journal.row \in 0..MaxMigrations /\ journal.revision \in 0..MaxRevision
            BY DEF MigrationTypeOK
        <3>3. task' \in [pc : TaskPCs, row : 0..MaxMigrations, revision : 0..MaxRevision, boot : BOOLEAN]
            <4>1. CASE task' = IdleTask
                BY <4>1 DEF IdleTask, TaskPCs
            <4>2. CASE \E pc \in {"execute", "inspect"} :
                        task' = [pc |-> pc, row |-> journal.row, revision |-> journal.revision,
                                 boot |-> TRUE]
                BY <3>2, <4>2 DEF TaskPCs
            <4>3. QED
                BY <3>1, <4>1, <4>2
        <3>4. QED
            BY <3>1, <3>3 DEF MigrationTypeOK
    <2>3. QED
        BY <1>14, <2>1, <2>2 DEF BootExamines, HostTypeOK, hostVars
<1>15. CASE BootInspects
    <2>1. CASE OnBind(host)
        BY <1>0, <1>15, <2>1, GotoIsTyped
           DEF BootInspects, HostTypeOK, ExclusionTypeOK, exclusionVars, hostVars
    <2>2. CASE ~OnBind(host)
        BY <1>0, <1>15, <2>2, RollbackChanges, SendsIsTyped DEF BootInspects
    <2>3. QED
        BY <2>1, <2>2
<1>16. CASE BootAdmits
    <2>1. CASE Activates("unproven")
        BY <1>0, <2>1, ActivatesIsTyped
    <2>2. CASE Goto("succeed") /\ Leaves(Migration) /\ UNCHANGED <<hostVars, journal, unsaved>>
        BY <1>0, <2>2, LeavesIsTyped, GotoIsTyped DEF HostTypeOK, hostVars
    <2>3. QED
        BY <1>16, <2>1, <2>2 DEF BootAdmits
<1>17. QED
    BY <1>1, <1>2, <1>3, <1>4, <1>5, <1>6, <1>7, <1>8, <1>9, <1>10, <1>11, <1>12, <1>13, <1>14,
       <1>15, <1>16 DEF TaskStep

LEMMA GoesOnIsTyped ==
    ASSUME UpdateTypeOK, NEW u \in Updates, NEW pc \in UpdaterPCs, GoesOn(u, pc)
    PROVE  updater' \in [Updates -> UpdaterRecords]
BY DEF UpdateTypeOK, UpdaterRecords, GoesOn

LEMMA SavesIsTyped ==
    ASSUME UpdateTypeOK, NEW u \in Updates, NEW status \in UpdateStatuses, SavesUpdate(u, status)
    PROVE  update' \in [Updates -> UpdateStatuses]
BY DEF UpdateTypeOK, SavesUpdate

LEMMA UpdaterIsTyped ==
    ASSUME HostTypeOK, UpdateTypeOK, NEW u \in Updates, StartUpdate(u) \/ UpdaterStep(u)
    PROVE  HostTypeOK' /\ UpdateTypeOK'
<1> USE DEF ClosedUpdate, ActiveUpdate
<1>0. /\ host \in Hosts /\ ExclusionTypeOK /\ u \in Mutators
      /\ {"inserted", "start", "begin", "apply", "restore", "verify", "clean", "undo", "recheck", "done",
          "succeeded", "rolled_back", "failed", "recovery_required"} \subseteq UpdaterPCs
    BY DEF HostTypeOK, UpdaterPCs
<1>1. CASE StartUpdate(u) \/ RegistersRunner(u) \/ MarksRunning(u)
    <2>1. HostTypeOK'
        BY <1>1 DEF StartUpdate, RegistersRunner, MarksRunning, OnlyMoves, HostTypeOK,
                    ExclusionTypeOK, exclusionVars, hostVars
    <2>2. updater' \in [Updates -> UpdaterRecords]
        BY <1>0, <1>1, GoesOnIsTyped DEF StartUpdate, RegistersRunner, MarksRunning
    <2>3. update' \in [Updates -> UpdateStatuses]
        BY <1>1, SavesIsTyped
           DEF StartUpdate, RegistersRunner, MarksRunning, OnlyMoves, UpdateTypeOK, UpdateStatuses
    <2>4. Current \in {"old", "new"}
        BY <1>0 DEF Current, Answers, Healthy, Hosts, Versions, UpdateTypeOK
    <2>5. QED
        BY <1>1, <2>1, <2>2, <2>3, <2>4
           DEF StartUpdate, RegistersRunner, MarksRunning, OnlyMoves, UpdateTypeOK, UpdaterRecords
<1>2. CASE BeginsUpdate(u)
    <2>1. ExclusionTypeOK'
        BY <1>0, <1>2, AcquireIsTyped DEF BeginsUpdate, ExclusionTypeOK, exclusionVars
    <2>2. updater' \in [Updates -> UpdaterRecords]
        BY <1>0, <1>2, GoesOnIsTyped DEF BeginsUpdate
    <2>3. QED
        BY <1>2, <2>1, <2>2 DEF BeginsUpdate, OnlyMoves, HostTypeOK, UpdateTypeOK, UpdaterRecords
<1>3. CASE GivesUpUpdate(u)
    <2>1. ExclusionTypeOK'
        BY <1>0, <1>3, LeavesIsTyped DEF GivesUpUpdate, ExclusionTypeOK, exclusionVars
    <2>2. updater' \in [Updates -> UpdaterRecords]
        BY <1>0, <1>3, GoesOnIsTyped DEF GivesUpUpdate
    <2>3. QED
        BY <1>3, <2>1, <2>2 DEF GivesUpUpdate, OnlyMoves, HostTypeOK, UpdateTypeOK, UpdaterRecords
<1>4. CASE AppliesByManager(u)
    <2>1. PICK o \in Managed(host) :
            /\ host' = o.host /\ GoesOn(u, o.pc)
            /\ IF o.pc = "verify" THEN UNCHANGED exclusionVars ELSE Leaves(u)
        BY <1>4 DEF AppliesByManager
    <2>2. host' \in Hosts /\ o.pc \in UpdaterPCs
        BY <1>0, <2>1, ManagedChanges
    <2>3. ExclusionTypeOK'
        BY <1>0, <2>1, LeavesIsTyped DEF ExclusionTypeOK, exclusionVars
    <2>4. updater' \in [Updates -> UpdaterRecords]
        BY <2>1, <2>2, GoesOnIsTyped
    <2>5. QED
        BY <1>4, <2>2, <2>3, <2>4 DEF AppliesByManager, HostTypeOK, UpdateTypeOK, UpdaterRecords
<1>5. CASE AppliesByDocker(u)
    <2>1. PICK p \in Projects : Supports(host, p) /\ \E o \in Recreates(host, u, p), heard \in BOOLEAN :
            /\ host' = o.host
            /\ heard => o.host.left[u].backup
            /\ IF heard
               THEN /\ updater' = [updater EXCEPT ![u] =
                            [pc |-> IF o.ok THEN "verify" ELSE "restore", checkpoint |-> TRUE]]
                    /\ UNCHANGED exclusionVars
               ELSE GoesOn(u, "failed") /\ Leaves(u)
            /\ astray' = (astray \/ (o.host.mount = "bind" /\ ~o.host.kept))
        BY <1>5 DEF AppliesByDocker
    <2>2. PICK o \in Recreates(host, u, p), heard \in BOOLEAN :
            /\ host' = o.host
            /\ heard => o.host.left[u].backup
            /\ IF heard
               THEN /\ updater' = [updater EXCEPT ![u] =
                            [pc |-> IF o.ok THEN "verify" ELSE "restore", checkpoint |-> TRUE]]
                    /\ UNCHANGED exclusionVars
               ELSE GoesOn(u, "failed") /\ Leaves(u)
            /\ astray' = (astray \/ (o.host.mount = "bind" /\ ~o.host.kept))
        BY <2>1
    <2>3. host' \in Hosts
        BY <1>0, <2>1, <2>2, RecreatesChanges
    <2>4. ExclusionTypeOK'
        BY <1>0, <2>2, LeavesIsTyped DEF ExclusionTypeOK, exclusionVars
    <2>5. updater' \in [Updates -> UpdaterRecords]
        <3>1. CASE heard
            <4>1. [pc |-> IF o.ok THEN "verify" ELSE "restore", checkpoint |-> TRUE] \in UpdaterRecords
                BY <1>0 DEF UpdaterRecords
            <4>2. QED
                BY <2>2, <3>1, <4>1 DEF UpdateTypeOK, UpdaterRecords
        <3>2. CASE ~heard
            BY <1>0, <2>2, <3>2, GoesOnIsTyped
        <3>3. QED
            BY <3>1, <3>2
    <2>6. astray' \in BOOLEAN
        BY <2>2
    <2>7. QED
        BY <1>5, <2>3, <2>4, <2>5, <2>6 DEF AppliesByDocker, HostTypeOK, UpdateTypeOK, UpdaterRecords
<1>6. CASE RestoresDocker(u) \/ UndoesDocker(u)
    <2>1. PICK o \in Restores(host, u) :
            /\ host' = o.host
            /\ \E pc \in {"rolled_back", "recovery_required", "recheck"} : GoesOn(u, pc)
            /\ UNCHANGED exclusionVars \/ Leaves(u)
        BY <1>6 DEF RestoresDocker, UndoesDocker
    <2>2. host' \in Hosts
        BY <1>0, <2>1, RestoresChanges
    <2>3. ExclusionTypeOK'
        BY <1>0, <2>1, LeavesIsTyped DEF ExclusionTypeOK, exclusionVars
    <2>4. updater' \in [Updates -> UpdaterRecords]
        BY <1>0, <2>1, GoesOnIsTyped
    <2>5. QED
        BY <1>6, <2>2, <2>3, <2>4 DEF RestoresDocker, UndoesDocker, HostTypeOK, UpdateTypeOK, UpdaterRecords
<1>7. CASE VerifiesUpdate(u) \/ CleansUpdate(u)
    <2>1. ExclusionTypeOK'
        BY <1>0, <1>7, LeavesIsTyped DEF VerifiesUpdate, CleansUpdate, ExclusionTypeOK, exclusionVars
    <2>2. updater' \in [Updates -> UpdaterRecords]
        BY <1>0, <1>7, GoesOnIsTyped DEF VerifiesUpdate, CleansUpdate
    <2>3. host' \in Hosts
        BY <1>0, <1>7, DiscardsChanges DEF VerifiesUpdate, CleansUpdate
    <2>4. detected' \in {"old", "new"}
        BY <1>0, <1>7 DEF VerifiesUpdate, CleansUpdate, Answers, Healthy, Hosts, Versions, UpdateTypeOK
    <2>5. QED
        BY <1>7, <2>1, <2>2, <2>3, <2>4
           DEF VerifiesUpdate, CleansUpdate, HostTypeOK, UpdateTypeOK, UpdaterRecords
<1>8. CASE RechecksDocker(u)
    <2>1. ExclusionTypeOK'
        BY <1>0, <1>8, LeavesIsTyped DEF RechecksDocker
    <2>2. updater' \in [Updates -> UpdaterRecords]
        BY <1>0, <1>8, GoesOnIsTyped DEF RechecksDocker
    <2>3. Answers(host) => host.version \in {"old", "new"}
        BY <1>0 DEF Answers, Healthy, Hosts, Versions
    <2>4. QED
        BY <1>8, <2>1, <2>2, <2>3 DEF RechecksDocker, HostTypeOK, UpdateTypeOK, UpdaterRecords
<1>9. CASE ClosesUpdate(u)
    <2>1. updater' \in [Updates -> UpdaterRecords]
        BY <1>0, <1>9 DEF ClosesUpdate, UpdateTypeOK, UpdaterRecords
    <2>2. update' \in [Updates -> UpdateStatuses]
        BY <1>9, SavesIsTyped DEF ClosesUpdate, UpdateStatuses, UpdateTypeOK
    <2>3. QED
        BY <1>9, <2>1, <2>2 DEF ClosesUpdate, HostTypeOK, UpdateTypeOK, UpdaterRecords, ExclusionTypeOK,
                                exclusionVars, hostVars
<1>10. QED
    BY <1>1, <1>2, <1>3, <1>4, <1>5, <1>6, <1>7, <1>8, <1>9 DEF UpdaterStep

LEMMA PollIsTyped ==
    ASSUME HostTypeOK, UpdateTypeOK, NEW p \in Pollers,
           (\E u \in Updates : PollReads(p, u)) \/ PollChecks(p) \/ PollPlans(p) \/ PollWrites(p)
    PROVE  HostTypeOK' /\ UpdateTypeOK'
<1> DEFINE Polls == [Pollers -> PollRecords]
           Rest  == /\ update \in [Updates -> UpdateStatuses]
                    /\ updater \in [Updates -> UpdaterRecords]
                    /\ detected \in {"old", "new"} /\ astray \in BOOLEAN
<1>1. HostTypeOK'
    BY DEF PollReads, PollChecks, PollPlans, PollWrites, HostTypeOK, ExclusionTypeOK, exclusionVars,
           hostVars
<1>2. poll \in Polls /\ Rest
    BY DEF UpdateTypeOK, UpdaterRecords, PollRecords
<1>3. ASSUME poll' \in Polls, Rest'
      PROVE  UpdateTypeOK'
    BY <1>3 DEF UpdateTypeOK, UpdaterRecords, PollRecords
<1>4. ASSUME NEW u \in Updates, PollReads(p, u)
      PROVE  poll' \in Polls /\ Rest'
    BY <1>2, <1>4 DEF PollReads, Saw, PollRecords
<1>5. ASSUME PollChecks(p)
      PROVE  poll' \in Polls /\ Rest'
    BY <1>2, <1>5 DEF PollChecks, Saw, NoPoll, PollRecords
<1>6. ASSUME PollPlans(p)
      PROVE  poll' \in Polls /\ Rest'
    <2>1. detected' \in {"old", "new"}
        BY <1>2, <1>6 DEF PollPlans, Current, Answers, Healthy, Hosts, Versions, HostTypeOK
    <2>2. poll' \in Polls
        BY <1>2, <1>6, <2>1 DEF PollPlans, Saw, PollRecords
    <2>3. QED
        BY <1>2, <1>6, <2>1, <2>2 DEF PollPlans, Saw
<1>7. ASSUME PollWrites(p)
      PROVE  poll' \in Polls /\ Rest'
    <2>1. poll' \in Polls
        BY <1>2, <1>7 DEF PollWrites, NoPoll, PollRecords
    <2>2. update' \in [Updates -> UpdateStatuses]
        BY <1>2, <1>7 DEF PollWrites, SavesUpdate, Concludes, UpdateStatuses, ActiveUpdate, ClosedUpdate
    <2>3. QED
        BY <1>2, <1>7, <2>1, <2>2 DEF PollWrites, Saw
<1> HIDE DEF Polls, Rest
<1>8. QED
    BY <1>1, <1>3, <1>4, <1>5, <1>6, <1>7

LEMMA BecomesIsTyped ==
    ASSUME RotationTypeOK, NEW k \in Rotations, NEW r \in RotationRecords, Becomes(k, r)
    PROVE  rotation' \in [Rotations -> RotationRecords]
BY DEF RotationTypeOK, RotationRecords, Becomes

LEMMA FailsIsTyped ==
    ASSUME NEW r \in RotationRecords
    PROVE  Fails(r) \in RotationRecords
BY DEF RotationRecords, RotationPCs, Fails

LEMMA RotationIsTyped ==
    ASSUME HostTypeOK, RotationTypeOK, RotationStep
    PROVE  HostTypeOK' /\ RotationTypeOK'
<1>1. PICK k \in Rotations :
        \/ \E imports \in BOOLEAN : PlanRotation(k, imports)
        \/ BeginsRotation(k) \/ ImportsToken(k) \/ WritesToken(k) \/ FailsRotation(k)
        \/ SavesCandidate(k) \/ CommitsToken(k) \/ RecordsSuccess(k) \/ UndoesToken(k)
        \/ ClosesRotation(k)
    BY DEF RotationStep
<1> DEFINE R == rotation[k]
<1>2. /\ R \in RotationRecords /\ Fails(R) \in RotationRecords
      /\ host \in Hosts /\ config \in Configs /\ ExclusionTypeOK /\ crashes \in 0..MaxCrashes
      /\ k \in Mutators /\ k \in Tokens /\ lost \subseteq Rotations
    BY FailsIsTyped DEF HostTypeOK, RotationTypeOK, RotationRecords, Tokens
<1>3. ASSUME NEW r \in RotationRecords, Becomes(k, r), lost' \subseteq Rotations
      PROVE  RotationTypeOK'
    BY <1>3, BecomesIsTyped DEF RotationTypeOK, RotationRecords
<1>4. ASSUME NEW imports \in BOOLEAN, PlanRotation(k, imports)
      PROVE  HostTypeOK' /\ RotationTypeOK'
    <2>1. [R EXCEPT !.pc = "planned", !.imports = imports, !.revision = config.revision]
              \in RotationRecords
        BY <1>2 DEF RotationRecords, RotationPCs, Configs
    <2>2. QED
        BY <1>2, <1>3, <1>4, <2>1
           DEF PlanRotation, HostTypeOK, ExclusionTypeOK, exclusionVars, hostVars
<1>5. CASE BeginsRotation(k)
    <2>1. [R EXCEPT !.pc = "write", !.status = "applying"] \in RotationRecords
        BY <1>2 DEF RotationRecords, RotationPCs, ActiveRotation
    <2>2. ExclusionTypeOK'
        BY <1>2, <1>5, AcquireIsTyped DEF BeginsRotation
    <2>3. QED
        BY <1>2, <1>3, <1>5, <2>1, <2>2 DEF BeginsRotation, HostTypeOK, hostVars
<1>6. CASE ImportsToken(k)
    <2>1. [R EXCEPT !.pc = "save", !.candidate = host.token] \in RotationRecords
        BY <1>2 DEF RotationRecords, RotationPCs, Hosts
    <2>2. QED
        BY <1>2, <1>3, <1>6, <2>1
           DEF ImportsToken, HostTypeOK, ExclusionTypeOK, exclusionVars, hostVars
<1>7. CASE WritesToken(k)
    <2>1. PICK o \in WriteToken(host, k), heard \in BOOLEAN :
            LET r == [R EXCEPT !.backup = heard /\ o.announced, !.candidate = k,
                               !.before = [mount |-> host.mount, token |-> host.token]]
            IN  /\ host' = o.host
                /\ Becomes(k, IF heard /\ o.ok THEN [r EXCEPT !.pc = "save"] ELSE Fails(r))
                /\ lost' = IF heard THEN lost ELSE lost \union {k}
        BY <1>7 DEF WritesToken
    <2> DEFINE backup == heard /\ o.announced
               before == [mount |-> host.mount, token |-> host.token]
               r == [R EXCEPT !.backup = backup, !.candidate = k, !.before = before]
    <2>2. host' \in Hosts /\ backup \in BOOLEAN
        <3>1. o.host \in Hosts
            BY <1>2, WriteTokenChanges DEF Rekeyed
        <3>2. QED
            BY <2>1, <3>1
    <2>3. before \in [mount : Mounts, token : Tokens]
        BY <1>2 DEF Hosts
    <2>4. r \in RotationRecords
        <3> HIDE DEF before, backup
        <3>1. QED
            BY <1>2, <2>2, <2>3 DEF RotationRecords
    <2>5. Becomes(k, IF heard /\ o.ok THEN [r EXCEPT !.pc = "save"] ELSE Fails(r))
        BY <2>1
    <2> HIDE DEF r, backup, before
    <2>6. [r EXCEPT !.pc = "save"] \in RotationRecords /\ Fails(r) \in RotationRecords
        BY <2>4, FailsIsTyped DEF RotationRecords, RotationPCs
    <2>7. QED
        BY <1>2, <1>3, <1>7, <2>1, <2>2, <2>5, <2>6
           DEF WritesToken, HostTypeOK, ExclusionTypeOK, exclusionVars
<1>8. CASE FailsRotation(k)
    BY <1>2, <1>3, <1>8 DEF FailsRotation, HostTypeOK, ExclusionTypeOK, exclusionVars, hostVars
<1>9. CASE SavesCandidate(k)
    <2>1. [R EXCEPT !.pc = "verify", !.status = "verifying"] \in RotationRecords
        BY <1>2 DEF RotationRecords, RotationPCs, ActiveRotation
    <2>2. QED
        BY <1>2, <1>3, <1>9, <2>1
           DEF SavesCandidate, HostTypeOK, ExclusionTypeOK, exclusionVars, hostVars
<1>10. CASE CommitsToken(k)
    <2>1. [R EXCEPT !.pc = "succeed"] \in RotationRecords
        BY <1>2 DEF RotationRecords, RotationPCs
    <2>2. R.candidate \in Tokens
        BY <1>2 DEF RotationRecords
    <2>3. config' \in Configs
        <3>1. config.revision + 1 \in 0..MaxRevision
            BY <1>2, <1>10 DEF CommitsToken, Configs, HostAssumption
        <3>2. config' = [config EXCEPT !.token = R.candidate, !.revision = config.revision + 1]
            BY <1>2, <1>10 DEF CommitsToken, Configs
        <3> HIDE DEF R
        <3>3. QED
            BY <1>2, <2>2, <3>1, <3>2 DEF Configs
    <2>4. QED
        BY <1>2, <1>3, <1>10, <2>1, <2>3
           DEF CommitsToken, HostTypeOK, ExclusionTypeOK, exclusionVars
<1>11. CASE RecordsSuccess(k) \/ ClosesRotation(k)
    <2>1. PICK status \in {R.status, "succeeded", R.closing} : Becomes(k, NoRequest("done", status))
        BY <1>11 DEF RecordsSuccess, ClosesRotation
    <2>2. status \in {"none", "succeeded", "rolled_back"} \union ActiveRotation
        BY <1>2 DEF RotationRecords, ActiveRotation
    <2>3. NoRequest("done", status) \in RotationRecords
        BY <2>2, NoRequestIsTyped
    <2>4. ExclusionTypeOK'
        BY <1>2, <1>11, LeavesIsTyped DEF RecordsSuccess, ClosesRotation
    <2>5. QED
        BY <1>2, <1>3, <1>11, <2>1, <2>3, <2>4
           DEF RecordsSuccess, ClosesRotation, HostTypeOK, hostVars
<1>12. CASE UndoesToken(k)
    <2>1. PICK o \in RestoreToken(host, R.before) :
            /\ host' = o.host
            /\ Becomes(k, [R EXCEPT !.pc = "close",
                   !.closing = IF o.ok THEN "rolled_back" ELSE "recovery_required"])
        BY <1>12 DEF UndoesToken
    <2>2. R.before \in [mount : Mounts, token : Tokens]
        BY <1>2 DEF RotationRecords
    <2>3. host' \in Hosts
        BY <1>2, <2>1, <2>2, RestoreTokenChanges DEF Rekeyed
    <2>4. ASSUME NEW c \in {"rolled_back", "recovery_required"}
          PROVE  [R EXCEPT !.pc = "close", !.closing = c] \in RotationRecords
        BY <1>2 DEF RotationRecords, RotationPCs
    <2>5. QED
        BY <1>2, <1>3, <1>12, <2>1, <2>3, <2>4
           DEF UndoesToken, HostTypeOK, ExclusionTypeOK, exclusionVars
<1>13. QED
    BY <1>1, <1>4, <1>5, <1>6, <1>7, <1>8, <1>9, <1>10, <1>11, <1>12

LEMMA RequestIsTyped ==
    ASSUME HostTypeOK, MigrationTypeOK, CreatePlan \/ ExpirePlan \/ StartMigration
    PROVE  HostTypeOK' /\ MigrationTypeOK'
<1>1. HostTypeOK'
    BY DEF CreatePlan, ExpirePlan, StartMigration, HostTypeOK, ExclusionTypeOK, exclusionVars, hostVars
<1>2. CASE CreatePlan
    BY <1>1, <1>2 DEF CreatePlan, MigrationTypeOK, MigrationStatuses, HostTypeOK, Configs, MigrationAssumption
<1>3. CASE ExpirePlan
    BY <1>1, <1>3 DEF ExpirePlan, MigrationTypeOK, MigrationStatuses
<1>4. CASE StartMigration
    BY <1>1, <1>4 DEF StartMigration, MigrationTypeOK, MigrationStatuses, Blocking, TaskPCs
<1>5. QED
    BY <1>1, <1>2, <1>3, <1>4

LEMMA ConfigIsTyped ==
    ASSUME OpsTypeOK, ConfigStep, crossed' \in BOOLEAN
    PROVE  OpsTypeOK'
<1> USE DEF OpsTypeOK
<1>1. config \in Configs /\ host.token \in Tokens /\ FirstToken \in Tokens
    BY DEF HostTypeOK, Hosts, Tokens
<1>2. config' \in Configs
    <2>1. config.revision \in Nat /\ config.revision + 1 \in Nat
        BY <1>1 DEF Configs, HostAssumption
    <2>2. CASE SaveDirect
        BY <1>1, <2>1, <2>2 DEF SaveDirect, Configures, SavedDirect, Configs, HostAssumption
    <2>3. CASE ConnectSsh
        <3>1. PICK revision \in {1, config.revision, config.revision + 1},
                   workspace \in {config.workspace, "none"} :
                config' = [exists |-> TRUE, ssh |-> TRUE, revision |-> revision,
                           workspace |-> workspace, token |-> host.token]
            BY <2>3 DEF ConnectSsh, Configures, SavedSsh
        <3>2. config'.revision <= MaxRevision
            BY <2>3 DEF ConnectSsh, Configures
        <3>3. revision \in 0..MaxRevision /\ workspace \in {"none", "ready"}
            BY <1>1, <2>1, <3>1, <3>2 DEF Configs, HostAssumption
        <3>4. QED
            BY <1>1, <3>1, <3>3 DEF Configs
    <2>4. CASE ActivateWorkspace
        <3>1. /\ config' = [config EXCEPT !.workspace = "ready", !.revision = config.revision + 1]
              /\ config'.revision <= MaxRevision
            BY <1>1, <2>4 DEF ActivateWorkspace, Configures, Configs
        <3>2. config.revision + 1 \in 0..MaxRevision
            BY <1>1, <2>1, <3>1 DEF Configs, HostAssumption
        <3>3. QED
            BY <1>1, <3>1, <3>2 DEF Configs
    <2>5. CASE DeleteConfig
        BY <1>1, <2>5 DEF DeleteConfig, Configures, NoConfig, Configs, HostAssumption
    <2>6. QED
        BY <2>2, <2>3, <2>4, <2>5 DEF ConfigStep
<1>3. UNCHANGED <<exclusionVars, host, crashes>>
    BY DEF ConfigStep, SaveDirect, ConnectSsh, ActivateWorkspace, DeleteConfig, Configures
<1>4. HostTypeOK'
    BY <1>2, <1>3 DEF HostTypeOK, ExclusionTypeOK, exclusionVars
<1>5. CASE KeepsJournals
    BY <1>4, <1>5 DEF KeepsJournals, migrationVars, updateVars, rotationVars, MigrationTypeOK,
                      UpdateTypeOK, RotationTypeOK
<1>6. CASE ConnectSsh
    BY <1>4, <1>6 DEF ConnectSsh, migrationVars, rotationVars, MigrationTypeOK, UpdateTypeOK,
                       RotationTypeOK
<1>7. CASE DeleteConfig
    <2>1. MigrationTypeOK'
        BY <1>7 DEF DeleteConfig, MigrationTypeOK, MigrationStatuses
    <2>2. UpdateTypeOK'
        BY <1>7 DEF DeleteConfig, UpdateTypeOK, UpdateStatuses
    <2>3. rotation' \in [Rotations -> RotationRecords]
        <3>1. ASSUME NEW k \in Rotations
              PROVE  [rotation[k] EXCEPT !.status = "none"] \in RotationRecords
            BY DEF RotationTypeOK, RotationRecords
        <3>2. QED
            BY <1>7, <3>1 DEF DeleteConfig
    <2>4. RotationTypeOK'
        BY <1>7, <2>3 DEF DeleteConfig, RotationTypeOK, RotationRecords
    <2>5. QED
        BY <1>4, <2>1, <2>2, <2>4
<1>8. QED
    BY <1>5, <1>6, <1>7 DEF ConfigStep, SaveDirect, ActivateWorkspace

LEMMA RunIsTyped ==
    ASSUME OpsTypeOK, RunStep, UNCHANGED crossed, ExclusionTypeOK'
    PROVE  OpsTypeOK'
    BY DEF RunStep, OpsTypeOK, HostTypeOK, hostVars, KeepsJournals, migrationVars, updateVars,
                rotationVars, MigrationTypeOK, UpdateTypeOK, RotationTypeOK

LEMMA CrashIsTyped ==
    ASSUME OpsTypeOK, Crash
    PROVE  OpsTypeOK'
<1> USE DEF OpsTypeOK
<1>1. HostTypeOK'
    <2>1. ExclusionTypeOK'
        BY DEF Crash, Restart, ExclusionTypeOK
    <2>2. crashes' \in 0..MaxCrashes
        <3>1. crashes \in 0..MaxCrashes /\ crashes < MaxCrashes /\ crashes' = crashes + 1
            BY DEF Crash, HostTypeOK
        <3>2. QED
            BY <3>1 DEF HostAssumption
    <2>3. QED
        BY <2>1, <2>2 DEF Crash, HostTypeOK
<1>2. MigrationTypeOK'
    <2>1. 0 \in 0..MaxMigrations /\ 0 \in 0..MaxRevision
        BY DEF MigrationAssumption, HostAssumption
    <2>2. QED
        BY <2>1 DEF Crash, MigrationTypeOK, TaskPCs
<1>3. UpdateTypeOK'
    <2>1. ASSUME NEW u \in Updates
          PROVE  [pc |-> IF IsAt(u, "idle") THEN "idle" ELSE "done", checkpoint |-> FALSE] \in UpdaterRecords
        BY DEF UpdaterRecords, UpdaterPCs
    <2>2. NoPoll \in PollRecords
        BY DEF NoPoll, PollRecords
    <2>3. QED
        BY <2>1, <2>2 DEF Crash, UpdateTypeOK, UpdaterRecords, PollRecords
<1>4. RotationTypeOK'
    <2>1. ASSUME NEW k \in Rotations, NEW pc \in {"idle", "done"}
          PROVE  NoRequest(pc, rotation[k].status) \in RotationRecords
        BY NoRequestIsTyped DEF RotationTypeOK
    <2>2. QED
        BY <2>1 DEF Crash, RotationTypeOK, RotationRecords
<1>5. QED
    BY <1>1, <1>2, <1>3, <1>4 DEF Crash

\* The types of the operations and of the machine hold in every behaviour; the
\* rows the operations leave behind are those the database admits.
THEOREM OperationsAreTyped == OpsSpec => []OpsTypeOK
<1>1. OpsTypeOK /\ ExclusionTypeOK' /\ [OpsNext]_opsVars => OpsTypeOK'
    <2> SUFFICES ASSUME OpsTypeOK, ExclusionTypeOK', [OpsNext]_opsVars
                 PROVE  OpsTypeOK'
        OBVIOUS
    <2>1. CASE MigrationStep
        <3>1. HostTypeOK' /\ MigrationTypeOK'
            BY <2>1, RequestIsTyped, TaskIsTyped DEF MigrationStep, OpsTypeOK, TaskTypeOK
        <3>2. QED
            BY <2>1, <3>1
               DEF MigrationStep, OpsTypeOK, updateVars, rotationVars, UpdateTypeOK, RotationTypeOK
    <2>2. CASE UpdateStep /\ UNCHANGED <<migrationVars, rotationVars>> /\ Crosses(Takes(Updates))
        <3>1. HostTypeOK' /\ UpdateTypeOK'
            BY <2>2, UpdaterIsTyped, PollIsTyped DEF UpdateStep, OpsTypeOK
        <3>2. crossed' \in BOOLEAN
            BY <2>2 DEF Crosses
        <3>3. QED
            BY <2>2, <3>1, <3>2 DEF OpsTypeOK, migrationVars, rotationVars, MigrationTypeOK, RotationTypeOK
    <2>3. CASE RotationStep /\ UNCHANGED <<migrationVars, updateVars>> /\ Crosses(Takes(Rotations))
        <3>1. HostTypeOK' /\ RotationTypeOK'
            BY <2>3, RotationIsTyped DEF OpsTypeOK
        <3>2. crossed' \in BOOLEAN
            BY <2>3 DEF Crosses
        <3>3. QED
            BY <2>3, <3>1, <3>2 DEF OpsTypeOK, migrationVars, updateVars, MigrationTypeOK, UpdateTypeOK
    <2>4. CASE ConfigStep /\ Crosses(TRUE)
        <3>1. crossed' \in BOOLEAN
            BY <2>4 DEF Crosses
        <3>2. QED
            BY <2>4, <3>1, ConfigIsTyped
    <2>5. CASE (RunStep /\ UNCHANGED crossed) \/ Crash
        BY <2>5, RunIsTyped, CrashIsTyped
    <2>6. CASE UNCHANGED opsVars
        BY <2>6 DEF opsVars, exclusionVars, hostVars, migrationVars, updateVars, rotationVars, OpsTypeOK,
                    HostTypeOK, ExclusionTypeOK, MigrationTypeOK, UpdateTypeOK, RotationTypeOK
    <2>7. QED
        BY <2>1, <2>2, <2>3, <2>4, <2>5, <2>6 DEF OpsNext
<1>2. OpsSpec => []ExclusionTypeOK
    BY OperationsImplementTheGuard, ExclusionIsKept, PTL DEF OpsImplementExclusion
<1>3. QED
    BY <1>1, <1>2, TypesInitially, PTL DEF OpsSpec

-----------------------------------------------------------------------------
(* The lease *)

\* The steps at which an operation holds the lease.  A migration whose start was
\* reconciled is among them; its rollback and its cleaning are not.
TaskHolds     == {"revalidate", "copy", "cutover", "verify", "activate", "inspect", "admit"}
RotationHolds == {"write", "save", "verify", "succeed", "undo", "close"}

LeaseIsHeld ==
    /\ task.pc \in TaskHolds => mutationLease = Migration
    /\ \A u \in Updates : updater[u].pc \in Holding => mutationLease = u
    /\ \A k \in Rotations : rotation[k].pc \in RotationHolds => mutationLease = k

\* What an operation that is at none of these steps does to the lease leaves it
\* with whoever has it.
LEMMA OthersKeep ==
    ASSUME NEW m, NEW n \in Mutators, mutationLease = n, m # n,
           Leaves(m) \/ AcquireMutationLease(m) \/ UNCHANGED mutationLease
    PROVE  mutationLease' = n
BY DEF Leaves, AcquireMutationLease, ExclusionAssumption

LEMMA TaskKeepsLease ==
    ASSUME OpsTypeOK, LeaseIsHeld, TaskStep
    PROVE  /\ Leaves(Migration) \/ AcquireMutationLease(Migration) \/ UNCHANGED mutationLease
           /\ task'.pc \in TaskHolds => mutationLease' = Migration
<1> USE DEF TaskHolds, Goto
<1>0. /\ task \in [pc : TaskPCs, row : 0..MaxMigrations, revision : 0..MaxRevision, boot : BOOLEAN]
      /\ \A pc \in TaskPCs : Goto(pc) => task'.pc = pc
    BY DEF OpsTypeOK, MigrationTypeOK
<1>1. CASE TakesLease
    BY <1>0, <1>1 DEF TakesLease, AcquireMutationLease
<1>2. CASE Interrupted
    <2>1. Catch[task.pc] \in {"refuse", "clean", "rollback", "unproven"}
        BY <1>2 DEF Interrupted, Catch
    <2>2. QED
        BY <1>0, <1>2, <2>1 DEF Interrupted, Gives, TaskPCs
<1>3. ASSUME NEW outcomes, NEW next \in TaskPCs, NEW catch \in TaskPCs \ TaskHolds,
             Sends(outcomes, next, catch), next \in TaskHolds => task.pc \in TaskHolds
      PROVE  /\ Leaves(Migration) \/ UNCHANGED mutationLease
             /\ task'.pc \in TaskHolds => mutationLease' = Migration
    BY <1>0, <1>3 DEF Sends, exclusionVars, LeaseIsHeld
<1>4. CASE Revalidates \/ Copies \/ CutsOver
    BY <1>3, <1>4 DEF Revalidates, Copies, CutsOver, TaskPCs
<1>5. CASE RollsBack
    BY <1>0, <1>3, <1>5 DEF RollsBack, Gives, TaskPCs
<1>6. CASE BootInspects
    BY <1>0, <1>3, <1>6 DEF BootInspects, TaskPCs, LeaseIsHeld, exclusionVars
<1>7. CASE Verifies
    BY <1>0, <1>7 DEF Verifies, LeaseIsHeld, exclusionVars, TaskPCs
<1>8. CASE ActivatesTask \/ BootAdmits
    BY <1>0, <1>8 DEF ActivatesTask, BootAdmits, Activates, TaskPCs
<1>9. CASE Succeeds \/ Refuses \/ RecordsUnproven \/ Cleans \/ RecordsRollback
    BY <1>0, <1>9 DEF Succeeds, Refuses, RecordsUnproven, Cleans, RecordsRollback, ClosesAs, IdleTask,
                      exclusionVars, TaskPCs
<1>10. CASE BootExamines
    BY <1>10 DEF BootExamines, IdleTask, AcquireMutationLease, exclusionVars
<1>11. QED
    BY <1>1, <1>2, <1>4, <1>5, <1>6, <1>7, <1>8, <1>9, <1>10 DEF TaskStep

LEMMA UpdaterKeepsLease ==
    ASSUME OpsTypeOK, LeaseIsHeld, NEW u \in Updates, StartUpdate(u) \/ UpdaterStep(u)
    PROVE  /\ Leaves(u) \/ AcquireMutationLease(u) \/ UNCHANGED mutationLease
           /\ updater'[u].pc \in Holding => mutationLease' = u
           /\ \A v \in Updates \ {u} : updater'[v] = updater[v]
<1> USE DEF Holding, GoesOn
<1>1. updater \in [Updates -> UpdaterRecords] /\ updater[u] \in UpdaterRecords
    BY DEF OpsTypeOK, UpdateTypeOK, UpdaterRecords
<1>2. CASE StartUpdate(u) \/ RegistersRunner(u) \/ MarksRunning(u) \/ ClosesUpdate(u)
    BY <1>1, <1>2 DEF UpdaterRecords, StartUpdate, RegistersRunner, MarksRunning, ClosesUpdate, exclusionVars
<1>3. CASE BeginsUpdate(u)
    BY <1>1, <1>3 DEF UpdaterRecords, BeginsUpdate, AcquireMutationLease, exclusionVars
<1>4. CASE GivesUpUpdate(u)
    BY <1>1, <1>4 DEF UpdaterRecords, GivesUpUpdate, IsAt, LeaseIsHeld, exclusionVars
<1>5. CASE AppliesByManager(u)
    <2>1. PICK o \in Managed(host) :
            /\ GoesOn(u, o.pc)
            /\ IF o.pc = "verify" THEN UNCHANGED exclusionVars ELSE Leaves(u)
        BY <1>5 DEF AppliesByManager
    <2>2. o.pc \in {"verify", "rolled_back", "recovery_required", "failed"}
        BY <2>1, ManagedChanges DEF OpsTypeOK, HostTypeOK
    <2>3. QED
        BY <1>1, <1>5, <2>1, <2>2 DEF UpdaterRecords, AppliesByManager, IsAt, LeaseIsHeld, exclusionVars
<1>6. CASE AppliesByDocker(u)
    BY <1>1, <1>6 DEF UpdaterRecords, AppliesByDocker, IsAt, LeaseIsHeld, exclusionVars
<1>7. CASE RestoresDocker(u) \/ UndoesDocker(u)
    BY <1>1, <1>7 DEF UpdaterRecords, RestoresDocker, UndoesDocker, IsAt, LeaseIsHeld, exclusionVars
<1>8. CASE VerifiesUpdate(u) \/ CleansUpdate(u) \/ RechecksDocker(u)
    BY <1>1, <1>8
       DEF UpdaterRecords, VerifiesUpdate, CleansUpdate, RechecksDocker, IsAt, LeaseIsHeld, exclusionVars
<1>9. QED
    BY <1>2, <1>3, <1>4, <1>5, <1>6, <1>7, <1>8 DEF UpdaterStep

LEMMA RotationKeepsLease ==
    ASSUME OpsTypeOK, LeaseIsHeld, RotationStep
    PROVE  \E k \in Rotations :
             /\ Leaves(k) \/ AcquireMutationLease(k) \/ UNCHANGED mutationLease
             /\ rotation'[k].pc \in RotationHolds => mutationLease' = k
             /\ \A j \in Rotations \ {k} : rotation'[j] = rotation[j]
<1> USE DEF RotationHolds, Becomes, Now
<1>1. PICK k \in Rotations :
        \/ \E imports \in BOOLEAN : PlanRotation(k, imports)
        \/ BeginsRotation(k) \/ ImportsToken(k) \/ WritesToken(k) \/ FailsRotation(k)
        \/ SavesCandidate(k) \/ CommitsToken(k) \/ RecordsSuccess(k) \/ UndoesToken(k)
        \/ ClosesRotation(k)
    BY DEF RotationStep
<1>2. rotation \in [Rotations -> RotationRecords] /\ rotation[k] \in RotationRecords
    BY DEF OpsTypeOK, RotationTypeOK, RotationRecords
<1>3. \A j \in Rotations \ {k} : rotation'[j] = rotation[j]
    BY <1>1, <1>2 DEF PlanRotation, BeginsRotation, ImportsToken, WritesToken, FailsRotation,
                      SavesCandidate, CommitsToken, RecordsSuccess, UndoesToken, ClosesRotation
<1>4. CASE \E imports \in BOOLEAN : PlanRotation(k, imports)
    <2>1. rotation'[k].pc = "planned"
        BY <1>2, <1>4 DEF PlanRotation, RotationRecords
    <2>2. QED
        BY <1>3, <1>4, <2>1 DEF PlanRotation, exclusionVars
<1>5. CASE BeginsRotation(k)
    BY <1>3, <1>5 DEF BeginsRotation, AcquireMutationLease
<1>6. CASE ImportsToken(k) \/ WritesToken(k) \/ FailsRotation(k) \/ SavesCandidate(k)
            \/ CommitsToken(k) \/ UndoesToken(k)
    BY <1>3, <1>6 DEF ImportsToken, WritesToken, FailsRotation, SavesCandidate, CommitsToken,
                      UndoesToken, exclusionVars, LeaseIsHeld
<1>7. CASE RecordsSuccess(k) \/ ClosesRotation(k)
    <2>1. rotation'[k].pc = "done"
        <3>1. PICK status : rotation' = [rotation EXCEPT ![k] = NoRequest("done", status)]
            BY <1>7 DEF RecordsSuccess, ClosesRotation
        <3>2. QED
            BY <1>2, <3>1 DEF NoRequest
    <2>2. QED
        BY <1>3, <1>7, <2>1 DEF RecordsSuccess, ClosesRotation
<1>8. QED
    BY <1>1, <1>4, <1>5, <1>6, <1>7

\* LeaseIsHeld is inductive on typed states.
LEMMA LeaseStep ==
    OpsTypeOK /\ LeaseIsHeld /\ [OpsNext]_opsVars => LeaseIsHeld'
<1> SUFFICES ASSUME OpsTypeOK, LeaseIsHeld, [OpsNext]_opsVars
             PROVE  LeaseIsHeld'
    OBVIOUS
<1>0. /\ Migration \in Mutators /\ Updates \subseteq Mutators /\ Rotations \subseteq Mutators
      /\ Migration \notin Updates \union Rotations /\ Updates \intersect Rotations = {}
    BY DEF MigrationAssumption, HostAssumption, OperationsAssumption
<1>1. ASSUME NEW m \in Mutators,
             Leaves(m) \/ AcquireMutationLease(m) \/ UNCHANGED mutationLease
      PROVE  \A n \in Mutators \ {m} : mutationLease = n => mutationLease' = n
    BY <1>1, OthersKeep
<1>2. CASE MigrationStep
    <2>1. /\ Leaves(Migration) \/ AcquireMutationLease(Migration) \/ UNCHANGED mutationLease
          /\ task'.pc \in TaskHolds => mutationLease' = Migration
        <3>1. CASE TaskStep
            BY <3>1, TaskKeepsLease
        <3>2. CASE CreatePlan \/ ExpirePlan \/ StartMigration
            BY <3>2 DEF CreatePlan, ExpirePlan, StartMigration, TaskHolds, LeaseIsHeld, exclusionVars
        <3>3. QED
            BY <1>2, <3>1, <3>2 DEF MigrationStep
    <2>2. QED
        BY <1>0, <1>1, <1>2, <2>1 DEF MigrationStep, LeaseIsHeld, updateVars, rotationVars
<1>3. CASE UpdateStep /\ UNCHANGED <<migrationVars, rotationVars>>
    <2>1. CASE \E u \in Updates : StartUpdate(u) \/ UpdaterStep(u)
        <3>1. PICK u \in Updates : StartUpdate(u) \/ UpdaterStep(u)
            BY <2>1
        <3>2. QED
            BY <1>0, <1>1, <1>3, <3>1, UpdaterKeepsLease DEF LeaseIsHeld, migrationVars, rotationVars
    <2>2. CASE \E p \in Pollers :
                 (\E u \in Updates : PollReads(p, u)) \/ PollChecks(p) \/ PollPlans(p) \/ PollWrites(p)
        BY <1>3, <2>2 DEF PollReads, PollChecks, PollPlans, PollWrites, LeaseIsHeld, migrationVars,
                          rotationVars, exclusionVars
    <2>3. QED
        BY <1>3, <2>1, <2>2 DEF UpdateStep
<1>4. CASE RotationStep /\ UNCHANGED <<migrationVars, updateVars>>
    <2>1. PICK k \in Rotations :
             /\ Leaves(k) \/ AcquireMutationLease(k) \/ UNCHANGED mutationLease
             /\ rotation'[k].pc \in RotationHolds => mutationLease' = k
             /\ \A j \in Rotations \ {k} : rotation'[j] = rotation[j]
        BY <1>4, RotationKeepsLease
    <2>2. QED
        BY <1>0, <1>1, <1>4, <2>1 DEF LeaseIsHeld, migrationVars, updateVars
<1>5. CASE ConfigStep
    <2>1. UNCHANGED <<mutationLease, task, updater>>
        BY <1>5 DEF ConfigStep, SaveDirect, ConnectSsh, ActivateWorkspace, DeleteConfig, Configures,
                    exclusionVars, KeepsJournals, migrationVars, updateVars
    <2>2. \A k \in Rotations : rotation'[k].pc = rotation[k].pc
        BY <1>5 DEF ConfigStep, SaveDirect, ConnectSsh, ActivateWorkspace, DeleteConfig,
                    KeepsJournals, rotationVars, OpsTypeOK, RotationTypeOK
    <2>3. QED
        BY <2>1, <2>2 DEF LeaseIsHeld
<1>6. CASE RunStep
    BY <1>6 DEF RunStep, AcquireRunStartLease, ReleaseRunStart, HandOver, Unfollow, KeepsJournals,
                migrationVars, updateVars, rotationVars, LeaseIsHeld
<1>7. CASE Crash
    <2>1. task'.pc = "boot" /\ \A u \in Updates : updater'[u].pc \in {"idle", "done"}
        BY <1>7, ZenonT(40) DEF Crash, OpsTypeOK, UpdateTypeOK
    <2>2. \A k \in Rotations : rotation'[k].pc \in {"idle", "done"}
        BY <1>7 DEF Crash, OpsTypeOK, RotationTypeOK, NoRequest
    <2>3. QED
        BY <2>1, <2>2 DEF LeaseIsHeld, TaskHolds, Holding, RotationHolds
<1>8. CASE UNCHANGED opsVars
    BY <1>8 DEF opsVars, exclusionVars, migrationVars, updateVars, rotationVars, LeaseIsHeld
<1>9. QED
    BY <1>2, <1>3, <1>4, <1>5, <1>6, <1>7, <1>8 DEF OpsNext

\* Whoever is in the middle of an update, of a change of key or of the part of a
\* migration that its lease covers, holds the lease: no crash, failure or request
\* in between takes it away.
THEOREM OperationsHoldTheLease == OpsSpec => []LeaseIsHeld
<1>1. OpsInit => LeaseIsHeld
    BY DEF OpsInit, MigrationInit, IdleTask, UpdateInit, RotationInit, NoRequest, LeaseIsHeld, TaskHolds,
           Holding, RotationHolds
<1>2. QED
    BY <1>1, LeaseStep, OperationsAreTyped, PTL DEF OpsSpec

\* The machine of the runtime is changed under the lease only, except by the rollback
\* and the cleaning of a migration, which executeStorageMigration does in its catch.
THEOREM ChangesAreUnderLease == OpsSpec => ChangedUnderLease
<1>1. /\ OpsTypeOK /\ LeaseIsHeld /\ [OpsNext]_opsVars
      => [host' # host => mutationLease # NoLease \/ task.pc \in {"rollback", "clean"}]_opsVars
    <2> SUFFICES ASSUME OpsTypeOK, LeaseIsHeld, [OpsNext]_opsVars, host' # host
                 PROVE  mutationLease # NoLease \/ task.pc \in {"rollback", "clean"}
        OBVIOUS
    <2>1. /\ Migration # NoLease /\ NoLease \notin Updates /\ NoLease \notin Rotations
        BY DEF MigrationAssumption, HostAssumption, ExclusionAssumption
    <2>2. CASE MigrationStep
        <3>1. TaskStep
            BY <2>2 DEF MigrationStep, CreatePlan, ExpirePlan, StartMigration, hostVars
        <3>2. Revalidates \/ Copies \/ CutsOver \/ Cleans \/ RollsBack \/ BootInspects
            BY <3>1 DEF TaskStep, TakesLease, Interrupted, Gives, Verifies, ActivatesTask, Activates,
                        Succeeds, Refuses, RecordsRollback, RecordsUnproven, BootExamines, BootAdmits,
                        hostVars
        <3>3. QED
            BY <2>1, <3>2 DEF Revalidates, Copies, CutsOver, Cleans, RollsBack, BootInspects,
                              LeaseIsHeld, TaskHolds
    <2>3. CASE UpdateStep
        <3>1. PICK u \in Updates :
                \/ AppliesByManager(u) \/ AppliesByDocker(u) \/ RestoresDocker(u) \/ UndoesDocker(u)
                \/ CleansUpdate(u)
            BY <2>3 DEF UpdateStep, UpdaterStep, StartUpdate, RegistersRunner, MarksRunning,
                        BeginsUpdate, GivesUpUpdate, VerifiesUpdate, RechecksDocker, ClosesUpdate,
                        PollReads, PollChecks, PollPlans, PollWrites, OnlyMoves, hostVars
        <3>2. QED
            BY <2>1, <3>1 DEF AppliesByManager, AppliesByDocker, RestoresDocker, UndoesDocker,
                              CleansUpdate, IsAt, LeaseIsHeld, Holding
    <2>4. CASE RotationStep
        <3>1. PICK k \in Rotations : WritesToken(k) \/ UndoesToken(k)
            BY <2>4 DEF RotationStep, PlanRotation, BeginsRotation, ImportsToken, FailsRotation,
                        SavesCandidate, CommitsToken, RecordsSuccess, ClosesRotation, hostVars
        <3>2. QED
            BY <2>1, <3>1 DEF WritesToken, UndoesToken, Now, LeaseIsHeld, RotationHolds
    <2>5. CASE ConfigStep \/ RunStep \/ Crash
        BY <2>5 DEF ConfigStep, SaveDirect, ConnectSsh, ActivateWorkspace, DeleteConfig, Configures,
                    RunStep, Crash, hostVars
    <2>6. CASE UNCHANGED opsVars
        BY <2>6 DEF opsVars, hostVars
    <2>7. QED
        BY <2>2, <2>3, <2>4, <2>5, <2>6 DEF OpsNext
<1>2. QED
    BY <1>1, OperationsAreTyped, OperationsHoldTheLease, PTL DEF OpsSpec, ChangedUnderLease

-----------------------------------------------------------------------------
(* Turns: a migration is alone from its first write to its last *)

NotOver == {"running", "recovery_required"}

\* The steps of the task at which its row is the newest, and not over.
TaskActs == {"revalidate", "copy", "cutover", "verify", "activate", "clean", "rollback", "rolled",
             "unproven", "succeed", "inspect", "admit"}

TaskHasItsRow ==
    /\ task.pc \in TaskActs => journal.row = task.row /\ journal.status \in NotOver
    /\ task.pc = "execute" /\ journal.row = task.row => journal.status \in {"queued", "none"}
    /\ task.pc = "execute" => task.row <= journal.row

NobodyElse ==
    journal.status \in NotOver =>
        /\ \A u \in Updates : updater[u].pc \notin Holding
        /\ \A k \in Rotations : rotation[k].pc \notin RotationHolds

Turns == TaskHasItsRow /\ NobodyElse

\* A task or a journal that is typed, as the steps below use it.
LEMMA TaskRecord ==
    ASSUME OpsTypeOK
    PROVE  /\ journal.row \in Nat /\ task.row \in Nat
           /\ \A pc : Goto(pc) => task'.pc = pc /\ task'.row = task.row /\ task'.boot = task.boot
           /\ \A status : Writes(status) => /\ journal.row = task.row /\ journal'.row = journal.row
                                            /\ journal'.status = status /\ journal.status # "none"
BY DEF OpsTypeOK, MigrationTypeOK, Goto, Writes

LEMMA TaskTurns ==
    ASSUME OpsTypeOK, LeaseIsHeld, Turns, TaskStep, UNCHANGED <<updateVars, rotationVars>>
    PROVE  Turns'
<1> USE DEF Turns, TaskHasItsRow, NobodyElse, TaskActs, NotOver
<1>0. /\ journal.row \in Nat /\ task.row \in Nat /\ IdleTask.pc = "idle"
      /\ \A pc : Goto(pc) => task'.pc = pc /\ task'.row = task.row
      /\ \A status : Writes(status) => /\ journal.row = task.row /\ journal'.row = journal.row
                                       /\ journal'.status = status /\ journal.status # "none"
      /\ UNCHANGED <<updater, rotation>>
    BY TaskRecord DEF IdleTask, updateVars, rotationVars
<1>1. CASE TakesLease
    <2>1. mutationLease = NoLease
        BY <1>1 DEF TakesLease, AcquireMutationLease
    <2>2. /\ \A u \in Updates : updater[u].pc \notin Holding
          /\ \A k \in Rotations : rotation[k].pc \notin RotationHolds
        BY <2>1 DEF LeaseIsHeld, ExclusionAssumption, HostAssumption
    <2>3. QED
        BY <1>0, <1>1, <2>2 DEF TakesLease
<1>2. CASE Interrupted
    <2>1. PICK pc \in {"refuse", "clean", "rollback", "unproven"} :
            /\ Goto(pc) /\ UNCHANGED journal
            /\ pc # "refuse" => task.pc \in TaskActs
        BY <1>2 DEF Interrupted, Catch, Gives
    <2>2. QED
        BY <1>0, <2>1
<1>3. ASSUME NEW next \in TaskActs, NEW catch \in TaskActs, NEW outcomes, task.pc \in TaskActs,
             Sends(outcomes, next, catch) \/ Activates(catch) \/ Gives(catch)
      PROVE  Turns'
    <2>1. UNCHANGED journal /\ \E pc \in TaskActs : Goto(pc)
        BY <1>3 DEF Sends, Activates, Gives
    <2>2. QED
        BY <1>0, <1>3, <2>1
<1>4. CASE Revalidates \/ Copies \/ CutsOver \/ ActivatesTask \/ RollsBack
    BY <1>3, <1>4 DEF Revalidates, Copies, CutsOver, ActivatesTask, RollsBack
<1>5. CASE Verifies
    BY <1>0, <1>5 DEF Verifies
<1>6. CASE Succeeds \/ RecordsRollback \/ RecordsUnproven
    <2>1. task.pc \in TaskActs
        BY <1>6 DEF Succeeds, RecordsRollback, RecordsUnproven
    <2>2. \/ task' = IdleTask /\ (journal' = journal \/ \E status : Writes(status))
          \/ Goto("unproven") /\ UNCHANGED journal
        BY <1>6 DEF Succeeds, RecordsRollback, RecordsUnproven, ClosesAs
    <2>3. QED
        BY <1>0, <2>1, <2>2
<1>7. CASE Refuses
    BY <1>0, <1>7 DEF Refuses, ClosesAs
<1>8. CASE Cleans
    BY <1>0, <1>8 DEF Cleans
<1>9. CASE BootExamines
    BY <1>0, <1>9 DEF BootExamines, IdleTask
<1>10. CASE BootInspects
    BY <1>0, <1>3, <1>10 DEF BootInspects
<1>11. CASE BootAdmits
    BY <1>0, <1>3, <1>11 DEF BootAdmits
<1>12. QED
    BY <1>1, <1>2, <1>4, <1>5, <1>6, <1>7, <1>8, <1>9, <1>10, <1>11 DEF TaskStep

\* An update and a change of key enter the steps that hold the runtime by its lease only.
LEMMA UpdaterEnters ==
    ASSUME OpsTypeOK, NEW u \in Updates, StartUpdate(u) \/ UpdaterStep(u)
    PROVE  /\ updater'[u].pc \in Holding /\ updater[u].pc \notin Holding =>
                BeginsUpdate(u) /\ Takes(Updates)
           /\ \A v \in Updates \ {u} : updater'[v] = updater[v]
<1> USE DEF Holding, GoesOn, IsAt
<1>1. updater \in [Updates -> UpdaterRecords] /\ updater[u] \in UpdaterRecords
    BY DEF OpsTypeOK, UpdateTypeOK, UpdaterRecords
<1>2. CASE BeginsUpdate(u)
    <2>1. updater'[u].pc \in Holding => Takes(Updates)
        BY <1>1, <1>2 DEF BeginsUpdate, AcquireMutationLease, Takes, UpdaterRecords
    <2>2. QED
        BY <1>1, <1>2, <2>1 DEF BeginsUpdate
<1>3. CASE StartUpdate(u) \/ RegistersRunner(u) \/ MarksRunning(u) \/ ClosesUpdate(u)
    BY <1>1, <1>3 DEF UpdaterRecords, StartUpdate, RegistersRunner, MarksRunning, ClosesUpdate
<1>4. CASE GivesUpUpdate(u) \/ AppliesByManager(u) \/ RestoresDocker(u)
            \/ VerifiesUpdate(u) \/ CleansUpdate(u) \/ UndoesDocker(u) \/ RechecksDocker(u)
    BY <1>1, <1>4 DEF GivesUpUpdate, AppliesByManager, RestoresDocker, VerifiesUpdate,
                      CleansUpdate, UndoesDocker, RechecksDocker
<1>5. CASE AppliesByDocker(u)
    BY <1>1, <1>5 DEF AppliesByDocker
<1>6. QED
    BY <1>2, <1>3, <1>4, <1>5 DEF UpdaterStep

LEMMA RotationEnters ==
    ASSUME OpsTypeOK, RotationStep,
           NEW k \in Rotations, rotation'[k].pc \in RotationHolds, rotation[k].pc \notin RotationHolds
    PROVE  Takes(Rotations)
<1> USE DEF RotationHolds, Becomes, Now
<1>1. PICK j \in Rotations :
        \/ \E imports \in BOOLEAN : PlanRotation(j, imports)
        \/ BeginsRotation(j) \/ ImportsToken(j) \/ WritesToken(j) \/ FailsRotation(j)
        \/ SavesCandidate(j) \/ CommitsToken(j) \/ RecordsSuccess(j) \/ UndoesToken(j)
        \/ ClosesRotation(j)
    BY DEF RotationStep
<1>2. rotation \in [Rotations -> RotationRecords] /\ rotation[j] \in RotationRecords
    BY DEF OpsTypeOK, RotationTypeOK, RotationRecords
<1>3. \E r : rotation' = [rotation EXCEPT ![j] = r]
    <2>1. CASE WritesToken(j)
        BY <2>1 DEF WritesToken
    <2>2. CASE ~WritesToken(j)
        BY <1>1, <2>2 DEF PlanRotation, BeginsRotation, ImportsToken, FailsRotation, SavesCandidate,
                          CommitsToken, RecordsSuccess, UndoesToken, ClosesRotation
    <2>3. QED
        BY <2>1, <2>2
<1>4. k = j
    BY <1>2, <1>3
<1>5. CASE BeginsRotation(j)
    BY <1>5 DEF BeginsRotation, AcquireMutationLease, Takes
<1>6. CASE \E imports \in BOOLEAN : PlanRotation(j, imports)
    BY <1>2, <1>4, <1>6 DEF PlanRotation, RotationRecords
<1>7. CASE RecordsSuccess(j) \/ ClosesRotation(j)
    BY <1>2, <1>4, <1>7 DEF RecordsSuccess, ClosesRotation
<1>8. CASE ImportsToken(j) \/ WritesToken(j) \/ FailsRotation(j) \/ SavesCandidate(j)
            \/ CommitsToken(j) \/ UndoesToken(j)
    BY <1>4, <1>8 DEF ImportsToken, WritesToken, FailsRotation, SavesCandidate, CommitsToken, UndoesToken
<1>9. QED
    BY <1>1, <1>5, <1>6, <1>7, <1>8

\* A step that does not cross a migration keeps the turns.
LEMMA TurnsStep ==
    OpsTypeOK /\ LeaseIsHeld /\ (crossed \/ Turns) /\ [OpsNext]_opsVars => (crossed' \/ Turns')
<1> SUFFICES ASSUME OpsTypeOK, LeaseIsHeld, crossed \/ Turns, [OpsNext]_opsVars, ~crossed'
             PROVE  Turns'
    OBVIOUS
<1>1. Turns
    BY DEF OpsNext, MigrationStep, Crosses, Crash, opsVars
<1>2. CASE MigrationStep
    <2>1. CASE TaskStep
        BY <1>1, <1>2, <2>1, TaskTurns DEF MigrationStep
    <2>2. CASE CreatePlan \/ ExpirePlan \/ StartMigration
        <3>1. journal.row \in Nat /\ task.row \in Nat
            BY TaskRecord
        <3>2. UNCHANGED <<updater, rotation>> /\ journal \in [row : 0..MaxMigrations,
                  status : MigrationStatuses, revision : 0..MaxRevision]
            BY <1>2 DEF MigrationStep, updateVars, rotationVars, OpsTypeOK, MigrationTypeOK
        <3>3. QED
            BY <1>1, <2>2, <3>1, <3>2
               DEF Turns, TaskHasItsRow, NobodyElse, NotOver, TaskActs, CreatePlan, ExpirePlan,
                   StartMigration, Blocking
    <2>3. QED
        BY <1>2, <2>1, <2>2 DEF MigrationStep
<1>3. CASE UpdateStep /\ UNCHANGED <<migrationVars, rotationVars>> /\ Crosses(Takes(Updates))
    <2>1. Takes(Updates) => journal.status \notin NotOver
        BY <1>3 DEF Crosses, NotOver
    <2>2. \A v \in Updates : updater'[v].pc \in Holding => updater[v].pc \in Holding \/ Takes(Updates)
        <3>1. CASE \E u \in Updates : StartUpdate(u) \/ UpdaterStep(u)
            BY <3>1, UpdaterEnters
        <3>2. CASE UNCHANGED updater
            BY <3>2
        <3>3. QED
            BY <1>3, <3>1, <3>2 DEF UpdateStep, PollReads, PollChecks, PollPlans, PollWrites
    <2>3. QED
        BY <1>1, <1>3, <2>1, <2>2
           DEF Turns, TaskHasItsRow, NobodyElse, migrationVars, rotationVars
<1>4. CASE RotationStep /\ UNCHANGED <<migrationVars, updateVars>> /\ Crosses(Takes(Rotations))
    <2>1. Takes(Rotations) => journal.status \notin NotOver
        BY <1>4 DEF Crosses, NotOver
    <2>2. QED
        BY <1>1, <1>4, <2>1, RotationEnters
           DEF Turns, TaskHasItsRow, NobodyElse, migrationVars, updateVars
<1>5. CASE ConfigStep /\ Crosses(TRUE)
    <2>1. journal.status \notin NotOver
        BY <1>5 DEF Crosses, NotOver
    <2>2. UNCHANGED <<task, updater>> /\ journal'.row = journal.row
          /\ (journal'.status = journal.status \/ journal'.status = "none")
        BY <1>5 DEF ConfigStep, SaveDirect, ConnectSsh, ActivateWorkspace, DeleteConfig, Configures,
                    KeepsJournals, migrationVars, updateVars, OpsTypeOK, MigrationTypeOK
    <2>3. QED
        BY <1>1, <2>1, <2>2 DEF Turns, TaskHasItsRow, NobodyElse, NotOver
<1>6. CASE RunStep /\ UNCHANGED crossed
    BY <1>1, <1>6 DEF RunStep, KeepsJournals, migrationVars, updateVars, rotationVars, Turns,
                      TaskHasItsRow, NobodyElse
<1>7. CASE Crash
    <2>1. task'.pc = "boot" /\ UNCHANGED journal /\ \A u \in Updates : updater'[u].pc \in {"idle", "done"}
        BY <1>7 DEF Crash
    <2>2. \A k \in Rotations : rotation'[k].pc \in {"idle", "done"}
        BY <1>7 DEF Crash, NoRequest
    <2>3. QED
        BY <2>1, <2>2 DEF Turns, TaskHasItsRow, NobodyElse, TaskActs, Holding, RotationHolds
<1>8. CASE UNCHANGED opsVars
    BY <1>1, <1>8 DEF opsVars, migrationVars, updateVars, rotationVars, Turns, TaskHasItsRow, NobodyElse
<1>9. QED
    BY <1>2, <1>3, <1>4, <1>5, <1>6, <1>7, <1>8 DEF OpsNext

LEMMA TurnsHold == OpsSpec => [](crossed \/ Turns)
<1>1. OpsInit => Turns
    BY DEF OpsInit, MigrationInit, IdleTask, Turns, TaskHasItsRow, NobodyElse, TaskActs, NotOver
<1>2. QED
    BY <1>1, TurnsStep, OperationsAreTyped, OperationsHoldTheLease, PTL DEF OpsSpec


-----------------------------------------------------------------------------
(* The moves of a change of key *)

\* A record q of a change of key that becomes r without its backup being touched.
SameBackup(q, r) ==
    r.imports = q.imports /\ r.backup = q.backup /\ r.before = q.before

\* Where an error leads.
Failed(q, r) ==
    IF q.backup /\ ~q.imports THEN r.pc = "undo" ELSE r.pc = "close" /\ r.closing = "rolled_back"

\* The steps that leave the machine, the configuration and what is lost alone.
QuietMove(q, r) ==
    \/ q.pc = "idle" /\ r.pc = "planned" /\ r.backup = q.backup /\ r.status = q.status
    \/ /\ q.pc = "planned" /\ r.pc = "write" /\ SameBackup(q, r) /\ r.status = "applying"
       /\ mutationLease = NoLease
    \/ /\ q.pc \in {"write", "save"} /\ r.pc \in {"save", "verify"} /\ SameBackup(q, r)
       /\ q.pc = "write" => q.imports
       /\ r.status \in {q.status, "verifying"}
    \/ /\ q.pc \in {"write", "save", "verify"} /\ SameBackup(q, r) /\ r.status = q.status
       /\ Failed(q, r)
    \/ q.pc = "succeed" /\ r.pc = "done" /\ ~r.backup /\ r.status \in {q.status, "succeeded"}
    \/ q.pc = "close" /\ r.pc = "done" /\ ~r.backup /\ r.status \in {q.status, q.closing}

\* The three that do not: the key is written, committed, or put back.
WriteMove(k, q, r) ==
    /\ q.pc = "write" /\ ~q.imports /\ ~r.imports /\ r.status = q.status
    /\ r.before = [mount |-> host.mount, token |-> host.token] /\ host.mount # "none"
    /\ \/ r.backup /\ r.pc \in {"save", "undo"}
       \/ ~r.backup /\ r.pc = "close" /\ r.closing = "rolled_back"
    /\ r.backup \/ host' = host \/ k \in lost'
    /\ Rekeyed(host, host', host.mount, k)
    /\ lost \subseteq lost' /\ UNCHANGED config

CommitMove(q, r) ==
    /\ q.pc = "verify" /\ r.pc = "succeed" /\ SameBackup(q, r) /\ r.status = q.status
    /\ config' = [config EXCEPT !.token = host.token, !.revision = @ + 1]
    /\ UNCHANGED <<host, lost>>

UndoMove(q, r) ==
    /\ q.pc = "undo" /\ r.pc = "close" /\ SameBackup(q, r) /\ r.status = q.status
    /\ \/ r.closing = "recovery_required"
       \/ r.closing = "rolled_back" /\ host'.token = q.before.token
    /\ Rekeyed(host, host', q.before.mount, q.before.token)
    /\ UNCHANGED <<config, lost>>

RotationMove(k, r) ==
    /\ r \in RotationRecords /\ Becomes(k, r)
    /\ \/ QuietMove(rotation[k], r) /\ UNCHANGED <<host, config, lost>>
       \/ WriteMove(k, rotation[k], r) \/ CommitMove(rotation[k], r) \/ UndoMove(rotation[k], r)

LEMMA FailsMoves ==
    ASSUME NEW q \in RotationRecords
    PROVE  SameBackup(q, Fails(q)) /\ Fails(q).status = q.status /\ Failed(q, Fails(q))
<1>1. CASE q.backup /\ ~q.imports
    BY <1>1 DEF Fails, RotationRecords, SameBackup, Failed
<1>2. CASE ~(q.backup /\ ~q.imports)
    BY <1>2 DEF Fails, RotationRecords, SameBackup, Failed
<1>3. QED
    BY <1>1, <1>2

\* Every step of a change of key is one of these moves.
LEMMA RotationMoves ==
    ASSUME OpsTypeOK, RotationStep
    PROVE  \E k \in Rotations : \E r : RotationMove(k, r)
<1>1. PICK k \in Rotations :
        \/ \E imports \in BOOLEAN : PlanRotation(k, imports)
        \/ BeginsRotation(k) \/ ImportsToken(k) \/ WritesToken(k) \/ FailsRotation(k)
        \/ SavesCandidate(k) \/ CommitsToken(k) \/ RecordsSuccess(k) \/ UndoesToken(k)
        \/ ClosesRotation(k)
    BY DEF RotationStep
<1> DEFINE q == rotation[k]
<1>2. /\ q \in RotationRecords /\ host \in Hosts /\ config \in Configs
      /\ q.before \in [mount : Mounts, token : Tokens] /\ k \in Tokens
    BY DEF OpsTypeOK, HostTypeOK, RotationTypeOK, RotationRecords, Tokens
<1>3. Fails(q) \in RotationRecords
    BY <1>2, FailsIsTyped
<1> HIDE DEF q
<1>4. ASSUME NEW r \in RotationRecords, Becomes(k, r), QuietMove(q, r), UNCHANGED <<host, config, lost>>
      PROVE  RotationMove(k, r)
    BY <1>4 DEF RotationMove, q
<1>5. ASSUME NEW imports \in BOOLEAN, PlanRotation(k, imports)
      PROVE  \E r : RotationMove(k, r)
    <2> DEFINE revision == config.revision
               r == [q EXCEPT !.pc = "planned", !.imports = imports, !.revision = revision]
    <2>1. Becomes(k, r) /\ q.pc = "idle" /\ UNCHANGED <<host, config, lost>>
        BY <1>5 DEF PlanRotation, Now, hostVars, q
    <2>2. revision \in 0..MaxRevision
        BY <1>2 DEF Configs
    <2> HIDE DEF revision
    <2>3. r \in RotationRecords /\ r.pc = "planned" /\ r.backup = q.backup /\ r.status = q.status
        BY <1>2, <2>2 DEF RotationRecords, RotationPCs
    <2> HIDE DEF r
    <2>4. QED
        BY <1>4, <2>1, <2>3 DEF QuietMove
<1>6. CASE BeginsRotation(k)
    <2> DEFINE r == [q EXCEPT !.pc = "write", !.status = "applying"]
    <2>1. /\ Becomes(k, r) /\ q.pc = "planned" /\ UNCHANGED <<host, config, lost>>
          /\ mutationLease = NoLease
        BY <1>6 DEF BeginsRotation, AcquireMutationLease, Now, hostVars, q
    <2>2. r \in RotationRecords /\ r.pc = "write" /\ SameBackup(q, r) /\ r.status = "applying"
        BY <1>2 DEF RotationRecords, RotationPCs, SameBackup, ActiveRotation
    <2> HIDE DEF r
    <2>3. QED
        BY <1>4, <2>1, <2>2 DEF QuietMove
<1>7. CASE FailsRotation(k) \/ (ImportsToken(k) /\ Becomes(k, Fails(q)))
    <2>1. /\ Becomes(k, Fails(q)) /\ q.pc \in {"write", "save", "verify"}
          /\ UNCHANGED <<host, config, lost>>
        BY <1>7 DEF FailsRotation, ImportsToken, Now, hostVars, q
    <2>2. QED
        BY <1>2, <1>3, <1>4, <2>1, FailsMoves DEF QuietMove
<1>8. CASE ImportsToken(k) /\ ~Becomes(k, Fails(q))
    <2> DEFINE token == host.token
               r == [q EXCEPT !.pc = "save", !.candidate = token]
    <2>1. /\ Becomes(k, r) /\ q.pc = "write" /\ q.imports /\ UNCHANGED <<host, config, lost>>
        BY <1>8 DEF ImportsToken, Now, hostVars, q
    <2>2. token \in Tokens
        BY <1>2 DEF Hosts
    <2> HIDE DEF token
    <2>3. r \in RotationRecords /\ r.pc = "save" /\ SameBackup(q, r) /\ r.status = q.status
        BY <1>2, <2>2 DEF RotationRecords, RotationPCs, SameBackup
    <2> HIDE DEF r
    <2>4. QED
        BY <1>4, <2>1, <2>3 DEF QuietMove
<1>9. CASE SavesCandidate(k)
    <2> DEFINE r == [q EXCEPT !.pc = "verify", !.status = "verifying"]
    <2>1. /\ Becomes(k, r) /\ q.pc = "save" /\ UNCHANGED <<host, config, lost>>
        BY <1>9 DEF SavesCandidate, Now, hostVars, q
    <2>2. r \in RotationRecords /\ r.pc = "verify" /\ SameBackup(q, r) /\ r.status = "verifying"
        BY <1>2 DEF RotationRecords, RotationPCs, SameBackup, ActiveRotation
    <2> HIDE DEF r
    <2>3. QED
        BY <1>4, <2>1, <2>2 DEF QuietMove
<1>10. CASE RecordsSuccess(k) \/ ClosesRotation(k)
    <2>1. PICK status : /\ Becomes(k, NoRequest("done", status))
                        /\ \/ q.pc = "succeed" /\ status \in {q.status, "succeeded"}
                           \/ q.pc = "close" /\ status \in {q.status, q.closing}
        BY <1>10 DEF RecordsSuccess, ClosesRotation, Now, q
    <2>2. UNCHANGED <<host, config, lost>>
        BY <1>10 DEF RecordsSuccess, ClosesRotation, hostVars
    <2>3. status \in {"none", "succeeded", "rolled_back"} \union ActiveRotation
        BY <1>2, <2>1 DEF RotationRecords, ActiveRotation
    <2> DEFINE r == NoRequest("done", status)
    <2>4. r \in RotationRecords /\ r.pc = "done" /\ r.status = status /\ ~r.backup
        BY <2>3, NoRequestIsTyped DEF NoRequest
    <2>5. Becomes(k, r)
        BY <2>1
    <2> HIDE DEF r
    <2>6. QED
        BY <1>4, <2>1, <2>2, <2>4, <2>5 DEF QuietMove
<1>11. CASE WritesToken(k)
    <2> DEFINE before == [mount |-> host.mount, token |-> host.token]
               r0(backup) == [q EXCEPT !.backup = backup, !.candidate = k, !.before = before]
    <2>1. PICK o \in WriteToken(host, k), heard \in BOOLEAN :
            /\ host' = o.host
            /\ Becomes(k, IF heard /\ o.ok THEN [r0(heard /\ o.announced) EXCEPT !.pc = "save"]
                                           ELSE Fails(r0(heard /\ o.announced)))
            /\ lost' = IF heard THEN lost ELSE lost \union {k}
        BY <1>11 DEF WritesToken, q
    <2>2. q.pc = "write" /\ ~q.imports /\ host.mount # "none" /\ UNCHANGED config
        BY <1>11, <2>1 DEF WritesToken, Now, Startable, q
    <2> DEFINE backup == heard /\ o.announced
               r == r0(backup)
    <2>3. /\ o.announced \in BOOLEAN /\ o.ok \in BOOLEAN
          /\ Rekeyed(host, host', host.mount, k)
          /\ o.ok => o.announced
          /\ ~o.announced => host' = host
        BY <1>2, <2>1, WriteTokenChanges
    <2>5. backup \in BOOLEAN /\ before \in [mount : Mounts, token : Tokens]
        BY <1>2, <2>3 DEF Hosts
    <2>6. heard /\ o.ok => backup
        BY <2>3
    <2>7. backup \/ host' = host \/ k \in lost'
        BY <2>1, <2>3
    <2>8. lost \subseteq lost'
        BY <2>1
    <2>9. Becomes(k, IF heard /\ o.ok THEN [r EXCEPT !.pc = "save"] ELSE Fails(r))
        BY <2>1
    <2> HIDE DEF backup, before
    <2>10. /\ r \in RotationRecords /\ r.backup = backup /\ r.before = before /\ r.imports = q.imports
           /\ r.status = q.status
        BY <1>2, <2>5 DEF RotationRecords
    <2> HIDE DEF r
    <2>11. Fails(r) \in RotationRecords
        BY <2>10, FailsIsTyped
    <2>12. CASE heard /\ o.ok
        <3> DEFINE s == [r EXCEPT !.pc = "save"]
        <3>1. s \in RotationRecords /\ s.pc = "save" /\ SameBackup(r, s) /\ s.status = r.status
            BY <2>10 DEF RotationRecords, RotationPCs, SameBackup
        <3>2. Becomes(k, s)
            BY <2>9, <2>12
        <3> HIDE DEF s
        <3>3. WriteMove(k, q, s)
            BY <2>2, <2>3, <2>6, <2>7, <2>8, <2>10, <2>12, <3>1 DEF WriteMove, SameBackup, before
        <3>4. QED
            BY <3>1, <3>2, <3>3 DEF RotationMove, q
    <2>13. CASE ~(heard /\ o.ok)
        <3> DEFINE s == Fails(r)
        <3>1. SameBackup(r, s) /\ s.status = r.status /\ Failed(r, s)
            BY <2>10, FailsMoves
        <3>2. Becomes(k, s) /\ s \in RotationRecords
            BY <2>9, <2>11, <2>13
        <3> HIDE DEF s
        <3>3. WriteMove(k, q, s)
            BY <2>2, <2>3, <2>7, <2>8, <2>10, <3>1 DEF WriteMove, SameBackup, Failed, before
        <3>4. QED
            BY <3>2, <3>3 DEF RotationMove, q
    <2>14. QED
        BY <2>12, <2>13
<1>12. CASE CommitsToken(k)
    <2> DEFINE r == [q EXCEPT !.pc = "succeed"]
    <2>1. /\ Becomes(k, r) /\ q.pc = "verify" /\ UNCHANGED <<host, lost>>
          /\ config' = [config EXCEPT !.token = host.token, !.revision = @ + 1]
        BY <1>12 DEF CommitsToken, Now, q
    <2>2. r \in RotationRecords /\ r.pc = "succeed" /\ SameBackup(q, r) /\ r.status = q.status
        BY <1>2 DEF RotationRecords, RotationPCs, SameBackup
    <2> HIDE DEF r
    <2>3. QED
        BY <2>1, <2>2 DEF RotationMove, CommitMove, q
<1>13. CASE UndoesToken(k)
    <2>1. PICK o \in RestoreToken(host, q.before) :
            /\ host' = o.host
            /\ Becomes(k, [q EXCEPT !.pc = "close",
                   !.closing = IF o.ok THEN "rolled_back" ELSE "recovery_required"])
        BY <1>13 DEF UndoesToken, q
    <2>2. q.pc = "undo" /\ UNCHANGED <<config, lost>>
        BY <1>13 DEF UndoesToken, Now, q
    <2> DEFINE closing == IF o.ok THEN "rolled_back" ELSE "recovery_required"
               r == [q EXCEPT !.pc = "close", !.closing = closing]
    <2>3. closing = "recovery_required" \/ (closing = "rolled_back" /\ o.ok)
        OBVIOUS
    <2>4. Becomes(k, r)
        BY <2>1
    <2> HIDE DEF closing
    <2>5. /\ r \in RotationRecords /\ r.pc = "close" /\ r.closing = closing /\ SameBackup(q, r)
          /\ r.status = q.status
        BY <1>2, <2>3 DEF RotationRecords, RotationPCs, SameBackup
    <2> HIDE DEF r
    <2>6. Rekeyed(host, host', q.before.mount, q.before.token) /\ (o.ok => host'.token = q.before.token)
        BY <1>2, <2>1, RestoreTokenChanges
    <2>8. UndoMove(q, r)
        BY <2>2, <2>3, <2>5, <2>6 DEF UndoMove
    <2>9. QED
        BY <2>4, <2>5, <2>8 DEF RotationMove, q
<1>14. QED
    BY <1>1, <1>5, <1>6, <1>7, <1>8, <1>9, <1>10, <1>11, <1>12, <1>13

-----------------------------------------------------------------------------
(* What is known of the machine, as long as nothing crosses a migration *)

\* The container that is kept is a way back, the directory has the whole copy as long as
\* it is, and what runs on the directory was cut over to, or put there by an update.
HostIsSound ==
    /\ host.kept => host.data = "full" /\ host.mount \in {"none", "bind"} /\ host.keptAs.project # "managed"
    /\ host.project = "managed" => host.mount \in {"none", "bind"} /\ host.env = host.token
    /\ host.mount = "bind" \/ host.project = "managed" => host.kept \/ astray
    /\ journal.status \in {"planned", "queued"} => ~host.kept
    /\ journal.status = "succeeded" => host.kept \/ astray

\* What the task knows at each of its steps.
TaskKnows ==
    /\ task.pc \in {"copy", "cutover"} =>
         host.mount = "volume" /\ ~host.kept /\ host.env = host.token
    /\ task.pc = "cutover" => host.data = "full"
    /\ task.pc \in {"verify", "activate"} => host.kept
    /\ task.pc \in {"succeed", "admit"} => host.kept \/ astray
    /\ task.pc = "rollback" => host.kept \/ host.mount = "volume"
    /\ task.pc = "rolled" => host.mount = "volume" /\ ~host.kept /\ host.running
    /\ journal.status \in NotOver /\ host.kept => host.keptAs.token = host.token

\* A key that the Console stores, or whose loss is recorded: a command timed out, a change
\* of key or an update was left in the middle.
Stuck == \E k \in Rotations : rotation[k].status \in ActiveRotation /\ rotation[k].pc = "done"
Stale == \E u \in Updates : host.left[u].legacy /\ updater[u].pc \notin Holding
SettledTokens ==
    {t \in Tokens :
        (config.exists /\ config.ssh => t = config.token) \/ lost # {} \/ Stuck \/ Stale}

\* What the undoing of an update would bring back, and that there is something to bring
\* back.
Unapplied == {"idle", "inserted", "start", "begin", "apply"}
Undoable  == {"restore", "verify", "clean", "undo"}
WayBack(u) ==
    /\ host.left[u].backup
    /\ host.left[u].adopts => host.left[u].legacy \/ (host.project = "none" /\ host.mount # "none")
UpdateKnows(u) ==
    LET left == host.left[u] IN
    /\ updater[u].pc \in Unapplied => ~left.legacy /\ ~left.backup /\ ~updater[u].checkpoint
    /\ updater[u].pc \in Undoable =>
         /\ left.legacy => /\ left.mount = "bind" => host.kept \/ astray
                           /\ host.kept => left.mount = "bind"
                           /\ left.token \in SettledTokens
         /\ left.backup /\ ~left.adopts => host.project = left.project
    /\ updater[u].pc = "clean" => Answers(host)
    /\ updater[u].pc \in {"restore", "verify"} /\ updater[u].checkpoint => WayBack(u)
    /\ updater[u].pc = "restore" => updater[u].checkpoint
    /\ updater[u].pc = "undo" => WayBack(u) \/ Answers(host)

\* What the backup of a change of key would bring back, and what its end would say.
RotationKnows(k) ==
    LET r == rotation[k] IN
    /\ r.backup => r.pc \in RotationHolds
    /\ r.pc \in RotationHolds =>
        /\ r.status \in ActiveRotation
        /\ r.backup => /\ r.before.mount = "bind" => host.kept \/ astray
                       /\ host.kept => r.before.mount = "bind"
        /\ r.pc = "write" \/ r.imports => ~r.backup
        /\ r.pc = "undo" => r.backup
        /\ r.pc \in {"save", "verify", "undo"} /\ r.backup => r.before.token \in SettledTokens
        /\ r.pc \in {"write", "save", "verify"} /\ ~r.backup => host.token \in SettledTokens
        /\ r.pc = "succeed" => host.token \in SettledTokens
        /\ r.pc = "close" => r.closing = "recovery_required" \/ host.token \in SettledTokens

NobodyHolds ==
    /\ \A u \in Updates : updater[u].pc \notin Holding
    /\ \A k \in Rotations : rotation[k].pc \notin RotationHolds

\* When no operation has the key in hand it is settled.
KeyIsSettled ==
    /\ \A k \in Rotations : rotation[k].pc \notin RotationHolds
    /\ \A u \in Updates : updater[u].pc \in Holding => ~host.left[u].legacy
    => host.token \in SettledTokens

Known ==
    /\ HostIsSound
    /\ TaskKnows
    /\ \A u \in Updates : UpdateKnows(u)
    /\ \A k \in Rotations : RotationKnows(k)
    /\ KeyIsSettled

LEMMA KnownInitially == OpsInit => Known
<1> SUFFICES ASSUME OpsInit
             PROVE  Known
    OBVIOUS
<1>1. /\ host.mount = "volume" /\ ~host.kept /\ host.project \in {"none", "own"}
      /\ host.token = FirstToken /\ \A u \in Updates : host.left[u] = NoCheckpoint
    BY DEF OpsInit, HostInit
<1>2. /\ journal.status = "none" /\ task.pc = "idle"
      /\ \A u \in Updates : updater[u] = [pc |-> "idle", checkpoint |-> FALSE]
      /\ \A k \in Rotations : rotation[k] = NoRequest("idle", "none")
    BY DEF OpsInit, MigrationInit, IdleTask, UpdateInit, RotationInit
<1>3. HostIsSound /\ TaskKnows
    BY <1>1, <1>2 DEF HostIsSound, TaskKnows, NotOver
<1>4. \A u \in Updates : UpdateKnows(u)
    BY <1>1, <1>2 DEF UpdateKnows, NoCheckpoint, Undoable
<1>5. \A k \in Rotations : RotationKnows(k)
    BY <1>2 DEF RotationKnows, NoRequest, RotationHolds
<1>6. KeyIsSettled
    BY <1>1 DEF OpsInit, HostInit, KeyIsSettled, SettledTokens, Tokens
<1>7. QED
    BY <1>3, <1>4, <1>5, <1>6 DEF Known

\* Whoever holds the runtime for an update or a change of key is alone: no migration is in
\* the middle, and nobody else holds it.
LEMMA UpdaterIsAlone ==
    ASSUME LeaseIsHeld, Turns, NEW u \in Updates, updater[u].pc \in Holding
    PROVE  /\ journal.status \notin NotOver /\ task.pc \notin TaskActs
           /\ \A v \in Updates \ {u} : updater[v].pc \notin Holding
           /\ \A k \in Rotations : rotation[k].pc \notin RotationHolds
<1>1. u \notin Rotations
    BY DEF OperationsAssumption
<1>2. QED
    BY <1>1 DEF LeaseIsHeld, Turns, TaskHasItsRow, NobodyElse

LEMMA RotationIsAlone ==
    ASSUME LeaseIsHeld, Turns, NEW k \in Rotations, rotation[k].pc \in RotationHolds
    PROVE  /\ journal.status \notin NotOver /\ task.pc \notin TaskActs
           /\ \A u \in Updates : updater[u].pc \notin Holding
           /\ \A j \in Rotations \ {k} : rotation[j].pc \notin RotationHolds
<1>1. k \notin Updates
    BY DEF OperationsAssumption
<1>2. QED
    BY <1>1 DEF LeaseIsHeld, Turns, TaskHasItsRow, NobodyElse

LEMMA FreeLease ==
    ASSUME LeaseIsHeld, mutationLease = NoLease
    PROVE  NobodyHolds
BY DEF LeaseIsHeld, NobodyHolds, ExclusionAssumption, HostAssumption

\* A step of an update does not unsettle a key.
LEMMA UpdaterSettles ==
    ASSUME NEW u \in Updates, \A v \in Updates \ {u} : updater'[v] = updater[v],
           BesideSame(host, host', u), UNCHANGED <<config, lost, rotation>>,
           \/ updater[u].pc \in Holding
           \/ host'.left[u].legacy = host.left[u].legacy
              /\ (host.left[u].legacy => updater'[u].pc \notin Holding)
    PROVE  SettledTokens \subseteq SettledTokens'
<1>1. Stale => Stale'
    BY DEF Stale, BesideSame
<1>2. Stuck' <=> Stuck
    BY DEF Stuck
<1>3. QED
    BY <1>1, <1>2 DEF SettledTokens

\* What an update leaves behind keeps its key settled.
LEMMA LeftKeySettles ==
    ASSUME OpsTypeOK', NEW u \in Updates, host'.left[u].legacy, updater'[u].pc \notin Holding
    PROVE  SettledTokens' = Tokens
<1>1. Stale'
    BY DEF Stale
<1>2. QED
    BY <1>1 DEF SettledTokens

\* What remains to be shown of a step of an update that holds the runtime.
LEMMA UpdaterKeeps ==
    ASSUME OpsTypeOK, OpsTypeOK', LeaseIsHeld, Turns, Known, NEW u \in Updates, updater[u].pc \in Holding,
           \A v \in Updates \ {u} : updater'[v] = updater[v], BesideSame(host, host', u),
           UNCHANGED <<config, lost, rotation, journal, task>>,
           HostIsSound', UpdateKnows(u)', host'.left[u].legacy \/ host'.token \in SettledTokens'
    PROVE  Known'
<1>1. /\ journal.status \notin NotOver /\ task.pc \notin TaskActs
      /\ \A v \in Updates \ {u} : updater[v].pc \notin Holding
      /\ \A k \in Rotations : rotation[k].pc \notin RotationHolds
    BY UpdaterIsAlone
<1>2. TaskKnows'
    BY <1>1 DEF TaskKnows, TaskActs
<1>3. ASSUME NEW v \in Updates \ {u}
      PROVE  UpdateKnows(v)'
    <2>1. updater[v].pc \notin Holding /\ updater'[v] = updater[v] /\ host'.left[v] = host.left[v]
        BY <1>1 DEF BesideSame
    <2>2. UpdateKnows(v)
        BY DEF Known
    <2>3. QED
        BY <2>1, <2>2 DEF UpdateKnows, Holding, Undoable
<1>4. ASSUME NEW k \in Rotations
      PROVE  RotationKnows(k)'
    BY <1>1 DEF Known, RotationKnows
<1>5. KeyIsSettled'
    <2>1. CASE host'.left[u].legacy /\ updater'[u].pc \notin Holding
        <3>1. SettledTokens' = Tokens
            BY <2>1, LeftKeySettles
        <3>2. host'.token \in Tokens
            BY DEF OpsTypeOK, HostTypeOK, Hosts
        <3>3. QED
            BY <3>1, <3>2 DEF KeyIsSettled
    <2>2. QED
        BY <2>1 DEF KeyIsSettled
<1>6. QED
    BY <1>2, <1>3, <1>4, <1>5 DEF Known

\* An update that holds the runtime either has the former container beside the new one, or
\* the key of the container is settled.
LEMMA UpdaterHasTheKey ==
    ASSUME LeaseIsHeld, Turns, Known, NEW u \in Updates, updater[u].pc \in Holding
    PROVE  host.left[u].legacy \/ host.token \in SettledTokens
BY UpdaterIsAlone DEF Known, KeyIsSettled

\* What is sound stays so when the container, what is kept and the directory do.
LEMMA SoundStays ==
    ASSUME HostIsSound, SamePlace(host, host'), SameKept(host, host'), host'.env = host.env,
           host.data = "full" => host'.data = "full", UNCHANGED journal, astray => astray'
    PROVE  HostIsSound'
BY DEF HostIsSound, SamePlace, SameKept

LEMMA UpdaterMovesOn ==
    ASSUME OpsTypeOK, OpsTypeOK', LeaseIsHeld, Turns, Known, NEW u \in Updates,
           UNCHANGED <<migrationVars, rotationVars>>,
           GivesUpUpdate(u) \/ VerifiesUpdate(u) \/ RechecksDocker(u)
    PROVE  Known'
<1>1. /\ updater[u].pc \in Holding /\ host' = host /\ UNCHANGED <<config, astray, lost, rotation, journal, task>>
    BY DEF GivesUpUpdate, VerifiesUpdate, RechecksDocker, OnlyMoves, IsAt, Holding, migrationVars, rotationVars
<1>2. updater \in [Updates -> UpdaterRecords] /\ updater[u] \in UpdaterRecords
    BY DEF OpsTypeOK, UpdateTypeOK, UpdaterRecords
<1>3. /\ \A v \in Updates \ {u} : updater'[v] = updater[v]
      /\ updater'[u].checkpoint = updater[u].checkpoint
      /\ \/ updater'[u].pc \in {"succeeded", "failed", "rolled_back"}
         \/ updater[u].pc = "verify" /\ updater[u].checkpoint /\ updater'[u].pc = "undo"
         \/ updater[u].pc = "verify" /\ Answers(host) /\ updater'[u].pc = "clean"
    BY <1>2 DEF UpdaterRecords, GivesUpUpdate, VerifiesUpdate, RechecksDocker, GoesOn, IsAt
<1>4. BesideSame(host, host', u)
    BY <1>1 DEF BesideSame
<1>5. SettledTokens \subseteq SettledTokens'
    BY <1>1, <1>3, <1>4, UpdaterSettles
<1>6. HostIsSound'
    BY <1>1, SoundStays DEF Known, SamePlace, SameKept
<1>7. UpdateKnows(u)'
    <2>1. UpdateKnows(u)
        BY DEF Known
    <2>2. Answers(host)' <=> Answers(host)
        BY <1>1 DEF Answers
    <2>3. WayBack(u)' <=> WayBack(u)
        BY <1>1 DEF WayBack
    <2>4. QED
        BY <1>1, <1>3, <1>5, <2>1, <2>2, <2>3 DEF UpdateKnows, Unapplied, Undoable
<1>8. host'.left[u].legacy \/ host'.token \in SettledTokens'
    BY <1>1, <1>5, UpdaterHasTheKey
<1>9. QED
    BY <1>1, <1>3, <1>4, <1>6, <1>7, <1>8, UpdaterKeeps

LEMMA ManagerKnows ==
    ASSUME OpsTypeOK, OpsTypeOK', LeaseIsHeld, Turns, Known, NEW u \in Updates,
           UNCHANGED <<migrationVars, rotationVars>>, AppliesByManager(u)
    PROVE  Known'
<1>1. PICK o \in Managed(host) : host' = o.host /\ GoesOn(u, o.pc)
    BY DEF AppliesByManager
<1>2. /\ updater[u].pc = "apply" /\ UNCHANGED <<config, astray, lost, rotation, journal, task>>
    BY DEF AppliesByManager, IsAt, migrationVars, rotationVars
<1>3. /\ SamePlace(host, host') /\ SameKept(host, host') /\ host'.env = host.env
      /\ host'.data = host.data /\ host'.left = host.left
      /\ o.pc \in {"verify", "rolled_back", "recovery_required", "failed"}
    BY <1>1, ManagedChanges DEF OpsTypeOK, HostTypeOK
<1>4. updater \in [Updates -> UpdaterRecords] /\ updater[u] \in UpdaterRecords
    BY DEF OpsTypeOK, UpdateTypeOK, UpdaterRecords
<1>5. /\ \A v \in Updates \ {u} : updater'[v] = updater[v]
      /\ updater'[u].pc = o.pc /\ updater'[u].checkpoint = updater[u].checkpoint
    BY <1>1, <1>4 DEF UpdaterRecords, GoesOn
<1>6. ~host.left[u].legacy /\ ~host.left[u].backup /\ ~updater[u].checkpoint
    BY <1>2 DEF Known, UpdateKnows, Unapplied
<1>7. updater[u].pc \in Holding /\ BesideSame(host, host', u)
    BY <1>2, <1>3 DEF Holding, BesideSame
<1>8. SettledTokens \subseteq SettledTokens'
    BY <1>2, <1>5, <1>7, UpdaterSettles
<1>9. HostIsSound'
    BY <1>2, <1>3, SoundStays DEF Known
<1>10. UpdateKnows(u)'
    BY <1>3, <1>5, <1>6 DEF UpdateKnows, Unapplied
<1>11. host'.token \in SettledTokens'
    BY <1>3, <1>6, <1>7, <1>8, UpdaterHasTheKey DEF SamePlace
<1>12. QED
    BY <1>2, <1>5, <1>7, <1>9, <1>10, <1>11, UpdaterKeeps

\* An update by Docker: it may adopt the deployment of a migration, and then either it has
\* set the former container aside with all it had, or it has not touched it.
LEMMA DockerKnows ==
    ASSUME OpsTypeOK, OpsTypeOK', LeaseIsHeld, Turns, Known, NEW u \in Updates,
           UNCHANGED <<migrationVars, rotationVars>>, AppliesByDocker(u)
    PROVE  Known'
<1> USE DEF SamePlace, SameKept
<1>1. PICK p \in Projects : Supports(host, p) /\ \E o \in Recreates(host, u, p), heard \in BOOLEAN :
        /\ host' = o.host
        /\ heard => o.host.left[u].backup
        /\ IF heard
           THEN /\ updater' = [updater EXCEPT ![u] =
                        [pc |-> IF o.ok THEN "verify" ELSE "restore", checkpoint |-> TRUE]]
                /\ UNCHANGED exclusionVars
           ELSE GoesOn(u, "failed") /\ Leaves(u)
        /\ astray' = (astray \/ (o.host.mount = "bind" /\ ~o.host.kept))
    BY DEF AppliesByDocker
<1>2. PICK o \in Recreates(host, u, p), heard \in BOOLEAN :
        /\ host' = o.host
        /\ heard => o.host.left[u].backup
        /\ IF heard
           THEN updater' = [updater EXCEPT ![u] =
                        [pc |-> IF o.ok THEN "verify" ELSE "restore", checkpoint |-> TRUE]]
           ELSE GoesOn(u, "failed")
        /\ astray' = (astray \/ (o.host.mount = "bind" /\ ~o.host.kept))
    BY <1>1
<1>3. updater[u].pc = "apply" /\ UNCHANGED <<config, lost, rotation, journal, task>>
    BY DEF AppliesByDocker, IsAt, migrationVars, rotationVars
<1>4. /\ SameKept(host, host') /\ host'.env = host.env /\ BesideSame(host, host', u)
      /\ (host' = host /\ ~o.ok) \/ Recreated(host, host', u, p)
    BY <1>1, <1>2, RecreatesChanges DEF OpsTypeOK, HostTypeOK
<1>5. ~host.left[u].legacy /\ ~host.left[u].backup /\ ~updater[u].checkpoint
    BY <1>3 DEF Known, UpdateKnows, Unapplied
<1>6. updater \in [Updates -> UpdaterRecords] /\ updater[u] \in UpdaterRecords
    BY DEF OpsTypeOK, UpdateTypeOK, UpdaterRecords
<1>7. /\ \A v \in Updates \ {u} : updater'[v] = updater[v]
      /\ \/ heard /\ updater'[u].pc \in {"verify", "restore"} /\ updater'[u].checkpoint
         \/ ~heard /\ updater'[u].pc = "failed"
    BY <1>2, <1>6 DEF UpdaterRecords, GoesOn
<1>8. updater[u].pc \in Holding
    BY <1>3 DEF Holding
<1>9. host.token \in SettledTokens /\ SettledTokens \subseteq SettledTokens'
    BY <1>3, <1>4, <1>5, <1>7, <1>8, UpdaterHasTheKey, UpdaterSettles
<1>10. host.mount # "none" /\ (host.project = "none" => p = "managed")
       /\ (host.project # "none" => p = host.project)
    BY <1>1 DEF Supports, Adopts
<1>11. HostIsSound
    BY DEF Known
<1>12. CASE host' = host
    <2>1. ~heard /\ updater'[u].pc = "failed"
        BY <1>2, <1>5, <1>7, <1>12
    <2>2. HostIsSound'
        BY <1>2, <1>3, <1>11, <1>12, SoundStays
    <2>3. UpdateKnows(u)'
        BY <2>1 DEF UpdateKnows, Unapplied, Undoable
    <2>4. QED
        BY <1>3, <1>4, <1>7, <1>8, <1>9, <1>12, <2>2, <2>3, UpdaterKeeps
<1>13. CASE Recreated(host, host', u, p)
    <2>1. HostIsSound'
        BY <1>2, <1>3, <1>4, <1>10, <1>11, <1>13 DEF HostIsSound, Recreated, BroughtUp
    <2>2. WayBack(u)'
        BY <1>10, <1>13 DEF WayBack, Recreated, BroughtUp
    <2>3. UpdateKnows(u)'
        <3>1. host'.left[u].legacy =>
                 /\ host'.left[u].mount = "bind" => host'.kept \/ astray'
                 /\ host'.kept => host'.left[u].mount = "bind"
                 /\ host'.left[u].token \in SettledTokens'
            BY <1>2, <1>4, <1>9, <1>10, <1>11, <1>13 DEF HostIsSound, Recreated
        <3>2. host'.left[u].backup /\ ~host'.left[u].adopts => host'.project = host'.left[u].project
            BY <1>10, <1>13 DEF Recreated, BroughtUp
        <3>3. QED
            BY <1>7, <2>2, <3>1, <3>2 DEF UpdateKnows, Unapplied, Undoable
    <2>4. host'.left[u].legacy \/ host'.token \in SettledTokens'
        BY <1>9, <1>10, <1>11, <1>13 DEF HostIsSound, Recreated, BroughtUp
    <2>5. QED
        BY <1>3, <1>4, <1>7, <1>8, <2>1, <2>3, <2>4, UpdaterKeeps
<1>14. QED
    BY <1>4, <1>12, <1>13

\* What an update undoes is what it had set aside.
LEMMA UndoingKnows ==
    ASSUME OpsTypeOK, OpsTypeOK', LeaseIsHeld, Turns, Known, NEW u \in Updates,
           UNCHANGED <<migrationVars, rotationVars>>, RestoresDocker(u) \/ UndoesDocker(u)
    PROVE  Known'
<1> USE DEF SamePlace, SameKept
<1>1. PICK o \in Restores(host, u) :
        host' = o.host /\ \E pc \in {"rolled_back", "recovery_required", "recheck"} : GoesOn(u, pc)
    BY DEF RestoresDocker, UndoesDocker
<1>2. /\ updater[u].pc \in {"restore", "undo"}
      /\ UNCHANGED <<config, astray, lost, rotation, journal, task>>
    BY DEF RestoresDocker, UndoesDocker, IsAt, migrationVars, rotationVars
<1>3. /\ SameKept(host, host') /\ host'.env = host.env /\ BesideSame(host, host', u)
      /\ host.data = "full" => host'.data = "full"
      /\ Restored(host, host', u)
    BY <1>1, RestoresChanges DEF OpsTypeOK, HostTypeOK
<1>4. /\ HostIsSound
      /\ host.left[u].legacy => /\ host.left[u].mount = "bind" => host.kept \/ astray
                                /\ host.kept => host.left[u].mount = "bind"
                                /\ host.left[u].token \in SettledTokens
      /\ host.left[u].backup /\ ~host.left[u].adopts => host.project = host.left[u].project
    BY <1>2 DEF Known, UpdateKnows, Undoable
<1>5. updater \in [Updates -> UpdaterRecords] /\ updater[u] \in UpdaterRecords
    BY DEF OpsTypeOK, UpdateTypeOK, UpdaterRecords
<1>6. /\ \A v \in Updates \ {u} : updater'[v] = updater[v]
      /\ updater'[u].pc \in {"rolled_back", "recovery_required", "recheck"}
    BY <1>1, <1>5 DEF UpdaterRecords, GoesOn
<1>7. updater[u].pc \in Holding
    BY <1>2 DEF Holding
<1>8. /\ SettledTokens \subseteq SettledTokens'
      /\ host.left[u].legacy \/ host.token \in SettledTokens
    BY <1>2, <1>3, <1>6, <1>7, UpdaterHasTheKey, UpdaterSettles
<1>9. HostIsSound'
    BY <1>2, <1>3, <1>4 DEF HostIsSound, Restored
<1>10. UpdateKnows(u)'
    BY <1>6 DEF UpdateKnows, Unapplied, Undoable
<1>11. host'.left[u].legacy \/ host'.token \in SettledTokens'
    BY <1>3, <1>4, <1>8 DEF HostIsSound, Restored
<1>12. QED
    BY <1>2, <1>3, <1>6, <1>7, <1>9, <1>10, <1>11, UpdaterKeeps

LEMMA CleaningKnows ==
    ASSUME OpsTypeOK, OpsTypeOK', LeaseIsHeld, Turns, Known, NEW u \in Updates,
           UNCHANGED <<migrationVars, rotationVars>>, CleansUpdate(u)
    PROVE  Known'
<1> USE DEF SamePlace, SameKept
<1>1. /\ updater[u].pc = "clean" /\ UNCHANGED <<config, astray, lost, rotation, journal, task>>
      /\ host' \in Discards(host, u) \union {host}
      /\ \E pc \in {"succeeded", "undo", "failed"} : GoesOn(u, pc)
    BY DEF CleansUpdate, IsAt, migrationVars, rotationVars
<1>2. /\ SamePlace(host, host') /\ SameKept(host, host') /\ host'.env = host.env /\ host'.data = host.data
      /\ host'.running = host.running /\ host'.version = host.version
      /\ BesideSame(host, host', u) /\ host'.left[u].adopts = host.left[u].adopts
      /\ host'.left[u].project = host.left[u].project /\ host'.left[u].mount = host.left[u].mount
      /\ host'.left[u].token = host.left[u].token
      /\ host'.left[u].legacy => host.left[u].legacy
      /\ host'.left[u].backup => host.left[u].backup
    <2>1. CASE host' = host
        BY <2>1 DEF BesideSame
    <2>2. CASE host' \in Discards(host, u)
        BY <2>2, DiscardsChanges DEF OpsTypeOK, HostTypeOK
    <2>3. QED
        BY <1>1, <2>1, <2>2
<1>3. updater \in [Updates -> UpdaterRecords] /\ updater[u] \in UpdaterRecords
    BY DEF OpsTypeOK, UpdateTypeOK, UpdaterRecords
<1>4. /\ \A v \in Updates \ {u} : updater'[v] = updater[v]
      /\ updater'[u].pc \in {"succeeded", "undo", "failed"}
    BY <1>1, <1>3 DEF UpdaterRecords, GoesOn
<1>5. updater[u].pc \in Holding
    BY <1>1 DEF Holding
<1>6. SettledTokens \subseteq SettledTokens'
    BY <1>1, <1>2, <1>4, <1>5, UpdaterSettles
<1>7. UpdateKnows(u) /\ HostIsSound
    BY DEF Known
<1>8. Answers(host) /\ Answers(host)'
    BY <1>1, <1>2, <1>7 DEF UpdateKnows, Answers, Healthy
<1>9. HostIsSound'
    BY <1>1, <1>2, <1>7, SoundStays
<1>10. UpdateKnows(u)'
    BY <1>1, <1>2, <1>4, <1>6, <1>7, <1>8 DEF UpdateKnows, Unapplied, Undoable
<1>11. host'.token \in SettledTokens'
    <2>1. host'.token \in Tokens /\ host'.token = config'.token
        BY <1>8 DEF OpsTypeOK, HostTypeOK, Hosts, Answers
    <2>2. QED
        BY <2>1 DEF SettledTokens
<1>12. QED
    BY <1>1, <1>2, <1>4, <1>5, <1>9, <1>10, <1>11, UpdaterKeeps

\* The steps of an update that do not hold the runtime.
LEMMA UpdaterRests ==
    ASSUME OpsTypeOK, OpsTypeOK', LeaseIsHeld, Turns, Known, NEW u \in Updates,
           UNCHANGED <<migrationVars, rotationVars>>,
           \/ StartUpdate(u) \/ RegistersRunner(u) \/ MarksRunning(u) \/ BeginsUpdate(u)
           \/ ClosesUpdate(u)
    PROVE  Known'
<1>1. UNCHANGED <<host, config, astray, lost, rotation, journal, task>>
    BY DEF StartUpdate, RegistersRunner, MarksRunning, BeginsUpdate, ClosesUpdate, OnlyMoves, hostVars,
           migrationVars, rotationVars
<1>2. updater \in [Updates -> UpdaterRecords] /\ updater[u] \in UpdaterRecords
    BY DEF OpsTypeOK, UpdateTypeOK, UpdaterRecords
<1>3. /\ \A v \in Updates \ {u} : updater'[v] = updater[v]
      /\ updater[u].pc \notin Holding
      /\ \/ updater[u].pc \in Unapplied /\ updater'[u].pc \in Unapplied \union {"done", "failed"}
            /\ updater'[u].checkpoint = updater[u].checkpoint
         \/ updater[u].pc \notin Unapplied /\ updater'[u].pc = "done"
    <2>1. CASE StartUpdate(u) \/ RegistersRunner(u) \/ MarksRunning(u) \/ BeginsUpdate(u)
        BY <1>2, <2>1 DEF UpdaterRecords, StartUpdate, RegistersRunner, MarksRunning, BeginsUpdate,
                          GoesOn, IsAt, Unapplied, Holding
    <2>2. CASE ClosesUpdate(u)
        BY <1>2, <2>2 DEF UpdaterRecords, ClosesUpdate, ClosedUpdate, Unapplied, Holding
    <2>3. QED
        BY <2>1, <2>2
<1>4. UpdateKnows(u)
    BY DEF Known
<1>5. updater[u].pc \in Unapplied => ~host.left[u].legacy /\ ~host.left[u].backup /\ ~updater[u].checkpoint
    BY <1>4 DEF UpdateKnows
<1>6. host.left[u].legacy => updater'[u].pc \notin Holding
    BY <1>3, <1>5 DEF Holding
<1>7. SettledTokens \subseteq SettledTokens'
    BY <1>1, <1>3, <1>6, UpdaterSettles DEF BesideSame
<1>8. HostIsSound' /\ TaskKnows'
    BY <1>1 DEF Known, HostIsSound, TaskKnows
<1>9. UpdateKnows(u)'
    BY <1>1, <1>3, <1>5 DEF UpdateKnows, Unapplied, Undoable
<1>10. ASSUME NEW v \in Updates \ {u}
       PROVE  UpdateKnows(v)'
    <2>1. UpdateKnows(v) /\ updater'[v] = updater[v]
        BY <1>3 DEF Known
    <2>2. (Answers(host)' <=> Answers(host)) /\ (WayBack(v)' <=> WayBack(v))
        BY <1>1 DEF Answers, WayBack
    <2>3. QED
        BY <1>1, <1>7, <2>1, <2>2 DEF UpdateKnows
<1>11. ASSUME NEW k \in Rotations
       PROVE  RotationKnows(k)'
    BY <1>1, <1>7 DEF Known, RotationKnows
<1>12. KeyIsSettled'
    <2>1. \A v \in Updates : updater[v].pc \in Holding => v # u /\ updater'[v].pc \in Holding
        BY <1>3
    <2>2. QED
        BY <1>1, <1>7, <2>1 DEF Known, KeyIsSettled
<1>13. QED
    BY <1>8, <1>9, <1>10, <1>11, <1>12 DEF Known

LEMMA UpdateKeepsKnown ==
    ASSUME OpsTypeOK, OpsTypeOK', LeaseIsHeld, Turns, Known, UpdateStep,
           UNCHANGED <<migrationVars, rotationVars>>
    PROVE  Known'
<1>1. ASSUME NEW u \in Updates, StartUpdate(u) \/ UpdaterStep(u)
      PROVE  Known'
    BY <1>1, UpdaterRests, UpdaterMovesOn, ManagerKnows, DockerKnows, UndoingKnows, CleaningKnows
       DEF UpdaterStep
<1>2. ASSUME NEW p \in Pollers,
             (\E u \in Updates : PollReads(p, u)) \/ PollChecks(p) \/ PollPlans(p) \/ PollWrites(p)
      PROVE  Known'
    <2>1. UNCHANGED <<host, config, astray, lost, rotation, journal, task, updater>>
        BY <1>2 DEF PollReads, PollChecks, PollPlans, PollWrites, hostVars, migrationVars, rotationVars
    <2>2. SettledTokens' = SettledTokens
        BY <2>1 DEF SettledTokens, Stuck, Stale
    <2>3. HostIsSound' /\ TaskKnows' /\ KeyIsSettled'
        BY <2>1, <2>2 DEF Known, HostIsSound, TaskKnows, KeyIsSettled
    <2>4. \A u \in Updates : UpdateKnows(u)'
        BY <2>1, <2>2 DEF Known, UpdateKnows, Answers, WayBack
    <2>5. \A k \in Rotations : RotationKnows(k)'
        BY <2>1, <2>2 DEF Known, RotationKnows
    <2>6. QED
        BY <2>3, <2>4, <2>5 DEF Known
<1>3. QED
    BY <1>1, <1>2 DEF UpdateStep

\* A step of the migration changes neither the updates nor the changes of key; it leaves
\* the former containers of the updates where they are.
LEMMA TaskSettles ==
    ASSUME SameLegacy(host, host'), UNCHANGED <<updater, rotation, lost>>,
           config'.exists = config.exists, config'.ssh = config.ssh, config'.token = config.token
    PROVE  SettledTokens' = SettledTokens
<1>1. (Stale' <=> Stale) /\ (Stuck' <=> Stuck)
    BY DEF Stale, Stuck, SameLegacy
<1>2. QED
    BY <1>1 DEF SettledTokens

\* The steps of the migration that leave the machine alone.
LEMMA QuietTaskKnows ==
    ASSUME Known, UNCHANGED <<host, astray, updater, rotation, lost>>,
           config'.exists = config.exists, config'.ssh = config.ssh, config'.token = config.token,
           HostIsSound', TaskKnows'
    PROVE  Known'
<1>1. SettledTokens' = SettledTokens
    BY TaskSettles DEF SameLegacy
<1>2. KeyIsSettled'
    BY <1>1 DEF Known, KeyIsSettled
<1>3. \A u \in Updates : UpdateKnows(u)'
    BY <1>1 DEF Known, UpdateKnows, Answers, Healthy, WayBack
<1>4. \A k \in Rotations : RotationKnows(k)'
    BY <1>1 DEF Known, RotationKnows
<1>5. QED
    BY <1>2, <1>3, <1>4 DEF Known

\* Those that change it while the journal says that it is not over.
LEMMA ActingTaskKnows ==
    ASSUME Turns, Known, task.pc \in TaskActs, SameLegacy(host, host'),
           UNCHANGED <<astray, updater, rotation, lost, config>>,
           host'.token = host.token, HostIsSound', TaskKnows'
    PROVE  Known'
<1>1. NobodyHolds
    BY DEF Turns, TaskHasItsRow, NobodyElse, NobodyHolds
<1>2. SettledTokens' = SettledTokens
    BY TaskSettles
<1>3. KeyIsSettled'
    BY <1>1, <1>2 DEF Known, KeyIsSettled, NobodyHolds
<1>4. \A u \in Updates : UpdateKnows(u)'
    BY <1>1 DEF Known, UpdateKnows, NobodyHolds, SameLegacy, Holding, Undoable
<1>5. \A k \in Rotations : RotationKnows(k)'
    BY <1>1 DEF Known, RotationKnows, NobodyHolds
<1>6. QED
    BY <1>3, <1>4, <1>5 DEF Known

\* What the task does when it moves on, and what its script has done.
LEMMA SendsWhat ==
    ASSUME OpsTypeOK, NEW outcomes, NEW next, NEW catch, Sends(outcomes, next, catch)
    PROVE  /\ \E o \in outcomes : host' = o.host /\ task'.pc = IF o.ok THEN next ELSE catch
           /\ UNCHANGED <<config, journal>>
BY TaskRecord DEF Sends

LEMMA PreparingKnows ==
    ASSUME OpsTypeOK, Turns, Known, UNCHANGED <<updateVars, rotationVars>>, Revalidates
    PROVE  Known'
<1> USE DEF SamePlace, SameKept
<1>1. PICK o \in Prepare(host) : host' = o.host /\ task'.pc = IF o.ok THEN "copy" ELSE "clean"
    BY SendsWhat DEF Revalidates
<1>2. task.pc = "revalidate" /\ host.mount = "volume" /\ UNCHANGED <<config, journal>>
    BY SendsWhat DEF Revalidates, NoBlocker
<1>3. /\ SamePlace(host, host') /\ SameKept(host, host') /\ host'.left = host.left
      /\ o.ok => host'.env = host.token
    BY <1>1, PrepareChanges DEF OpsTypeOK, HostTypeOK
<1>4. ~host.kept /\ host.project # "managed"
    BY <1>2 DEF Known, HostIsSound
<1>5. task.pc \in TaskActs /\ journal.status \in NotOver
    BY <1>2 DEF TaskActs, Turns, TaskHasItsRow
<1>6. HostIsSound'
    BY <1>2, <1>3, <1>4, <1>5 DEF HostIsSound, NotOver
<1>7. TaskKnows'
    BY <1>1, <1>2, <1>3, <1>4 DEF TaskKnows
<1>8. QED
    BY <1>2, <1>3, <1>5, <1>6, <1>7, ActingTaskKnows DEF SameLegacy, updateVars, rotationVars

LEMMA CopyingKnows ==
    ASSUME OpsTypeOK, Turns, Known, UNCHANGED <<updateVars, rotationVars>>, Copies
    PROVE  Known'
<1> USE DEF SamePlace, SameKept
<1>1. PICK o \in BackupAndCopy(host) :
        host' = o.host /\ task'.pc = IF o.ok THEN "cutover" ELSE "rollback"
    BY SendsWhat DEF Copies
<1>2. task.pc = "copy" /\ UNCHANGED <<config, journal>>
    BY SendsWhat DEF Copies
<1>3. /\ SamePlace(host, host') /\ SameKept(host, host')
      /\ host'.left = host.left /\ host'.env = host.env /\ (o.ok => host'.data = "full")
    BY <1>1, CopyChanges DEF OpsTypeOK, HostTypeOK
<1>4. host.mount = "volume" /\ ~host.kept /\ host.env = host.token /\ host.project # "managed"
    BY <1>2 DEF Known, HostIsSound, TaskKnows
<1>5. task.pc \in TaskActs /\ journal.status \in NotOver
    BY <1>2 DEF TaskActs, Turns, TaskHasItsRow
<1>6. HostIsSound'
    BY <1>2, <1>3, <1>4, <1>5 DEF HostIsSound, NotOver
<1>7. TaskKnows'
    BY <1>1, <1>2, <1>3, <1>4 DEF TaskKnows
<1>8. QED
    BY <1>2, <1>3, <1>5, <1>6, <1>7, ActingTaskKnows DEF SameLegacy, updateVars, rotationVars

LEMMA CuttingOverKnows ==
    ASSUME OpsTypeOK, Turns, Known, UNCHANGED <<updateVars, rotationVars>>, CutsOver
    PROVE  Known'
<1>1. PICK o \in Cutover(host) :
        host' = o.host /\ task'.pc = IF o.ok THEN "verify" ELSE "rollback"
    BY SendsWhat DEF CutsOver
<1>2. task.pc = "cutover" /\ UNCHANGED <<config, journal>>
    BY SendsWhat DEF CutsOver
<1>3. /\ host'.data = host.data /\ host'.env = host.env /\ host'.left = host.left
      /\ (host' = host /\ ~o.ok) \/ CutOver(host, host')
    BY <1>1, CutoverChanges DEF OpsTypeOK, HostTypeOK
<1>4. /\ host.mount = "volume" /\ ~host.kept /\ host.env = host.token /\ host.data = "full"
      /\ host.project # "managed"
    BY <1>2 DEF Known, HostIsSound, TaskKnows
<1>5. task.pc \in TaskActs /\ journal.status \in NotOver
    BY <1>2 DEF TaskActs, Turns, TaskHasItsRow
<1>6. HostIsSound'
    BY <1>2, <1>3, <1>4, <1>5 DEF HostIsSound, NotOver, CutOver
<1>7. TaskKnows'
    BY <1>1, <1>2, <1>3, <1>4 DEF TaskKnows, CutOver
<1>8. host'.token = host.token
    BY <1>3, <1>4 DEF CutOver
<1>9. QED
    BY <1>2, <1>3, <1>5, <1>6, <1>7, <1>8, ActingTaskKnows DEF SameLegacy, updateVars, rotationVars

LEMMA CleansKnows ==
    ASSUME OpsTypeOK, Turns, Known, UNCHANGED <<updateVars, rotationVars>>, Cleans
    PROVE  Known'
<1> USE DEF SamePlace, SameKept
<1>1. task.pc = "clean" /\ UNCHANGED <<config, journal>> /\ task'.pc = "refuse"
    BY TaskRecord DEF Cleans
<1>2. /\ SamePlace(host, host') /\ SameKept(host, host') /\ host'.left = host.left
      /\ host'.env = host.env /\ (host'.data = host.data \/ host.data # "full")
    <2>1. CASE host' = host
        BY <2>1
    <2>2. CASE \E o \in Clean(host) \union Refused(host) : host' = o.host
        BY <2>2, CleanChanges DEF OpsTypeOK, HostTypeOK
    <2>3. QED
        BY <2>1, <2>2 DEF Cleans
<1>3. task.pc \in TaskActs
    BY <1>1 DEF TaskActs
<1>4. HostIsSound'
    BY <1>1, <1>2, SoundStays DEF Known, updateVars
<1>5. TaskKnows'
    BY <1>1, <1>2 DEF Known, TaskKnows
<1>6. QED
    BY <1>1, <1>2, <1>3, <1>4, <1>5, ActingTaskKnows DEF SameLegacy, updateVars, rotationVars

\* The rollback, that of the catch and that of a start.
LEMMA RollbackKnows ==
    ASSUME OpsTypeOK, Turns, Known, UNCHANGED <<updateVars, rotationVars>>,
           task.pc \in {"rollback", "inspect"}, Recoverable(host),
           Sends(Rollback(host), "rolled", "unproven")
    PROVE  Known'
<1> USE DEF SamePlace, SameKept
<1>1. PICK o \in Rollback(host) :
        host' = o.host /\ task'.pc = IF o.ok THEN "rolled" ELSE "unproven"
    BY SendsWhat
<1>2. UNCHANGED <<config, journal>>
    BY SendsWhat
<1>3. /\ SameLegacy(host, host') /\ host'.env = host.env
      /\ host.kept => NotYet(host, host') \/ BroughtBack(host, host')
      /\ ~host.kept => SamePlace(host, host') /\ ~host'.kept
      /\ o.ok => host'.running /\ (host.kept => BroughtBack(host, host'))
    BY <1>1, RollbackChanges DEF OpsTypeOK, HostTypeOK
<1>4. HostIsSound /\ TaskKnows
    BY DEF Known
<1>5. task.pc \in TaskActs /\ journal.status \in NotOver
    BY DEF TaskActs, Turns, TaskHasItsRow
<1>6. host.kept => host.keptAs.token = host.token /\ host.keptAs.project # "managed" /\ host.data = "full"
    BY <1>4, <1>5 DEF HostIsSound, TaskKnows
<1>7. ~host.kept => host.mount = "volume" /\ host.project # "managed"
    BY <1>4 DEF Recoverable, HostIsSound
<1>8. host'.token = host.token
    BY <1>3, <1>6 DEF NotYet, BroughtBack
<1>9. HostIsSound'
    <2>1. CASE NotYet(host, host') /\ host.kept
        BY <1>2, <1>3, <1>4, <1>5, <2>1 DEF HostIsSound, NotYet, NotOver
    <2>2. CASE BroughtBack(host, host') /\ host.kept
        BY <1>2, <1>5, <1>6, <2>2 DEF HostIsSound, BroughtBack, NotOver
    <2>3. CASE ~host.kept
        BY <1>2, <1>3, <1>5, <1>7, <2>3 DEF HostIsSound, NotOver
    <2>4. QED
        BY <1>3, <2>1, <2>2, <2>3
<1>10. TaskKnows'
    <2>1. host'.kept => host'.keptAs.token = host'.token
        BY <1>3, <1>6, <1>8 DEF NotYet, BroughtBack
    <2>2. o.ok => host'.mount = "volume" /\ ~host'.kept /\ host'.running
        BY <1>3, <1>7 DEF BroughtBack
    <2>3. QED
        BY <1>1, <2>1, <2>2 DEF TaskKnows
<1>11. QED
    BY <1>2, <1>3, <1>5, <1>8, <1>9, <1>10, ActingTaskKnows DEF updateVars, rotationVars

\* The other steps of the task.
LEMMA TaskGoesOn ==
    ASSUME OpsTypeOK, Turns, Known, UNCHANGED <<updateVars, rotationVars>>,
           \/ TakesLease \/ Interrupted \/ Verifies \/ ActivatesTask \/ Succeeds \/ Refuses
           \/ RecordsRollback \/ RecordsUnproven \/ BootExamines \/ BootAdmits
           \/ (RollsBack /\ Gives("unproven"))
           \/ (BootInspects /\ OnBind(host))
    PROVE  Known'
<1>0. /\ HostIsSound /\ TaskKnows /\ IdleTask.pc = "idle"
      /\ \A pc : Goto(pc) => task'.pc = pc
      /\ \A status : Writes(status) => /\ journal.row = task.row /\ journal'.status = status
                                       /\ journal.status # "none"
    BY TaskRecord DEF Known, IdleTask
<1>1. /\ UNCHANGED <<host, astray, updater, rotation, lost>>
      /\ config'.exists = config.exists /\ config'.ssh = config.ssh /\ config'.token = config.token
    <2>1. CASE ActivatesTask \/ BootAdmits
        <3>1. config \in Configs
            BY DEF OpsTypeOK, HostTypeOK
        <3>2. QED
            BY <2>1, <3>1 DEF ActivatesTask, BootAdmits, Activates, Configs, hostVars, updateVars, rotationVars
    <2>2. CASE ~(ActivatesTask \/ BootAdmits)
        BY <2>2 DEF TakesLease, Interrupted, Gives, Verifies, Succeeds, Refuses, RecordsRollback,
                    RecordsUnproven, BootExamines, BootInspects, hostVars, updateVars, rotationVars
    <2>3. QED
        BY <2>1, <2>2
<1>2. \/ UNCHANGED journal
      \/ /\ task.pc = "execute" /\ journal.status = "queued" /\ journal'.status = "running"
         /\ task'.pc = "revalidate"
      \/ task.pc = "succeed" /\ journal'.status = "succeeded" /\ task'.pc = "idle"
      \/ task.pc \in TaskActs /\ task'.pc = "idle" /\ journal'.status \in {"rolled_back", "recovery_required"}
      \/ task'.pc = "idle" /\ journal'.status = "failed"
    <2>1. CASE TakesLease
        BY <1>0, <2>1 DEF TakesLease, Turns, TaskHasItsRow
    <2>2. CASE Succeeds \/ RecordsRollback \/ RecordsUnproven
        BY <1>0, <2>2 DEF Succeeds, RecordsRollback, RecordsUnproven, ClosesAs, TaskActs
    <2>3. CASE Refuses
        BY <1>0, <2>3 DEF Refuses, ClosesAs
    <2>4. CASE \/ Interrupted \/ Verifies \/ ActivatesTask \/ BootExamines \/ BootAdmits
               \/ Gives("unproven") \/ (BootInspects /\ OnBind(host))
        BY <2>4 DEF Interrupted, Gives, Verifies, ActivatesTask, Activates, BootExamines, BootAdmits,
                    BootInspects
    <2>5. QED
        BY <2>1, <2>2, <2>3, <2>4
<1>3. HostIsSound'
    BY <1>0, <1>1, <1>2 DEF HostIsSound, TaskKnows
<1>4. \/ task'.pc \in {"idle", "execute", "revalidate", "inspect", "refuse", "clean", "unproven"}
      \/ task.pc = "cutover" /\ task'.pc = "rollback"
      \/ task.pc \in {"verify", "activate"} /\ task'.pc \in {"activate", "rollback", "succeed"}
      \/ task.pc = "admit" /\ task'.pc = "succeed"
      \/ task'.pc = "admit" /\ host.mount = "bind"
    <2>1. CASE TakesLease \/ Succeeds \/ Refuses \/ RecordsRollback \/ RecordsUnproven
        BY <1>0, <2>1 DEF TakesLease, Succeeds, Refuses, RecordsRollback, RecordsUnproven, ClosesAs
    <2>2. CASE Interrupted
        BY <1>0, <2>2 DEF Interrupted, Catch, Gives
    <2>3. CASE Verifies \/ ActivatesTask \/ BootAdmits
        BY <1>0, <2>3 DEF Verifies, ActivatesTask, BootAdmits, Activates
    <2>4. CASE BootExamines
        BY <1>0, <2>4 DEF BootExamines
    <2>5. CASE Gives("unproven") \/ (BootInspects /\ OnBind(host))
        BY <1>0, <2>5 DEF Gives, BootInspects, OnBind
    <2>6. QED
        BY <2>1, <2>2, <2>3, <2>4, <2>5
<1>5. TaskKnows'
    <2>1. journal'.status \in NotOver /\ host.kept => host.keptAs.token = host.token
        <3>1. CASE UNCHANGED journal
            BY <1>0, <3>1 DEF TaskKnows
        <3>2. CASE journal.status = "queued"
            BY <1>0, <3>2 DEF HostIsSound
        <3>3. CASE task.pc \in TaskActs
            BY <1>0, <3>3 DEF TaskKnows, Turns, TaskHasItsRow
        <3>4. CASE journal'.status \in {"succeeded", "failed"}
            BY <3>4 DEF NotOver
        <3>5. QED
            BY <1>2, <3>1, <3>2, <3>3, <3>4
    <2>2. QED
        BY <1>0, <1>1, <1>4, <2>1 DEF TaskKnows, HostIsSound
<1>6. QED
    BY <1>1, <1>3, <1>5, QuietTaskKnows

LEMMA TaskKeepsKnown ==
    ASSUME OpsTypeOK, Turns, Known, MigrationStep
    PROVE  Known'
<1>1. UNCHANGED <<updateVars, rotationVars>>
    BY DEF MigrationStep
<1>2. CASE RollsBack
    <2>1. CASE Sends(Rollback(host), "rolled", "unproven")
        <3>1. task.pc = "rollback" /\ Recoverable(host)
            BY <1>2 DEF RollsBack, Known, TaskKnows, Recoverable
        <3>2. QED
            BY <1>1, <2>1, <3>1, RollbackKnows
    <2>2. QED
        BY <1>1, <1>2, <2>1, TaskGoesOn DEF RollsBack
<1>3. CASE BootInspects
    <2>1. CASE OnBind(host)
        BY <1>1, <1>3, <2>1, TaskGoesOn
    <2>2. CASE ~OnBind(host)
        BY <1>1, <1>3, <2>2, RollbackKnows DEF BootInspects
    <2>3. QED
        BY <2>1, <2>2
<1>4. CASE CreatePlan \/ ExpirePlan \/ StartMigration
    <2>1. UNCHANGED <<host, config, astray, updater, rotation, lost>>
        BY <1>1, <1>4 DEF CreatePlan, ExpirePlan, StartMigration, hostVars, updateVars, rotationVars
    <2>2. journal \in [row : 0..MaxMigrations, status : MigrationStatuses, revision : 0..MaxRevision]
        BY DEF OpsTypeOK, MigrationTypeOK
    <2>3. HostIsSound'
        <3>1. CASE CreatePlan
            <4>1. ~host.kept /\ journal'.status = "planned"
                BY <3>1 DEF CreatePlan, NoBlocker, Known, HostIsSound
            <4>2. QED
                BY <2>1, <4>1 DEF Known, HostIsSound
        <3>2. CASE ExpirePlan \/ StartMigration
            BY <2>1, <2>2, <3>2 DEF ExpirePlan, StartMigration, Known, HostIsSound
        <3>3. QED
            BY <1>4, <3>1, <3>2
    <2>4. journal'.status \notin NotOver /\ (task' = task \/ task'.pc = "execute")
        BY <1>4, <2>2 DEF CreatePlan, ExpirePlan, StartMigration, NotOver
    <2>5. TaskKnows'
        BY <2>1, <2>4 DEF Known, TaskKnows
    <2>6. QED
        BY <2>1, <2>3, <2>5, QuietTaskKnows
<1>5. CASE Revalidates \/ Copies \/ CutsOver \/ Cleans
    BY <1>1, <1>5, PreparingKnows, CopyingKnows, CuttingOverKnows, CleansKnows
<1>6. QED
    BY <1>1, <1>2, <1>3, <1>4, <1>5, TaskGoesOn DEF MigrationStep, TaskStep

\* A move of a change of key does not unsettle a key.
LEMMA RotationSettles ==
    ASSUME OpsTypeOK, NEW k \in Rotations, NEW r, RotationMove(k, r),
           UNCHANGED updater, host'.left = host.left
    PROVE  /\ UNCHANGED config => SettledTokens \subseteq SettledTokens'
           /\ \A j \in Rotations \ {k} : rotation'[j] = rotation[j]
           /\ rotation'[k] = r
<1>1. rotation \in [Rotations -> RotationRecords]
    BY DEF OpsTypeOK, RotationTypeOK, RotationRecords
<1>2. (\A j \in Rotations \ {k} : rotation'[j] = rotation[j]) /\ rotation'[k] = r
    BY <1>1 DEF RotationMove, Becomes
<1>3. lost \subseteq lost' /\ rotation[k].pc # "done"
    BY DEF RotationMove, QuietMove, WriteMove, CommitMove, UndoMove
<1>4. Stuck => Stuck'
    BY <1>2, <1>3 DEF Stuck
<1>5. Stale' <=> Stale
    BY DEF Stale
<1>6. QED
    BY <1>2, <1>3, <1>4, <1>5 DEF SettledTokens

\* The moves that leave the machine alone.
LEMMA QuietRotationKnows ==
    ASSUME OpsTypeOK, OpsTypeOK', LeaseIsHeld, Turns, Known, NEW k \in Rotations, NEW r,
           RotationMove(k, r), QuietMove(rotation[k], r),
           UNCHANGED <<migrationVars, updateVars>>, UNCHANGED <<host, config, lost>>
    PROVE  Known'
<1> DEFINE q == rotation[k]
<1>0. /\ q.backup \in BOOLEAN /\ r.backup \in BOOLEAN /\ q.imports \in BOOLEAN /\ r.imports \in BOOLEAN
      /\ q.pc \in RotationPCs /\ r.pc \in RotationPCs
    BY DEF OpsTypeOK, RotationTypeOK, RotationRecords, RotationMove
<1>1. /\ SettledTokens \subseteq SettledTokens'
      /\ \A j \in Rotations \ {k} : rotation'[j] = rotation[j]
      /\ rotation'[k] = r
    BY RotationSettles DEF updateVars
<1>2. UNCHANGED <<host, config, lost, journal, task, astray, updater>>
    BY DEF migrationVars, updateVars
<1>3. HostIsSound' /\ TaskKnows'
    BY <1>2 DEF Known, HostIsSound, TaskKnows
<1>4. \A u \in Updates : UpdateKnows(u)'
    BY <1>1, <1>2 DEF Known, UpdateKnows, Answers, Healthy, WayBack
<1>5. \A j \in Rotations \ {k} : RotationKnows(j)'
    BY <1>1, <1>2 DEF Known, RotationKnows
<1>6. RotationKnows(k) /\ QuietMove(q, r)
    BY DEF Known
<1>7. mutationLease = NoLease => host.token \in SettledTokens
    BY FreeLease DEF Known, KeyIsSettled, NobodyHolds
<1>8. RotationKnows(k)'
    <2> DEFINE Good == /\ r.backup => r.pc \in RotationHolds
                       /\ r.pc \in RotationHolds =>
                            /\ r.status \in ActiveRotation
                            /\ r.backup => /\ r.before.mount = "bind" => host.kept \/ astray
                                           /\ host.kept => r.before.mount = "bind"
                            /\ r.pc = "write" \/ r.imports => ~r.backup
                            /\ r.pc = "undo" => r.backup
                            /\ r.pc \in {"save", "verify", "undo"} /\ r.backup => r.before.token \in SettledTokens
                            /\ r.pc \in {"write", "save", "verify"} /\ ~r.backup => host.token \in SettledTokens
                            /\ r.pc = "succeed" => host.token \in SettledTokens
                            /\ r.pc = "close" => r.closing = "recovery_required" \/ host.token \in SettledTokens
    <2>0. /\ q.backup => q.pc \in RotationHolds
          /\ q.pc \in RotationHolds =>
               /\ q.status \in ActiveRotation
               /\ q.backup => /\ q.before.mount = "bind" => host.kept \/ astray
                              /\ host.kept => q.before.mount = "bind"
               /\ q.pc = "write" \/ q.imports => ~q.backup
               /\ q.pc \in {"save", "verify", "undo"} /\ q.backup => q.before.token \in SettledTokens
               /\ q.pc \in {"write", "save", "verify"} /\ ~q.backup => host.token \in SettledTokens
        BY <1>6 DEF RotationKnows
    <2> HIDE DEF q
    <2>1. Good
        <3>1. CASE r.pc \in {"planned", "done"}
            BY <1>0, <1>6, <2>0, <3>1 DEF QuietMove, RotationHolds, Failed
        <3>2. CASE r.pc = "write"
            BY <1>0, <1>6, <1>7, <2>0, <3>2 DEF QuietMove, RotationHolds, SameBackup, ActiveRotation, Failed
        <3>3. CASE r.pc \in {"save", "verify"}
            BY <1>0, <1>6, <2>0, <3>3 DEF QuietMove, RotationHolds, SameBackup, ActiveRotation, Failed
        <3>4. CASE r.pc \in {"undo", "close"}
            <4>1. /\ q.pc \in {"write", "save", "verify"} /\ SameBackup(q, r) /\ r.status = q.status
                  /\ Failed(q, r)
                BY <1>6, <3>4 DEF QuietMove
            <4>2. QED
                BY <1>0, <2>0, <3>4, <4>1 DEF RotationHolds, SameBackup, Failed
        <3>5. r.pc \in {"planned", "write", "save", "verify", "undo", "close", "done"}
            BY <1>6 DEF QuietMove, Failed
        <3>6. QED
            BY <3>1, <3>2, <3>3, <3>4, <3>5
    <2>2. QED
        BY <1>1, <1>2, <2>1 DEF RotationKnows
<1>9. KeyIsSettled'
    <2>1. CASE r.pc \in RotationHolds
        BY <1>1, <2>1 DEF KeyIsSettled
    <2>2. CASE q.pc \notin RotationHolds
        BY <1>1, <1>2, <2>2 DEF Known, KeyIsSettled
    <2>3. CASE r.pc = "done" /\ (q.pc = "succeed" \/ q.pc = "close")
        <3>1. r.status \in ActiveRotation \/ host.token \in SettledTokens
            BY <1>6, <2>3 DEF QuietMove, RotationKnows, RotationHolds, ActiveRotation
        <3>2. CASE r.status \in ActiveRotation
            <4>1. Stuck'
                BY <1>1, <2>3, <3>2 DEF Stuck
            <4>2. host'.token \in Tokens
                BY DEF OpsTypeOK, HostTypeOK, Hosts
            <4>3. QED
                BY <4>1, <4>2 DEF KeyIsSettled, SettledTokens
        <3>3. CASE host.token \in SettledTokens
            BY <1>1, <1>2, <3>3 DEF KeyIsSettled
        <3>4. QED
            BY <3>1, <3>2, <3>3
    <2>4. QED
        BY <1>6, <2>1, <2>2, <2>3 DEF QuietMove, RotationHolds, Failed
<1>10. QED
    BY <1>3, <1>4, <1>5, <1>8, <1>9 DEF Known

\* What remains to be shown of a change of key that has the runtime and keeps it.
LEMMA RotationKeeps ==
    ASSUME OpsTypeOK, LeaseIsHeld, Turns, Known, NEW k \in Rotations, NEW r,
           RotationMove(k, r), UNCHANGED <<migrationVars, updateVars>>, host'.left = host.left,
           rotation[k].pc \in RotationHolds, r.pc \in RotationHolds,
           HostIsSound', RotationKnows(k)'
    PROVE  Known'
<1>1. /\ journal.status \notin NotOver /\ task.pc \notin TaskActs
      /\ \A u \in Updates : updater[u].pc \notin Holding
      /\ \A j \in Rotations \ {k} : rotation[j].pc \notin RotationHolds
    BY RotationIsAlone
<1>2. /\ \A j \in Rotations \ {k} : rotation'[j] = rotation[j]
      /\ rotation'[k] = r /\ UNCHANGED <<journal, task, updater>>
    BY RotationSettles DEF migrationVars, updateVars
<1>3. TaskKnows'
    BY <1>1, <1>2 DEF TaskKnows, TaskActs
<1>4. \A u \in Updates : UpdateKnows(u)'
    BY <1>1, <1>2 DEF Known, UpdateKnows, Holding, Undoable
<1>5. \A j \in Rotations \ {k} : RotationKnows(j)'
    BY <1>1, <1>2 DEF Known, RotationKnows
<1>6. KeyIsSettled'
    BY <1>2 DEF KeyIsSettled
<1>7. QED
    BY <1>3, <1>4, <1>5, <1>6 DEF Known

\* A container that a change of key has made again is as sound as the one it had.
LEMMA RekeyedIsSound ==
    ASSUME HostIsSound, NEW mount, NEW token, Rekeyed(host, host', mount, token),
           UNCHANGED <<journal, astray>>,
           mount = "bind" => host.kept \/ astray,
           host.kept => mount = "bind"
    PROVE  HostIsSound'
BY DEF HostIsSound, Rekeyed, Mounted, SamePlace, SameKept

LEMMA RotationKeepsKnown ==
    ASSUME OpsTypeOK, OpsTypeOK', LeaseIsHeld, Turns, Known, RotationStep,
           UNCHANGED <<migrationVars, updateVars>>
    PROVE  Known'
<1>1. PICK k \in Rotations : \E r : RotationMove(k, r)
    BY RotationMoves
<1>2. PICK r : RotationMove(k, r)
    BY <1>1
<1> DEFINE q == rotation[k]
<1>3. UNCHANGED <<journal, task, astray, updater>> /\ HostIsSound /\ RotationKnows(k)
    BY DEF migrationVars, updateVars, Known
<1>4. host'.left = host.left => /\ UNCHANGED config => SettledTokens \subseteq SettledTokens'
                                /\ rotation'[k] = r
    BY <1>2, <1>3, RotationSettles
<1>5. host'.token \in Tokens /\ host.token \in Tokens /\ config \in Configs
    BY DEF OpsTypeOK, HostTypeOK, Hosts
<1>6. CASE QuietMove(q, r) /\ UNCHANGED <<host, config, lost>>
    BY <1>2, <1>6, QuietRotationKnows
<1>7. CASE WriteMove(k, q, r)
    <2>1. /\ q.pc = "write" /\ r.pc \in RotationHolds /\ q.pc \in RotationHolds
          /\ Rekeyed(host, host', host.mount, k)
        BY <1>7 DEF WriteMove, RotationHolds
    <2>2. host'.left = host.left /\ host'.kept = host.kept /\ UNCHANGED config
        BY <1>7 DEF WriteMove, Rekeyed, SameKept
    <2>3. /\ host.mount = "bind" => host.kept \/ astray
          /\ host.kept => host.mount = "bind"
        BY <1>3, <1>7 DEF WriteMove, HostIsSound
    <2>4. HostIsSound'
        BY <1>3, <2>1, <2>3, RekeyedIsSound
    <2>5. host.token \in SettledTokens /\ SettledTokens \subseteq SettledTokens' /\ rotation'[k] = r
        BY <1>3, <1>4, <2>1, <2>2 DEF RotationKnows
    <2>6. r.backup \/ host'.token \in SettledTokens'
        <3>1. k \in lost' => host'.token \in SettledTokens'
            BY <1>5 DEF SettledTokens
        <3>2. host' = host => host'.token \in SettledTokens'
            BY <2>5
        <3>3. QED
            BY <1>7, <3>1, <3>2 DEF WriteMove
    <2>7. r.before.mount = host.mount /\ r.before.token = host.token /\ r.status = q.status /\ ~r.imports
        BY <1>7 DEF WriteMove
    <2>8. RotationKnows(k)'
        <3>1. r.status \in ActiveRotation
            BY <1>3, <2>1, <2>7 DEF RotationKnows
        <3>2. (r.backup /\ r.pc \in {"save", "undo"}) \/ (~r.backup /\ r.pc = "close")
            BY <1>7 DEF WriteMove
        <3>3. QED
            BY <1>3, <2>1, <2>2, <2>3, <2>5, <2>6, <2>7, <3>1, <3>2 DEF RotationKnows
    <2>9. QED
        BY <1>2, <2>1, <2>2, <2>4, <2>8, RotationKeeps
<1>8. CASE CommitMove(q, r)
    <2>1. /\ q.pc = "verify" /\ r.pc = "succeed" /\ SameBackup(q, r) /\ r.status = q.status
          /\ UNCHANGED host /\ config'.token = host.token
        BY <1>5, <1>8 DEF CommitMove, Configs
    <2>2. q.pc \in RotationHolds /\ r.pc \in RotationHolds /\ rotation'[k] = r
        BY <1>4, <2>1 DEF RotationHolds
    <2>3. HostIsSound'
        BY <1>3, <2>1 DEF HostIsSound
    <2>4. host'.token \in SettledTokens'
        BY <1>5, <2>1 DEF SettledTokens
    <2>5. RotationKnows(k)'
        BY <1>3, <2>1, <2>2, <2>4 DEF RotationKnows, SameBackup
    <2>6. QED
        BY <1>2, <2>1, <2>2, <2>3, <2>5, RotationKeeps
<1>9. CASE UndoMove(q, r)
    <2>1. /\ q.pc = "undo" /\ r.pc = "close" /\ SameBackup(q, r) /\ r.status = q.status
          /\ Rekeyed(host, host', q.before.mount, q.before.token) /\ UNCHANGED config
          /\ r.closing = "recovery_required" \/ host'.token = q.before.token
        BY <1>9 DEF UndoMove
    <2>2. q.pc \in RotationHolds /\ r.pc \in RotationHolds
        BY <2>1 DEF RotationHolds
    <2>3. /\ q.backup /\ q.before.token \in SettledTokens
          /\ q.before.mount = "bind" => host.kept \/ astray
          /\ host.kept => q.before.mount = "bind"
        BY <1>3, <2>1, <2>2 DEF RotationKnows
    <2>4. HostIsSound'
        BY <1>3, <2>1, <2>3, RekeyedIsSound
    <2>5. host'.left = host.left /\ host'.kept = host.kept
        BY <2>1 DEF Rekeyed, SameKept
    <2>6. SettledTokens \subseteq SettledTokens' /\ rotation'[k] = r
        BY <1>4, <2>1, <2>5
    <2>7. RotationKnows(k)'
        BY <1>3, <2>1, <2>2, <2>3, <2>5, <2>6 DEF RotationKnows, SameBackup
    <2>8. QED
        BY <1>2, <2>2, <2>4, <2>5, <2>7, RotationKeeps
<1>10. QED
    BY <1>2, <1>6, <1>7, <1>8, <1>9 DEF RotationMove

\* The requests that change the configuration find nobody at work.
LEMMA ConfigKeepsKnown ==
    ASSUME OpsTypeOK, OpsTypeOK', LeaseIsHeld, Turns, Known, ConfigStep, journal.status \notin NotOver
    PROVE  Known'
<1>1. /\ mutationLease = NoLease /\ UNCHANGED <<host, task, updater, astray, lost>>
      /\ journal'.status \in {journal.status, "none"}
    BY DEF ConfigStep, SaveDirect, ConnectSsh, ActivateWorkspace, DeleteConfig, Configures, MayConfigure,
           KeepsJournals, migrationVars, updateVars, rotationVars, OpsTypeOK, MigrationTypeOK
<1>2. \A k \in Rotations : rotation'[k].pc = rotation[k].pc /\ rotation'[k].backup = rotation[k].backup
    BY DEF ConfigStep, SaveDirect, ConnectSsh, ActivateWorkspace, DeleteConfig, KeepsJournals,
           rotationVars, OpsTypeOK, RotationTypeOK
<1>3. NobodyHolds
    BY <1>1, FreeLease
<1>4. HostIsSound'
    BY <1>1 DEF Known, HostIsSound
<1>5. TaskKnows'
    BY <1>1 DEF Known, TaskKnows, NotOver
<1>6. \A u \in Updates : UpdateKnows(u)'
    BY <1>1, <1>3 DEF Known, UpdateKnows, NobodyHolds, Holding, Undoable
<1>7. \A k \in Rotations : RotationKnows(k)'
    BY <1>2, <1>3 DEF Known, RotationKnows, NobodyHolds
<1>8. host.token \in SettledTokens /\ host.token \in Tokens /\ config \in Configs
    BY <1>3 DEF Known, KeyIsSettled, NobodyHolds, OpsTypeOK, HostTypeOK, Hosts
<1>9. host'.token \in SettledTokens'
    <2>1. CASE SaveDirect \/ DeleteConfig
        <3>1. ~(config'.exists /\ config'.ssh)
            BY <2>1 DEF SaveDirect, DeleteConfig, Configures, SavedDirect, NoConfig
        <3>2. QED
            BY <1>1, <1>8, <3>1 DEF SettledTokens
    <2>2. CASE ConnectSsh
        <3>1. config'.token = host.token
            BY <2>2 DEF ConnectSsh, Configures, SavedSsh
        <3>2. QED
            BY <1>1, <1>8, <3>1 DEF SettledTokens
    <2>3. CASE ActivateWorkspace
        <3>1. /\ config'.exists = config.exists /\ config'.ssh = config.ssh /\ config'.token = config.token
              /\ UNCHANGED rotation
            BY <1>8, <2>3 DEF ActivateWorkspace, Configures, Configs, KeepsJournals, rotationVars
        <3>2. SettledTokens' = SettledTokens
            BY <1>1, <3>1, TaskSettles DEF SameLegacy
        <3>3. QED
            BY <1>1, <1>8, <3>2
    <2>4. QED
        BY <2>1, <2>2, <2>3 DEF ConfigStep
<1>10. QED
    BY <1>4, <1>5, <1>6, <1>7, <1>9 DEF Known, KeyIsSettled

\* A crash leaves the key settled: what was under way stays in the journals, or beside
\* the container.
LEMMA CrashKeepsKnown ==
    ASSUME OpsTypeOK, OpsTypeOK', Known, Crash
    PROVE  Known'
<1>1. UNCHANGED <<config, host, journal, astray, lost>> /\ task'.pc = "boot"
    BY DEF Crash
<1>2. ASSUME NEW u \in Updates
      PROVE  /\ updater'[u].pc = IF updater[u].pc = "idle" THEN "idle" ELSE "done"
             /\ updater'[u].checkpoint = FALSE
    BY DEF Crash, IsAt
<1>3. ASSUME NEW k \in Rotations
      PROVE  /\ rotation'[k].pc = IF rotation[k].pc \in {"idle", "planned"} THEN "idle" ELSE "done"
             /\ rotation'[k].status = rotation[k].status /\ ~rotation'[k].backup
    BY DEF Crash, NoRequest
<1>4. HostIsSound' /\ TaskKnows'
    BY <1>1 DEF Known, HostIsSound, TaskKnows
<1>5. \A u \in Updates : UpdateKnows(u)'
    BY <1>1, <1>2 DEF Known, UpdateKnows, Unapplied, Undoable
<1>6. \A k \in Rotations : RotationKnows(k)'
    BY <1>3 DEF RotationKnows, RotationHolds
<1>7. host'.token \in SettledTokens'
    <2>1. host'.token \in Tokens
        BY DEF OpsTypeOK, HostTypeOK, Hosts
    <2>2. CASE \E k \in Rotations : rotation[k].pc \in RotationHolds
        <3>1. PICK k \in Rotations : rotation[k].pc \in RotationHolds
            BY <2>2
        <3>2. rotation[k].status \in ActiveRotation
            BY <3>1 DEF Known, RotationKnows
        <3>3. Stuck'
            BY <1>3, <3>1, <3>2 DEF Stuck, RotationHolds
        <3>4. QED
            BY <2>1, <3>3 DEF SettledTokens
    <2>3. CASE \E u \in Updates : updater[u].pc \in Holding /\ host.left[u].legacy
        <3>1. Stale'
            BY <1>1, <1>2, <2>3 DEF Stale, Holding
        <3>2. QED
            BY <2>1, <3>1 DEF SettledTokens
    <2>4. CASE host.token \in SettledTokens
        <3>1. Stuck => Stuck'
            BY <1>3 DEF Stuck
        <3>2. Stale => Stale'
            BY <1>1, <1>2 DEF Stale, Holding
        <3>3. QED
            BY <1>1, <2>4, <3>1, <3>2 DEF SettledTokens
    <2>5. QED
        BY <2>2, <2>3, <2>4 DEF Known, KeyIsSettled
<1>8. QED
    BY <1>4, <1>5, <1>6, <1>7 DEF Known, KeyIsSettled

\* What is known of the machine is kept by every step that does not cross a migration.
LEMMA KnownStep ==
    OpsTypeOK /\ OpsTypeOK' /\ LeaseIsHeld /\ (crossed \/ Turns) /\ (crossed \/ Known) /\ [OpsNext]_opsVars
    => (crossed' \/ Known')
<1> SUFFICES ASSUME OpsTypeOK, OpsTypeOK', LeaseIsHeld, crossed \/ Turns, crossed \/ Known,
                    [OpsNext]_opsVars, ~crossed'
             PROVE  Known'
    OBVIOUS
<1>1. Turns /\ Known
    BY DEF OpsNext, MigrationStep, Crosses, Crash, opsVars
<1>2. CASE MigrationStep
    BY <1>1, <1>2, TaskKeepsKnown
<1>3. CASE UpdateStep /\ UNCHANGED <<migrationVars, rotationVars>>
    BY <1>1, <1>3, UpdateKeepsKnown
<1>4. CASE RotationStep /\ UNCHANGED <<migrationVars, updateVars>>
    BY <1>1, <1>4, RotationKeepsKnown
<1>5. CASE ConfigStep /\ Crosses(TRUE)
    <2>1. journal.status \notin NotOver
        BY <1>5 DEF Crosses, NotOver
    <2>2. QED
        BY <1>1, <1>5, <2>1, ConfigKeepsKnown
<1>6. CASE RunStep \/ UNCHANGED opsVars
    <2>1. UNCHANGED <<host, config, journal, task, astray, updater, rotation, lost>>
        BY <1>6 DEF RunStep, KeepsJournals, opsVars, hostVars, migrationVars, updateVars, rotationVars
    <2>2. HostIsSound' /\ TaskKnows'
        BY <1>1, <2>1 DEF Known, HostIsSound, TaskKnows
    <2>3. QED
        BY <1>1, <2>1, <2>2, QuietTaskKnows
<1>7. CASE Crash
    BY <1>1, <1>7, CrashKeepsKnown
<1>8. QED
    BY <1>2, <1>3, <1>4, <1>5, <1>6, <1>7 DEF OpsNext

LEMMA KnownHolds == OpsSpec => [](crossed \/ Known)
BY KnownInitially, KnownStep, OperationsAreTyped, OperationsHoldTheLease, TurnsHold, PTL DEF OpsSpec

-----------------------------------------------------------------------------
(* The data, the records, the key and the undoing of an update *)

\* Hermes never runs on a directory whose copy was not proved, whatever the crashes, the
\* failures of the scripts and the changes of key, unless an update has adopted the
\* deployment that a migration left behind, or an operation took the runtime while a
\* migration was not over.
THEOREM DataIsNeverPartial == OpsSpec => []NoPartialData
<1>1. (crossed \/ Known) => NoPartialData
    BY DEF Known, HostIsSound, NoPartialData
<1>2. QED
    BY <1>1, KnownHolds, PTL

\* A migration that is recorded as a success keeps its two ways back, with the same two
\* exceptions.
THEOREM SuccessKeepsBothWays == OpsSpec => []SucceededKeepsBoth
<1>1. (crossed \/ Known) => SucceededKeepsBoth
    BY DEF Known, HostIsSound, SucceededKeepsBoth
<1>2. QED
    BY <1>1, KnownHolds, PTL

\* Only the task of a migration writes that it was rolled back, and it has just seen the
\* old container run again.
LEMMA OnlyTheTaskRecords ==
    ASSUME OpsTypeOK, [OpsNext]_opsVars,
           journal.status # "rolled_back", journal'.status = "rolled_back"
    PROVE  task.pc = "rolled"
<1>1. \A status : Writes(status) => journal'.status = status
    BY TaskRecord
<1>2. journal' # journal
    OBVIOUS
<1>3. CASE MigrationStep
    <2>1. CASE CreatePlan \/ ExpirePlan \/ StartMigration
        <3>1. journal \in [row : 0..MaxMigrations, status : MigrationStatuses, revision : 0..MaxRevision]
            BY DEF OpsTypeOK, MigrationTypeOK
        <3>2. QED
            BY <2>1, <3>1 DEF CreatePlan, ExpirePlan, StartMigration
    <2>2. CASE TaskStep
        <3>1. TakesLease \/ Succeeds \/ Refuses \/ RecordsRollback \/ RecordsUnproven
            BY <1>2, <2>2 DEF TaskStep, Interrupted, Gives, Revalidates, Copies, CutsOver, Sends, Verifies,
                   ActivatesTask, Activates, Cleans, RollsBack, BootExamines, BootInspects, BootAdmits
        <3>2. QED
            BY <1>1, <1>2, <3>1 DEF TakesLease, Succeeds, Refuses, RecordsRollback, RecordsUnproven, ClosesAs
    <2>3. QED
        BY <1>3, <2>1, <2>2 DEF MigrationStep
<1>4. CASE ConfigStep
    <2>1. journal'.status = "none"
        <3>1. journal \in [row : 0..MaxMigrations, status : MigrationStatuses, revision : 0..MaxRevision]
            BY DEF OpsTypeOK, MigrationTypeOK
        <3>2. QED
            BY <1>2, <1>4, <3>1 DEF ConfigStep, SaveDirect, ConnectSsh, ActivateWorkspace, DeleteConfig,
                   KeepsJournals, migrationVars
    <2>2. QED
        BY <2>1
<1>5. CASE ~MigrationStep /\ ~ConfigStep
    BY <1>2, <1>5 DEF OpsNext, RunStep, KeepsJournals, migrationVars, Crash, opsVars
<1>6. QED
    BY <1>3, <1>4, <1>5

\* What the journal of a migration says is true of the machine: after a success the two
\* ways back are there, and when it is recorded as rolled back, after crashes and failed
\* scripts as well, the former container runs on its volume under its name.
THEOREM RecordsTellTheTruth == OpsSpec => RecordsAreTrue
<1>1. OpsTypeOK /\ (crossed \/ Known) /\ [OpsNext]_opsVars =>
      [journal.status # "rolled_back" /\ journal'.status = "rolled_back"
           => (host.mount = "volume" /\ host.running /\ ~host.kept) \/ astray \/ crossed]_opsVars
    BY OnlyTheTaskRecords DEF Known, TaskKnows
<1>2. QED
    BY <1>1, SuccessKeepsBothWays, KnownHolds, OperationsAreTyped, PTL DEF RecordsAreTrue, OpsSpec

\* The key of Hermes is the one that is stored, or it is recorded that it may not be: a
\* change of key under way, to be recovered or timed out, or the former container of an
\* update beside the one that runs.
THEOREM KeyIsKnown == OpsSpec => []TokenIsKnown
<1>1. OpsTypeOK /\ (crossed \/ Known) => TokenIsKnown
    <2> SUFFICES ASSUME OpsTypeOK, Known, ~(\E u \in Updates : host.left[u].legacy), ~KeyIsRecorded
                 PROVE  FALSE
        BY DEF TokenIsKnown
    <2>1. \A k \in Rotations : rotation[k].status \notin ActiveRotation /\ k \notin lost
        BY DEF KeyIsRecorded
    <2>2. \A k \in Rotations : rotation[k].pc \notin RotationHolds
        BY <2>1 DEF Known, RotationKnows
    <2>3. \A u \in Updates : ~host.left[u].legacy
        OBVIOUS
    <2>4. host.token \in SettledTokens
        BY <2>2, <2>3 DEF Known, KeyIsSettled
    <2>5. ~Stuck /\ ~Stale
        BY <2>1, <2>3 DEF Stuck, Stale
    <2>6. lost = {}
        BY <2>1 DEF OpsTypeOK, RotationTypeOK
    <2>7. config.exists /\ config.ssh => host.token = config.token
        BY <2>4, <2>5, <2>6 DEF SettledTokens
    <2>8. QED
        BY <2>7 DEF KeyIsRecorded
<1>2. QED
    BY <1>1, OperationsAreTyped, KnownHolds, PTL

\* An update that is to be undone has its former compose file and, if it has adopted a
\* container, that container; or Hermes answers, its checkpoint being discarded.
THEOREM UndoingHasAWayBack == OpsSpec => []UndoHasAWayBack
<1>1. (crossed \/ Known) => UndoHasAWayBack
    BY DEF Known, UpdateKnows, WayBack, UndoHasAWayBack
<1>2. QED
    BY <1>1, KnownHolds, PTL
=============================================================================
