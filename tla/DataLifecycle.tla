----------------------------- MODULE DataLifecycle -----------------------------
(***************************************************************************)
(* What removes data: the deletion of a thread, and the purge of what an   *)
(* accepted preview lists, under the retention policy of the site.         *)
(*                                                                         *)
(* A purge is one transaction that locks its preview and the policy, moves *)
(* the directories of the runs aside in the middle and removes them after  *)
(* the commit.  It locks neither the threads nor the runs before it        *)
(* deletes them.  When its COMMIT fails, its locks are gone before the     *)
(* directories come back.  The deletion of a thread uses no transaction    *)
(* and reads no policy.                                                    *)
(***************************************************************************)
EXTENDS ArtifactStore, Sequences, SequencesExt

CONSTANTS MaxVersions, MaxPreviews \* bounds

ASSUME LifecycleAssumption ==
    /\ MaxVersions \in Nat /\ MaxPreviews \in Nat
    /\ FirstVersion <= MaxVersions

VARIABLES
    previews,  \* the previews, in the order of their creation
    purges,    \* where each request for a purge is, and the preview it names
    leaving    \* the threads being deleted, with the runs that were seen

lifecycleVars == <<storeVars, previews, purges, leaving>>

Item == [thread : Threads, runs : SUBSET Runs, rows : SUBSET Artifacts, activity : 0 .. MaxClock]

PurgePlaces == {"none", "inspected", "moved", "restoring", "committed", "pending", "failed",
                "undone", "done"}

LifecycleTypeOK ==
    /\ ArtifactTypeOK
    /\ \A i \in DOMAIN previews :
          /\ previews[i].version \in 1 .. MaxVersions /\ previews[i].cutoff \in 0 .. MaxClock
          /\ previews[i].items \subseteq Item /\ previews[i].purged \in BOOLEAN
    /\ purges \in [Purges -> [pc : PurgePlaces, preview : 0 .. MaxPreviews]]
    /\ leaving \in [Threads -> [pc : {"none", "seen", "emptied", "done"}, runs : SUBSET Runs]]

LifecycleInit ==
    /\ ArtifactInit
    /\ previews = <<>>
    /\ purges = [p \in Purges |-> [pc |-> "none", preview |-> 0]]
    /\ leaving = [t \in Threads |-> [pc |-> "none", runs |-> {}]]

RunsOf(t) == {r \in Runs : ThreadOf[r] = t /\ Stored(r)}

-----------------------------------------------------------------------------
(* The policy and the previews *)

KeepsData == UNCHANGED <<clock, threads, runs, rows, dated, files, made, uploads, scans, deletions>>

UpdatesUnlocked(hold) ==
    /\ policy.version < MaxVersions
    /\ policy' = [version |-> policy.version + 1, hold |-> hold]
    /\ KeepsData /\ UNCHANGED <<policyLock, faults, previews, purges, leaving>>

updateSiteDataLifecyclePolicy(hold) ==
    /\ policyLock = "free" /\ policy.version < MaxVersions
    /\ policy' = [version |-> policy.version + 1, hold |-> hold]
    /\ KeepsData /\ UNCHANGED <<policyLock, faults, previews, purges, leaving>>

\* The last event of a thread: of its runs, or of the rows that are live.
Activity(t) ==
    LET recorded == RunsOf(t) \union UNION {Live(r, Artifacts) : r \in RunsOf(t)}
    IN  CHOOSE d \in {dated[x] : x \in recorded} : \A x \in recorded : dated[x] <= d

\* Threads with runs, all of them over, and nothing since the cutoff.
findLifecycleCandidates(cutoff) ==
    {[thread |-> t, runs |-> RunsOf(t), activity |-> Activity(t),
      rows |-> UNION {Live(r, Artifacts) : r \in RunsOf(t)}] :
        t \in {u \in threads : /\ RunsOf(u) # {}
                               /\ \A r \in RunsOf(u) : runs[r] = "terminal"
                               /\ Activity(u) < cutoff}}

createDataLifecyclePreview ==
    /\ policyLock = "free" /\ policy.version > 0 /\ ~policy.hold
    /\ Len(previews) < MaxPreviews
    /\ previews' = Append(previews, [version |-> policy.version, cutoff |-> clock, purged |-> FALSE,
                                     items |-> findLifecycleCandidates(clock)])
    /\ KeepsData /\ UNCHANGED <<policyLock, policy, faults, purges, leaving>>

-----------------------------------------------------------------------------
(* The purge *)

Purge(p, from, to) ==
    /\ purges[p].pc = from
    /\ purges' = [purges EXCEPT ![p].pc = to]

KeepsPurge == UNCHANGED <<clock, dated, uploads, scans, deletions, policy, leaving>>

PreviewUnread(i) == TRUE

\* The row of the preview is locked by the first purge; the second finds it consumed.
PreviewOpen(i) == ~previews[i].purged

SourceUnchanged(i) == findLifecycleCandidates(previews[i].cutoff) = previews[i].items

assertPurgeManifest(i) ==
    /\ ~policy.hold /\ policy.version = previews[i].version
    /\ SourceUnchanged(i)

InspectPurge(p) ==
    \E i \in DOMAIN previews :
        /\ purges[p].pc = "none" /\ policyLock = "free"
        /\ PreviewOpen(i) /\ assertPurgeManifest(i)
        /\ purges' = [purges EXCEPT ![p] = [pc |-> "inspected", preview |-> i]]
        /\ policyLock' = p
        /\ KeepsPurge /\ UNCHANGED <<threads, runs, rows, files, made, previews, faults>>

Planned(p) == UNION {item.runs : item \in previews[purges[p].preview].items}

quarantine(p) ==
    /\ Purge(p, "inspected", "moved")
    /\ LET inside == {c \in files : c.run \in Planned(p) /\ c.moved = "free"}
       IN  files' = (files \ inside) \union {[c EXCEPT !.moved = p] : c \in inside}
    /\ made' = made \ (Planned(p) \X Places)
    /\ KeepsPurge /\ UNCHANGED <<threads, runs, rows, previews, policyLock, faults>>

\* The threads go with all the runs and rows they have by now.
Cascades(T) ==
    /\ threads' = threads \ T
    /\ runs' = [r \in Runs |-> IF ThreadOf[r] \in T /\ Stored(r) THEN "gone" ELSE runs[r]]
    /\ rows' = [a \in Artifacts |-> IF ThreadOf[RunOf[a]] \in T /\ rows[a] # "none" THEN "gone" ELSE rows[a]]

CommitPurge(p) ==
    LET T == {item.thread : item \in previews[purges[p].preview].items} IN
    /\ Purge(p, "moved", "committed") /\ Unlocks(p)
    /\ \A r \in Runs : ThreadOf[r] \in T => RunFree(r)
    /\ Cascades(T)
    /\ previews' = [previews EXCEPT ![purges[p].preview].purged = TRUE]
    /\ KeepsPurge /\ UNCHANGED <<files, made, faults>>

Moved(p) == {c \in files : c.moved = p}

\* The rename of a directory fails when another one has been made in its place.
restoreMoves(p) ==
    LET back == {c \in Moved(p) : <<c.run, c.place>> \notin made} IN
    /\ files' = (files \ back) \union {[c EXCEPT !.moved = "free"] : c \in back}
    /\ made' = made \union {<<c.run, c.place>> : c \in back}

\* What fails in the transaction restores before it ends.  The failure of COMMIT
\* ends it first: what happens until the files are back finds no lock.
FailPurge(p) ==
    /\ \/ Purge(p, "inspected", "failed") /\ UNCHANGED <<files, made>>
       \/ Purge(p, "moved", "failed") /\ restoreMoves(p)
       \/ Purge(p, "moved", "restoring") /\ UNCHANGED <<files, made>>
       \/ Purge(p, "restoring", "undone") /\ restoreMoves(p)
    /\ Unlocks(p)
    /\ KeepsPurge /\ UNCHANGED <<threads, runs, rows, previews, faults>>

RemoveMoved(p) ==
    /\ Purge(p, "committed", "done") /\ files' = files \ Moved(p)
    /\ KeepsPurge /\ UNCHANGED <<threads, runs, rows, made, previews, policyLock, faults>>

LeaveMoved(p) ==
    /\ Purge(p, "committed", "pending")
    /\ faults < MaxFaults /\ faults' = faults + 1
    /\ KeepsPurge /\ UNCHANGED <<threads, runs, rows, files, made, previews, policyLock>>

purgeDataLifecycle(p) ==
    \/ InspectPurge(p) \/ quarantine(p) \/ CommitPurge(p) \/ FailPurge(p)
    \/ RemoveMoved(p) \/ LeaveMoved(p)

-----------------------------------------------------------------------------
(* The deletion of a thread *)

Leaves(t, from, to) ==
    /\ leaving[t].pc = from
    /\ leaving' = [leaving EXCEPT ![t].pc = to]

KeepsLeaving == UNCHANGED <<clock, dated, uploads, scans, deletions, policyLock, policy, faults,
                            previews, purges>>

\* The runs are listed once; a cancellation that fails is skipped.
CancelRuns(t) ==
    /\ leaving[t].pc = "none" /\ t \in threads
    /\ leaving' = [leaving EXCEPT ![t] = [pc |-> "seen", runs |-> RunsOf(t)]]
    /\ \E cancelled \in SUBSET {r \in RunsOf(t) : runs[r] = "active"} :
          runs' = [r \in Runs |-> IF r \in cancelled THEN "terminal" ELSE runs[r]]
    /\ KeepsLeaving /\ UNCHANGED <<threads, rows, files, made>>

RemoveDirectories(t) ==
    /\ Leaves(t, "seen", "emptied")
    /\ files' = {c \in files : c.run \notin leaving[t].runs \/ c.moved # "free"}
    /\ made' = made \ (leaving[t].runs \X Places)
    /\ KeepsLeaving /\ UNCHANGED <<threads, runs, rows>>

DropThread(t) ==
    /\ Leaves(t, "emptied", "done")
    /\ \A r \in RunsOf(t) : RunFree(r)
    /\ Cascades({t})
    /\ KeepsLeaving /\ UNCHANGED <<files, made>>

deleteThread(t) == CancelRuns(t) \/ RemoveDirectories(t) \/ DropThread(t)

-----------------------------------------------------------------------------

\* The process stops: its transactions are rolled back, nothing restores the
\* files they have moved, no request is taken up again.
CrashFiles ==
    /\ faults < MaxFaults /\ faults' = faults + 1
    /\ uploads' = [u \in Uploads |-> IF uploads[u] \in {"none", "done"} THEN uploads[u] ELSE "refused"]
    /\ scans' = [s \in Scans |-> IF scans[s] \in {"none", "done"} THEN scans[s] ELSE "refused"]
    /\ deletions' = [u \in Uploads |-> CASE deletions[u] \in {"quarantined", "restoring"} -> "failed"
                                         [] deletions[u] = "committed" -> "pending"
                                         [] OTHER -> deletions[u]]
    /\ purges' = [p \in Purges |-> [purges[p] EXCEPT !.pc = CASE @ \in {"inspected", "moved", "restoring"} -> "failed"
                                                              [] @ = "committed" -> "pending"
                                                              [] OTHER -> @]]
    /\ leaving' = [t \in Threads |-> [leaving[t] EXCEPT !.pc = IF @ = "done" THEN @ ELSE "none"]]
    /\ policyLock' = "free"
    /\ UNCHANGED <<clock, threads, runs, rows, dated, files, made, policy, previews>>

StoreNext ==
    \/ Tick
    \/ \E r \in Runs : createRunForThread(r) \/ EndRun(r)
    \/ \E u \in Uploads : depositInputFile(u) \/ deleteArtifactEverywhere(u)
    \/ \E s \in Scans : scanOutputArtifacts(s)

LifecycleNext ==
    \/ StoreNext /\ UNCHANGED <<previews, purges, leaving>>
    \/ \E hold \in BOOLEAN : updateSiteDataLifecyclePolicy(hold)
    \/ createDataLifecyclePreview
    \/ \E p \in Purges : purgeDataLifecycle(p)
    \/ \E t \in Threads : deleteThread(t)
    \/ CrashFiles

LifecycleSpec == LifecycleInit /\ [][LifecycleNext]_lifecycleVars

-----------------------------------------------------------------------------
(* Properties *)

Commits(p) == purges[p].pc = "moved" /\ purges'[p].pc = "committed"

\* A purge removes a thread only while the policy its preview was made under is
\* in force and no legal hold is: a hold set between the inspection and the
\* deletion has to wait.
PurgeFollowsPolicy ==
    [][\A p \in Purges : Commits(p) =>
          /\ ~policy.hold /\ policy' = policy
          /\ policy.version = previews[purges[p].preview].version]_lifecycleVars

\* Two requests for the same preview never both purge.
PreviewPurgesOnce ==
    \A p, q \in Purges :
        /\ purges[p].pc \in {"committed", "pending", "done"}
        /\ purges[q].pc \in {"committed", "pending", "done"}
        /\ purges[p].preview = purges[q].preview
        => p = q

\* Where the site has a policy, no deletion commits under a legal hold, though
\* it checked for one before it touched the files.
DeletionFollowsHold ==
    [][\A u \in Uploads :
          deletions[u] = "quarantined" /\ deletions'[u] = "committed" /\ FirstVersion > 0
          => ~policy.hold]_lifecycleVars

\* What is purged or deleted follows the policy at the time it commits: a hold,
\* or a new version, set while the files were being moved has its effect.
PolicyIsFollowed == PurgeFollowsPolicy /\ DeletionFollowsHold

PrivateCopy(c, a) == c.of = a /\ c.place = "private"

\* The bytes of a live row exist somewhere on the disk, whatever was deleted,
\* purged or restored and wherever the process stopped, until the deletion of
\* its thread removes them.
LiveRowsHaveBytes ==
    \A a \in Artifacts :
        rows[a] = "live" /\ leaving[ThreadOf[RunOf[a]]].runs = {} =>
            \E c \in files : PrivateCopy(c, a)

\* What is announced exists and what is confirmed is done once: no live row loses its
\* bytes, two requests for the same preview never both purge, and the rows, the files
\* and the requests keep their types.
LifecycleInvariant == LifecycleTypeOK /\ PreviewPurgesOnce /\ LiveRowsHaveBytes

GaveUp(p) == purges[p].pc \in {"failed", "undone"}

Failed == {u \in Uploads : deletions[u] = "failed"} \union {p \in Purges : GaveUp(p)}

\* One failure is undone: without a crash, the bytes are back where the row says
\* once nothing is in flight, unless a request has made the directory anew.
\* (Two failures are not: a purge can move away what a deletion has to restore.)
RestoredInPlace ==
    \A a \in Artifacts :
        /\ rows[a] = "live" /\ faults = 0 /\ Cardinality(Failed) <= 1
        /\ leaving[ThreadOf[RunOf[a]]].runs = {}
        /\ a \in Uploads => deletions[a] \in {"none", "failed"}
        /\ \A p \in Purges : purges[p].pc \notin {"inspected", "moved", "restoring"}
        => \E c \in files : /\ PrivateCopy(c, a) /\ c.aside = "free"
                            /\ c.moved # "free" => <<c.run, "private">> \in made

\* A purge of this run whose COMMIT failed, and which put the files back afterwards.
Undone(r) == \E p \in Purges : purges[p].pc = "undone" /\ r \in Planned(p)

\* A deleted artifact has no copy left where its readers or Hermes would look,
\* though the two files are moved before the commit and a failure moves them back.
\* (A purge whose COMMIT failed may bring them back: the deletion found its lock
\* free and the files gone, and took them for removed.)
DeletedIsOutOfReach ==
    \A u \in Uploads : rows[u] = "deleted" =>
        \A c \in files : c.of = u => c.aside = u \/ c.moved # "free" \/ Undone(c.run)

\* The two files of an artifact are where its row says, whoever moved them and back.
FilesFollowRows == RestoredInPlace /\ DeletedIsOutOfReach
=============================================================================
