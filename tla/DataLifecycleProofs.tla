-------------------------- MODULE DataLifecycleProofs --------------------------
(***************************************************************************)
(* DataLifecycle for any numbers of threads, runs, files, requests and     *)
(* failures.                                                               *)
(*                                                                         *)
(* Two layers.  PolicyIInv is about transactions: a purge, and a deletion  *)
(* where there is a policy, hold the row of the policy from what they have *)
(* read to their commit.  FilesIInv adds, for each copy of bytes on the    *)
(* disk, where it may be while requests, deletions and purges move it      *)
(* (Fine), and that what is owed has one (KeptInv); the steps are taken    *)
(* one family at a time, with what no step takes back (Lasts) shown first. *)
(***************************************************************************)
EXTENDS DataLifecycle, FiniteSetTheorems, WellFoundedInduction, TLAPS

Preview == [version : 1 .. MaxVersions, cutoff : 0 .. MaxClock, purged : BOOLEAN, items : SUBSET Item]

InPurge(p) == purges[p].pc \in {"inspected", "moved"}
Purged(p) == purges[p].pc \in {"committed", "pending", "done"}

\* A purge that has read its preview holds the policy, which is the one of the preview.
PurgeLocks(p) ==
    InPurge(p) =>
        /\ policyLock = p /\ ~policy.hold
        /\ policy.version = previews[purges[p].preview].version
        /\ ~previews[purges[p].preview].purged

PurgeNames(p) ==
    /\ purges[p].pc # "none" => purges[p].preview \in DOMAIN previews
    /\ Purged(p) => previews[purges[p].preview].purged

\* So does a deletion, where there is a policy.
DeletionLocks(u) ==
    deletions[u] = "quarantined" /\ FirstVersion > 0 => policyLock = u /\ ~policy.hold

Registered ==
    /\ LifecycleTypeOK
    /\ previews \in Seq(Preview) /\ Len(previews) <= MaxPreviews
    /\ policy.version \in FirstVersion .. MaxVersions

PolicyIInv ==
    /\ Registered
    /\ \A p \in Purges : PurgeLocks(p) /\ PurgeNames(p)
    /\ \A u \in Uploads : DeletionLocks(u)
    /\ PreviewPurgesOnce

-----------------------------------------------------------------------------
(* The last event of a conversation *)

\* A set of dates has a last one.
LEMMA LastDate ==
    ASSUME NEW n \in Nat, NEW D \in SUBSET (0 .. n), D # {}
    PROVE  \E d \in D : \A e \in D : e <= d
<1> DEFINE Later(d) == {e \in D : d < e}
           T == {Later(d) : d \in D}
           F == FiniteSubsetsOf(0 .. n)
           R == StrictSubsetOrdering(0 .. n)
<1>1. \A d \in D : Later(d) \in SUBSET (0 .. n)
    OBVIOUS
<1>2. \A d \in D : IsFiniteSet(Later(d))
  <2>1. IsFiniteSet(0 .. n)
    BY FS_Interval
  <2>2. QED
    BY <1>1, <2>1, FS_Subset
<1>3. T \subseteq F /\ T # {}
    BY <1>1, <1>2 DEF FiniteSubsetsOf
<1>4. IsWellFoundedOn(R, F)
    BY FS_StrictSubsetOrderingWellFounded
<1>5. \E x \in T : \A y \in T : ~ (<<y, x>> \in R)
  <2> HIDE DEF T, F, R
  <2> QED
    BY <1>3, <1>4, WFMin
<1>6. PICK d \in D : \A e \in D : ~ (<<Later(e), Later(d)>> \in R)
    BY <1>5
<1>7. ASSUME NEW e \in D PROVE e <= d
  <2>1. d \in Int /\ e \in Int
    OBVIOUS
  <2>2. CASE d < e
    <3>1. \A f \in Later(e) : f \in Later(d)
      <4> SUFFICES ASSUME NEW f \in D, e < f PROVE d < f
        OBVIOUS
      <4>1. f \in Int
        OBVIOUS
      <4>2. QED
        BY <2>1, <2>2, <4>1
    <3>2. e \in Later(d) /\ e \notin Later(e)
      BY <2>1, <2>2
    <3>3. <<Later(e), Later(d)>> \in R
      BY <1>1, <3>1, <3>2 DEF StrictSubsetOrdering
    <3>4. QED
      BY <1>6, <3>3
  <2>3. QED
    BY <2>1, <2>2
<1>8. QED
    BY <1>7

LEMMA ActivityIsADate ==
    ASSUME LifecycleTypeOK, NEW t \in Threads, RunsOf(t) # {}
    PROVE  Activity(t) \in 0 .. MaxClock
<1> DEFINE recorded == RunsOf(t) \union UNION {Live(r, Artifacts) : r \in RunsOf(t)}
           D == {dated[x] : x \in recorded}
<1>1. recorded \in SUBSET (Runs \union Artifacts) /\ recorded # {}
    BY DEF RunsOf, Live
<1>2. dated \in [Runs \union Artifacts -> 0 .. MaxClock] /\ MaxClock \in Nat
    BY ArtifactAssumption DEF LifecycleTypeOK, ArtifactTypeOK
<1>3. D \in SUBSET (0 .. MaxClock) /\ D # {}
    BY <1>1, <1>2
<1>4. PICK d \in D : \A e \in D : e <= d
    BY <1>2, <1>3, LastDate
<1>5. \A x \in recorded : dated[x] <= d
    BY <1>4
<1>6. Activity(t) \in D
    BY <1>4, <1>5 DEF Activity
<1>7. QED
    BY <1>3, <1>6

LEMMA CandidatesAreItems ==
    ASSUME LifecycleTypeOK, NEW cutoff
    PROVE  /\ findLifecycleCandidates(cutoff) \in SUBSET Item
           /\ \A item \in findLifecycleCandidates(cutoff) : item.runs = RunsOf(item.thread)
<1> DEFINE Entry(t) == [thread |-> t, runs |-> RunsOf(t), activity |-> Activity(t),
                        rows |-> UNION {Live(r, Artifacts) : r \in RunsOf(t)}]
<1>1. SUFFICES ASSUME NEW t \in threads, RunsOf(t) # {}
               PROVE  Entry(t) \in Item /\ Entry(t).runs = RunsOf(Entry(t).thread)
    BY DEF findLifecycleCandidates
<1>2. t \in Threads
    BY <1>1 DEF LifecycleTypeOK, ArtifactTypeOK
<1>3. RunsOf(t) \in SUBSET Runs /\ UNION {Live(r, Artifacts) : r \in RunsOf(t)} \in SUBSET Artifacts
    BY DEF RunsOf, Live
<1>4. Activity(t) \in 0 .. MaxClock
    BY <1>1, <1>2, ActivityIsADate
<1>5. QED
    BY <1>2, <1>3, <1>4 DEF Item

-----------------------------------------------------------------------------
(* Types *)

LEMMA CopiesAreTyped ==
    /\ \A u \in Uploads : Saved(RunOf[u], NameOf[u], "private", u) \in Copy
    /\ \A s \in Scans : Saved(RunOf[s], s, "private", s) \in Copy
    /\ \A r \in Runs : Saved(r, "out", "work", r) \in Copy
<1>1. \A a \in Artifacts : RunOf[a] \in Runs
    BY ArtifactAssumption
<1>2. QED
    BY <1>1 DEF Saved, Copy, Places, Artifacts

\* A copy that is moved keeps what it is.
LEMMA MovedCopies ==
    ASSUME NEW c \in Copy
    PROVE  /\ \A u \in Uploads \union {"free"} :
                 LET d == [c EXCEPT !.aside = u] IN
                     /\ d \in Copy /\ d.run = c.run /\ d.name = c.name /\ d.place = c.place
                     /\ d.of = c.of /\ d.aside = u /\ d.moved = c.moved
           /\ \A p \in Purges \union {"free"} :
                 LET d == [c EXCEPT !.moved = p] IN
                     /\ d \in Copy /\ d.run = c.run /\ d.name = c.name /\ d.place = c.place
                     /\ d.of = c.of /\ d.aside = c.aside /\ d.moved = p
           /\ LET d == [c EXCEPT !.place = "work"] IN
                 /\ d \in Copy /\ d.run = c.run /\ d.name = c.name /\ d.place = "work"
                 /\ d.of = c.of /\ d.aside = c.aside /\ d.moved = c.moved
BY DEF Copy, Places

LEMMA DepositIsTyped ==
    ASSUME LifecycleTypeOK, NEW u \in Uploads, depositInputFile(u)
    PROVE  ArtifactTypeOK'
<1>1. u \in Artifacts /\ RunOf[u] \in Runs
    BY ArtifactAssumption DEF Artifacts
<1>2. /\ Saved(RunOf[u], NameOf[u], "private", u) \in Copy
      /\ \A c \in files : [c EXCEPT !.place = "work"] \in Copy
    BY CopiesAreTyped, MovedCopies DEF LifecycleTypeOK, ArtifactTypeOK
<1>3. ArtifactTypeOK
    BY DEF LifecycleTypeOK
<1>4. files' \subseteq Copy
    BY <1>2, <1>3
    DEF depositInputFile, AdmitInput, writeFileWithHash, StageInput, InsertInput, RefuseInput,
        InputPath, At, ArtifactTypeOK
<1>5. uploads' \in [Uploads -> {"none", "admitted", "written", "staged", "done", "refused"}]
    BY <1>3
    DEF depositInputFile, AdmitInput, writeFileWithHash, StageInput, InsertInput, RefuseInput,
        UploadGoes, ArtifactTypeOK
<1>6. made' \subseteq Runs \X Places
    BY <1>1, <1>3
    DEF depositInputFile, AdmitInput, writeFileWithHash, StageInput, InsertInput, RefuseInput,
        ArtifactTypeOK
<1>7. /\ rows' \in [Artifacts -> {"none", "live", "deleted", "gone"}]
      /\ dated' \in [Runs \union Artifacts -> 0 .. MaxClock]
    BY <1>1, <1>3
    DEF depositInputFile, AdmitInput, writeFileWithHash, StageInput, InsertInput, RefuseInput,
        ArtifactTypeOK
<1>8. UNCHANGED <<clock, threads, runs, scans, deletions, policyLock, policy, faults>>
    BY DEF depositInputFile, AdmitInput, writeFileWithHash, StageInput, InsertInput, RefuseInput,
           KeepsUpload
<1>9. QED
    BY <1>3, <1>4, <1>5, <1>6, <1>7, <1>8 DEF ArtifactTypeOK

LEMMA ScanIsTyped ==
    ASSUME LifecycleTypeOK, NEW s \in Scans, scanOutputArtifacts(s)
    PROVE  ArtifactTypeOK'
<1>1. s \in Artifacts /\ RunOf[s] \in Runs
    BY ArtifactAssumption DEF Artifacts
<1>2. Saved(RunOf[s], s, "private", s) \in Copy
    BY CopiesAreTyped
<1>3. ArtifactTypeOK
    BY DEF LifecycleTypeOK
<1>4. files' \subseteq Copy
    BY <1>2, <1>3
    DEF scanOutputArtifacts, ListOutputs, CopyOutput, InsertOutput, RefuseOutput, ArtifactTypeOK
<1>5. scans' \in [Scans -> {"none", "known", "new", "copied", "done", "refused"}]
    BY <1>3
    DEF scanOutputArtifacts, ListOutputs, CopyOutput, InsertOutput, RefuseOutput, ScanGoes,
        ArtifactTypeOK
<1>6. made' \subseteq Runs \X Places
    BY <1>1, <1>3
    DEF scanOutputArtifacts, ListOutputs, CopyOutput, InsertOutput, RefuseOutput, ArtifactTypeOK,
        Places
<1>7. /\ rows' \in [Artifacts -> {"none", "live", "deleted", "gone"}]
      /\ dated' \in [Runs \union Artifacts -> 0 .. MaxClock]
    BY <1>1, <1>3
    DEF scanOutputArtifacts, ListOutputs, CopyOutput, InsertOutput, RefuseOutput, ArtifactTypeOK
<1>8. UNCHANGED <<clock, threads, runs, uploads, deletions, policyLock, policy, faults>>
    BY DEF scanOutputArtifacts, ListOutputs, CopyOutput, InsertOutput, RefuseOutput, KeepsScan
<1>9. QED
    BY <1>3, <1>4, <1>5, <1>6, <1>7, <1>8 DEF ArtifactTypeOK

LEMMA DeletionIsTyped ==
    ASSUME LifecycleTypeOK, NEW u \in Uploads, deleteArtifactEverywhere(u)
    PROVE  ArtifactTypeOK'
<1>1. u \in Artifacts
    BY DEF Artifacts
<1>2. \A c \in files : [c EXCEPT !.aside = u] \in Copy /\ [c EXCEPT !.aside = "free"] \in Copy
    BY MovedCopies DEF LifecycleTypeOK, ArtifactTypeOK
<1>3. ArtifactTypeOK
    BY DEF LifecycleTypeOK
<1>4. files' \subseteq Copy
  <2>1. ASSUME NEW X \in SUBSET files, NEW v \in {u, "free"},
               files' = (files \ X) \union {[c EXCEPT !.aside = v] : c \in X}
        PROVE  files' \subseteq Copy
    <3>1. \A c \in X : [c EXCEPT !.aside = v] \in Copy
      BY <1>2
    <3>2. QED
      BY <1>3, <2>1, <3>1 DEF ArtifactTypeOK
  <2>2. Targets(u) \subseteq files /\ Aside(u) \subseteq files
    BY DEF Targets, InputPath, At, Aside
  <2>3. CASE QuarantineArtifact(u)
    BY <2>1, <2>2, <2>3 DEF QuarantineArtifact
  <2>4. CASE restoreFiles(u)
    <3> DEFINE back == {c \in Aside(u) : At(c.run, c.name, c.place) = {}}
    <3>1. back \subseteq files /\ files' = (files \ back) \union {[c EXCEPT !.aside = "free"] : c \in back}
      BY <2>2, <2>4 DEF restoreFiles
    <3> HIDE DEF back
    <3>2. QED
      BY <2>1, <3>1
  <2>5. CASE RemoveAside(u)
    BY <1>3, <2>5 DEF RemoveAside, ArtifactTypeOK
  <2>6. CASE CommitDeletion(u) \/ FailDeletion(u) \/ LeaveAside(u)
    BY <1>3, <2>6 DEF CommitDeletion, FailDeletion, LeaveAside, ArtifactTypeOK
  <2>7. QED
    BY <2>3, <2>4, <2>5, <2>6 DEF deleteArtifactEverywhere
<1>5. deletions' \in [Uploads -> {"none", "quarantined", "restoring", "committed", "pending",
                                 "failed", "done"}]
    BY <1>3
    DEF deleteArtifactEverywhere, QuarantineArtifact, CommitDeletion, FailDeletion, restoreFiles,
        RemoveAside, LeaveAside, Deletes, ArtifactTypeOK
<1>6. policyLock' \in {"free"} \union Uploads \union Purges
    BY <1>3
    DEF deleteArtifactEverywhere, QuarantineArtifact, CommitDeletion, FailDeletion, restoreFiles,
        RemoveAside, LeaveAside, LocksPolicy, Unlocks, ArtifactTypeOK
<1>7. rows' \in [Artifacts -> {"none", "live", "deleted", "gone"}] /\ faults' \in 0 .. MaxFaults
  <2>1. MaxFaults \in Nat
    BY ArtifactAssumption
  <2>2. QED
    BY <1>1, <1>3, <2>1
    DEF deleteArtifactEverywhere, QuarantineArtifact, CommitDeletion, FailDeletion, restoreFiles,
        RemoveAside, LeaveAside, ArtifactTypeOK
<1>8. UNCHANGED <<clock, threads, runs, dated, made, uploads, scans, policy>>
    BY DEF deleteArtifactEverywhere, QuarantineArtifact, CommitDeletion, FailDeletion, restoreFiles,
           RemoveAside, LeaveAside, KeepsDeletion
<1>9. QED
    BY <1>3, <1>4, <1>5, <1>6, <1>7, <1>8 DEF ArtifactTypeOK

LEMMA RunsAreTyped ==
    ASSUME LifecycleTypeOK, Tick \/ (\E r \in Runs : createRunForThread(r) \/ EndRun(r))
    PROVE  ArtifactTypeOK'
<1>1. ArtifactTypeOK /\ MaxClock \in Nat
    BY ArtifactAssumption DEF LifecycleTypeOK
<1>2. CASE Tick
    BY <1>1, <1>2 DEF Tick, KeepsFiles, ArtifactTypeOK
<1>3. ASSUME NEW r \in Runs, createRunForThread(r) PROVE ArtifactTypeOK'
    BY <1>1, <1>3 DEF createRunForThread, KeepsFiles, ArtifactTypeOK, Places
<1>4. ASSUME NEW r \in Runs, EndRun(r) PROVE ArtifactTypeOK'
    BY <1>1, <1>4, CopiesAreTyped DEF EndRun, KeepsFiles, ArtifactTypeOK
<1>5. QED
    BY <1>2, <1>3, <1>4

\* The rows of a preview, one by one.
LEMMA PreviewIsTyped ==
    ASSUME Registered
    PROVE  /\ LifecycleTypeOK /\ ArtifactTypeOK
           /\ DOMAIN previews = 1 .. Len(previews) /\ Len(previews) \in Nat
           /\ \A i \in DOMAIN previews : previews[i] \in Preview
           /\ \A p \in Purges : Planned(p) \subseteq Runs \/ purges[p].preview \notin DOMAIN previews
<1>1. \A i \in DOMAIN previews : previews[i] \in Preview
    BY DEF Registered
<1>2. ASSUME NEW p \in Purges, purges[p].preview \in DOMAIN previews
      PROVE  Planned(p) \subseteq Runs
    BY <1>1, <1>2 DEF Planned, Preview, Item
<1>3. QED
    BY <1>1, <1>2 DEF Registered, LifecycleTypeOK

\* From the rows to LifecycleTypeOK.
LEMMA RowsMakeTypes ==
    ASSUME ArtifactTypeOK', previews' \in Seq(Preview),
           purges' \in [Purges -> [pc : PurgePlaces, preview : 0 .. MaxPreviews]],
           leaving' \in [Threads -> [pc : {"none", "seen", "emptied", "done"}, runs : SUBSET Runs]]
    PROVE  LifecycleTypeOK'
<1>1. \A i \in DOMAIN previews' : previews'[i] \in Preview
    OBVIOUS
<1>2. QED
    BY <1>1 DEF LifecycleTypeOK, Preview

LEMMA RestoredIsTyped ==
    ASSUME ArtifactTypeOK, NEW p \in Purges, restoreMoves(p)
    PROVE  files' \subseteq Copy /\ made' \subseteq Runs \X Places
<1> DEFINE back == {c \in Moved(p) : <<c.run, c.place>> \notin made}
<1>1. back \subseteq Copy
    BY DEF Moved, ArtifactTypeOK
<1>2. \A c \in back : [c EXCEPT !.moved = "free"] \in Copy
    BY <1>1, MovedCopies
<1>3. /\ files' = (files \ back) \union {[c EXCEPT !.moved = "free"] : c \in back}
      /\ made' = made \union {<<c.run, c.place>> : c \in back}
    BY DEF restoreMoves
<1>4. \A c \in back : <<c.run, c.place>> \in Runs \X Places
    BY <1>1 DEF Copy
<1> HIDE DEF back
<1>5. QED
    BY <1>2, <1>3, <1>4 DEF ArtifactTypeOK

LEMMA PurgeIsTyped ==
    ASSUME Registered, NEW p \in Purges, purgeDataLifecycle(p),
           purges[p].pc # "none" => purges[p].preview \in DOMAIN previews
    PROVE  Registered'
<1>1. ArtifactTypeOK
    BY PreviewIsTyped
<1>2. /\ purges \in [Purges -> [pc : PurgePlaces, preview : 0 .. MaxPreviews]]
      /\ leaving \in [Threads -> [pc : {"none", "seen", "emptied", "done"}, runs : SUBSET Runs]]
    BY DEF Registered, LifecycleTypeOK
<1>3. purges' \in [Purges -> [pc : PurgePlaces, preview : 0 .. MaxPreviews]]
  <2>1. \A i \in DOMAIN previews : i \in 0 .. MaxPreviews
    BY PreviewIsTyped, LifecycleAssumption DEF Registered
  <2>2. QED
    BY <1>2, <2>1
    DEF purgeDataLifecycle, InspectPurge, quarantine, CommitPurge, FailPurge, RemoveMoved,
        LeaveMoved, Purge, PurgePlaces
<1>4. previews' \in Seq(Preview) /\ Len(previews') = Len(previews)
  <2>1. CASE CommitPurge(p)
    <3>1. purges[p].preview \in DOMAIN previews
      BY <2>1 DEF CommitPurge, Purge
    <3>2. previews[purges[p].preview] \in Preview /\ previews \in Seq(Preview)
      BY <3>1, PreviewIsTyped DEF Registered
    <3>3. [previews[purges[p].preview] EXCEPT !.purged = TRUE] \in Preview
      BY <3>2 DEF Preview
    <3>4. previews' = [previews EXCEPT ![purges[p].preview] =
                          [previews[purges[p].preview] EXCEPT !.purged = TRUE]]
      BY <2>1 DEF CommitPurge
    <3>5. QED
      BY <3>1, <3>2, <3>3, <3>4
  <2>2. CASE ~CommitPurge(p)
    BY <2>2
    DEF purgeDataLifecycle, InspectPurge, quarantine, FailPurge, RemoveMoved, LeaveMoved, Registered
  <2>3. QED
    BY <2>1, <2>2
<1>5. files' \subseteq Copy /\ made' \subseteq Runs \X Places
  <2>1. CASE quarantine(p)
    <3> DEFINE inside == {c \in files : c.run \in Planned(p) /\ c.moved = "free"}
    <3>1. \A c \in files : [c EXCEPT !.moved = p] \in Copy
      BY <1>1, MovedCopies DEF ArtifactTypeOK
    <3>2. /\ files' = (files \ inside) \union {[c EXCEPT !.moved = p] : c \in inside}
          /\ inside \subseteq files /\ made' \subseteq made
      BY <2>1 DEF quarantine
    <3> HIDE DEF inside
    <3>3. QED
      BY <1>1, <3>1, <3>2 DEF ArtifactTypeOK
  <2>2. CASE restoreMoves(p)
    BY <1>1, <2>2, RestoredIsTyped
  <2>3. CASE ~quarantine(p) /\ ~restoreMoves(p)
    BY <1>1, <2>3
    DEF purgeDataLifecycle, InspectPurge, CommitPurge, FailPurge, RemoveMoved, LeaveMoved,
        ArtifactTypeOK
  <2>4. QED
    BY <2>1, <2>2, <2>3
<1>6. /\ threads' \subseteq Threads
      /\ runs' \in [Runs -> {"absent", "active", "terminal", "gone"}]
      /\ rows' \in [Artifacts -> {"none", "live", "deleted", "gone"}]
      /\ policyLock' \in {"free"} \union Uploads \union Purges
      /\ faults' \in 0 .. MaxFaults
  <2>1. MaxFaults \in Nat
    BY ArtifactAssumption
  <2>2. QED
    BY <1>1, <2>1
    DEF purgeDataLifecycle, InspectPurge, quarantine, CommitPurge, FailPurge, RemoveMoved,
        LeaveMoved, Cascades, Unlocks, ArtifactTypeOK
<1>7. UNCHANGED <<clock, dated, uploads, scans, deletions, policy, leaving>>
    BY DEF purgeDataLifecycle, InspectPurge, quarantine, CommitPurge, FailPurge, RemoveMoved,
           LeaveMoved, KeepsPurge
<1>8. ArtifactTypeOK'
    BY <1>1, <1>5, <1>6, <1>7 DEF ArtifactTypeOK
<1>9. QED
    BY <1>2, <1>3, <1>4, <1>7, <1>8, RowsMakeTypes DEF Registered

LEMMA ThreadIsTyped ==
    ASSUME Registered, NEW t \in Threads, deleteThread(t)
    PROVE  Registered'
<1>1. ArtifactTypeOK
    BY PreviewIsTyped
<1>2. leaving \in [Threads -> [pc : {"none", "seen", "emptied", "done"}, runs : SUBSET Runs]]
    BY DEF Registered, LifecycleTypeOK
<1>3. leaving' \in [Threads -> [pc : {"none", "seen", "emptied", "done"}, runs : SUBSET Runs]]
    BY <1>2 DEF deleteThread, CancelRuns, RemoveDirectories, DropThread, Leaves, RunsOf
<1>4. files' \subseteq Copy /\ made' \subseteq Runs \X Places
    BY <1>1 DEF deleteThread, CancelRuns, RemoveDirectories, DropThread, ArtifactTypeOK
<1>5. /\ threads' \subseteq Threads
      /\ runs' \in [Runs -> {"absent", "active", "terminal", "gone"}]
      /\ rows' \in [Artifacts -> {"none", "live", "deleted", "gone"}]
    BY <1>1 DEF deleteThread, CancelRuns, RemoveDirectories, DropThread, Cascades, ArtifactTypeOK
<1>6. UNCHANGED <<clock, dated, uploads, scans, deletions, policyLock, policy, faults, previews, purges>>
    BY DEF deleteThread, CancelRuns, RemoveDirectories, DropThread, KeepsLeaving
<1>7. ArtifactTypeOK'
    BY <1>1, <1>4, <1>5, <1>6 DEF ArtifactTypeOK
<1>8. QED
    BY <1>3, <1>6, <1>7, RowsMakeTypes DEF Registered, LifecycleTypeOK

LEMMA CrashIsTyped ==
    ASSUME Registered, CrashFiles
    PROVE  Registered'
<1>1. ArtifactTypeOK
    BY PreviewIsTyped
<1>2. MaxFaults \in Nat
    BY ArtifactAssumption
<1>3. ArtifactTypeOK'
    BY <1>1, <1>2 DEF CrashFiles, ArtifactTypeOK
<1>4. /\ leaving' \in [Threads -> [pc : {"none", "seen", "emptied", "done"}, runs : SUBSET Runs]]
      /\ purges' \in [Purges -> [pc : PurgePlaces, preview : 0 .. MaxPreviews]]
    BY DEF CrashFiles, Registered, LifecycleTypeOK, PurgePlaces
<1>5. QED
    BY <1>3, <1>4, RowsMakeTypes DEF CrashFiles, Registered

LEMMA PreviewsAreTyped ==
    ASSUME Registered,
           createDataLifecyclePreview \/ (\E hold \in BOOLEAN : updateSiteDataLifecyclePolicy(hold))
    PROVE  Registered'
<1>1. ArtifactTypeOK /\ LifecycleTypeOK
    BY PreviewIsTyped
<1>2. /\ FirstVersion \in Nat /\ MaxVersions \in Nat /\ MaxPreviews \in Nat
      /\ FirstVersion <= MaxVersions
    BY ArtifactAssumption, LifecycleAssumption
<1>3. CASE createDataLifecyclePreview
  <2> DEFINE new == [version |-> policy.version, cutoff |-> clock, purged |-> FALSE,
                     items |-> findLifecycleCandidates(clock)]
  <2>1. findLifecycleCandidates(clock) \in SUBSET Item
    BY <1>1, CandidatesAreItems
  <2>2. policy.version \in 1 .. MaxVersions /\ clock \in 0 .. MaxClock
    BY <1>1, <1>2, <1>3 DEF createDataLifecyclePreview, Registered, ArtifactTypeOK
  <2>3. new \in Preview
    BY <2>1, <2>2 DEF Preview
  <2>4. previews' = Append(previews, new) /\ Len(previews) < MaxPreviews
        /\ UNCHANGED <<purges, leaving, policy>>
    BY <1>3 DEF createDataLifecyclePreview
  <2> HIDE DEF new
  <2>5. previews' \in Seq(Preview) /\ Len(previews') <= MaxPreviews
    BY <1>2, <2>3, <2>4 DEF Registered
  <2>6. ArtifactTypeOK'
    BY <1>1, <1>3 DEF createDataLifecyclePreview, KeepsData, ArtifactTypeOK
  <2>7. QED
    BY <1>1, <2>4, <2>5, <2>6, RowsMakeTypes DEF Registered, LifecycleTypeOK
<1>4. ASSUME NEW hold \in BOOLEAN, updateSiteDataLifecyclePolicy(hold)
      PROVE  Registered'
  <2>1. policy' = [version |-> policy.version + 1, hold |-> hold] /\ policy.version < MaxVersions
    BY <1>4 DEF updateSiteDataLifecyclePolicy
  <2>2. ArtifactTypeOK'
    BY <1>1, <1>4, <2>1 DEF updateSiteDataLifecyclePolicy, KeepsData, ArtifactTypeOK
  <2>3. policy'.version \in FirstVersion .. MaxVersions
    BY <1>2, <2>1 DEF Registered
  <2>4. UNCHANGED <<previews, purges, leaving>>
    BY <1>4 DEF updateSiteDataLifecyclePolicy
  <2>5. QED
    BY <1>1, <2>2, <2>3, <2>4, RowsMakeTypes DEF Registered, LifecycleTypeOK
<1>5. QED
    BY <1>3, <1>4

-----------------------------------------------------------------------------
(* What holds the policy *)

\* Steps that leave requests, previews and the policy alone.
LEMMA PolicyIsIndifferent ==
    ASSUME PolicyIInv, Registered',
           UNCHANGED <<deletions, policyLock, policy, purges, previews>>
    PROVE  PolicyIInv'
BY DEF PolicyIInv, PurgeLocks, PurgeNames, DeletionLocks, PreviewPurgesOnce, InPurge, Purged

LEMMA DeletionKeepsPolicy ==
    ASSUME PolicyIInv, NEW u \in Uploads, deleteArtifactEverywhere(u), UNCHANGED <<previews, purges, leaving>>
    PROVE  PolicyIInv'
<1>1. Registered'
    BY DeletionIsTyped, PreviewIsTyped, RowsMakeTypes
    DEF PolicyIInv, Registered, LifecycleTypeOK, deleteArtifactEverywhere, QuarantineArtifact,
        CommitDeletion, FailDeletion, restoreFiles, RemoveAside, LeaveAside, KeepsDeletion
<1>2. policy' = policy /\ deletions \in [Uploads -> {"none", "quarantined", "restoring", "committed",
                                                    "pending", "failed", "done"}]
    BY DEF deleteArtifactEverywhere, QuarantineArtifact, CommitDeletion, FailDeletion, restoreFiles,
           RemoveAside, LeaveAside, KeepsDeletion, PolicyIInv, Registered, LifecycleTypeOK, ArtifactTypeOK
<1>3. /\ u # "free" /\ u \notin Purges /\ FirstVersion \in Nat /\ "free" \notin Purges
      /\ policy.version \in Nat /\ policy.version >= FirstVersion
    BY ArtifactAssumption, LifecycleAssumption DEF PolicyIInv, Registered
<1>4. CASE QuarantineArtifact(u)
  <2>1. /\ policyLock = "free" /\ ~policy.hold
        /\ policyLock' = (IF policy.version > 0 THEN u ELSE "free")
        /\ deletions' = [deletions EXCEPT ![u] = "quarantined"]
    BY <1>4 DEF QuarantineArtifact, LocksPolicy, Deletes
  <2>2. \A p \in Purges : ~InPurge(p)
    BY <1>3, <2>1 DEF PolicyIInv, PurgeLocks
  <2>3. \A v \in Uploads : DeletionLocks(v)'
    <3> SUFFICES ASSUME NEW v \in Uploads, deletions'[v] = "quarantined", FirstVersion > 0
                 PROVE  policyLock' = v /\ ~policy'.hold
      BY DEF DeletionLocks
    <3>1. v # "free"
      BY ArtifactAssumption
    <3>2. v = u
      BY <1>2, <2>1, <3>1 DEF PolicyIInv, DeletionLocks
    <3>3. QED
      BY <1>2, <1>3, <2>1, <3>2
  <2>4. \A p \in Purges : PurgeLocks(p)' /\ PurgeNames(p)'
    BY <2>2 DEF PolicyIInv, PurgeLocks, PurgeNames, InPurge, Purged
  <2>5. QED
    BY <1>1, <2>3, <2>4 DEF PolicyIInv, PreviewPurgesOnce
<1>5. CASE ~QuarantineArtifact(u)
  <2>1. /\ policyLock' = policyLock \/ (policyLock = u /\ policyLock' = "free" /\ deletions'[u] # "quarantined")
        /\ deletions'[u] # "quarantined"
        /\ \A v \in Uploads : v # u => deletions'[v] = deletions[v]
    BY <1>2, <1>5
    DEF deleteArtifactEverywhere, CommitDeletion, FailDeletion, restoreFiles, RemoveAside,
        LeaveAside, Unlocks, Deletes
  <2>2. \A p \in Purges : PurgeLocks(p)' /\ PurgeNames(p)'
    BY <1>2, <1>3, <2>1 DEF PolicyIInv, PurgeLocks, PurgeNames, InPurge, Purged
  <2>3. \A v \in Uploads : DeletionLocks(v)'
    BY <1>2, <2>1 DEF PolicyIInv, DeletionLocks
  <2>4. QED
    BY <1>1, <2>2, <2>3 DEF PolicyIInv, PreviewPurgesOnce
<1>6. QED
    BY <1>4, <1>5

LEMMA PreviewsKeepPolicy ==
    ASSUME PolicyIInv,
           createDataLifecyclePreview \/ (\E hold \in BOOLEAN : updateSiteDataLifecyclePolicy(hold))
    PROVE  PolicyIInv'
<1>1. Registered'
    BY PreviewsAreTyped DEF PolicyIInv
<1>2. policyLock = "free" /\ UNCHANGED <<deletions, policyLock, purges>>
    BY DEF createDataLifecyclePreview, updateSiteDataLifecyclePolicy, KeepsData
<1>3. "free" \notin Purges /\ "free" \notin Uploads
    BY ArtifactAssumption
<1>4. \A i \in DOMAIN previews : i \in DOMAIN previews' /\ previews'[i] = previews[i]
  <2>1. previews \in Seq(Preview) /\ DOMAIN previews = 1 .. Len(previews) /\ Len(previews) \in Nat
    BY PreviewIsTyped DEF PolicyIInv, Registered
  <2>2. previews' = previews \/ \E new : previews' = Append(previews, new)
    BY DEF createDataLifecyclePreview, updateSiteDataLifecyclePolicy
  <2>3. QED
    BY <2>1, <2>2
<1>5. \A p \in Purges : ~InPurge(p)
    BY <1>2, <1>3 DEF PolicyIInv, PurgeLocks
<1>6. \A u \in Uploads : DeletionLocks(u)'
    BY <1>2, <1>3 DEF PolicyIInv, DeletionLocks
<1>7. \A p \in Purges : PurgeLocks(p)' /\ PurgeNames(p)'
    BY <1>2, <1>4, <1>5 DEF PolicyIInv, PurgeLocks, PurgeNames, InPurge, Purged
<1>8. QED
    BY <1>1, <1>2, <1>6, <1>7 DEF PolicyIInv, PreviewPurgesOnce

\* What each step of a purge does to its row.
LEMMA PurgeMoves ==
    ASSUME Registered, NEW p \in Purges, purgeDataLifecycle(p)
    PROVE  /\ \A q \in Purges : q # p => purges'[q] = purges[q]
           /\ \/ /\ InspectPurge(p) /\ purges[p].pc = "none" /\ purges'[p].pc = "inspected"
                 /\ previews' = previews
              \/ /\ quarantine(p) /\ purges[p].pc = "inspected" /\ purges'[p].pc = "moved"
                 /\ UNCHANGED <<previews, policyLock>>
              \/ /\ CommitPurge(p) /\ purges[p].pc = "moved" /\ purges'[p].pc = "committed"
              \/ /\ FailPurge(p) /\ InPurge(p) /\ purges'[p].pc = "failed"
                 /\ previews' = previews
              \/ /\ FailPurge(p) /\ purges[p].pc = "moved" /\ purges'[p].pc = "restoring"
                 /\ previews' = previews
              \/ /\ FailPurge(p) /\ purges[p].pc = "restoring" /\ purges'[p].pc = "undone"
                 /\ previews' = previews
              \/ /\ RemoveMoved(p) \/ LeaveMoved(p)
                 /\ purges[p].pc = "committed" /\ purges'[p].pc \in {"pending", "done"}
                 /\ UNCHANGED <<previews, policyLock>>
           /\ ~InspectPurge(p) => purges'[p].preview = purges[p].preview
           /\ InspectPurge(p) \/ UNCHANGED policyLock \/ (Unlocks(p) /\ ~InPurge(p)')
           /\ UNCHANGED <<deletions, policy>>
<1>1. purges \in [Purges -> [pc : PurgePlaces, preview : 0 .. MaxPreviews]]
    BY DEF Registered, LifecycleTypeOK
<1>2. QED
    BY <1>1
    DEF purgeDataLifecycle, InspectPurge, quarantine, CommitPurge, FailPurge, RemoveMoved,
        LeaveMoved, Purge, KeepsPurge, InPurge

LEMMA PurgeKeepsPolicy ==
    ASSUME PolicyIInv, NEW p \in Purges, purgeDataLifecycle(p)
    PROVE  PolicyIInv'
<1>1. Registered /\ purges[p].pc # "none" => purges[p].preview \in DOMAIN previews
    BY DEF PolicyIInv, PurgeNames
<1>2. Registered'
    BY <1>1, PurgeIsTyped DEF PolicyIInv
<1>3. p # "free" /\ p \notin Uploads /\ "free" \notin Purges \union Uploads
    BY ArtifactAssumption
<1>4. /\ \A q \in Purges : q # p => purges'[q] = purges[q]
      /\ UNCHANGED <<deletions, policy>>
    BY PurgeMoves DEF PolicyIInv
<1>5. CASE InspectPurge(p)
  <2>1. PICK i \in DOMAIN previews :
            /\ purges[p].pc = "none" /\ policyLock = "free"
            /\ PreviewOpen(i) /\ assertPurgeManifest(i)
            /\ purges' = [purges EXCEPT ![p] = [pc |-> "inspected", preview |-> i]]
            /\ policyLock' = p /\ previews' = previews
    BY <1>5 DEF InspectPurge
  <2>2. purges'[p] = [pc |-> "inspected", preview |-> i]
    BY <2>1 DEF PolicyIInv, Registered, LifecycleTypeOK
  <2>3. \A q \in Purges : ~InPurge(q)
    BY <1>3, <2>1 DEF PolicyIInv, PurgeLocks
  <2>4. PurgeLocks(p)' /\ PurgeNames(p)'
    BY <1>4, <2>1, <2>2 DEF PurgeLocks, PurgeNames, InPurge, Purged, PreviewOpen, assertPurgeManifest
  <2>5. \A q \in Purges : PurgeLocks(q)' /\ PurgeNames(q)'
    BY <1>4, <2>1, <2>3, <2>4 DEF PolicyIInv, PurgeLocks, PurgeNames, InPurge, Purged
  <2>6. \A u \in Uploads : DeletionLocks(u)'
    BY <1>3, <1>4, <2>1 DEF PolicyIInv, DeletionLocks
  <2>7. PreviewPurgesOnce'
    BY <1>4, <2>2 DEF PolicyIInv, PreviewPurgesOnce
  <2>8. QED
    BY <1>2, <2>5, <2>6, <2>7 DEF PolicyIInv
<1>6. CASE CommitPurge(p)
  <2>1. /\ purges[p].pc = "moved" /\ purges'[p].pc = "committed"
        /\ purges'[p].preview = purges[p].preview /\ Unlocks(p)
        /\ previews' = [previews EXCEPT ![purges[p].preview].purged = TRUE]
    BY <1>6 DEF CommitPurge, Purge, PolicyIInv, Registered, LifecycleTypeOK
  <2>2. /\ policyLock = p /\ ~previews[purges[p].preview].purged
        /\ purges[p].preview \in DOMAIN previews
    BY <1>1, <2>1 DEF PolicyIInv, PurgeLocks, InPurge
  <2>3. \A q \in Purges : InPurge(q) => q = p
    BY <2>2 DEF PolicyIInv, PurgeLocks
  <2>4. /\ DOMAIN previews' = DOMAIN previews
        /\ \A i \in DOMAIN previews : previews[i].purged => previews'[i].purged
        /\ previews'[purges[p].preview].purged
    <3>1. previews \in Seq(Preview) /\ previews[purges[p].preview] \in Preview
      BY <2>2, PreviewIsTyped DEF PolicyIInv, Registered
    <3>2. QED
      BY <2>1, <2>2, <3>1 DEF Preview
  <2>5. \A q \in Purges : ~InPurge(q)'
    BY <1>4, <2>1, <2>3 DEF InPurge
  <2>6. \A q \in Purges : PurgeLocks(q)' /\ PurgeNames(q)'
    BY <1>4, <2>1, <2>2, <2>4, <2>5 DEF PolicyIInv, PurgeLocks, PurgeNames, Purged
  <2>7. \A u \in Uploads : DeletionLocks(u)'
    BY <1>3, <1>4, <2>1, <2>2 DEF PolicyIInv, DeletionLocks
  <2>8. PreviewPurgesOnce'
    BY <1>4, <2>1, <2>2 DEF PolicyIInv, PreviewPurgesOnce, PurgeNames, Purged
  <2>9. QED
    BY <1>2, <2>6, <2>7, <2>8 DEF PolicyIInv
<1>7. CASE ~InspectPurge(p) /\ ~CommitPurge(p)
  <2>1. /\ purges'[p].preview = purges[p].preview /\ previews' = previews
        /\ InPurge(p)' => InPurge(p) /\ policyLock' = policyLock
        /\ Purged(p)' <=> Purged(p)
        /\ purges[p].pc # "none"
        /\ policyLock' \in {policyLock, "free"}
        /\ policyLock' # policyLock => policyLock = p
    BY <1>7, PurgeMoves DEF InPurge, Purged, PolicyIInv, Unlocks
  <2>2. \A q \in Purges : PurgeLocks(q)' /\ PurgeNames(q)'
    BY <1>1, <1>4, <2>1 DEF PolicyIInv, PurgeLocks, PurgeNames, InPurge, Purged
  <2>3. \A u \in Uploads : DeletionLocks(u)'
    BY <1>3, <1>4, <2>1 DEF PolicyIInv, DeletionLocks
  <2>4. PreviewPurgesOnce'
    BY <1>4, <2>1 DEF PolicyIInv, PreviewPurgesOnce, Purged
  <2>5. QED
    BY <1>2, <2>2, <2>3, <2>4 DEF PolicyIInv
<1>8. QED
    BY <1>5, <1>6, <1>7

LEMMA CrashKeepsPolicy ==
    ASSUME PolicyIInv, CrashFiles
    PROVE  PolicyIInv'
<1>1. Registered'
    BY CrashIsTyped DEF PolicyIInv
<1>2. purges \in [Purges -> [pc : PurgePlaces, preview : 0 .. MaxPreviews]]
    BY DEF PolicyIInv, Registered, LifecycleTypeOK
<1>3. ASSUME NEW p \in Purges
      PROVE  /\ purges'[p].pc \notin {"inspected", "moved"}
             /\ purges'[p].pc \in {"committed", "pending", "done"} =>
                   purges[p].pc \in {"committed", "pending", "done"}
             /\ purges'[p].preview = purges[p].preview
             /\ purges'[p].pc # "none" => purges[p].pc # "none"
    BY <1>2 DEF CrashFiles
<1>4. \A u \in Uploads : deletions'[u] # "quarantined"
    BY DEF CrashFiles, PolicyIInv, Registered, LifecycleTypeOK, ArtifactTypeOK
<1>5. UNCHANGED previews
    BY DEF CrashFiles
<1>6. \A p \in Purges : PurgeLocks(p)' /\ PurgeNames(p)'
    BY <1>3, <1>5 DEF PolicyIInv, PurgeLocks, PurgeNames, InPurge, Purged
<1>7. PreviewPurgesOnce'
  <2>1. PreviewPurgesOnce
    BY DEF PolicyIInv
  <2>2. QED
    BY <1>3, <2>1 DEF PreviewPurgesOnce, Purged
<1>8. QED
    BY <1>1, <1>4, <1>6, <1>7 DEF PolicyIInv, DeletionLocks

LEMMA PolicyInitially == LifecycleInit => PolicyIInv
<1> SUFFICES ASSUME LifecycleInit PROVE PolicyIInv
    OBVIOUS
<1>1. /\ FirstVersion \in Nat /\ MaxClock \in Nat /\ MaxFaults \in Nat /\ MaxPreviews \in Nat
      /\ MaxVersions \in Nat /\ FirstVersion <= MaxVersions
    BY ArtifactAssumption, LifecycleAssumption
<1>2. ArtifactTypeOK
    BY <1>1 DEF LifecycleInit, ArtifactInit, ArtifactTypeOK
<1>3. LifecycleTypeOK
    BY <1>1, <1>2 DEF LifecycleInit, LifecycleTypeOK, PurgePlaces
<1>4. Registered
    BY <1>1, <1>3 DEF LifecycleInit, ArtifactInit, Registered
<1>5. QED
    BY <1>4 DEF LifecycleInit, ArtifactInit, PolicyIInv, PurgeLocks, PurgeNames, InPurge, Purged,
                DeletionLocks, PreviewPurgesOnce

LEMMA PolicyNext == PolicyIInv /\ [LifecycleNext]_lifecycleVars => PolicyIInv'
<1> SUFFICES ASSUME PolicyIInv, [LifecycleNext]_lifecycleVars PROVE PolicyIInv'
    OBVIOUS
<1>1. Registered /\ LifecycleTypeOK
    BY PreviewIsTyped DEF PolicyIInv
<1>2. ASSUME ArtifactTypeOK', UNCHANGED <<deletions, policyLock, policy, purges, previews, leaving>>
      PROVE  PolicyIInv'
  <2>1. Registered'
    BY <1>1, <1>2, RowsMakeTypes DEF Registered, LifecycleTypeOK
  <2>2. QED
    BY <1>2, <2>1, PolicyIsIndifferent
<1>3. ASSUME NEW u \in Uploads, depositInputFile(u), UNCHANGED <<previews, purges, leaving>>
      PROVE  PolicyIInv'
  <2>1. UNCHANGED <<deletions, policyLock, policy>>
    BY <1>3 DEF depositInputFile, AdmitInput, writeFileWithHash, StageInput, InsertInput, RefuseInput,
                KeepsUpload
  <2>2. QED
    BY <1>1, <1>2, <1>3, <2>1, DepositIsTyped
<1>4. ASSUME NEW s \in Scans, scanOutputArtifacts(s), UNCHANGED <<previews, purges, leaving>>
      PROVE  PolicyIInv'
  <2>1. UNCHANGED <<deletions, policyLock, policy>>
    BY <1>4 DEF scanOutputArtifacts, ListOutputs, CopyOutput, InsertOutput, RefuseOutput, KeepsScan
  <2>2. QED
    BY <1>1, <1>2, <1>4, <2>1, ScanIsTyped
<1>5. ASSUME Tick \/ (\E r \in Runs : createRunForThread(r) \/ EndRun(r)),
             UNCHANGED <<previews, purges, leaving>>
      PROVE  PolicyIInv'
  <2>1. UNCHANGED <<deletions, policyLock, policy>>
    BY <1>5 DEF Tick, createRunForThread, EndRun, KeepsFiles
  <2>2. QED
    BY <1>1, <1>2, <1>5, <2>1, RunsAreTyped
<1>6. ASSUME NEW t \in Threads, deleteThread(t) PROVE PolicyIInv'
  <2>1. UNCHANGED <<deletions, policyLock, policy, purges, previews>>
    BY <1>6 DEF deleteThread, CancelRuns, RemoveDirectories, DropThread, KeepsLeaving
  <2>2. QED
    BY <1>1, <1>6, <2>1, ThreadIsTyped, PolicyIsIndifferent
<1>7. CASE UNCHANGED lifecycleVars
  <2>1. UNCHANGED storeVars
    BY <1>7 DEF lifecycleVars
  <2>2. ArtifactTypeOK'
    BY <1>1, <2>1 DEF storeVars, LifecycleTypeOK, ArtifactTypeOK
  <2>3. UNCHANGED <<deletions, policyLock, policy, purges, previews, leaving>>
    BY <1>7 DEF lifecycleVars, storeVars
  <2>4. QED
    BY <1>2, <2>2, <2>3
<1>8. QED
    BY <1>3, <1>4, <1>5, <1>6, <1>7, DeletionKeepsPolicy, PreviewsKeepPolicy, PurgeKeepsPolicy,
       CrashKeepsPolicy
    DEF LifecycleNext, StoreNext

LEMMA PolicyIsInductive == LifecycleSpec => []PolicyIInv
BY PolicyInitially, PolicyNext, PTL DEF LifecycleSpec

\* A hold set between the inspection of a purge, or of a deletion, and its commit has to
\* wait, since the row of the policy is locked meanwhile (purgeDataLifecycle,
\* deleteArtifactEverywhere).
THEOREM PolicyStaysFollowed == LifecycleSpec => PolicyIsFollowed
<1>1. ASSUME PolicyIInv, [LifecycleNext]_lifecycleVars, NEW p \in Purges, Commits(p)
      PROVE  /\ ~policy.hold /\ policy' = policy
             /\ policy.version = previews[purges[p].preview].version
  <2>1. PurgeLocks(p) /\ InPurge(p)
    BY <1>1 DEF PolicyIInv, Commits, InPurge
  <2>2. policy' = policy
    <3>1. policyLock # "free"
      BY <2>1, ArtifactAssumption DEF PurgeLocks
    <3>2. QED
      BY <1>1, <3>1
      DEF LifecycleNext, lifecycleVars, storeVars, StoreNext, Tick, createRunForThread, EndRun,
          KeepsFiles, depositInputFile, AdmitInput, writeFileWithHash, StageInput, InsertInput,
          RefuseInput, KeepsUpload, scanOutputArtifacts, ListOutputs, CopyOutput, InsertOutput,
          RefuseOutput, KeepsScan, deleteArtifactEverywhere, QuarantineArtifact, CommitDeletion,
          FailDeletion, restoreFiles, RemoveAside, LeaveAside, KeepsDeletion,
          updateSiteDataLifecyclePolicy, createDataLifecyclePreview, purgeDataLifecycle,
          InspectPurge, quarantine, CommitPurge, FailPurge, RemoveMoved, LeaveMoved, KeepsPurge,
          deleteThread, CancelRuns, RemoveDirectories, DropThread, KeepsLeaving, CrashFiles
  <2>3. QED
    BY <2>1, <2>2 DEF PurgeLocks
<1>2. ASSUME PolicyIInv, NEW u \in Uploads, deletions[u] = "quarantined", FirstVersion > 0
      PROVE  ~policy.hold
    BY <1>2 DEF PolicyIInv, DeletionLocks
<1>3. PolicyIInv /\ [LifecycleNext]_lifecycleVars =>
          /\ [\A p \in Purges : Commits(p) =>
                /\ ~policy.hold /\ policy' = policy
                /\ policy.version = previews[purges[p].preview].version]_lifecycleVars
          /\ [\A u \in Uploads :
                deletions[u] = "quarantined" /\ deletions'[u] = "committed" /\ FirstVersion > 0
                => ~policy.hold]_lifecycleVars
    BY <1>1, <1>2
<1>4. QED
    BY <1>3, PolicyIsInductive, PTL
    DEF LifecycleSpec, PolicyIsFollowed, PurgeFollowsPolicy, DeletionFollowsHold

\* Two requests for the same preview never both purge (purgeDataLifecycle).
THEOREM PurgesAreOnce == LifecycleSpec => [](LifecycleTypeOK /\ PreviewPurgesOnce)
<1>1. PolicyIInv => LifecycleTypeOK /\ PreviewPurgesOnce
    BY DEF PolicyIInv, Registered
<1>2. QED
    BY <1>1, PolicyIsInductive, PTL

-----------------------------------------------------------------------------
(* Files *)

\* Within a run every input file has a name of its own.
OneFilePerName ==
    \A u, v \in Uploads : RunOf[u] = RunOf[v] /\ NameOf[u] = NameOf[v] => u = v

NameFor(a) == IF a \in Uploads THEN NameOf[a] ELSE a

\* Which file a copy is of, by its path, and where it may be by then.
Placed(c) ==
    /\ runs[c.run] # "absent"
    /\ c.of \in Artifacts => c.run = RunOf[c.of] /\ c.name = NameFor(c.of)
    /\ c.of \in Runs => c.place = "work" /\ c.name = "out"
    /\ c.of \in Scans => c.place = "private" /\ scans[c.of] \notin {"none", "known", "new"}
    /\ c.of \in Uploads =>
          /\ uploads[c.of] \notin {"none", "admitted"}
          /\ c.place = "work" => uploads[c.of] # "written"
    /\ c.aside # "free" => c.of = c.aside

PurgeFailed == \E p \in Purges : GaveUp(p)

\* The directories it has moved may come back.
MayRestore(p) == purges[p].pc \in {"moved", "restoring"}

\* A copy that a deletion has moved: it comes back with a failure, unless a purge has
\* moved it farther.
SetAside(c) ==
    c.aside # "free" =>
        /\ deletions[c.aside] # "none"
        /\ deletions[c.aside] = "failed" /\ faults = 0 =>
              c.moved # "free" \/ PurgeFailed \/ ~Stored(c.run)

\* Another purge has moved, or is moving, the directory that was made in its place.
MovedAgain(c) ==
    \E q \in Purges \ {c.moved} :
        \/ GaveUp(q)
        \/ MayRestore(q) /\ c.run \in Planned(q)

Left(c) == leaving[ThreadOf[c.run]].runs # {}

\* A copy that a purge has moved: it comes back with a failure, unless the directory was
\* made anew, and goes with its run otherwise.
MovedAway(c) ==
    c.moved # "free" =>
        /\ purges[c.moved].pc \notin {"none", "inspected"} /\ c.run \in Planned(c.moved)
        /\ MayRestore(c.moved) \/ GaveUp(c.moved) \/ ~Stored(c.run)
        /\ GaveUp(c.moved) /\ Stored(c.run) /\ faults = 0 /\ ~Left(c) =>
              <<c.run, c.place>> \in made \/ MovedAgain(c)

\* A copy of what is deleted is where nobody reads it, and no purge is to bring it back
\* but one whose COMMIT has failed.
OutOfReach(c) ==
    c.of \in Uploads /\ (rows[c.of] = "deleted" \/ deletions[c.of] = "quarantined") =>
        c.aside = c.of \/ (c.moved # "free" /\ purges[c.moved].pc # "moved") \/ Undone(c.run)

Fine(c) == Placed(c) /\ SetAside(c) /\ MovedAway(c) /\ OutOfReach(c)

\* A file has one copy in each place.
Alone ==
    \A c, d \in files : c.of \in Artifacts /\ c.of = d.of /\ c.place = d.place => c = d

\* What will need its bytes.
Depositing(a) ==
    \/ a \in Uploads /\ uploads[a] \in {"written", "staged"}
    \/ a \in Scans /\ scans[a] = "copied"

Owed(a) ==
    /\ rows[a] = "live" \/ Depositing(a)
    /\ Stored(RunOf[a]) /\ leaving[ThreadOf[RunOf[a]]].runs = {}

KeptInv == \A a \in Artifacts : Owed(a) => \E c \in files : PrivateCopy(c, a)

\* What the rows say of one another.
UploadRow(u) ==
    /\ uploads[u] # "none" => runs[RunOf[u]] # "absent"
    /\ uploads[u] # "done" => rows[u] = "none"
    /\ rows[u] = "deleted" => deletions[u] \in {"committed", "pending", "done"}
    /\ deletions[u] \in {"committed", "pending", "done"} => rows[u] \in {"deleted", "gone"}
    /\ deletions[u] = "quarantined" => rows[u] = "live"

ScanRow(s) ==
    /\ scans[s] # "none" => runs[RunOf[s]] # "absent"
    /\ scans[s] # "done" => rows[s] = "none"

RowsInv ==
    /\ \A a \in Artifacts : rows[a] = "live" => Stored(RunOf[a])
    /\ \A u \in Uploads : UploadRow(u)
    /\ \A s \in Scans : ScanRow(s)

\* What was listed before the files are moved.
Listed(item) == \A r \in item.runs : ThreadOf[r] = item.thread /\ runs[r] # "absent"

ListedInv ==
    /\ \A i \in DOMAIN previews : \A item \in previews[i].items : Listed(item)
    /\ \A t \in Threads : \A r \in leaving[t].runs : ThreadOf[r] = t

CopiesInv == (\A c \in files : Fine(c)) /\ Alone /\ KeptInv

FilesIInv == PolicyIInv /\ ListedInv /\ RowsInv /\ CopiesInv

-----------------------------------------------------------------------------
(* What no step takes back *)

RunsLast ==
    \A r \in Runs : runs[r] # "absent" => runs'[r] # "absent" /\ (Stored(r)' => Stored(r))

PurgesLast ==
    \A p \in Purges :
        /\ GaveUp(p) => purges'[p].pc = purges[p].pc
        /\ purges[p].pc # "none" => Planned(p)' = Planned(p)
        /\ purges[p].pc \notin {"none", "inspected"} => purges'[p].pc \notin {"none", "inspected"}
        /\ purges'[p].pc = "moved" => purges[p].pc \in {"inspected", "moved"}

RequestsLast ==
    /\ \A u \in Uploads :
          /\ uploads[u] \notin {"none", "admitted"} => uploads'[u] \notin {"none", "admitted"}
          /\ uploads[u] \notin {"none", "admitted", "written"} =>
                uploads'[u] \notin {"none", "admitted", "written"}
          /\ deletions[u] # "none" => deletions'[u] # "none"
    /\ \A s \in Scans :
          scans[s] \notin {"none", "known", "new"} => scans'[s] \notin {"none", "known", "new"}

\* A conversation that has a run is not emptied unnoticed.
LeavingLasts ==
    \A r \in Runs : Stored(r) /\ leaving'[ThreadOf[r]].runs = {} => leaving[ThreadOf[r]].runs = {}

Lasts == RunsLast /\ PurgesLast /\ RequestsLast /\ LeavingLasts /\ (faults' = 0 => faults = 0)

LEMMA RunsGoOn == ASSUME PolicyIInv, LifecycleNext PROVE RunsLast
<1>1. runs \in [Runs -> {"absent", "active", "terminal", "gone"}]
    BY DEF PolicyIInv, Registered, LifecycleTypeOK, ArtifactTypeOK
<1>2. CASE UNCHANGED runs
    BY <1>2 DEF RunsLast, Stored
<1>3. ASSUME NEW r \in Runs, createRunForThread(r) \/ EndRun(r) PROVE RunsLast
    BY <1>1, <1>3 DEF createRunForThread, EndRun, RunsLast, Stored
<1>4. ASSUME NEW T, Cascades(T) PROVE RunsLast
    BY <1>1, <1>4 DEF Cascades, RunsLast, Stored
<1>5. ASSUME NEW t \in Threads, CancelRuns(t) PROVE RunsLast
    BY <1>1, <1>5 DEF CancelRuns, RunsLast, Stored
<1>6. QED
    BY <1>2, <1>3, <1>4, <1>5
    DEF LifecycleNext, StoreNext, Tick, depositInputFile, AdmitInput, writeFileWithHash, StageInput,
        InsertInput, RefuseInput, KeepsUpload, scanOutputArtifacts, ListOutputs, CopyOutput,
        InsertOutput, RefuseOutput, KeepsScan, deleteArtifactEverywhere, QuarantineArtifact,
        CommitDeletion, FailDeletion, restoreFiles, RemoveAside, LeaveAside, KeepsDeletion,
        updateSiteDataLifecyclePolicy, createDataLifecyclePreview, KeepsData, purgeDataLifecycle,
        InspectPurge, quarantine, CommitPurge, FailPurge, RemoveMoved, LeaveMoved,
        deleteThread, RemoveDirectories, DropThread, CrashFiles

LEMMA PurgesGoOn == ASSUME PolicyIInv, LifecycleNext PROVE PurgesLast
<1>1. /\ Registered /\ DOMAIN previews = 1 .. Len(previews) /\ Len(previews) \in Nat
      /\ \A i \in DOMAIN previews : previews[i] \in Preview
      /\ \A p \in Purges : purges[p].pc # "none" => purges[p].preview \in DOMAIN previews
      /\ purges \in [Purges -> [pc : PurgePlaces, preview : 0 .. MaxPreviews]]
    BY PreviewIsTyped DEF PolicyIInv, PurgeNames, LifecycleTypeOK
<1>2. \A i \in DOMAIN previews : i \in DOMAIN previews' /\ previews'[i].items = previews[i].items
  <2>1. \/ previews' = previews
        \/ \E new : previews' = Append(previews, new)
        \/ \E p \in Purges : CommitPurge(p)
    BY DEF LifecycleNext, createDataLifecyclePreview, purgeDataLifecycle, InspectPurge, quarantine,
           FailPurge, RemoveMoved, LeaveMoved, updateSiteDataLifecyclePolicy, deleteThread,
           CancelRuns, RemoveDirectories, DropThread, KeepsLeaving, CrashFiles
  <2>2. ASSUME NEW new, previews' = Append(previews, new)
        PROVE  \A i \in DOMAIN previews : i \in DOMAIN previews' /\ previews'[i] = previews[i]
    <3>1. previews \in Seq(Preview)
      BY <1>1 DEF Registered
    <3>2. QED
      BY <1>1, <2>2, <3>1
  <2>3. ASSUME NEW p \in Purges, CommitPurge(p)
        PROVE  \A i \in DOMAIN previews : i \in DOMAIN previews' /\ previews'[i].items = previews[i].items
    <3>1. previews' = [previews EXCEPT ![purges[p].preview].purged = TRUE]
      BY <2>3 DEF CommitPurge
    <3>2. previews \in Seq(Preview)
      BY <1>1 DEF Registered
    <3>3. QED
      BY <1>1, <3>1, <3>2 DEF Preview
  <2>4. QED
    BY <2>1, <2>2, <2>3
<1>3. ASSUME NEW p \in Purges, purges[p].pc # "none", purges'[p].preview = purges[p].preview
      PROVE  Planned(p)' = Planned(p)
    BY <1>1, <1>2, <1>3 DEF Planned
<1>4. CASE UNCHANGED purges
    BY <1>3, <1>4 DEF PurgesLast
<1>5. ASSUME NEW p \in Purges, purgeDataLifecycle(p) PROVE PurgesLast
  <2>1. /\ \A q \in Purges : q # p => purges'[q] = purges[q]
        /\ purges[p].pc # "none" => purges'[p].preview = purges[p].preview
        /\ ~GaveUp(p)
        /\ purges[p].pc \notin {"none", "inspected"} => purges'[p].pc \notin {"none", "inspected"}
        /\ purges'[p].pc = "moved" => purges[p].pc \in {"inspected", "moved"}
    BY <1>1, <1>5, PurgeMoves DEF InspectPurge, InPurge, GaveUp
  <2>2. QED
    BY <1>3, <2>1 DEF PurgesLast
<1>6. CASE CrashFiles
  <2>1. ASSUME NEW p \in Purges
        PROVE  /\ purges'[p].preview = purges[p].preview
               /\ GaveUp(p) => purges'[p].pc = purges[p].pc
               /\ purges[p].pc \notin {"none", "inspected"} => purges'[p].pc \notin {"none", "inspected"}
               /\ purges'[p].pc # "moved"
    BY <1>1, <1>6 DEF CrashFiles, GaveUp
  <2>2. QED
    BY <1>3, <2>1 DEF PurgesLast
<1>7. QED
    BY <1>4, <1>5, <1>6
    DEF LifecycleNext, createDataLifecyclePreview, updateSiteDataLifecyclePolicy, deleteThread,
        CancelRuns, RemoveDirectories, DropThread, KeepsLeaving

LEMMA RequestsGoOn == ASSUME PolicyIInv, LifecycleNext PROVE RequestsLast
<1>1. /\ uploads \in [Uploads -> {"none", "admitted", "written", "staged", "done", "refused"}]
      /\ scans \in [Scans -> {"none", "known", "new", "copied", "done", "refused"}]
      /\ deletions \in [Uploads -> {"none", "quarantined", "restoring", "committed", "pending",
                                    "failed", "done"}]
    BY DEF PolicyIInv, Registered, LifecycleTypeOK, ArtifactTypeOK
<1>2. CASE UNCHANGED <<uploads, scans, deletions>>
    BY <1>2 DEF RequestsLast
<1>3. ASSUME NEW u \in Uploads, depositInputFile(u) PROVE RequestsLast
    BY <1>1, <1>3
    DEF depositInputFile, AdmitInput, writeFileWithHash, StageInput, InsertInput, RefuseInput,
        KeepsUpload, UploadGoes, RequestsLast
<1>4. ASSUME NEW s \in Scans, scanOutputArtifacts(s) PROVE RequestsLast
    BY <1>1, <1>4
    DEF scanOutputArtifacts, ListOutputs, CopyOutput, InsertOutput, RefuseOutput, KeepsScan,
        ScanGoes, RequestsLast
<1>5. ASSUME NEW u \in Uploads, deleteArtifactEverywhere(u) PROVE RequestsLast
    BY <1>1, <1>5
    DEF deleteArtifactEverywhere, QuarantineArtifact, CommitDeletion, FailDeletion, restoreFiles,
        RemoveAside, LeaveAside, KeepsDeletion, Deletes, RequestsLast
<1>6. CASE CrashFiles
    BY <1>1, <1>6 DEF CrashFiles, RequestsLast
<1>7. QED
    BY <1>2, <1>3, <1>4, <1>5, <1>6
    DEF LifecycleNext, StoreNext, Tick, createRunForThread, EndRun, KeepsFiles,
        updateSiteDataLifecyclePolicy, createDataLifecyclePreview, KeepsData, purgeDataLifecycle,
        InspectPurge, quarantine, CommitPurge, FailPurge, RemoveMoved, LeaveMoved, KeepsPurge,
        deleteThread, CancelRuns, RemoveDirectories, DropThread, KeepsLeaving

LEMMA LeavingGoesOn == ASSUME PolicyIInv, LifecycleNext PROVE LeavingLasts
<1>1. /\ leaving \in [Threads -> [pc : {"none", "seen", "emptied", "done"}, runs : SUBSET Runs]]
      /\ ThreadOf \in [Runs -> Threads]
    BY ArtifactAssumption DEF PolicyIInv, Registered, LifecycleTypeOK
<1>2. CASE UNCHANGED leaving
    BY <1>2 DEF LeavingLasts
<1>3. ASSUME NEW t \in Threads, deleteThread(t) PROVE LeavingLasts
  <2>1. CASE CancelRuns(t)
    <3>1. leaving' = [leaving EXCEPT ![t] = [pc |-> "seen", runs |-> RunsOf(t)]]
      BY <2>1 DEF CancelRuns
    <3>2. \A r \in Runs : ThreadOf[r] = t /\ Stored(r) => RunsOf(t) # {}
      BY DEF RunsOf
    <3>3. QED
      BY <1>1, <3>1, <3>2 DEF LeavingLasts
  <2>2. CASE RemoveDirectories(t) \/ DropThread(t)
    BY <1>1, <2>2 DEF RemoveDirectories, DropThread, Leaves, LeavingLasts
  <2>3. QED
    BY <1>3, <2>1, <2>2 DEF deleteThread
<1>4. CASE CrashFiles
    BY <1>1, <1>4 DEF CrashFiles, LeavingLasts
<1>5. QED
    BY <1>2, <1>3, <1>4
    DEF LifecycleNext, updateSiteDataLifecyclePolicy, createDataLifecyclePreview, purgeDataLifecycle,
        InspectPurge, quarantine, CommitPurge, FailPurge, RemoveMoved, LeaveMoved, KeepsPurge

LEMMA StepsLast == ASSUME PolicyIInv, LifecycleNext PROVE Lasts
<1>1. faults \in 0 .. MaxFaults
    BY DEF PolicyIInv, Registered, LifecycleTypeOK, ArtifactTypeOK
<1>2. faults' = faults \/ faults' = faults + 1
    BY DEF LifecycleNext, StoreNext, Tick, createRunForThread, EndRun, KeepsFiles,
        depositInputFile, AdmitInput, writeFileWithHash, StageInput,
        InsertInput, RefuseInput, KeepsUpload, scanOutputArtifacts, ListOutputs, CopyOutput,
        InsertOutput, RefuseOutput, KeepsScan, deleteArtifactEverywhere, QuarantineArtifact,
        CommitDeletion, FailDeletion, restoreFiles, RemoveAside, LeaveAside,
        updateSiteDataLifecyclePolicy, createDataLifecyclePreview, purgeDataLifecycle,
        InspectPurge, quarantine, CommitPurge, FailPurge, RemoveMoved, LeaveMoved,
        deleteThread, CancelRuns, RemoveDirectories, DropThread, KeepsLeaving, CrashFiles
<1>3. faults' = 0 => faults = 0
    BY <1>1, <1>2
<1>4. QED
    BY <1>3, RunsGoOn, PurgesGoOn, RequestsGoOn, LeavingGoesOn DEF Lasts
-----------------------------------------------------------------------------
(* Rows *)

LEMMA WhatIsTyped ==
    ASSUME PolicyIInv
    PROVE  /\ runs \in [Runs -> {"absent", "active", "terminal", "gone"}]
           /\ rows \in [Artifacts -> {"none", "live", "deleted", "gone"}]
           /\ uploads \in [Uploads -> {"none", "admitted", "written", "staged", "done", "refused"}]
           /\ scans \in [Scans -> {"none", "known", "new", "copied", "done", "refused"}]
           /\ deletions \in [Uploads -> {"none", "quarantined", "restoring", "committed", "pending",
                                         "failed", "done"}]
           /\ purges \in [Purges -> [pc : PurgePlaces, preview : 0 .. MaxPreviews]]
           /\ leaving \in [Threads -> [pc : {"none", "seen", "emptied", "done"}, runs : SUBSET Runs]]
           /\ files \subseteq Copy /\ made \subseteq Runs \X Places /\ faults \in Nat
           /\ DOMAIN previews = 1 .. Len(previews) /\ Len(previews) \in Nat
           /\ \A i \in DOMAIN previews : previews[i] \in Preview
<1>1. Registered
    BY DEF PolicyIInv
<1>2. QED
    BY <1>1, PreviewIsTyped DEF Registered, LifecycleTypeOK, ArtifactTypeOK

\* What a removal takes is not being deleted: its transaction waits for the other.
LEMMA CascadesKeepRows ==
    ASSUME PolicyIInv, RowsInv, NEW T, Cascades(T), UNCHANGED <<uploads, scans, deletions>>,
           \A r \in Runs : ThreadOf[r] \in T /\ Stored(r) => RunFree(r)
    PROVE  RowsInv'
<1>1. /\ runs \in [Runs -> {"absent", "active", "terminal", "gone"}]
      /\ rows \in [Artifacts -> {"none", "live", "deleted", "gone"}]
      /\ RunOf \in [Artifacts -> Runs] /\ Uploads \subseteq Artifacts /\ Scans \subseteq Artifacts
    BY WhatIsTyped, ArtifactAssumption DEF Artifacts
<1>2. \A a \in Artifacts : rows'[a] = "live" => Stored(RunOf[a])'
    BY <1>1 DEF Cascades, RowsInv, Stored
<1>3. ASSUME NEW u \in Uploads PROVE UploadRow(u)'
  <2>1. UploadRow(u)
    BY DEF RowsInv
  <2>2. deletions[u] = "quarantined" => rows[u] = "live" /\ Stored(RunOf[u])
    BY <1>1, <2>1 DEF RowsInv, UploadRow
  <2>3. deletions[u] = "quarantined" => ThreadOf[RunOf[u]] \notin T
    BY <1>1, <2>2 DEF RunFree
  <2>4. QED
    BY <1>1, <2>1, <2>2, <2>3 DEF Cascades, UploadRow, Stored
<1>4. ASSUME NEW s \in Scans PROVE ScanRow(s)'
    BY <1>1 DEF Cascades, RowsInv, ScanRow, Stored
<1>5. QED
    BY <1>2, <1>3, <1>4 DEF RowsInv

LEMMA RowsNext == ASSUME PolicyIInv, RowsInv, LifecycleNext PROVE RowsInv'
<1>1. /\ runs \in [Runs -> {"absent", "active", "terminal", "gone"}]
      /\ rows \in [Artifacts -> {"none", "live", "deleted", "gone"}]
      /\ uploads \in [Uploads -> {"none", "admitted", "written", "staged", "done", "refused"}]
      /\ scans \in [Scans -> {"none", "known", "new", "copied", "done", "refused"}]
      /\ deletions \in [Uploads -> {"none", "quarantined", "restoring", "committed", "pending",
                                    "failed", "done"}]
      /\ RunOf \in [Artifacts -> Runs] /\ Uploads \subseteq Artifacts /\ Scans \subseteq Artifacts
      /\ Uploads \intersect Scans = {}
    BY WhatIsTyped, ArtifactAssumption DEF Artifacts
<1>2. CASE UNCHANGED <<runs, rows, uploads, scans, deletions>>
    BY <1>2 DEF RowsInv, UploadRow, ScanRow, Stored
<1>3. ASSUME \/ \E r \in Runs : createRunForThread(r) \/ EndRun(r)
             \/ \E t \in Threads : CancelRuns(t)
      PROVE  RowsInv'
  <2>1. UNCHANGED <<rows, uploads, scans, deletions>>
    BY <1>3 DEF createRunForThread, EndRun, KeepsFiles, CancelRuns, KeepsLeaving
  <2>2. \A q \in Runs : (Stored(q) => Stored(q)') /\ (runs[q] # "absent" => runs'[q] # "absent")
    <3>1. CASE \E r \in Runs : createRunForThread(r) \/ EndRun(r)
      BY <1>1, <3>1 DEF createRunForThread, EndRun, Stored
    <3>2. CASE \E t \in Threads : CancelRuns(t)
      BY <1>1, <3>2 DEF CancelRuns, Stored
    <3>3. QED
      BY <1>3, <3>1, <3>2
  <2>3. \A a \in Artifacts : rows'[a] = "live" => Stored(RunOf[a])'
    BY <1>1, <2>1, <2>2 DEF RowsInv
  <2>4. QED
    BY <1>1, <2>1, <2>2, <2>3 DEF RowsInv, UploadRow, ScanRow
<1>4. ASSUME NEW u \in Uploads, depositInputFile(u) PROVE RowsInv'
  <2>1. UNCHANGED <<runs, scans, deletions>>
    BY <1>4 DEF depositInputFile, AdmitInput, writeFileWithHash, StageInput, InsertInput, RefuseInput,
                KeepsUpload
  <2>2. /\ \A v \in Uploads \ {u} : uploads'[v] = uploads[v]
        /\ uploads'[u] # "none"
        /\ uploads[u] = "none" => Stored(RunOf[u])
        /\ uploads[u] # "done"
        /\ \/ rows' = rows /\ uploads'[u] # "done"
           \/ rows' = [rows EXCEPT ![u] = "live"] /\ uploads'[u] = "done" /\ Stored(RunOf[u])
    BY <1>1, <1>4 DEF depositInputFile, AdmitInput, writeFileWithHash, StageInput, InsertInput,
                      RefuseInput, KeepsUpload, UploadGoes
  <2>3. UploadRow(u)'
    BY <1>1, <2>1, <2>2 DEF RowsInv, UploadRow, Stored
  <2>4. \A v \in Uploads \ {u} : UploadRow(v)'
    BY <1>1, <2>1, <2>2 DEF RowsInv, UploadRow
  <2>5. \A s \in Scans : ScanRow(s)'
    BY <1>1, <2>1, <2>2 DEF RowsInv, ScanRow
  <2>6. \A a \in Artifacts : rows'[a] = "live" => Stored(RunOf[a])'
    BY <1>1, <2>1, <2>2 DEF RowsInv, Stored
  <2>7. QED
    BY <2>3, <2>4, <2>5, <2>6 DEF RowsInv
<1>5. ASSUME NEW s \in Scans, scanOutputArtifacts(s) PROVE RowsInv'
  <2>1. UNCHANGED <<runs, uploads, deletions>>
    BY <1>5 DEF scanOutputArtifacts, ListOutputs, CopyOutput, InsertOutput, RefuseOutput, KeepsScan
  <2>2. /\ \A v \in Scans \ {s} : scans'[v] = scans[v]
        /\ scans[s] = "none" => Stored(RunOf[s])
        /\ scans[s] # "done"
        /\ \/ rows' = rows
           \/ rows' = [rows EXCEPT ![s] = "live"] /\ scans'[s] = "done" /\ Stored(RunOf[s])
    BY <1>1, <1>5
    DEF scanOutputArtifacts, ListOutputs, CopyOutput, InsertOutput, RefuseOutput, KeepsScan, ScanGoes,
        Stored
  <2>3. ScanRow(s)'
    BY <1>1, <2>1, <2>2 DEF RowsInv, ScanRow, Stored
  <2>4. \A v \in Scans \ {s} : ScanRow(v)'
    BY <1>1, <2>1, <2>2 DEF RowsInv, ScanRow
  <2>5. \A v \in Uploads : UploadRow(v)'
    BY <1>1, <2>1, <2>2 DEF RowsInv, UploadRow
  <2>6. \A a \in Artifacts : rows'[a] = "live" => Stored(RunOf[a])'
    BY <1>1, <2>1, <2>2 DEF RowsInv, Stored
  <2>7. QED
    BY <2>3, <2>4, <2>5, <2>6 DEF RowsInv
<1>6. ASSUME NEW u \in Uploads, deleteArtifactEverywhere(u) PROVE RowsInv'
  <2>1. UNCHANGED <<runs, uploads, scans>>
    BY <1>6 DEF deleteArtifactEverywhere, QuarantineArtifact, CommitDeletion, FailDeletion,
                restoreFiles, RemoveAside, LeaveAside, KeepsDeletion
  <2>2. /\ \A v \in Uploads \ {u} : deletions'[v] = deletions[v]
        /\ \/ /\ rows' = rows
              /\ \/ deletions[u] = "none" /\ deletions'[u] = "quarantined" /\ rows[u] = "live"
                 \/ deletions[u] \in {"quarantined", "restoring"} /\ deletions'[u] \in {"restoring", "failed"}
                 \/ deletions[u] = "committed" /\ deletions'[u] \in {"pending", "done"}
           \/ /\ deletions[u] = "quarantined" /\ deletions'[u] = "committed"
              /\ rows' = [rows EXCEPT ![u] = "deleted"]
    BY <1>1, <1>6
    DEF deleteArtifactEverywhere, QuarantineArtifact, CommitDeletion, FailDeletion, restoreFiles,
        RemoveAside, LeaveAside, KeepsDeletion, Deletes
  <2>3. UploadRow(u)'
    BY <1>1, <2>1, <2>2 DEF RowsInv, UploadRow
  <2>4. \A v \in Uploads \ {u} : UploadRow(v)'
    BY <1>1, <2>1, <2>2 DEF RowsInv, UploadRow
  <2>5. \A s \in Scans : ScanRow(s)'
    BY <1>1, <2>1, <2>2 DEF RowsInv, ScanRow
  <2>6. \A a \in Artifacts : rows'[a] = "live" => Stored(RunOf[a])'
    BY <1>1, <2>1, <2>2 DEF RowsInv, Stored
  <2>7. QED
    BY <2>3, <2>4, <2>5, <2>6 DEF RowsInv
<1>7. ASSUME NEW p \in Purges, CommitPurge(p) PROVE RowsInv'
    BY <1>7, CascadesKeepRows DEF CommitPurge, KeepsPurge
<1>8. ASSUME NEW t \in Threads, DropThread(t) PROVE RowsInv'
    BY <1>8, CascadesKeepRows DEF DropThread, KeepsLeaving, RunsOf
<1>9. CASE CrashFiles
    BY <1>1, <1>9 DEF CrashFiles, RowsInv, UploadRow, ScanRow, Stored
<1>10. QED
  <2>1. CASE StoreNext
    BY <1>2, <1>3, <1>4, <1>5, <1>6, <2>1 DEF StoreNext, Tick, KeepsFiles
  <2>2. ASSUME NEW p \in Purges, purgeDataLifecycle(p) PROVE RowsInv'
    BY <1>2, <1>7, <2>2
    DEF purgeDataLifecycle, InspectPurge, quarantine, FailPurge, RemoveMoved, LeaveMoved, KeepsPurge
  <2>3. ASSUME NEW t \in Threads, deleteThread(t) PROVE RowsInv'
    BY <1>2, <1>3, <1>8, <2>3 DEF deleteThread, RemoveDirectories, KeepsLeaving
  <2>4. QED
    BY <1>2, <1>9, <2>1, <2>2, <2>3
    DEF LifecycleNext, updateSiteDataLifecyclePolicy, createDataLifecyclePreview, KeepsData

-----------------------------------------------------------------------------
(* Lists *)

\* What a preview lists are the runs of its conversations.
LEMMA CandidatesAreListed ==
    ASSUME NEW cutoff
    PROVE  \A item \in findLifecycleCandidates(cutoff) : Listed(item)
<1> DEFINE Entry(t) == [thread |-> t, runs |-> RunsOf(t), activity |-> Activity(t),
                        rows |-> UNION {Live(r, Artifacts) : r \in RunsOf(t)}]
           Chosen == {u \in threads : /\ RunsOf(u) # {}
                                      /\ \A r \in RunsOf(u) : runs[r] = "terminal"
                                      /\ Activity(u) < cutoff}
<1>1. findLifecycleCandidates(cutoff) = {Entry(t) : t \in Chosen}
    BY DEF findLifecycleCandidates
<1>2. \A t \in Chosen : Entry(t).thread = t /\ Entry(t).runs = RunsOf(t)
    OBVIOUS
<1> HIDE DEF Entry, Chosen
<1>3. \A t : \A r \in RunsOf(t) : ThreadOf[r] = t /\ runs[r] # "absent"
    BY DEF RunsOf, Stored
<1>4. QED
    BY <1>1, <1>2, <1>3 DEF Listed

LEMMA ListedNext == ASSUME PolicyIInv, ListedInv, LifecycleNext, RunsLast PROVE ListedInv'
<1>1. /\ \A i \in DOMAIN previews : previews[i] \in Preview
      /\ DOMAIN previews = 1 .. Len(previews) /\ Len(previews) \in Nat
      /\ leaving \in [Threads -> [pc : {"none", "seen", "emptied", "done"}, runs : SUBSET Runs]]
      /\ previews \in Seq(Preview)
    BY WhatIsTyped DEF PolicyIInv, Registered
<1>2. ASSUME NEW item \in Item, Listed(item) PROVE Listed(item)'
  <2>1. item.runs \subseteq Runs
    BY DEF Item
  <2>2. QED
    BY <1>2, <2>1 DEF Listed, RunsLast
<1>3. \A i \in DOMAIN previews : \A item \in previews[i].items : item \in Item /\ Listed(item)'
    BY <1>1, <1>2 DEF ListedInv, Preview
<1>4. \A i \in DOMAIN previews' : \A item \in previews'[i].items : Listed(item)'
  <2>1. CASE UNCHANGED previews
    BY <1>3, <2>1
  <2>2. CASE createDataLifecyclePreview
    <3> DEFINE new == [version |-> policy.version, cutoff |-> clock, purged |-> FALSE,
                       items |-> findLifecycleCandidates(clock)]
    <3>1. previews' = Append(previews, new) /\ runs' = runs
      BY <2>2 DEF createDataLifecyclePreview, KeepsData
    <3>2. new.items = findLifecycleCandidates(clock)
      OBVIOUS
    <3> HIDE DEF new
    <3>3. \A item \in new.items : Listed(item)'
      BY <3>1, <3>2, CandidatesAreListed DEF Listed
    <3>4. \A i \in DOMAIN previews' : (i \in DOMAIN previews /\ previews'[i] = previews[i]) \/ previews'[i] = new
      BY <1>1, <3>1
    <3>5. QED
      BY <1>3, <3>3, <3>4
  <2>3. ASSUME NEW p \in Purges, CommitPurge(p)
        PROVE  \A i \in DOMAIN previews' : \A item \in previews'[i].items : Listed(item)'
    <3>1. previews' = [previews EXCEPT ![purges[p].preview].purged = TRUE]
      BY <2>3 DEF CommitPurge
    <3>2. DOMAIN previews' = DOMAIN previews
      BY <1>1, <3>1
    <3>3. \A i \in DOMAIN previews : previews'[i].items = previews[i].items
      BY <1>1, <3>1 DEF Preview
    <3>4. QED
      BY <1>3, <3>2, <3>3
  <2>4. QED
    BY <2>1, <2>2, <2>3
    DEF LifecycleNext, purgeDataLifecycle, InspectPurge, quarantine, FailPurge, RemoveMoved,
        LeaveMoved, updateSiteDataLifecyclePolicy, deleteThread, CancelRuns, RemoveDirectories,
        DropThread, KeepsLeaving, CrashFiles
<1>5. \A t \in Threads : \A r \in leaving'[t].runs : ThreadOf[r] = t
  <2>1. CASE UNCHANGED leaving
    BY <2>1 DEF ListedInv
  <2>2. ASSUME NEW u \in Threads, deleteThread(u)
        PROVE  \A t \in Threads : \A r \in leaving'[t].runs : ThreadOf[r] = t
    <3>1. \A t \in Threads : leaving'[t].runs \in {leaving[t].runs, RunsOf(t)}
      BY <1>1, <2>2 DEF deleteThread, CancelRuns, RemoveDirectories, DropThread, Leaves
    <3>2. \A t : \A r \in RunsOf(t) : ThreadOf[r] = t
      BY DEF RunsOf
    <3>3. QED
      BY <3>1, <3>2 DEF ListedInv
  <2>3. CASE CrashFiles
    BY <1>1, <2>3 DEF CrashFiles, ListedInv
  <2>4. QED
    BY <2>1, <2>2, <2>3
    DEF LifecycleNext, updateSiteDataLifecyclePolicy, createDataLifecyclePreview, purgeDataLifecycle,
        InspectPurge, quarantine, CommitPurge, FailPurge, RemoveMoved, LeaveMoved, KeepsPurge
<1>6. QED
    BY <1>4, <1>5 DEF ListedInv
-----------------------------------------------------------------------------
(* A copy that stays *)

\* The parts of a copy.
LEMMA CopyParts ==
    ASSUME NEW c \in Copy
    PROVE  /\ c.run \in Runs /\ c.place \in Places /\ c.of \in Artifacts \union Runs
           /\ c.aside \in Uploads \union {"free"} /\ c.moved \in Purges \union {"free"}
           /\ "free" \notin Uploads \union Purges
           /\ Uploads \subseteq Artifacts /\ Scans \subseteq Artifacts
           /\ ThreadOf[c.run] \in Threads
BY ArtifactAssumption DEF Copy, Artifacts

LEMMA PlacedStays ==
    ASSUME Lasts, NEW c \in Copy, Placed(c)
    PROVE  Placed(c)'
<1>1. c.run \in Runs /\ runs'[c.run] # "absent"
    BY CopyParts DEF Placed, Lasts, RunsLast
<1>2. c.of \in Scans => scans'[c.of] \notin {"none", "known", "new"}
    BY DEF Placed, Lasts, RequestsLast
<1>3. c.of \in Uploads => /\ uploads'[c.of] \notin {"none", "admitted"}
                          /\ c.place = "work" => uploads'[c.of] # "written"
    BY DEF Placed, Lasts, RequestsLast
<1>4. QED
    BY <1>1, <1>2, <1>3 DEF Placed

LEMMA SetAsideStays ==
    ASSUME Lasts, NEW c \in Copy, Placed(c), SetAside(c),
           c.aside # "free" /\ deletions'[c.aside] = "failed" /\ faults' = 0 =>
              deletions[c.aside] = "failed"
    PROVE  SetAside(c)'
<1>1. c.aside # "free" => c.aside \in Uploads /\ deletions'[c.aside] # "none"
    BY CopyParts DEF SetAside, Lasts, RequestsLast
<1>2. PurgeFailed => PurgeFailed'
    BY DEF PurgeFailed, GaveUp, Lasts, PurgesLast
<1>3. Stored(c.run)' => Stored(c.run)
    BY CopyParts DEF Placed, Lasts, RunsLast
<1>4. QED
    BY <1>1, <1>2, <1>3 DEF SetAside, Lasts

\* As long as no purge takes a step, the copies that purges have moved stay away.
LEMMA MovedStays ==
    ASSUME Lasts, NEW c \in Copy, Placed(c), MovedAway(c), UNCHANGED purges,
           <<c.run, c.place>> \in made => <<c.run, c.place>> \in made' \/ Left(c)'
    PROVE  MovedAway(c)'
<1>1. /\ c.run \in Runs /\ (c.moved # "free" => c.moved \in Purges)
      /\ Stored(c.run)' => Stored(c.run)
    BY CopyParts DEF Placed, Lasts, RunsLast
<1>2. \A q \in Purges : purges[q].pc # "none" => Planned(q)' = Planned(q)
    BY DEF Lasts, PurgesLast
<1>3. Stored(c.run)' /\ ~Left(c)' => ~Left(c)
    BY <1>1 DEF Left, Lasts, LeavingLasts
<1>4. MovedAgain(c) => MovedAgain(c)'
    BY <1>2 DEF MovedAgain, GaveUp, MayRestore
<1>5. QED
    BY <1>1, <1>2, <1>3, <1>4 DEF MovedAway, GaveUp, MayRestore, Lasts

LEMMA ReachStays ==
    ASSUME Lasts, NEW c \in Copy, Placed(c), MovedAway(c), OutOfReach(c),
           c.of \in Uploads /\ (rows'[c.of] = "deleted" \/ deletions'[c.of] = "quarantined") =>
               rows[c.of] = "deleted" \/ deletions[c.of] = "quarantined"
    PROVE  OutOfReach(c)'
<1>1. c.moved # "free" => c.moved \in Purges
    BY CopyParts
<1>2. c.moved # "free" /\ purges[c.moved].pc # "moved" => purges'[c.moved].pc # "moved"
    BY <1>1 DEF MovedAway, Lasts, PurgesLast
<1>3. Undone(c.run) => Undone(c.run)'
    BY DEF Undone, GaveUp, Lasts, PurgesLast
<1>4. QED
    BY <1>2, <1>3 DEF OutOfReach

\* A step that neither purges, deletes nor stops leaves the copies as they were.
LEMMA FineStays ==
    ASSUME Lasts, NEW c \in Copy, Fine(c), UNCHANGED <<purges, deletions>>, made \subseteq made',
           \A u \in Uploads : rows'[u] = "deleted" => rows[u] = "deleted"
    PROVE  Fine(c)'
<1>1. Placed(c) /\ SetAside(c) /\ MovedAway(c) /\ OutOfReach(c)
    BY DEF Fine
<1>2. Placed(c)' /\ SetAside(c)' /\ MovedAway(c)'
    BY <1>1, PlacedStays, SetAsideStays, MovedStays
<1>3. OutOfReach(c)'
    BY <1>1, ReachStays
<1>4. QED
    BY <1>2, <1>3 DEF Fine
-----------------------------------------------------------------------------
(* Paths *)

\* What a request finds at the path of its file is its file.
LEMMA PathsAreOwn ==
    ASSUME OneFilePerName, NEW c \in Copy, Placed(c)
    PROVE  /\ \A u \in Uploads, place \in Places : c \in InputPath(u, place) => c.of = u
           /\ \A s \in Scans : c \in At(RunOf[s], s, "private") => c.of = s
           /\ \A u \in Uploads : c.of = u /\ c.aside = "free" /\ c.moved = "free" /\ c \in files =>
                 c \in InputPath(u, c.place)
           /\ \A s \in Scans : c.of = s => c.place = "private"
<1>1. /\ c.of \in Artifacts \union Runs
      /\ Uploads \intersect Scans = {} /\ Runs \intersect Artifacts = {}
      /\ \A u \in Uploads : NameOf[u] \notin Scans /\ NameOf[u] # "out"
      /\ Artifacts = Uploads \union Scans
    BY CopyParts, ArtifactAssumption DEF Artifacts
<1>2. ASSUME NEW u \in Uploads, NEW place \in Places, c \in InputPath(u, place) PROVE c.of = u
  <2>1. c.run = RunOf[u] /\ c.name = NameOf[u]
    BY <1>2 DEF InputPath, At
  <2>2. CASE c.of \in Uploads
    BY <1>1, <2>1, <2>2 DEF Placed, NameFor, OneFilePerName
  <2>3. QED
    BY <1>1, <2>1, <2>2 DEF Placed, NameFor
<1>3. ASSUME NEW s \in Scans, c \in At(RunOf[s], s, "private") PROVE c.of = s
    BY <1>1, <1>3 DEF At, Placed, NameFor
<1>4. ASSUME NEW u \in Uploads, c.of = u, c.aside = "free", c.moved = "free", c \in files
      PROVE  c \in InputPath(u, c.place)
    BY <1>1, <1>4 DEF InputPath, At, Placed, NameFor
<1>5. ASSUME NEW s \in Scans, c.of = s PROVE c.place = "private"
    BY <1>5 DEF Placed
<1>6. QED
    BY <1>2, <1>3, <1>4, <1>5

\* Nothing is owed that was not owed before, except what a request has just written.
LEMMA OwedBefore ==
    ASSUME PolicyIInv, RowsInv, Lasts, NEW a \in Artifacts, Owed(a)', rows[a] = "live" \/ Depositing(a)
    PROVE  Owed(a)
<1>1. RunOf[a] \in Runs /\ Uploads \subseteq Artifacts /\ Scans \subseteq Artifacts
    BY ArtifactAssumption DEF Artifacts
<1>2. runs[RunOf[a]] # "absent"
    BY <1>1 DEF RowsInv, UploadRow, ScanRow, Depositing, Stored
<1>3. Stored(RunOf[a])
    BY <1>1, <1>2 DEF Owed, Lasts, RunsLast
<1>4. leaving[ThreadOf[RunOf[a]]].runs = {}
    BY <1>1, <1>3 DEF Owed, Lasts, LeavingLasts
<1>5. QED
    BY <1>3, <1>4 DEF Owed

LEMMA KeptStays ==
    ASSUME PolicyIInv, RowsInv, KeptInv, Lasts,
           \A a \in Artifacts : Owed(a)' =>
              \/ \E d \in files' : PrivateCopy(d, a)
              \/ /\ rows[a] = "live" \/ Depositing(a)
                 /\ \A c \in files : PrivateCopy(c, a) => \E d \in files' : PrivateCopy(d, a)
    PROVE  KeptInv'
<1>1. ASSUME NEW a \in Artifacts, Owed(a)' PROVE \E d \in files' : PrivateCopy(d, a)
  <2>1. CASE rows[a] = "live" \/ Depositing(a)
    <3>1. \E c \in files : PrivateCopy(c, a)
      BY <1>1, <2>1, OwedBefore DEF KeptInv
    <3>2. QED
      BY <1>1, <3>1
  <2>2. QED
    BY <1>1, <2>1
<1>2. QED
    BY <1>1 DEF KeptInv

\* A step that leaves the files alone.
LEMMA FilesUntouched ==
    ASSUME PolicyIInv, RowsInv, CopiesInv, Lasts, files' = files,
           \A c \in files : Fine(c) => Fine(c)',
           \A a \in Artifacts : Owed(a)' => rows[a] = "live" \/ Depositing(a)
    PROVE  CopiesInv'
<1>1. (\A c \in files' : Fine(c)') /\ Alone'
    BY DEF CopiesInv, Alone
<1>2. KeptInv'
    BY KeptStays DEF CopiesInv
<1>3. QED
    BY <1>1, <1>2 DEF CopiesInv

-----------------------------------------------------------------------------
(* The deposit of an input *)

LEMMA DepositKeepsCopies ==
    ASSUME OneFilePerName, FilesIInv, Lasts, NEW u \in Uploads, depositInputFile(u),
           UNCHANGED <<purges, leaving>>
    PROVE  CopiesInv'
<1>1. /\ PolicyIInv /\ RowsInv /\ CopiesInv /\ KeptInv /\ Alone
      /\ \A c \in files : c \in Copy /\ Fine(c) /\ Placed(c)
      /\ uploads \in [Uploads -> {"none", "admitted", "written", "staged", "done", "refused"}]
      /\ rows \in [Artifacts -> {"none", "live", "deleted", "gone"}]
      /\ u \in Artifacts /\ u \notin Scans /\ u \notin Runs /\ RunOf[u] \in Runs /\ "free" \notin Uploads
    BY WhatIsTyped, ArtifactAssumption DEF FilesIInv, CopiesInv, Fine, Artifacts
<1>2. UNCHANGED <<runs, scans, deletions, policyLock, policy, faults>> /\ made \subseteq made'
    BY DEF depositInputFile, AdmitInput, writeFileWithHash, StageInput, InsertInput, RefuseInput,
           KeepsUpload
<1>3. /\ \A v \in Uploads \ {u} : uploads'[v] = uploads[v]
      /\ rows' = rows \/ (rows' = [rows EXCEPT ![u] = "live"] /\ uploads[u] = "staged")
    BY <1>1
    DEF depositInputFile, AdmitInput, writeFileWithHash, StageInput, InsertInput, RefuseInput, UploadGoes
<1>4. \A c \in files : Fine(c)'
  <2>1. \A v \in Uploads : rows'[v] = "deleted" => rows[v] = "deleted"
    BY <1>1, <1>3 DEF Artifacts
  <2>2. QED
    BY <1>1, <1>2, <2>1, FineStays
<1>5. \A a \in Artifacts \ {u} : Owed(a)' => rows[a] = "live" \/ Depositing(a)
    BY <1>1, <1>2, <1>3 DEF Owed, Depositing
<1>6. \A c \in files : c.of = u => uploads[u] \notin {"none", "admitted"}
    BY <1>1 DEF Placed
<1>7. \A place \in Places : \A c \in InputPath(u, place) : c \in files /\ c.of = u
  <2>1. \A place : InputPath(u, place) \subseteq files
    BY DEF InputPath, At
  <2>2. QED
    BY <1>1, <2>1, PathsAreOwn
<1>8. uploads[u] # "done" => rows[u] = "none" /\ deletions[u] # "quarantined"
    BY <1>1 DEF RowsInv, UploadRow
<1>9. CASE AdmitInput(u) \/ InsertInput(u)
  <2>1. files' = files
    BY <1>9 DEF AdmitInput, InsertInput
  <2>2. Owed(u)' => rows[u] = "live" \/ Depositing(u)
    BY <1>1, <1>8, <1>9 DEF AdmitInput, InsertInput, UploadGoes, Owed, Depositing
  <2>3. QED
    BY <1>1, <1>4, <1>5, <2>1, <2>2, FilesUntouched
<1>10. CASE writeFileWithHash(u)
  <2> DEFINE new == Saved(RunOf[u], NameOf[u], "private", u)
  <2>1. uploads[u] = "admitted"
    BY <1>10 DEF writeFileWithHash, UploadGoes
  <2>2. InputPath(u, "private") = {}
    BY <1>6, <1>7, <2>1 DEF Places
  <2>3. files' = files \union {new} /\ uploads'[u] = "written" /\ rows' = rows
    BY <1>1, <1>10, <2>2 DEF writeFileWithHash, UploadGoes
  <2>4. /\ new.run = RunOf[u] /\ new.name = NameOf[u] /\ new.place = "private" /\ new.of = u
        /\ new.aside = "free" /\ new.moved = "free"
    BY DEF Saved
  <2> HIDE DEF new
  <2>5. runs[RunOf[u]] # "absent"
    BY <1>1, <2>1 DEF RowsInv, UploadRow
  <2>6. Fine(new)'
    BY <1>1, <1>2, <1>8, <2>1, <2>3, <2>4, <2>5
    DEF Fine, Placed, SetAside, MovedAway, OutOfReach, NameFor
  <2>7. Alone'
    BY <1>1, <1>6, <2>1, <2>3, <2>4 DEF Alone
  <2>8. KeptInv'
    <3>1. \E d \in files' : PrivateCopy(d, u)
      BY <2>3, <2>4 DEF PrivateCopy
    <3>2. files \subseteq files'
      BY <2>3
    <3>3. QED
      BY <1>1, <1>5, <3>1, <3>2, KeptStays
  <2>9. QED
    BY <1>4, <2>3, <2>6, <2>7, <2>8 DEF CopiesInv
<1>11. ASSUME uploads'[u] = "refused", rows' = rows, uploads[u] # "done",
              \E X : files' = files \ X /\ \A c \in X : c.of = u
       PROVE  CopiesInv'
  <2>1. files' \subseteq files /\ \A c \in files : c.of # u => c \in files'
    BY <1>11
  <2>2. ~Owed(u)'
    BY <1>1, <1>8, <1>11 DEF Owed, Depositing
  <2>3. KeptInv'
    <3>1. \A a \in Artifacts \ {u} : \A c \in files : PrivateCopy(c, a) => \E d \in files' : PrivateCopy(d, a)
      BY <2>1 DEF PrivateCopy
    <3>2. QED
      BY <1>1, <1>5, <2>2, <3>1, KeptStays
  <2>4. QED
    BY <1>1, <1>4, <2>1, <2>3 DEF CopiesInv, Alone
<1>12. CASE StageInput(u)
  <2>1. uploads[u] = "written" /\ rows' = rows
    BY <1>12 DEF StageInput, UploadGoes
  <2>2. CASE files' = files \ InputPath(u, "private") /\ uploads'[u] = "refused"
    BY <1>7, <1>11, <2>1, <2>2 DEF Places
  <2> DEFINE Copied(c) == [c EXCEPT !.place = "work"]
             new == {Copied(c) : c \in InputPath(u, "private")}
  <2>3. CASE files' = (files \ InputPath(u, "work")) \union new /\ uploads'[u] = "staged"
    <3>1. \A c \in InputPath(u, "work") : c.place = "work"
      BY DEF InputPath, At
    <3>2. InputPath(u, "work") = {}
      BY <1>1, <1>7, <2>1, <3>1 DEF Placed, Places
    <3>3. \A c \in InputPath(u, "private") :
             /\ c \in files /\ c.run = RunOf[u] /\ c.name = NameOf[u] /\ c.place = "private"
             /\ c.of = u /\ c.aside = "free" /\ c.moved = "free"
      BY <1>7 DEF InputPath, At, Places
    <3>4. \A c \in InputPath(u, "private") :
             LET d == Copied(c) IN
             /\ d.run = RunOf[u] /\ d.name = NameOf[u] /\ d.place = "work"
             /\ d.of = u /\ d.aside = "free" /\ d.moved = "free"
      BY <1>1, <3>3, MovedCopies
    <3>5. \A c, d \in InputPath(u, "private") : c = d
      BY <1>1, <3>3 DEF Alone
    <3> HIDE DEF Copied
    <3>6. \A d \in new : /\ d.run = RunOf[u] /\ d.name = NameOf[u] /\ d.place = "work"
                         /\ d.of = u /\ d.aside = "free" /\ d.moved = "free"
                         /\ \A e \in new : e = d
      BY <3>4, <3>5
    <3> HIDE DEF new
    <3>7. files' = files \union new
      BY <2>3, <3>2
    <3>8. runs[RunOf[u]] # "absent"
      BY <1>1, <2>1 DEF RowsInv, UploadRow
    <3>9. ASSUME NEW d \in new PROVE Fine(d)'
      <4>1. /\ d.run = RunOf[u] /\ d.name = NameOf[u] /\ d.place = "work"
            /\ d.of = u /\ d.aside = "free" /\ d.moved = "free"
        BY <3>6
      <4>2. Placed(d)'
        BY <1>1, <1>2, <2>3, <3>8, <4>1 DEF Placed, NameFor
      <4>3. rows'[u] # "deleted" /\ deletions'[u] # "quarantined"
        BY <1>2, <1>8, <2>1
      <4>4. QED
        BY <4>1, <4>2, <4>3 DEF Fine, SetAside, MovedAway, OutOfReach
    <3>10. \A c \in files : c.of = u => c.place # "work"
      BY <1>1, <2>1 DEF Placed
    <3>11. Alone'
      BY <1>1, <3>6, <3>7, <3>10 DEF Alone
    <3>12. KeptInv'
      <4>1. Depositing(u)
        BY <2>1 DEF Depositing
      <4>2. files \subseteq files'
        BY <3>7
      <4>3. QED
        BY <1>1, <1>5, <4>1, <4>2, KeptStays
    <3>13. QED
      BY <1>4, <3>7, <3>9, <3>11, <3>12 DEF CopiesInv
  <2>4. QED
    BY <1>1, <1>12, <2>2, <2>3 DEF StageInput, UploadGoes
<1>13. CASE RefuseInput(u)
  <2>1. /\ uploads[u] = "staged" /\ rows' = rows /\ uploads'[u] = "refused"
        /\ files' = files \ (InputPath(u, "private") \union InputPath(u, "work"))
    BY <1>1, <1>13 DEF RefuseInput, UploadGoes
  <2>2. \A c \in InputPath(u, "private") \union InputPath(u, "work") : c.of = u
    BY <1>7 DEF Places
  <2>3. QED
    BY <1>11, <2>1, <2>2
<1>14. QED
    BY <1>9, <1>10, <1>12, <1>13 DEF depositInputFile
-----------------------------------------------------------------------------
(* The delivery of outputs, and the runs *)

LEMMA DeliveryKeepsCopies ==
    ASSUME OneFilePerName, FilesIInv, Lasts, NEW s \in Scans, scanOutputArtifacts(s),
           UNCHANGED <<purges, leaving>>
    PROVE  CopiesInv'
<1>1. /\ PolicyIInv /\ RowsInv /\ CopiesInv /\ KeptInv /\ Alone
      /\ \A c \in files : c \in Copy /\ Fine(c) /\ Placed(c)
      /\ scans \in [Scans -> {"none", "known", "new", "copied", "done", "refused"}]
      /\ rows \in [Artifacts -> {"none", "live", "deleted", "gone"}]
      /\ s \in Artifacts /\ s \notin Uploads /\ s \notin Runs /\ RunOf[s] \in Runs
    BY WhatIsTyped, ArtifactAssumption DEF FilesIInv, CopiesInv, Fine, Artifacts
<1>2. UNCHANGED <<runs, uploads, deletions, policyLock, policy, faults>> /\ made \subseteq made'
    BY DEF scanOutputArtifacts, ListOutputs, CopyOutput, InsertOutput, RefuseOutput, KeepsScan
<1>3. /\ \A v \in Scans \ {s} : scans'[v] = scans[v]
      /\ rows' = rows \/ (rows' = [rows EXCEPT ![s] = "live"] /\ scans[s] = "copied")
    BY <1>1 DEF scanOutputArtifacts, ListOutputs, CopyOutput, InsertOutput, RefuseOutput, ScanGoes
<1>4. \A c \in files : Fine(c)'
  <2>1. \A v \in Uploads : rows'[v] = "deleted" => rows[v] = "deleted"
    BY <1>1, <1>3 DEF Artifacts
  <2>2. QED
    BY <1>1, <1>2, <2>1, FineStays
<1>5. \A a \in Artifacts \ {s} : Owed(a)' => rows[a] = "live" \/ Depositing(a)
    BY <1>1, <1>2, <1>3 DEF Owed, Depositing
<1>6. /\ scans[s] # "done" => rows[s] = "none"
      /\ scans[s] # "none" => runs[RunOf[s]] # "absent"
    BY <1>1 DEF RowsInv, ScanRow
<1>7. CASE files' = files /\ ~CopyOutput(s)
  <2>1. Owed(s)' => rows[s] = "live" \/ Depositing(s)
    BY <1>1, <1>3, <1>7
    DEF scanOutputArtifacts, ListOutputs, InsertOutput, RefuseOutput, ScanGoes, Owed, Depositing
  <2>2. QED
    BY <1>1, <1>4, <1>5, <1>7, <2>1, FilesUntouched
<1>8. CASE CopyOutput(s)
  <2> DEFINE new == Saved(RunOf[s], s, "private", s)
  <2>1. rows' = rows /\ scans[s] \in {"known", "new"}
    BY <1>8 DEF CopyOutput, ScanGoes
  <2>2. CASE scans'[s] # "copied" /\ files' = files
    <3>1. ~Owed(s)'
      BY <1>1, <1>6, <2>1, <2>2 DEF Owed, Depositing
    <3>2. QED
      BY <1>1, <1>4, <1>5, <2>2, <3>1, FilesUntouched
  <2>3. CASE scans'[s] = "copied" /\ files' = files \union {new}
    <3>1. /\ new.run = RunOf[s] /\ new.name = s /\ new.place = "private" /\ new.of = s
          /\ new.aside = "free" /\ new.moved = "free"
      BY DEF Saved
    <3> HIDE DEF new
    <3>2. \A c \in files : c.of # s
      BY <1>1, <2>1 DEF Placed
    <3>3. Fine(new)'
      BY <1>1, <1>2, <1>6, <2>1, <2>3, <3>1
      DEF Fine, Placed, SetAside, MovedAway, OutOfReach, NameFor
    <3>4. Alone'
      BY <1>1, <2>3, <3>1, <3>2 DEF Alone
    <3>5. KeptInv'
      <4>1. \E d \in files' : PrivateCopy(d, s)
        BY <2>3, <3>1 DEF PrivateCopy
      <4>2. files \subseteq files'
        BY <2>3
      <4>3. QED
        BY <1>1, <1>5, <4>1, <4>2, KeptStays
    <3>6. QED
      BY <1>4, <2>3, <3>3, <3>4, <3>5 DEF CopiesInv
  <2>4. QED
    BY <1>1, <1>8, <2>2, <2>3 DEF CopyOutput, ScanGoes
<1>9. CASE RefuseOutput(s)
  <2>1. /\ scans[s] = "copied" /\ scans'[s] = "refused" /\ rows' = rows
        /\ files' = files \ At(RunOf[s], s, "private")
    BY <1>1, <1>9 DEF RefuseOutput, ScanGoes
  <2>2. At(RunOf[s], s, "private") \subseteq files
    BY DEF At
  <2>3. \A c \in At(RunOf[s], s, "private") : c.of = s
    BY <1>1, <2>2, PathsAreOwn
  <2>4. ~Owed(s)'
    BY <1>1, <1>6, <2>1 DEF Owed, Depositing
  <2>5. KeptInv'
    <3>1. \A a \in Artifacts \ {s} : \A c \in files : PrivateCopy(c, a) => \E d \in files' : PrivateCopy(d, a)
      BY <2>1, <2>3 DEF PrivateCopy
    <3>2. QED
      BY <1>1, <1>5, <2>4, <3>1, KeptStays
  <2>6. QED
    BY <1>1, <1>4, <2>1, <2>5 DEF CopiesInv, Alone
<1>10. QED
    BY <1>7, <1>8, <1>9 DEF scanOutputArtifacts, ListOutputs, InsertOutput

LEMMA RunsKeepCopies ==
    ASSUME FilesIInv, Lasts, UNCHANGED <<purges, leaving>>,
           Tick \/ (\E r \in Runs : createRunForThread(r) \/ EndRun(r))
    PROVE  CopiesInv'
<1>1. /\ PolicyIInv /\ RowsInv /\ CopiesInv /\ KeptInv /\ Alone
      /\ \A c \in files : c \in Copy /\ Fine(c)
      /\ runs \in [Runs -> {"absent", "active", "terminal", "gone"}]
      /\ Runs \intersect Artifacts = {}
    BY WhatIsTyped, ArtifactAssumption DEF FilesIInv, CopiesInv
<1>2. UNCHANGED <<rows, uploads, scans, deletions, policyLock, policy, faults>> /\ made \subseteq made'
    BY DEF Tick, createRunForThread, EndRun, KeepsFiles
<1>3. \A c \in files : Fine(c)'
    BY <1>1, <1>2, FineStays
<1>4. \A a \in Artifacts : Owed(a)' => rows[a] = "live" \/ Depositing(a)
    BY <1>2 DEF Owed, Depositing
<1>5. CASE files' = files
    BY <1>1, <1>3, <1>4, <1>5, FilesUntouched
<1>6. ASSUME NEW r \in Runs, runs'[r] # "absent", files' = files \union {Saved(r, "out", "work", r)}
      PROVE  CopiesInv'
  <2> DEFINE new == Saved(r, "out", "work", r)
  <2>1. /\ new.run = r /\ new.name = "out" /\ new.place = "work" /\ new.of = r
        /\ new.aside = "free" /\ new.moved = "free"
    BY DEF Saved
  <2>2. files' = files \union {new}
    BY <1>6
  <2> HIDE DEF new
  <2>3. Fine(new)'
    BY <1>1, <1>6, <2>1 DEF Fine, Placed, SetAside, MovedAway, OutOfReach, Artifacts
  <2>4. Alone'
    BY <1>1, <2>1, <2>2 DEF Alone
  <2>5. KeptInv'
    BY <1>1, <1>4, <2>2, KeptStays
  <2>6. QED
    BY <1>3, <2>2, <2>3, <2>4, <2>5 DEF CopiesInv
<1>7. QED
    BY <1>1, <1>5, <1>6 DEF Tick, createRunForThread, EndRun
-----------------------------------------------------------------------------
(* Renames *)

\* The bytes that are moved are the same bytes: nothing is lost and nothing doubled.
LEMMA AsideRenames ==
    ASSUME files \subseteq Copy, Alone, NEW X \in SUBSET files, NEW v \in Uploads \union {"free"},
           files' = (files \ X) \union {[c EXCEPT !.aside = v] : c \in X}
    PROVE  /\ Alone'
           /\ \A a : \A c \in files : PrivateCopy(c, a) => \E d \in files' : PrivateCopy(d, a)
           /\ \A d \in files' : \/ d \in files \ X
                                \/ \E c \in X : /\ d.run = c.run /\ d.name = c.name /\ d.place = c.place
                                                /\ d.of = c.of /\ d.aside = v /\ d.moved = c.moved
                                                /\ d \in Copy
<1> DEFINE Image(c) == [c EXCEPT !.aside = v]
<1>1. ASSUME NEW c \in files
      PROVE  LET d == Image(c) IN
             /\ d \in Copy /\ d.run = c.run /\ d.name = c.name /\ d.place = c.place
             /\ d.of = c.of /\ d.aside = v /\ d.moved = c.moved
  <2>1. c \in Copy
    OBVIOUS
  <2>2. QED
    BY <2>1, MovedCopies
<1>2. files' = (files \ X) \union {Image(c) : c \in X}
    OBVIOUS
<1> HIDE DEF Image
<1>3. \A c \in files : \E d \in files' : d.of = c.of /\ d.place = c.place
    BY <1>1, <1>2
<1>4. \A d \in files' : \/ d \in files \ X
                        \/ \E c \in X : d = Image(c)
    BY <1>2
<1>5. Alone'
    BY <1>1, <1>4 DEF Alone
<1>6. \A a : \A c \in files : PrivateCopy(c, a) => \E d \in files' : PrivateCopy(d, a)
    BY <1>3 DEF PrivateCopy
<1>7. \A d \in files' : \/ d \in files \ X
                        \/ \E c \in X : /\ d.run = c.run /\ d.name = c.name /\ d.place = c.place
                                        /\ d.of = c.of /\ d.aside = v /\ d.moved = c.moved
                                        /\ d \in Copy
    BY <1>1, <1>4
<1>8. QED
    BY <1>5, <1>6, <1>7

LEMMA MovedRenames ==
    ASSUME files \subseteq Copy, Alone, NEW X \in SUBSET files, NEW v \in Purges \union {"free"},
           files' = (files \ X) \union {[c EXCEPT !.moved = v] : c \in X}
    PROVE  /\ Alone'
           /\ \A a : \A c \in files : PrivateCopy(c, a) => \E d \in files' : PrivateCopy(d, a)
           /\ \A d \in files' : \/ d \in files \ X
                                \/ \E c \in X : /\ d.run = c.run /\ d.name = c.name /\ d.place = c.place
                                                /\ d.of = c.of /\ d.aside = c.aside /\ d.moved = v
                                                /\ d \in Copy
<1> DEFINE Image(c) == [c EXCEPT !.moved = v]
<1>1. ASSUME NEW c \in files
      PROVE  LET d == Image(c) IN
             /\ d \in Copy /\ d.run = c.run /\ d.name = c.name /\ d.place = c.place
             /\ d.of = c.of /\ d.aside = c.aside /\ d.moved = v
  <2>1. c \in Copy
    OBVIOUS
  <2>2. QED
    BY <2>1, MovedCopies
<1>2. files' = (files \ X) \union {Image(c) : c \in X}
    OBVIOUS
<1> HIDE DEF Image
<1>3. \A c \in files : \E d \in files' : d.of = c.of /\ d.place = c.place
    BY <1>1, <1>2
<1>4. \A d \in files' : \/ d \in files \ X
                        \/ \E c \in X : d = Image(c)
    BY <1>2
<1>5. Alone'
    BY <1>1, <1>4 DEF Alone
<1>6. \A a : \A c \in files : PrivateCopy(c, a) => \E d \in files' : PrivateCopy(d, a)
    BY <1>3 DEF PrivateCopy
<1>7. \A d \in files' : \/ d \in files \ X
                        \/ \E c \in X : /\ d.run = c.run /\ d.name = c.name /\ d.place = c.place
                                        /\ d.of = c.of /\ d.aside = c.aside /\ d.moved = v
                                        /\ d \in Copy
    BY <1>1, <1>4
<1>8. QED
    BY <1>5, <1>6, <1>7

-----------------------------------------------------------------------------
(* The deletion of an artifact *)

LEMMA DeletionKeepsCopies ==
    ASSUME OneFilePerName, FilesIInv, Lasts, NEW u \in Uploads, deleteArtifactEverywhere(u),
           UNCHANGED <<purges, leaving>>
    PROVE  CopiesInv'
<1>1. /\ PolicyIInv /\ RowsInv /\ CopiesInv /\ KeptInv /\ Alone /\ files \subseteq Copy
      /\ \A c \in files : /\ c \in Copy /\ Placed(c) /\ SetAside(c) /\ MovedAway(c) /\ OutOfReach(c)
                          /\ c.place \in Places
      /\ deletions \in [Uploads -> {"none", "quarantined", "restoring", "committed", "pending",
                                    "failed", "done"}]
      /\ rows \in [Artifacts -> {"none", "live", "deleted", "gone"}]
      /\ u \in Artifacts /\ "free" \notin Uploads /\ Uploads \subseteq Artifacts
      /\ Uploads \intersect Scans = {}
    BY WhatIsTyped, CopyParts, ArtifactAssumption DEF FilesIInv, CopiesInv, Fine, Artifacts
<1>2. UNCHANGED <<runs, made, uploads, scans>>
    BY DEF deleteArtifactEverywhere, QuarantineArtifact, CommitDeletion, FailDeletion,
           restoreFiles, RemoveAside, LeaveAside, KeepsDeletion
<1>3. \A v \in Uploads \ {u} : deletions'[v] = deletions[v]
    BY <1>1 DEF deleteArtifactEverywhere, QuarantineArtifact, CommitDeletion, FailDeletion,
                restoreFiles, RemoveAside, LeaveAside, Deletes
<1>4. rows' = rows \/ (rows' = [rows EXCEPT ![u] = "deleted"] /\ deletions[u] = "quarantined")
    BY DEF deleteArtifactEverywhere, QuarantineArtifact, CommitDeletion, FailDeletion,
           restoreFiles, RemoveAside, LeaveAside, Deletes
<1>5. \A c \in files : Placed(c)' /\ MovedAway(c)'
    BY <1>1, <1>2, PlacedStays, MovedStays
<1>6. \A a \in Artifacts : Owed(a)' => rows[a] = "live" \/ Depositing(a)
    BY <1>1, <1>2, <1>4 DEF Owed, Depositing
<1>7. UploadRow(u)
    BY <1>1 DEF RowsInv
<1>8. \A c \in files : c.of # u => OutOfReach(c)'
  <2>1. ASSUME NEW c \in files, c.of # u,
               c.of \in Uploads, rows'[c.of] = "deleted" \/ deletions'[c.of] = "quarantined"
        PROVE  rows[c.of] = "deleted" \/ deletions[c.of] = "quarantined"
    BY <1>1, <1>3, <1>4, <2>1
  <2>2. QED
    BY <1>1, <2>1, ReachStays
<1>9. \A c \in files : deletions'[u] # "failed" \/ c.aside # u => SetAside(c)'
  <2>1. ASSUME NEW c \in files, deletions'[u] # "failed" \/ c.aside # u,
               c.aside # "free", deletions'[c.aside] = "failed"
        PROVE  deletions[c.aside] = "failed"
    BY <1>1, <1>3, <2>1, CopyParts
  <2>2. QED
    BY <1>1, <2>1, SetAsideStays
<1>10. \A c \in files : c.of = u /\ c.aside = "free" /\ c.moved = "free" => c \in Targets(u)
  <2>1. \A c \in files : c.of = u /\ c.aside = "free" /\ c.moved = "free" => c \in InputPath(u, c.place)
    BY <1>1, PathsAreOwn
  <2>2. QED
    BY <1>1, <2>1 DEF Targets, Places
<1>11. /\ Targets(u) \subseteq files
       /\ \A c \in Targets(u) : c.of = u /\ c.aside = "free" /\ c.moved = "free"
  <2>1. /\ Targets(u) \subseteq files
        /\ \A c \in Targets(u) : /\ c.aside = "free" /\ c.moved = "free"
                                 /\ \E place \in Places : c \in InputPath(u, place)
    BY DEF Targets, InputPath, At, Places
  <2>2. QED
    BY <1>1, <2>1, PathsAreOwn
<1>12. CASE QuarantineArtifact(u)
  <2>1. /\ files' = (files \ Targets(u)) \union {[c EXCEPT !.aside = u] : c \in Targets(u)}
        /\ deletions'[u] = "quarantined" /\ rows' = rows /\ policyLock = "free"
    BY <1>1, <1>12 DEF QuarantineArtifact, Deletes, LocksPolicy
  <2>2. /\ Alone'
        /\ \A a : \A c \in files : PrivateCopy(c, a) => \E d \in files' : PrivateCopy(d, a)
        /\ \A d \in files' : \/ d \in files \ Targets(u)
                             \/ \E c \in Targets(u) :
                                   /\ d.run = c.run /\ d.name = c.name /\ d.place = c.place
                                   /\ d.of = c.of /\ d.aside = u /\ d.moved = c.moved /\ d \in Copy
    <3>1. /\ files' = (files \ Targets(u)) \union {[c EXCEPT !.aside = u] : c \in Targets(u)}
          /\ Targets(u) \in SUBSET files /\ u \in Uploads \union {"free"}
          /\ files \subseteq Copy /\ Alone
      BY <1>1, <1>11, <2>1
    <3>2. QED
      BY <3>1, AsideRenames, ZenonT(40)
  <2>3. \A p \in Purges : purges[p].pc # "moved" /\ "free" # p
    BY <1>1, <2>1, ArtifactAssumption DEF PolicyIInv, PurgeLocks, InPurge
  <2>4. ASSUME NEW c \in files \ Targets(u), c.of = u PROVE OutOfReach(c)'
    <3>1. c.aside # "free" => c.aside = u
      BY <1>1, <2>4 DEF Placed
    <3>2. c.moved # "free" => purges[c.moved].pc # "moved"
      BY <1>1, <2>3, CopyParts
    <3>3. QED
      BY <1>10, <2>4, <3>1, <3>2 DEF OutOfReach
  <2>5. \A c \in files \ Targets(u) : Fine(c)'
    BY <1>5, <1>8, <1>9, <2>1, <2>4 DEF Fine
  <2>6. ASSUME NEW d \in files', NEW c \in Targets(u), d.run = c.run, d.name = c.name,
               d.place = c.place, d.of = c.of, d.aside = u, d.moved = c.moved
        PROVE  Fine(d)'
    <3>1. c.of = u /\ c.moved = "free" /\ Placed(c)' /\ d.of = u /\ d.moved = "free"
      BY <1>5, <1>11, <2>6
    <3>2. Placed(d)'
      BY <1>1, <2>6, <3>1 DEF Placed
    <3>3. QED
      BY <2>1, <2>6, <3>1, <3>2 DEF Fine, SetAside, MovedAway, OutOfReach
  <2>7. KeptInv'
    BY <1>1, <1>6, <2>2, KeptStays
  <2>8. QED
    BY <2>2, <2>5, <2>6, <2>7 DEF CopiesInv
<1>13. CASE restoreFiles(u)
  <2> DEFINE back == {c \in Aside(u) : At(c.run, c.name, c.place) = {}}
  <2>1. /\ files' = (files \ back) \union {[c EXCEPT !.aside = "free"] : c \in back}
        /\ deletions[u] = "restoring" /\ deletions'[u] = "failed" /\ rows' = rows
    BY <1>1, <1>13 DEF restoreFiles, Deletes
  <2>2. /\ back \subseteq files
        /\ \A c \in back : c.aside = u /\ c.moved = "free"
        /\ \A c \in files : c.aside = u /\ c.moved = "free" => c \in back \/ At(c.run, c.name, c.place) # {}
    BY DEF Aside
  <2> HIDE DEF back
  <2>3. ASSUME NEW c \in files, c.aside = u, c.moved = "free" PROVE c \in back
    <3>1. c.of = u /\ c.run = RunOf[u] /\ c.name = NameOf[u]
      BY <1>1, <2>3 DEF Placed, NameFor
    <3>2. ASSUME NEW e \in At(c.run, c.name, c.place) PROVE FALSE
      <4>1. e \in InputPath(u, c.place) /\ e \in files /\ e.place = c.place /\ e.aside = "free"
        BY <3>1, <3>2 DEF InputPath, At
      <4>2. e.of = u
        BY <1>1, <4>1, PathsAreOwn
      <4>3. e = c
        BY <1>1, <3>1, <4>1, <4>2 DEF Alone
      <4>4. QED
        BY <1>1, <2>3, <4>1, <4>3
    <3>3. QED
      BY <2>2, <2>3, <3>2
  <2>4. /\ Alone'
        /\ \A a : \A c \in files : PrivateCopy(c, a) => \E d \in files' : PrivateCopy(d, a)
        /\ \A d \in files' : \/ d \in files \ back
                             \/ \E c \in back :
                                   /\ d.run = c.run /\ d.name = c.name /\ d.place = c.place
                                   /\ d.of = c.of /\ d.aside = "free" /\ d.moved = c.moved /\ d \in Copy
    <3>1. /\ files' = (files \ back) \union {[c EXCEPT !.aside = "free"] : c \in back}
          /\ back \in SUBSET files /\ "free" \in Uploads \union {"free"}
          /\ files \subseteq Copy /\ Alone
      BY <1>1, <2>1, <2>2
    <3>2. QED
      BY <3>1, AsideRenames, ZenonT(40)
  <2>5. ASSUME NEW c \in files \ back PROVE Fine(c)'
    <3>1. OutOfReach(c)'
      <4>1. c.of = u => rows'[u] # "deleted" /\ deletions'[u] # "quarantined"
        BY <1>7, <2>1 DEF UploadRow
      <4>2. QED
        BY <1>8, <4>1 DEF OutOfReach
    <3>2. SetAside(c)'
      <4>1. CASE c.aside = u
        BY <1>1, <2>1, <2>3, <2>5, <4>1 DEF SetAside
      <4>2. QED
        BY <1>9, <4>1
    <3>3. QED
      BY <1>5, <3>1, <3>2 DEF Fine
  <2>6. ASSUME NEW d \in files', NEW c \in back, d.run = c.run, d.name = c.name,
               d.place = c.place, d.of = c.of, d.aside = "free", d.moved = c.moved
        PROVE  Fine(d)'
    <3>1. c.moved = "free" /\ Placed(c)' /\ d.moved = "free" /\ c.aside = u /\ Placed(c)
      BY <1>1, <1>5, <2>2, <2>6
    <3>2. Placed(d)' /\ d.of = u
      BY <1>1, <2>6, <3>1 DEF Placed
    <3>3. rows'[u] # "deleted" /\ deletions'[u] # "quarantined"
      BY <1>7, <2>1 DEF UploadRow
    <3>4. QED
      BY <2>6, <3>1, <3>2, <3>3 DEF Fine, SetAside, MovedAway, OutOfReach
  <2>7. KeptInv'
    BY <1>1, <1>6, <2>4, KeptStays
  <2>8. QED
    BY <2>4, <2>5, <2>6, <2>7 DEF CopiesInv
<1>14. ASSUME deletions'[u] # "failed", deletions'[u] # "quarantined",
              rows' = rows \/ deletions[u] = "quarantined"
       PROVE  \A c \in files : Fine(c)'
  <2>1. ASSUME NEW c \in files, c.of = u PROVE OutOfReach(c)'
    <3>1. rows'[u] = "deleted" => rows[u] = "deleted" \/ deletions[u] = "quarantined"
      BY <1>14
    <3>2. QED
      BY <1>1, <1>14, <2>1, <3>1, ReachStays
  <2>2. QED
    BY <1>5, <1>8, <1>9, <1>14, <2>1 DEF Fine
<1>15. CASE CommitDeletion(u) \/ FailDeletion(u) \/ LeaveAside(u)
  <2>1. /\ files' = files /\ deletions'[u] # "failed" /\ deletions'[u] # "quarantined"
        /\ rows' = rows \/ deletions[u] = "quarantined"
    BY <1>1, <1>15 DEF CommitDeletion, FailDeletion, LeaveAside, Deletes
  <2>2. QED
    BY <1>1, <1>6, <1>14, <2>1, FilesUntouched
<1>16. CASE RemoveAside(u)
  <2>1. /\ files' = files \ Aside(u) /\ deletions[u] = "committed" /\ deletions'[u] = "done"
        /\ rows' = rows
    BY <1>1, <1>16 DEF RemoveAside, Deletes
  <2>2. \A c \in files : c \in Aside(u) => c.of = u
    BY <1>1 DEF Aside, Placed
  <2>3. ~Owed(u)'
    BY <1>1, <1>2, <1>7, <2>1 DEF UploadRow, Owed, Depositing
  <2>4. KeptInv'
    <3>1. \A a \in Artifacts \ {u} : \A c \in files : PrivateCopy(c, a) => \E d \in files' : PrivateCopy(d, a)
      BY <2>1, <2>2 DEF PrivateCopy
    <3>2. QED
      BY <1>1, <1>6, <2>3, <3>1, KeptStays
  <2>5. QED
    BY <1>1, <1>14, <2>1, <2>4 DEF CopiesInv, Alone
<1>17. QED
    BY <1>12, <1>13, <1>15, <1>16 DEF deleteArtifactEverywhere
-----------------------------------------------------------------------------
(* The purge *)

\* What one purge does to the copies another one has moved.
LEMMA OthersStayMoved ==
    ASSUME Lasts, NEW c \in Copy, Placed(c), MovedAway(c), NEW p \in Purges, c.moved # p,
           \A q \in Purges : q # p => purges'[q] = purges[q],
           <<c.run, c.place>> \in made => <<c.run, c.place>> \in made' \/ MovedAgain(c)',
           MayRestore(p) /\ c.run \in Planned(p) =>
              MayRestore(p)' \/ GaveUp(p)' \/ ~Stored(c.run)'
    PROVE  MovedAway(c)'
<1>1. /\ c.run \in Runs /\ (c.moved # "free" => c.moved \in Purges)
      /\ Stored(c.run)' => Stored(c.run)
    BY CopyParts DEF Placed, Lasts, RunsLast
<1>2. \A q \in Purges : purges[q].pc # "none" => Planned(q)' = Planned(q)
    BY DEF Lasts, PurgesLast
<1>3. Stored(c.run)' /\ ~Left(c)' => ~Left(c)
    BY <1>1 DEF Left, Lasts, LeavingLasts
<1>4. MovedAgain(c) => MovedAgain(c)' \/ ~Stored(c.run)'
  <2>1. ASSUME NEW q \in Purges \ {c.moved}, GaveUp(q) PROVE MovedAgain(c)'
    BY <2>1 DEF MovedAgain, GaveUp, Lasts, PurgesLast
  <2>2. ASSUME NEW q \in Purges \ {c.moved}, MayRestore(q), c.run \in Planned(q)
        PROVE  MovedAgain(c)' \/ ~Stored(c.run)'
    <3>1. c.run \in Planned(q)'
      BY <1>2, <2>2 DEF MayRestore
    <3>2. MayRestore(q)' \/ GaveUp(q)' \/ ~Stored(c.run)'
      BY <2>2 DEF MayRestore, GaveUp
    <3>3. QED
      BY <3>1, <3>2 DEF MovedAgain
  <2>3. QED
    BY <2>1, <2>2 DEF MovedAgain
<1>5. c.moved # "free" => purges'[c.moved] = purges[c.moved]
    BY <1>1
<1>6. QED
    BY <1>1, <1>2, <1>3, <1>4, <1>5 DEF MovedAway, MayRestore, GaveUp, Lasts

LEMMA PurgeKeepsCopies ==
    ASSUME FilesIInv, Lasts, NEW p \in Purges, purgeDataLifecycle(p)
    PROVE  CopiesInv'
<1>1. /\ PolicyIInv /\ Registered /\ RowsInv /\ ListedInv /\ CopiesInv /\ KeptInv /\ Alone /\ files \subseteq Copy
      /\ \A c \in files : /\ c \in Copy /\ Placed(c) /\ SetAside(c) /\ MovedAway(c) /\ OutOfReach(c)
                          /\ c.run \in Runs /\ c.place \in Places
      /\ purges \in [Purges -> [pc : PurgePlaces, preview : 0 .. MaxPreviews]]
      /\ "free" \notin Uploads \union Purges /\ RunOf \in [Artifacts -> Runs]
      /\ Uploads \subseteq Artifacts
    BY WhatIsTyped, CopyParts, ArtifactAssumption DEF FilesIInv, PolicyIInv, CopiesInv, Fine, Artifacts
<1>2. UNCHANGED <<uploads, scans, deletions, leaving>>
    BY DEF purgeDataLifecycle, InspectPurge, quarantine, CommitPurge, FailPurge, RemoveMoved,
           LeaveMoved, KeepsPurge
<1>3. /\ \A q \in Purges : q # p => purges'[q] = purges[q]
      /\ purges[p].pc # "none" => Planned(p)' = Planned(p)
    BY <1>1, PurgeMoves DEF Lasts, PurgesLast
<1>4. \A a \in Artifacts : rows'[a] \in {"live", "deleted"} => rows'[a] = rows[a]
    BY DEF purgeDataLifecycle, InspectPurge, quarantine, CommitPurge, FailPurge, RemoveMoved,
           LeaveMoved, Cascades
<1>5. \A a \in Artifacts : Owed(a)' => rows[a] = "live" \/ Depositing(a)
    BY <1>2, <1>4 DEF Owed, Depositing
<1>6. \A c \in files : Placed(c)' /\ SetAside(c)' /\ OutOfReach(c)'
  <2>1. \A c \in files : Placed(c)' /\ SetAside(c)'
    BY <1>1, <1>2, PlacedStays, SetAsideStays
  <2>2. \A c \in files : OutOfReach(c)'
    BY <1>1, <1>2, <1>4, ReachStays
  <2>3. QED
    BY <2>1, <2>2
<1>7. \A c \in files : c.moved = p => purges[p].pc \notin {"none", "inspected"} /\ c.run \in Planned(p)
    BY <1>1 DEF MovedAway
<1>8. ASSUME NEW c \in files, c.moved # p, made \subseteq made', ~MayRestore(p)
      PROVE  MovedAway(c)'
    BY <1>1, <1>3, <1>8, OthersStayMoved
<1>9. CASE InspectPurge(p) \/ (FailPurge(p) /\ purges[p].pc = "inspected")
  <2>1. files' = files /\ made' = made /\ purges[p].pc \in {"none", "inspected"}
    BY <1>1, <1>9 DEF InspectPurge, FailPurge, Purge
  <2>2. \A c \in files : MovedAway(c)'
    BY <1>7, <1>8, <2>1 DEF MayRestore
  <2>3. \A c \in files : Fine(c)'
    BY <1>6, <2>2 DEF Fine
  <2>4. QED
    BY <1>1, <1>5, <2>1, <2>3, FilesUntouched
<1>10. CASE quarantine(p)
  <2> DEFINE inside == {c \in files : c.run \in Planned(p) /\ c.moved = "free"}
  <2>1. /\ files' = (files \ inside) \union {[c EXCEPT !.moved = p] : c \in inside}
        /\ purges[p].pc = "inspected" /\ purges'[p].pc = "moved" /\ rows' = rows
        /\ made' = made \ (Planned(p) \X Places) /\ UNCHANGED runs
    BY <1>1, <1>10 DEF quarantine, Purge
  <2>2. /\ inside \in SUBSET files
        /\ \A c \in inside : c.run \in Planned(p) /\ c.moved = "free"
    OBVIOUS
  <2> HIDE DEF inside
  <2>3. files' = (files \ inside) \union {[c EXCEPT !.moved = p] : c \in inside}
        /\ inside \in SUBSET files /\ p \in Purges \union {"free"} /\ files \subseteq Copy /\ Alone
    BY <1>1, <2>1, <2>2
  <2>4. /\ Alone'
        /\ \A a : \A c \in files : PrivateCopy(c, a) => \E d \in files' : PrivateCopy(d, a)
        /\ \A d \in files' : \/ d \in files \ inside
                             \/ \E c \in inside :
                                   /\ d.run = c.run /\ d.name = c.name /\ d.place = c.place
                                   /\ d.of = c.of /\ d.aside = c.aside /\ d.moved = p /\ d \in Copy
    BY <2>3, MovedRenames, ZenonT(40)
  <2>5. ASSUME NEW c \in files PROVE MovedAway(c)'
    <3>1. c.moved # p
      BY <1>7, <2>1
    <3>2. <<c.run, c.place>> \in made => <<c.run, c.place>> \in made' \/ MovedAgain(c)'
      <4>1. CASE c.run \in Planned(p)
        BY <1>3, <2>1, <3>1, <4>1 DEF MovedAgain, MayRestore
      <4>2. CASE c.run \notin Planned(p)
        BY <2>1, <4>2
      <4>3. QED
        BY <4>1, <4>2
    <3>3. QED
      BY <1>1, <1>3, <2>1, <3>1, <3>2, OthersStayMoved DEF MayRestore
  <2>6. ASSUME NEW d \in files', NEW c \in inside, d.run = c.run, d.name = c.name,
               d.place = c.place, d.of = c.of, d.aside = c.aside, d.moved = p
        PROVE  Fine(d)'
    <3>1. c \in files /\ c.moved = "free" /\ c.run \in Planned(p) /\ Placed(c)' /\ SetAside(c)' /\ OutOfReach(c)'
      BY <1>6, <2>2, <2>3
    <3>2. Placed(d)'
      BY <2>6, <3>1 DEF Placed
    <3>3. SetAside(d)'
      BY <1>1, <2>6, <3>1 DEF SetAside
    <3>4. MovedAway(d)'
      BY <1>3, <2>1, <2>6, <3>1 DEF MovedAway, MayRestore, GaveUp
    <3>5. OutOfReach(d)'
      BY <2>6, <3>1 DEF OutOfReach, Undone
    <3>6. QED
      BY <3>2, <3>3, <3>4, <3>5 DEF Fine
  <2>7. KeptInv'
    BY <1>1, <1>5, <2>4, KeptStays
  <2>8. QED
    BY <1>6, <2>4, <2>5, <2>6, <2>7 DEF CopiesInv, Fine
<1>11. CASE CommitPurge(p)
  <2> DEFINE T == {item.thread : item \in previews[purges[p].preview].items}
  <2>1. /\ Cascades(T) /\ files' = files /\ made' = made
        /\ purges[p].pc = "moved" /\ purges'[p].pc = "committed"
    BY <1>1, <1>11 DEF CommitPurge, Purge
  <2>2. purges[p].preview \in DOMAIN previews
    BY <1>1, <2>1 DEF PolicyIInv, PurgeNames
  <2>3. \A r \in Planned(p) : ThreadOf[r] \in T
    BY <1>1, <2>2 DEF Planned, ListedInv, Listed
  <2> HIDE DEF T
  <2>4. \A r \in Runs : r \in Planned(p) => ~Stored(r)'
    BY <2>1, <2>3 DEF Cascades, Stored
  <2>5. ASSUME NEW c \in files PROVE MovedAway(c)'
    <3>1. CASE c.moved = p
      BY <1>1, <1>3, <1>7, <2>1, <2>4, <3>1 DEF MovedAway, MayRestore, GaveUp
    <3>2. CASE c.moved # p
      BY <1>1, <1>3, <2>1, <2>4, <3>2, OthersStayMoved
    <3>3. QED
      BY <3>1, <3>2
  <2>6. \A c \in files : Fine(c)'
    BY <1>6, <2>5 DEF Fine
  <2>7. QED
    BY <1>1, <1>5, <2>1, <2>6, FilesUntouched
<1>12. CASE FailPurge(p) /\ MayRestore(p) /\ GaveUp(p)'
  <2> DEFINE back == {c \in Moved(p) : <<c.run, c.place>> \notin made}
  <2>1. /\ files' = (files \ back) \union {[c EXCEPT !.moved = "free"] : c \in back}
        /\ made \subseteq made' /\ rows' = rows
        /\ \/ purges[p].pc = "moved" /\ purges'[p].pc = "failed"
           \/ purges[p].pc = "restoring" /\ purges'[p].pc = "undone"
    BY <1>1, <1>12 DEF FailPurge, Purge, restoreMoves, MayRestore, GaveUp
  <2>2. /\ back \subseteq files
        /\ \A c \in back : c.moved = p
        /\ \A c \in files : c.moved = p => c \in back \/ <<c.run, c.place>> \in made
    BY DEF Moved
  <2> HIDE DEF back
  <2>3. /\ files' = (files \ back) \union {[c EXCEPT !.moved = "free"] : c \in back}
        /\ back \in SUBSET files /\ "free" \in Purges \union {"free"} /\ files \subseteq Copy /\ Alone
    BY <1>1, <2>1, <2>2
  <2>4. /\ Alone'
        /\ \A a : \A c \in files : PrivateCopy(c, a) => \E d \in files' : PrivateCopy(d, a)
        /\ \A d \in files' : \/ d \in files \ back
                             \/ \E c \in back :
                                   /\ d.run = c.run /\ d.name = c.name /\ d.place = c.place
                                   /\ d.of = c.of /\ d.aside = c.aside /\ d.moved = "free" /\ d \in Copy
    BY <2>3, MovedRenames, ZenonT(40)
  <2>5. ASSUME NEW c \in files \ back PROVE MovedAway(c)'
    <3>1. CASE c.moved = p
      BY <1>3, <1>7, <1>12, <2>1, <2>2, <2>5, <3>1 DEF MovedAway, MayRestore, GaveUp
    <3>2. CASE c.moved # p
      BY <1>1, <1>3, <1>12, <2>1, <3>2, OthersStayMoved
    <3>3. QED
      BY <3>1, <3>2
  <2>6. ASSUME NEW d \in files', NEW c \in back, d.run = c.run, d.name = c.name,
               d.place = c.place, d.of = c.of, d.aside = c.aside, d.moved = "free"
        PROVE  Fine(d)'
    <3>1. c \in files /\ c.moved = p /\ Placed(c)' /\ SetAside(c)' /\ OutOfReach(c)
          /\ OutOfReach(c)'
      BY <1>1, <1>6, <2>2
    <3>2. Placed(d)'
      BY <2>6, <3>1 DEF Placed
    <3>3. SetAside(d)'
      BY <1>12, <2>1, <2>6, <3>1 DEF SetAside, PurgeFailed
    <3>4. OutOfReach(d)'
      <4>1. CASE purges[p].pc = "moved"
        <5>1. Undone(c.run) => Undone(c.run)'
          BY DEF Undone, GaveUp, Lasts, PurgesLast
        <5>2. QED
          BY <1>2, <2>1, <2>6, <3>1, <4>1, <5>1 DEF OutOfReach
      <4>2. CASE purges'[p].pc = "undone"
        <5>1. c.run \in Planned(p)'
          BY <1>3, <1>7, <2>1, <3>1
        <5>2. QED
          BY <2>6, <4>2, <5>1 DEF OutOfReach, Undone
      <4>3. QED
        BY <2>1, <4>1, <4>2
    <3>5. QED
      BY <2>6, <3>2, <3>3, <3>4 DEF Fine, MovedAway
  <2>7. KeptInv'
    BY <1>1, <1>5, <2>4, KeptStays
  <2>8. QED
    BY <1>6, <2>4, <2>5, <2>6, <2>7 DEF CopiesInv, Fine
<1>13. CASE FailPurge(p) /\ purges[p].pc = "moved" /\ purges'[p].pc = "restoring"
  <2>1. files' = files /\ made' = made /\ UNCHANGED <<runs, rows>>
    BY <1>1, <1>13 DEF FailPurge, Purge
  <2>2. ASSUME NEW c \in files PROVE MovedAway(c)'
    <3>1. CASE c.moved = p
      BY <1>1, <1>3, <1>7, <1>13, <2>1, <3>1 DEF MovedAway, MayRestore, GaveUp
    <3>2. CASE c.moved # p
      <4>1. MayRestore(p)'
        BY <1>13 DEF MayRestore
      <4>2. QED
        BY <1>1, <1>3, <2>1, <3>2, <4>1, OthersStayMoved
    <3>3. QED
      BY <3>1, <3>2
  <2>3. \A c \in files : Fine(c)'
    BY <1>6, <2>2 DEF Fine
  <2>4. QED
    BY <1>1, <1>5, <2>1, <2>3, FilesUntouched
<1>14. CASE RemoveMoved(p) \/ LeaveMoved(p)
  <2>1. /\ files' \subseteq files /\ made' = made /\ runs' = runs
        /\ purges[p].pc = "committed" /\ purges'[p].pc \in {"done", "pending"}
        /\ \A c \in files : c.moved # p => c \in files'
    BY <1>1, <1>14 DEF RemoveMoved, LeaveMoved, Purge, Moved
  <2>2. \A c \in files : c.moved = p => ~Stored(c.run) /\ ~Stored(c.run)'
    BY <1>1, <2>1 DEF MovedAway, MayRestore, GaveUp, Stored
  <2>3. ASSUME NEW c \in files PROVE MovedAway(c)'
    <3>1. CASE c.moved = p
      BY <1>3, <1>7, <2>1, <2>2, <3>1 DEF MovedAway, MayRestore, GaveUp
    <3>2. QED
      BY <1>8, <2>1, <3>1 DEF MayRestore
  <2>4. \A c \in files : Fine(c)'
    BY <1>6, <2>3 DEF Fine
  <2>5. \A a \in Artifacts : Owed(a)' =>
            \A c \in files : PrivateCopy(c, a) => \E d \in files' : PrivateCopy(d, a)
    <3>1. ASSUME NEW a \in Artifacts, Owed(a)', NEW c \in files, PrivateCopy(c, a) PROVE c \in files'
      <4>1. Stored(RunOf[a])' /\ c.run = RunOf[a]
        BY <1>1, <3>1 DEF Owed, PrivateCopy, Placed
      <4>2. QED
        BY <2>1, <2>2, <4>1
    <3>2. QED
      BY <3>1
  <2>6. KeptInv'
    BY <1>1, <1>5, <2>5, KeptStays
  <2>7. QED
    BY <1>1, <2>1, <2>4, <2>6 DEF CopiesInv, Alone
<1>15. QED
    BY <1>1, <1>9, <1>10, <1>11, <1>12, <1>13, <1>14, PurgeMoves DEF InPurge, MayRestore, GaveUp
-----------------------------------------------------------------------------
(* The deletion of a thread, and a crash *)

LEMMA ThreadKeepsCopies ==
    ASSUME FilesIInv, Lasts, NEW t \in Threads, deleteThread(t)
    PROVE  CopiesInv'
<1>1. /\ PolicyIInv /\ RowsInv /\ ListedInv /\ CopiesInv /\ KeptInv /\ Alone
      /\ \A c \in files : c \in Copy /\ Fine(c) /\ Placed(c) /\ MovedAway(c) /\ c.run \in Runs
      /\ leaving \in [Threads -> [pc : {"none", "seen", "emptied", "done"}, runs : SUBSET Runs]]
      /\ RunOf \in [Artifacts -> Runs] /\ Uploads \subseteq Artifacts
    BY WhatIsTyped, CopyParts, ArtifactAssumption DEF FilesIInv, CopiesInv, Fine, Artifacts
<1>2. UNCHANGED <<uploads, scans, deletions, faults, purges>>
    BY DEF deleteThread, CancelRuns, RemoveDirectories, DropThread, KeepsLeaving
<1>3. \A a \in Artifacts : rows'[a] \in {"live", "deleted"} => rows'[a] = rows[a]
    BY DEF deleteThread, CancelRuns, RemoveDirectories, DropThread, Cascades
<1>4. \A a \in Artifacts : Owed(a)' => rows[a] = "live" \/ Depositing(a)
    BY <1>2, <1>3 DEF Owed, Depositing
<1>5. \A u \in Uploads : rows'[u] = "deleted" => rows[u] = "deleted"
    BY <1>1, <1>3
<1>6. CASE CancelRuns(t) \/ DropThread(t)
  <2>1. files' = files /\ made' = made
    BY <1>6 DEF CancelRuns, DropThread
  <2>2. \A c \in files : Fine(c)'
    BY <1>1, <1>2, <1>5, <2>1, FineStays
  <2>3. QED
    BY <1>1, <1>4, <2>1, <2>2, FilesUntouched
<1>7. CASE RemoveDirectories(t)
  <2>1. /\ files' = {c \in files : c.run \notin leaving[t].runs \/ c.moved # "free"}
        /\ made' = made \ (leaving[t].runs \X Places) /\ leaving'[t].runs = leaving[t].runs
    BY <1>1, <1>7 DEF RemoveDirectories, Leaves
  <2>2. \A r \in leaving[t].runs : ThreadOf[r] = t /\ leaving'[ThreadOf[r]].runs # {}
    BY <1>1, <2>1 DEF ListedInv
  <2>3. ASSUME NEW c \in files PROVE Fine(c)'
    <3>1. <<c.run, c.place>> \in made => <<c.run, c.place>> \in made' \/ Left(c)'
      BY <2>1, <2>2 DEF Left
    <3>2. MovedAway(c)'
      BY <1>1, <1>2, <3>1, MovedStays
    <3>3. Placed(c)' /\ SetAside(c)' /\ OutOfReach(c)'
      BY <1>1, <1>2, <1>5, PlacedStays, SetAsideStays, ReachStays DEF Fine
    <3>4. QED
      BY <3>2, <3>3 DEF Fine
  <2>4. ASSUME NEW a \in Artifacts, Owed(a)', NEW c \in files, PrivateCopy(c, a) PROVE c \in files'
    <3>1. leaving'[ThreadOf[RunOf[a]]].runs = {} /\ c.run = RunOf[a]
      BY <1>1, <2>4 DEF Owed, PrivateCopy, Placed
    <3>2. QED
      BY <2>1, <2>2, <3>1
  <2>5. KeptInv'
    BY <1>1, <1>4, <2>4, KeptStays
  <2>6. QED
    BY <1>1, <2>1, <2>3, <2>5 DEF CopiesInv, Alone
<1>8. QED
    BY <1>6, <1>7 DEF deleteThread

LEMMA CrashKeepsCopies ==
    ASSUME FilesIInv, Lasts, CrashFiles
    PROVE  CopiesInv'
<1>1. /\ PolicyIInv /\ RowsInv /\ CopiesInv /\ KeptInv /\ Alone
      /\ \A c \in files : /\ c \in Copy /\ Placed(c) /\ SetAside(c) /\ MovedAway(c) /\ OutOfReach(c)
                          /\ c.run \in Runs /\ c.aside \in Uploads \union {"free"}
                          /\ c.moved \in Purges \union {"free"}
      /\ Uploads \subseteq Artifacts
    BY WhatIsTyped, CopyParts, ArtifactAssumption DEF FilesIInv, CopiesInv, Fine, Artifacts
<1>2. /\ UNCHANGED <<runs, rows, files, made>> /\ faults' # 0
      /\ \A u \in Uploads : uploads'[u] \notin {"written", "staged"} /\ deletions'[u] # "quarantined"
      /\ \A s \in Scans : scans'[s] # "copied"
    BY <1>1, WhatIsTyped DEF CrashFiles
<1>3. \A p \in Purges : MayRestore(p) \/ GaveUp(p) => GaveUp(p)'
    BY <1>1, WhatIsTyped DEF CrashFiles, MayRestore, GaveUp
<1>4. ASSUME NEW c \in files PROVE Fine(c)'
  <2>1. Placed(c)' /\ SetAside(c)'
    BY <1>1, <1>2, PlacedStays, SetAsideStays
  <2>2. OutOfReach(c)'
    BY <1>1, <1>2, ReachStays
  <2>3. c.moved # "free" => c.run \in Planned(c.moved)'
    BY <1>1 DEF MovedAway, Lasts, PurgesLast
  <2>4. c.moved # "free" => purges'[c.moved].pc \notin {"none", "inspected"}
    BY <1>1 DEF MovedAway, Lasts, PurgesLast
  <2>5. c.moved # "free" => GaveUp(c.moved)' \/ ~Stored(c.run)'
    BY <1>1, <1>2, <1>3 DEF MovedAway, Stored
  <2>6. QED
    BY <1>2, <2>1, <2>2, <2>3, <2>4, <2>5 DEF Fine, MovedAway
<1>5. \A a \in Artifacts : Owed(a)' => rows[a] = "live" \/ Depositing(a)
    BY <1>2 DEF Owed, Depositing
<1>6. QED
    BY <1>1, <1>2, <1>4, <1>5, FilesUntouched

-----------------------------------------------------------------------------
(* The invariant *)

LEMMA FilesInitially == LifecycleInit => FilesIInv
<1> SUFFICES ASSUME LifecycleInit PROVE FilesIInv
    OBVIOUS
<1>1. /\ files = {} /\ runs = [r \in Runs |-> "absent"] /\ rows = [a \in Artifacts |-> "none"]
      /\ uploads = [u \in Uploads |-> "none"] /\ scans = [s \in Scans |-> "none"]
      /\ deletions = [u \in Uploads |-> "none"] /\ previews = <<>>
      /\ leaving = [t \in Threads |-> [pc |-> "none", runs |-> {}]]
      /\ RunOf \in [Artifacts -> Runs] /\ Uploads \subseteq Artifacts /\ Scans \subseteq Artifacts
    BY ArtifactAssumption DEF LifecycleInit, ArtifactInit, Artifacts
<1>2. RowsInv
    BY <1>1 DEF RowsInv, UploadRow, ScanRow
<1>3. ListedInv
    BY <1>1 DEF ListedInv
<1>4. CopiesInv
    BY <1>1 DEF CopiesInv, Alone, KeptInv, Owed, Depositing, Stored
<1>5. QED
    BY <1>2, <1>3, <1>4, PolicyInitially DEF FilesIInv

LEMMA FilesNext ==
    ASSUME OneFilePerName
    PROVE  FilesIInv /\ [LifecycleNext]_lifecycleVars => FilesIInv'
<1>1. CASE UNCHANGED lifecycleVars
  <2>1. UNCHANGED <<storeVars, previews, purges, leaving>>
    BY <1>1 DEF lifecycleVars
  <2>2. UNCHANGED <<clock, threads, runs, rows, dated, files, made, uploads, scans, deletions,
                    policyLock, policy, faults, previews, purges, leaving>>
    BY <2>1 DEF storeVars
  <2>3. (RowsInv => RowsInv') /\ (ListedInv => ListedInv') /\ (Alone => Alone') /\ (KeptInv => KeptInv')
    BY <2>2 DEF RowsInv, UploadRow, ScanRow, Stored, ListedInv, Listed, Alone, KeptInv, Owed, Depositing
  <2>4. \A c \in files : Fine(c) => Fine(c)'
    BY <2>2 DEF Fine, Placed, SetAside, MovedAway, OutOfReach, PurgeFailed, Stored, MovedAgain, Left, Planned,
               GaveUp, MayRestore, Undone
  <2>5. PolicyIInv => PolicyIInv'
    BY <1>1, PolicyNext
  <2>6. QED
    BY <2>2, <2>3, <2>4, <2>5 DEF FilesIInv, CopiesInv
<1>2. ASSUME FilesIInv, LifecycleNext PROVE FilesIInv'
  <2>1. PolicyIInv /\ RowsInv /\ ListedInv /\ CopiesInv /\ Lasts
    BY <1>2, StepsLast DEF FilesIInv
  <2>2. PolicyIInv' /\ RowsInv' /\ ListedInv'
    BY <1>2, <2>1, PolicyNext, RowsNext, ListedNext DEF Lasts
  <2>3. CASE StoreNext /\ UNCHANGED <<previews, purges, leaving>>
    <3>1. CopiesInv'
      BY <1>2, <2>1, <2>3, DepositKeepsCopies, DeliveryKeepsCopies, RunsKeepCopies, DeletionKeepsCopies
      DEF StoreNext
    <3>2. QED
      BY <2>2, <3>1 DEF FilesIInv
  <2>4. CASE (\E hold \in BOOLEAN : updateSiteDataLifecyclePolicy(hold)) \/ createDataLifecyclePreview
    <3>1. UNCHANGED <<rows, files, made, uploads, scans, deletions, purges>>
      BY <2>4 DEF updateSiteDataLifecyclePolicy, createDataLifecyclePreview, KeepsData
    <3>2. \A c \in files : c \in Copy /\ Fine(c)
      BY <2>1, WhatIsTyped DEF CopiesInv
    <3>3. \A c \in files : Fine(c)'
      BY <2>1, <3>1, <3>2, FineStays
    <3>4. \A a \in Artifacts : Owed(a)' => rows[a] = "live" \/ Depositing(a)
      BY <3>1 DEF Owed, Depositing
    <3>5. CopiesInv'
      BY <2>1, <3>1, <3>3, <3>4, FilesUntouched
    <3>6. QED
      BY <2>2, <3>5 DEF FilesIInv
  <2>5. CASE \E p \in Purges : purgeDataLifecycle(p)
    BY <1>2, <2>1, <2>2, <2>5, PurgeKeepsCopies DEF FilesIInv
  <2>6. CASE \E t \in Threads : deleteThread(t)
    BY <1>2, <2>1, <2>2, <2>6, ThreadKeepsCopies DEF FilesIInv
  <2>7. CASE CrashFiles
    BY <1>2, <2>1, <2>2, <2>7, CrashKeepsCopies DEF FilesIInv
  <2>8. QED
    BY <1>2, <2>3, <2>4, <2>5, <2>6, <2>7 DEF LifecycleNext
<1>3. QED
    BY <1>1, <1>2

LEMMA FilesAreInductive ==
    ASSUME OneFilePerName
    PROVE  LifecycleSpec => []FilesIInv
<1>1. FilesIInv /\ [LifecycleNext]_lifecycleVars => FilesIInv'
    BY FilesNext
<1>2. QED
    BY <1>1, FilesInitially, PTL DEF LifecycleSpec
\* What is announced exists: no live row loses its bytes, whatever was deposited,
\* delivered, deleted, purged, restored and wherever the process stopped, as long as two
\* inputs of a run never have the same name (depositInputFile, deleteArtifactEverywhere,
\* purgeDataLifecycle, deleteThread).
THEOREM DataIsKept ==
    ASSUME OneFilePerName
    PROVE  LifecycleSpec => []LifecycleInvariant
<1>1. FilesIInv => LifecycleInvariant
  <2> SUFFICES ASSUME FilesIInv PROVE LifecycleInvariant
    OBVIOUS
  <2>1. LifecycleTypeOK /\ PreviewPurgesOnce
    BY DEF FilesIInv, PolicyIInv, Registered
  <2>2. LiveRowsHaveBytes
    BY DEF LiveRowsHaveBytes, FilesIInv, RowsInv, CopiesInv, KeptInv, Owed
  <2>3. QED
    BY <2>1, <2>2 DEF LifecycleInvariant
<1>2. QED
    BY <1>1, FilesAreInductive, PTL

\* Two failures are two.
LEMMA FailuresCount ==
    ASSUME NEW x \in Failed, NEW y \in Failed, x # y
    PROVE  ~(Cardinality(Failed) <= 1)
<1>1. IsFiniteSet(Uploads \union Purges)
    BY ArtifactAssumption, FS_Union
<1>2. Failed \subseteq Uploads \union Purges
    BY DEF Failed
<1>3. IsFiniteSet(Failed) /\ Cardinality(Failed) \in Nat
    BY <1>1, <1>2, FS_Subset, FS_CardinalityType
<1>4. IsFiniteSet({x}) /\ Cardinality({x}) = 1
    BY FS_Singleton
<1>5. Cardinality({x} \union {y}) = 2
    BY <1>4, FS_AddElement
<1>6. {x} \union {y} \in SUBSET Failed
    OBVIOUS
<1>7. Cardinality({x} \union {y}) <= Cardinality(Failed)
    BY <1>3, <1>6, FS_Subset
<1>8. QED
    BY <1>3, <1>5, <1>7

\* The two files of an input are where its row says: back in place after a failure, and
\* out of reach of readers and of Hermes after a deletion, unless a purge whose COMMIT
\* failed has put them back without its locks (restoreFiles, restoreMoves, quarantine).
THEOREM FilesStayWithRows ==
    ASSUME OneFilePerName
    PROVE  LifecycleSpec => []FilesFollowRows
<1>1. FilesIInv => DeletedIsOutOfReach
    BY DEF FilesIInv, CopiesInv, Fine, OutOfReach, DeletedIsOutOfReach
<1>2. ASSUME FilesIInv, NEW a \in Artifacts,
             rows[a] = "live", faults = 0, Cardinality(Failed) <= 1,
             leaving[ThreadOf[RunOf[a]]].runs = {},
             a \in Uploads => deletions[a] \in {"none", "failed"},
             \A p \in Purges : purges[p].pc \notin {"inspected", "moved", "restoring"}
      PROVE  \E c \in files : /\ PrivateCopy(c, a) /\ c.aside = "free"
                              /\ c.moved # "free" => <<c.run, "private">> \in made
  <2>1. Owed(a) /\ Stored(RunOf[a])
    BY <1>2 DEF FilesIInv, RowsInv, Owed
  <2>2. PICK c \in files : PrivateCopy(c, a)
    BY <1>2, <2>1 DEF FilesIInv, CopiesInv, KeptInv
  <2>3. c \in Copy /\ Placed(c) /\ SetAside(c) /\ MovedAway(c)
    BY <1>2, WhatIsTyped DEF FilesIInv, CopiesInv, Fine
  <2>4. /\ c.of = a /\ c.place = "private" /\ c.run = RunOf[a]
        /\ c.aside \in Uploads \union {"free"} /\ c.moved \in Purges \union {"free"}
        /\ Uploads \intersect Purges = {}
    BY <2>2, <2>3, CopyParts, ArtifactAssumption DEF PrivateCopy, Placed
  <2>5. c.moved # "free" => c.moved \in Failed
    BY <1>2, <2>1, <2>3, <2>4 DEF MovedAway, MayRestore, Failed
  <2>6. c.aside = "free"
    <3> SUFFICES ASSUME c.aside # "free" PROVE FALSE
      OBVIOUS
    <3>1. c.aside = a /\ a \in Uploads
      BY <2>3, <2>4 DEF Placed
    <3>2. deletions[a] = "failed"
      BY <1>2, <2>3, <3>1 DEF SetAside
    <3>3. a \in Failed
      BY <3>1, <3>2 DEF Failed
    <3>4. PICK p \in Purges : p \in Failed
      <4>1. c.moved # "free" \/ PurgeFailed
        BY <1>2, <2>1, <2>3, <2>4, <3>1, <3>2 DEF SetAside
      <4>2. QED
        BY <2>4, <2>5, <4>1 DEF PurgeFailed, Failed
    <3>5. QED
      BY <1>2, <2>4, <3>1, <3>3, <3>4, FailuresCount
  <2>7. ASSUME c.moved # "free" PROVE <<c.run, "private">> \in made
    <3>1. GaveUp(c.moved) /\ ~Left(c)
      BY <1>2, <2>1, <2>3, <2>4, <2>7 DEF MovedAway, MayRestore, Left
    <3>2. <<c.run, c.place>> \in made \/ MovedAgain(c)
      BY <1>2, <2>1, <2>3, <2>4, <2>7, <3>1 DEF MovedAway
    <3>3. ASSUME MovedAgain(c) PROVE FALSE
      <4>1. PICK q \in Purges \ {c.moved} : GaveUp(q)
        BY <1>2, <3>3 DEF MovedAgain, MayRestore
      <4>2. QED
        BY <1>2, <2>5, <2>7, <4>1, FailuresCount DEF Failed
    <3>4. QED
      BY <2>4, <3>2, <3>3
  <2>8. QED
    BY <2>2, <2>6, <2>7
<1>3. FilesIInv => RestoredInPlace
    BY <1>2 DEF RestoredInPlace
<1>4. FilesIInv => FilesFollowRows
    BY <1>1, <1>3 DEF FilesFollowRows
<1>5. QED
    BY <1>4, FilesAreInductive, PTL
=============================================================================
