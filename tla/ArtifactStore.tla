----------------------------- MODULE ArtifactStore -----------------------------
(***************************************************************************)
(* The files of the runs: the bytes in the private store and in the shared *)
(* work directories, and the rows of the table "artifacts".                *)
(*                                                                         *)
(* Bytes and rows change in different steps, and only the rows know        *)
(* transactions: an upload writes its private file, copies it to the work  *)
(* directory and then inserts its row; the delivery of a completed run     *)
(* lists what is known, copies and inserts; a deletion moves the files     *)
(* aside under the lock of its run, and removes them after the commit.     *)
(* Requests that are refused before they write anything are left out.      *)
(***************************************************************************)
EXTENDS Integers, FiniteSets

CONSTANTS
    Threads, Runs,
    Uploads,      \* the input files people send; each is one artifact
    Scans,        \* the deliveries of outputs; each may record one artifact
    ThreadOf,     \* the thread of a run
    RunOf,        \* the run of an upload or a delivery
    NameOf,       \* the name of an uploaded file
    Purges,       \* the requests for a purge
    FirstVersion, \* 0 when the site has never set a retention policy
    MaxCount,     \* the quota of input files of a run
    MaxClock, MaxFaults \* bounds

Artifacts == Uploads \union Scans

ASSUME ArtifactAssumption ==
    /\ ThreadOf \in [Runs -> Threads] /\ RunOf \in [Artifacts -> Runs]
    /\ {FirstVersion, MaxCount, MaxClock, MaxFaults} \subseteq Nat
    /\ IsFiniteSet(Uploads) /\ IsFiniteSet(Purges)
    /\ Uploads \intersect Scans = {} /\ Uploads \intersect Purges = {}
    /\ Runs \intersect Artifacts = {} /\ "free" \notin Uploads \union Purges
    \* inputs, outputs and what Hermes writes have directories of their own
    /\ \A u \in Uploads : NameOf[u] \notin Scans \union {"out"}
    /\ "out" \notin Scans

VARIABLES
    clock,      \* counts retention periods
    threads,    \* the threads that exist
    runs,       \* the status of each run
    rows,       \* the row of each artifact
    dated,      \* the date of the last event of a run, of the row of an artifact
    files,      \* the copies of bytes on the disk
    made,       \* the directories that exist, as <<run, place>>
    uploads, scans, deletions, \* where each request is
    policyLock, \* the transaction that holds the row of the policy
    policy,     \* that row; version 0 stands for its absence
    faults

storeVars == <<clock, threads, runs, rows, dated, files, made, uploads, scans,
               deletions, policyLock, policy, faults>>

Places == {"private", "work"}

\* A copy has its path within a place; "aside" names the deletion that has moved
\* it, "moved" the purge that has moved its whole directory.
Copy == [run : Runs, name : {NameOf[u] : u \in Uploads} \union Scans \union {"out"},
         place : Places, of : Artifacts \union Runs,
         aside : Uploads \union {"free"}, moved : Purges \union {"free"}]

ArtifactTypeOK ==
    /\ clock \in 0 .. MaxClock /\ faults \in 0 .. MaxFaults
    /\ threads \subseteq Threads
    /\ runs \in [Runs -> {"absent", "active", "terminal", "gone"}]
    /\ rows \in [Artifacts -> {"none", "live", "deleted", "gone"}]
    /\ dated \in [Runs \union Artifacts -> 0 .. MaxClock]
    /\ files \subseteq Copy /\ made \subseteq Runs \X Places
    /\ uploads \in [Uploads -> {"none", "admitted", "written", "staged", "done", "refused"}]
    /\ scans \in [Scans -> {"none", "known", "new", "copied", "done", "refused"}]
    /\ deletions \in [Uploads -> {"none", "quarantined", "restoring", "committed", "pending", "failed", "done"}]
    /\ policyLock \in {"free"} \union Uploads \union Purges
    /\ policy \in [version : Nat, hold : BOOLEAN]

ArtifactInit ==
    /\ clock = 0 /\ threads = Threads
    /\ runs = [r \in Runs |-> "absent"] /\ rows = [a \in Artifacts |-> "none"]
    /\ dated = [x \in Runs \union Artifacts |-> 0]
    /\ files = {} /\ made = {}
    /\ uploads = [u \in Uploads |-> "none"] /\ scans = [s \in Scans |-> "none"]
    /\ deletions = [u \in Uploads |-> "none"]
    /\ policyLock = "free" /\ policy = [version |-> FirstVersion, hold |-> FALSE] /\ faults = 0

\* What is at a path now.
At(run, name, place) ==
    {c \in files : /\ c.run = run /\ c.name = name /\ c.place = place
                   /\ c.aside = "free" /\ c.moved = "free"}

Saved(run, name, place, of) ==
    [run |-> run, name |-> name, place |-> place, of |-> of, aside |-> "free", moved |-> "free"]

\* A deletion locks the row of the run until its transaction ends.
RunFree(r) == \A u \in Uploads : RunOf[u] = r => deletions[u] # "quarantined"

Stored(r) == runs[r] \in {"active", "terminal"}

Live(r, S) == {a \in S : RunOf[a] = r /\ rows[a] = "live"}

-----------------------------------------------------------------------------
(* The runs *)

KeepsFiles == UNCHANGED <<rows, uploads, scans, deletions, policyLock, policy, faults>>

Tick == clock < MaxClock /\ clock' = clock + 1 /\ KeepsFiles
        /\ UNCHANGED <<threads, runs, dated, files, made>>

createRunForThread(r) ==
    /\ runs[r] = "absent" /\ ThreadOf[r] \in threads
    /\ \A q \in Runs : ThreadOf[q] = ThreadOf[r] => runs[q] # "active"
    /\ runs' = [runs EXCEPT ![r] = "active"]
    /\ dated' = [dated EXCEPT ![r] = clock]
    /\ made' = made \union {<<r, "work">>}
    /\ KeepsFiles /\ UNCHANGED <<clock, threads, files>>

\* Hermes has written an output where the run can be read.
EndRun(r) ==
    /\ runs[r] = "active" /\ RunFree(r)
    /\ runs' = [runs EXCEPT ![r] = "terminal"]
    /\ dated' = [dated EXCEPT ![r] = clock]
    /\ files' = IF <<r, "work">> \in made THEN files \union {Saved(r, "out", "work", r)} ELSE files
    /\ KeepsFiles /\ UNCHANGED <<clock, threads, made>>

-----------------------------------------------------------------------------
(* The upload of an input file *)

UploadGoes(u, from, to) == uploads[u] = from /\ uploads' = [uploads EXCEPT ![u] = to]

KeepsUpload == UNCHANGED <<clock, threads, runs, scans, deletions, policyLock, policy, faults>>

InputPath(u, place) == At(RunOf[u], NameOf[u], place)

\* The quota is read here and never again.
AdmitInput(u) ==
    /\ Stored(RunOf[u])
    /\ Cardinality(Live(RunOf[u], Uploads)) < MaxCount
    /\ UploadGoes(u, "none", "admitted")
    /\ KeepsUpload /\ UNCHANGED <<rows, dated, files, made>>

\* The file is created exclusively; what the refusal removes is the file that
\* was there.
writeFileWithHash(u) ==
    /\ made' = made \union ({RunOf[u]} \X Places)
    /\ IF InputPath(u, "private") = {}
       THEN /\ files' = files \union {Saved(RunOf[u], NameOf[u], "private", u)}
            /\ UploadGoes(u, "admitted", "written")
       ELSE /\ files' = files \ InputPath(u, "private")
            /\ UploadGoes(u, "admitted", "refused")
    /\ KeepsUpload /\ UNCHANGED <<rows, dated>>

\* The copy for Hermes is made from the path of the private file.
StageInput(u) ==
    /\ IF InputPath(u, "private") # {} /\ <<RunOf[u], "work">> \in made
       THEN /\ files' = (files \ InputPath(u, "work"))
                          \union {[c EXCEPT !.place = "work"] : c \in InputPath(u, "private")}
            /\ UploadGoes(u, "written", "staged")
       ELSE /\ files' = files \ InputPath(u, "private")
            /\ UploadGoes(u, "written", "refused")
    /\ KeepsUpload /\ UNCHANGED <<rows, dated, made>>

InsertInput(u) ==
    /\ RunFree(RunOf[u]) /\ Stored(RunOf[u])
    /\ UploadGoes(u, "staged", "done")
    /\ rows' = [rows EXCEPT ![u] = "live"] /\ dated' = [dated EXCEPT ![u] = clock]
    /\ KeepsUpload /\ UNCHANGED <<files, made>>

\* The run is gone, a membership has changed or the audit refuses.
RefuseInput(u) ==
    /\ UploadGoes(u, "staged", "refused")
    /\ files' = files \ (InputPath(u, "private") \union InputPath(u, "work"))
    /\ KeepsUpload /\ UNCHANGED <<rows, dated, made>>

depositInputFile(u) ==
    AdmitInput(u) \/ writeFileWithHash(u) \/ StageInput(u) \/ InsertInput(u) \/ RefuseInput(u)

-----------------------------------------------------------------------------
(* The delivery of the outputs of a completed run *)

ScanGoes(s, from, to) == scans[s] \in from /\ scans' = [scans EXCEPT ![s] = to]

KeepsScan == UNCHANGED <<clock, threads, runs, uploads, deletions, policyLock, policy, faults>>

KnownOutput(s) == Live(RunOf[s], Scans) # {}

\* What is known is read before the copy; another delivery may be doing the same.
ListOutputs(s) ==
    /\ runs[RunOf[s]] = "terminal"
    /\ ScanGoes(s, {"none"}, IF <<RunOf[s], "work">> \notin made THEN "refused"
                           ELSE IF KnownOutput(s) THEN "known" ELSE "new")
    /\ KeepsScan /\ UNCHANGED <<rows, dated, files, made>>

\* The private copy has a name of its own; that of a known output is removed.
CopyOutput(s) ==
    /\ IF At(RunOf[s], "out", "work") # {}
       THEN /\ made' = made \union ({RunOf[s]} \X {"private"})
            /\ \/ /\ ScanGoes(s, {"known"}, "done") /\ UNCHANGED files
               \/ /\ ScanGoes(s, {"new"}, "copied")
                  /\ files' = files \union {Saved(RunOf[s], s, "private", s)}
       ELSE ScanGoes(s, {"known", "new"}, "refused") /\ UNCHANGED <<files, made>>
    /\ KeepsScan /\ UNCHANGED <<rows, dated>>

InsertOutput(s) ==
    /\ RunFree(RunOf[s]) /\ Stored(RunOf[s])
    /\ ScanGoes(s, {"copied"}, "done")
    /\ rows' = [rows EXCEPT ![s] = "live"] /\ dated' = [dated EXCEPT ![s] = clock]
    /\ KeepsScan /\ UNCHANGED <<files, made>>

RefuseOutput(s) ==
    /\ ScanGoes(s, {"copied"}, "refused")
    /\ files' = files \ At(RunOf[s], s, "private")
    /\ KeepsScan /\ UNCHANGED <<rows, dated, made>>

scanOutputArtifacts(s) == ListOutputs(s) \/ CopyOutput(s) \/ InsertOutput(s) \/ RefuseOutput(s)

-----------------------------------------------------------------------------
(* The deletion of an artifact.  That of an output is always refused: its    *)
(* private file never has the path the deletion derives from its name.       *)

Deletes(u, from, to) == deletions[u] = from /\ deletions' = [deletions EXCEPT ![u] = to]

KeepsDeletion == UNCHANGED <<clock, threads, runs, dated, made, uploads, scans, policy>>

Aside(u) == {c \in files : c.aside = u /\ c.moved = "free"}

\* Mutant: the policy is read, but not for update.
LocksNoPolicy(u) == policyLock = "free" /\ ~policy.hold /\ UNCHANGED policyLock

\* A policy that does not exist is not locked.
LocksPolicy(u) ==
    /\ policyLock = "free" /\ ~policy.hold
    /\ policyLock' = IF policy.version > 0 THEN u ELSE "free"

PrivateTarget(u) == InputPath(u, "private")

Targets(u) == InputPath(u, "private") \union InputPath(u, "work")

RemoveArtifact(u) ==
    /\ rows[u] = "live" /\ runs[RunOf[u]] = "terminal" /\ RunFree(RunOf[u])
    /\ LocksPolicy(u)
    /\ Deletes(u, "none", "quarantined")
    /\ files' = files \ Targets(u)
    /\ KeepsDeletion /\ UNCHANGED <<rows, faults>>

QuarantineArtifact(u) ==
    /\ rows[u] = "live" /\ runs[RunOf[u]] = "terminal" /\ RunFree(RunOf[u])
    /\ LocksPolicy(u)
    /\ Deletes(u, "none", "quarantined")
    /\ files' = (files \ Targets(u)) \union {[c EXCEPT !.aside = u] : c \in Targets(u)}
    /\ KeepsDeletion /\ UNCHANGED <<rows, faults>>

Unlocks(x) == policyLock' = IF policyLock = x THEN "free" ELSE policyLock

CommitDeletion(u) ==
    /\ Deletes(u, "quarantined", "committed") /\ Unlocks(u)
    /\ rows' = [rows EXCEPT ![u] = "deleted"]
    /\ KeepsDeletion /\ UNCHANGED <<files, faults>>

\* The transaction is rolled back, the files follow.
FailDeletion(u) ==
    /\ Deletes(u, "quarantined", "restoring") /\ Unlocks(u)
    /\ KeepsDeletion /\ UNCHANGED <<rows, files, faults>>

RestoresNothing(u) ==
    /\ Deletes(u, "restoring", "failed")
    /\ KeepsDeletion /\ UNCHANGED <<rows, files, policyLock, faults>>

\* A path that is taken again keeps what it has.
restoreFiles(u) ==
    LET back == {c \in Aside(u) : At(c.run, c.name, c.place) = {}} IN
    /\ Deletes(u, "restoring", "failed")
    /\ files' = (files \ back) \union {[c EXCEPT !.aside = "free"] : c \in back}
    /\ KeepsDeletion /\ UNCHANGED <<rows, policyLock, faults>>

RemoveAside(u) ==
    /\ Deletes(u, "committed", "done") /\ files' = files \ Aside(u)
    /\ KeepsDeletion /\ UNCHANGED <<rows, policyLock, faults>>

LeaveAside(u) ==
    /\ Deletes(u, "committed", "pending")
    /\ faults < MaxFaults /\ faults' = faults + 1
    /\ KeepsDeletion /\ UNCHANGED <<rows, files, policyLock>>

deleteArtifactEverywhere(u) ==
    \/ QuarantineArtifact(u) \/ CommitDeletion(u) \/ FailDeletion(u)
    \/ restoreFiles(u) \/ RemoveAside(u) \/ LeaveAside(u)
=============================================================================
