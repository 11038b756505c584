-------------------------- MODULE RunExecutionProofs --------------------------
(***************************************************************************)
(* RunExecution for any number of runs, readers, cancellations and long    *)
(* operations; then ApprovalRelay, over it, for any number of demands and  *)
(* approvers.                                                              *)
(*                                                                         *)
(* First the activities: it is well typed, the registry of readers is      *)
(* sound, its steps are those the guard of the runtime allows, and a long  *)
(* operation never runs beside a request or a reader.  ReaderIsRegistered  *)
(* is not inductive: that a `finally` erases no other reader needs         *)
(* RegistrationIsAlive and the run of every working reader, which in turn  *)
(* needs the shape of each kind of activity.                               *)
(*                                                                         *)
(* Then what becomes of the runs: a completed run has completed in Hermes, *)
(* a cancelled one was asked to be, one that waits for a human has its     *)
(* request, one that was closed is not deleted, and none is left with      *)
(* nobody to close it.  None of these is inductive.  A status is written   *)
(* one await after it was decided, so each activity must carry the warrant *)
(* of what it is about to write (CompletedInv, WarrantInv).  That somebody *)
(* owes each run its end (StrandInv) needs to know which requests are over *)
(* (RequestInv), what the reconciliation still holds (BootInv), and in     *)
(* what state a reader leaves its run (EndsInv).                           *)
(***************************************************************************)
EXTENDS ApprovalRelay, FiniteSetTheorems, TLAPS

ClosePCs   == {"close_read", "close_write"}
RequestPCs == {"idle", "finished", "reserved", "prepared", "discarding"}

RequestShape(a) == a.pc \in RequestPCs

ReaderShape(a) ==
    /\ a.pc \in ReaderPCs \union ClosePCs \union {"idle"}
    /\ a.pc # "idle" => a.run \in Runs
    /\ a.pc \in ClosePCs => a.outcome \in TerminalStatuses /\ a.next \in {"read", "leaving"}

CancellerShape(a) ==
    /\ a.pc \in ClosePCs \union {"idle", "finished", "cancel", "local",
                                 "list", "next", "probe", "resume"}
    /\ a.pc \in ClosePCs \union {"cancel", "local", "probe", "resume"} =>
          a.run \in Runs /\ a.next \in {"next", "finished"}
    /\ a.pc \in ClosePCs => a.outcome \in TerminalStatuses

Shapes ==
    /\ \A r \in Runs : RequestShape(proc[r])
    /\ \A p \in Readers : ReaderShape(proc[p])
    /\ \A c \in Cancellers : CancellerShape(proc[c])

\* What the activities and the registry of readers satisfy.
ActivityInv ==
    /\ proc \in [Procs -> Activities]
    /\ activeRuns \in [Runs -> Readers \union {NoReader}]
    /\ Shapes
    /\ ReaderIsRegistered
    /\ RegistrationIsAlive

\* What the rest of the state satisfies.
DataInv ==
    /\ StoreTypeOK
    /\ todo \subseteq Runs \X BOOLEAN
    /\ mutationLease \in Mutators \union {NoLease}
    /\ runReservations \in Nat
    /\ hermes \in [Runs -> HermesRuns]
    /\ crashes \in 0..MaxCrashes
    /\ cancelAsked \subseteq Runs

IInv == ActivityInv /\ DataInv

-----------------------------------------------------------------------------
(* Records *)

\* The program counters of each kind of activity are program counters.
LEMMA PCsAreTyped ==
    /\ ReaderPCs \subseteq PCs /\ RequestPCs \subseteq PCs /\ ClosePCs \subseteq PCs
    /\ TerminalStatuses \subseteq Outcomes
BY DEF PCs, ReaderPCs, RequestPCs, ClosePCs, Outcomes

\* The kinds of activities are disjoint.
LEMMA KindsAreDisjoint ==
    /\ \A r \in Runs : r \in Procs /\ r \notin Readers /\ r \notin Cancellers
    /\ \A p \in Readers : p \in Procs /\ p \notin Runs /\ p \notin Cancellers /\ p # NoReader
    /\ \A c \in Cancellers : c \in Procs /\ c \notin Runs /\ c \notin Readers
    /\ Boot \in Cancellers
BY RunExecutionAssumption DEF Procs, Cancellers

\* The activities that the actions create from nothing.
LEMMA NewActivities ==
    /\ Idle \in Activities /\ Finished \in Activities /\ Listing \in Activities
    /\ Idle.pc = "idle" /\ Finished.pc = "finished" /\ Listing.pc = "list"
    /\ \A r \in Runs, source \in {"fresh", "reconciled"} :
         /\ Reader(r, source) \in Activities
         /\ Reader(r, source).pc = "context"
         /\ Reader(r, source).run = r
         /\ Reader(r, source).source = source
         /\ Reader(r, source).aborted = "no"
BY ZenonT(40) DEF Idle, Finished, Listing, Reader, Activities, PCs, ReaderPCs, Outcomes

-----------------------------------------------------------------------------
(* Steps of one activity *)

\* The registry is indifferent to what readers do, as long as they neither start
\* nor leave, keep their run and their source, and stay aborted once they are.
LEMMA RegistryIsIndifferent ==
    ASSUME ActivityInv, UNCHANGED activeRuns,
           \A q \in Readers :
               /\ proc'[q].pc = "idle" <=> proc[q].pc = "idle"
               /\ proc'[q].run = proc[q].run
               /\ proc'[q].source = proc[q].source
               /\ proc[q].aborted # "no" => proc'[q].aborted # "no"
    PROVE  ReaderIsRegistered' /\ RegistrationIsAlive'
<1>1. ReaderIsRegistered'
  <2> SUFFICES ASSUME NEW p \in Readers, proc'[p].pc # "idle",
                      proc'[p].source = "fresh" \/ proc'[p].aborted = "no"
               PROVE  activeRuns[proc[p].run] = p
    BY DEF ReaderIsRegistered, At, RunOf, Fresh, Aborted
  <2>1. QED
    BY DEF ActivityInv, ReaderIsRegistered, At, RunOf, Fresh, Aborted
<1>2. RegistrationIsAlive'
  <2> SUFFICES ASSUME NEW r \in Runs, activeRuns[r] # NoReader
               PROVE  proc'[activeRuns[r]].pc # "idle" /\ proc'[activeRuns[r]].run = r
    BY DEF RegistrationIsAlive, At, RunOf
  <2>1. activeRuns[r] \in Readers
    BY DEF ActivityInv
  <2>2. QED
    BY <2>1 DEF ActivityInv, RegistrationIsAlive, At, RunOf
<1>3. QED
    BY <1>1, <1>2

\* A reader goes from one await to another.
LEMMA ReaderGoes ==
    ASSUME ActivityInv, NEW p \in Readers, NEW pc \in ReaderPCs,
           proc[p].pc # "idle", Goto(p, pc), UNCHANGED activeRuns
    PROVE  ActivityInv'
<1>1. /\ proc' \in [Procs -> Activities]
      /\ proc'[p] = [proc[p] EXCEPT !.pc = pc]
      /\ \A q \in Procs : q # p => proc'[q] = proc[q]
    BY KindsAreDisjoint, PCsAreTyped DEF ActivityInv, Goto, Activities
<1>2. /\ proc'[p].pc = pc /\ proc'[p].run = proc[p].run
      /\ proc'[p].source = proc[p].source /\ proc'[p].aborted = proc[p].aborted
      /\ pc # "idle" /\ pc \notin ClosePCs
    BY <1>1, KindsAreDisjoint DEF ActivityInv, Activities, ReaderPCs, ClosePCs
<1>3. Shapes'
    BY <1>1, <1>2, KindsAreDisjoint
    DEF ActivityInv, Shapes, RequestShape, ReaderShape, CancellerShape
<1>4. ReaderIsRegistered' /\ RegistrationIsAlive'
    BY <1>1, <1>2, KindsAreDisjoint, RegistryIsIndifferent
<1>5. QED
    BY <1>1, <1>3, <1>4 DEF ActivityInv

\* A reader starts to close its run.
LEMMA ReaderCloses ==
    ASSUME ActivityInv, NEW p \in Readers, proc[p].pc # "idle",
           NEW outcome \in TerminalStatuses, NEW next \in {"read", "leaving"},
           NEW terminal \in BOOLEAN,
           proc' = [proc EXCEPT ![p] = [proc[p] EXCEPT !.pc = "close_read", !.outcome = outcome,
                                                       !.next = next, !.terminal = terminal]],
           UNCHANGED activeRuns
    PROVE  ActivityInv'
<1> DEFINE b == [proc[p] EXCEPT !.pc = "close_read", !.outcome = outcome,
                                !.next = next, !.terminal = terminal]
<1>0. p \in Procs /\ proc[p] \in Activities
    BY KindsAreDisjoint DEF ActivityInv
<1>1. /\ b \in Activities
      /\ b.pc = "close_read" /\ b.outcome = outcome /\ b.next = next
      /\ b.run = proc[p].run /\ b.source = proc[p].source /\ b.aborted = proc[p].aborted
  <2>1. outcome \in Outcomes /\ "close_read" \in PCs
    BY DEF Outcomes, PCs
  <2>2. QED
    BY <1>0, <2>1 DEF Activities
<1> HIDE DEF b
<1>2. /\ proc' \in [Procs -> Activities] /\ proc'[p] = b
      /\ \A q \in Procs : q # p => proc'[q] = proc[q]
    BY <1>0, <1>1 DEF ActivityInv, b
<1>3. Shapes'
    BY <1>1, <1>2, KindsAreDisjoint
    DEF ActivityInv, Shapes, RequestShape, ReaderShape, CancellerShape, ClosePCs
<1>4. ReaderIsRegistered' /\ RegistrationIsAlive'
    BY <1>1, <1>2, KindsAreDisjoint, RegistryIsIndifferent
<1>5. QED
    BY <1>2, <1>3, <1>4 DEF ActivityInv

\* A request of creation moves on and changes nothing else of the activities.
LEMMA RequestGoes ==
    ASSUME ActivityInv, NEW r \in Runs, NEW a \in Activities, RequestShape(a),
           proc' = [proc EXCEPT ![r] = a], UNCHANGED activeRuns
    PROVE  ActivityInv'
<1>1. /\ proc' \in [Procs -> Activities]
      /\ proc'[r] = a
      /\ \A q \in Procs : q # r => proc'[q] = proc[q]
    BY KindsAreDisjoint DEF ActivityInv
<1>2. Shapes'
    BY <1>1, KindsAreDisjoint
    DEF ActivityInv, Shapes, RequestShape, ReaderShape, CancellerShape
<1>3. ReaderIsRegistered' /\ RegistrationIsAlive'
    BY <1>1, KindsAreDisjoint, RegistryIsIndifferent
<1>4. QED
    BY <1>1, <1>2, <1>3 DEF ActivityInv

\* So does a cancellation, or the reconciliation.
LEMMA CancellerGoes ==
    ASSUME ActivityInv, NEW c \in Cancellers, NEW a \in Activities, CancellerShape(a),
           proc' = [proc EXCEPT ![c] = a], UNCHANGED activeRuns
    PROVE  ActivityInv'
<1>1. /\ proc' \in [Procs -> Activities]
      /\ proc'[c] = a
      /\ \A q \in Procs : q # c => proc'[q] = proc[q]
    BY KindsAreDisjoint DEF ActivityInv
<1>2. Shapes'
    BY <1>1, KindsAreDisjoint
    DEF ActivityInv, Shapes, RequestShape, ReaderShape, CancellerShape
<1>3. ReaderIsRegistered' /\ RegistrationIsAlive'
    BY <1>1, KindsAreDisjoint, RegistryIsIndifferent
<1>4. QED
    BY <1>1, <1>2, <1>3 DEF ActivityInv

\* A reader starts on a run that nobody follows, and another activity `q` of the
\* process, which launches it, moves on to `b`.
LEMMA ReaderStarts ==
    ASSUME ActivityInv, NEW p \in Readers, proc[p].pc = "idle",
           NEW r \in Runs, activeRuns[r] = NoReader,
           NEW source \in {"fresh", "reconciled"},
           NEW q \in Runs \union Cancellers, NEW b \in Activities,
           q \in Runs => RequestShape(b), q \in Cancellers => CancellerShape(b),
           proc' = [proc EXCEPT ![q] = b, ![p] = Reader(r, source)],
           activeRuns' = [activeRuns EXCEPT ![r] = p]
    PROVE  ActivityInv'
<1> DEFINE new == Reader(r, source)
<1>1. /\ p # q /\ p \in Procs /\ q \in Procs /\ p # NoReader /\ q \notin Readers
      /\ new \in Activities /\ new.pc = "context" /\ new.run = r
    BY KindsAreDisjoint, NewActivities
<1> HIDE DEF new
<1>2. /\ proc' \in [Procs -> Activities]
      /\ proc'[p] = new /\ proc'[q] = b
      /\ \A o \in Procs : o # p /\ o # q => proc'[o] = proc[o]
    BY <1>1 DEF ActivityInv, new
<1>3. /\ activeRuns' \in [Runs -> Readers \union {NoReader}]
      /\ activeRuns'[r] = p
      /\ \A s \in Runs : s # r => activeRuns'[s] = activeRuns[s]
    BY DEF ActivityInv
<1>4. Shapes'
    BY <1>1, <1>2, KindsAreDisjoint
    DEF ActivityInv, Shapes, RequestShape, ReaderShape, CancellerShape, ReaderPCs, ClosePCs
<1>5. ReaderIsRegistered'
  <2> SUFFICES ASSUME NEW o \in Readers, proc'[o].pc # "idle",
                      proc'[o].source = "fresh" \/ proc'[o].aborted = "no"
               PROVE  activeRuns'[proc'[o].run] = o
    BY DEF ReaderIsRegistered, At, RunOf, Fresh, Aborted
  <2>1. CASE o = p
    BY <1>1, <1>2, <1>3, <2>1
  <2>2. CASE o # p
    <3>1. proc'[o] = proc[o] /\ proc[o].run \in Runs /\ activeRuns[proc[o].run] = o
      BY <1>1, <1>2, <2>2, KindsAreDisjoint
      DEF ActivityInv, Shapes, ReaderShape, ReaderIsRegistered, At, RunOf, Fresh, Aborted
    <3>2. QED
      BY <3>1, <1>3, KindsAreDisjoint
  <2>3. QED
    BY <2>1, <2>2
<1>6. RegistrationIsAlive'
  <2> SUFFICES ASSUME NEW s \in Runs, activeRuns'[s] # NoReader
               PROVE  proc'[activeRuns'[s]].pc # "idle" /\ proc'[activeRuns'[s]].run = s
    BY DEF RegistrationIsAlive, At, RunOf
  <2>1. CASE s = r
    BY <1>1, <1>2, <1>3, <2>1
  <2>2. CASE s # r
    <3>1. /\ activeRuns'[s] \in Readers /\ activeRuns'[s] = activeRuns[s]
          /\ proc[activeRuns[s]].pc # "idle" /\ proc[activeRuns[s]].run = s
      BY <1>3, <2>2 DEF ActivityInv, RegistrationIsAlive, At, RunOf
    <3>2. proc'[activeRuns[s]] = proc[activeRuns[s]]
      BY <3>1, <1>1, <1>2, KindsAreDisjoint
    <3>3. QED
      BY <3>1, <3>2
  <2>3. QED
    BY <2>1, <2>2
<1>7. QED
    BY <1>2, <1>3, <1>4, <1>5, <1>6 DEF ActivityInv

\* The same step, written with GoClose.
LEMMA ReaderGoCloses ==
    ASSUME ActivityInv, NEW p \in Readers, proc[p].pc # "idle",
           NEW outcome \in TerminalStatuses, NEW next \in {"read", "leaving"},
           GoClose(p, outcome, next), UNCHANGED activeRuns
    PROVE  ActivityInv'
<1>1. p \in Procs /\ proc[p] \in Activities
    BY KindsAreDisjoint DEF ActivityInv
<1>2. proc[p].terminal \in BOOLEAN
    BY <1>1 DEF Activities
<1>3. proc' = [proc EXCEPT ![p] = [proc[p] EXCEPT !.pc = "close_read", !.outcome = outcome,
                                       !.next = next, !.terminal = proc[p].terminal]]
    BY <1>1 DEF GoClose, Activities, ActivityInv
<1>4. QED
    BY <1>2, <1>3, ReaderCloses

\* A request or a cancellation goes to another await of its own.
LEMMA ProcessGoes ==
    ASSUME ActivityInv, NEW q \in Runs \union Cancellers, NEW pc \in PCs,
           q \in Runs => pc \in RequestPCs,
           q \in Cancellers => pc \in {"idle", "finished", "list", "next", "resume"},
           q \in Cancellers /\ pc = "resume" => proc[q].pc = "probe",
           Goto(q, pc), UNCHANGED activeRuns
    PROVE  ActivityInv'
<1> DEFINE a == [proc[q] EXCEPT !.pc = pc]
<1>1. q \in Procs /\ proc[q] \in Activities
    BY KindsAreDisjoint DEF ActivityInv
<1>2. a \in Activities /\ a.pc = pc /\ a.run = proc[q].run /\ a.next = proc[q].next
    BY <1>1 DEF Activities
<1>3. proc' = [proc EXCEPT ![q] = a]
    BY DEF Goto
<1> HIDE DEF a
<1>4. CASE q \in Runs
    BY <1>2, <1>3, <1>4, RequestGoes DEF RequestShape
<1>5. CASE q \in Cancellers
  <2>1. CancellerShape(a)
    BY <1>2, <1>5 DEF ActivityInv, Shapes, CancellerShape, ClosePCs
  <2>2. QED
    BY <1>2, <1>3, <1>5, <2>1, CancellerGoes
<1>6. QED
    BY <1>4, <1>5

\* A cancellation starts to close its run.
LEMMA CancellerCloses ==
    ASSUME ActivityInv, NEW c \in Cancellers, proc[c].run \in Runs,
           NEW outcome \in TerminalStatuses, NEW next \in {"next", "finished"},
           GoClose(c, outcome, next), UNCHANGED activeRuns
    PROVE  ActivityInv'
<1> DEFINE a == [proc[c] EXCEPT !.pc = "close_read", !.outcome = outcome, !.next = next]
<1>1. c \in Procs /\ proc[c] \in Activities /\ outcome \in Outcomes /\ "close_read" \in PCs
    BY KindsAreDisjoint DEF ActivityInv, Outcomes, PCs
<1>2. /\ a \in Activities /\ a.pc = "close_read" /\ a.run = proc[c].run
      /\ a.outcome = outcome /\ a.next = next
    BY <1>1 DEF Activities
<1>3. proc' = [proc EXCEPT ![c] = a]
    BY <1>1 DEF GoClose, ActivityInv
<1> HIDE DEF a
<1>4. CancellerShape(a)
    BY <1>2 DEF CancellerShape, ClosePCs
<1>5. QED
    BY <1>2, <1>3, <1>4, CancellerGoes

-----------------------------------------------------------------------------
(* Each action keeps ActivityInv *)

LEMMA CreationKeepsActivities ==
    ASSUME ActivityInv, NEW r \in Runs, Creation(r)
    PROVE  ActivityInv'
<1>0. r \in Procs /\ proc[r] \in Activities
    BY KindsAreDisjoint DEF ActivityInv
<1>1. CASE AcquireRunStart(r)
  <2> DEFINE a == [proc[r] EXCEPT !.pc = "reserved", !.run = r]
  <2>1. a \in Activities /\ a.pc = "reserved"
    BY <1>0 DEF Activities, PCs
  <2>2. proc' = [proc EXCEPT ![r] = a] /\ UNCHANGED activeRuns
    BY <1>0, <1>1 DEF AcquireRunStart, ActivityInv
  <2> HIDE DEF a
  <2>3. QED
    BY <2>1, <2>2, RequestGoes DEF RequestShape, RequestPCs
<1>2. CASE CreateRun(r)
    BY <1>2, ProcessGoes, KindsAreDisjoint DEF CreateRun, Keeps, RequestPCs, PCs
<1>3. CASE RefuseRun(r) \/ DiscardDelete(r) \/ AbandonRun(r)
  <2>1. Ends(r) /\ UNCHANGED activeRuns
    BY <1>3 DEF RefuseRun, DiscardDelete, AbandonRun
  <2>2. QED
    BY <2>1, NewActivities, RequestGoes DEF Ends, RequestShape, RequestPCs
<1>4. CASE StartRun(r)
  <2>1. PICK p \in Readers :
            /\ At(p, "idle")
            /\ proc' = [proc EXCEPT ![r] = Finished, ![p] = Reader(r, "fresh")]
            /\ activeRuns' = [activeRuns EXCEPT ![r] = p]
    BY <1>4 DEF StartRun
  <2>2. activeRuns[r] = NoReader /\ RequestShape(Finished) /\ r \notin Cancellers
    BY <1>4, NewActivities, KindsAreDisjoint DEF StartRun, RequestShape, RequestPCs
  <2>3. QED
    BY <2>1, <2>2, NewActivities, ReaderStarts DEF At
<1>5. CASE DiscardRead(r)
  <2>1. CASE Goto(r, "discarding")
    BY <1>5, <2>1, ProcessGoes, KindsAreDisjoint DEF DiscardRead, RequestPCs, PCs
  <2>2. CASE Ends(r)
    BY <1>5, <2>2, NewActivities, RequestGoes DEF DiscardRead, Ends, RequestShape, RequestPCs
  <2>3. QED
    BY <1>5, <2>1, <2>2 DEF DiscardRead
<1>6. QED
    BY <1>1, <1>2, <1>3, <1>4, <1>5 DEF Creation

\* The registration a reader leaves is its own: a fresh reader is registered, and
\* another one erases only what it finds to be its own.
LEMMA LeavingKeepsActivities ==
    ASSUME ActivityInv, NEW p \in Readers, ReaderLeaves(p)
    PROVE  ActivityInv'
<1> DEFINE r == proc[p].run
<1>1. p \in Procs /\ proc[p].pc = "leaving" /\ r \in Runs
    BY KindsAreDisjoint DEF ReaderLeaves, At, ActivityInv, Shapes, ReaderShape
<1>2. /\ proc' \in [Procs -> Activities]
      /\ proc'[p] = Idle /\ proc'[p].pc = "idle"
      /\ \A q \in Procs : q # p => proc'[q] = proc[q]
    BY <1>1, NewActivities DEF ReaderLeaves, ActivityInv
<1>3. /\ activeRuns' \in [Runs -> Readers \union {NoReader}]
      /\ \A s \in Runs : activeRuns'[s] = activeRuns[s] \/ (s = r /\ activeRuns'[s] = NoReader)
      /\ activeRuns[r] = p => activeRuns'[r] = NoReader
      /\ activeRuns[r] # p => activeRuns' = activeRuns
  <2>1. proc[p].source = "fresh" => activeRuns[r] = p
    BY <1>1 DEF ActivityInv, ReaderIsRegistered, At, RunOf, Fresh
  <2>2. activeRuns' = IF activeRuns[r] = p THEN [activeRuns EXCEPT ![r] = NoReader]
                                            ELSE activeRuns
    BY <2>1 DEF ReaderLeaves, Fresh, RunOf
  <2>3. activeRuns \in [Runs -> Readers \union {NoReader}] /\ r \in Runs
    BY <1>1 DEF ActivityInv
  <2> HIDE DEF r
  <2>4. CASE activeRuns[r] = p
    BY <2>2, <2>3, <2>4
  <2>5. CASE activeRuns[r] # p
    BY <2>2, <2>3, <2>5
  <2>6. QED
    BY <2>4, <2>5
<1> HIDE DEF r
<1>4. Shapes'
    BY <1>2, KindsAreDisjoint
    DEF ActivityInv, Shapes, RequestShape, ReaderShape, CancellerShape, ClosePCs
<1>5. ReaderIsRegistered'
  <2> SUFFICES ASSUME NEW o \in Readers, proc'[o].pc # "idle",
                      proc'[o].source = "fresh" \/ proc'[o].aborted = "no"
               PROVE  activeRuns'[proc'[o].run] = o
    BY DEF ReaderIsRegistered, At, RunOf, Fresh, Aborted
  <2>1. o # p /\ proc'[o] = proc[o]
    BY <1>2, KindsAreDisjoint
  <2>2. proc[o].run \in Runs /\ activeRuns[proc[o].run] = o
    BY <2>1 DEF ActivityInv, Shapes, ReaderShape, ReaderIsRegistered, At, RunOf, Fresh, Aborted
  <2>3. QED
    BY <1>3, <2>1, <2>2
<1>6. RegistrationIsAlive'
  <2> SUFFICES ASSUME NEW s \in Runs, activeRuns'[s] # NoReader
               PROVE  proc'[activeRuns'[s]].pc # "idle" /\ proc'[activeRuns'[s]].run = s
    BY DEF RegistrationIsAlive, At, RunOf
  <2>1. /\ activeRuns'[s] = activeRuns[s] /\ activeRuns[s] \in Readers
        /\ proc[activeRuns[s]].pc # "idle" /\ proc[activeRuns[s]].run = s
    BY <1>3 DEF ActivityInv, RegistrationIsAlive, At, RunOf
  <2>2. activeRuns[s] # p
    BY <1>3, <2>1 DEF r
  <2>3. QED
    BY <1>2, <2>1, <2>2, KindsAreDisjoint
<1>7. QED
    BY <1>2, <1>3, <1>4, <1>5, <1>6 DEF ActivityInv

LEMMA ReadingKeepsActivities ==
    ASSUME IInv, NEW p \in Readers, Reading(p)
    PROVE  ActivityInv'
<1>0. ActivityInv /\ TerminalStatuses = {"completed", "failed", "cancelled"}
    BY DEF IInv, TerminalStatuses
<1>1. CASE ReadContext(p)
    BY <1>0, <1>1, ReaderGoes DEF ReadContext, At, Local, Keeps, ReaderPCs
<1>2. CASE MarkStarting(p)
    BY <1>0, <1>2, ReaderGoes DEF MarkStarting, At, Keeps, ReaderPCs
<1>3. CASE Submit(p)
    BY <1>0, <1>3, ReaderGoes DEF Submit, At, Keeps, ReaderPCs
<1>4. CASE RecordSubmission(p)
  <2> DEFINE a == [proc[p] EXCEPT !.pc = "connect", !.known = TRUE]
  <2>1. p \in Procs /\ proc[p] \in Activities /\ proc[p].pc = "submitted" /\ UNCHANGED activeRuns
    BY <1>0, <1>4, KindsAreDisjoint DEF RecordSubmission, At, Keeps, ActivityInv
  <2>2. /\ a \in Activities /\ a.pc = "connect" /\ a.run = proc[p].run
        /\ a.source = proc[p].source /\ a.aborted = proc[p].aborted
    BY <2>1 DEF Activities, PCs, ReaderPCs
  <2>3. proc' = [proc EXCEPT ![p] = a]
    BY <1>0, <1>4, <2>1 DEF RecordSubmission, ActivityInv
  <2> HIDE DEF a
  <2>4. /\ proc' \in [Procs -> Activities] /\ proc'[p] = a
        /\ \A q \in Procs : q # p => proc'[q] = proc[q]
    BY <1>0, <2>1, <2>2, <2>3 DEF ActivityInv
  <2>5. Shapes'
    BY <1>0, <2>1, <2>2, <2>4, KindsAreDisjoint
    DEF ActivityInv, Shapes, RequestShape, ReaderShape, CancellerShape, ClosePCs, ReaderPCs
  <2>6. ReaderIsRegistered' /\ RegistrationIsAlive'
    BY <1>0, <2>1, <2>2, <2>4, KindsAreDisjoint, RegistryIsIndifferent
  <2>7. QED
    BY <1>0, <2>1, <2>4, <2>5, <2>6 DEF ActivityInv
<1>5. CASE ReadStatus(p)
    BY <1>0, <1>5, ReaderGoes DEF ReadStatus, At, Local, Keeps, ReaderPCs
<1>6. CASE Connect(p)
    BY <1>0, <1>6, ReaderGoes DEF Connect, At, Local, Keeps, ReaderPCs
<1>7. CASE MarkStarted(p)
    BY <1>0, <1>7, ReaderGoes DEF MarkStarted, At, Keeps, ReaderPCs
<1>8. CASE ReceiveAsk(p)
    BY <1>0, <1>8, ReaderGoes DEF ReceiveAsk, At, Keeps, ReaderPCs
<1>9. CASE ReceiveEnd(p)
  <2> DEFINE r == proc[p].run
  <2>1. /\ p \in Procs /\ proc[p].pc = "read" /\ UNCHANGED activeRuns
        /\ hermes[r].state \in TerminalStatuses
    BY <1>9, KindsAreDisjoint DEF ReceiveEnd, At, RunOf, Local, Keeps
  <2>2. CASE Goto(p, "ended")
    BY <1>0, <2>1, <2>2, ReaderGoes DEF ReaderPCs
  <2>3. CASE proc' = [proc EXCEPT ![p].pc = "close_read", ![p].outcome = hermes[r].state,
                                  ![p].next = "read", ![p].terminal = TRUE]
    <3>1. proc[p] \in Activities
      BY <1>0, <2>1 DEF ActivityInv
    <3>2. proc' = [proc EXCEPT ![p] = [proc[p] EXCEPT !.pc = "close_read",
                      !.outcome = hermes[r].state, !.next = "read", !.terminal = TRUE]]
      BY <1>0, <2>1, <2>3, <3>1 DEF ActivityInv, Activities
    <3>3. QED
      BY <1>0, <2>1, <3>2, ReaderCloses
  <2>4. QED
    BY <1>9, <2>2, <2>3 DEF ReceiveEnd, RunOf
<1>10. CASE StreamStops(p)
    BY <1>0, <1>10, ReaderGoes DEF StreamStops, At, Local, Keeps, ReaderPCs
<1>11. CASE InsertRequest(p)
    BY <1>0, <1>11, ReaderGoes DEF InsertRequest, At, Keeps, ReaderPCs
<1>12. CASE AwaitingRead(p)
    BY <1>0, <1>12, ReaderGoes DEF AwaitingRead, At, Local, Keeps, ReaderPCs
<1>13. CASE AwaitingWrite(p)
    BY <1>0, <1>13, ReaderGoes DEF AwaitingWrite, At, Keeps, ReaderPCs
<1>14. CASE StreamEnded(p)
    BY <1>0, <1>14, ReaderGoes, ReaderGoCloses DEF StreamEnded, At, Local, Keeps, ReaderPCs
<1>15. CASE HandleError(p)
    BY <1>0, <1>15, ReaderGoes, ReaderGoCloses DEF HandleError, At, Local, Keeps, ReaderPCs
<1>16. CASE PollHermes(p)
    BY <1>0, <1>16, ReaderGoes, ReaderGoCloses DEF PollHermes, At, Local, Keeps, ReaderPCs
<1>17. CASE CheckAwaiting(p)
    BY <1>0, <1>17, ReaderGoes, ReaderGoCloses DEF CheckAwaiting, At, Local, Keeps, ReaderPCs
<1>18. CASE ReaderLeaves(p)
    BY <1>0, <1>18, LeavingKeepsActivities
<1>19. QED
    BY <1>1, <1>2, <1>3, <1>4, <1>5, <1>6, <1>7, <1>8, <1>9, <1>10, <1>11, <1>12, <1>13,
       <1>14, <1>15, <1>16, <1>17, <1>18 DEF Reading

\* What completeRun, failRun and cancelRun return to.
LEMMA ReturnedActivity ==
    ASSUME NEW p \in Procs, proc[p] \in Activities
    PROVE  /\ proc[p].next = "finished" => Returned(p) = Finished
           /\ proc[p].next = "next" => Returned(p) = [Idle EXCEPT !.pc = "next"]
           /\ proc[p].next \in {"read", "leaving"} =>
                /\ Returned(p) \in Activities
                /\ Returned(p).pc = proc[p].next
                /\ Returned(p).run = proc[p].run
                /\ Returned(p).source = proc[p].source
                /\ Returned(p).aborted = proc[p].aborted
<1>1. CASE proc[p].next = "finished"
    BY <1>1 DEF Returned
<1>2. CASE proc[p].next = "next"
    BY <1>2 DEF Returned
<1>3. CASE proc[p].next \in {"read", "leaving"}
  <2>1. Returned(p) = [proc[p] EXCEPT !.pc = proc[p].next, !.next = "none", !.outcome = "none"]
    BY <1>3 DEF Returned
  <2>2. proc[p].next \in PCs
    BY <1>3 DEF PCs, ReaderPCs
  <2>3. QED
    BY <1>3, <2>1, <2>2 DEF Activities, Outcomes
<1>4. CASE proc[p].next = "none"
    BY <1>4
<1>5. QED
    BY <1>1, <1>2, <1>3, <1>4 DEF Activities

\* A cancellation, or the reconciliation, returns to its caller.
LEMMA CancellerReturns ==
    ASSUME ActivityInv, NEW c \in Cancellers, proc[c].next \in {"next", "finished"},
           Returns(c), UNCHANGED activeRuns
    PROVE  ActivityInv'
<1>1. c \in Procs /\ proc[c] \in Activities
    BY KindsAreDisjoint DEF ActivityInv
<1>2. Returned(c) \in {Finished, [Idle EXCEPT !.pc = "next"]}
    BY <1>1, ReturnedActivity
<1>3. Returned(c) \in Activities /\ Returned(c).pc \in {"finished", "next"}
    BY <1>2, NewActivities DEF Activities, PCs, Idle, Finished
<1>4. CancellerShape(Returned(c))
    BY <1>3 DEF CancellerShape, ClosePCs
<1>5. QED
    BY <1>3, <1>4, CancellerGoes DEF Returns

LEMMA ClosingKeepsActivities ==
    ASSUME ActivityInv, NEW p \in Procs, Closing(p)
    PROVE  ActivityInv'
<1>1. /\ proc[p].pc \in ClosePCs /\ proc[p] \in Activities /\ UNCHANGED activeRuns
      /\ Returns(p) \/ (proc[p].pc = "close_read" /\ Goto(p, "close_write"))
    BY DEF Closing, CloseRead, CloseWrite, At, Local, Keeps, ClosePCs, ActivityInv
<1>2. CASE p \in Runs
    BY <1>1, <1>2 DEF ActivityInv, Shapes, RequestShape, RequestPCs, ClosePCs
<1>3. CASE p \in Readers
  <2>1. /\ proc[p].pc # "idle" /\ proc[p].run \in Runs /\ proc[p].next \in {"read", "leaving"}
        /\ proc[p].outcome \in TerminalStatuses
    BY <1>1, <1>3 DEF ActivityInv, Shapes, ReaderShape, ClosePCs
  <2>2. PICK b \in Activities :
            /\ proc' = [proc EXCEPT ![p] = b]
            /\ ReaderShape(b) /\ b.pc # "idle"
            /\ b.run = proc[p].run /\ b.source = proc[p].source /\ b.aborted = proc[p].aborted
    <3>1. CASE Returns(p)
      <4>1. ReaderShape(Returned(p)) /\ Returned(p).pc # "idle"
        BY <1>1, <2>1, ReturnedActivity DEF ReaderShape, ReaderPCs, ClosePCs
      <4>2. QED
        BY <1>1, <2>1, <3>1, <4>1, ReturnedActivity DEF Returns
    <3>2. CASE Goto(p, "close_write")
      <4> DEFINE b == [proc[p] EXCEPT !.pc = "close_write"]
      <4>1. /\ b \in Activities /\ b.pc = "close_write" /\ b.run = proc[p].run
            /\ b.source = proc[p].source /\ b.aborted = proc[p].aborted
            /\ b.next = proc[p].next /\ b.outcome = proc[p].outcome
        BY <1>1 DEF Activities, PCs
      <4>2. proc' = [proc EXCEPT ![p] = b]
        BY <3>2 DEF Goto
      <4> HIDE DEF b
      <4>3. ReaderShape(b)
        BY <2>1, <4>1 DEF ReaderShape, ClosePCs
      <4>4. QED
        BY <4>1, <4>2, <4>3
    <3>3. QED
      BY <1>1, <3>1, <3>2
  <2>3. /\ proc' \in [Procs -> Activities] /\ proc'[p] = b
        /\ \A q \in Procs : q # p => proc'[q] = proc[q]
    BY <2>2 DEF ActivityInv
  <2>4. Shapes'
    BY <1>3, <2>2, <2>3, KindsAreDisjoint DEF ActivityInv, Shapes
  <2>5. ReaderIsRegistered' /\ RegistrationIsAlive'
    BY <1>1, <2>1, <2>2, <2>3, KindsAreDisjoint, RegistryIsIndifferent
  <2>6. QED
    BY <1>1, <2>3, <2>4, <2>5 DEF ActivityInv
<1>4. CASE p \in Cancellers
  <2>1. proc[p].run \in Runs /\ proc[p].next \in {"next", "finished"}
    BY <1>1, <1>4 DEF ActivityInv, Shapes, CancellerShape
  <2>2. CASE Returns(p)
    BY <1>1, <1>4, <2>1, <2>2, CancellerReturns
  <2>3. CASE proc[p].pc = "close_read" /\ Goto(p, "close_write")
    <3> DEFINE b == [proc[p] EXCEPT !.pc = "close_write"]
    <3>1. /\ b \in Activities /\ b.pc = "close_write" /\ b.run = proc[p].run
          /\ b.next = proc[p].next /\ b.outcome = proc[p].outcome
      BY <1>1 DEF Activities, PCs
    <3>2. proc' = [proc EXCEPT ![p] = b]
      BY <2>3 DEF Goto
    <3> HIDE DEF b
    <3>3. CancellerShape(b)
      BY <1>1, <1>4, <2>1, <3>1 DEF ActivityInv, Shapes, CancellerShape, ClosePCs
    <3>4. QED
      BY <1>1, <1>4, <3>1, <3>2, <3>3, CancellerGoes
  <2>4. QED
    BY <1>1, <2>2, <2>3
<1>5. QED
    BY <1>2, <1>3, <1>4 DEF Procs

LEMMA CancellingKeepsActivities ==
    ASSUME IInv, NEW c \in Cancellers, Cancelling(c)
    PROVE  ActivityInv'
<1>0. ActivityInv /\ c \in Procs /\ proc[c] \in Activities
    BY KindsAreDisjoint DEF IInv, ActivityInv
<1>1. proc[c].run \in Runs /\ proc[c].next \in {"next", "finished"}
    BY <1>0 DEF ActivityInv, Shapes, CancellerShape, Cancelling, CancelLookup, CancelLocally,
                CancelRemotely, At
<1>2. CASE CancelLookup(c)
  <2> DEFINE a == [proc[c] EXCEPT !.pc = "local", !.known = run[proc[c].run].submitted]
  <2>1. UNCHANGED activeRuns
    BY <1>2 DEF CancelLookup, Local, Keeps
  <2>2. CASE Returns(c)
    BY <1>0, <1>1, <2>1, <2>2, CancellerReturns
  <2>3. CASE proc' = [proc EXCEPT ![c].pc = "local", ![c].known = run[proc[c].run].submitted]
    <3>1. run[proc[c].run].submitted \in BOOLEAN
      BY <1>1 DEF IInv, DataInv, StoreTypeOK, Rows
    <3>2. a \in Activities /\ a.pc = "local" /\ a.run = proc[c].run /\ a.next = proc[c].next
      BY <1>0, <3>1 DEF Activities, PCs
    <3>3. proc' = [proc EXCEPT ![c] = a]
      BY <1>0, <2>3 DEF ActivityInv
    <3> HIDE DEF a
    <3>4. CancellerShape(a)
      BY <1>1, <3>2 DEF CancellerShape, ClosePCs
    <3>5. QED
      BY <1>0, <2>1, <3>2, <3>3, <3>4, CancellerGoes
  <2>4. QED
    BY <1>2, <2>2, <2>3 DEF CancelLookup, RunOf
<1>3. CASE CancelLocally(c)
  <2> DEFINE r == proc[c].run
             p == activeRuns[r]
             a == [proc[p] EXCEPT !.aborted = IF @ = "no" THEN "user" ELSE @]
  <2>1. /\ p \in Readers /\ p \in Procs /\ proc[p] \in Activities /\ p # c /\ c \notin Readers
        /\ p \notin Runs /\ p \notin Cancellers
        /\ c \notin Runs /\ UNCHANGED activeRuns
    BY <1>0, <1>1, <1>3, KindsAreDisjoint DEF CancelLocally, RunOf, Keeps, ActivityInv
  <2>2. proc' = [proc EXCEPT ![p] = a, ![c] = Returned(c)]
    BY <1>0, <1>3, <2>1 DEF CancelLocally, RunOf, ActivityInv, Returned
  <2>3. /\ a \in Activities /\ a.pc = proc[p].pc /\ a.run = proc[p].run
        /\ a.source = proc[p].source /\ a.next = proc[p].next /\ a.outcome = proc[p].outcome
        /\ proc[p].aborted # "no" => a.aborted # "no"
    BY <2>1 DEF Activities
  <2> HIDE DEF a, p, r
  <2>4. Returned(c) \in {Finished, [Idle EXCEPT !.pc = "next"]}
    BY <1>0, <1>1, ReturnedActivity
  <2>5. Returned(c) \in Activities /\ Returned(c).pc \in {"finished", "next"}
    BY <2>4, NewActivities DEF Activities, PCs, Idle, Finished
  <2>6. CancellerShape(Returned(c))
    BY <2>5 DEF CancellerShape, ClosePCs
  <2>7. /\ proc' \in [Procs -> Activities] /\ proc'[p] = a /\ proc'[c] = Returned(c)
        /\ \A q \in Procs : q # p /\ q # c => proc'[q] = proc[q]
    BY <1>0, <2>1, <2>2, <2>3, <2>5 DEF ActivityInv
  <2>8. ReaderShape(a)
    BY <1>0, <2>1, <2>3 DEF ActivityInv, Shapes, ReaderShape
  <2>9. Shapes'
    BY <1>0, <2>1, <2>6, <2>7, <2>8, KindsAreDisjoint DEF ActivityInv, Shapes
  <2>10. ReaderIsRegistered' /\ RegistrationIsAlive'
    BY <1>0, <2>1, <2>3, <2>7, KindsAreDisjoint, RegistryIsIndifferent
  <2>11. QED
    BY <1>0, <2>1, <2>7, <2>9, <2>10 DEF ActivityInv
<1>4. CASE CancelRemotely(c)
  <2>1. GoClose(c, "cancelled", proc[c].next) /\ UNCHANGED activeRuns
    BY <1>4 DEF CancelRemotely, Keeps
  <2>2. QED
    BY <1>0, <1>1, <2>1, CancellerCloses DEF TerminalStatuses
<1>5. QED
    BY <1>2, <1>3, <1>4 DEF Cancelling

LEMMA RequestCancelKeepsActivities ==
    ASSUME ActivityInv, NEW c \in Cancels, NEW r \in Runs, RequestCancel(c, r)
    PROVE  ActivityInv'
<1> DEFINE a == [proc[c] EXCEPT !.pc = "cancel", !.run = r, !.next = "finished"]
<1>1. c \in Cancellers /\ c \in Procs /\ proc[c] \in Activities /\ UNCHANGED activeRuns
    BY DEF RequestCancel, Cancellers, Procs, ActivityInv
<1>2. a \in Activities /\ a.pc = "cancel" /\ a.run = r /\ a.next = "finished"
    BY <1>1 DEF Activities, PCs
<1>3. proc' = [proc EXCEPT ![c] = a]
    BY <1>1 DEF RequestCancel, ActivityInv
<1> HIDE DEF a
<1>4. CancellerShape(a)
    BY <1>2 DEF CancellerShape, ClosePCs
<1>5. QED
    BY <1>1, <1>2, <1>3, <1>4, CancellerGoes

\* Wherever the reconciliation goes with an orphan, it knows the run and returns
\* to its list.
LEMMA ReconciledActivity ==
    ASSUME NEW r \in Runs, NEW submitted \in BOOLEAN, NEW a \in Reconciled(r, submitted)
    PROVE  a \in Activities /\ CancellerShape(a)
<1> DEFINE orphan == [Idle EXCEPT !.run = r, !.next = "next", !.known = submitted]
<1>1. /\ [orphan EXCEPT !.pc = "cancel"] \in Activities
      /\ [orphan EXCEPT !.pc = "probe"] \in Activities
      /\ [orphan EXCEPT !.pc = "close_read", !.outcome = "failed"] \in Activities
      /\ [Idle EXCEPT !.pc = "next"] \in Activities
    BY DEF Activities, Idle, PCs, Outcomes, TerminalStatuses
<1>2. /\ CancellerShape([orphan EXCEPT !.pc = "cancel"])
      /\ CancellerShape([orphan EXCEPT !.pc = "probe"])
      /\ CancellerShape([orphan EXCEPT !.pc = "close_read", !.outcome = "failed"])
      /\ CancellerShape([Idle EXCEPT !.pc = "next"])
    BY DEF CancellerShape, ClosePCs, Idle, TerminalStatuses
<1>3. a \in {[orphan EXCEPT !.pc = "cancel"], [orphan EXCEPT !.pc = "probe"],
             [orphan EXCEPT !.pc = "close_read", !.outcome = "failed"],
             [Idle EXCEPT !.pc = "next"]}
    BY DEF Reconciled
<1> HIDE DEF orphan
<1>4. QED
    BY <1>1, <1>2, <1>3

LEMMA ReconciliationKeepsActivities ==
    ASSUME IInv, Reconciliation
    PROVE  ActivityInv'
<1>0. ActivityInv /\ Boot \in Cancellers /\ Boot \notin Runs
    BY KindsAreDisjoint DEF IInv
<1>1. CASE BootList
    BY <1>0, <1>1, ProcessGoes DEF BootList, PCs
<1>2. CASE BootEnds
    BY <1>0, <1>2, NewActivities, CancellerGoes DEF BootEnds, Ends, Local, Keeps,
       CancellerShape, ClosePCs
<1>3. CASE BootNext
  <2>1. PICK t \in todo :
            IF activeRuns[t[1]] # NoReader
              THEN UNCHANGED proc
              ELSE \E activity \in Reconciled(t[1], t[2]) :
                     proc' = [proc EXCEPT ![Boot] = activity]
    BY <1>3 DEF BootNext
  <2>2. t[1] \in Runs /\ t[2] \in BOOLEAN /\ UNCHANGED activeRuns
    BY <1>3 DEF IInv, DataInv, BootNext
  <2>3. CASE UNCHANGED proc
    BY <1>0, <2>2, <2>3 DEF ActivityInv, Shapes, ReaderIsRegistered, RegistrationIsAlive,
                            At, RunOf, Fresh, Aborted
  <2>4. CASE \E activity \in Reconciled(t[1], t[2]) : proc' = [proc EXCEPT ![Boot] = activity]
    BY <1>0, <2>2, <2>4, ReconciledActivity, CancellerGoes
  <2>5. QED
    BY <2>1, <2>3, <2>4
<1>4. CASE BootProbe
  <2>1. proc[Boot].pc = "probe" /\ proc[Boot].run \in Runs /\ UNCHANGED activeRuns
    BY <1>0, <1>4 DEF BootProbe, At, Local, Keeps, ActivityInv, Shapes, CancellerShape
  <2>2. CASE Goto(Boot, "resume")
    BY <1>0, <2>1, <2>2, ProcessGoes DEF PCs
  <2>3. CASE \E outcome \in TerminalStatuses : GoClose(Boot, outcome, "next")
    BY <1>0, <2>1, <2>3, CancellerCloses
  <2>4. QED
    BY <1>4, <2>2, <2>3 DEF BootProbe, ReconcileDecision, TerminalStatuses
<1>5. CASE BootResume
  <2>1. /\ proc[Boot].pc = "resume" /\ proc[Boot].run \in Runs
        /\ proc[Boot].next \in {"next", "finished"}
        /\ Boot \in Procs /\ proc[Boot] \in Activities
    BY <1>0, <1>5, KindsAreDisjoint
    DEF BootResume, At, ActivityInv, Shapes, CancellerShape
  <2>2. CASE UNCHANGED activeRuns /\ GoClose(Boot, "failed", "next")
    BY <1>0, <2>1, <2>2, CancellerCloses DEF TerminalStatuses
  <2>3. CASE UNCHANGED activeRuns /\ Returns(Boot)
    BY <1>0, <2>1, <2>3, CancellerReturns
  <2>4. CASE \E p \in Readers :
                /\ activeRuns[proc[Boot].run] = NoReader
                /\ At(p, "idle")
                /\ proc' = [proc EXCEPT ![Boot] = Returned(Boot),
                                        ![p] = Reader(proc[Boot].run, "reconciled")]
                /\ activeRuns' = [activeRuns EXCEPT ![proc[Boot].run] = p]
    <3>1. Returned(Boot) \in {Finished, [Idle EXCEPT !.pc = "next"]}
      BY <2>1, ReturnedActivity
    <3>2. Returned(Boot) \in Activities /\ Returned(Boot).pc \in {"finished", "next"}
      BY <3>1, NewActivities DEF Activities, PCs, Idle, Finished
    <3>3. CancellerShape(Returned(Boot))
      BY <3>2 DEF CancellerShape, ClosePCs
    <3>4. QED
      BY <1>0, <2>1, <2>4, <3>2, <3>3, ReaderStarts DEF At
  <2>5. QED
    BY <1>5, <2>2, <2>3, <2>4 DEF BootResume, RunOf
<1>6. QED
    BY <1>1, <1>2, <1>3, <1>4, <1>5 DEF Reconciliation

\* A new process: nothing is left of the activities but what starts a boot.
LEMMA CrashKeepsActivities ==
    ASSUME ActivityInv, Crash
    PROVE  ActivityInv'
<1>1. \A p \in Procs :
        /\ proc'[p] = AfterCrash(p) /\ AfterCrash(p) \in Activities
        /\ p \in Readers => AfterCrash(p).pc = "idle"
        /\ p \in Runs => AfterCrash(p).pc \in {"idle", "finished"}
        /\ p \in Cancellers => AfterCrash(p).pc \in {"idle", "finished", "list"}
    BY NewActivities, KindsAreDisjoint DEF Crash, AfterCrash
<1>2. /\ proc' \in [Procs -> Activities]
      /\ activeRuns' = [r \in Runs |-> NoReader]
    BY <1>1 DEF Crash
<1>3. Shapes'
    BY <1>1, KindsAreDisjoint
    DEF Shapes, RequestShape, RequestPCs, ReaderShape, CancellerShape, ClosePCs
<1>4. ReaderIsRegistered'
    BY <1>1, KindsAreDisjoint DEF ReaderIsRegistered, At
<1>5. RegistrationIsAlive'
    BY <1>2 DEF RegistrationIsAlive
<1>6. QED
    BY <1>2, <1>3, <1>4, <1>5 DEF ActivityInv

\* What leaves the activities and the registry alone.
LEMMA StutterKeepsActivities ==
    ASSUME ActivityInv, UNCHANGED <<proc, activeRuns>>
    PROVE  ActivityInv'
BY DEF ActivityInv, Shapes, ReaderIsRegistered, RegistrationIsAlive, At, RunOf, Fresh, Aborted

LEMMA NextKeepsActivities ==
    ASSUME IInv, [Next]_vars
    PROVE  ActivityInv'
<1>0. ActivityInv
    BY DEF IInv
<1>1. CASE \E r \in Runs : Creation(r)
    BY <1>0, <1>1, CreationKeepsActivities
<1>2. CASE \E p \in Readers : Reading(p)
    BY <1>2, ReadingKeepsActivities
<1>3. CASE \E p \in Procs : Closing(p)
    BY <1>0, <1>3, ClosingKeepsActivities
<1>4. CASE \E c \in Cancels, r \in Runs : RequestCancel(c, r)
    BY <1>0, <1>4, RequestCancelKeepsActivities
<1>5. CASE \E c \in Cancellers : Cancelling(c)
    BY <1>5, CancellingKeepsActivities
<1>6. CASE Reconciliation
    BY <1>6, ReconciliationKeepsActivities
<1>7. CASE \E m \in Mutators : AcquireMutation(m) \/ ReleaseMutation(m)
    BY <1>0, <1>7, StutterKeepsActivities DEF AcquireMutation, ReleaseMutation
<1>8. CASE \E r \in Runs : HermesSteps(r)
    BY <1>0, <1>8, StutterKeepsActivities
    DEF HermesSteps, HermesAsks, HermesEnds, HermesStops, HermesDropsEvents, HermesOnly,
        processVars
<1>9. CASE Crash
    BY <1>0, <1>9, CrashKeepsActivities
<1>10. CASE UNCHANGED vars
    BY <1>0, <1>10, StutterKeepsActivities DEF vars, processVars
<1>11. QED
    BY <1>1, <1>2, <1>3, <1>4, <1>5, <1>6, <1>7, <1>8, <1>9, <1>10 DEF Next, Running, ConsoleStep

-----------------------------------------------------------------------------
(* Each action keeps DataInv *)

\* An UPDATE writes a row of the table.
LEMMA UpdateIsTyped ==
    ASSUME run \in [Runs -> Rows], NEW r \in Runs, NEW row \in Rows, NEW cond \in BOOLEAN,
           Update(r, cond, row)
    PROVE  run' \in [Runs -> Rows]
BY DEF Update

LEMMA SetStatusIsTyped ==
    ASSUME run \in [Runs -> Rows], NEW r \in Runs, NEW status \in Statuses, SetStatus(r, status)
    PROVE  run' \in [Runs -> Rows]
<1>1. [run[r] EXCEPT !.status = status] \in Rows
    BY DEF Rows
<1>2. QED
    BY <1>1, UpdateIsTyped DEF SetStatus

LEMMA RowsAreTyped ==
    /\ Absent \in Rows /\ Pending \in Rows
    /\ \A state \in RequestStates : Request(state) \in Requests
    /\ TerminalStatuses \subseteq Statuses
BY DEF Absent, Pending, Rows, Request, Requests, Statuses, ActiveStatuses

LEMMA CreationKeepsData ==
    ASSUME IInv, NEW r \in Runs, Creation(r)
    PROVE  DataInv'
<1>1. run' \in [Runs -> Rows]
  <2>1. run \in [Runs -> Rows]
    BY DEF IInv, DataInv, StoreTypeOK
  <2>2. QED
    BY <2>1, RowsAreTyped
    DEF Creation, AcquireRunStart, CreateRun, RefuseRun, StartRun, DiscardRead, DiscardDelete,
        AbandonRun, InsertRun, DeletePendingRun, storeVars
<1>2. UNCHANGED <<approval, todo, mutationLease, hermes, crashes, cancelAsked>>
    BY DEF Creation, AcquireRunStart, CreateRun, RefuseRun, StartRun, DiscardRead, DiscardDelete,
           AbandonRun, Keeps, storeVars
<1>3. runReservations' \in Nat
    BY DEF IInv, DataInv, Creation, AcquireRunStart, CreateRun, RefuseRun, StartRun, DiscardRead,
           DiscardDelete, AbandonRun, ReleaseReservation, Keeps
<1>4. QED
    BY <1>1, <1>2, <1>3 DEF IInv, DataInv, StoreTypeOK

\* What a step of a reader does to Hermes, and to the two tables.
LEMMA ReadingKeepsHermes ==
    ASSUME IInv, NEW p \in Readers, Reading(p)
    PROVE  hermes' \in [Runs -> HermesRuns]
<1> DEFINE r == proc[p].run
<1>0. /\ hermes \in [Runs -> HermesRuns]
      /\ proc[p].pc # "idle" => r \in Runs
    BY DEF IInv, DataInv, ActivityInv, Shapes, ReaderShape
<1>1. CASE UNCHANGED hermes
    BY <1>0, <1>1
<1>2. CASE Submit(p) \/ ReceiveAsk(p)
  <2>1. r \in Runs
    BY <1>0, <1>2 DEF Submit, ReceiveAsk, At
  <2>2. CASE hermes' = [hermes EXCEPT ![r].state = "running"]
    BY <1>0, <2>1, <2>2 DEF HermesRuns, HermesStates
  <2>3. CASE hermes' = [hermes EXCEPT ![r].seen = @ + 1] /\ hermes[r].seen < hermes[r].asks
    <3>1. hermes[r] \in HermesRuns
      BY <1>0, <2>1
    <3>2. [hermes[r] EXCEPT !.seen = @ + 1] \in HermesRuns
      BY <2>3, <3>1, RunStoreAssumption DEF HermesRuns
    <3>3. QED
      BY <1>0, <2>1, <2>3, <3>2
  <2>4. QED
    BY <1>1, <1>2, <2>2, <2>3 DEF Submit, ReceiveAsk, RunOf
<1>3. QED
    BY <1>1, <1>2 DEF Reading, ReadContext, MarkStarting, RecordSubmission, ReadStatus, Connect,
       MarkStarted, ReceiveEnd, StreamStops, InsertRequest, AwaitingRead, AwaitingWrite,
       StreamEnded, HandleError, PollHermes, CheckAwaiting, ReaderLeaves, Local

LEMMA ReadingKeepsStore ==
    ASSUME IInv, NEW p \in Readers, Reading(p)
    PROVE  StoreTypeOK'
<1> DEFINE r == proc[p].run
<1>0. /\ run \in [Runs -> Rows] /\ approval \in [Runs -> [Asks -> Requests]]
      /\ proc[p].pc # "idle" => r \in Runs
    BY DEF IInv, DataInv, StoreTypeOK, ActivityInv, Shapes, ReaderShape
<1>1. CASE UNCHANGED storeVars
    BY <1>0, <1>1 DEF storeVars, StoreTypeOK
<1>2. CASE MarkStarting(p) \/ MarkStarted(p) \/ AwaitingWrite(p)
  <2>1. r \in Runs /\ UNCHANGED approval
    BY <1>0, <1>2 DEF MarkStarting, MarkStarted, AwaitingWrite, At
  <2>2. UNCHANGED run \/ \E status \in {"starting", "running", "awaiting_approval"} :
                            SetStatus(r, status)
    BY <1>2 DEF MarkStarting, MarkStarted, AwaitingWrite, MarkRunStarting, MarkRunStarted,
                WriteAwaitingApproval, RunOf
  <2>3. run' \in [Runs -> Rows]
    BY <1>0, <2>1, <2>2, SetStatusIsTyped DEF Statuses, ActiveStatuses
  <2>4. QED
    BY <1>0, <2>1, <2>3 DEF StoreTypeOK
<1>3. CASE RecordSubmission(p)
  <2>1. r \in Runs /\ UNCHANGED approval
    BY <1>0, <1>3 DEF RecordSubmission, At
  <2>2. [run[r] EXCEPT !.submitted = TRUE] \in Rows
    BY <1>0, <2>1 DEF Rows
  <2>3. run' \in [Runs -> Rows]
    BY <1>0, <1>3, <2>1, <2>2 DEF RecordSubmission, SetHermesResponseId, Update, RunOf
  <2>4. QED
    BY <1>0, <2>1, <2>3 DEF StoreTypeOK
<1>4. CASE InsertRequest(p)
  <2> DEFINE k == hermes[r].seen
  <2>1. r \in Runs /\ UNCHANGED run
    BY <1>0, <1>4 DEF InsertRequest, At
  <2>2. UNCHANGED approval \/ approval' = [approval EXCEPT ![r][k] = Request("pending")]
    BY <1>4 DEF InsertRequest, PersistApprovalRequest, SetRequest, RunOf
  <2>3. Request("pending") \in Requests
    BY RowsAreTyped DEF RequestStates
  <2> HIDE DEF k, r
  <2>4. approval' \in [Runs -> [Asks -> Requests]]
    BY <1>0, <2>1, <2>2, <2>3
  <2>5. QED
    BY <1>0, <2>1, <2>4 DEF StoreTypeOK
<1>5. QED
    BY <1>1, <1>2, <1>3, <1>4 DEF Reading, ReadContext, Submit, ReadStatus, Connect, ReceiveAsk,
       ReceiveEnd, StreamStops, AwaitingRead, StreamEnded, HandleError, PollHermes,
       CheckAwaiting, ReaderLeaves, Local

LEMMA ReadingKeepsData ==
    ASSUME IInv, NEW p \in Readers, Reading(p)
    PROVE  DataInv'
<1>1. UNCHANGED <<todo, mutationLease, runReservations, crashes, cancelAsked>>
    BY DEF Reading, ReadContext, MarkStarting, Submit, RecordSubmission, ReadStatus, Connect,
           MarkStarted, ReceiveAsk, ReceiveEnd, StreamStops, InsertRequest, AwaitingRead,
           AwaitingWrite, StreamEnded, HandleError, PollHermes, CheckAwaiting, ReaderLeaves,
           Local, Keeps
<1>2. QED
    BY <1>1, ReadingKeepsHermes, ReadingKeepsStore DEF IInv, DataInv

LEMMA ClosingKeepsData ==
    ASSUME IInv, NEW p \in Procs, Closing(p)
    PROVE  DataInv'
<1>1. UNCHANGED <<approval, hermes, todo, mutationLease, runReservations, crashes, cancelAsked>>
    BY DEF Closing, CloseRead, CloseWrite, Local, Keeps, storeVars
<1>2. run' \in [Runs -> Rows]
  <2>0. run \in [Runs -> Rows]
    BY DEF IInv, DataInv, StoreTypeOK
  <2>1. CASE CloseRead(p)
    BY <2>0, <2>1 DEF CloseRead, Local, storeVars
  <2>2. CASE CloseWrite(p)
    <3>1. proc[p].run \in Runs /\ proc[p].outcome \in TerminalStatuses
      BY <2>2 DEF CloseWrite, At, IInv, ActivityInv, Shapes, RequestShape, ReaderShape,
                  CancellerShape, RequestPCs, ClosePCs, Procs
    <3>2. SetStatus(proc[p].run, proc[p].outcome)
      BY <2>2 DEF CloseWrite, WriteClosed, RunOf
    <3>3. QED
      BY <2>0, <3>1, <3>2, RowsAreTyped, SetStatusIsTyped
  <2>3. QED
    BY <2>1, <2>2 DEF Closing
<1>3. QED
    BY <1>1, <1>2 DEF IInv, DataInv, StoreTypeOK

LEMMA CancellingKeepsData ==
    ASSUME IInv, NEW c \in Cancellers, Cancelling(c)
    PROVE  DataInv'
<1> DEFINE r == proc[c].run
<1>1. UNCHANGED <<run, approval, todo, mutationLease, runReservations, crashes, cancelAsked>>
    BY DEF Cancelling, CancelLookup, CancelLocally, CancelRemotely, Local, Keeps, storeVars
<1>2. r \in Runs /\ c \in Procs
    BY KindsAreDisjoint DEF IInv, ActivityInv, Shapes, CancellerShape, Cancelling, CancelLookup,
           CancelLocally, CancelRemotely, At
<1>3. hermes \in [Runs -> HermesRuns] /\ hermes[r] \in HermesRuns
    BY <1>2 DEF IInv, DataInv
<1>4. CASE UNCHANGED hermes
    BY <1>1, <1>4 DEF IInv, DataInv, StoreTypeOK
<1>5. CASE \E q \in Procs : hermes' = [hermes EXCEPT ![r].stop = @ \/ proc[q].known]
  <2>1. PICK q \in Procs : hermes' = [hermes EXCEPT ![r].stop = @ \/ proc[q].known]
    BY <1>5
  <2>2. proc[q].known \in BOOLEAN
    BY DEF IInv, ActivityInv, Activities
  <2>3. [hermes[r] EXCEPT !.stop = @ \/ proc[q].known] \in HermesRuns
    BY <1>3, <2>2 DEF HermesRuns
  <2>4. hermes' \in [Runs -> HermesRuns]
    BY <1>2, <1>3, <2>1, <2>3
  <2>5. QED
    BY <1>1, <2>4 DEF IInv, DataInv, StoreTypeOK
<1>6. QED
  <2>1. CASE CancelLookup(c)
    BY <1>4, <2>1 DEF CancelLookup, Local
  <2>2. CASE CancelLocally(c)
    <3>1. activeRuns[r] \in Procs
      BY <1>2, <2>2, KindsAreDisjoint DEF CancelLocally, RunOf, IInv, ActivityInv
    <3>2. QED
      BY <1>5, <2>2, <3>1 DEF CancelLocally, RunOf
  <2>3. CASE CancelRemotely(c)
    BY <1>2, <1>5, <2>3 DEF CancelRemotely, RunOf
  <2>4. QED
    BY <2>1, <2>2, <2>3 DEF Cancelling

LEMMA ReconciliationKeepsData ==
    ASSUME IInv, Reconciliation
    PROVE  DataInv'
<1>1. UNCHANGED <<run, approval, mutationLease, runReservations, hermes, crashes>>
    BY DEF Reconciliation, BootList, BootNext, BootEnds, BootProbe, BootResume, Local, Keeps,
           storeVars
<1>2. todo' \subseteq Runs \X BOOLEAN
  <2>1. CASE BootList
    <3>1. \A r \in Runs : run[r].submitted \in BOOLEAN
      BY DEF IInv, DataInv, StoreTypeOK, Rows
    <3>2. QED
      BY <2>1, <3>1 DEF BootList
  <2>2. CASE ~BootList
    BY <2>2 DEF IInv, DataInv, Reconciliation, BootNext, BootEnds, BootProbe, BootResume, Local,
                Keeps
  <2>3. QED
    BY <2>1, <2>2
<1>3. cancelAsked' \subseteq Runs
  <2>1. CASE BootNext
    <3>1. \A t \in todo : t[1] \in Runs
      BY DEF IInv, DataInv
    <3>2. QED
      BY <2>1, <3>1 DEF BootNext, IInv, DataInv
  <2>2. CASE ~BootNext
    BY <2>2 DEF IInv, DataInv, Reconciliation, BootList, BootEnds, BootProbe, BootResume, Local,
                Keeps
  <2>3. QED
    BY <2>1, <2>2
<1>4. QED
    BY <1>1, <1>2, <1>3 DEF IInv, DataInv, StoreTypeOK

LEMMA HermesKeepsData ==
    ASSUME IInv, NEW r \in Runs, HermesSteps(r)
    PROVE  DataInv'
<1>1. UNCHANGED <<run, approval, todo, mutationLease, runReservations, crashes, cancelAsked>>
    BY DEF HermesSteps, HermesAsks, HermesEnds, HermesStops, HermesDropsEvents, HermesOnly,
           storeVars, processVars
<1>2. PICK h \in HermesRuns : hermes' = [hermes EXCEPT ![r] = h]
  <2>0. hermes \in [Runs -> HermesRuns] /\ hermes[r] \in HermesRuns
    BY DEF IInv, DataInv
  <2>1. CASE HermesAsks(r)
    <3>1. [hermes[r] EXCEPT !.state = "waiting", !.asks = @ + 1] \in HermesRuns
      BY <2>0, <2>1, RunStoreAssumption DEF HermesAsks, HermesRuns, HermesStates
    <3>2. hermes' = [hermes EXCEPT ![r] = [hermes[r] EXCEPT !.state = "waiting", !.asks = @ + 1]]
      BY <2>0, <2>1 DEF HermesAsks, HermesRuns
    <3>3. QED
      BY <3>1, <3>2
  <2>2. CASE HermesEnds(r)
    <3>1. PICK outcome \in {"completed", "failed"} :
              hermes' = [hermes EXCEPT ![r].state = outcome]
      BY <2>2 DEF HermesEnds
    <3>2. [hermes[r] EXCEPT !.state = outcome] \in HermesRuns
      BY <2>0 DEF HermesRuns, HermesStates, TerminalStatuses
    <3>3. QED
      BY <3>1, <3>2
  <2>3. CASE HermesStops(r)
    <3>1. [hermes[r] EXCEPT !.state = "cancelled"] \in HermesRuns
      BY <2>0 DEF HermesRuns, HermesStates, TerminalStatuses
    <3>2. QED
      BY <2>3, <3>1 DEF HermesStops
  <2>4. CASE HermesDropsEvents(r)
    <3>1. [hermes[r] EXCEPT !.seen = hermes[r].asks] \in HermesRuns
      BY <2>0 DEF HermesRuns
    <3>2. QED
      BY <2>4, <3>1 DEF HermesDropsEvents
  <2>5. QED
    BY <2>1, <2>2, <2>3, <2>4 DEF HermesSteps
<1>3. QED
    BY <1>1, <1>2 DEF IInv, DataInv, StoreTypeOK

LEMMA NextKeepsData ==
    ASSUME IInv, [Next]_vars
    PROVE  DataInv'
<1>1. CASE \E r \in Runs : Creation(r)
    BY <1>1, CreationKeepsData
<1>2. CASE \E p \in Readers : Reading(p)
    BY <1>2, ReadingKeepsData
<1>3. CASE \E p \in Procs : Closing(p)
    BY <1>3, ClosingKeepsData
<1>4. CASE \E c \in Cancels, r \in Runs : RequestCancel(c, r)
    BY <1>4 DEF RequestCancel, IInv, DataInv, StoreTypeOK, storeVars
<1>5. CASE \E c \in Cancellers : Cancelling(c)
    BY <1>5, CancellingKeepsData
<1>6. CASE Reconciliation
    BY <1>6, ReconciliationKeepsData
<1>7. CASE \E m \in Mutators : AcquireMutation(m) \/ ReleaseMutation(m)
    BY <1>7 DEF AcquireMutation, ReleaseMutation, IInv, DataInv, StoreTypeOK, storeVars
<1>8. CASE \E r \in Runs : HermesSteps(r)
    BY <1>8, HermesKeepsData
<1>9. CASE Crash
    BY <1>9, RunExecutionAssumption DEF Crash, IInv, DataInv, StoreTypeOK, storeVars
<1>10. CASE UNCHANGED vars
    BY <1>10 DEF vars, storeVars, processVars, IInv, DataInv, StoreTypeOK
<1>11. QED
    BY <1>1, <1>2, <1>3, <1>4, <1>5, <1>6, <1>7, <1>8, <1>9, <1>10 DEF Next, Running, ConsoleStep

-----------------------------------------------------------------------------
(* The theorems *)

LEMMA Initially == Init => IInv
<1> SUFFICES ASSUME Init PROVE IInv
    OBVIOUS
<1>1. \A p \in Procs : /\ proc[p] \in Activities
                       /\ p = Boot => proc[p].pc = "list"
                       /\ p # Boot => proc[p].pc = "idle"
    BY NewActivities DEF Init
<1>2. proc \in [Procs -> Activities] /\ activeRuns = [r \in Runs |-> NoReader]
    BY <1>1 DEF Init
<1>3. Shapes
    BY <1>1, KindsAreDisjoint
    DEF Shapes, RequestShape, RequestPCs, ReaderShape, CancellerShape, ClosePCs
<1>4. ReaderIsRegistered /\ RegistrationIsAlive
    BY <1>1, <1>2, KindsAreDisjoint DEF ReaderIsRegistered, RegistrationIsAlive, At
<1>5. ActivityInv
    BY <1>2, <1>3, <1>4 DEF ActivityInv
<1>6. StoreTypeOK
    BY RowsAreTyped DEF Init, StoreInit, StoreTypeOK, RequestStates
<1>7. hermes \in [Runs -> HermesRuns]
    BY RunStoreAssumption DEF Init, HermesRuns, HermesStates, HermesUnknown
<1>8. DataInv
    BY <1>6, <1>7, RunExecutionAssumption DEF Init, DataInv
<1>9. QED
    BY <1>5, <1>8 DEF IInv

THEOREM RunsAreInductive == Spec => []IInv
<1>1. IInv /\ [Next]_vars => IInv'
    BY NextKeepsActivities, NextKeepsData DEF IInv
<1>2. QED
    BY Initially, <1>1, PTL DEF Spec

\* RunExecution is well typed.
THEOREM RunsAreTyped == Spec => []TypeOK
<1>1. IInv => TypeOK
    BY DEF IInv, ActivityInv, DataInv, TypeOK
<1>2. QED
    BY <1>1, RunsAreInductive, PTL

\* The registry of readers is sound: every fresh reader and every reader that was not
\* aborted is registered, and every registration is that of a reader at work.
THEOREM RegistryIsSound == Spec => [](ReaderIsRegistered /\ RegistrationIsAlive)
<1>1. IInv => ReaderIsRegistered /\ RegistrationIsAlive
    BY DEF IInv, ActivityInv
<1>2. QED
    BY <1>1, RunsAreInductive, PTL

-----------------------------------------------------------------------------
(* RunExecution implements RuntimeExclusion *)

HoldingPCs == {"reserved", "prepared", "discarding"}

\* A step that moves no request and starts or ends no reader does not concern the guard.
LEMMA GuardStutters ==
    ASSUME \A r \in Runs : proc'[r].pc \in HoldingPCs <=> proc[r].pc \in HoldingPCs,
           UNCHANGED <<activeRuns, mutationLease, runReservations>>
    PROVE  UNCHANGED Exclusion!exclusionVars
<1>1. Holders' = Holders
    BY DEF Holders, HoldingPCs
<1>2. Followed' = Followed
    BY DEF Followed
<1>3. QED
    BY <1>1, <1>2 DEF Exclusion!exclusionVars

\* A request takes a reservation, hands it over to a reader, or gives it back.
LEMMA CreationKeepsTheGuard ==
    ASSUME IInv, NEW r \in Runs, Creation(r)
    PROVE  Exclusion!ExclusionNext \/ UNCHANGED Exclusion!exclusionVars
<1>0. r \in Procs /\ proc \in [Procs -> Activities] /\ Runs \subseteq Procs
    BY DEF Procs, IInv, ActivityInv
<1>1. CASE AcquireRunStart(r)
  <2>1. Holders' = Holders \union {r} /\ r \notin Holders /\ Followed' = Followed
    BY <1>0, <1>1 DEF AcquireRunStart, At, Holders, Followed
  <2>2. Exclusion!AcquireRunStartLease(r)
    BY <1>1, <2>1 DEF AcquireRunStart, Exclusion!AcquireRunStartLease
  <2>3. QED
    BY <2>2 DEF Exclusion!ExclusionNext
<1>2. CASE CreateRun(r)
    BY <1>0, <1>2, GuardStutters DEF CreateRun, At, Goto, Keeps, HoldingPCs
<1>3. CASE RefuseRun(r) \/ DiscardDelete(r) \/ AbandonRun(r) \/ (DiscardRead(r) /\ Ends(r))
  <2>1. /\ proc[r].pc \in HoldingPCs /\ Ends(r) /\ UNCHANGED <<activeRuns, mutationLease>>
    BY <1>3 DEF RefuseRun, DiscardDelete, AbandonRun, DiscardRead, At, HoldingPCs
  <2>2. ReleaseReservation
    <3>1. CASE DiscardRead(r) /\ Ends(r)
      <4>1. proc'[r].pc = "finished"
        <5>1. proc'[r] = Finished
          BY <1>0, <3>1 DEF Ends
        <5>2. QED
          BY <5>1, NewActivities
      <4>2. ~Goto(r, "discarding")
        <5>1. SUFFICES ASSUME Goto(r, "discarding") PROVE FALSE
          OBVIOUS
        <5>2. proc'[r].pc = "discarding"
          BY <1>0, <5>1 DEF Goto, Activities
        <5>3. QED
          BY <4>1, <5>2
      <4>3. QED
        BY <3>1, <4>2 DEF DiscardRead
    <3>2. QED
      BY <1>3, <3>1 DEF RefuseRun, DiscardDelete, AbandonRun
  <2>3. Holders' = Holders \ {r} /\ r \in Holders /\ Followed' = Followed
    <3>1. proc'[r].pc = "finished" /\ \A s \in Runs : s # r => proc'[s] = proc[s]
      BY <1>0, <2>1, NewActivities DEF Ends
    <3>2. QED
      BY <2>1, <3>1 DEF Holders, Followed, HoldingPCs
  <2>4. Exclusion!ReleaseRunStart(r)
    BY <2>1, <2>2, <2>3 DEF ReleaseReservation, Exclusion!ReleaseRunStart, Exclusion!GivesBack
  <2>5. QED
    BY <2>4 DEF Exclusion!ExclusionNext
<1>4. CASE DiscardRead(r) /\ Goto(r, "discarding")
  <2>1. UNCHANGED <<activeRuns, mutationLease, runReservations>>
    <3>1. ~Ends(r)
      <4>1. proc'[r].pc = "discarding"
        BY <1>0, <1>4 DEF Goto, Activities
      <4>2. QED
        BY <1>0, <4>1, NewActivities DEF Ends
    <3>2. QED
      BY <1>4, <3>1 DEF DiscardRead
  <2>2. \A s \in Runs : proc'[s].pc \in HoldingPCs <=> proc[s].pc \in HoldingPCs
    BY <1>0, <1>4 DEF DiscardRead, At, Goto, HoldingPCs
  <2>3. QED
    BY <2>1, <2>2, GuardStutters
<1>5. CASE StartRun(r)
  <2>1. PICK p \in Readers :
            /\ proc' = [proc EXCEPT ![r] = Finished, ![p] = Reader(r, "fresh")]
            /\ activeRuns' = [activeRuns EXCEPT ![r] = p]
    BY <1>5 DEF StartRun
  <2>2. /\ proc'[r].pc = "finished" /\ proc[r].pc = "prepared"
        /\ \A s \in Runs : s # r => proc'[s] = proc[s]
    BY <1>0, <1>5, <2>1, NewActivities, KindsAreDisjoint DEF StartRun, At
  <2>3. Holders' = Holders \ {r} /\ r \in Holders
    BY <2>2 DEF Holders
  <2>4. Followed' = Followed \union {r}
    BY <2>1, KindsAreDisjoint DEF Followed, IInv, ActivityInv
  <2>5. Exclusion!HandOver(r)
    BY <1>5, <2>3, <2>4 DEF StartRun, ReleaseReservation, Exclusion!HandOver, Exclusion!GivesBack
  <2>6. QED
    BY <2>5 DEF Exclusion!ExclusionNext
<1>6. QED
    BY <1>1, <1>2, <1>3, <1>4, <1>5 DEF Creation, DiscardRead

LEMMA ReadingKeepsTheGuard ==
    ASSUME IInv, NEW p \in Readers, Reading(p)
    PROVE  Exclusion!ExclusionNext \/ UNCHANGED Exclusion!exclusionVars
<1>0. /\ UNCHANGED <<mutationLease, runReservations>>
      /\ \A r \in Runs : proc'[r] = proc[r]
    BY KindsAreDisjoint
    DEF Reading, ReadContext, MarkStarting, Submit, RecordSubmission, ReadStatus, Connect,
        MarkStarted, ReceiveAsk, ReceiveEnd, StreamStops, InsertRequest, AwaitingRead,
        AwaitingWrite, StreamEnded, HandleError, PollHermes, CheckAwaiting, ReaderLeaves,
        Local, Keeps, Goto, GoClose, IInv, ActivityInv
<1>1. CASE UNCHANGED activeRuns
    BY <1>0, <1>1, GuardStutters
<1>2. CASE ReaderLeaves(p)
  <2> DEFINE r == proc[p].run
  <2>1. r \in Runs
    BY <1>2 DEF ReaderLeaves, At, IInv, ActivityInv, Shapes, ReaderShape
  <2>2. activeRuns' = activeRuns \/ activeRuns' = [activeRuns EXCEPT ![r] = NoReader]
    BY <1>2 DEF ReaderLeaves, RunOf
  <2>3. CASE activeRuns' = [activeRuns EXCEPT ![r] = NoReader]
    <3>1. Followed' = Followed \ {r}
      BY <2>1, <2>3 DEF Followed, IInv, ActivityInv
    <3>2. Holders' = Holders
      BY <1>0 DEF Holders
    <3>3. Exclusion!Unfollow(r)
      BY <1>0, <3>1, <3>2 DEF Exclusion!Unfollow
    <3>4. QED
      BY <2>1, <3>3 DEF Exclusion!ExclusionNext
  <2>4. QED
    BY <1>1, <2>2, <2>3
<1>3. QED
    BY <1>1, <1>2
    DEF Reading, ReadContext, MarkStarting, Submit, RecordSubmission, ReadStatus, Connect,
        MarkStarted, ReceiveAsk, ReceiveEnd, StreamStops, InsertRequest, AwaitingRead,
        AwaitingWrite, StreamEnded, HandleError, PollHermes, CheckAwaiting, Local, Keeps

\* The other activities leave the requests where they are; only BootResume starts a reader.
LEMMA OthersKeepTheGuard ==
    ASSUME IInv,
           \/ \E p \in Procs : Closing(p)
           \/ \E c \in Cancels, r \in Runs : RequestCancel(c, r)
           \/ \E c \in Cancellers : Cancelling(c)
           \/ Reconciliation
    PROVE  Exclusion!ExclusionNext \/ UNCHANGED Exclusion!exclusionVars
<1>0. proc \in [Procs -> Activities]
    BY DEF IInv, ActivityInv
<1>1. CASE \E p \in Procs : Closing(p)
  <2>1. PICK p \in Procs : Closing(p)
    BY <1>1
  <2>2. p \notin Runs
    BY <2>1 DEF Closing, CloseRead, CloseWrite, At, IInv, ActivityInv, Shapes, RequestShape,
                RequestPCs
  <2>3. \A r \in Runs : proc'[r] = proc[r]
    BY <1>0, <2>1, <2>2, KindsAreDisjoint DEF Closing, CloseRead, CloseWrite, Returns, Goto
  <2>4. QED
    BY <2>1, <2>3, GuardStutters DEF Closing, CloseRead, CloseWrite, Local, Keeps
<1>2. CASE \E c \in Cancels, r \in Runs : RequestCancel(c, r)
  <2>1. PICK c \in Cancels, r \in Runs : RequestCancel(c, r)
    BY <1>2
  <2>2. \A s \in Runs : proc'[s] = proc[s]
    BY <1>0, <2>1, KindsAreDisjoint DEF RequestCancel, Cancellers
  <2>3. QED
    BY <2>1, <2>2, GuardStutters DEF RequestCancel
<1>3. CASE \E c \in Cancellers : Cancelling(c)
  <2>1. PICK c \in Cancellers : Cancelling(c)
    BY <1>3
  <2>2. \A r \in Runs : proc'[r] = proc[r]
    <3>1. CASE CancelLocally(c)
      <4>1. PICK p \in Readers : \E a :
                proc' = [proc EXCEPT ![p].aborted = a, ![c] = Returned(c)]
        <5>1. proc[c].run \in Runs
          BY <2>1, <3>1 DEF CancelLocally, At, IInv, ActivityInv, Shapes, CancellerShape
        <5>2. activeRuns[proc[c].run] \in Readers
          BY <3>1, <5>1 DEF CancelLocally, RunOf, IInv, ActivityInv
        <5>3. QED
          BY <3>1, <5>2 DEF CancelLocally, RunOf
      <4>2. QED
        BY <1>0, <4>1, KindsAreDisjoint
    <3>2. CASE CancelLookup(c) \/ CancelRemotely(c)
      BY <1>0, <3>2, KindsAreDisjoint DEF CancelLookup, CancelRemotely, Returns, GoClose
    <3>3. QED
      BY <2>1, <3>1, <3>2 DEF Cancelling
  <2>3. QED
    BY <2>1, <2>2, GuardStutters
    DEF Cancelling, CancelLookup, CancelLocally, CancelRemotely, Local, Keeps
<1>4. CASE Reconciliation
  <2>1. UNCHANGED <<mutationLease, runReservations>> /\ \A r \in Runs : proc'[r] = proc[r]
    BY <1>0, <1>4, KindsAreDisjoint
    DEF Reconciliation, BootList, BootNext, BootEnds, BootProbe, BootResume, Local, Keeps, Goto,
        Ends, GoClose, Returns
  <2>2. CASE UNCHANGED activeRuns
    BY <2>1, <2>2, GuardStutters
  <2>3. CASE ~UNCHANGED activeRuns
    <3> DEFINE r == proc[Boot].run
    <3>1. BootResume /\ mutationLease = NoLease /\ r \in Runs
      BY <1>4, <2>3, KindsAreDisjoint
      DEF Reconciliation, BootList, BootNext, BootEnds, BootProbe, BootResume, Local, Keeps, At,
          IInv, ActivityInv, Shapes, CancellerShape
    <3>2. PICK p \in Readers : activeRuns' = [activeRuns EXCEPT ![r] = p]
      BY <2>3, <3>1 DEF BootResume, RunOf
    <3>3. Followed' = Followed \union {r}
      BY <3>1, <3>2, KindsAreDisjoint DEF Followed, IInv, ActivityInv
    <3>4. Holders' = Holders
      BY <2>1 DEF Holders
    <3>5. Exclusion!Follow(r)
      BY <2>1, <3>1, <3>3, <3>4 DEF Exclusion!Follow
    <3>6. QED
      BY <3>1, <3>5 DEF Exclusion!ExclusionNext
  <2>4. QED
    BY <2>2, <2>3
<1>5. QED
    BY <1>1, <1>2, <1>3, <1>4

LEMMA NextKeepsTheGuard ==
    ASSUME IInv, [Next]_vars
    PROVE  [Exclusion!ExclusionNext]_(Exclusion!exclusionVars)
<1>1. CASE \E r \in Runs : Creation(r)
    BY <1>1, CreationKeepsTheGuard
<1>2. CASE \E p \in Readers : Reading(p)
    BY <1>2, ReadingKeepsTheGuard
<1>3. CASE \/ \E p \in Procs : Closing(p)
           \/ \E c \in Cancels, r \in Runs : RequestCancel(c, r)
           \/ \E c \in Cancellers : Cancelling(c)
           \/ Reconciliation
    BY <1>3, OthersKeepTheGuard
<1>4. CASE \E m \in Mutators : AcquireMutation(m) \/ ReleaseMutation(m)
  <2>1. PICK m \in Mutators : AcquireMutation(m) \/ ReleaseMutation(m)
    BY <1>4
  <2>2. Holders' = Holders /\ Followed' = Followed
    BY <2>1 DEF AcquireMutation, ReleaseMutation, Holders, Followed
  <2>3. CASE AcquireMutation(m)
    <3>1. Exclusion!AcquireMutationLease(m)
      BY <2>2, <2>3 DEF AcquireMutation, Followed, Exclusion!AcquireMutationLease
    <3>2. QED
      BY <3>1 DEF Exclusion!ExclusionNext
  <2>4. CASE ReleaseMutation(m)
    <3>1. Exclusion!ReleaseMutationLease(m)
      BY <2>2, <2>4 DEF ReleaseMutation, Exclusion!ReleaseMutationLease
    <3>2. QED
      BY <3>1 DEF Exclusion!ExclusionNext
  <2>5. QED
    BY <2>1, <2>3, <2>4
<1>5. CASE \E r \in Runs : HermesSteps(r)
    BY <1>5, GuardStutters
    DEF HermesSteps, HermesAsks, HermesEnds, HermesStops, HermesDropsEvents, HermesOnly,
        processVars
<1>6. CASE Crash
  <2>1. \A r \in Runs : proc'[r].pc \notin HoldingPCs
    BY <1>6, NewActivities, KindsAreDisjoint DEF Crash, AfterCrash, HoldingPCs
  <2>2. Holders' = {} /\ Followed' = {}
    BY <1>6, <2>1 DEF Crash, Holders, Followed, HoldingPCs
  <2>3. Exclusion!Restart
    BY <1>6, <2>2 DEF Crash, Exclusion!Restart
  <2>4. QED
    BY <2>3 DEF Exclusion!ExclusionNext
<1>7. CASE UNCHANGED vars
    BY <1>7, GuardStutters DEF vars, processVars
<1>8. QED
    BY <1>1, <1>2, <1>3, <1>4, <1>5, <1>6, <1>7 DEF Next, Running, ConsoleStep

\* Reservations, readers and long operations take, hand over and give back as the
\* guard of the runtime promises, for any number of each.
THEOREM RunsImplementTheGuard == Spec => ImplementsExclusion
<1>1. Init => Exclusion!ExclusionInit
  <2> SUFFICES ASSUME Init PROVE Exclusion!ExclusionInit
    OBVIOUS
  <2>1. \A r \in Runs : proc[r].pc = "idle" /\ activeRuns[r] = NoReader
    BY NewActivities, KindsAreDisjoint DEF Init
  <2>2. Holders = {} /\ Followed = {}
    BY <2>1 DEF Holders, Followed
  <2>3. QED
    BY <2>2 DEF Init, Exclusion!ExclusionInit
<1>2. IInv /\ [Next]_vars => [Exclusion!ExclusionNext]_(Exclusion!exclusionVars)
    BY NextKeepsTheGuard
<1>3. QED
    BY <1>1, <1>2, RunsAreInductive, PTL DEF Spec, ImplementsExclusion, Exclusion!ExclusionSpec
-----------------------------------------------------------------------------
(* What the guard gives the runs *)

\* The guard looks at a number and at the registry; that the number is the
\* number of the requests under way makes it a guard on the requests themselves.
GuardInv ==
    /\ runReservations = Cardinality(Holders)
    /\ mutationLease # NoLease => Holders = {} /\ Followed = {}

\* No reservation is counted when no request holds one, and conversely.
LEMMA HoldersAreCounted ==
    ASSUME IsFiniteSet(Runs), GuardInv
    PROVE  /\ IsFiniteSet(Holders) /\ Cardinality(Holders) \in Nat
           /\ (runReservations = 0) <=> (Holders = {})
<1>1. IsFiniteSet(Holders)
    BY FS_Subset DEF Holders
<1>2. QED
    BY <1>1, FS_CardinalityType, FS_EmptySet DEF GuardInv

\* A step the guard allows keeps the count exact and the exclusion.
LEMMA AllowedStepsKeepTheCount ==
    ASSUME IsFiniteSet(Runs), GuardInv, Exclusion!ExclusionNext
    PROVE  GuardInv'
<1> USE DEF GuardInv
<1>1. ASSUME NEW r \in Runs, Exclusion!GivesBack(r)
      PROVE  runReservations' = Cardinality(Holders') /\ Holders' \subseteq Holders
    <2>1. Cardinality(Holders \ {r}) = Cardinality(Holders) - 1 /\ runReservations # 0
        BY <1>1, HoldersAreCounted, FS_RemoveElement DEF Exclusion!GivesBack
    <2>2. QED
        BY <1>1, <2>1, HoldersAreCounted DEF Exclusion!GivesBack
<1>2. ASSUME NEW m \in Mutators, Exclusion!AcquireMutationLease(m)
      PROVE  GuardInv'
    BY <1>2, HoldersAreCounted DEF Exclusion!AcquireMutationLease
<1>3. ASSUME NEW m \in Mutators, Exclusion!ReleaseMutationLease(m)
      PROVE  GuardInv'
    BY <1>3 DEF Exclusion!ReleaseMutationLease
<1>4. ASSUME NEW r \in Runs, Exclusion!AcquireRunStartLease(r)
      PROVE  GuardInv'
    <2>1. Cardinality(Holders \union {r}) = Cardinality(Holders) + 1
        BY <1>4, HoldersAreCounted, FS_AddElement DEF Exclusion!AcquireRunStartLease
    <2>2. QED
        BY <1>4, <2>1 DEF Exclusion!AcquireRunStartLease
<1>5. ASSUME NEW r \in Runs, Exclusion!ReleaseRunStart(r)
      PROVE  GuardInv'
    BY <1>1, <1>5 DEF Exclusion!ReleaseRunStart
<1>6. ASSUME NEW r \in Runs, Exclusion!HandOver(r)
      PROVE  GuardInv'
    BY <1>1, <1>6 DEF Exclusion!HandOver
<1>7. ASSUME NEW r \in Runs, Exclusion!Follow(r) \/ Exclusion!Unfollow(r)
      PROVE  GuardInv'
    BY <1>7 DEF Exclusion!Follow, Exclusion!Unfollow
<1>8. CASE Exclusion!Restart
    BY <1>8, FS_EmptySet DEF Exclusion!Restart
<1>9. QED
    BY <1>2, <1>3, <1>4, <1>5, <1>6, <1>7, <1>8 DEF Exclusion!ExclusionNext

\* While a long operation changes the runtime, no request is between its reservation
\* and the start of its run and no reader is at work on any run, although the guard
\* of active-runtime-guard.ts looks at a number and at the registry only.
THEOREM LongOperationsExcludeRuns ==
    ASSUME IsFiniteSet(Runs)
    PROVE  Spec => [](mutationLease # NoLease => Holders = {} /\ Followed = {})
<1>1. Exclusion!ExclusionInit => GuardInv
    BY FS_EmptySet DEF Exclusion!ExclusionInit, GuardInv
<1>2. GuardInv /\ [Exclusion!ExclusionNext]_(Exclusion!exclusionVars) => GuardInv'
    BY AllowedStepsKeepTheCount DEF GuardInv, Exclusion!exclusionVars
<1>3. GuardInv => (mutationLease # NoLease => Holders = {} /\ Followed = {})
    BY DEF GuardInv
<1>4. QED
    BY <1>1, <1>2, <1>3, RunsImplementTheGuard, PTL
    DEF ImplementsExclusion, Exclusion!ExclusionSpec

-----------------------------------------------------------------------------
(* Hermes and the submission *)

\* A run is submitted by one reader, once: Hermes knows nothing of it before.
SubmissionInv ==
    /\ \A r \in Runs : proc[r].pc # "finished" => hermes[r].state = "none"
    /\ \A p \in Readers :
         /\ proc[p].pc # "idle" /\ Fresh(p) => proc[RunOf(p)].pc = "finished"
         /\ proc[p].pc \in {"starting", "submit"} => Fresh(p)
         /\ proc[p].pc \in {"context", "starting", "submit"} /\ Fresh(p) =>
               hermes[RunOf(p)].state = "none"

\* What a step of the runs may do to a run of Hermes.
HermesMoves(r) ==
    /\ hermes[r].seen <= hermes[r].asks => hermes'[r].seen <= hermes'[r].asks
    /\ \/ hermes'[r].asks = hermes[r].asks /\ hermes'[r].state = hermes[r].state
       \/ /\ hermes'[r].asks = hermes[r].asks
          /\ hermes[r].state = "none" /\ hermes'[r].state = "running"
       \/ hermes'[r].asks = hermes[r].asks /\ hermes'[r].state \in TerminalStatuses
       \/ /\ hermes'[r].asks = hermes[r].asks + 1
          /\ hermes[r].state = "running" /\ hermes'[r].state = "waiting"

\* A reader submits a run that Hermes does not know, and takes a demand that is there.
LEMMA ReadingMovesHermes ==
    ASSUME IInv, SubmissionInv, NEW p \in Readers, Reading(p), NEW r \in Runs
    PROVE  HermesMoves(r)
<1> DEFINE s == proc[p].run
<1>0. /\ hermes \in [Runs -> HermesRuns]
      /\ proc[p].pc # "idle" => s \in Runs
    BY DEF IInv, DataInv, ActivityInv, Shapes, ReaderShape
<1>1. CASE UNCHANGED hermes
    BY <1>1 DEF HermesMoves
<1>2. CASE Submit(p)
  <2>1. s \in Runs /\ hermes[s].state = "none"
    BY <1>0, <1>2 DEF Submit, At, SubmissionInv, RunOf, Fresh
  <2>2. UNCHANGED hermes \/ hermes' = [hermes EXCEPT ![s].state = "running"]
    BY <1>2 DEF Submit, RunOf
  <2>3. QED
    BY <1>0, <1>1, <2>1, <2>2 DEF HermesMoves, HermesRuns
<1>3. CASE ReceiveAsk(p)
  <2>1. s \in Runs /\ hermes[s].seen < hermes[s].asks /\ hermes[s] \in HermesRuns
    BY <1>0, <1>3 DEF ReceiveAsk, At, RunOf
  <2>2. hermes' = [hermes EXCEPT ![s].seen = @ + 1]
    BY <1>3 DEF ReceiveAsk, RunOf
  <2>3. hermes[s].seen \in Nat /\ hermes[s].asks \in Nat
    BY <2>1 DEF HermesRuns
  <2>4. QED
    BY <1>0, <2>1, <2>2, <2>3 DEF HermesMoves, HermesRuns
<1>4. QED
    BY <1>1, <1>2, <1>3 DEF Reading, ReadContext, MarkStarting, RecordSubmission, ReadStatus,
       Connect, MarkStarted, ReceiveEnd, StreamStops, InsertRequest, AwaitingRead,
       AwaitingWrite, StreamEnded, HandleError, PollHermes, CheckAwaiting, ReaderLeaves, Local

\* Hermes raises a demand only while it waits on none.
LEMMA HermesMovesItself ==
    ASSUME IInv, NEW s \in Runs, HermesSteps(s), NEW r \in Runs
    PROVE  HermesMoves(r)
<1>0. /\ hermes \in [Runs -> HermesRuns] /\ hermes[s] \in HermesRuns
      /\ hermes[s].seen \in Nat /\ hermes[s].asks \in Nat
    BY DEF IInv, DataInv, HermesRuns
<1>1. CASE HermesAsks(s)
    BY <1>0, <1>1 DEF HermesAsks, HermesMoves, HermesRuns
<1>2. CASE HermesEnds(s)
    BY <1>0, <1>2 DEF HermesEnds, HermesMoves, HermesRuns, TerminalStatuses
<1>3. CASE HermesStops(s)
    BY <1>0, <1>3 DEF HermesStops, HermesMoves, HermesRuns, TerminalStatuses
<1>4. CASE HermesDropsEvents(s)
    BY <1>0, <1>4 DEF HermesDropsEvents, HermesMoves, HermesRuns
<1>5. QED
    BY <1>1, <1>2, <1>3, <1>4 DEF HermesSteps

\* A cancellation asks Hermes to stop, and changes nothing else there.
LEMMA CancellingMovesHermes ==
    ASSUME IInv, NEW c \in Cancellers, Cancelling(c), NEW r \in Runs
    PROVE  HermesMoves(r)
<1>0. hermes \in [Runs -> HermesRuns]
    BY DEF IInv, DataInv
<1>1. \/ UNCHANGED hermes
      \/ \E s, stop : hermes' = [hermes EXCEPT ![s].stop = stop]
    BY DEF Cancelling, CancelLookup, CancelLocally, CancelRemotely, Local
<1>2. CASE UNCHANGED hermes
    BY <1>2 DEF HermesMoves
<1>3. CASE \E s, stop : hermes' = [hermes EXCEPT ![s].stop = stop]
    BY <1>0, <1>3 DEF HermesMoves, HermesRuns
<1>4. QED
    BY <1>1, <1>2, <1>3

\* Every step of the runs moves Hermes so.
LEMMA NextMovesHermes ==
    ASSUME IInv, SubmissionInv, [Next]_vars, NEW r \in Runs
    PROVE  HermesMoves(r)
<1>0. ASSUME UNCHANGED hermes PROVE HermesMoves(r)
    BY <1>0 DEF HermesMoves
<1>1. CASE \E s \in Runs : Creation(s)
    BY <1>0, <1>1 DEF Creation, AcquireRunStart, CreateRun, RefuseRun, StartRun, DiscardRead,
       DiscardDelete, AbandonRun
<1>2. CASE \E p \in Readers : Reading(p)
    BY <1>2, ReadingMovesHermes
<1>3. CASE \E c \in Cancellers : Cancelling(c)
    BY <1>3, CancellingMovesHermes
<1>4. CASE \/ \E p \in Procs : Closing(p)
           \/ \E c \in Cancels, s \in Runs : RequestCancel(c, s)
           \/ Reconciliation
           \/ \E m \in Mutators : AcquireMutation(m) \/ ReleaseMutation(m)
           \/ Crash
           \/ UNCHANGED vars
    BY <1>0, <1>4
    DEF Closing, CloseRead, CloseWrite, RequestCancel, Reconciliation, BootList, BootNext,
        BootEnds, BootProbe, BootResume, AcquireMutation, ReleaseMutation, Crash, vars, Local
<1>5. CASE \E s \in Runs : HermesSteps(s)
    BY <1>5, HermesMovesItself
<1>6. QED
    BY <1>1, <1>2, <1>3, <1>4, <1>5 DEF Next, Running, ConsoleStep

\* Submission is indifferent to a step that submits nothing: no reader comes to the
\* awaits before the submission, and no request that was over begins again.
LEMMA SubmissionIsIndifferent ==
    ASSUME IInv, SubmissionInv,
           \A r \in Runs : /\ hermes[r].state = "none" => hermes'[r].state = "none"
                           /\ proc[r].pc = "finished" => proc'[r].pc = "finished",
           \A q \in Readers :
               \/ proc'[q].pc = "idle"
               \/ proc'[q].source # "fresh" /\ proc'[q].pc \notin {"starting", "submit"}
               \/ /\ proc[q].pc # "idle"
                  /\ proc'[q].run = proc[q].run /\ proc'[q].source = proc[q].source
                  /\ \/ proc'[q].pc = proc[q].pc
                     \/ proc'[q].pc \notin {"context", "starting", "submit"}
    PROVE  SubmissionInv'
<1>1. \A q \in Readers : proc[q].pc # "idle" => proc[q].run \in Runs
    BY DEF IInv, ActivityInv, Shapes, ReaderShape
<1>2. QED
    BY <1>1 DEF SubmissionInv, Fresh, RunOf

\* The reader of a request that ends is the first of its run.
LEMMA CreationKeepsSubmission ==
    ASSUME IInv, SubmissionInv, NEW r \in Runs, Creation(r)
    PROVE  SubmissionInv'
<1>0. /\ UNCHANGED hermes /\ proc[r].pc # "finished" /\ proc \in [Procs -> Activities]
      /\ r \in Procs
    BY KindsAreDisjoint DEF Creation, AcquireRunStart, CreateRun, RefuseRun, StartRun, DiscardRead,
       DiscardDelete, AbandonRun, At, IInv, ActivityInv
<1>1. CASE StartRun(r)
  <2>1. PICK p \in Readers : /\ proc[p].pc = "idle"
                             /\ proc' = [proc EXCEPT ![r] = Finished, ![p] = Reader(r, "fresh")]
    BY <1>1 DEF StartRun, At
  <2>2. /\ proc'[p] = Reader(r, "fresh") /\ proc'[r] = Finished
        /\ \A q \in Procs : q # p /\ q # r => proc'[q] = proc[q]
    BY <1>0, <2>1, KindsAreDisjoint
  <2>3. hermes[r].state = "none"
    BY <1>0 DEF SubmissionInv
  <2>4. \A q \in Readers : proc[q].pc # "idle" => proc[q].run \in Runs
    BY DEF IInv, ActivityInv, Shapes, ReaderShape
  <2>5. QED
    BY <1>0, <2>2, <2>3, <2>4, KindsAreDisjoint, NewActivities DEF SubmissionInv, Fresh, RunOf
<1>2. CASE ~StartRun(r)
  <2>1. \A q \in Procs : q # r => proc'[q] = proc[q]
    BY <1>0, <1>2 DEF Creation, AcquireRunStart, CreateRun, RefuseRun, DiscardRead, DiscardDelete,
       AbandonRun, Goto, Ends
  <2>2. QED
    BY <1>0, <2>1, KindsAreDisjoint, SubmissionIsIndifferent
<1>3. QED
    BY <1>1, <1>2

\* The one fresh reader of a run submits it.
LEMMA ReadingKeepsSubmission ==
    ASSUME IInv, SubmissionInv, NEW p \in Readers, Reading(p)
    PROVE  SubmissionInv'
<1> DEFINE s == proc[p].run
<1>0. /\ proc \in [Procs -> Activities] /\ p \in Procs /\ hermes \in [Runs -> HermesRuns]
      /\ \A q \in Procs : q # p => proc'[q] = proc[q]
      /\ proc[p].pc # "idle" /\ s \in Runs
  <2>1. proc[p].pc # "idle"
    BY DEF Reading, ReadContext, MarkStarting, Submit, RecordSubmission, ReadStatus, Connect,
           MarkStarted, ReceiveAsk, ReceiveEnd, StreamStops, InsertRequest, AwaitingRead,
           AwaitingWrite, StreamEnded, HandleError, PollHermes, CheckAwaiting, ReaderLeaves, At
  <2>2. proc \in [Procs -> Activities] /\ p \in Procs /\ hermes \in [Runs -> HermesRuns]
    BY KindsAreDisjoint DEF IInv, ActivityInv, DataInv
  <2>3. \A q \in Procs : q # p => proc'[q] = proc[q]
    BY <2>2 DEF Reading, ReadContext, MarkStarting, Submit, RecordSubmission, ReadStatus, Connect,
           MarkStarted, ReceiveAsk, ReceiveEnd, StreamStops, InsertRequest, AwaitingRead,
           AwaitingWrite, StreamEnded, HandleError, PollHermes, CheckAwaiting, ReaderLeaves,
           Goto, GoClose
  <2>4. QED
    BY <2>1, <2>2, <2>3 DEF IInv, ActivityInv, Shapes, ReaderShape
<1>1. CASE ReadContext(p) \/ MarkStarting(p)
  <2>1. UNCHANGED hermes /\ \E pc \in PCs : Goto(p, pc)
                              /\ (pc \in {"starting", "submit"} => Fresh(p))
                              /\ proc[p].pc \in {"context", "starting"}
    BY <1>1 DEF ReadContext, MarkStarting, Local, SubmissionInv, At, PCs, ReaderPCs
  <2>2. PICK pc \in PCs : /\ Goto(p, pc) /\ (pc \in {"starting", "submit"} => Fresh(p))
                          /\ proc[p].pc \in {"context", "starting"}
    BY <2>1
  <2>3. proc'[p].run = s /\ proc'[p].source = proc[p].source /\ proc'[p].pc = pc
    BY <1>0, <2>2 DEF Goto, Activities
  <2>4. \A q \in Readers : proc[q].pc # "idle" => proc[q].run \in Runs
    BY DEF IInv, ActivityInv, Shapes, ReaderShape
  <2> HIDE DEF s
  <2>5. Fresh(p) => hermes[s].state = "none" /\ proc[s].pc = "finished"
    BY <1>0, <2>2 DEF SubmissionInv, RunOf, s
  <2>6. QED
    BY <1>0, <2>1, <2>2, <2>3, <2>4, <2>5, KindsAreDisjoint DEF SubmissionInv, Fresh, RunOf, s
<1>2. CASE Submit(p)
  <2>1. \E pc \in {"submitted", "error"} : Goto(p, pc)
    BY <1>2 DEF Submit
  <2>2. /\ proc'[p].run = s /\ proc'[p].source = proc[p].source
        /\ proc'[p].pc \notin {"context", "starting", "submit", "idle"}
    BY <1>0, <2>1 DEF Goto, Activities
  <2>3. \A r \in Runs : r # s => hermes'[r] = hermes[r]
    BY <1>0, <1>2 DEF Submit, RunOf
  <2>4. proc[p].source = "fresh" /\ proc[s].pc = "finished"
    BY <1>0, <1>2 DEF Submit, At, SubmissionInv, Fresh, RunOf
  <2>5. \A q \in Readers :
           proc[q].pc # "idle" /\ proc[q].source = "fresh" =>
               /\ proc[q].run \in Runs
               /\ q # p => proc[q].run # s
    BY <1>0, <2>4 DEF IInv, ActivityInv, Shapes, ReaderShape, ReaderIsRegistered, At, RunOf, Fresh
  <2> HIDE DEF s
  <2>6. \A r \in Runs : proc'[r].pc # "finished" => hermes'[r].state = "none"
    BY <1>0, <2>3, <2>4, KindsAreDisjoint DEF SubmissionInv
  <2>7. QED
    BY <1>0, <2>2, <2>3, <2>4, <2>5, <2>6, KindsAreDisjoint DEF SubmissionInv, Fresh, RunOf
<1>3. CASE ~ReadContext(p) /\ ~MarkStarting(p) /\ ~Submit(p)
  <2>1. \A r \in Runs : hermes'[r].state = hermes[r].state
    BY <1>0, <1>3 DEF Reading, RecordSubmission, ReadStatus, Connect,
       MarkStarted, ReceiveAsk, ReceiveEnd, StreamStops, InsertRequest, AwaitingRead,
       AwaitingWrite, StreamEnded, HandleError, PollHermes, CheckAwaiting, ReaderLeaves, Local,
       HermesRuns
  <2>2. CASE ReaderLeaves(p)
    BY <1>0, <2>1, <2>2, KindsAreDisjoint, NewActivities, SubmissionIsIndifferent DEF ReaderLeaves
  <2>3. CASE ~ReaderLeaves(p)
    <3>1. /\ proc'[p].run = proc[p].run /\ proc'[p].source = proc[p].source
          /\ proc'[p].pc \notin {"context", "starting", "submit"}
      BY <1>0, <1>3, <2>3 DEF Reading, RecordSubmission, ReadStatus, Connect, MarkStarted,
         ReceiveAsk, ReceiveEnd, StreamStops, InsertRequest, AwaitingRead, AwaitingWrite,
         StreamEnded, HandleError, PollHermes, CheckAwaiting, Goto, GoClose, Activities
    <3>2. QED
      BY <1>0, <2>1, <3>1, KindsAreDisjoint, SubmissionIsIndifferent
  <2>4. QED
    BY <2>2, <2>3
<1>4. QED
    BY <1>1, <1>2, <1>3

\* A closure leads no reader back before its submission.
LEMMA ClosingKeepsSubmission ==
    ASSUME IInv, SubmissionInv, NEW p \in Procs, Closing(p)
    PROVE  SubmissionInv'
<1>0. /\ proc \in [Procs -> Activities] /\ UNCHANGED hermes
      /\ p \notin Runs
      /\ proc[p].pc \in {"close_read", "close_write"}
      /\ \/ Returns(p)
         \/ Goto(p, "close_write")
    BY DEF Closing, CloseRead, CloseWrite, Local, At, IInv, ActivityInv, Shapes, RequestShape,
           RequestPCs
<1>1. \A q \in Procs : q # p => proc'[q] = proc[q]
    BY <1>0 DEF Returns, Goto
<1>2. CASE p \in Readers
  <2>1. proc[p].next \in {"read", "leaving"}
    BY <1>0, <1>2 DEF IInv, ActivityInv, Shapes, ReaderShape, ClosePCs
  <2>2. CASE Returns(p)
    <3>1. proc'[p] = [proc[p] EXCEPT !.pc = proc[p].next, !.next = "none", !.outcome = "none"]
      BY <1>0, <2>1, <2>2 DEF Returns, Returned
    <3>2. /\ proc'[p].run = proc[p].run /\ proc'[p].source = proc[p].source
          /\ proc'[p].pc = proc[p].next
      BY <1>0, <3>1 DEF Activities
    <3>3. QED
      BY <1>0, <1>1, <2>1, <3>2, KindsAreDisjoint, SubmissionIsIndifferent
  <2>3. CASE Goto(p, "close_write")
    <3>1. /\ proc'[p].run = proc[p].run /\ proc'[p].source = proc[p].source
          /\ proc'[p].pc = "close_write"
      BY <1>0, <2>3 DEF Goto, Activities
    <3>2. QED
      BY <1>0, <1>1, <3>1, KindsAreDisjoint, SubmissionIsIndifferent
  <2>4. QED
    BY <1>0, <2>2, <2>3
<1>3. CASE p \notin Readers
  <2>1. \A q \in Runs \union Readers : proc'[q] = proc[q]
    BY <1>0, <1>1, <1>3 DEF Procs
  <2>2. QED
    BY <1>0, <2>1, SubmissionIsIndifferent
<1>4. QED
    BY <1>2, <1>3

\* Cancellation and reconciliation submit nothing.
LEMMA OthersKeepSubmission ==
    ASSUME IInv, SubmissionInv,
           \/ \E c \in Cancels, r \in Runs : RequestCancel(c, r)
           \/ \E c \in Cancellers : Cancelling(c)
           \/ Reconciliation
    PROVE  SubmissionInv'
<1>0. /\ proc \in [Procs -> Activities] /\ hermes \in [Runs -> HermesRuns]
      /\ activeRuns \in [Runs -> Readers \union {NoReader}]
    BY DEF IInv, ActivityInv, DataInv
<1>1. ASSUME NEW c \in Cancellers, UNCHANGED hermes,
             \A q \in Procs : q # c => proc'[q] = proc[q]
      PROVE  SubmissionInv'
    BY <1>1, KindsAreDisjoint, SubmissionIsIndifferent
<1>2. CASE \E c \in Cancels, r \in Runs : RequestCancel(c, r)
  <2>1. PICK c \in Cancels, r \in Runs : RequestCancel(c, r)
    BY <1>2
  <2>2. QED
    BY <1>0, <1>1, <2>1 DEF RequestCancel, Cancellers
<1>3. CASE \E c \in Cancellers : Cancelling(c)
  <2>1. PICK c \in Cancellers : Cancelling(c)
    BY <1>3
  <2>2. CASE CancelLookup(c)
    BY <1>0, <1>1, <2>2 DEF CancelLookup, Returns, Local
  <2>3. CASE CancelRemotely(c)
    <3>1. \A q \in Procs : q # c => proc'[q] = proc[q]
      BY <1>0, <2>3 DEF CancelRemotely, GoClose
    <3>2. \A r \in Runs : hermes'[r].state = hermes[r].state
      BY <1>0, <2>3 DEF CancelRemotely, HermesRuns
    <3>3. QED
      BY <3>1, <3>2, KindsAreDisjoint, SubmissionIsIndifferent
  <2>4. CASE CancelLocally(c)
    <3> DEFINE p == activeRuns[proc[c].run]  b == Returned(c)
               abort == IF proc[p].aborted = "no" THEN "user" ELSE proc[p].aborted
    <3>1. /\ proc' = [proc EXCEPT ![p].aborted = abort, ![c] = b]
          /\ proc[c].run \in Runs /\ p # NoReader
      BY <2>4 DEF CancelLocally, RunOf, At, IInv, ActivityInv, Shapes, CancellerShape
    <3>2. p \in Readers
      BY <1>0, <3>1
    <3> HIDE DEF p, b, abort
    <3>3. /\ proc'[p] = [proc[p] EXCEPT !.aborted = abort]
          /\ \A q \in Procs : q # p /\ q # c => proc'[q] = proc[q]
      BY <1>0, <3>1, <3>2, KindsAreDisjoint
    <3>4. /\ proc'[p].run = proc[p].run /\ proc'[p].source = proc[p].source
          /\ proc'[p].pc = proc[p].pc
      BY <1>0, <3>2, <3>3, KindsAreDisjoint DEF Activities
    <3>5. \A r \in Runs : hermes'[r].state = hermes[r].state
      BY <1>0, <2>4 DEF CancelLocally, HermesRuns
    <3>6. QED
      BY <3>2, <3>3, <3>4, <3>5, KindsAreDisjoint, SubmissionIsIndifferent
  <2>5. QED
    BY <2>1, <2>2, <2>3, <2>4 DEF Cancelling
<1>4. CASE Reconciliation
  <2>1. CASE BootList \/ BootNext \/ BootEnds \/ BootProbe
    <3>1. UNCHANGED hermes /\ \A q \in Procs : q # Boot => proc'[q] = proc[q]
      BY <1>0, <2>1 DEF BootList, BootNext, BootEnds, BootProbe, Goto, Ends, GoClose, Local
    <3>2. QED
      BY <1>1, <3>1, KindsAreDisjoint
  <2>2. CASE BootResume
    <3>1. CASE \/ GoClose(Boot, "failed", "next")
               \/ Returns(Boot)
      <4>1. UNCHANGED hermes /\ \A q \in Procs : q # Boot => proc'[q] = proc[q]
        BY <1>0, <2>2, <3>1 DEF BootResume, GoClose, Returns
      <4>2. QED
        BY <1>1, <4>1, KindsAreDisjoint
    <3>2. ASSUME NEW p \in Readers,
                 proc' = [proc EXCEPT ![Boot] = Returned(Boot),
                                      ![p] = Reader(proc[Boot].run, "reconciled")]
          PROVE  SubmissionInv'
      <4>1. proc[Boot].run \in Runs
        BY <2>2, KindsAreDisjoint
        DEF BootResume, At, IInv, ActivityInv, Shapes, CancellerShape
      <4>2. /\ proc'[p] = Reader(proc[Boot].run, "reconciled")
            /\ \A q \in Procs : q # p /\ q # Boot => proc'[q] = proc[q]
        BY <1>0, <3>2, KindsAreDisjoint
      <4>3. proc'[p].source # "fresh" /\ proc'[p].pc = "context"
        BY <4>1, <4>2, NewActivities
      <4>4. UNCHANGED hermes
        BY <2>2 DEF BootResume
      <4>5. QED
        BY <4>2, <4>3, <4>4, KindsAreDisjoint, SubmissionIsIndifferent
    <3>3. QED
      BY <2>2, <3>1, <3>2 DEF BootResume, RunOf
  <2>3. QED
    BY <1>4, <2>1, <2>2 DEF Reconciliation
<1>5. QED
    BY <1>2, <1>3, <1>4

\* No step of the runs submits a run twice.
LEMMA NextKeepsSubmission ==
    ASSUME IInv, SubmissionInv, [Next]_vars
    PROVE  SubmissionInv'
<1>0. ASSUME UNCHANGED <<proc, hermes>> PROVE SubmissionInv'
    BY <1>0 DEF SubmissionInv, Fresh, RunOf
<1>1. CASE \E r \in Runs : Creation(r)
    BY <1>1, CreationKeepsSubmission
<1>2. CASE \E p \in Readers : Reading(p)
    BY <1>2, ReadingKeepsSubmission
<1>3. CASE \E p \in Procs : Closing(p)
    BY <1>3, ClosingKeepsSubmission
<1>4. CASE \/ \E c \in Cancels, r \in Runs : RequestCancel(c, r)
           \/ \E c \in Cancellers : Cancelling(c)
           \/ Reconciliation
    BY <1>4, OthersKeepSubmission
<1>5. CASE \/ \E m \in Mutators : AcquireMutation(m) \/ ReleaseMutation(m)
           \/ UNCHANGED vars
    BY <1>0, <1>5 DEF AcquireMutation, ReleaseMutation, vars, processVars
<1>6. CASE \E r \in Runs : HermesSteps(r)
  <2>1. PICK s \in Runs : HermesSteps(s)
    BY <1>6
  <2>2. UNCHANGED proc /\ \A r \in Runs : hermes[r].state = "none" => hermes'[r].state = "none"
    BY <2>1 DEF IInv, DataInv, HermesRuns, HermesSteps, HermesAsks, HermesEnds, HermesStops,
       HermesDropsEvents, HermesOnly, processVars, Live
  <2>3. \A q \in Readers : proc[q].pc # "idle" => proc[q].run \in Runs
    BY DEF IInv, ActivityInv, Shapes, ReaderShape
  <2>4. QED
    BY <2>2, <2>3 DEF SubmissionInv, Fresh, RunOf
<1>7. CASE Crash
  <2>1. /\ UNCHANGED hermes
        /\ \A p \in Procs : proc'[p] = AfterCrash(p)
    BY <1>7 DEF Crash
  <2>2. /\ \A q \in Readers : proc'[q].pc = "idle"
        /\ \A r \in Runs : proc[r].pc = "finished" => proc'[r].pc = "finished"
    BY <2>1, KindsAreDisjoint, NewActivities DEF AfterCrash, At
  <2>3. QED
    BY <2>1, <2>2, SubmissionIsIndifferent
<1>8. QED
    BY <1>1, <1>2, <1>3, <1>4, <1>5, <1>6, <1>7 DEF Next, Running, ConsoleStep
-----------------------------------------------------------------------------
(* What each step writes, for the invariants below *)

\* A step that moves the program counter of one activity.
LEMMA GotoMoves ==
    ASSUME ActivityInv, NEW p \in Procs, NEW pc, Goto(p, pc)
    PROVE  /\ proc'[p].pc = pc
           /\ proc'[p].run = proc[p].run /\ proc'[p].next = proc[p].next
           /\ proc'[p].source = proc[p].source /\ proc'[p].aborted = proc[p].aborted
           /\ proc'[p].terminal = proc[p].terminal /\ proc'[p].outcome = proc[p].outcome
           /\ proc'[p].known = proc[p].known
           /\ \A q \in Procs : q # p => proc'[q] = proc[q]
<1>1. proc[p] \in Activities /\ proc \in [Procs -> Activities]
    BY DEF ActivityInv
<1>2. proc'[p] = [proc[p] EXCEPT !.pc = pc] /\ \A q \in Procs : q # p => proc'[q] = proc[q]
    BY <1>1 DEF Goto
<1>3. QED
    BY <1>1, <1>2 DEF Activities

\* A step that goes to close a run.
LEMMA GoCloseMoves ==
    ASSUME ActivityInv, NEW p \in Procs, NEW outcome, NEW next, GoClose(p, outcome, next)
    PROVE  /\ proc'[p].pc = "close_read"
           /\ proc'[p].outcome = outcome /\ proc'[p].next = next
           /\ proc'[p].run = proc[p].run /\ proc'[p].source = proc[p].source
           /\ proc'[p].aborted = proc[p].aborted /\ proc'[p].terminal = proc[p].terminal
           /\ \A q \in Procs : q # p => proc'[q] = proc[q]
<1>1. proc[p] \in Activities /\ proc \in [Procs -> Activities]
    BY DEF ActivityInv
<1>2. /\ proc'[p] = [proc[p] EXCEPT !.pc = "close_read", !.outcome = outcome, !.next = next]
      /\ \A q \in Procs : q # p => proc'[q] = proc[q]
    BY <1>1 DEF GoClose
<1>3. QED
    BY <1>1, <1>2 DEF Activities

\* A reader moves itself only; unless it leaves, it keeps its run and its source, and
\* its registration with them.
LEMMA ReadingMoves ==
    ASSUME ActivityInv, NEW p \in Readers, Reading(p)
    PROVE  /\ p \in Procs /\ proc[p].run \in Runs /\ proc[p].pc \notin ClosePCs \union {"idle"}
           /\ \A q \in Procs : q # p => proc'[q] = proc[q]
           /\ \/ ReaderLeaves(p) /\ proc'[p] = Idle
              \/ /\ proc'[p].pc # "idle" /\ UNCHANGED activeRuns
                 /\ proc'[p].run = proc[p].run /\ proc'[p].source = proc[p].source
                 /\ proc'[p].aborted = proc[p].aborted
           /\ UNCHANGED <<todo, mutationLease, runReservations, crashes, cancelAsked>>
<1>1. p \in Procs /\ proc \in [Procs -> Activities] /\ proc[p] \in Activities
    BY KindsAreDisjoint DEF ActivityInv
<1>2. proc[p].pc \in ReaderPCs /\ ReaderPCs \intersect (ClosePCs \union {"idle"}) = {}
    BY DEF Reading, ReadContext, MarkStarting, Submit, RecordSubmission, ReadStatus, Connect,
           MarkStarted, ReceiveAsk, ReceiveEnd, StreamStops, InsertRequest, AwaitingRead,
           AwaitingWrite, StreamEnded, HandleError, PollHermes, CheckAwaiting, ReaderLeaves, At,
           ReaderPCs, ClosePCs
<1>3. proc[p].run \in Runs
    BY <1>2 DEF ActivityInv, Shapes, ReaderShape
<1>4. UNCHANGED <<todo, mutationLease, runReservations, crashes, cancelAsked>>
    BY DEF Reading, ReadContext, MarkStarting, Submit, RecordSubmission, ReadStatus, Connect,
           MarkStarted, ReceiveAsk, ReceiveEnd, StreamStops, InsertRequest, AwaitingRead,
           AwaitingWrite, StreamEnded, HandleError, PollHermes, CheckAwaiting, ReaderLeaves,
           Local, Keeps
<1>5. CASE ReaderLeaves(p)
    BY <1>1, <1>2, <1>3, <1>4, <1>5 DEF ReaderLeaves
<1>6. CASE RecordSubmission(p)
  <2>1. proc'[p] = [proc[p] EXCEPT !.pc = "connect", !.known = TRUE]
        /\ \A q \in Procs : q # p => proc'[q] = proc[q]
    BY <1>1, <1>6 DEF RecordSubmission, Activities
  <2>2. QED
    BY <1>1, <1>2, <1>3, <1>4, <1>6, <2>1 DEF Activities, RecordSubmission, Keeps
<1>7. CASE ReceiveEnd(p) /\ ~Aborted(p)
  <2>1. proc'[p] = [proc[p] EXCEPT !.pc = "close_read", !.outcome = hermes[RunOf(p)].state,
                                   !.next = "read", !.terminal = TRUE]
        /\ \A q \in Procs : q # p => proc'[q] = proc[q]
    BY <1>1, <1>7 DEF ReceiveEnd, Activities
  <2>2. QED
    BY <1>1, <1>2, <1>3, <1>4, <1>7, <2>1 DEF Activities, ReceiveEnd, Local, Keeps
<1>8. CASE ~ReaderLeaves(p) /\ ~RecordSubmission(p) /\ ~(ReceiveEnd(p) /\ ~Aborted(p))
  <2>1. /\ UNCHANGED activeRuns
        /\ \/ \E pc \in ReaderPCs : Goto(p, pc)
           \/ \E outcome, next : GoClose(p, outcome, next)
    BY <1>8 DEF Reading, ReadContext, MarkStarting, Submit, ReadStatus, Connect,
           MarkStarted, ReceiveAsk, ReceiveEnd, StreamStops, InsertRequest, AwaitingRead,
           AwaitingWrite, StreamEnded, HandleError, PollHermes, CheckAwaiting,
           Local, Keeps, ReaderPCs
  <2>2. QED
    BY <1>1, <1>2, <1>3, <1>4, <2>1, GotoMoves, GoCloseMoves
<1>9. QED
    BY <1>5, <1>6, <1>7, <1>8

\* A closure moves its activity only, and takes a reader back with its run.
LEMMA ClosingMoves ==
    ASSUME ActivityInv, NEW p \in Procs, Closing(p)
    PROVE  /\ p \notin Runs /\ proc[p].run \in Runs /\ proc[p].pc \in ClosePCs
           /\ proc[p].outcome \in TerminalStatuses
           /\ \A q \in Procs : q # p => proc'[q] = proc[q]
           /\ \/ /\ At(p, "close_read") /\ proc'[p].pc = "close_write"
                 /\ Exists(proc[p].run) /\ ~IsTerminal(proc[p].run)
                 /\ proc'[p].run = proc[p].run /\ proc'[p].source = proc[p].source
                 /\ proc'[p].aborted = proc[p].aborted /\ proc'[p].outcome = proc[p].outcome
                 /\ proc'[p].terminal = proc[p].terminal
              \/ /\ proc'[p] = Returned(p)
                 /\ At(p, "close_read") => ~Exists(proc[p].run) \/ IsTerminal(proc[p].run)
           /\ p \in Readers /\ proc'[p] = Returned(p) =>
                 /\ proc'[p].pc \in {"read", "leaving"}
                 /\ proc'[p].run = proc[p].run /\ proc'[p].source = proc[p].source
                 /\ proc'[p].aborted = proc[p].aborted /\ proc'[p].terminal = proc[p].terminal
           /\ p \in Cancellers /\ proc'[p] = Returned(p) => proc'[p].pc \in {"next", "finished"}
           /\ UNCHANGED <<approval, hermes, todo, activeRuns, mutationLease, runReservations,
                          crashes, cancelAsked>>
<1>1. proc \in [Procs -> Activities] /\ proc[p] \in Activities /\ proc[p].pc \in ClosePCs
    BY DEF ActivityInv, Closing, CloseRead, CloseWrite, At, ClosePCs
<1>2. /\ p \notin Runs /\ proc[p].run \in Runs /\ proc[p].outcome \in TerminalStatuses
      /\ p \in Readers => proc[p].next \in {"read", "leaving"}
      /\ p \in Cancellers => proc[p].next \in {"next", "finished"}
    BY <1>1 DEF ActivityInv, Shapes, RequestShape, RequestPCs, ReaderShape, CancellerShape,
                ClosePCs, Procs
<1>3. UNCHANGED <<approval, hermes, todo, activeRuns, mutationLease, runReservations,
                  crashes, cancelAsked>>
    BY DEF Closing, CloseRead, CloseWrite, Local, Keeps, storeVars
<1>4. CASE Goto(p, "close_write") /\ CloseRead(p)
  <2>1. proc'[p] # Returned(p)
    <3>1. proc'[p].pc = "close_write"
      BY <1>1, <1>4, GotoMoves
    <3>2. Returned(p).pc # "close_write"
      BY <1>1, <1>2, ReturnedActivity, NewActivities DEF Procs, Idle, Finished
    <3>3. QED
      BY <3>1, <3>2
  <2>2. Exists(proc[p].run) /\ ~IsTerminal(proc[p].run) /\ At(p, "close_read")
    BY <1>1, <1>4, <2>1 DEF CloseRead, Returns, At, RunOf
  <2>3. QED
    BY <1>1, <1>2, <1>3, <1>4, <2>1, <2>2, GotoMoves
<1>5. CASE Returns(p)
  <2>1. proc'[p] = Returned(p) /\ \A q \in Procs : q # p => proc'[q] = proc[q]
    BY <1>1, <1>5 DEF Returns
  <2>2. At(p, "close_read") => ~Exists(proc[p].run) \/ IsTerminal(proc[p].run)
    <3>1. SUFFICES ASSUME At(p, "close_read"), Exists(proc[p].run), ~IsTerminal(proc[p].run)
                   PROVE  FALSE
      OBVIOUS
    <3>2. Goto(p, "close_write")
      BY <3>1 DEF Closing, CloseRead, CloseWrite, At, RunOf
    <3>3. proc'[p].pc = "close_write"
      BY <3>2, GotoMoves
    <3>4. Returned(p).pc # "close_write"
      BY <1>1, <1>2, ReturnedActivity, NewActivities DEF Procs, Idle, Finished
    <3>5. QED
      BY <2>1, <3>3, <3>4
  <2>3. p \in Readers => Returned(p).terminal = proc[p].terminal
    BY <1>1, <1>2 DEF Returned, Activities
  <2>4. p \in Cancellers => Returned(p).pc \in {"next", "finished"}
    BY <1>1, <1>2, ReturnedActivity, NewActivities DEF Idle, Finished
  <2>5. QED
    BY <1>1, <1>2, <1>3, <2>1, <2>2, <2>3, <2>4, ReturnedActivity
<1>6. QED
    BY <1>4, <1>5 DEF Closing, CloseRead, CloseWrite

\* An UPDATE of a status writes that row, if it exists, and its status alone.
LEMMA StatusIsWritten ==
    ASSUME run \in [Runs -> Rows], NEW s \in Runs, NEW status, SetStatus(s, status)
    PROVE  /\ \A r \in Runs : /\ run'[r].submitted = run[r].submitted
                              /\ \/ run'[r].status = run[r].status
                                 \/ r = s /\ Exists(s) /\ run'[r].status = status
           /\ Exists(s) => run'[s].status = status
<1>1. run[s] \in Rows
    OBVIOUS
<1>2. CASE Exists(s)
  <2>1. run' = [run EXCEPT ![s] = [run[s] EXCEPT !.status = status]]
    BY <1>2 DEF SetStatus, Update
  <2>2. /\ run'[s] = [run[s] EXCEPT !.status = status]
        /\ \A r \in Runs : r # s => run'[r] = run[r]
    BY <2>1
  <2>3. QED
    BY <1>1, <1>2, <2>2 DEF Rows
<1>3. CASE ~Exists(s)
    BY <1>3 DEF SetStatus, Update
<1>4. QED
    BY <1>2, <1>3

\* The statuses a reader may write, and the awaits from which it writes them.
LEMMA ReadingWrites ==
    ASSUME IInv, NEW p \in Readers, Reading(p), NEW r \in Runs
    PROVE  /\ \/ run'[r].submitted = run[r].submitted
              \/ r = proc[p].run /\ proc[p].pc = "submitted"
           /\ \/ run'[r].status = run[r].status
              \/ /\ r = proc[p].run /\ Exists(r)
                 /\ \/ /\ MarkStarting(p) /\ proc[p].pc = "starting"
                       /\ run'[r].status = "starting"
                    \/ /\ MarkStarted(p) /\ proc[p].pc = "mark_started"
                       /\ run'[r].status = "running"
                    \/ /\ AwaitingWrite(p) /\ proc[p].pc = "mark_write"
                       /\ run'[r].status = "awaiting_approval"
<1> DEFINE s == proc[p].run
<1>1. run \in [Runs -> Rows] /\ s \in Runs /\ run[s] \in Rows
    BY ReadingMoves DEF IInv, DataInv, StoreTypeOK
<1>2. CASE UNCHANGED run
    BY <1>2
<1>3. CASE MarkStarting(p)
    BY <1>1, <1>2, <1>3, StatusIsWritten DEF MarkStarting, MarkRunStarting, At, RunOf
<1>4. CASE MarkStarted(p)
    BY <1>1, <1>4, StatusIsWritten DEF MarkStarted, MarkRunStarted, At, RunOf
<1>5. CASE AwaitingWrite(p)
    BY <1>1, <1>5, StatusIsWritten DEF AwaitingWrite, WriteAwaitingApproval, At, RunOf
<1>6. CASE RecordSubmission(p)
  <2>1. /\ proc[p].pc = "submitted"
        /\ \/ UNCHANGED run
           \/ run' = [run EXCEPT ![s] = [run[s] EXCEPT !.submitted = TRUE]]
    BY <1>6 DEF RecordSubmission, SetHermesResponseId, Update, At, RunOf
  <2>2. QED
    BY <1>1, <1>2, <2>1 DEF Rows
<1>7. QED
    BY <1>2, <1>3, <1>4, <1>5, <1>6
    DEF Reading, ReadContext, Submit, ReadStatus, Connect, ReceiveAsk, ReceiveEnd,
        StreamStops, InsertRequest, AwaitingRead, StreamEnded, HandleError, PollHermes,
        CheckAwaiting, ReaderLeaves, Local, storeVars

\* A closure writes the outcome it carries, from its second await.
LEMMA ClosingWrites ==
    ASSUME IInv, NEW p \in Procs, Closing(p), NEW r \in Runs
    PROVE  /\ run'[r].submitted = run[r].submitted
           /\ \/ run'[r].status = run[r].status
              \/ /\ r = proc[p].run /\ Exists(r)
                 /\ proc[p].pc = "close_write" /\ run'[r].status = proc[p].outcome
           /\ proc[p].pc = "close_write" /\ r = proc[p].run /\ Exists(r) =>
                 run'[r].status = proc[p].outcome
<1>1. run \in [Runs -> Rows] /\ proc[p].run \in Runs
    BY ClosingMoves DEF IInv, DataInv, StoreTypeOK
<1>2. CASE CloseRead(p)
    BY <1>2 DEF CloseRead, Local, storeVars, At
<1>3. CASE CloseWrite(p)
    BY <1>1, <1>3, StatusIsWritten DEF CloseWrite, WriteClosed, At, RunOf
<1>4. QED
    BY <1>2, <1>3 DEF Closing

\* A request of creation writes its own row: it inserts it, or deletes it while pending.
LEMMA CreationWrites ==
    ASSUME IInv, NEW s \in Runs, Creation(s), NEW r \in Runs
    PROVE  \/ run'[r] = run[r]
           \/ r = s /\ CreateRun(s) /\ run'[r] = Pending
           \/ r = s /\ DiscardDelete(s) /\ run'[r] = Absent /\ run[r].status = "pending"
<1>1. run \in [Runs -> Rows]
    BY DEF IInv, DataInv, StoreTypeOK
<1>2. CASE CreateRun(s)
    BY <1>1, <1>2 DEF CreateRun, InsertRun
<1>3. CASE DiscardDelete(s)
    BY <1>1, <1>3 DEF DiscardDelete, DeletePendingRun
<1>4. QED
    BY <1>2, <1>3 DEF Creation, AcquireRunStart, RefuseRun, StartRun, DiscardRead, AbandonRun,
       storeVars

-----------------------------------------------------------------------------
(* A completed run has completed in Hermes *)

\* A success about to be written is that of Hermes, as one written is.
CompletedInv ==
    /\ \A p \in Procs :
         proc[p].pc \in ClosePCs /\ proc[p].outcome = "completed" =>
             hermes[proc[p].run].state = "completed"
    /\ CompletedIsGenuine

\* A run that completed in Hermes stays so there.
CompletionStays ==
    \A r \in Runs : hermes[r].state = "completed" => hermes'[r].state = "completed"

\* No step takes a completion back: a run is submitted once, before it is in Hermes.
LEMMA HermesKeepsCompletions ==
    ASSUME IInv, SubmissionInv, [Next]_vars
    PROVE  CompletionStays
<1>0. hermes \in [Runs -> HermesRuns]
    BY DEF IInv, DataInv
<1>1. CASE UNCHANGED hermes
    BY <1>1 DEF CompletionStays
<1>2. CASE \E p \in Readers : Reading(p)
  <2>1. PICK p \in Readers : Reading(p)
    BY <1>2
  <2>2. CASE Submit(p)
    <3>1. proc[p].run \in Runs /\ hermes[proc[p].run].state = "none"
      BY <2>1, <2>2, ReadingMoves DEF IInv, Submit, At, SubmissionInv, RunOf, Fresh
    <3>2. QED
      BY <1>0, <2>2, <3>1 DEF Submit, RunOf, CompletionStays
  <2>3. CASE ReceiveAsk(p)
    BY <1>0, <2>3 DEF ReceiveAsk, CompletionStays, HermesRuns
  <2>4. QED
    BY <1>1, <2>1, <2>2, <2>3 DEF Reading, ReadContext, MarkStarting, RecordSubmission,
       ReadStatus, Connect, MarkStarted, ReceiveEnd, StreamStops, InsertRequest, AwaitingRead,
       AwaitingWrite, StreamEnded, HandleError, PollHermes, CheckAwaiting, ReaderLeaves, Local
<1>3. CASE \E c \in Cancellers : Cancelling(c)
  <2>1. \/ UNCHANGED hermes
        \/ \E s, stop : hermes' = [hermes EXCEPT ![s].stop = stop]
    BY <1>3 DEF Cancelling, CancelLookup, CancelLocally, CancelRemotely, Local
  <2>2. QED
    BY <1>0, <2>1 DEF CompletionStays, HermesRuns
<1>4. CASE \E r \in Runs : HermesSteps(r)
    BY <1>0, <1>4 DEF HermesSteps, HermesAsks, HermesEnds, HermesStops, HermesDropsEvents, Live,
       CompletionStays, HermesRuns
<1>5. CASE \/ \E r \in Runs : Creation(r)
           \/ \E p \in Procs : Closing(p)
           \/ \E c \in Cancels, r \in Runs : RequestCancel(c, r)
           \/ Reconciliation
           \/ \E m \in Mutators : AcquireMutation(m) \/ ReleaseMutation(m)
           \/ Crash
           \/ UNCHANGED vars
    BY <1>1, <1>5
    DEF Creation, AcquireRunStart, CreateRun, RefuseRun, StartRun, DiscardRead, DiscardDelete,
        AbandonRun, Closing, CloseRead, CloseWrite, RequestCancel, Reconciliation, BootList,
        BootNext, BootEnds, BootProbe, BootResume, AcquireMutation, ReleaseMutation, Crash, vars,
        Local
<1>6. QED
    BY <1>2, <1>3, <1>4, <1>5 DEF Next, Running, ConsoleStep

\* What a step must not do: write a success, or be about to, that Hermes does not know.
LEMMA CompletionIsIndifferent ==
    ASSUME IInv, CompletedInv, CompletionStays,
           \A r \in Runs : run'[r].status = "completed" =>
               run[r].status = "completed" \/ hermes'[r].state = "completed",
           \A q \in Procs :
               \/ proc'[q].pc \notin ClosePCs
               \/ proc'[q].outcome # "completed"
               \/ /\ proc[q].pc \in ClosePCs
                  /\ proc'[q].run = proc[q].run /\ proc'[q].outcome = proc[q].outcome
               \/ hermes'[proc'[q].run].state = "completed"
    PROVE  CompletedInv'
<1>1. \A q \in Procs : proc[q].pc \in ClosePCs => proc[q].run \in Runs
    BY DEF IInv, ActivityInv, Shapes, RequestShape, RequestPCs, ReaderShape, CancellerShape,
           ClosePCs, Procs
<1>2. QED
    BY <1>1 DEF CompletedInv, CompletedIsGenuine, CompletionStays

\* A reader closes its run as completed on the word of Hermes only.
LEMMA ReadingKeepsCompletions ==
    ASSUME IInv, CompletedInv, CompletionStays, NEW p \in Readers, Reading(p)
    PROVE  CompletedInv'
<1>0. ActivityInv /\ p \in Procs /\ proc[p].run \in Runs
      /\ \A q \in Procs : q # p => proc'[q] = proc[q]
    BY ReadingMoves DEF IInv
<1>1. \A r \in Runs : run'[r].status = "completed" => run[r].status = "completed"
    BY ReadingWrites
<1>2. \/ proc'[p].pc \notin ClosePCs
      \/ proc'[p].outcome # "completed"
      \/ hermes'[proc'[p].run].state = "completed"
  <2>1. CASE \E pc \in ReaderPCs : Goto(p, pc)
    BY <1>0, <2>1, GotoMoves DEF ReaderPCs, ClosePCs
  <2>2. CASE \E outcome \in {"failed", "cancelled"} : \E next : GoClose(p, outcome, next)
    BY <1>0, <2>2, GoCloseMoves
  <2>3. CASE PollHermes(p)
    <3>1. CASE GoClose(p, hermes[proc[p].run].state, "leaving")
      BY <1>0, <2>3, <3>1, GoCloseMoves DEF PollHermes, Local
    <3>2. QED
      BY <2>1, <2>3, <3>1 DEF PollHermes, RunOf, ReaderPCs
  <2>4. CASE ReceiveEnd(p)
    <3>1. CASE Goto(p, "ended")
      BY <2>1, <3>1 DEF ReaderPCs
    <3>2. CASE proc' = [proc EXCEPT ![p].pc = "close_read", ![p].outcome = hermes[RunOf(p)].state,
                                   ![p].next = "read", ![p].terminal = TRUE]
      <4>1. proc'[p].outcome = hermes[proc[p].run].state /\ proc'[p].run = proc[p].run
        BY <1>0, <3>2 DEF ActivityInv, Activities, RunOf
      <4>2. QED
        BY <2>4, <4>1 DEF ReceiveEnd, Local
    <3>3. QED
      BY <2>4, <3>1, <3>2 DEF ReceiveEnd
  <2>5. CASE RecordSubmission(p)
    BY <1>0, <2>5 DEF RecordSubmission, ActivityInv, Activities, ClosePCs
  <2>6. CASE ReaderLeaves(p)
    BY <1>0, <2>6, NewActivities DEF ReaderLeaves, ActivityInv, ClosePCs
  <2>7. QED
    BY <2>1, <2>2, <2>3, <2>4, <2>5, <2>6
    DEF Reading, ReadContext, MarkStarting, Submit, ReadStatus, Connect, MarkStarted, ReceiveAsk,
        StreamStops, InsertRequest, AwaitingRead, AwaitingWrite, StreamEnded, HandleError,
        CheckAwaiting, ReaderPCs
<1>3. QED
    BY <1>0, <1>1, <1>2, CompletionIsIndifferent

\* A closure carries its outcome from one await to the next and writes that one.
LEMMA ClosingKeepsCompletions ==
    ASSUME IInv, CompletedInv, CompletionStays, NEW p \in Procs, Closing(p)
    PROVE  CompletedInv'
<1>1. \A r \in Runs : run'[r].status = "completed" =>
          run[r].status = "completed" \/ hermes'[r].state = "completed"
  <2>1. /\ proc[p].run \in Runs /\ proc[p].pc \in ClosePCs /\ UNCHANGED hermes
        /\ proc[p].outcome = "completed" => hermes[proc[p].run].state = "completed"
    BY ClosingMoves DEF IInv, CompletedInv
  <2>2. QED
    BY <2>1, ClosingWrites
<1>2. /\ \A q \in Procs : q # p => proc'[q] = proc[q]
      /\ \/ proc'[p].pc \notin ClosePCs
         \/ proc[p].pc \in ClosePCs
            /\ proc'[p].run = proc[p].run /\ proc'[p].outcome = proc[p].outcome
    BY ClosingMoves DEF IInv, ClosePCs, Procs
<1>3. QED
    BY <1>1, <1>2, CompletionIsIndifferent

\* Creating, cancelling and reconciling close no run as completed but the last, on the
\* answer of Hermes.
LEMMA OthersKeepCompletions ==
    ASSUME IInv, CompletedInv, CompletionStays,
           \/ \E r \in Runs : Creation(r)
           \/ \E c \in Cancels, r \in Runs : RequestCancel(c, r)
           \/ \E c \in Cancellers : Cancelling(c)
           \/ Reconciliation
    PROVE  CompletedInv'
<1>0. /\ ActivityInv /\ proc \in [Procs -> Activities]
      /\ activeRuns \in [Runs -> Readers \union {NoReader}]
    BY DEF IInv, ActivityInv
<1>1. ASSUME NEW q \in Procs,
             \A o \in Procs : o # q => proc'[o] = proc[o],
             \A r \in Runs : run'[r].status = "completed" => run[r].status = "completed",
             proc'[q].pc \notin ClosePCs \/ proc'[q].outcome \in {"failed", "cancelled"}
      PROVE  CompletedInv'
    BY <1>1, CompletionIsIndifferent
<1>2. CASE \E r \in Runs : Creation(r)
  <2>1. PICK r \in Runs : Creation(r)
    BY <1>2
  <2>2. \A s \in Runs : run'[s].status = "completed" => run[s].status = "completed"
    BY <2>1, CreationWrites DEF Pending, Absent
  <2>3. \A q \in Procs : proc'[q] = proc[q] \/ proc'[q].pc \notin ClosePCs
    <3>1. CASE StartRun(r)
      <4>1. PICK p \in Readers : proc' = [proc EXCEPT ![r] = Finished, ![p] = Reader(r, "fresh")]
        BY <3>1 DEF StartRun
      <4>2. /\ proc'[p] = Reader(r, "fresh") /\ proc'[r] = Finished
            /\ \A q \in Procs : q # p /\ q # r => proc'[q] = proc[q]
        BY <1>0, <4>1, KindsAreDisjoint
      <4>3. QED
        BY <4>2, NewActivities DEF ClosePCs
    <3>2. CASE AcquireRunStart(r)
      BY <1>0, <3>2 DEF AcquireRunStart, Activities, ClosePCs
    <3>3. CASE ~StartRun(r) /\ ~AcquireRunStart(r)
      <4>1. Ends(r) \/ \E pc \in {"prepared", "discarding"} : Goto(r, pc)
        BY <2>1, <3>3 DEF Creation, CreateRun, RefuseRun, DiscardRead, DiscardDelete, AbandonRun
      <4>2. CASE Ends(r)
        BY <1>0, <4>2, NewActivities DEF Ends, ClosePCs
      <4>3. CASE \E pc \in {"prepared", "discarding"} : Goto(r, pc)
        BY <1>0, <4>3, KindsAreDisjoint, GotoMoves DEF ClosePCs
      <4>4. QED
        BY <4>1, <4>2, <4>3
    <3>4. QED
      BY <3>1, <3>2, <3>3
  <2>4. QED
    BY <2>2, <2>3, CompletionIsIndifferent
<1>3. CASE \E c \in Cancels, r \in Runs : RequestCancel(c, r)
  <2>1. PICK c \in Cancels, r \in Runs : RequestCancel(c, r)
    BY <1>3
  <2>2. c \in Procs /\ proc[c] \in Activities
    BY <1>0 DEF Procs, Cancellers
  <2>3. proc'[c].pc = "cancel" /\ \A o \in Procs : o # c => proc'[o] = proc[o]
    BY <1>0, <2>1, <2>2 DEF RequestCancel, Activities
  <2>4. QED
    BY <1>1, <2>1, <2>2, <2>3 DEF RequestCancel, storeVars, ClosePCs
<1>4. CASE \E c \in Cancellers : Cancelling(c)
  <2>1. PICK c \in Cancellers : Cancelling(c)
    BY <1>4
  <2>2. /\ c \in Procs /\ proc[c].run \in Runs /\ UNCHANGED run
        /\ Returned(c).pc \notin ClosePCs
    <3>1. proc[c].pc \in {"cancel", "local"}
      BY <2>1 DEF Cancelling, CancelLookup, CancelLocally, CancelRemotely, At
    <3>2. c \in Procs /\ proc[c].run \in Runs /\ proc[c].next \in {"next", "finished"}
      BY <1>0, <3>1, KindsAreDisjoint DEF ActivityInv, Shapes, CancellerShape
    <3>3. QED
      BY <1>0, <2>1, <3>2, ReturnedActivity, NewActivities
      DEF Cancelling, CancelLookup, CancelLocally, CancelRemotely, Local, storeVars, Idle,
          ClosePCs
  <2>3. CASE CancelLookup(c)
    BY <1>0, <1>1, <2>2, <2>3 DEF CancelLookup, Returns, Activities, ClosePCs
  <2>4. CASE CancelRemotely(c)
    <3>1. GoClose(c, "cancelled", proc[c].next)
      BY <2>4 DEF CancelRemotely
    <3>2. QED
      BY <1>0, <1>1, <2>2, <3>1, GoCloseMoves
  <2>5. CASE CancelLocally(c)
    <3> DEFINE p == activeRuns[proc[c].run]  b == Returned(c)
               abort == IF proc[p].aborted = "no" THEN "user" ELSE proc[p].aborted
    <3>1. /\ proc' = [proc EXCEPT ![p].aborted = abort, ![c] = b]
          /\ p \in Readers /\ b.pc \notin ClosePCs
      BY <1>0, <2>2, <2>5 DEF CancelLocally, RunOf
    <3> HIDE DEF p, b, abort
    <3>2. /\ proc'[p] = [proc[p] EXCEPT !.aborted = abort] /\ proc'[c] = b
          /\ \A q \in Procs : q # p /\ q # c => proc'[q] = proc[q]
      BY <1>0, <2>2, <3>1, KindsAreDisjoint
    <3>3. /\ proc'[p].run = proc[p].run /\ proc'[p].outcome = proc[p].outcome
          /\ proc'[p].pc = proc[p].pc
      BY <1>0, <3>1, <3>2, KindsAreDisjoint DEF Activities
    <3>4. QED
      BY <2>2, <3>1, <3>2, <3>3, CompletionIsIndifferent
  <2>6. QED
    BY <2>1, <2>3, <2>4, <2>5 DEF Cancelling
<1>5. CASE Reconciliation
  <2>1. UNCHANGED <<run, hermes>> /\ Boot \in Procs
    BY <1>5, KindsAreDisjoint DEF Reconciliation, BootList, BootNext, BootEnds, BootProbe,
       BootResume, Local, storeVars
  <2>2. CASE BootList \/ BootEnds
    BY <1>0, <1>1, <2>1, <2>2, GotoMoves, NewActivities DEF BootList, BootEnds, Ends, ClosePCs
  <2>3. CASE BootNext
    <3>1. CASE UNCHANGED proc
      BY <2>1, <3>1, CompletionIsIndifferent
    <3>2. ASSUME NEW t \in todo, NEW a \in Reconciled(t[1], t[2]),
                 proc' = [proc EXCEPT ![Boot] = a]
          PROVE  CompletedInv'
      <4>1. a.pc \notin ClosePCs \/ a.outcome = "failed"
        BY DEF Reconciled, Idle, ClosePCs
      <4>2. QED
        BY <1>0, <1>1, <2>1, <3>2, <4>1
    <3>3. QED
      BY <2>3, <3>1, <3>2 DEF BootNext
  <2>4. CASE BootProbe
    <3>1. CASE Goto(Boot, "resume")
      BY <1>0, <1>1, <2>1, <3>1, GotoMoves DEF ClosePCs
    <3>2. CASE GoClose(Boot, "failed", "next")
      BY <1>0, <1>1, <2>1, <3>2, GoCloseMoves
    <3>3. CASE GoClose(Boot, hermes[proc[Boot].run].state, "next")
      <4>1. /\ proc'[Boot].outcome = hermes[proc[Boot].run].state
            /\ proc'[Boot].run = proc[Boot].run
            /\ \A o \in Procs : o # Boot => proc'[o] = proc[o]
        BY <1>0, <2>1, <3>3, GoCloseMoves
      <4>2. QED
        BY <2>1, <4>1, CompletionIsIndifferent
    <3>4. QED
      BY <2>4, <3>1, <3>2, <3>3 DEF BootProbe, ReconcileDecision, RunOf
  <2>5. CASE BootResume
    <3>0. /\ Returned(Boot).pc \notin ClosePCs /\ proc[Boot].run \in Runs
      <4>1. proc[Boot].next \in {"next", "finished"} /\ proc[Boot].run \in Runs
        BY <1>0, <2>5, KindsAreDisjoint
        DEF BootResume, At, ActivityInv, Shapes, CancellerShape
      <4>2. QED
        BY <1>0, <2>1, <4>1, ReturnedActivity, NewActivities DEF Idle, ClosePCs
    <3>1. CASE GoClose(Boot, "failed", "next")
      BY <1>0, <1>1, <2>1, <3>1, GoCloseMoves
    <3>2. CASE Returns(Boot)
      BY <1>0, <1>1, <2>1, <3>0, <3>2 DEF Returns
    <3>3. ASSUME NEW p \in Readers,
                 proc' = [proc EXCEPT ![Boot] = Returned(Boot),
                                      ![p] = Reader(proc[Boot].run, "reconciled")]
          PROVE  CompletedInv'
      <4>1. /\ proc'[p] = Reader(proc[Boot].run, "reconciled") /\ proc'[Boot] = Returned(Boot)
            /\ \A o \in Procs : o # Boot /\ o # p => proc'[o] = proc[o]
        BY <1>0, <3>3, KindsAreDisjoint
      <4>2. proc'[p].pc \notin ClosePCs /\ proc'[Boot].pc \notin ClosePCs
        BY <3>0, <4>1, NewActivities DEF ClosePCs
      <4>3. QED
        BY <2>1, <4>1, <4>2, CompletionIsIndifferent
    <3>4. QED
      BY <2>5, <3>1, <3>2, <3>3 DEF BootResume, RunOf
  <2>6. QED
    BY <1>5, <2>2, <2>3, <2>4, <2>5 DEF Reconciliation
<1>6. QED
    BY <1>2, <1>3, <1>4, <1>5

\* No step of the runs invents a success.
LEMMA NextKeepsCompletions ==
    ASSUME IInv, SubmissionInv, CompletedInv, [Next]_vars
    PROVE  CompletedInv'
<1>0. CompletionStays
    BY HermesKeepsCompletions
<1>1. CASE \E p \in Readers : Reading(p)
    BY <1>0, <1>1, ReadingKeepsCompletions
<1>2. CASE \E p \in Procs : Closing(p)
    BY <1>0, <1>2, ClosingKeepsCompletions
<1>3. CASE \/ \E r \in Runs : Creation(r)
           \/ \E c \in Cancels, r \in Runs : RequestCancel(c, r)
           \/ \E c \in Cancellers : Cancelling(c)
           \/ Reconciliation
    BY <1>0, <1>3, OthersKeepCompletions
<1>4. CASE UNCHANGED <<run, proc>>
    BY <1>0, <1>4, CompletionIsIndifferent
<1>5. CASE Crash
  <2>1. /\ UNCHANGED run
        /\ \A p \in Procs : proc'[p].pc \notin ClosePCs
    BY <1>5, NewActivities DEF Crash, AfterCrash, storeVars, ClosePCs
  <2>2. QED
    BY <1>0, <2>1, CompletionIsIndifferent
<1>6. CASE \/ \E m \in Mutators : AcquireMutation(m) \/ ReleaseMutation(m)
           \/ \E r \in Runs : HermesSteps(r)
           \/ UNCHANGED vars
    BY <1>4, <1>6
    DEF AcquireMutation, ReleaseMutation, HermesSteps, HermesAsks, HermesEnds, HermesStops,
        HermesDropsEvents, HermesOnly, vars, storeVars, processVars
<1>7. QED
    BY <1>1, <1>2, <1>3, <1>5, <1>6 DEF Next, Running, ConsoleStep

-----------------------------------------------------------------------------
(* A cancelled run was asked to be, an awaiting one has its request *)

HasPending(r) == \E k \in Asks : approval[r][k].state = "pending"

\* What an activity is about to write, or to ask of Hermes, it was asked itself.
Warranted(a) ==
    /\ a.pc = "insert" => hermes[a.run].seen # 0
    /\ a.pc \in {"mark_read", "mark_write"} => HasPending(a.run)
    /\ a.pc \in {"cancel", "local"} => a.run \in cancelAsked
    /\ a.pc \in ClosePCs /\ a.outcome = "cancelled" => a.run \in cancelAsked

WarrantInv ==
    /\ \A p \in Procs : Warranted(proc[p])
    /\ \A p \in Readers : Aborted(p) => RunOf(p) \in cancelAsked
    /\ \A r \in Runs : hermes[r].stop \/ hermes[r].state = "cancelled" => r \in cancelAsked
    /\ StatusesAreWarranted

\* What warrants a status is not taken back while the runs move.
WarrantsStay ==
    /\ cancelAsked \subseteq cancelAsked'
    /\ \A r \in Runs : /\ HasPending(r) => HasPending(r)'
                       /\ hermes[r].seen # 0 => hermes'[r].seen # 0

\* Nobody withdraws a request for a cancellation, and no step here answers a demand.
LEMMA NextKeepsWarrants ==
    ASSUME IInv, [Next]_vars
    PROVE  WarrantsStay
<1>0. /\ hermes \in [Runs -> HermesRuns] /\ approval \in [Runs -> [Asks -> Requests]]
    BY DEF IInv, DataInv, StoreTypeOK
<1>1. cancelAsked \subseteq cancelAsked'
    BY DEF Next, Running, ConsoleStep, Creation, AcquireRunStart, CreateRun, RefuseRun, StartRun,
       DiscardRead, DiscardDelete, AbandonRun, Reading, ReadContext, MarkStarting, Submit,
       RecordSubmission, ReadStatus, Connect, MarkStarted, ReceiveAsk, ReceiveEnd, StreamStops,
       InsertRequest, AwaitingRead, AwaitingWrite, StreamEnded, HandleError, PollHermes,
       CheckAwaiting, ReaderLeaves, Closing, CloseRead, CloseWrite, RequestCancel, Cancelling,
       CancelLookup, CancelLocally, CancelRemotely, Reconciliation, BootList, BootNext, BootEnds,
       BootProbe, BootResume, AcquireMutation, ReleaseMutation, HermesSteps, HermesAsks,
       HermesEnds, HermesStops, HermesDropsEvents, HermesOnly, Crash, Local, Keeps, vars
<1>2. ASSUME NEW r \in Runs, hermes[r].seen # 0
      PROVE  hermes'[r].seen # 0
  <2>1. CASE \E p \in Readers : ReceiveAsk(p)
    BY <1>0, <1>2, <2>1 DEF ReceiveAsk, HermesRuns
  <2>2. CASE \E s \in Runs : HermesSteps(s)
    BY <1>0, <1>2, <2>2 DEF HermesSteps, HermesAsks, HermesEnds, HermesStops, HermesDropsEvents,
       HermesRuns
  <2>3. CASE \/ UNCHANGED hermes
             \/ \E s, stop : hermes' = [hermes EXCEPT ![s].stop = stop]
             \/ \E s, state : hermes' = [hermes EXCEPT ![s].state = state]
    BY <1>0, <1>2, <2>3, ZenonT(40) DEF HermesRuns
  <2>4. QED
    BY <2>1, <2>2, <2>3 DEF Next, Running, ConsoleStep, Creation, AcquireRunStart, CreateRun,
       RefuseRun, StartRun, DiscardRead, DiscardDelete, AbandonRun, Reading, ReadContext,
       MarkStarting, Submit, RecordSubmission, ReadStatus, Connect, MarkStarted, ReceiveEnd,
       StreamStops, InsertRequest, AwaitingRead, AwaitingWrite, StreamEnded, HandleError,
       PollHermes, CheckAwaiting, ReaderLeaves, Closing, CloseRead, CloseWrite, RequestCancel,
       Cancelling, CancelLookup, CancelLocally, CancelRemotely, Reconciliation, BootList,
       BootNext, BootEnds, BootProbe, BootResume, AcquireMutation, ReleaseMutation, Crash, Local,
       vars
<1>3. ASSUME NEW r \in Runs, HasPending(r)
      PROVE  HasPending(r)'
  <2>1. CASE UNCHANGED approval
    BY <1>3, <2>1 DEF HasPending
  <2>2. CASE \E s, k : approval' = [approval EXCEPT ![s][k] = Request("pending")]
    <3>1. PICK k \in Asks : approval[r][k].state = "pending"
      BY <1>3 DEF HasPending
    <3>2. approval'[r][k].state = "pending"
      BY <1>0, <2>2, <3>1 DEF Request
    <3>3. QED
      BY <3>2 DEF HasPending
  <2>3. QED
    BY <2>1, <2>2 DEF Next, Running, ConsoleStep, Creation, AcquireRunStart, CreateRun,
       RefuseRun, StartRun, DiscardRead, DiscardDelete, AbandonRun, Reading, ReadContext,
       MarkStarting, Submit, RecordSubmission, ReadStatus, Connect, MarkStarted, ReceiveAsk,
       ReceiveEnd, StreamStops, InsertRequest, AwaitingRead, AwaitingWrite, StreamEnded,
       HandleError, PollHermes, CheckAwaiting, ReaderLeaves, Closing, CloseRead, CloseWrite,
       RequestCancel, Cancelling, CancelLookup, CancelLocally, CancelRemotely, Reconciliation,
       BootList, BootNext, BootEnds, BootProbe, BootResume, AcquireMutation, ReleaseMutation,
       HermesSteps, HermesAsks, HermesEnds, HermesStops, HermesDropsEvents, HermesOnly, Crash,
       Local, vars, storeVars, PersistApprovalRequest, SetRequest
<1>4. QED
    BY <1>1, <1>2, <1>3 DEF WarrantsStay

\* The awaits at which an activity needs a warrant.
WarrantPCs == {"insert", "mark_read", "mark_write", "cancel", "local"} \union ClosePCs

\* What a step must show of the activities, statuses and runs of Hermes it changes.
LEMMA WarrantsAreIndifferent ==
    ASSUME IInv, WarrantInv, WarrantsStay,
           \A r \in Runs :
               /\ run'[r].status = "cancelled" =>
                     run[r].status = "cancelled" \/ r \in cancelAsked'
               /\ run'[r].status = "awaiting_approval" =>
                     run[r].status = "awaiting_approval" \/ HasPending(r)',
           \A r \in Runs :
               hermes'[r].stop \/ hermes'[r].state = "cancelled" =>
                   hermes[r].stop \/ hermes[r].state = "cancelled" \/ r \in cancelAsked',
           \A q \in Procs :
               \/ proc'[q].pc \notin WarrantPCs
               \/ /\ proc'[q].pc = proc[q].pc \/ {proc'[q].pc, proc[q].pc} \subseteq ClosePCs
                  /\ proc'[q].run = proc[q].run /\ proc'[q].outcome = proc[q].outcome
               \/ Warranted(proc[q])',
           \A q \in Readers :
               \/ proc'[q].aborted = "no"
               \/ proc'[q].aborted = proc[q].aborted /\ proc'[q].run = proc[q].run
               \/ proc'[q].run \in cancelAsked'
    PROVE  WarrantInv'
<1>1. \A q \in Procs : proc[q].pc \in WarrantPCs => proc[q].run \in Runs
    BY DEF IInv, ActivityInv, Shapes, RequestShape, RequestPCs, ReaderShape, CancellerShape,
           WarrantPCs, ClosePCs, Procs
<1>2. ASSUME NEW q \in Procs PROVE Warranted(proc[q])'
  <2>1. CASE proc'[q].pc \notin WarrantPCs
    BY <2>1 DEF Warranted, WarrantPCs
  <2>2. CASE /\ proc'[q].pc \in WarrantPCs
             /\ proc'[q].pc = proc[q].pc \/ {proc'[q].pc, proc[q].pc} \subseteq ClosePCs
             /\ proc'[q].run = proc[q].run /\ proc'[q].outcome = proc[q].outcome
    <3>1. proc[q].pc \in WarrantPCs /\ proc[q].run \in Runs /\ Warranted(proc[q])
      BY <1>1, <2>2 DEF WarrantPCs, WarrantInv
    <3>2. QED
      BY <2>2, <3>1 DEF Warranted, WarrantsStay, WarrantPCs, ClosePCs
  <2>3. QED
    BY <2>1, <2>2
<1>3. \A q \in Readers : Aborted(q)' => RunOf(q)' \in cancelAsked'
    BY DEF WarrantInv, WarrantsStay, Aborted, RunOf
<1>4. \A r \in Runs : hermes'[r].stop \/ hermes'[r].state = "cancelled" => r \in cancelAsked'
    BY DEF WarrantInv, WarrantsStay
<1>5. StatusesAreWarranted'
  <2>1. \A r \in Runs : run[r].status = "awaiting_approval" => HasPending(r)
    BY DEF WarrantInv, StatusesAreWarranted, AwaitingHasItsRequest, HasPending
  <2>2. \A r \in Runs : run'[r].status = "awaiting_approval" => HasPending(r)'
    BY <2>1 DEF WarrantsStay
  <2>3. \A r \in Runs : run'[r].status = "cancelled" => r \in cancelAsked'
    BY DEF WarrantInv, WarrantsStay, StatusesAreWarranted, CancelIsAsked
  <2>4. QED
    BY <2>2, <2>3 DEF StatusesAreWarranted, AwaitingHasItsRequest, CancelIsAsked, HasPending
<1>6. QED
    BY <1>2, <1>3, <1>4, <1>5 DEF WarrantInv

\* A reader marks a run as awaiting once its request is in the table, and closes it as
\* cancelled once it was aborted or Hermes says so.
LEMMA ReadingKeepsWarrants ==
    ASSUME IInv, WarrantInv, WarrantsStay, NEW p \in Readers, Reading(p)
    PROVE  WarrantInv'
<1>s. PICK s \in Runs : s = proc[p].run
    BY ReadingMoves DEF IInv
<1>0. /\ ActivityInv /\ p \in Procs /\ proc[p].run = s /\ Warranted(proc[p])
      /\ \A q \in Procs : q # p => proc'[q] = proc[q]
      /\ proc'[p].aborted = "no" \/ (proc'[p].aborted = proc[p].aborted /\ proc'[p].run = s)
      /\ hermes \in [Runs -> HermesRuns] /\ approval \in [Runs -> [Asks -> Requests]]
      /\ proc[p].aborted # "no" => s \in cancelAsked
      /\ UNCHANGED cancelAsked
    BY <1>s, ReadingMoves, NewActivities
    DEF IInv, DataInv, StoreTypeOK, WarrantInv, Aborted, RunOf, Idle
<1>1. \A r \in Runs :
        /\ run'[r].status = "cancelled" => run[r].status = "cancelled"
        /\ run'[r].status = "awaiting_approval" =>
              run[r].status = "awaiting_approval" \/ HasPending(r)'
  <2>1. proc[p].pc = "mark_write" => HasPending(s)'
    BY <1>0 DEF Warranted, WarrantsStay
  <2>2. QED
    BY <1>0, <2>1, ReadingWrites
<1>2. \A r \in Runs : hermes'[r].stop \/ hermes'[r].state = "cancelled" =>
                          hermes[r].stop \/ hermes[r].state = "cancelled"
  <2>1. CASE Submit(p)
    BY <1>0, <2>1 DEF Submit, RunOf, HermesRuns
  <2>2. CASE ReceiveAsk(p)
    BY <1>0, <2>2 DEF ReceiveAsk, RunOf, HermesRuns
  <2>3. QED
    BY <2>1, <2>2 DEF Reading, ReadContext, MarkStarting, RecordSubmission, ReadStatus, Connect,
       MarkStarted, ReceiveEnd, StreamStops, InsertRequest, AwaitingRead, AwaitingWrite,
       StreamEnded, HandleError, PollHermes, CheckAwaiting, ReaderLeaves, Local
<1>3. proc'[p].pc \notin WarrantPCs \/ Warranted(proc[p])'
  <2>1. CASE \E pc \in ReaderPCs \ {"insert", "mark_read", "mark_write"} : Goto(p, pc)
    BY <1>0, <2>1, GotoMoves DEF ReaderPCs, WarrantPCs, ClosePCs
  <2>2. CASE \E next : GoClose(p, "failed", next)
    BY <1>0, <2>2, GoCloseMoves DEF Warranted, ClosePCs
  <2>3. CASE ReceiveAsk(p) /\ Goto(p, "insert")
    <3>1. hermes'[s].seen = hermes[s].seen + 1 /\ hermes[s].seen \in Nat
      BY <1>0, <2>3 DEF ReceiveAsk, RunOf, HermesRuns
    <3>2. proc'[p].pc = "insert" /\ proc'[p].run = s
      BY <1>0, <2>3, GotoMoves
    <3>3. QED
      BY <3>1, <3>2 DEF Warranted, ClosePCs
  <2>4. CASE InsertRequest(p) /\ Goto(p, "mark_read")
    <3>1. proc[p].pc = "insert" /\ hermes[s].seen # 0 /\ hermes[s].seen \in 0..MaxAsks
      BY <1>0, <2>4 DEF InsertRequest, At, Warranted, HermesRuns
    <3>2. hermes[s].seen \in Asks
      BY <3>1, RunStoreAssumption DEF Asks
    <3>3. approval' = [approval EXCEPT ![s][hermes[s].seen] = Request("pending")]
      <4>1. proc'[p].pc = "mark_read"
        BY <1>0, <2>4, GotoMoves
      <4>2. ~Goto(p, "error")
        BY <1>0, <4>1, GotoMoves
      <4>3. QED
        BY <1>0, <2>4, <4>2 DEF InsertRequest, PersistApprovalRequest, SetRequest, RunOf
    <3>4. approval'[s][hermes[s].seen].state = "pending"
      BY <1>0, <3>2, <3>3 DEF Request
    <3>5. HasPending(s)'
      BY <3>2, <3>4 DEF HasPending
    <3>6. proc'[p].pc = "mark_read" /\ proc'[p].run = s
      BY <1>0, <2>4, GotoMoves
    <3>7. QED
      BY <3>5, <3>6 DEF Warranted, ClosePCs
  <2>5. CASE AwaitingRead(p) /\ Goto(p, "mark_write")
    <3>1. HasPending(s)'
      BY <1>0, <2>5 DEF AwaitingRead, At, Warranted, WarrantsStay
    <3>2. proc'[p].pc = "mark_write" /\ proc'[p].run = s
      BY <1>0, <2>5, GotoMoves
    <3>3. QED
      BY <3>1, <3>2 DEF Warranted, ClosePCs
  <2>6. CASE HandleError(p) /\ GoClose(p, "cancelled", "leaving")
    <3>1. s \in cancelAsked'
      <4>1. CASE Aborted(p)
        BY <1>0, <4>1 DEF Aborted
      <4>2. CASE ~Aborted(p)
        <5>1. proc'[p].pc \in {"poll", "check"}
          BY <1>0, <2>6, <4>2, GotoMoves DEF HandleError
        <5>2. QED
          BY <1>0, <2>6, <5>1, GoCloseMoves
      <4>3. QED
        BY <4>1, <4>2
    <3>2. proc'[p].run = s /\ proc'[p].pc = "close_read"
      BY <1>0, <2>6, GoCloseMoves
    <3>3. QED
      BY <3>1, <3>2 DEF Warranted, ClosePCs
  <2>7. CASE PollHermes(p) /\ GoClose(p, hermes[proc[p].run].state, "leaving")
    <3>1. /\ proc'[p].run = s /\ proc'[p].pc = "close_read"
          /\ proc'[p].outcome = hermes[s].state
      BY <1>0, <2>7, GoCloseMoves
    <3>2. hermes[s].state = "cancelled" => s \in cancelAsked'
      BY <1>0 DEF WarrantInv
    <3>3. QED
      BY <3>1, <3>2 DEF Warranted, ClosePCs
  <2>8. CASE /\ ReceiveEnd(p)
             /\ proc' = [proc EXCEPT ![p].pc = "close_read",
                                     ![p].outcome = hermes[proc[p].run].state,
                                     ![p].next = "read", ![p].terminal = TRUE]
    <3>1. /\ proc'[p].run = s /\ proc'[p].pc = "close_read"
          /\ proc'[p].outcome = hermes[s].state
      BY <1>0, <2>8 DEF ActivityInv, Activities
    <3>2. hermes[s].state = "cancelled" => s \in cancelAsked'
      BY <1>0 DEF WarrantInv
    <3>3. QED
      BY <3>1, <3>2 DEF Warranted, ClosePCs
  <2>9. CASE RecordSubmission(p)
    BY <1>0, <2>9 DEF RecordSubmission, ActivityInv, Activities, WarrantPCs, ClosePCs
  <2>10. CASE ReaderLeaves(p)
    BY <1>0, <2>10, NewActivities DEF ReaderLeaves, ActivityInv, WarrantPCs, ClosePCs
  <2>11. QED
    BY <2>1, <2>2, <2>3, <2>4, <2>5, <2>6, <2>7, <2>8, <2>9, <2>10
    DEF Reading, ReadContext, MarkStarting, Submit, ReadStatus, Connect, MarkStarted, ReceiveAsk,
        ReceiveEnd, StreamStops, InsertRequest, AwaitingRead, AwaitingWrite, StreamEnded,
        HandleError, PollHermes, CheckAwaiting, ReaderPCs, RunOf
<1>4. QED
    BY <1>0, <1>1, <1>2, <1>3, KindsAreDisjoint, WarrantsAreIndifferent

\* A closure writes the outcome it carried from its decision.
LEMMA ClosingKeepsWarrants ==
    ASSUME IInv, WarrantInv, WarrantsStay, NEW p \in Procs, Closing(p)
    PROVE  WarrantInv'
<1>1. \A r \in Runs :
        /\ run'[r].status = "cancelled" => run[r].status = "cancelled" \/ r \in cancelAsked'
        /\ run'[r].status = "awaiting_approval" => run[r].status = "awaiting_approval"
  <2>1. /\ proc[p].run \in Runs /\ proc[p].pc \in ClosePCs /\ UNCHANGED cancelAsked
        /\ proc[p].outcome \in TerminalStatuses
        /\ proc[p].outcome = "cancelled" => proc[p].run \in cancelAsked
    BY ClosingMoves DEF IInv, WarrantInv, Warranted
  <2>2. QED
    BY <2>1, ClosingWrites DEF TerminalStatuses
<1>2. /\ \A q \in Procs : q # p => proc'[q] = proc[q]
      /\ UNCHANGED hermes
      /\ \/ proc'[p].pc \notin WarrantPCs
         \/ /\ {proc'[p].pc, proc[p].pc} \subseteq ClosePCs
            /\ proc'[p].run = proc[p].run /\ proc'[p].outcome = proc[p].outcome
      /\ p \in Readers => proc'[p].aborted = proc[p].aborted /\ proc'[p].run = proc[p].run
    BY ClosingMoves DEF IInv, ClosePCs, WarrantPCs, Procs
<1>3. \A q \in Readers : q \in Procs
    BY KindsAreDisjoint
<1>4. QED
    BY <1>1, <1>2, <1>3, WarrantsAreIndifferent

\* What returns to its caller needs no warrant.
LEMMA ReturnNeedsNoWarrant ==
    ASSUME ActivityInv, NEW c \in Cancellers, proc[c].next \in {"next", "finished"}
    PROVE  Returned(c).pc \notin WarrantPCs
<1>1. c \in Procs /\ proc[c] \in Activities
    BY KindsAreDisjoint DEF ActivityInv
<1>2. QED
    BY <1>1, ReturnedActivity, NewActivities DEF Idle, Finished, WarrantPCs, ClosePCs

\* A request of creation writes no status that needs a warrant.
LEMMA CreationKeepsWarrants ==
    ASSUME IInv, WarrantInv, WarrantsStay, NEW r \in Runs, Creation(r)
    PROVE  WarrantInv'
<1>0. ActivityInv /\ r \in Procs /\ proc \in [Procs -> Activities] /\ UNCHANGED hermes
    BY KindsAreDisjoint DEF IInv, ActivityInv, Creation, AcquireRunStart, CreateRun, RefuseRun,
       StartRun, DiscardRead, DiscardDelete, AbandonRun
<1>1. \A s \in Runs : /\ run'[s].status = "cancelled" => run[s].status = "cancelled"
                      /\ run'[s].status = "awaiting_approval" =>
                            run[s].status = "awaiting_approval"
    BY CreationWrites DEF Pending, Absent
<1>2. CASE StartRun(r)
  <2>1. PICK p \in Readers : proc' = [proc EXCEPT ![r] = Finished, ![p] = Reader(r, "fresh")]
    BY <1>2 DEF StartRun
  <2>2. /\ proc'[p] = Reader(r, "fresh") /\ proc'[r] = Finished
        /\ \A q \in Procs : q # p /\ q # r => proc'[q] = proc[q]
    BY <1>0, <2>1, KindsAreDisjoint
  <2>3. /\ proc'[p].pc \notin WarrantPCs /\ proc'[p].aborted = "no"
        /\ proc'[r].pc \notin WarrantPCs
    BY <2>2, NewActivities DEF WarrantPCs, ClosePCs
  <2>4. QED
    BY <1>0, <1>1, <2>2, <2>3, KindsAreDisjoint, WarrantsAreIndifferent
<1>3. CASE ~StartRun(r)
  <2>1. proc'[r].pc \notin WarrantPCs /\ \A q \in Procs : q # r => proc'[q] = proc[q]
    <3>1. CASE AcquireRunStart(r)
      BY <1>0, <3>1 DEF AcquireRunStart, Activities, WarrantPCs, ClosePCs
    <3>2. CASE Ends(r)
      BY <1>0, <3>2, NewActivities DEF Ends, WarrantPCs, ClosePCs
    <3>3. CASE \E pc \in {"prepared", "discarding"} : Goto(r, pc)
      BY <1>0, <3>3, GotoMoves DEF WarrantPCs, ClosePCs
    <3>4. QED
      BY <1>3, <3>1, <3>2, <3>3 DEF Creation, CreateRun, RefuseRun, DiscardRead, DiscardDelete,
         AbandonRun
  <2>2. QED
    BY <1>0, <1>1, <2>1, KindsAreDisjoint, WarrantsAreIndifferent
<1>4. QED
    BY <1>2, <1>3

\* A cancellation is asked for before anything is aborted, stopped or closed for it.
LEMMA CancellingKeepsWarrants ==
    ASSUME IInv, WarrantInv, WarrantsStay, NEW c \in Cancellers, Cancelling(c)
    PROVE  WarrantInv'
<1>0. /\ ActivityInv /\ c \in Procs /\ proc \in [Procs -> Activities]
      /\ hermes \in [Runs -> HermesRuns] /\ activeRuns \in [Runs -> Readers \union {NoReader}]
      /\ UNCHANGED <<run, cancelAsked>>
    BY KindsAreDisjoint DEF IInv, ActivityInv, DataInv, Cancelling, CancelLookup, CancelLocally,
       CancelRemotely, Local, Keeps, storeVars
<1>1. /\ proc[c].pc \in {"cancel", "local"} /\ proc[c].run \in Runs
      /\ proc[c].next \in {"next", "finished"}
    BY <1>0 DEF ActivityInv, Shapes, CancellerShape, Cancelling, CancelLookup, CancelLocally,
                CancelRemotely, At
<1>2. PICK r \in Runs : r = proc[c].run
    BY <1>1
<1>3. r \in cancelAsked /\ r \in cancelAsked' /\ Returned(c).pc \notin WarrantPCs
    BY <1>0, <1>1, <1>2, ReturnNeedsNoWarrant DEF WarrantInv, Warranted
<1>4. CASE CancelLookup(c)
  <2>1. /\ UNCHANGED hermes /\ \A q \in Procs : q # c => proc'[q] = proc[q]
        /\ proc'[c].pc \notin WarrantPCs \/ Warranted(proc[c])'
    <3>1. CASE Returns(c)
      BY <1>0, <1>3, <1>4, <3>1 DEF CancelLookup, Local, Returns
    <3>2. CASE proc' = [proc EXCEPT ![c].pc = "local", ![c].known = run[proc[c].run].submitted]
      <4>1. /\ proc'[c].pc = "local" /\ proc'[c].run = r
            /\ \A q \in Procs : q # c => proc'[q] = proc[q]
        BY <1>0, <1>2, <3>2 DEF Activities
      <4>2. QED
        BY <1>3, <1>4, <4>1 DEF CancelLookup, Local, Warranted, ClosePCs
    <3>3. QED
      BY <1>4, <3>1, <3>2 DEF CancelLookup, RunOf
  <2>2. QED
    BY <1>0, <2>1, KindsAreDisjoint, WarrantsAreIndifferent
<1>5. ASSUME NEW q \in Procs, hermes' = [hermes EXCEPT ![r].stop = @ \/ proc[q].known]
      PROVE  \A s \in Runs : hermes'[s].stop \/ hermes'[s].state = "cancelled" =>
                 hermes[s].stop \/ hermes[s].state = "cancelled" \/ s \in cancelAsked'
    BY <1>0, <1>3, <1>5 DEF HermesRuns
<1>6. CASE CancelRemotely(c)
  <2>1. /\ proc'[c].pc = "close_read" /\ proc'[c].run = r
        /\ \A q \in Procs : q # c => proc'[q] = proc[q]
        /\ hermes' = [hermes EXCEPT ![r].stop = @ \/ proc[c].known]
    BY <1>0, <1>2, <1>6, GoCloseMoves DEF CancelRemotely, RunOf
  <2>2. Warranted(proc[c])'
    BY <1>3, <2>1 DEF Warranted, ClosePCs
  <2>3. QED
    BY <1>0, <1>5, <2>1, <2>2, KindsAreDisjoint, WarrantsAreIndifferent
<1>7. CASE CancelLocally(c)
  <2> DEFINE abort(p) == IF proc[p].aborted = "no" THEN "user" ELSE proc[p].aborted
  <2>1. PICK p \in Readers : p = activeRuns[r]
    BY <1>0, <1>2, <1>7 DEF CancelLocally, RunOf
  <2>2. /\ proc' = [proc EXCEPT ![p].aborted = abort(p), ![c] = Returned(c)]
        /\ hermes' = [hermes EXCEPT ![r].stop = @ \/ proc[p].known]
        /\ proc[p].run = r
    BY <1>0, <1>2, <1>7, <2>1 DEF CancelLocally, RunOf, ActivityInv, RegistrationIsAlive
  <2> HIDE DEF abort
  <2>3. /\ proc'[p] = [proc[p] EXCEPT !.aborted = abort(p)] /\ proc'[c] = Returned(c)
        /\ \A q \in Procs : q # p /\ q # c => proc'[q] = proc[q]
    BY <1>0, <2>2, KindsAreDisjoint
  <2>4. /\ proc'[p].pc = proc[p].pc /\ proc'[p].run = r /\ proc'[p].outcome = proc[p].outcome
    BY <1>0, <2>2, <2>3, KindsAreDisjoint DEF Activities
  <2>5. QED
    BY <1>0, <1>3, <1>5, <2>2, <2>3, <2>4, KindsAreDisjoint, WarrantsAreIndifferent
<1>8. QED
    BY <1>4, <1>6, <1>7 DEF Cancelling

\* The reconciliation asks for the cancellations it makes, and else believes Hermes.
LEMMA ReconciliationKeepsWarrants ==
    ASSUME IInv, WarrantInv, WarrantsStay, Reconciliation
    PROVE  WarrantInv'
<1>0. /\ ActivityInv /\ Boot \in Procs /\ Boot \in Cancellers /\ proc \in [Procs -> Activities]
      /\ UNCHANGED <<run, hermes>>
    BY KindsAreDisjoint DEF IInv, ActivityInv, Reconciliation, BootList, BootNext, BootEnds,
       BootProbe, BootResume, Local, storeVars
<1>1. ASSUME \A q \in Procs : q # Boot => proc'[q] = proc[q],
             proc'[Boot].pc \notin WarrantPCs \/ Warranted(proc[Boot])'
      PROVE  WarrantInv'
    BY <1>0, <1>1, KindsAreDisjoint, WarrantsAreIndifferent
<1>2. CASE \E next : GoClose(Boot, "failed", next)
    BY <1>0, <1>1, <1>2, GoCloseMoves DEF Warranted, ClosePCs
<1>3. CASE BootList \/ BootEnds
    BY <1>0, <1>1, <1>3, GotoMoves, NewActivities DEF BootList, BootEnds, Ends, WarrantPCs,
       ClosePCs
<1>4. CASE BootNext
  <2>1. CASE UNCHANGED proc
    BY <1>0, <1>1, <2>1, KindsAreDisjoint, WarrantsAreIndifferent
  <2>2. ASSUME NEW t \in todo, NEW a \in Reconciled(t[1], t[2]),
               proc' = [proc EXCEPT ![Boot] = a],
               t[1] \in Revoked => t[1] \in cancelAsked'
        PROVE  WarrantInv'
    <3>1. proc'[Boot] = a /\ \A q \in Procs : q # Boot => proc'[q] = proc[q]
      BY <1>0, <2>2
    <3>2. \/ a.pc \notin WarrantPCs
          \/ a.pc = "cancel" /\ a.run \in cancelAsked'
          \/ a.pc = "close_read" /\ a.outcome = "failed"
      BY <2>2 DEF Reconciled, Idle, WarrantPCs, ClosePCs
    <3>3. proc'[Boot].pc \notin WarrantPCs \/ Warranted(proc[Boot])'
      BY <3>1, <3>2 DEF Warranted, ClosePCs
    <3>4. QED
      BY <1>1, <3>1, <3>3
  <2>3. QED
    BY <1>4, <2>1, <2>2 DEF BootNext
<1>5. CASE BootProbe
  <2>1. CASE Goto(Boot, "resume")
    BY <1>0, <1>1, <2>1, GotoMoves DEF WarrantPCs, ClosePCs
  <2>2. CASE GoClose(Boot, hermes[proc[Boot].run].state, "next")
    <3>1. /\ proc'[Boot].outcome = hermes[proc[Boot].run].state
          /\ proc'[Boot].run = proc[Boot].run /\ proc'[Boot].pc = "close_read"
          /\ \A q \in Procs : q # Boot => proc'[q] = proc[q]
      BY <1>0, <2>2, GoCloseMoves
    <3>2. proc[Boot].run \in Runs /\ UNCHANGED cancelAsked
      BY <1>0, <1>5 DEF BootProbe, At, ActivityInv, Shapes, CancellerShape, Local, Keeps
    <3>3. hermes[proc[Boot].run].state = "cancelled" => proc[Boot].run \in cancelAsked'
      BY <3>2 DEF WarrantInv
    <3>4. Warranted(proc[Boot])'
      BY <3>1, <3>3 DEF Warranted, ClosePCs
    <3>5. QED
      BY <1>1, <3>1, <3>4
  <2>3. QED
    BY <1>2, <1>5, <2>1, <2>2 DEF BootProbe, ReconcileDecision, RunOf
<1>6. CASE BootResume
  <2>1. proc[Boot].next \in {"next", "finished"} /\ proc[Boot].run \in Runs
    BY <1>0, <1>6 DEF BootResume, At, ActivityInv, Shapes, CancellerShape
  <2>2. Returned(Boot).pc \notin WarrantPCs
    BY <1>0, <2>1, ReturnNeedsNoWarrant
  <2>3. CASE Returns(Boot)
    BY <1>0, <1>1, <2>2, <2>3 DEF Returns
  <2>4. ASSUME NEW p \in Readers,
               proc' = [proc EXCEPT ![Boot] = Returned(Boot),
                                    ![p] = Reader(proc[Boot].run, "reconciled")]
        PROVE  WarrantInv'
    <3>1. /\ proc'[p] = Reader(proc[Boot].run, "reconciled") /\ proc'[Boot] = Returned(Boot)
          /\ \A q \in Procs : q # Boot /\ q # p => proc'[q] = proc[q]
      BY <1>0, <2>4, KindsAreDisjoint
    <3>2. proc'[p].pc \notin WarrantPCs /\ proc'[p].aborted = "no"
      BY <2>1, <3>1, NewActivities DEF WarrantPCs, ClosePCs
    <3>3. QED
      BY <1>0, <2>2, <3>1, <3>2, KindsAreDisjoint, WarrantsAreIndifferent
  <2>5. QED
    BY <1>2, <1>6, <2>3, <2>4 DEF BootResume, RunOf
<1>7. QED
    BY <1>0, <1>3, <1>4, <1>5, <1>6 DEF Reconciliation

\* No step of the runs writes a status that nothing warrants.
LEMMA NextKeepsWarrantInv ==
    ASSUME IInv, WarrantInv, [Next]_vars
    PROVE  WarrantInv'
<1>0. WarrantsStay /\ ActivityInv /\ hermes \in [Runs -> HermesRuns]
    BY NextKeepsWarrants DEF IInv, DataInv
<1>1. CASE \E r \in Runs : Creation(r)
    BY <1>0, <1>1, CreationKeepsWarrants
<1>2. CASE \E p \in Readers : Reading(p)
    BY <1>0, <1>2, ReadingKeepsWarrants
<1>3. CASE \E p \in Procs : Closing(p)
    BY <1>0, <1>3, ClosingKeepsWarrants
<1>4. CASE \E c \in Cancels, r \in Runs : RequestCancel(c, r)
  <2>1. PICK c \in Cancels, r \in Runs : RequestCancel(c, r)
    BY <1>4
  <2>2. c \in Procs /\ c \in Cancellers /\ proc[c] \in Activities
    BY <1>0 DEF Procs, Cancellers, ActivityInv
  <2>3. /\ proc'[c].pc = "cancel" /\ proc'[c].run = r
        /\ \A q \in Procs : q # c => proc'[q] = proc[q]
    BY <1>0, <2>1, <2>2 DEF RequestCancel, Activities, ActivityInv
  <2>4. /\ UNCHANGED <<run, hermes>>
        /\ Warranted(proc[c])'
    BY <2>1, <2>3 DEF RequestCancel, storeVars, Warranted, ClosePCs
  <2>5. QED
    BY <1>0, <2>2, <2>3, <2>4, KindsAreDisjoint, WarrantsAreIndifferent
<1>5. CASE \E c \in Cancellers : Cancelling(c)
    BY <1>0, <1>5, CancellingKeepsWarrants
<1>6. CASE Reconciliation
    BY <1>0, <1>6, ReconciliationKeepsWarrants
<1>7. CASE UNCHANGED <<run, proc, hermes>>
    BY <1>0, <1>7, WarrantsAreIndifferent
<1>8. CASE \E r \in Runs : HermesSteps(r)
  <2>1. PICK r \in Runs : HermesSteps(r)
    BY <1>8
  <2>2. UNCHANGED <<run, proc>>
    BY <2>1 DEF HermesSteps, HermesAsks, HermesEnds, HermesStops, HermesDropsEvents,
       HermesOnly, storeVars, processVars
  <2>3. \A s \in Runs : hermes'[s].stop \/ hermes'[s].state = "cancelled" =>
            hermes[s].stop \/ hermes[s].state = "cancelled"
    BY <1>0, <2>1 DEF HermesSteps, HermesAsks, HermesEnds, HermesStops, HermesDropsEvents,
       HermesRuns
  <2>4. QED
    BY <1>0, <2>2, <2>3, WarrantsAreIndifferent
<1>9. CASE Crash
  <2>1. /\ UNCHANGED <<run, hermes>>
        /\ \A p \in Procs : proc'[p].pc \notin WarrantPCs /\ proc'[p].aborted = "no"
    BY <1>9, NewActivities DEF Crash, AfterCrash, storeVars, WarrantPCs, ClosePCs, Idle, Finished,
       Listing
  <2>2. QED
    BY <1>0, <2>1, KindsAreDisjoint, WarrantsAreIndifferent
<1>10. CASE (\E m \in Mutators : AcquireMutation(m) \/ ReleaseMutation(m)) \/ UNCHANGED vars
    BY <1>7, <1>10 DEF AcquireMutation, ReleaseMutation, vars, storeVars, processVars
<1>11. QED
    BY <1>1, <1>2, <1>3, <1>4, <1>5, <1>6, <1>8, <1>9, <1>10 DEF Next, Running, ConsoleStep

\* When the Console starts for the first time there is no run.
LEMMA WarrantedInitially == Init => SubmissionInv /\ CompletedInv /\ WarrantInv
<1> SUFFICES ASSUME Init PROVE SubmissionInv /\ CompletedInv /\ WarrantInv
    OBVIOUS
<1>1. \A p \in Procs : /\ proc[p].pc \in {"idle", "list"} /\ proc[p].aborted = "no"
                       /\ p # Boot => proc[p].pc = "idle"
    BY NewActivities DEF Init, Idle, Listing
<1>2. \A r \in Runs : /\ hermes[r].state = "none" /\ ~hermes[r].stop
                      /\ run[r].status = "absent"
    BY DEF Init, StoreInit, HermesUnknown, Absent
<1>3. SubmissionInv
    BY <1>1, <1>2, KindsAreDisjoint DEF SubmissionInv
<1>4. CompletedInv
    BY <1>1, <1>2 DEF CompletedInv, CompletedIsGenuine, ClosePCs
<1>5. WarrantInv
    BY <1>1, <1>2, KindsAreDisjoint
    DEF WarrantInv, Warranted, Aborted, StatusesAreWarranted, AwaitingHasItsRequest,
        CancelIsAsked, ClosePCs
<1>6. QED
    BY <1>3, <1>4, <1>5

\* What every activity carries warrants what it writes.
LEMMA WarrantsAreInductive == Spec => [](SubmissionInv /\ CompletedInv /\ WarrantInv)
<1>1. /\ IInv /\ SubmissionInv /\ CompletedInv /\ WarrantInv
      /\ [Next]_vars
      => SubmissionInv' /\ CompletedInv' /\ WarrantInv'
    BY NextKeepsSubmission, NextKeepsCompletions, NextKeepsWarrantInv
<1>2. QED
    BY WarrantedInitially, RunsAreInductive, <1>1, PTL DEF Spec

\* A run the Console reports as completed has completed in Hermes: the stream, the
\* polling after a 404 and the reconciliation each close a run on the word of Hermes
\* (CompletedInv), and Hermes does not take it back, because a run is submitted once
\* (SubmissionInv).
THEOREM CompletionsAreGenuine == Spec => []CompletedIsGenuine
<1>1. CompletedInv => CompletedIsGenuine
    BY DEF CompletedInv
<1>2. QED
    BY <1>1, WarrantsAreInductive, PTL

\* A cancelled run was asked to be, and a run that waits for a human has a request he
\* can answer: an activity carries the warrant of what it is about to write from one
\* await to the next.
THEOREM StatusesStayWarranted == Spec => []StatusesAreWarranted
<1>1. WarrantInv => StatusesAreWarranted
    BY DEF WarrantInv
<1>2. QED
    BY <1>1, WarrantsAreInductive, PTL

\* The refusal of an input file deletes a row that is still pending, never one that was
\* closed in between.
THEOREM ClosedRunsAreKept == Spec => ClosedRunIsKept
<1>1. ASSUME IInv, [Next]_vars
      PROVE  [\A r \in Runs : IsTerminal(r) => run'[r].status # "absent"]_vars
  <2> SUFFICES ASSUME Next, NEW r \in Runs, IsTerminal(r)
               PROVE  run'[r].status # "absent"
    BY <1>1
  <2>0. run[r].status \in {"completed", "failed", "cancelled"}
    BY DEF IsTerminal, TerminalStatuses
  <2>1. CASE \E s \in Runs : Creation(s)
    BY <1>1, <2>0, <2>1, CreationWrites DEF Pending
  <2>2. CASE \E p \in Readers : Reading(p)
    BY <1>1, <2>0, <2>2, ReadingWrites
  <2>3. CASE \E p \in Procs : Closing(p)
    BY <1>1, <2>0, <2>3, ClosingMoves, ClosingWrites DEF IInv, TerminalStatuses
  <2>4. CASE UNCHANGED run
    BY <2>0, <2>4
  <2>5. QED
    BY <2>1, <2>2, <2>3, <2>4
    DEF Next, Running, ConsoleStep, RequestCancel, Cancelling, CancelLookup, CancelLocally,
        CancelRemotely, Reconciliation, BootList, BootNext, BootEnds, BootProbe, BootResume,
        AcquireMutation, ReleaseMutation, HermesSteps, HermesAsks, HermesEnds, HermesStops,
        HermesDropsEvents, HermesOnly, Crash, Local, storeVars
<1>2. QED
    BY <1>1, RunsAreInductive, PTL DEF Spec, ClosedRunIsKept

-----------------------------------------------------------------------------
(* No run is stranded *)

\* A request that is not over owns a row nobody has started, and a reader works for a
\* request that is over, alone.
RequestInv ==
    /\ \A r \in Runs :
         /\ proc[r].pc \in {"idle", "reserved"} => run[r].status = "absent"
         /\ proc[r].pc \in {"reserved", "prepared", "discarding"} => proc[r].run = r
         /\ proc[r].pc \in {"prepared", "discarding"} =>
               run[r].status \notin {"starting", "running", "awaiting_approval"}
         /\ proc[r].pc # "finished" => ~run[r].submitted
    /\ \A p \in Readers :
         proc[p].pc # "idle" =>
             proc[proc[p].run].pc = "finished" /\ activeRuns[proc[p].run] = p

\* The reconciliation resumes submitted runs only, and ends with its list.
BootInv ==
    /\ \A t \in todo : t[2] => proc[t[1]].pc = "finished"
    /\ proc[Boot].pc \in {"probe", "resume"} => proc[proc[Boot].run].pc = "finished"
    /\ proc[Boot].pc \in ClosePCs \union {"cancel", "local", "probe", "resume"} =>
          proc[Boot].next = "next"
    /\ proc[Boot].pc = "finished" => todo = {}

\* A step that moves no request, and starts no reader.
LEMMA RequestsAreIndifferent ==
    ASSUME IInv, RequestInv,
           \A r \in Runs :
               /\ proc'[r] = proc[r]
               /\ proc[r].pc # "finished" =>
                     /\ run'[r].submitted = run[r].submitted
                     /\ \/ run'[r].status = run[r].status
                        \/ run[r].status # "absent" /\ run'[r].status \in TerminalStatuses,
           \A q \in Readers :
               \/ proc'[q].pc = "idle"
               \/ /\ proc[q].pc # "idle" /\ proc'[q].run = proc[q].run
                  /\ activeRuns'[proc[q].run] = activeRuns[proc[q].run]
    PROVE  RequestInv'
<1>1. \A q \in Readers : proc[q].pc # "idle" => proc[q].run \in Runs
    BY DEF IInv, ActivityInv, Shapes, ReaderShape
<1>2. \A r \in Runs :
         /\ proc'[r].pc \in {"idle", "reserved"} => run'[r].status = "absent"
         /\ proc'[r].pc \in {"reserved", "prepared", "discarding"} => proc'[r].run = r
         /\ proc'[r].pc \in {"prepared", "discarding"} =>
               run'[r].status \notin {"starting", "running", "awaiting_approval"}
         /\ proc'[r].pc # "finished" => ~run'[r].submitted
    BY DEF RequestInv, TerminalStatuses
<1>3. \A q \in Readers :
         proc'[q].pc # "idle" =>
             proc'[proc'[q].run].pc = "finished" /\ activeRuns'[proc'[q].run] = q
    BY <1>1 DEF RequestInv
<1>4. QED
    BY <1>2, <1>3 DEF RequestInv

\* A request moves its own row, and ends before its reader starts.
LEMMA CreationKeepsRequests ==
    ASSUME IInv, RequestInv, NEW r \in Runs, Creation(r)
    PROVE  RequestInv'
<1>0. /\ ActivityInv /\ r \in Procs /\ proc \in [Procs -> Activities]
      /\ proc[r] \in Activities /\ run \in [Runs -> Rows] /\ proc[r].pc # "finished"
      /\ activeRuns \in [Runs -> Readers \union {NoReader}]
    BY KindsAreDisjoint DEF IInv, ActivityInv, DataInv, StoreTypeOK, Creation, AcquireRunStart,
       CreateRun, RefuseRun, StartRun, DiscardRead, DiscardDelete, AbandonRun, At
<1>1. \A q \in Readers : proc[q].pc # "idle" => proc[q].run \in Runs /\ proc[q].run # r
    BY <1>0 DEF ActivityInv, Shapes, ReaderShape, RequestInv
<1>2. \A s \in Runs : s # r => run'[s] = run[s]
    BY CreationWrites
<1>3. CASE StartRun(r)
  <2>1. PICK p \in Readers :
           /\ proc[p].pc = "idle"
           /\ proc' = [proc EXCEPT ![r] = Finished, ![p] = Reader(r, "fresh")]
           /\ activeRuns' = [activeRuns EXCEPT ![r] = p]
    BY <1>3 DEF StartRun, At
  <2>2. /\ proc'[p] = Reader(r, "fresh") /\ proc'[r] = Finished
        /\ \A q \in Procs : q # p /\ q # r => proc'[q] = proc[q]
    BY <1>0, <2>1, KindsAreDisjoint
  <2>3. /\ proc'[p].pc # "idle" /\ proc'[p].run = r /\ proc'[r].pc = "finished"
        /\ activeRuns'[r] = p /\ \A s \in Runs : s # r => activeRuns'[s] = activeRuns[s]
        /\ UNCHANGED run
    BY <1>0, <1>3, <2>1, <2>2, NewActivities DEF StartRun, storeVars
  <2>4. \A q \in Readers :
           proc'[q].pc # "idle" =>
               proc'[proc'[q].run].pc = "finished" /\ activeRuns'[proc'[q].run] = q
    BY <1>1, <2>2, <2>3, KindsAreDisjoint DEF RequestInv
  <2>5. \A s \in Runs : s # r => proc'[s] = proc[s]
    BY <2>2, KindsAreDisjoint
  <2>6. QED
    BY <2>3, <2>4, <2>5 DEF RequestInv
<1>4. CASE ~StartRun(r)
  <2>1. UNCHANGED activeRuns /\ \A q \in Procs : q # r => proc'[q] = proc[q]
    BY <1>0, <1>4 DEF Creation, AcquireRunStart, CreateRun, RefuseRun, DiscardRead, DiscardDelete,
       AbandonRun, Goto, Ends, Keeps
  <2>2. /\ proc'[r].pc \in {"idle", "reserved"} => run'[r].status = "absent"
        /\ proc'[r].pc \in {"reserved", "prepared", "discarding"} => proc'[r].run = r
        /\ proc'[r].pc \in {"prepared", "discarding"} =>
              run'[r].status \notin {"starting", "running", "awaiting_approval"}
        /\ proc'[r].pc # "finished" => ~run'[r].submitted
    <3>1. CASE AcquireRunStart(r)
      <4>1. proc'[r].pc = "reserved" /\ proc'[r].run = r /\ UNCHANGED run /\ proc[r].pc = "idle"
        BY <1>0, <3>1 DEF AcquireRunStart, Activities, At, storeVars
      <4>2. QED
        BY <4>1 DEF RequestInv
    <3>2. CASE CreateRun(r)
      <4>1. /\ proc'[r].pc = "prepared" /\ proc'[r].run = proc[r].run /\ proc[r].pc = "reserved"
            /\ run'[r] = Pending
        BY <1>0, <3>2, GotoMoves DEF CreateRun, InsertRun, At
      <4>2. QED
        BY <4>1 DEF RequestInv, Pending
    <3>3. CASE Ends(r)
      BY <1>0, <3>3, NewActivities DEF Ends
    <3>4. CASE DiscardRead(r) /\ Goto(r, "discarding")
      <4>1. /\ proc'[r].pc = "discarding" /\ proc'[r].run = proc[r].run /\ proc[r].pc = "prepared"
            /\ UNCHANGED run
        BY <1>0, <3>4, GotoMoves DEF DiscardRead, At, storeVars
      <4>2. QED
        BY <4>1 DEF RequestInv
    <3>5. QED
      BY <1>4, <3>1, <3>2, <3>3, <3>4
      DEF Creation, RefuseRun, DiscardRead, DiscardDelete, AbandonRun
  <2>3. \A s \in Runs : s # r => proc'[s] = proc[s]
    BY <2>1, KindsAreDisjoint
  <2>4. \A q \in Readers : proc'[q] = proc[q]
    BY <2>1, KindsAreDisjoint
  <2>5. \A q \in Readers :
           proc'[q].pc # "idle" =>
               proc'[proc'[q].run].pc = "finished" /\ activeRuns'[proc'[q].run] = q
    BY <1>1, <2>1, <2>3, <2>4 DEF RequestInv
  <2>6. QED
    BY <1>2, <2>2, <2>3, <2>5 DEF RequestInv
<1>5. QED
    BY <1>3, <1>4

\* A reader writes the row of a request that is over, and gives up its own registration.
LEMMA ReadingKeepsRequests ==
    ASSUME IInv, RequestInv, NEW p \in Readers, Reading(p)
    PROVE  RequestInv'
<1>0. /\ p \in Procs /\ proc[p].run \in Runs /\ proc[p].pc # "idle"
      /\ \A q \in Procs : q # p => proc'[q] = proc[q]
      /\ activeRuns[proc[p].run] = p
      /\ activeRuns \in [Runs -> Readers \union {NoReader}]
    BY ReadingMoves DEF IInv, ActivityInv, RequestInv
<1>1. \A r \in Runs : proc[r].pc # "finished" => run'[r].submitted = run[r].submitted
                                              /\ run'[r].status = run[r].status
    BY <1>0, ReadingWrites DEF RequestInv
<1>2. \A q \in Readers : q # p /\ proc[q].pc # "idle" =>
          activeRuns'[proc[q].run] = activeRuns[proc[q].run]
  <2>1. \A q \in Readers : q # p /\ proc[q].pc # "idle" => proc[q].run # proc[p].run
    BY <1>0 DEF RequestInv
  <2>2. \A q \in Readers : proc[q].pc # "idle" => proc[q].run \in Runs
    BY DEF IInv, ActivityInv, Shapes, ReaderShape
  <2>3. \A s \in Runs : s # proc[p].run => activeRuns'[s] = activeRuns[s]
    BY <1>0, ReadingMoves DEF IInv, ReaderLeaves, RunOf
  <2>4. QED
    BY <2>1, <2>2, <2>3
<1>3. \/ proc'[p].pc = "idle"
      \/ proc'[p].run = proc[p].run /\ UNCHANGED activeRuns
    BY ReadingMoves, NewActivities DEF IInv
<1>4. QED
    BY <1>0, <1>1, <1>2, <1>3, KindsAreDisjoint, RequestsAreIndifferent

\* A closure writes a terminal status over a row that exists.
LEMMA ClosingKeepsRequests ==
    ASSUME IInv, RequestInv, NEW p \in Procs, Closing(p)
    PROVE  RequestInv'
<1>1. /\ p \notin Runs /\ UNCHANGED activeRuns /\ proc[p].outcome \in TerminalStatuses
      /\ \A q \in Procs : q # p => proc'[q] = proc[q]
      /\ p \in Readers => proc[p].pc # "idle" /\ proc'[p].run = proc[p].run
    BY ClosingMoves DEF IInv, ClosePCs
<1>2. \A r \in Runs : /\ run'[r].submitted = run[r].submitted
                      /\ \/ run'[r].status = run[r].status
                         \/ run[r].status # "absent" /\ run'[r].status \in TerminalStatuses
    BY <1>1, ClosingWrites DEF Exists
<1>3. QED
    BY <1>1, <1>2, KindsAreDisjoint, RequestsAreIndifferent

\* What a cancellation, from a user or from the reconciliation, does to the activities.
LEMMA CancellingMoves ==
    ASSUME ActivityInv, NEW c \in Cancellers, Cancelling(c)
    PROVE  /\ c \in Procs /\ proc[c].run \in Runs /\ proc[c].pc \in {"cancel", "local"}
           /\ proc[c].next \in {"next", "finished"}
           /\ UNCHANGED <<run, activeRuns, todo, cancelAsked>>
           /\ \A r \in Runs : proc'[r] = proc[r]
           /\ \A q \in Readers : /\ proc'[q].pc = proc[q].pc /\ proc'[q].run = proc[q].run
                                 /\ proc'[q].terminal = proc[q].terminal
           /\ \A d \in Cancellers : d # c => proc'[d] = proc[d]
           /\ \/ proc'[c] = Returned(c)
              \/ /\ proc'[c].run = proc[c].run /\ proc'[c].next = proc[c].next
                 /\ proc'[c].pc \in {"local", "close_read"}
<1>0. /\ c \in Procs /\ proc \in [Procs -> Activities] /\ proc[c] \in Activities
      /\ activeRuns \in [Runs -> Readers \union {NoReader}]
      /\ UNCHANGED <<run, activeRuns, todo, cancelAsked>>
    BY KindsAreDisjoint DEF ActivityInv, Cancelling, CancelLookup, CancelLocally,
       CancelRemotely, Local, Keeps, storeVars
<1>1. /\ proc[c].pc \in {"cancel", "local"} /\ proc[c].run \in Runs
      /\ proc[c].next \in {"next", "finished"}
    BY <1>0 DEF ActivityInv, Shapes, CancellerShape, Cancelling, CancelLookup, CancelLocally,
                CancelRemotely, At
<1>2. ASSUME \A q \in Procs : q # c => proc'[q] = proc[q],
             \/ proc'[c] = Returned(c)
             \/ /\ proc'[c].run = proc[c].run /\ proc'[c].next = proc[c].next
                /\ proc'[c].pc \in {"local", "close_read"}
      PROVE  /\ \A r \in Runs : proc'[r] = proc[r]
             /\ \A q \in Readers : /\ proc'[q].pc = proc[q].pc /\ proc'[q].run = proc[q].run
                                   /\ proc'[q].terminal = proc[q].terminal
             /\ \A d \in Cancellers : d # c => proc'[d] = proc[d]
    BY <1>2, KindsAreDisjoint
<1>3. CASE CancelLookup(c)
    BY <1>0, <1>1, <1>2, <1>3 DEF CancelLookup, Returns, Activities
<1>4. CASE CancelRemotely(c)
  <2>1. /\ proc'[c].pc = "close_read" /\ proc'[c].run = proc[c].run
        /\ proc'[c].next = proc[c].next
        /\ \A q \in Procs : q # c => proc'[q] = proc[q]
    BY <1>0, <1>4, GoCloseMoves DEF CancelRemotely
  <2>2. QED
    BY <1>0, <1>1, <1>2, <2>1
<1>5. CASE CancelLocally(c)
  <2> DEFINE abort(p) == IF proc[p].aborted = "no" THEN "user" ELSE proc[p].aborted
  <2>1. PICK p \in Readers : p = activeRuns[proc[c].run]
    BY <1>0, <1>1, <1>5 DEF CancelLocally, RunOf
  <2>2. proc' = [proc EXCEPT ![p].aborted = abort(p), ![c] = Returned(c)]
    BY <1>5, <2>1 DEF CancelLocally, RunOf
  <2> HIDE DEF abort
  <2>3. /\ proc'[p] = [proc[p] EXCEPT !.aborted = abort(p)] /\ proc'[c] = Returned(c)
        /\ \A q \in Procs : q # p /\ q # c => proc'[q] = proc[q]
    BY <1>0, <2>2, KindsAreDisjoint
  <2>4. /\ proc'[p].pc = proc[p].pc /\ proc'[p].run = proc[p].run
        /\ proc'[p].terminal = proc[p].terminal
    BY <1>0, <2>2, <2>3, KindsAreDisjoint DEF Activities
  <2>5. QED
    BY <1>0, <1>1, <2>3, <2>4, KindsAreDisjoint
<1>6. QED
    BY <1>3, <1>4, <1>5 DEF Cancelling

\* What a step of the reconciliation does to the activities.
LEMMA ReconciliationMoves ==
    ASSUME IInv, Reconciliation
    PROVE  /\ Boot \in Procs /\ UNCHANGED <<run, hermes>>
           /\ proc[Boot].pc \in {"list", "next", "probe", "resume"}
           /\ proc[Boot].pc \in {"probe", "resume"} => proc[Boot].run \in Runs
           /\ \A c \in Cancels \union Runs : proc'[c] = proc[c]
           /\ \/ UNCHANGED activeRuns /\ \A q \in Readers : proc'[q] = proc[q]
              \/ \E p \in Readers :
                    /\ BootResume /\ proc[p].pc = "idle"
                    /\ activeRuns[proc[Boot].run] = NoReader
                    /\ activeRuns' = [activeRuns EXCEPT ![proc[Boot].run] = p]
                    /\ proc'[p] = Reader(proc[Boot].run, "reconciled")
                    /\ proc'[Boot] = Returned(Boot)
                    /\ \A q \in Readers : q # p => proc'[q] = proc[q]
<1>0. /\ ActivityInv /\ Boot \in Procs /\ proc \in [Procs -> Activities]
      /\ UNCHANGED <<run, hermes>>
    BY KindsAreDisjoint DEF IInv, ActivityInv, Reconciliation, BootList, BootNext, BootEnds,
       BootProbe, BootResume, Local, storeVars
<1>1. /\ proc[Boot].pc \in {"list", "next", "probe", "resume"}
      /\ proc[Boot].pc \in {"probe", "resume"} => proc[Boot].run \in Runs
    BY <1>0, KindsAreDisjoint DEF ActivityInv, Shapes, CancellerShape, Reconciliation, BootList,
       BootNext, BootEnds, BootProbe, BootResume, At
<1>2. Boot \notin Cancels
    BY RunExecutionAssumption
<1>3. CASE UNCHANGED activeRuns /\ \A q \in Procs : q # Boot => proc'[q] = proc[q]
    BY <1>0, <1>1, <1>2, <1>3, KindsAreDisjoint DEF Procs, Cancellers
<1>4. CASE BootList \/ BootEnds \/ BootProbe
    BY <1>0, <1>3, <1>4 DEF BootList, BootEnds, BootProbe, Goto, Ends, GoClose, Local, Keeps
<1>5. CASE BootNext
    BY <1>0, <1>3, <1>5 DEF BootNext
<1>6. CASE BootResume
  <2>1. CASE UNCHANGED activeRuns /\ (GoClose(Boot, "failed", "next") \/ Returns(Boot))
    BY <1>0, <1>3, <2>1 DEF GoClose, Returns
  <2>2. ASSUME NEW p \in Readers, proc[p].pc = "idle", activeRuns[proc[Boot].run] = NoReader,
               proc' = [proc EXCEPT ![Boot] = Returned(Boot),
                                    ![p] = Reader(proc[Boot].run, "reconciled")],
               activeRuns' = [activeRuns EXCEPT ![proc[Boot].run] = p]
        PROVE  /\ proc'[p] = Reader(proc[Boot].run, "reconciled")
               /\ proc'[Boot] = Returned(Boot)
               /\ \A q \in Procs : q # p /\ q # Boot => proc'[q] = proc[q]
    BY <1>0, <2>2, KindsAreDisjoint
  <2>3. CASE \E p \in Readers :
               /\ proc[p].pc = "idle" /\ activeRuns[proc[Boot].run] = NoReader
               /\ proc' = [proc EXCEPT ![Boot] = Returned(Boot),
                                       ![p] = Reader(proc[Boot].run, "reconciled")]
               /\ activeRuns' = [activeRuns EXCEPT ![proc[Boot].run] = p]
    BY <1>0, <1>1, <1>2, <1>6, <2>2, <2>3, KindsAreDisjoint, ZenonT(40) DEF Procs, Cancellers
  <2>4. QED
    BY <1>6, <2>1, <2>3 DEF BootResume, RunOf, At
<1>7. QED
    BY <1>4, <1>5, <1>6 DEF Reconciliation

\* The requests and the readers share the runs, one activity each.
LEMMA NextKeepsRequests ==
    ASSUME IInv, RequestInv, BootInv, [Next]_vars
    PROVE  RequestInv'
<1>0. ActivityInv /\ activeRuns \in [Runs -> Readers \union {NoReader}]
    BY DEF IInv, ActivityInv
<1>1. CASE \E r \in Runs : Creation(r)
    BY <1>1, CreationKeepsRequests
<1>2. CASE \E p \in Readers : Reading(p)
    BY <1>2, ReadingKeepsRequests
<1>3. CASE \E p \in Procs : Closing(p)
    BY <1>3, ClosingKeepsRequests
<1>4. CASE \E c \in Cancels, r \in Runs : RequestCancel(c, r)
  <2>1. PICK c \in Cancels, r \in Runs : RequestCancel(c, r)
    BY <1>4
  <2>2. /\ UNCHANGED <<run, activeRuns>> /\ c \in Cancellers
        /\ \A q \in Procs : q # c => proc'[q] = proc[q]
    BY <1>0, <2>1 DEF RequestCancel, storeVars, Cancellers, ActivityInv
  <2>3. QED
    BY <2>2, KindsAreDisjoint, RequestsAreIndifferent
<1>5. CASE \E c \in Cancellers : Cancelling(c)
    BY <1>0, <1>5, CancellingMoves, KindsAreDisjoint, RequestsAreIndifferent
<1>6. CASE Reconciliation
  <2>1. UNCHANGED run /\ \A r \in Runs : proc'[r] = proc[r]
    BY <1>6, ReconciliationMoves
  <2>2. CASE UNCHANGED activeRuns /\ \A q \in Readers : proc'[q] = proc[q]
    BY <2>1, <2>2, RequestsAreIndifferent
  <2>3. CASE \E p \in Readers :
               /\ BootResume /\ proc[p].pc = "idle"
               /\ activeRuns[proc[Boot].run] = NoReader
               /\ activeRuns' = [activeRuns EXCEPT ![proc[Boot].run] = p]
               /\ proc'[p] = Reader(proc[Boot].run, "reconciled")
               /\ \A q \in Readers : q # p => proc'[q] = proc[q]
    <3>1. PICK p \in Readers :
               /\ BootResume /\ proc[p].pc = "idle"
               /\ activeRuns[proc[Boot].run] = NoReader
               /\ activeRuns' = [activeRuns EXCEPT ![proc[Boot].run] = p]
               /\ proc'[p] = Reader(proc[Boot].run, "reconciled")
               /\ \A q \in Readers : q # p => proc'[q] = proc[q]
      BY <2>3
    <3>2. PICK r \in Runs : r = proc[Boot].run
      BY <1>6, <3>1, ReconciliationMoves DEF BootResume, At
    <3>3. proc[r].pc = "finished"
      BY <3>1, <3>2 DEF BootInv, BootResume, At
    <3>4. /\ proc'[p].run = r /\ activeRuns'[r] = p
          /\ \A s \in Runs : s # r => activeRuns'[s] = activeRuns[s]
      BY <1>0, <3>1, <3>2, NewActivities
    <3>5. \A q \in Readers : proc[q].pc # "idle" => proc[q].run \in Runs /\ proc[q].run # r
      BY <1>0, <3>1, <3>2, KindsAreDisjoint DEF RequestInv, ActivityInv, Shapes, ReaderShape
    <3>6. \A q \in Readers :
             proc'[q].pc # "idle" =>
                 proc'[proc'[q].run].pc = "finished" /\ activeRuns'[proc'[q].run] = q
      BY <2>1, <3>1, <3>3, <3>4, <3>5 DEF RequestInv
    <3>7. QED
      BY <2>1, <3>6 DEF RequestInv
  <2>4. QED
    BY <1>6, <2>2, <2>3, ReconciliationMoves
<1>7. CASE UNCHANGED <<run, proc, activeRuns>>
    BY <1>7, RequestsAreIndifferent
<1>8. CASE Crash
  <2>1. /\ UNCHANGED run
        /\ \A r \in Runs : /\ proc'[r].pc \in {"idle", "finished"}
                           /\ proc'[r].pc = "idle" => proc[r].pc = "idle"
        /\ \A q \in Readers : proc'[q].pc = "idle"
    BY <1>8, NewActivities, KindsAreDisjoint DEF Crash, AfterCrash, At, storeVars
  <2>2. QED
    BY <2>1 DEF RequestInv
<1>9. CASE \/ \E m \in Mutators : AcquireMutation(m) \/ ReleaseMutation(m)
           \/ \E r \in Runs : HermesSteps(r)
           \/ UNCHANGED vars
    BY <1>7, <1>9
    DEF AcquireMutation, ReleaseMutation, HermesSteps, HermesAsks, HermesEnds, HermesStops,
        HermesDropsEvents, HermesOnly, vars, storeVars, processVars
<1>10. QED
    BY <1>1, <1>2, <1>3, <1>4, <1>5, <1>6, <1>8, <1>9 DEF Next, Running, ConsoleStep

\* A step that is none of the reconciliation, nor ends its awaits.
LEMMA BootIsIndifferent ==
    ASSUME IInv, BootInv, UNCHANGED todo, proc'[Boot] = proc[Boot],
           \A r \in Runs : proc[r].pc = "finished" => proc'[r].pc = "finished"
    PROVE  BootInv'
<1>1. /\ \A t \in todo : t[1] \in Runs
      /\ proc[Boot].pc \in {"probe", "resume"} => proc[Boot].run \in Runs
    BY KindsAreDisjoint DEF IInv, DataInv, ActivityInv, Shapes, CancellerShape
<1>2. QED
    BY <1>1 DEF BootInv

\* The reconciliation takes a submitted orphan to a probe, any other to a closure.
LEMMA ReconciliationKeepsBoot ==
    ASSUME IInv, RequestInv, BootInv, Reconciliation
    PROVE  BootInv'
<1>0. /\ ActivityInv /\ Boot \in Procs /\ Boot \in Cancellers /\ proc \in [Procs -> Activities]
      /\ proc[Boot] \in Activities
      /\ \A r \in Runs : proc'[r] = proc[r]
      /\ \A t \in todo : t[1] \in Runs
    BY ReconciliationMoves, KindsAreDisjoint DEF IInv, ActivityInv, DataInv
<1>1. ASSUME todo' \subseteq todo,
             proc'[Boot].pc \in {"next", "finished"},
             proc'[Boot].pc = "finished" => todo' = {}
      PROVE  BootInv'
    BY <1>0, <1>1 DEF BootInv, ClosePCs
<1>2. ASSUME UNCHANGED todo, proc'[Boot].next = "next", proc[Boot].run \in Runs,
             proc'[Boot].run = proc[Boot].run,
             \/ proc'[Boot].pc = "close_read"
             \/ proc'[Boot].pc = "resume" /\ proc[Boot].pc = "probe"
      PROVE  BootInv'
    BY <1>0, <1>2 DEF BootInv, ClosePCs
<1>3. CASE BootList
  <2>1. \A t \in todo' : t[1] \in Runs /\ (t[2] => run[t[1]].submitted)
    BY <1>3 DEF BootList
  <2>2. \A t \in todo' : t[2] => proc'[t[1]].pc = "finished"
    BY <1>0, <2>1 DEF RequestInv
  <2>3. proc'[Boot].pc = "next"
    BY <1>0, <1>3, GotoMoves DEF BootList
  <2>4. QED
    BY <2>2, <2>3 DEF BootInv, ClosePCs
<1>4. CASE BootEnds
    BY <1>0, <1>1, <1>4, NewActivities DEF BootEnds, Ends, Local, Keeps
<1>5. CASE BootNext
  <2>1. PICK t \in todo :
            /\ todo' = todo \ {t}
            /\ IF activeRuns[t[1]] # NoReader
                 THEN UNCHANGED proc
                 ELSE \E activity \in Reconciled(t[1], t[2]) :
                        proc' = [proc EXCEPT ![Boot] = activity]
    BY <1>5 DEF BootNext
  <2>2. CASE UNCHANGED proc
    BY <1>1, <1>5, <2>1, <2>2 DEF BootNext, At
  <2>3. ASSUME NEW a \in Reconciled(t[1], t[2]), proc' = [proc EXCEPT ![Boot] = a]
        PROVE  BootInv'
    <3>1. proc'[Boot] = a
      BY <1>0, <2>3
    <3>2. t[2] \in BOOLEAN
      BY DEF IInv, DataInv
    <3>3. \/ a.pc = "next"
          \/ a.pc \in {"cancel", "close_read"} /\ a.next = "next"
          \/ a.pc = "probe" /\ a.next = "next" /\ a.run = t[1] /\ t[2]
      BY <3>2 DEF Reconciled, Idle
    <3>4. QED
      BY <1>0, <2>1, <3>1, <3>3 DEF BootInv, ClosePCs
  <2>4. QED
    BY <2>1, <2>2, <2>3
<1>6. CASE BootProbe
  <2>1. proc[Boot].pc = "probe" /\ proc[Boot].run \in Runs /\ UNCHANGED todo
        /\ proc[Boot].next = "next"
    BY <1>0, <1>6, ReconciliationMoves DEF BootProbe, At, Local, Keeps, BootInv
  <2>2. CASE Goto(Boot, "resume")
    BY <1>0, <1>2, <2>1, <2>2, GotoMoves
  <2>3. CASE \E outcome : GoClose(Boot, outcome, "next")
    BY <1>0, <1>2, <2>1, <2>3, GoCloseMoves
  <2>4. QED
    BY <1>6, <2>2, <2>3 DEF BootProbe
<1>7. CASE BootResume
  <2>1. proc[Boot].pc = "resume" /\ proc[Boot].run \in Runs /\ UNCHANGED todo
        /\ proc[Boot].next = "next"
    BY <1>0, <1>7, ReconciliationMoves DEF BootResume, At, BootInv
  <2>2. Returned(Boot) = [Idle EXCEPT !.pc = "next"]
    BY <1>0, <2>1, ReturnedActivity
  <2>3. Returned(Boot).pc = "next"
    BY <2>2 DEF Idle
  <2>4. CASE proc'[Boot] = Returned(Boot)
    BY <1>1, <2>1, <2>3, <2>4
  <2>5. CASE GoClose(Boot, "failed", "next")
    BY <1>0, <1>2, <2>1, <2>5, GoCloseMoves
  <2>6. CASE Returns(Boot)
    BY <1>0, <2>4, <2>6 DEF Returns
  <2>7. CASE \E p \in Readers :
                proc' = [proc EXCEPT ![Boot] = Returned(Boot),
                                     ![p] = Reader(RunOf(Boot), "reconciled")]
    <3>1. proc'[Boot] = Returned(Boot)
      BY <1>0, <2>7, KindsAreDisjoint
    <3>2. QED
      BY <2>4, <3>1
  <2>8. QED
    BY <1>7, <2>5, <2>6, <2>7 DEF BootResume
<1>8. QED
    BY <1>3, <1>4, <1>5, <1>6, <1>7 DEF Reconciliation

\* Only the reconciliation moves its list.
LEMMA NextKeepsBoot ==
    ASSUME IInv, RequestInv, BootInv, [Next]_vars
    PROVE  BootInv'
<1>0. /\ ActivityInv /\ proc \in [Procs -> Activities] /\ Boot \in Cancellers
      /\ Boot \in Procs /\ Boot \notin Cancels
    BY KindsAreDisjoint, RunExecutionAssumption DEF IInv, ActivityInv
<1>1. CASE \E r \in Runs : Creation(r)
  <2>1. PICK r \in Runs : Creation(r)
    BY <1>1
  <2>2. UNCHANGED todo /\ proc[r].pc # "finished"
    BY <2>1 DEF Creation, AcquireRunStart, CreateRun, RefuseRun, StartRun, DiscardRead,
       DiscardDelete, AbandonRun, Keeps, At
  <2>3. \A q \in Procs : q # r /\ q \notin Readers => proc'[q] = proc[q]
    <3>1. CASE StartRun(r)
      BY <1>0, <3>1 DEF StartRun
    <3>2. CASE ~StartRun(r)
      BY <1>0, <2>1, <3>2 DEF Creation, AcquireRunStart, CreateRun, RefuseRun, DiscardRead,
         DiscardDelete, AbandonRun, Goto, Ends
    <3>3. QED
      BY <3>1, <3>2
  <2>4. QED
    BY <1>0, <2>2, <2>3, KindsAreDisjoint, BootIsIndifferent
<1>2. CASE \E p \in Readers : Reading(p)
    BY <1>0, <1>2, ReadingMoves, KindsAreDisjoint, BootIsIndifferent
<1>3. CASE \E p \in Procs : Closing(p)
  <2>1. PICK p \in Procs : Closing(p)
    BY <1>3
  <2>2. /\ UNCHANGED todo /\ p \notin Runs /\ proc[p].pc \in ClosePCs
        /\ \A q \in Procs : q # p => proc'[q] = proc[q]
    BY <1>0, <2>1, ClosingMoves
  <2>3. CASE p # Boot
    BY <1>0, <2>2, <2>3, KindsAreDisjoint, BootIsIndifferent
  <2>4. CASE p = Boot /\ proc'[p].pc = "close_write"
    <3>1. proc'[Boot].next = proc[Boot].next
      <4>1. CASE Goto(Boot, "close_write")
        BY <1>0, <4>1, GotoMoves
      <4>2. CASE Returns(Boot)
        <5>1. proc'[Boot] = Returned(Boot) /\ proc[Boot].next = "next"
          BY <1>0, <2>2, <2>4, <4>2 DEF Returns, BootInv
        <5>2. Returned(Boot).pc = "next"
          BY <1>0, <5>1, ReturnedActivity DEF Idle
        <5>3. QED
          BY <2>4, <5>1, <5>2
      <4>3. QED
        BY <2>1, <2>4, <4>1, <4>2 DEF Closing, CloseRead, CloseWrite
    <3>2. QED
      BY <1>0, <2>2, <2>4, <3>1, KindsAreDisjoint DEF BootInv, IInv, DataInv, ClosePCs
  <2>5. CASE p = Boot /\ proc'[p] = Returned(p)
    <3>1. Returned(Boot).pc = "next"
      BY <1>0, <2>2, <2>5, ReturnedActivity DEF BootInv, Idle
    <3>2. QED
      BY <1>0, <2>2, <2>5, <3>1, KindsAreDisjoint DEF BootInv, IInv, DataInv, ClosePCs
  <2>6. QED
    BY <1>0, <2>1, <2>3, <2>4, <2>5, ClosingMoves
<1>4. CASE \E c \in Cancels, r \in Runs : RequestCancel(c, r)
  <2>1. PICK c \in Cancels, r \in Runs : RequestCancel(c, r)
    BY <1>4
  <2>2. UNCHANGED todo /\ c \in Cancellers /\ \A q \in Procs : q # c => proc'[q] = proc[q]
    BY <1>0, <2>1 DEF RequestCancel, Cancellers
  <2>3. QED
    BY <1>0, <2>2, KindsAreDisjoint, BootIsIndifferent
<1>5. CASE \E c \in Cancellers : Cancelling(c)
  <2>1. PICK c \in Cancellers : Cancelling(c)
    BY <1>5
  <2>2. CASE c # Boot
    BY <1>0, <2>1, <2>2, CancellingMoves, BootIsIndifferent
  <2>3. CASE c = Boot
    <3>1. /\ UNCHANGED todo /\ \A r \in Runs : proc'[r] = proc[r]
          /\ proc[Boot].next = "next"
          /\ \/ proc'[Boot] = Returned(Boot)
             \/ proc'[Boot].next = "next" /\ proc'[Boot].pc \in {"local", "close_read"}
      BY <1>0, <2>1, <2>3, CancellingMoves DEF BootInv
    <3>2. Returned(Boot).pc = "next"
      BY <1>0, <3>1, ReturnedActivity DEF Idle
    <3>3. QED
      BY <3>1, <3>2 DEF BootInv, IInv, DataInv, ClosePCs
  <2>4. QED
    BY <2>2, <2>3
<1>6. CASE Reconciliation
    BY <1>6, ReconciliationKeepsBoot
<1>7. CASE UNCHANGED <<proc, todo>>
    BY <1>7, BootIsIndifferent
<1>8. CASE Crash
  <2>1. todo' = {} /\ proc'[Boot].pc = "list"
    BY <1>0, <1>8, NewActivities DEF Crash, AfterCrash
  <2>2. QED
    BY <2>1 DEF BootInv, ClosePCs
<1>9. CASE \/ \E m \in Mutators : AcquireMutation(m) \/ ReleaseMutation(m)
           \/ \E r \in Runs : HermesSteps(r)
           \/ UNCHANGED vars
    BY <1>7, <1>9
    DEF AcquireMutation, ReleaseMutation, HermesSteps, HermesAsks, HermesEnds, HermesStops,
        HermesDropsEvents, HermesOnly, vars, processVars
<1>10. QED
    BY <1>1, <1>2, <1>3, <1>4, <1>5, <1>6, <1>8, <1>9 DEF Next, Running, ConsoleStep

\* Before its loop a reader has read no terminal event.
EarlyPCs ==
    {"context", "starting", "submit", "submitted", "status", "connect", "mark_started"}

\* Nobody owes the run anything: it is over, it waits for a human, or its cancellation
\* was asked for.
Settled(r) == run[r].status \notin {"pending", "starting", "running"} \/ r \in cancelAsked

\* A reader leaves, or goes on reading after a terminal event, once its run is settled.
EndsWell(p) ==
    /\ proc[p].pc \in EarlyPCs => ~proc[p].terminal
    /\ \/ proc[p].pc = "leaving"
       \/ proc[p].terminal /\ proc[p].pc \notin ClosePCs \union {"idle"}
       => Settled(proc[p].run)

EndsInv == \A p \in Readers : EndsWell(p)

\* Who still owes a run its end: its request, a reader, or the reconciliation.
Covered(r) ==
    \/ proc[r].run = r
    \/ \E p \in Readers : proc[p].run = r /\ proc[p].pc # "idle"
    \/ \E b \in BOOLEAN : <<r, b>> \in todo
    \/ proc[Boot].run = r /\ proc[Boot].pc \in ClosePCs \union {"probe", "resume"}

StrandInv == \A r \in Runs : proc[Boot].pc # "list" /\ ~Settled(r) => Covered(r)

WorkInv == IInv /\ WarrantInv /\ RequestInv /\ BootInv /\ EndsInv

\* What becomes of a row that no one owes anything: only its request or its reader
\* gives it a new debt, and takes it.
LEMMA SettledStays ==
    ASSUME IInv, RequestInv, [Next]_vars, NEW r \in Runs, Settled(r)
    PROVE  \/ Settled(r)'
           \/ proc[r].pc = "reserved" /\ proc'[r].run = r
           \/ \E p \in Readers :
                /\ proc[p].pc \in {"starting", "mark_started"} /\ proc[p].run = r
                /\ proc'[p].pc # "idle" /\ proc'[p].run = r
<1>0. cancelAsked \subseteq cancelAsked' /\ ActivityInv
    BY NextKeepsWarrants DEF WarrantsStay, IInv
<1>1. CASE UNCHANGED run
    BY <1>0, <1>1 DEF Settled
<1>2. CASE \E s \in Runs : Creation(s)
  <2>1. PICK s \in Runs : Creation(s)
    BY <1>2
  <2>2. CASE r = s /\ CreateRun(s)
    <3>1. proc[r].pc = "reserved" /\ proc'[r].run = proc[r].run /\ r \in Procs
      BY <1>0, <2>2, GotoMoves, KindsAreDisjoint DEF CreateRun, At
    <3>2. QED
      BY <3>1 DEF RequestInv
  <2>3. CASE run'[r] = run[r]
    BY <1>0, <2>3 DEF Settled
  <2>4. CASE run'[r] = Absent
    BY <2>4 DEF Settled, Absent
  <2>5. QED
    BY <2>1, <2>2, <2>3, <2>4, CreationWrites
<1>3. CASE \E p \in Readers : Reading(p)
  <2>1. PICK p \in Readers : Reading(p)
    BY <1>3
  <2>2. CASE run'[r].status \in {run[r].status, "awaiting_approval"}
    BY <1>0, <2>2 DEF Settled
  <2>3. ASSUME r = proc[p].run, proc[p].pc \in {"starting", "mark_started"}
        PROVE  proc'[p].pc # "idle" /\ proc'[p].run = r
    BY <1>0, <2>1, <2>3, ReadingMoves DEF ReaderLeaves, At
  <2>4. QED
    BY <2>1, <2>2, <2>3, ReadingWrites
<1>4. CASE \E p \in Procs : Closing(p)
  <2>1. run'[r].status = run[r].status \/ run'[r].status \in TerminalStatuses
    BY <1>0, <1>4, ClosingWrites, ClosingMoves
  <2>2. QED
    BY <1>0, <2>1 DEF Settled, TerminalStatuses
<1>5. CASE \/ \E c \in Cancels, s \in Runs : RequestCancel(c, s)
           \/ \E c \in Cancellers : Cancelling(c)
           \/ Reconciliation
           \/ \E m \in Mutators : AcquireMutation(m) \/ ReleaseMutation(m)
           \/ \E s \in Runs : HermesSteps(s)
           \/ Crash
           \/ UNCHANGED vars
    BY <1>1, <1>5
    DEF RequestCancel, Cancelling, CancelLookup, CancelLocally, CancelRemotely, Reconciliation,
        BootList, BootNext, BootEnds, BootProbe, BootResume, AcquireMutation, ReleaseMutation,
        HermesSteps, HermesAsks, HermesEnds, HermesStops, HermesDropsEvents, HermesOnly, Crash,
        vars, Local, storeVars
<1>6. QED
    BY <1>2, <1>3, <1>4, <1>5 DEF Next, Running, ConsoleStep

\* A reader at work keeps its run settled: no other reader has the run, and the request
\* of the run is over.
LEMMA OwnRunStaysSettled ==
    ASSUME IInv, RequestInv, [Next]_vars, NEW p \in Readers, NEW r \in Runs,
           proc[p].pc # "idle", proc[p].run = r, Settled(r)
    PROVE  Settled(r)' \/ proc[p].pc \in {"starting", "mark_started"}
<1>1. proc[r].pc = "finished" /\ activeRuns[r] = p
    BY DEF RequestInv
<1>2. ASSUME NEW q \in Readers, proc[q].pc \in {"starting", "mark_started"}, proc[q].run = r
      PROVE  q = p
    BY <1>1, <1>2 DEF RequestInv
<1>3. QED
    BY <1>1, <1>2, SettledStays

\* A step that leaves a reader where it is.
LEMMA WaitingEndsWell ==
    ASSUME IInv, RequestInv, [Next]_vars, NEW p \in Readers, EndsWell(p),
           proc'[p].pc = proc[p].pc, proc'[p].run = proc[p].run,
           proc'[p].terminal = proc[p].terminal
    PROVE  EndsWell(p)'
<1>1. CASE proc[p].pc = "idle"
    BY <1>1 DEF EndsWell, EarlyPCs
<1>2. CASE proc[p].pc # "idle"
  <2>1. PICK r \in Runs : r = proc[p].run
    BY <1>2 DEF IInv, ActivityInv, Shapes, ReaderShape
  <2>2. proc[p].pc \in {"starting", "mark_started"} => ~proc[p].terminal
    BY DEF EndsWell, EarlyPCs
  <2>3. CASE \/ proc[p].pc = "leaving"
             \/ proc[p].terminal /\ proc[p].pc \notin ClosePCs \union {"idle"}
    <3>1. Settled(r)'
      BY <1>2, <2>1, <2>2, <2>3, OwnRunStaysSettled DEF EndsWell
    <3>2. QED
      BY <2>1, <3>1 DEF EndsWell
  <2>4. CASE ~(\/ proc[p].pc = "leaving"
               \/ proc[p].terminal /\ proc[p].pc \notin ClosePCs \union {"idle"})
    BY <2>4 DEF EndsWell
  <2>5. QED
    BY <2>3, <2>4
<1>3. QED
    BY <1>1, <1>2

\* A step of a reader in its loop or before it, but for a terminal event.
LEMMA ReadingEndsWell ==
    ASSUME WorkInv, Faults = {}, NEW p \in Readers, Reading(p)
    PROVE  EndsWell(p)'
<1>0. /\ ActivityInv /\ p \in Procs /\ proc[p] \in Activities /\ proc \in [Procs -> Activities]
      /\ EndsWell(p) /\ UNCHANGED cancelAsked
      /\ [Next]_vars /\ proc[p].pc # "idle"
    BY ReadingMoves DEF WorkInv, IInv, ActivityInv, EndsInv, Next, Running, ConsoleStep
<1>s. PICK r \in Runs : r = proc[p].run
    BY <1>0, ReadingMoves
<1>w. Aborted(p) => Settled(r)
    BY <1>s DEF WorkInv, WarrantInv, RunOf, Settled
<1>1. ASSUME NEW pc, Goto(p, pc), pc \notin EarlyPCs \union {"leaving"},
             proc[p].pc \notin {"starting", "mark_started"} \/ ~proc[p].terminal
      PROVE  EndsWell(p)'
  <2>1. proc'[p].pc = pc /\ proc'[p].run = r /\ proc'[p].terminal = proc[p].terminal
    BY <1>0, <1>s, <1>1, GotoMoves
  <2>2. CASE proc[p].terminal /\ proc[p].pc \notin ClosePCs
    <3>1. Settled(r)'
      BY <1>0, <1>s, <1>1, <2>2, OwnRunStaysSettled DEF EndsWell, WorkInv
    <3>2. QED
      BY <1>1, <2>1, <3>1 DEF EndsWell
  <2>3. CASE ~proc[p].terminal
    BY <1>1, <2>1, <2>3 DEF EndsWell
  <2>4. QED
    BY <1>0, <2>2, <2>3, ReadingMoves
<1>2. ASSUME NEW pc, Goto(p, pc), proc[p].pc \in EarlyPCs, pc # "leaving"
      PROVE  EndsWell(p)'
  <2>1. proc'[p].pc = pc /\ proc'[p].terminal = proc[p].terminal /\ ~proc[p].terminal
    BY <1>0, <1>2, GotoMoves DEF EndsWell
  <2>2. QED
    BY <1>2, <2>1 DEF EndsWell
<1>3. ASSUME NEW outcome, GoClose(p, outcome, "leaving")
      PROVE  EndsWell(p)'
    BY <1>0, <1>3, GoCloseMoves DEF EndsWell, EarlyPCs, ClosePCs
<1>4. ASSUME Goto(p, "leaving"), Settled(r), UNCHANGED run
      PROVE  EndsWell(p)'
    BY <1>0, <1>s, <1>4, GotoMoves DEF EndsWell, EarlyPCs, Settled
<1>5. CASE \/ ReadContext(p) \/ MarkStarting(p) \/ Submit(p) \/ ReadStatus(p) \/ Connect(p)
           \/ MarkStarted(p)
  <2>1. /\ proc[p].pc \in EarlyPCs
        /\ \E pc \in {"starting", "status", "submit", "error", "submitted", "connect",
                      "mark_started", "read", "notfound"} : Goto(p, pc)
    BY <1>5 DEF ReadContext, MarkStarting, Submit, ReadStatus, Connect, MarkStarted, At, EarlyPCs
  <2>2. QED
    BY <1>2, <2>1
<1>6. CASE RecordSubmission(p)
  <2>1. proc'[p].pc = "connect" /\ proc'[p].terminal = proc[p].terminal /\ ~proc[p].terminal
    BY <1>0, <1>6 DEF RecordSubmission, At, EndsWell, EarlyPCs, Activities
  <2>2. QED
    BY <2>1 DEF EndsWell
<1>7. CASE \/ ReceiveAsk(p) \/ StreamStops(p) \/ InsertRequest(p) \/ AwaitingRead(p)
           \/ AwaitingWrite(p)
  <2>1. /\ proc[p].pc \in {"read", "insert", "mark_read", "mark_write"}
        /\ \E pc \in {"ended", "insert", "mark_read", "error", "read", "mark_write"} : Goto(p, pc)
    BY <1>7 DEF ReceiveAsk, StreamStops, InsertRequest, AwaitingRead, AwaitingWrite, At
  <2>2. QED
    BY <1>1, <2>1 DEF EarlyPCs
<1>8. CASE ReceiveEnd(p)
  <2>1. proc[p].pc = "read"
    BY <1>8 DEF ReceiveEnd, At
  <2>2. CASE Goto(p, "ended")
    BY <1>1, <2>1, <2>2 DEF EarlyPCs
  <2>3. CASE proc' = [proc EXCEPT ![p].pc = "close_read", ![p].outcome = hermes[proc[p].run].state,
                                  ![p].next = "read", ![p].terminal = TRUE]
    <3>1. proc'[p].pc = "close_read"
      BY <1>0, <2>3 DEF Activities
    <3>2. QED
      BY <3>1 DEF EndsWell, EarlyPCs, ClosePCs
  <2>4. QED
    BY <1>8, <2>2, <2>3 DEF ReceiveEnd, RunOf
<1>9. CASE StreamEnded(p)
  <2>1. UNCHANGED run /\ proc[p].pc = "ended"
    BY <1>9 DEF StreamEnded, At, Local, storeVars
  <2>2. CASE /\ Goto(p, "leaving")
             /\ proc[p].terminal \/ Aborted(p) \/ run[r].status = "awaiting_approval"
    <3>1. Settled(r)
      BY <1>0, <1>s, <1>w, <2>1, <2>2 DEF EndsWell, Settled, ClosePCs
    <3>2. QED
      BY <1>4, <2>1, <2>2, <3>1
  <2>3. QED
    BY <1>3, <1>9, <1>s, <2>2 DEF StreamEnded, RunOf
<1>10. CASE HandleError(p)
  <2>1. CASE GoClose(p, "cancelled", "leaving")
    BY <1>3, <2>1
  <2>2. CASE \E pc \in {"poll", "check"} : Goto(p, pc)
    BY <1>1, <1>10, <2>2 DEF EarlyPCs, HandleError
  <2>3. QED
    BY <1>10, <2>1, <2>2 DEF HandleError
<1>11. CASE PollHermes(p)
  <2>1. UNCHANGED run /\ proc[p].pc = "poll"
    BY <1>11 DEF PollHermes, At, Local, storeVars
  <2>2. CASE GoClose(p, hermes[proc[p].run].state, "leaving")
    BY <1>3, <2>2
  <2>3. CASE Goto(p, "leaving") /\ proc[p].aborted = "reconnect"
    BY <1>4, <1>w, <2>1, <2>3 DEF Aborted
  <2>4. CASE Goto(p, "check")
    BY <1>1, <2>1, <2>4 DEF EarlyPCs
  <2>5. QED
    BY <1>11, <2>2, <2>3, <2>4 DEF PollHermes, RunOf
<1>12. CASE CheckAwaiting(p)
  <2>1. UNCHANGED run
    BY <1>12 DEF CheckAwaiting, Local, storeVars
  <2>2. CASE Goto(p, "leaving") /\ run[r].status = "awaiting_approval"
    BY <1>4, <2>1, <2>2 DEF Settled
  <2>3. QED
    BY <1>3, <1>12, <1>s, <2>2 DEF CheckAwaiting, RunOf
<1>13. CASE ReaderLeaves(p)
  <2>1. proc'[p].pc = "idle"
    BY <1>0, <1>13, NewActivities DEF ReaderLeaves
  <2>2. QED
    BY <2>1 DEF EndsWell, EarlyPCs
<1>14. QED
    BY <1>5, <1>6, <1>7, <1>8, <1>9, <1>10, <1>11, <1>12, <1>13 DEF Reading

\* A reader comes back from a closure to a run that is over, or gone.
LEMMA ClosingEndsWell ==
    ASSUME WorkInv, NEW p \in Readers, Closing(p)
    PROVE  EndsWell(p)'
<1>0. ActivityInv /\ p \in Procs /\ [Next]_vars /\ UNCHANGED cancelAsked
    BY KindsAreDisjoint, ClosingMoves DEF WorkInv, IInv, Next, Running, ConsoleStep
<1>s. PICK r \in Runs : r = proc[p].run
    BY <1>0, ClosingMoves
<1>1. CASE proc'[p].pc = "close_write"
    BY <1>1 DEF EndsWell, EarlyPCs, ClosePCs
<1>2. CASE proc'[p] = Returned(p)
  <2>1. proc'[p].pc \in {"read", "leaving"} /\ proc'[p].run = r
    BY <1>0, <1>s, <1>2, ClosingMoves
  <2>2. Settled(r)'
    <3>1. CASE At(p, "close_read")
      BY <1>0, <1>s, <1>2, <3>1, ClosingMoves, ClosingWrites
      DEF WorkInv, Settled, Exists, IsTerminal, TerminalStatuses, At
    <3>2. CASE At(p, "close_write")
      BY <1>0, <1>s, <3>2, ClosingMoves, ClosingWrites
      DEF WorkInv, Settled, Exists, TerminalStatuses, At
    <3>3. QED
      BY <1>0, <3>1, <3>2, ClosingMoves DEF ClosePCs, At
  <2>3. QED
    BY <2>1, <2>2 DEF EndsWell, EarlyPCs
<1>3. QED
    BY <1>0, <1>1, <1>2, ClosingMoves

\* A reader is moved by its own steps, by its closure, or by an abort.
LEMMA NextKeepsEnds ==
    ASSUME WorkInv, Faults = {}, [Next]_vars
    PROVE  EndsInv'
<1> SUFFICES ASSUME NEW q \in Readers PROVE EndsWell(q)'
    BY DEF EndsInv
<1>0. /\ IInv /\ RequestInv /\ ActivityInv /\ EndsWell(q) /\ q \in Procs
      /\ proc \in [Procs -> Activities] /\ Boot \in Cancellers
    BY KindsAreDisjoint DEF WorkInv, IInv, ActivityInv, EndsInv
<1>1. ASSUME proc'[q] = proc[q]
      PROVE  EndsWell(q)'
    BY <1>0, <1>1, WaitingEndsWell
<1>2. ASSUME NEW r, NEW source, proc'[q] = Reader(r, source)
      PROVE  EndsWell(q)'
    BY <1>2 DEF Reader, Idle, EndsWell, EarlyPCs
<1>3. CASE \E r \in Runs : Creation(r)
  <2>1. PICK r \in Runs : Creation(r)
    BY <1>3
  <2>2. CASE StartRun(r)
    <3>1. PICK p \in Readers : proc' = [proc EXCEPT ![r] = Finished, ![p] = Reader(r, "fresh")]
      BY <2>2 DEF StartRun
    <3>2. proc'[q] = proc[q] \/ proc'[q] = Reader(r, "fresh")
      BY <1>0, <3>1, KindsAreDisjoint
    <3>3. QED
      BY <1>1, <1>2, <3>2
  <2>3. CASE ~StartRun(r)
    <3>1. proc'[q] = proc[q]
      BY <1>0, <2>1, <2>3, KindsAreDisjoint DEF Creation, AcquireRunStart, CreateRun, RefuseRun,
         DiscardRead, DiscardDelete, AbandonRun, Goto, Ends
    <3>2. QED
      BY <1>1, <3>1
  <2>4. QED
    BY <2>2, <2>3
<1>4. CASE \E p \in Readers : Reading(p)
  <2>1. PICK p \in Readers : Reading(p)
    BY <1>4
  <2>2. CASE p = q
    BY <2>1, <2>2, ReadingEndsWell
  <2>3. CASE p # q
    BY <1>0, <1>1, <2>1, <2>3, ReadingMoves
  <2>4. QED
    BY <2>2, <2>3
<1>5. CASE \E p \in Procs : Closing(p)
  <2>1. PICK p \in Procs : Closing(p)
    BY <1>5
  <2>2. CASE p = q
    BY <2>1, <2>2, ClosingEndsWell
  <2>3. CASE p # q
    BY <1>0, <1>1, <2>1, <2>3, ClosingMoves
  <2>4. QED
    BY <2>2, <2>3
<1>6. CASE \E c \in Cancels, r \in Runs : RequestCancel(c, r)
    BY <1>0, <1>1, <1>6, KindsAreDisjoint DEF RequestCancel, Cancellers
<1>7. CASE \E c \in Cancellers : Cancelling(c)
    BY <1>0, <1>7, CancellingMoves, WaitingEndsWell
<1>8. CASE Reconciliation
    BY <1>0, <1>1, <1>2, <1>8, ReconciliationMoves
<1>9. CASE Crash
  <2>1. proc'[q].pc = "idle"
    BY <1>0, <1>9, NewActivities, KindsAreDisjoint DEF Crash, AfterCrash
  <2>2. QED
    BY <2>1 DEF EndsWell, EarlyPCs
<1>10. CASE \/ \E m \in Mutators : AcquireMutation(m) \/ ReleaseMutation(m)
            \/ \E r \in Runs : HermesSteps(r)
            \/ UNCHANGED vars
    BY <1>1, <1>10
    DEF AcquireMutation, ReleaseMutation, HermesSteps, HermesAsks, HermesEnds, HermesStops,
        HermesDropsEvents, HermesOnly, vars, processVars
<1>11. QED
    BY <1>3, <1>4, <1>5, <1>6, <1>7, <1>8, <1>9, <1>10 DEF Next, Running, ConsoleStep

-----------------------------------------------------------------------------
(* Who covers a run, step by step *)

\* A reader of the run that is still one, or has settled it.
LEMMA ReaderCovers ==
    ASSUME WorkInv, Faults = {}, [Next]_vars, ~Crash, NEW q \in Readers, NEW r \in Runs,
           proc[q].run = r, proc[q].pc # "idle", ~Settled(r)
    PROVE  Covered(r)'
<1>0. /\ IInv /\ RequestInv /\ ActivityInv /\ EndsWell(q) /\ q \in Procs
      /\ proc \in [Procs -> Activities] /\ Boot \in Cancellers
    BY KindsAreDisjoint DEF WorkInv, IInv, ActivityInv, EndsInv
<1>1. ASSUME proc'[q].pc # "idle", proc'[q].run = r
      PROVE  Covered(r)'
    BY <1>1 DEF Covered
<1>2. CASE \E s \in Runs : Creation(s)
  <2>1. PICK s \in Runs : Creation(s)
    BY <1>2
  <2>2. CASE StartRun(s)
    <3>1. PICK p \in Readers :
              /\ proc[p].pc = "idle"
              /\ proc' = [proc EXCEPT ![s] = Finished, ![p] = Reader(s, "fresh")]
      BY <2>2 DEF StartRun, At
    <3>2. proc'[q] = proc[q]
      BY <1>0, <3>1, KindsAreDisjoint
    <3>3. QED
      BY <1>1, <3>2
  <2>3. CASE ~StartRun(s)
    <3>1. proc'[q] = proc[q]
      BY <1>0, <2>1, <2>3, KindsAreDisjoint DEF Creation, AcquireRunStart, CreateRun, RefuseRun,
         DiscardRead, DiscardDelete, AbandonRun, Goto, Ends
    <3>2. QED
      BY <1>1, <3>1
  <2>4. QED
    BY <2>2, <2>3
<1>3. CASE \E p \in Readers : Reading(p)
  <2>1. PICK p \in Readers : Reading(p)
    BY <1>3
  <2>2. CASE p = q /\ ReaderLeaves(p)
    <3>1. Settled(r)
      BY <1>0, <2>2 DEF EndsWell, ReaderLeaves, At
    <3>2. QED
      BY <3>1
  <2>3. CASE ~(p = q /\ ReaderLeaves(p))
    <3>1. proc'[q].pc # "idle" /\ proc'[q].run = r
      BY <1>0, <2>1, <2>3, ReadingMoves
    <3>2. QED
      BY <1>1, <3>1
  <2>4. QED
    BY <2>2, <2>3
<1>4. CASE \E p \in Procs : Closing(p)
  <2>1. PICK p \in Procs : Closing(p)
    BY <1>4
  <2>2. proc'[q].pc # "idle" /\ proc'[q].run = r
    BY <1>0, <2>1, ClosingMoves
  <2>3. QED
    BY <1>1, <2>2
<1>5. CASE \E c \in Cancels, s \in Runs : RequestCancel(c, s)
    BY <1>0, <1>1, <1>5, KindsAreDisjoint DEF RequestCancel, Cancellers
<1>6. CASE \E c \in Cancellers : Cancelling(c)
    BY <1>0, <1>1, <1>6, CancellingMoves
<1>7. CASE Reconciliation
    BY <1>0, <1>1, <1>7, ReconciliationMoves
<1>8. CASE \/ \E m \in Mutators : AcquireMutation(m) \/ ReleaseMutation(m)
           \/ \E s \in Runs : HermesSteps(s)
           \/ UNCHANGED vars
  <2>1. UNCHANGED proc
    BY <1>8
    DEF AcquireMutation, ReleaseMutation, HermesSteps, HermesAsks, HermesEnds, HermesStops,
        HermesDropsEvents, HermesOnly, vars, processVars
  <2>2. QED
    BY <1>1, <2>1
<1>9. QED
    BY <1>2, <1>3, <1>4, <1>5, <1>6, <1>7, <1>8 DEF Next, Running, ConsoleStep

\* The request of a run hands it to a reader, or ends with its row over or gone.
LEMMA RequestCovers ==
    ASSUME WorkInv, Faults = {}, [Next]_vars, ~Crash, NEW r \in Runs,
           proc[r].run = r, ~Settled(r), ~Settled(r)'
    PROVE  Covered(r)'
<1>0. /\ IInv /\ RequestInv /\ ActivityInv /\ r \in Procs
      /\ proc \in [Procs -> Activities] /\ proc[r] \in Activities
      /\ run \in [Runs -> Rows]
    BY KindsAreDisjoint DEF WorkInv, IInv, ActivityInv, DataInv, StoreTypeOK
<1>1. ASSUME proc'[r].run = r
      PROVE  Covered(r)'
    BY <1>1 DEF Covered
<1>2. CASE \E s \in Runs : Creation(s)
  <2>1. PICK s \in Runs : Creation(s)
    BY <1>2
  <2>2. CASE s # r
    <3>1. proc'[r] = proc[r]
      <4>1. CASE StartRun(s)
        BY <1>0, <2>2, <4>1, KindsAreDisjoint DEF StartRun
      <4>2. CASE ~StartRun(s)
        BY <1>0, <2>1, <2>2, <4>2 DEF Creation, AcquireRunStart, CreateRun, RefuseRun,
           DiscardRead, DiscardDelete, AbandonRun, Goto, Ends
      <4>3. QED
        BY <4>1, <4>2
    <3>2. QED
      BY <1>1, <3>1
  <2>3. CASE s = r /\ (AcquireRunStart(r) \/ CreateRun(r) \/ RefuseRun(r))
    <3>1. run[r].status = "absent"
      BY <1>0, <2>3 DEF AcquireRunStart, CreateRun, RefuseRun, At, RequestInv
    <3>2. QED
      BY <3>1 DEF Settled
  <2>4. CASE s = r /\ StartRun(r)
    <3>1. PICK p \in Readers : proc' = [proc EXCEPT ![r] = Finished, ![p] = Reader(r, "fresh")]
      BY <2>4 DEF StartRun
    <3>2. proc'[p].run = r /\ proc'[p].pc # "idle"
      BY <1>0, <3>1, KindsAreDisjoint, NewActivities
    <3>3. QED
      BY <3>2 DEF Covered
  <2>5. CASE s = r /\ DiscardRead(r)
    <3>1. proc[r].pc = "prepared"
      BY <2>5 DEF DiscardRead, At
    <3>2. run[r].status = "pending"
      BY <1>0, <3>1 DEF RequestInv, Settled
    <3>3. proc'[r].run = r
      BY <1>0, <2>5, <3>2, GotoMoves DEF DiscardRead
    <3>4. QED
      BY <1>1, <3>3
  <2>6. CASE s = r /\ DiscardDelete(r)
    <3>1. proc[r].pc = "discarding"
      BY <2>6 DEF DiscardDelete, At
    <3>2. run[r].status = "pending"
      BY <1>0, <3>1 DEF RequestInv, Settled
    <3>3. run'[r].status = "absent"
      BY <1>0, <2>6, <3>2 DEF DiscardDelete, DeletePendingRun, Absent
    <3>4. QED
      BY <3>3 DEF Settled
  <2>7. QED
    BY <2>1, <2>2, <2>3, <2>4, <2>5, <2>6 DEF Creation, AbandonRun
<1>3. CASE \E p \in Readers : Reading(p)
    BY <1>0, <1>1, <1>3, ReadingMoves, KindsAreDisjoint
<1>4. CASE \E p \in Procs : Closing(p)
    BY <1>0, <1>1, <1>4, ClosingMoves
<1>5. CASE \E c \in Cancels, s \in Runs : RequestCancel(c, s)
    BY <1>0, <1>1, <1>5, KindsAreDisjoint DEF RequestCancel, Cancellers
<1>6. CASE \E c \in Cancellers : Cancelling(c)
    BY <1>0, <1>1, <1>6, CancellingMoves
<1>7. CASE Reconciliation
    BY <1>0, <1>1, <1>7, ReconciliationMoves
<1>8. CASE \/ \E m \in Mutators : AcquireMutation(m) \/ ReleaseMutation(m)
           \/ \E s \in Runs : HermesSteps(s)
           \/ UNCHANGED vars
    BY <1>1, <1>8
    DEF AcquireMutation, ReleaseMutation, HermesSteps, HermesAsks, HermesEnds, HermesStops,
        HermesDropsEvents, HermesOnly, vars, processVars
<1>9. QED
    BY <1>2, <1>3, <1>4, <1>5, <1>6, <1>7, <1>8 DEF Next, Running, ConsoleStep

\* An orphan stays on the list until it is handled: a reader has it, or the
\* reconciliation takes it.
LEMMA ListCovers ==
    ASSUME WorkInv, Faults = {}, [Next]_vars, ~Crash, NEW r \in Runs, NEW b \in BOOLEAN,
           <<r, b>> \in todo, proc[Boot].pc # "list", ~Settled(r), ~Settled(r)'
    PROVE  Covered(r)'
<1>0. /\ IInv /\ ActivityInv /\ proc \in [Procs -> Activities] /\ Boot \in Procs
      /\ activeRuns \in [Runs -> Readers \union {NoReader}]
    BY KindsAreDisjoint DEF WorkInv, IInv, ActivityInv
<1>1. ASSUME UNCHANGED todo
      PROVE  Covered(r)'
    BY <1>1 DEF Covered
<1>2. CASE BootNext
  <2>1. PICK t \in todo :
            /\ todo' = todo \ {t}
            /\ IF activeRuns[t[1]] # NoReader
                 THEN UNCHANGED proc
                 ELSE \E activity \in Reconciled(t[1], t[2]) :
                        proc' = [proc EXCEPT ![Boot] = activity]
            /\ cancelAsked' = IF activeRuns[t[1]] = NoReader /\ t[1] \in Revoked
                                THEN cancelAsked \union {t[1]} ELSE cancelAsked
    BY <1>2 DEF BootNext
  <2>2. CASE t # <<r, b>>
    BY <2>1, <2>2 DEF Covered
  <2>3. CASE t = <<r, b>> /\ activeRuns[r] # NoReader
    <3>1. PICK q \in Readers : q = activeRuns[r]
      BY <1>0, <2>3
    <3>2. proc[q].pc # "idle" /\ proc[q].run = r
      BY <1>0, <2>3, <3>1 DEF ActivityInv, RegistrationIsAlive, At, RunOf
    <3>3. QED
      BY <2>1, <2>3, <3>2 DEF Covered
  <2>4. CASE t = <<r, b>> /\ activeRuns[r] = NoReader /\ r \in Revoked
    BY <2>1, <2>4 DEF Settled
  <2>5. CASE t = <<r, b>> /\ activeRuns[r] = NoReader /\ r \notin Revoked
    <3>1. PICK a \in Reconciled(r, b) : proc' = [proc EXCEPT ![Boot] = a]
      BY <2>1, <2>5
    <3>2. proc'[Boot] = a
      BY <1>0, <3>1
    <3>3. a.run = r /\ a.pc \in {"close_read", "probe"}
      BY <2>5 DEF Reconciled, Idle
    <3>4. QED
      BY <3>2, <3>3 DEF Covered, ClosePCs
  <2>6. QED
    BY <2>2, <2>3, <2>4, <2>5
<1>3. CASE Reconciliation /\ ~BootNext
    BY <1>1, <1>3 DEF Reconciliation, BootList, BootEnds, BootProbe, BootResume, Local, Keeps, At
<1>4. CASE \E s \in Runs : Creation(s)
    BY <1>1, <1>4 DEF Creation, AcquireRunStart, CreateRun, RefuseRun, StartRun, DiscardRead,
       DiscardDelete, AbandonRun, Keeps
<1>5. CASE \/ \E p \in Readers : Reading(p)
           \/ \E p \in Procs : Closing(p)
           \/ \E c \in Cancellers : Cancelling(c)
    BY <1>0, <1>1, <1>5, ReadingMoves, ClosingMoves, CancellingMoves
<1>6. CASE \/ \E c \in Cancels, s \in Runs : RequestCancel(c, s)
           \/ \E m \in Mutators : AcquireMutation(m) \/ ReleaseMutation(m)
           \/ \E s \in Runs : HermesSteps(s)
           \/ UNCHANGED vars
    BY <1>1, <1>6
    DEF RequestCancel, AcquireMutation, ReleaseMutation, HermesSteps, HermesAsks, HermesEnds,
        HermesStops, HermesDropsEvents, HermesOnly, vars, processVars
<1>7. QED
    BY <1>2, <1>3, <1>4, <1>5, <1>6 DEF Next, Running, ConsoleStep

\* The reconciliation leaves an orphan over, or to a reader.
LEMMA BootCovers ==
    ASSUME WorkInv, Faults = {}, [Next]_vars, ~Crash, NEW r \in Runs,
           proc[Boot].run = r, proc[Boot].pc \in ClosePCs \union {"probe", "resume"},
           ~Settled(r), ~Settled(r)'
    PROVE  Covered(r)'
<1>0. /\ IInv /\ ActivityInv /\ proc \in [Procs -> Activities] /\ Boot \in Procs
      /\ activeRuns \in [Runs -> Readers \union {NoReader}]
      /\ Boot \in Cancellers /\ Boot \notin Cancels
    BY KindsAreDisjoint, RunExecutionAssumption DEF WorkInv, IInv, ActivityInv
<1>1. ASSUME proc'[Boot].run = r, proc'[Boot].pc \in ClosePCs \union {"probe", "resume"}
      PROVE  Covered(r)'
    BY <1>1 DEF Covered
<1>2. CASE Reconciliation
  <2>1. BootProbe \/ BootResume
    BY <1>2 DEF Reconciliation, BootList, BootNext, BootEnds, At, ClosePCs
  <2>2. CASE Goto(Boot, "resume")
    BY <1>0, <1>1, <2>2, GotoMoves
  <2>3. ASSUME NEW outcome, GoClose(Boot, outcome, "next")
        PROVE  Covered(r)'
    BY <1>0, <1>1, <2>3, GoCloseMoves DEF ClosePCs
  <2>4. CASE BootResume /\ activeRuns[r] # NoReader /\ Returns(Boot)
    <3>1. PICK q \in Readers : q = activeRuns[r]
      BY <1>0, <2>4
    <3>2. proc[q].pc # "idle" /\ proc[q].run = r
      BY <1>0, <2>4, <3>1 DEF ActivityInv, RegistrationIsAlive, At, RunOf
    <3>3. proc'[q] = proc[q]
      BY <1>0, <2>4, KindsAreDisjoint DEF Returns
    <3>4. QED
      BY <3>2, <3>3 DEF Covered
  <2>5. CASE \E p \in Readers :
               proc' = [proc EXCEPT ![Boot] = Returned(Boot), ![p] = Reader(r, "reconciled")]
    <3>1. PICK p \in Readers :
             proc' = [proc EXCEPT ![Boot] = Returned(Boot), ![p] = Reader(r, "reconciled")]
      BY <2>5
    <3>2. proc'[p].run = r /\ proc'[p].pc # "idle"
      BY <1>0, <3>1, KindsAreDisjoint, NewActivities
    <3>3. QED
      BY <3>2 DEF Covered
  <2>6. QED
    BY <2>1, <2>2, <2>3, <2>4, <2>5 DEF BootProbe, BootResume, RunOf
<1>3. CASE \E p \in Procs : Closing(p)
  <2>1. PICK p \in Procs : Closing(p)
    BY <1>3
  <2>2. CASE p # Boot
    BY <1>0, <1>1, <2>1, <2>2, ClosingMoves
  <2>3. CASE p = Boot /\ At(Boot, "close_read")
    BY <1>0, <1>1, <2>1, <2>3, ClosingMoves
    DEF Settled, Exists, IsTerminal, TerminalStatuses, ClosePCs
  <2>4. CASE p = Boot /\ At(Boot, "close_write")
    <3>1. run'[r].status \in TerminalStatuses
      BY <1>0, <2>1, <2>4, ClosingMoves, ClosingWrites DEF Settled, Exists, At
    <3>2. QED
      BY <3>1 DEF Settled, TerminalStatuses
  <2>5. QED
    BY <1>0, <2>1, <2>2, <2>3, <2>4, ClosingMoves DEF ClosePCs, At
<1>4. CASE \E c \in Cancellers : Cancelling(c)
  <2>1. PICK c \in Cancellers : Cancelling(c)
    BY <1>4
  <2>2. proc'[Boot] = proc[Boot]
    BY <1>0, <2>1, CancellingMoves DEF ClosePCs
  <2>3. QED
    BY <1>1, <2>2
<1>5. CASE \E c \in Cancels, s \in Runs : RequestCancel(c, s)
    BY <1>0, <1>1, <1>5 DEF RequestCancel, Procs, Cancellers
<1>6. CASE \E s \in Runs : Creation(s)
  <2>1. PICK s \in Runs : Creation(s)
    BY <1>6
  <2>2. proc'[Boot] = proc[Boot]
    <3>1. CASE StartRun(s)
      BY <1>0, <3>1, KindsAreDisjoint DEF StartRun
    <3>2. CASE ~StartRun(s)
      BY <1>0, <2>1, <3>2, KindsAreDisjoint DEF Creation, AcquireRunStart, CreateRun, RefuseRun,
         DiscardRead, DiscardDelete, AbandonRun, Goto, Ends
    <3>3. QED
      BY <3>1, <3>2
  <2>3. QED
    BY <1>1, <2>2
<1>7. CASE \E p \in Readers : Reading(p)
    BY <1>0, <1>1, <1>7, ReadingMoves, KindsAreDisjoint
<1>8. CASE \/ \E m \in Mutators : AcquireMutation(m) \/ ReleaseMutation(m)
           \/ \E s \in Runs : HermesSteps(s)
           \/ UNCHANGED vars
    BY <1>1, <1>8
    DEF AcquireMutation, ReleaseMutation, HermesSteps, HermesAsks, HermesEnds, HermesStops,
        HermesDropsEvents, HermesOnly, vars, processVars
<1>9. QED
    BY <1>2, <1>3, <1>4, <1>5, <1>6, <1>7, <1>8 DEF Next, Running, ConsoleStep

\* A run that loses who covered it finds another, or is settled by that step.
LEMMA NextKeepsStrand ==
    ASSUME WorkInv, StrandInv, Faults = {}, [Next]_vars
    PROVE  StrandInv'
<1> SUFFICES ASSUME NEW r \in Runs, proc'[Boot].pc # "list", ~Settled(r)'
             PROVE  Covered(r)'
    BY DEF StrandInv
<1>0. /\ IInv /\ RequestInv /\ ActivityInv /\ proc \in [Procs -> Activities]
      /\ Boot \in Procs /\ Boot \in Cancellers /\ Boot \notin Cancels
      /\ run \in [Runs -> Rows]
    BY KindsAreDisjoint, RunExecutionAssumption
    DEF WorkInv, IInv, ActivityInv, DataInv, StoreTypeOK
<1>1. ~Crash
    BY <1>0, NewActivities DEF Crash, AfterCrash
<1>2. CASE BootList
  <2>1. run'[r].status \in {"pending", "starting", "running"} /\ run' = run
    BY <1>2 DEF BootList, Settled, storeVars
  <2>2. IsActive(r)
    BY <2>1 DEF IsActive, ActiveStatuses
  <2>3. run[r].submitted \in BOOLEAN /\ <<r, run[r].submitted>> \in todo'
    BY <1>0, <1>2, <2>2 DEF BootList, Rows
  <2>4. QED
    BY <2>3 DEF Covered
<1>3. CASE ~BootList
  <2>1. proc[Boot].pc # "list"
    <3>1. SUFFICES ASSUME proc[Boot].pc = "list", proc'[Boot] # proc[Boot]
                   PROVE  FALSE
      BY <3>1
    <3>2. CASE Reconciliation
      BY <1>3, <3>1, <3>2 DEF Reconciliation, BootNext, BootEnds, BootProbe, BootResume, At
    <3>3. CASE \/ \E p \in Procs : Closing(p)
               \/ \E c \in Cancellers : Cancelling(c)
      BY <1>0, <3>1, <3>3, ClosingMoves, CancellingMoves DEF ClosePCs
    <3>4. CASE \E c \in Cancels, s \in Runs : RequestCancel(c, s)
      BY <1>0, <3>1, <3>4 DEF RequestCancel
    <3>5. CASE \E s \in Runs : Creation(s)
      <4>1. PICK s \in Runs : Creation(s)
        BY <3>5
      <4>2. CASE StartRun(s)
        BY <1>0, <3>1, <4>2, KindsAreDisjoint DEF StartRun
      <4>3. CASE ~StartRun(s)
        BY <1>0, <3>1, <4>1, <4>3, KindsAreDisjoint DEF Creation, AcquireRunStart, CreateRun,
           RefuseRun, DiscardRead, DiscardDelete, AbandonRun, Goto, Ends
      <4>4. QED
        BY <4>2, <4>3
    <3>6. CASE \E p \in Readers : Reading(p)
      BY <1>0, <3>1, <3>6, ReadingMoves, KindsAreDisjoint
    <3>7. CASE \/ \E m \in Mutators : AcquireMutation(m) \/ ReleaseMutation(m)
               \/ \E s \in Runs : HermesSteps(s)
               \/ UNCHANGED vars
      BY <3>1, <3>7
      DEF AcquireMutation, ReleaseMutation, HermesSteps, HermesAsks, HermesEnds, HermesStops,
          HermesDropsEvents, HermesOnly, vars, processVars
    <3>8. QED
      BY <1>1, <3>2, <3>3, <3>4, <3>5, <3>6, <3>7 DEF Next, Running, ConsoleStep
  <2>2. CASE Settled(r)
    BY <1>0, <2>2, SettledStays DEF Covered
  <2>3. CASE ~Settled(r)
    <3>1. Covered(r)
      BY <2>1, <2>3 DEF StrandInv
    <3>2. QED
      BY <1>1, <2>1, <2>3, <3>1, ReaderCovers, RequestCovers, ListCovers, BootCovers DEF Covered
  <2>4. QED
    BY <2>2, <2>3
<1>4. QED
    BY <1>2, <1>3

\* The first boot has nothing to cover.
LEMMA CoveredInitially == Init => RequestInv /\ BootInv /\ EndsInv /\ StrandInv
<1> SUFFICES ASSUME Init PROVE RequestInv /\ BootInv /\ EndsInv /\ StrandInv
    OBVIOUS
<1>1. /\ \A p \in Procs : p # Boot => proc[p] = Idle
      /\ Boot \in Procs /\ proc[Boot].pc = "list" /\ todo = {}
    BY NewActivities, KindsAreDisjoint DEF Init
<1>2. \A r \in Runs : run[r].status = "absent" /\ ~run[r].submitted
    BY DEF Init, StoreInit, Absent
<1>3. \A p \in Runs \union Readers : proc[p].pc = "idle"
    BY <1>1, NewActivities, KindsAreDisjoint
<1>4. QED
    BY <1>1, <1>2, <1>3 DEF RequestInv, BootInv, EndsInv, EndsWell, EarlyPCs, StrandInv, ClosePCs

\* The conjunction is inductive where none of Faults happens.
LEMMA WorkIsInductive ==
    ASSUME Faults = {}
    PROVE  Spec => [](WorkInv /\ StrandInv)
<1>1. /\ IInv /\ WarrantInv /\ IInv' /\ WarrantInv'
      /\ RequestInv /\ BootInv /\ EndsInv /\ StrandInv
      /\ [Next]_vars
      => RequestInv' /\ BootInv' /\ EndsInv' /\ StrandInv'
    BY NextKeepsRequests, NextKeepsBoot, NextKeepsEnds, NextKeepsStrand DEF WorkInv
<1>2. Spec => [](RequestInv /\ BootInv /\ EndsInv /\ StrandInv)
    BY CoveredInitially, RunsAreInductive, WarrantsAreInductive, <1>1, PTL DEF Spec
<1>3. IInv /\ WarrantInv /\ RequestInv /\ BootInv /\ EndsInv => WorkInv
    BY DEF WorkInv
<1>4. QED
    BY <1>2, <1>3, RunsAreInductive, WarrantsAreInductive, PTL

\* A run that is neither over, nor waiting for a human, nor to be cancelled, is somebody's
\* work: its request hands it to a reader, a reader leaves a run that is settled, and the
\* reconciliation lists what a crash left before it takes, closes or resumes it.  It is so
\* while the database answers, a request does not fail between its commit and its start,
\* and a runtime is configured: with one of Faults the code does strand runs.
THEOREM NoRunIsStranded ==
    ASSUME Faults = {}
    PROVE  Spec => []NoStrandedRun
<1>1. ASSUME WorkInv, StrandInv
      PROVE  NoStrandedRun
  <2> SUFFICES ASSUME NEW r \in Runs, ~Settled(r), proc[Boot].pc = "finished"
               PROVE  \E p \in Procs : proc[p].run = r
    BY DEF NoStrandedRun, Attended, Settled, At, RunOf
  <2>1. Covered(r) /\ todo = {}
    BY <1>1 DEF StrandInv, WorkInv, BootInv
  <2>2. QED
    BY <2>1, KindsAreDisjoint DEF Covered, ClosePCs
<1>2. QED
    BY <1>1, WorkIsInductive, PTL

-----------------------------------------------------------------------------
(* The relay of a decision.  It reaches the demand it was taken for, once, and the
   record of a request agrees with it.

   The call to Hermes names the run only.  That it reaches the demand of the request
   rests on a chain: a claimed run has one owner (ClaimInv), a claimed request has one
   owner (OwnerInv), a request whose decision was relayed is never free again
   (DecidedInv), and Hermes raises a demand only after the one before was decided
   (DemandInv), so that the one request still free is that of the demand Hermes waits
   on. *)

\* The program counters of an approver between its claim of the run and the end of it.
RunOwnerPCs == ClaimingPCs \ {"back_request"}

\* Those of an approver whose claim of the request succeeded and is not settled.
UndecidedPCs == {"intent", "undo_request", "relay", "back_run", "back_request"}
OwnerPCs     == UndecidedPCs \union {"resolve"}

Owns(a, r, k) == approver[a].pc \in OwnerPCs /\ Target(a) = r /\ Asked(a) = k

ApproverInv ==
    /\ approver \in [Approvers -> Approver]
    /\ \A a \in Approvers :
         approver[a].pc # "idle" =>
             Target(a) \in Runs /\ Asked(a) \in Asks /\ approver[a].choice \in Choices

\* A run that nobody has submitted yet carries no claim.
NewRunIsFree == \A r \in Runs : run[r].status \in {"absent", "pending"} => run[r].claim = NoClaim

\* An approver that has claimed a run is the one its row names.
ClaimInv ==
    /\ \A a \in Approvers : approver[a].pc \in RunOwnerPCs => run[Target(a)].claim = a
    /\ NewRunIsFree

\* A request in the hands of an approver is claimed, and in those of one only.
OwnerInv ==
    /\ \A a \in Approvers :
         approver[a].pc \in OwnerPCs =>
             \/ approval[Target(a)][Asked(a)].state = "claimed"
             \/ Is(a, "back_request") /\ approval[Target(a)][Asked(a)].state = "expired"
    /\ \A a, b \in Approvers, r \in Runs, k \in Asks : Owns(a, r, k) /\ Owns(b, r, k) => a = b

\* A request whose decision was relayed is not free, and nobody is about to free it.
DecidedInv ==
    /\ decisions \subseteq Decision
    /\ \A d \in decisions :
         /\ approval[d.run][d.request].state \in {"claimed", "resolved", "expired"}
         /\ \A a \in Approvers :
              Owns(a, d.run, d.request) => approver[a].pc \notin UndecidedPCs
    /\ \A a \in Approvers :
         Is(a, "resolve") =>
             \E d \in decisions : /\ d.run = Target(a) /\ d.request = Asked(a)
                                  /\ d.choice = approver[a].choice
    /\ OneDecisionPerRequest
    /\ ResolvedAsDecided

Decided(r, k) == \E d \in decisions : d.run = r /\ d.request = k /\ d.demand = k

\* Every demand before the one Hermes waits on was decided, on its own request.
DemandInv ==
    /\ \A r \in Runs :
         /\ hermes[r].seen <= hermes[r].asks
         /\ hermes[r].state = "none" => hermes[r].asks = 0
         /\ hermes[r].state = "waiting" => hermes[r].asks # 0
         /\ \A k \in Asks : approval[r][k].state # "none" => k <= hermes[r].asks
         /\ \A k \in Asks :
              \/ k < hermes[r].asks
              \/ k = hermes[r].asks /\ hermes[r].state = "running"
              => Decided(r, k)
    /\ DecisionReachesItsDemand

RelayInv == IInv /\ ApproverInv /\ ClaimInv /\ OwnerInv /\ DecidedInv
                 /\ SubmissionInv /\ DemandInv

-----------------------------------------------------------------------------
(* What the steps of the runs leave to the relay *)

\* No claim is set or cleared.
ClaimsAreKept ==
    /\ \A r \in Runs : run'[r].claim = run[r].claim
    /\ NewRunIsFree => NewRunIsFree'

\* Requests are left alone, but for the one that is written when its demand arrives.
RequestsAreKept ==
    \A r \in Runs, k \in Asks :
        \/ approval'[r][k] = approval[r][k]
        \/ /\ approval[r][k].state = "none" /\ approval'[r][k].state = "pending"
           /\ k = hermes[r].seen /\ UNCHANGED hermes

\* A change of status keeps the claim of the row.
LEMMA SetStatusKeepsClaims ==
    ASSUME run \in [Runs -> Rows], NEW r \in Runs,
           NEW status \in Statuses \ {"absent", "pending"}, SetStatus(r, status)
    PROVE  ClaimsAreKept
<1>1. \A s \in Runs : /\ run'[s].claim = run[s].claim
                      /\ \/ run'[s] = run[s]
                         \/ run'[s].status = status
    BY DEF SetStatus, Update, Rows
<1>2. QED
    BY <1>1 DEF ClaimsAreKept, NewRunIsFree

\* A run is created and discarded without a claim.
LEMMA CreationKeepsClaims ==
    ASSUME IInv, NEW r \in Runs, Creation(r), NewRunIsFree
    PROVE  ClaimsAreKept
<1>0. run \in [Runs -> Rows]
    BY DEF IInv, DataInv, StoreTypeOK
<1>1. CASE UNCHANGED run
    BY <1>1 DEF ClaimsAreKept, NewRunIsFree
<1>2. CASE InsertRun(r) \/ DeletePendingRun(r)
  <2>1. run' = run \/ run' = [run EXCEPT ![r] = Pending] \/ run' = [run EXCEPT ![r] = Absent]
    BY <1>2 DEF InsertRun, DeletePendingRun
  <2>2. run' = run \/ run[r].claim = NoClaim
    BY <1>2 DEF InsertRun, DeletePendingRun, NewRunIsFree, Exists
  <2>3. QED
    BY <1>0, <2>1, <2>2 DEF ClaimsAreKept, NewRunIsFree, Pending, Absent
<1>3. QED
    BY <1>1, <1>2 DEF Creation, AcquireRunStart, CreateRun, RefuseRun, StartRun, DiscardRead,
       DiscardDelete, AbandonRun, storeVars

\* A reader changes statuses only.
LEMMA ReadingKeepsClaims ==
    ASSUME IInv, NEW p \in Readers, Reading(p)
    PROVE  ClaimsAreKept
<1> DEFINE r == proc[p].run
<1>0. run \in [Runs -> Rows] /\ (proc[p].pc # "idle" => r \in Runs)
    BY DEF IInv, DataInv, StoreTypeOK, ActivityInv, Shapes, ReaderShape
<1>1. CASE UNCHANGED run
    BY <1>1 DEF ClaimsAreKept, NewRunIsFree
<1>2. CASE MarkStarting(p) \/ MarkStarted(p) \/ AwaitingWrite(p)
  <2>1. r \in Runs
    BY <1>0, <1>2 DEF MarkStarting, MarkStarted, AwaitingWrite, At
  <2>2. UNCHANGED run \/ \E status \in {"starting", "running", "awaiting_approval"} :
                            SetStatus(r, status)
    BY <1>2 DEF MarkStarting, MarkStarted, AwaitingWrite, MarkRunStarting, MarkRunStarted,
                WriteAwaitingApproval, RunOf
  <2>3. QED
    BY <1>0, <1>1, <2>1, <2>2, SetStatusKeepsClaims DEF Statuses, ActiveStatuses
<1>3. CASE RecordSubmission(p)
  <2>1. r \in Runs
    BY <1>0, <1>3 DEF RecordSubmission, At
  <2>2. run' = run \/ run' = [run EXCEPT ![r] = [run[r] EXCEPT !.submitted = TRUE]]
    BY <1>3 DEF RecordSubmission, SetHermesResponseId, Update, RunOf
  <2>3. \A s \in Runs : run'[s].claim = run[s].claim /\ run'[s].status = run[s].status
    BY <1>0, <2>1, <2>2 DEF Rows
  <2>4. QED
    BY <2>3 DEF ClaimsAreKept, NewRunIsFree
<1>4. QED
    BY <1>1, <1>2, <1>3 DEF Reading, ReadContext, Submit, ReadStatus, Connect, ReceiveAsk,
       ReceiveEnd, StreamStops, InsertRequest, AwaitingRead, StreamEnded, HandleError,
       PollHermes, CheckAwaiting, ReaderLeaves, Local, storeVars

\* Only the relay sets or clears a claim.
LEMMA NextKeepsClaims ==
    ASSUME IInv, [Next]_vars, NewRunIsFree
    PROVE  ClaimsAreKept
<1>0. ASSUME UNCHANGED run PROVE ClaimsAreKept
    BY <1>0 DEF ClaimsAreKept, NewRunIsFree
<1>1. CASE \E r \in Runs : Creation(r)
    BY <1>1, CreationKeepsClaims
<1>2. CASE \E p \in Readers : Reading(p)
    BY <1>2, ReadingKeepsClaims
<1>3. CASE \E p \in Procs : Closing(p)
  <2>1. PICK p \in Procs : Closing(p)
    BY <1>3
  <2>2. CASE CloseRead(p)
    BY <1>0, <2>2 DEF CloseRead, Local, storeVars
  <2>3. CASE CloseWrite(p)
    <3>1. proc[p].run \in Runs /\ proc[p].outcome \in TerminalStatuses
      BY <2>3 DEF CloseWrite, At, IInv, ActivityInv, Shapes, RequestShape, ReaderShape,
                  CancellerShape, RequestPCs, ClosePCs, Procs
    <3>2. SetStatus(proc[p].run, proc[p].outcome)
      BY <2>3 DEF CloseWrite, WriteClosed, RunOf
    <3>3. QED
      BY <3>1, <3>2, SetStatusKeepsClaims
      DEF IInv, DataInv, StoreTypeOK, Statuses, TerminalStatuses
  <2>4. QED
    BY <2>1, <2>2, <2>3 DEF Closing
<1>4. CASE \/ \E c \in Cancels, r \in Runs : RequestCancel(c, r)
           \/ \E c \in Cancellers : Cancelling(c)
           \/ Reconciliation
    BY <1>0, <1>4
    DEF RequestCancel, Cancelling, CancelLookup, CancelLocally, CancelRemotely, Reconciliation,
        BootList, BootNext, BootEnds, BootProbe, BootResume, Local, storeVars
<1>5. CASE \/ \E m \in Mutators : AcquireMutation(m) \/ ReleaseMutation(m)
           \/ \E r \in Runs : HermesSteps(r)
           \/ Crash
           \/ UNCHANGED vars
    BY <1>0, <1>5
    DEF AcquireMutation, ReleaseMutation, HermesSteps, HermesAsks, HermesEnds, HermesStops,
        HermesDropsEvents, HermesOnly, Crash, vars, storeVars
<1>6. QED
    BY <1>1, <1>2, <1>3, <1>4, <1>5 DEF Next, Running, ConsoleStep

\* Only the relay touches a request, but for the reader that writes a new one.
LEMMA NextKeepsQuestions ==
    ASSUME IInv, [Next]_vars
    PROVE  RequestsAreKept
<1>1. CASE UNCHANGED approval
    BY <1>1 DEF RequestsAreKept
<1>2. ASSUME NEW p \in Readers, InsertRequest(p) PROVE RequestsAreKept
  <2> DEFINE s == proc[p].run  j == hermes[s].seen
  <2>1. s \in Runs /\ approval \in [Runs -> [Asks -> Requests]] /\ UNCHANGED hermes
    BY <1>2 DEF InsertRequest, At, IInv, DataInv, StoreTypeOK, ActivityInv, Shapes, ReaderShape
  <2>2. \/ UNCHANGED approval
        \/ /\ approval[s][j].state = "none"
           /\ approval' = [approval EXCEPT ![s][j] = Request("pending")]
    BY <1>2 DEF InsertRequest, PersistApprovalRequest, CanPersistApprovalRequest, SetRequest, RunOf
  <2> HIDE DEF j
  <2>3. ASSUME NEW r \in Runs, NEW k \in Asks,
               approval' = [approval EXCEPT ![s][j] = Request("pending")]
        PROVE  \/ approval'[r][k] = approval[r][k]
               \/ r = s /\ k = j /\ approval'[r][k] = Request("pending")
    BY <2>1, <2>3
  <2>4. QED
    BY <1>1, <2>1, <2>2, <2>3 DEF RequestsAreKept, Request, j
<1>3. CASE \E p \in Readers : Reading(p)
    BY <1>1, <1>2, <1>3 DEF Reading, ReadContext, MarkStarting, Submit, RecordSubmission,
       ReadStatus, Connect, MarkStarted, ReceiveAsk, ReceiveEnd, StreamStops, AwaitingRead,
       AwaitingWrite, StreamEnded, HandleError, PollHermes, CheckAwaiting, ReaderLeaves, Local,
       storeVars
<1>4. CASE \E r \in Runs : Creation(r)
    BY <1>1, <1>4 DEF Creation, AcquireRunStart, CreateRun, RefuseRun, StartRun, DiscardRead,
       DiscardDelete, AbandonRun, storeVars
<1>5. CASE \/ \E p \in Procs : Closing(p)
           \/ \E c \in Cancels, r \in Runs : RequestCancel(c, r)
           \/ \E c \in Cancellers : Cancelling(c)
           \/ Reconciliation
    BY <1>1, <1>5
    DEF Closing, CloseRead, CloseWrite, RequestCancel, Cancelling, CancelLookup, CancelLocally,
        CancelRemotely, Reconciliation, BootList, BootNext, BootEnds, BootProbe, BootResume,
        Local, storeVars
<1>6. CASE \/ \E m \in Mutators : AcquireMutation(m) \/ ReleaseMutation(m)
           \/ \E r \in Runs : HermesSteps(r)
           \/ Crash
           \/ UNCHANGED vars
    BY <1>1, <1>6
    DEF AcquireMutation, ReleaseMutation, HermesSteps, HermesAsks, HermesEnds, HermesStops,
        HermesDropsEvents, HermesOnly, Crash, vars, storeVars
<1>7. QED
    BY <1>3, <1>4, <1>5, <1>6 DEF Next, Running, ConsoleStep

-----------------------------------------------------------------------------
(* The invariants of the relay while the runs move *)

\* No approver moves, but for those whose call a crash has ended.
ApproversRest ==
    \A a \in Approvers :
        approver'[a] = approver[a] \/ approver'[a].pc \in {"idle", "failed", "answered"}

\* A claimed or decided request is left alone.
LEMMA RunsKeepRequests ==
    ASSUME OwnerInv, DecidedInv, ApproverInv, ApproversRest, RequestsAreKept, UNCHANGED decisions
    PROVE  OwnerInv' /\ DecidedInv'
<1>0. \A a \in Approvers :
         approver'[a].pc \in OwnerPCs =>
             approver'[a] = approver[a] /\ Target(a) \in Runs /\ Asked(a) \in Asks
    BY DEF ApproversRest, OwnerPCs, UndecidedPCs, ApproverInv
<1>1. \A r \in Runs, k \in Asks :
         /\ approval[r][k].state # "none" => approval'[r][k] = approval[r][k]
         /\ approval'[r][k].state \notin {"none", "pending"} => approval'[r][k] = approval[r][k]
    BY DEF RequestsAreKept
<1>2. OwnerInv'
  <2>1. ASSUME NEW a \in Approvers, approver'[a].pc \in OwnerPCs
        PROVE  \/ approval'[approver'[a].run][approver'[a].request].state = "claimed"
               \/ /\ approver'[a].pc = "back_request"
                  /\ approval'[approver'[a].run][approver'[a].request].state = "expired"
    BY <1>0, <1>1, <2>1 DEF OwnerInv, Is, Target, Asked
  <2>2. \A a, b \in Approvers, r \in Runs, k \in Asks :
            Owns(a, r, k)' /\ Owns(b, r, k)' => a = b
    BY <1>0 DEF OwnerInv, Owns, Target, Asked
  <2>3. QED
    BY <2>1, <2>2 DEF OwnerInv, Is, Target, Asked
<1>3. DecidedInv'
  <2>1. decisions \subseteq Decision /\ \A d \in decisions : d.run \in Runs /\ d.request \in Asks
    BY DEF DecidedInv, Decision
  <2>2. ASSUME NEW d \in decisions
        PROVE  /\ approval'[d.run][d.request].state \in {"claimed", "resolved", "expired"}
               /\ \A a \in Approvers :
                     Owns(a, d.run, d.request)' => approver'[a].pc \notin UndecidedPCs
    BY <1>0, <1>1, <2>1 DEF DecidedInv, Owns, Target, Asked
  <2>3. ASSUME NEW a \in Approvers, approver'[a].pc = "resolve"
        PROVE  \E d \in decisions : /\ d.run = approver'[a].run /\ d.request = approver'[a].request
                                    /\ d.choice = approver'[a].choice
    BY <1>0, <2>3 DEF DecidedInv, OwnerPCs, Is, Target, Asked
  <2>4. OneDecisionPerRequest' /\ ResolvedAsDecided'
    BY <1>1 DEF DecidedInv, OneDecisionPerRequest, ResolvedAsDecided
  <2>5. QED
    BY <2>1, <2>2, <2>3, <2>4 DEF DecidedInv, Is, Target, Asked
<1>4. QED
    BY <1>2, <1>3

\* So is the claim of a run.
LEMMA RunsKeepClaims ==
    ASSUME ClaimInv, ApproverInv, ApproversRest, ClaimsAreKept
    PROVE  ClaimInv'
<1>1. ASSUME NEW a \in Approvers, approver'[a].pc \in RunOwnerPCs
      PROVE  run'[approver'[a].run].claim = a
  <2>1. approver'[a] = approver[a] /\ Target(a) \in Runs
    BY <1>1 DEF ApproversRest, RunOwnerPCs, ClaimingPCs, ApproverInv
  <2>2. QED
    BY <1>1, <2>1 DEF ClaimInv, ClaimsAreKept, Target
<1>2. QED
    BY <1>1 DEF ClaimInv, ClaimsAreKept, Target

\* A new demand comes after the one before was decided.
LEMMA RunsKeepDemands ==
    ASSUME IInv, DemandInv, UNCHANGED decisions, RequestsAreKept,
           \A r \in Runs : HermesMoves(r)
    PROVE  DemandInv'
<1>1. ASSUME NEW r \in Runs
      PROVE  /\ hermes'[r].seen <= hermes'[r].asks
             /\ hermes'[r].state = "none" => hermes'[r].asks = 0
             /\ hermes'[r].state = "waiting" => hermes'[r].asks # 0
             /\ \A k \in Asks : approval'[r][k].state # "none" => k <= hermes'[r].asks
             /\ \A k \in Asks :
                  \/ k < hermes'[r].asks
                  \/ k = hermes'[r].asks /\ hermes'[r].state = "running"
                  => Decided(r, k)'
  <2>0. /\ hermes[r].asks \in Nat /\ hermes[r].seen \in Nat
        /\ \A k \in Asks : k \in Nat /\ k # 0
    BY DEF IInv, DataInv, HermesRuns, Asks
  <2>1. /\ hermes'[r].seen <= hermes'[r].asks
        /\ hermes'[r].state = "none" => hermes'[r].asks = 0
        /\ hermes'[r].state = "waiting" => hermes'[r].asks # 0
        /\ hermes[r].asks <= hermes'[r].asks
        /\ hermes'[r].asks \in Nat
    BY <2>0 DEF DemandInv, HermesMoves, TerminalStatuses
  <2>2. ASSUME NEW k \in Asks, approval'[r][k].state # "none"
        PROVE  k <= hermes'[r].asks
    <3>1. CASE approval[r][k].state # "none"
      BY <2>0, <2>1, <3>1 DEF DemandInv
    <3>2. CASE approval[r][k].state = "none"
      BY <2>0, <2>1, <2>2, <3>2 DEF DemandInv, RequestsAreKept
    <3>3. QED
      BY <3>1, <3>2
  <2>3. ASSUME NEW k \in Asks,
               k < hermes'[r].asks \/ (k = hermes'[r].asks /\ hermes'[r].state = "running")
        PROVE  Decided(r, k)
    BY <2>0, <2>3 DEF DemandInv, HermesMoves, TerminalStatuses
  <2>4. QED
    BY <2>1, <2>2, <2>3 DEF Decided
<1>2. QED
    BY <1>1 DEF DemandInv, DecisionReachesItsDemand

\* A step of the runs, during which approvers at most lose their call.
LEMMA RunsKeepTheRelay ==
    ASSUME RelayInv, Next, ApproverInv', ApproversRest, UNCHANGED decisions
    PROVE  RelayInv'
<1>1. ClaimsAreKept /\ RequestsAreKept
    BY NextKeepsClaims, NextKeepsQuestions DEF RelayInv, ClaimInv
<1>2. \A r \in Runs : HermesMoves(r)
    BY NextMovesHermes DEF RelayInv
<1>3. IInv'
    BY NextKeepsActivities, NextKeepsData DEF RelayInv, IInv
<1>4. QED
    BY <1>1, <1>2, <1>3, RunsKeepRequests, RunsKeepClaims, RunsKeepDemands, NextKeepsSubmission
    DEF RelayInv

-----------------------------------------------------------------------------
(* The steps of the relay *)

\* An approver goes from one await to another.
LEMMA ApproverMoves ==
    ASSUME ApproverInv, NEW a \in Approvers, approver[a].pc # "idle",
           NEW pc \in ApproverPCs, Moves(a, pc)
    PROVE  /\ ApproverInv'
           /\ approver'[a].pc = pc
           /\ approver'[a].run = Target(a) /\ approver'[a].request = Asked(a)
           /\ approver'[a].choice = approver[a].choice
           /\ \A b \in Approvers : b # a => approver'[b] = approver[b]
<1>1. /\ approver'[a] = [approver[a] EXCEPT !.pc = pc] /\ approver[a] \in Approver
      /\ approver' \in [Approvers -> Approver]
      /\ \A b \in Approvers : b # a => approver'[b] = approver[b]
    BY DEF ApproverInv, Moves, Approver
<1>2. /\ approver'[a].pc = pc
      /\ approver'[a].run = Target(a) /\ approver'[a].request = Asked(a)
      /\ approver'[a].choice = approver[a].choice
    BY <1>1 DEF Approver, Target, Asked
<1>3. ApproverInv'
    BY <1>1, <1>2 DEF ApproverInv, Target, Asked
<1>4. QED
    BY <1>1, <1>2, <1>3

\* Where each step takes its approver.
AfterRelaying(a, pc) ==
    \/ approver[a].pc = "idle"         /\ pc = "claim"
    \/ approver[a].pc = "claim"        /\ pc \in {"request", "failed"}
    \/ approver[a].pc = "request"      /\ pc \in {"intent", "undo_run"}
    \/ approver[a].pc = "intent"       /\ pc \in {"relay", "undo_request"}
    \/ approver[a].pc = "undo_request" /\ pc \in {"undo_run", "failed"}
    \/ approver[a].pc = "undo_run"     /\ pc = "failed"
    \/ approver[a].pc = "relay"        /\ pc \in {"resolve", "back_run", "failed"}
    \/ approver[a].pc = "back_run"     /\ pc = "back_request"
    \/ approver[a].pc = "back_request" /\ pc = "failed"
    \/ approver[a].pc = "resolve"      /\ pc \in {"audit", "failed"}
    \/ approver[a].pc = "audit"        /\ pc \in {"finalize", "failed"}
    \/ approver[a].pc = "finalize"     /\ pc = "resume"
    \/ approver[a].pc = "resume"       /\ pc \in {"answered", "failed"}

\* Every step of an approver moves it alone, and keeps what it was called with.
LEMMA RelayingMoves ==
    ASSUME ApproverInv, NEW a \in Approvers, Relaying(a)
    PROVE  /\ ApproverInv'
           /\ AfterRelaying(a, approver'[a].pc)
           /\ approver[a].pc # "idle" =>
                 /\ Target(a) \in Runs /\ Asked(a) \in Asks /\ approver[a].choice \in Choices
                 /\ approver'[a].run = Target(a) /\ approver'[a].request = Asked(a)
                 /\ approver'[a].choice = approver[a].choice
           /\ \A b \in Approvers : b # a => approver'[b] = approver[b]
<1>1. CASE Lookup(a)
  <2>1. PICK r \in Runs, k \in Asks, choice \in Choices :
            approver' = [approver EXCEPT ![a] =
                            [pc |-> "claim", run |-> r, request |-> k, choice |-> choice]]
    BY <1>1 DEF Lookup
  <2> DEFINE new == [pc |-> "claim", run |-> r, request |-> k, choice |-> choice]
  <2>2. /\ new \in Approver /\ new.pc = "claim" /\ new.run = r /\ new.request = k
        /\ new.choice = choice
    BY DEF Approver, ApproverPCs
  <2>3. approver' = [approver EXCEPT ![a] = new] /\ approver[a].pc = "idle"
    BY <1>1, <2>1 DEF Lookup, Is
  <2> HIDE DEF new
  <2>4. /\ approver' \in [Approvers -> Approver] /\ approver'[a] = new
        /\ \A b \in Approvers : b # a => approver'[b] = approver[b]
    BY <2>2, <2>3 DEF ApproverInv
  <2>5. QED
    BY <2>2, <2>3, <2>4 DEF ApproverInv, AfterRelaying, Target, Asked
<1>2. CASE ~Lookup(a)
  <2>1. approver[a].pc # "idle" /\ \E pc \in ApproverPCs : AfterRelaying(a, pc) /\ Moves(a, pc)
    BY <1>2 DEF Relaying, ClaimRun, ClaimRequest, WriteIntent, UndoRequest, UndoRun,
       RelayAccepted, RelayFailed, AfterRelayError, BackRun, BackRequest, Resolve, WriteOutcome,
       Finalize, Resume, Is, AfterRelaying, ApproverPCs, ClaimingPCs
  <2>2. QED
    BY <2>1, ApproverMoves DEF ApproverInv
<1>3. QED
    BY <1>1, <1>2

\* An approver writes the claim of a run only when the run is free, and clears only
\* its own.
LEMMA RelayKeepsClaims ==
    ASSUME RelayInv, NEW a \in Approvers, Relaying(a)
    PROVE  ClaimInv'
<1> USE DEF RunOwnerPCs, ClaimingPCs
<1> DEFINE r == Target(a)
<1>0. /\ ApproverInv /\ ClaimInv /\ run \in [Runs -> Rows]
      /\ NoClaim \notin Approvers /\ Claims = Approvers
    BY RunStoreAssumption, ApprovalRelayAssumption
    DEF RelayInv, IInv, DataInv, StoreTypeOK
<1>1. /\ AfterRelaying(a, approver'[a].pc)
      /\ approver[a].pc # "idle" => r \in Runs /\ approver'[a].run = r
      /\ \A b \in Approvers : b # a => approver'[b] = approver[b]
    BY <1>0, RelayingMoves
<1>2. \A b \in Approvers : approver[b].pc \in RunOwnerPCs => Target(b) \in Runs
    BY <1>0 DEF ApproverInv
<1>3. CASE UNCHANGED run /\ ~ClaimRun(a)
  <2>1. approver'[a].pc \in RunOwnerPCs => approver[a].pc \in RunOwnerPCs
    BY <1>1, <1>3 DEF AfterRelaying, Relaying, Lookup, ClaimRequest, WriteIntent, UndoRequest,
       UndoRun, RelayAccepted, RelayFailed, BackRun, BackRequest, Resolve, WriteOutcome,
       Finalize, Resume, Is
  <2>2. QED
    BY <1>0, <1>1, <1>2, <1>3, <2>1 DEF ClaimInv, NewRunIsFree, Target
<1>4. CASE ClaimRun(a)
  <2>1. approver[a].pc = "claim" /\ r \in Runs
    BY <1>1, <1>4 DEF ClaimRun, Is
  <2>2. \/ run' = run
        \/ /\ run[r].claim = NoClaim
           /\ run' = [run EXCEPT ![r] = [run[r] EXCEPT !.status = "running", !.claim = a]]
    BY <1>4 DEF ClaimRun, ClaimRunApproval, Update
  <2>3. approver'[a].pc \in RunOwnerPCs => run'[r].claim = a
    BY <1>0, <1>4, <2>1, ApproverMoves DEF ClaimRun, ApproverPCs
  <2>4. \/ run' = run
        \/ /\ run[r].claim = NoClaim
           /\ run'[r].status = "running"
           /\ \A s \in Runs : s # r => run'[s] = run[s]
    BY <1>0, <2>1, <2>2 DEF Rows
  <2> HIDE DEF r
  <2>5. \A b \in Approvers : b # a /\ approver[b].pc \in RunOwnerPCs =>
                                run'[Target(b)].claim = b
    BY <1>0, <1>2, <2>1, <2>4 DEF ClaimInv
  <2>6. \A b \in Approvers : approver'[b].pc \in RunOwnerPCs => run'[approver'[b].run].claim = b
    BY <1>1, <2>1, <2>3, <2>5 DEF Target
  <2>7. NewRunIsFree'
    BY <1>0, <2>1, <2>4 DEF ClaimInv, NewRunIsFree
  <2>8. QED
    BY <2>6, <2>7 DEF ClaimInv, Target
<1>5. CASE UndoRun(a) \/ BackRun(a) \/ Finalize(a)
  <2>1. /\ approver[a].pc \in {"undo_run", "back_run", "finalize"} /\ r \in Runs
        /\ approver'[a].pc \notin RunOwnerPCs
    BY <1>1, <1>5 DEF UndoRun, BackRun, Finalize, Is, AfterRelaying
  <2>2. \/ run' = run
        \/ /\ run[r].claim = a
           /\ \E status \in {run[r].status, "awaiting_approval"} :
                run' = [run EXCEPT ![r] = [run[r] EXCEPT !.status = status, !.claim = NoClaim]]
    BY <1>0, <1>5, <2>1 DEF UndoRun, BackRun, Finalize, ReleaseRunApprovalClaim,
       FinalizeRunApprovalClaim, Update, OwnsClaim, Rows
  <2>3. \/ run' = run
        \/ /\ run[r].claim = a /\ run'[r].claim = NoClaim
           /\ \A s \in Runs : s # r => run'[s] = run[s]
    BY <1>0, <2>1, <2>2 DEF Rows
  <2> HIDE DEF r
  <2>4. \A b \in Approvers : b # a /\ approver[b].pc \in RunOwnerPCs =>
                                run'[Target(b)].claim = b
    BY <1>0, <1>2, <2>1, <2>3 DEF ClaimInv
  <2>5. NewRunIsFree'
    BY <1>0, <2>1, <2>3 DEF ClaimInv, NewRunIsFree
  <2>6. QED
    BY <1>1, <2>1, <2>4, <2>5 DEF ClaimInv, Target
<1>6. QED
    BY <1>3, <1>4, <1>5 DEF Relaying, Lookup, ClaimRequest, WriteIntent, UndoRequest,
       RelayAccepted, RelayFailed, BackRequest, Resolve, WriteOutcome, Resume, storeVars

\* A step that leaves the requests alone, and whose approver neither takes one nor
\* comes to resolve it.
LEMMA QuietStepKeepsRequests ==
    ASSUME RelayInv, NEW a \in Approvers, Relaying(a), UNCHANGED <<approval, decisions>>,
           approver'[a].pc # "resolve",
           approver'[a].pc \in UndecidedPCs =>
               approver[a].pc \in UndecidedPCs \ {"back_request"}
    PROVE  OwnerInv' /\ DecidedInv'
<1> USE DEF OwnerPCs, UndecidedPCs
<1>0. ApproverInv /\ OwnerInv /\ DecidedInv
    BY DEF RelayInv
<1>1. /\ approver'[a].pc \in OwnerPCs =>
            /\ approver[a].pc \in UndecidedPCs \ {"back_request"}
            /\ approver'[a].run = Target(a) /\ approver'[a].request = Asked(a)
      /\ \A b \in Approvers : b # a => approver'[b] = approver[b]
    BY <1>0, RelayingMoves
<1>2. \A b \in Approvers, r \in Runs, k \in Asks : Owns(b, r, k)' => Owns(b, r, k)
    BY <1>1 DEF Owns, Target, Asked
<1>3. OwnerInv'
    BY <1>0, <1>1, <1>2 DEF OwnerInv, Is, Target, Asked
<1>4. \A d \in decisions : d.run \in Runs /\ d.request \in Asks
    BY <1>0 DEF DecidedInv, Decision
<1>5. \A d \in decisions, b \in Approvers :
          Owns(b, d.run, d.request)' => approver'[b].pc \notin UndecidedPCs
    BY <1>0, <1>1, <1>2, <1>4 DEF DecidedInv, Owns, Target, Asked
<1>6. \A b \in Approvers : approver'[b].pc = "resolve" => approver'[b] = approver[b]
    BY <1>1
<1>7. DecidedInv'
    BY <1>0, <1>5, <1>6
    DEF DecidedInv, OneDecisionPerRequest, ResolvedAsDecided, Is, Target, Asked
<1>8. QED
    BY <1>3, <1>7

\* What the owner of a request may count on: nobody else owns it, and nothing was
\* relayed for it while its owner has not relayed anything.
LEMMA OwnerIsAlone ==
    ASSUME RelayInv, NEW a \in Approvers, approver[a].pc \in OwnerPCs
    PROVE  /\ Target(a) \in Runs /\ Asked(a) \in Asks
           /\ \/ approval[Target(a)][Asked(a)].state = "claimed"
              \/ /\ approver[a].pc = "back_request"
                 /\ approval[Target(a)][Asked(a)].state = "expired"
           /\ \A b \in Approvers : Owns(b, Target(a), Asked(a)) => b = a
           /\ approver[a].pc \in UndecidedPCs =>
                 \A d \in decisions : ~(d.run = Target(a) /\ d.request = Asked(a))
<1>1. Target(a) \in Runs /\ Asked(a) \in Asks
    BY DEF RelayInv, ApproverInv, OwnerPCs, UndecidedPCs
<1>2. Owns(a, Target(a), Asked(a))
    BY DEF Owns
<1>3. QED
    BY <1>1, <1>2 DEF RelayInv, OwnerInv, DecidedInv, Is

\* The owner of a request gives it up, and leaves it in another state.
LEMMA OwnerGivesUp ==
    ASSUME RelayInv, NEW a \in Approvers, Relaying(a), UNCHANGED decisions,
           approver[a].pc \in OwnerPCs, approver'[a].pc \notin OwnerPCs,
           NEW request \in Requests,
           approval' = [approval EXCEPT ![Target(a)][Asked(a)] = request],
           approver[a].pc = "resolve" => request.state \in {"claimed", "resolved", "expired"},
           request.state = "resolved" =>
               \/ request = approval[Target(a)][Asked(a)]
               \/ approver[a].pc = "resolve" /\ request.outcome = approver[a].choice
    PROVE  OwnerInv' /\ DecidedInv'
<1> DEFINE r == Target(a)  k == Asked(a)
<1>0. ApproverInv /\ OwnerInv /\ DecidedInv /\ approval \in [Runs -> [Asks -> Requests]]
    BY DEF RelayInv, IInv, DataInv, StoreTypeOK
<1>1. /\ r \in Runs /\ k \in Asks
      /\ \A b \in Approvers : Owns(b, r, k) => b = a
      /\ approver[a].pc \in UndecidedPCs => \A d \in decisions : ~(d.run = r /\ d.request = k)
    BY OwnerIsAlone
<1>2. \A b \in Approvers : b # a => approver'[b] = approver[b]
    BY <1>0, RelayingMoves
<1> HIDE DEF r, k
<1>3. /\ approval'[r][k] = request
      /\ \A s \in Runs, j \in Asks : s # r \/ j # k => approval'[s][j] = approval[s][j]
    BY <1>0, <1>1 DEF r, k
<1>4. \A b \in Approvers : approver[b].pc \in OwnerPCs => Target(b) \in Runs /\ Asked(b) \in Asks
    BY <1>0 DEF ApproverInv, OwnerPCs, UndecidedPCs
<1>5. \A b \in Approvers :
          approver'[b].pc \in OwnerPCs =>
              /\ b # a /\ approver'[b] = approver[b]
              /\ approval'[Target(b)][Asked(b)] = approval[Target(b)][Asked(b)]
    BY <1>1, <1>2, <1>3, <1>4 DEF Owns
<1>6. OwnerInv'
    BY <1>0, <1>5 DEF OwnerInv, Is, Owns, Target, Asked
<1>7. \A d \in decisions : d.run \in Runs /\ d.request \in Asks
    BY <1>0 DEF DecidedInv, Decision
<1>8. \A d \in decisions : approval'[d.run][d.request].state \in {"claimed", "resolved", "expired"}
    BY <1>0, <1>1, <1>3, <1>7 DEF DecidedInv, OwnerPCs
<1>9. \A d \in decisions, b \in Approvers :
          Owns(b, d.run, d.request)' => approver'[b].pc \notin UndecidedPCs
    BY <1>0, <1>5 DEF DecidedInv, Owns, Target, Asked
<1>10. \A b \in Approvers : approver'[b].pc = "resolve" => approver'[b] = approver[b]
    BY <1>5 DEF OwnerPCs
<1>11. ResolvedAsDecided'
  <2> SUFFICES ASSUME NEW s \in Runs, NEW j \in Asks, approval'[s][j].state = "resolved"
               PROVE  \E d \in decisions : /\ d.run = s /\ d.request = j
                                           /\ d.choice = approval'[s][j].outcome
    BY DEF ResolvedAsDecided
  <2>1. CASE approval'[s][j] = approval[s][j]
    BY <1>0, <2>1 DEF DecidedInv, ResolvedAsDecided
  <2>2. CASE s = r /\ j = k /\ approver[a].pc = "resolve" /\ request.outcome = approver[a].choice
    BY <1>0, <1>3, <2>2 DEF DecidedInv, Is, r, k
  <2>3. QED
    BY <1>3, <2>1, <2>2 DEF r, k
<1>12. DecidedInv'
    BY <1>0, <1>8, <1>9, <1>10, <1>11 DEF DecidedInv, OneDecisionPerRequest, Is, Target, Asked
<1>13. QED
    BY <1>6, <1>12

\* The decision of the owner of a request is the first for it.
LEMMA AcceptedKeepsRequests ==
    ASSUME RelayInv, NEW a \in Approvers, RelayAccepted(a)
    PROVE  OwnerInv' /\ DecidedInv'
<1> USE DEF OwnerPCs, UndecidedPCs
<1> DEFINE r == Target(a)  k == Asked(a)
           d0 == [run |-> r, demand |-> hermes[r].asks, request |-> k,
                  choice |-> approver[a].choice, by |-> a]
<1>0. ApproverInv /\ OwnerInv /\ DecidedInv /\ hermes \in [Runs -> HermesRuns]
    BY DEF RelayInv, IInv, DataInv
<1>1. /\ approver[a].pc = "relay"
      /\ approver'[a].pc \in {"resolve", "failed"}
      /\ approver[a].choice \in Choices
      /\ approver'[a].run = r /\ approver'[a].request = k
      /\ approver'[a].choice = approver[a].choice
      /\ \A b \in Approvers : b # a => approver'[b] = approver[b]
  <2>1. approver[a].pc = "relay" /\ (Moves(a, "resolve") \/ Moves(a, "failed"))
    BY DEF RelayAccepted, AfterRelayError, Is
  <2>2. approver'[a].pc \in {"resolve", "failed"}
    BY <1>0, <2>1, ApproverMoves DEF ApproverPCs, ClaimingPCs
  <2>3. QED
    BY <1>0, <2>1, <2>2, RelayingMoves DEF Relaying
<1>2. /\ r \in Runs /\ k \in Asks
      /\ approval[r][k].state = "claimed"
      /\ \A b \in Approvers : Owns(b, r, k) => b = a
      /\ \A d \in decisions : ~(d.run = r /\ d.request = k)
    BY <1>1, OwnerIsAlone
<1>3. decisions' = decisions \union {d0} /\ UNCHANGED approval /\ hermes[r].state = "waiting"
    BY DEF RelayAccepted, storeVars
<1>4. d0 \in Decision /\ d0.run = r /\ d0.request = k /\ d0.choice = approver[a].choice
  <2>1. hermes[r].asks # 0 /\ hermes[r].asks \in 0..MaxAsks
    BY <1>0, <1>2, <1>3 DEF RelayInv, DemandInv, HermesRuns
  <2>2. hermes[r].asks \in Asks
    BY <2>1, RunStoreAssumption DEF Asks
  <2>3. QED
    BY <1>1, <1>2, <2>2 DEF Decision
<1> HIDE DEF r, k, d0
<1>5. \A b \in Approvers : approver'[b].pc \in OwnerPCs =>
          /\ approver[b].pc \in OwnerPCs
          /\ approver'[b].run = Target(b) /\ approver'[b].request = Asked(b)
          /\ approver'[b].pc # "resolve" => b # a /\ approver'[b] = approver[b]
    BY <1>1 DEF Target, Asked, r, k
<1>6. OwnerInv'
    BY <1>0, <1>1, <1>2, <1>3, <1>5 DEF OwnerInv, Owns, Is, Target, Asked, r, k
<1>7. /\ \A d \in decisions' : approval'[d.run][d.request].state \in {"claimed", "resolved", "expired"}
      /\ OneDecisionPerRequest'
      /\ ResolvedAsDecided'
    BY <1>0, <1>2, <1>3, <1>4 DEF DecidedInv, OneDecisionPerRequest, ResolvedAsDecided
<1>8. ASSUME NEW d \in decisions', NEW b \in Approvers, Owns(b, d.run, d.request)'
      PROVE  approver'[b].pc \notin UndecidedPCs
  <2>1. approver'[b].pc = "resolve" \/ (b # a /\ approver'[b] = approver[b])
    BY <1>5, <1>8 DEF Owns
  <2>2. CASE b # a /\ approver'[b] = approver[b]
    <3>1. Owns(b, d.run, d.request)
      BY <1>8, <2>2 DEF Owns, Target, Asked
    <3>2. d \in decisions
      BY <1>2, <1>3, <1>4, <2>2, <3>1
    <3>3. QED
      BY <1>0, <2>2, <3>1, <3>2 DEF DecidedInv
  <2>3. QED
    BY <2>1, <2>2
<1>9. ASSUME NEW b \in Approvers, approver'[b].pc = "resolve"
      PROVE  \E d \in decisions' : /\ d.run = approver'[b].run /\ d.request = approver'[b].request
                                   /\ d.choice = approver'[b].choice
  <2>1. CASE b = a
    BY <1>1, <1>3, <1>4, <2>1 DEF r, k
  <2>2. CASE b # a
    BY <1>0, <1>1, <1>3, <1>9, <2>2 DEF DecidedInv, Is, Target, Asked
  <2>3. QED
    BY <2>1, <2>2
<1>10. DecidedInv'
    BY <1>0, <1>3, <1>4, <1>7, <1>8, <1>9 DEF DecidedInv, Is, Target, Asked
<1>11. QED
    BY <1>6, <1>10

\* A request is claimed only when it is pending, hence free and not decided.
LEMMA ClaimingKeepsRequests ==
    ASSUME RelayInv, NEW a \in Approvers, ClaimRequest(a)
    PROVE  OwnerInv' /\ DecidedInv'
<1> USE DEF OwnerPCs, UndecidedPCs
<1> DEFINE r == Target(a)  k == Asked(a)  new == approval'[r][k]
<1>0. /\ ApproverInv /\ OwnerInv /\ DecidedInv /\ ClaimInv
      /\ approval \in [Runs -> [Asks -> Requests]]
    BY DEF RelayInv, IInv, DataInv, StoreTypeOK
<1>1. /\ approver[a].pc = "request" /\ r \in Runs /\ k \in Asks
      /\ approver'[a].run = r /\ approver'[a].request = k
      /\ \A b \in Approvers : b # a => approver'[b] = approver[b]
      /\ approver'[a].pc \in {"intent", "undo_run"}
  <2>1. approver[a].pc = "request"
    BY DEF ClaimRequest, Is
  <2>2. QED
    BY <1>0, <2>1, RelayingMoves DEF Relaying, AfterRelaying
<1>2. /\ \A s \in Runs, j \in Asks : s # r \/ j # k => approval'[s][j] = approval[s][j]
      /\ \/ approver'[a].pc = "intent" /\ approval[r][k].state = "pending" /\ new.state = "claimed"
         \/ /\ approver'[a].pc = "undo_run"
            /\ \/ new = approval[r][k]
               \/ approval[r][k].state \notin {"none", "resolved"} /\ new.state = "expired"
  <2>1. PICK late \in BOOLEAN :
            /\ approval' = [approval EXCEPT ![r][k] = ClaimedRequest(r, k, late)]
            /\ Moves(a, IF ClaimSucceeds(r, k, late) THEN "intent" ELSE "undo_run")
    BY DEF ClaimRequest
  <2>2. approver'[a].pc = IF ClaimSucceeds(r, k, late) THEN "intent" ELSE "undo_run"
    BY <1>0, <1>1, <2>1, ApproverMoves DEF ApproverPCs, ClaimingPCs
  <2>3. approval[r][k].state \in RequestStates
    BY <1>0, <1>1 DEF Requests
  <2>4. new = ClaimedRequest(r, k, late)
    BY <1>0, <1>1, <2>1
  <2>5. \A s \in Runs, j \in Asks : s # r \/ j # k => approval'[s][j] = approval[s][j]
    BY <1>0, <1>1, <2>1
  <2>6. ClaimSucceeds(r, k, late) => approval[r][k].state = "pending" /\ new.state = "claimed"
    BY <2>4 DEF ClaimSucceeds, ClaimedRequest, Expires, Request
  <2>7. ~ClaimSucceeds(r, k, late) =>
           \/ new = approval[r][k]
           \/ approval[r][k].state \notin {"none", "resolved"} /\ new.state = "expired"
    BY <2>4 DEF ClaimedRequest, Expires, Request
  <2> HIDE DEF new, r, k
  <2>8. QED
    BY <2>2, <2>5, <2>6, <2>7
<1>3. UNCHANGED decisions
    BY DEF ClaimRequest, Quiet
<1> HIDE DEF r, k, new
<1>4. \A b \in Approvers : approver[b].pc \in OwnerPCs => Target(b) \in Runs /\ Asked(b) \in Asks
    BY <1>0 DEF ApproverInv
<1>5. \A b \in Approvers : Owns(b, r, k) => b # a /\ approver[b].pc = "back_request"
  <2> SUFFICES ASSUME NEW b \in Approvers, Owns(b, r, k), approver[b].pc # "back_request"
               PROVE  FALSE
    BY <1>1 DEF Owns
  <2>1. approver[b].pc \in RunOwnerPCs /\ approver[a].pc \in RunOwnerPCs /\ Target(b) = Target(a)
    BY <1>1 DEF Owns, RunOwnerPCs, ClaimingPCs, r
  <2>2. a = b
    BY <1>0, <2>1 DEF ClaimInv
  <2>3. QED
    BY <1>1, <2>2 DEF Owns
<1>6. \A b \in Approvers : Owns(b, r, k) => approval[r][k].state \in {"claimed", "expired"}
    BY <1>0 DEF OwnerInv, Owns, Target, Asked
<1>7. OwnerInv'
  <2>1. ASSUME NEW b \in Approvers, approver'[b].pc \in OwnerPCs
        PROVE  \/ approval'[approver'[b].run][approver'[b].request].state = "claimed"
               \/ /\ approver'[b].pc = "back_request"
                  /\ approval'[approver'[b].run][approver'[b].request].state = "expired"
    <3>1. CASE b = a
      BY <1>1, <1>2, <2>1, <3>1 DEF new
    <3>2. CASE b # a /\ ~Owns(b, r, k)
      BY <1>0, <1>1, <1>2, <1>4, <2>1, <3>2 DEF OwnerInv, Owns, Is, Target, Asked
    <3>3. CASE b # a /\ Owns(b, r, k)
      BY <1>0, <1>1, <1>2, <1>5, <1>6, <2>1, <3>3 DEF OwnerInv, Owns, Is, Target, Asked, new
    <3>4. QED
      BY <3>1, <3>2, <3>3
  <2>2. ASSUME NEW b \in Approvers, NEW c \in Approvers, NEW s \in Runs, NEW j \in Asks,
               Owns(b, s, j)', Owns(c, s, j)', b # c
        PROVE  FALSE
    <3>1. CASE b # a /\ c # a
      BY <1>0, <1>1, <2>2, <3>1 DEF OwnerInv, Owns, Target, Asked
    <3>2. CASE b = a \/ c = a
      <4>1. /\ s = r /\ j = k /\ approver'[a].pc = "intent"
            /\ Owns(b, r, k) \/ Owns(c, r, k)
        BY <1>1, <2>2, <3>2 DEF Owns, Target, Asked
      <4>2. QED
        BY <1>2, <1>6, <4>1
    <3>3. QED
      BY <3>1, <3>2
  <2>3. QED
    BY <2>1, <2>2 DEF OwnerInv, Is, Target, Asked
<1>8. DecidedInv'
  <2>1. \A d \in decisions : d.run \in Runs /\ d.request \in Asks
    BY <1>0 DEF DecidedInv, Decision
  <2>2. \A d \in decisions :
           approval'[d.run][d.request].state \in {"claimed", "resolved", "expired"}
    BY <1>0, <1>2, <2>1 DEF DecidedInv, new
  <2>3. ASSUME NEW d \in decisions, NEW b \in Approvers, Owns(b, d.run, d.request)'
        PROVE  approver'[b].pc \notin UndecidedPCs
    <3>1. CASE b # a
      BY <1>0, <1>1, <2>3, <3>1 DEF DecidedInv, Owns, Target, Asked
    <3>2. CASE b = a
      BY <1>0, <1>1, <1>2, <2>3, <3>2 DEF DecidedInv, Owns, Target, Asked
    <3>3. QED
      BY <3>1, <3>2
  <2>4. ResolvedAsDecided'
    <3>1. \A s \in Runs, j \in Asks :
             approval'[s][j].state = "resolved" => approval'[s][j] = approval[s][j]
      BY <1>2 DEF new
    <3>2. QED
      BY <1>0, <1>3, <3>1 DEF DecidedInv, ResolvedAsDecided
  <2>5. \A b \in Approvers : approver'[b].pc = "resolve" => approver'[b] = approver[b]
    BY <1>1
  <2>6. QED
    BY <1>0, <1>3, <2>2, <2>3, <2>4, <2>5
    DEF DecidedInv, OneDecisionPerRequest, Is, Target, Asked
<1>9. QED
    BY <1>7, <1>8

\* Each step of an approver keeps the requests and the decisions in agreement.
LEMMA RelayKeepsRequests ==
    ASSUME RelayInv, NEW a \in Approvers, Relaying(a)
    PROVE  OwnerInv' /\ DecidedInv'
<1> DEFINE r == Target(a)  k == Asked(a)
<1>0. ApproverInv /\ approval \in [Runs -> [Asks -> Requests]]
    BY DEF RelayInv, IInv, DataInv, StoreTypeOK
<1>1. AfterRelaying(a, approver'[a].pc)
    BY <1>0, RelayingMoves
<1>2. CASE ClaimRequest(a)
    BY <1>2, ClaimingKeepsRequests
<1>3. CASE RelayAccepted(a)
    BY <1>3, AcceptedKeepsRequests
<1>4. CASE UndoRequest(a) \/ BackRequest(a)
  <2>1. /\ approver[a].pc \in {"undo_request", "back_request"}
        /\ approver'[a].pc \in {"undo_run", "failed"}
        /\ UNCHANGED decisions
    BY <1>1, <1>4 DEF UndoRequest, BackRequest, Is, AfterRelaying, Quiet
  <2>2. r \in Runs /\ k \in Asks
    BY <1>0, <2>1 DEF ApproverInv
  <2>3. /\ ReleasedRequest(r, k) \in Requests
        /\ ReleasedRequest(r, k).state = "resolved" => ReleasedRequest(r, k) = approval[r][k]
    BY <1>0, <2>2 DEF ReleasedRequest, Request, Requests, RequestStates
  <2>4. approval' = [approval EXCEPT ![r][k] = ReleasedRequest(r, k)]
    BY <1>4 DEF UndoRequest, BackRequest
  <2>5. QED
    BY <2>1, <2>3, <2>4, OwnerGivesUp DEF OwnerPCs, UndecidedPCs
<1>5. CASE Resolve(a)
  <2>1. /\ approver[a].pc = "resolve"
        /\ approver'[a].pc \in {"audit", "failed"}
        /\ UNCHANGED decisions
    BY <1>1, <1>5 DEF Resolve, Is, AfterRelaying, Quiet
  <2>2. /\ r \in Runs /\ k \in Asks /\ approval[r][k].state = "claimed"
        /\ approver[a].choice \in Choices
    BY <1>0, <2>1, OwnerIsAlone DEF ApproverInv, OwnerPCs, UndecidedPCs
  <2>3. PICK late \in BOOLEAN :
            approval' = [approval EXCEPT ![r][k] = ResolvedRequest(r, k, approver[a].choice, late)]
    BY <1>5 DEF Resolve
  <2> DEFINE request == ResolvedRequest(r, k, approver[a].choice, late)
  <2>4. /\ request \in Requests
        /\ request.state \in {"claimed", "resolved", "expired"}
        /\ request.state = "resolved" => request.outcome = approver[a].choice
    BY <2>2 DEF ResolvedRequest, ResolveSucceeds, Expires, Request, Requests, RequestStates, Choices
  <2>5. approval' = [approval EXCEPT ![r][k] = request]
    BY <2>3
  <2> HIDE DEF request
  <2>6. QED
    BY <1>5, <2>1, <2>4, <2>5, OwnerGivesUp DEF OwnerPCs, UndecidedPCs
<1>6. CASE \/ Lookup(a) \/ ClaimRun(a) \/ WriteIntent(a) \/ UndoRun(a) \/ RelayFailed(a)
           \/ BackRun(a) \/ WriteOutcome(a) \/ Finalize(a) \/ Resume(a)
  <2>1. UNCHANGED <<approval, decisions>>
    BY <1>6 DEF Lookup, ClaimRun, WriteIntent, UndoRun, RelayFailed, BackRun, WriteOutcome,
       Finalize, Resume, Quiet, storeVars
  <2>2. /\ approver'[a].pc # "resolve"
        /\ approver'[a].pc \in UndecidedPCs => approver[a].pc \in UndecidedPCs \ {"back_request"}
    <3>1. CASE RelayFailed(a)
      <4>1. approver[a].pc = "relay" /\ (Moves(a, "back_run") \/ Moves(a, "failed"))
        BY <3>1 DEF RelayFailed, AfterRelayError, Is
      <4>2. approver'[a].pc \in {"back_run", "failed"}
        BY <1>0, <4>1, ApproverMoves DEF ApproverPCs, ClaimingPCs
      <4>3. QED
        BY <4>1, <4>2 DEF UndecidedPCs
    <3>2. CASE ~RelayFailed(a)
      BY <1>1, <1>6, <3>2 DEF Lookup, ClaimRun, WriteIntent, UndoRun, BackRun, WriteOutcome,
         Finalize, Resume, Is, AfterRelaying, UndecidedPCs
    <3>3. QED
      BY <3>1, <3>2
  <2>3. QED
    BY <2>1, <2>2, QuietStepKeepsRequests
<1>7. QED
    BY <1>2, <1>3, <1>4, <1>5, <1>6 DEF Relaying

\* A decision reaches the demand Hermes waits on: every demand before it was decided,
\* and the request in the hands of the approver was not.
LEMMA RelayKeepsDemands ==
    ASSUME RelayInv, NEW a \in Approvers, Relaying(a)
    PROVE  DemandInv'
<1> DEFINE r == Target(a)  k == Asked(a)
<1>0. /\ DemandInv /\ approval \in [Runs -> [Asks -> Requests]]
      /\ hermes \in [Runs -> HermesRuns]
    BY DEF RelayInv, IInv, DataInv, StoreTypeOK
<1>1. CASE ~RelayAccepted(a)
  <2>1. UNCHANGED <<hermes, decisions>>
    BY <1>1 DEF Relaying, Lookup, ClaimRun, ClaimRequest, WriteIntent, UndoRequest, UndoRun,
       RelayFailed, BackRun, BackRequest, Resolve, WriteOutcome, Finalize, Resume, Quiet
  <2>2. ASSUME NEW s \in Runs, NEW j \in Asks, approval'[s][j].state # "none"
        PROVE  approval[s][j].state # "none"
    <3> DEFINE Writes(request) ==
                  /\ approval' = [approval EXCEPT ![r][k] = request]
                  /\ request = approval[r][k] \/ approval[r][k].state # "none"
    <3>0. ASSUME NEW request, Writes(request) PROVE approval[s][j].state # "none"
      <4>1. approval'[s][j] = approval[s][j] \/ (r = s /\ k = j /\ approval'[s][j] = request)
        BY <1>0, <3>0
      <4>2. QED
        BY <2>2, <3>0, <4>1
    <3> HIDE DEF r, k
    <3>1. CASE ClaimRequest(a)
      <4>1. PICK late \in BOOLEAN :
                approval' = [approval EXCEPT ![r][k] = ClaimedRequest(r, k, late)]
        BY <3>1 DEF ClaimRequest, r, k
      <4>2. Writes(ClaimedRequest(r, k, late))
        BY <4>1 DEF ClaimedRequest, Expires, ClaimSucceeds
      <4>3. QED
        BY <3>0, <4>2
    <3>2. CASE Resolve(a)
      <4>1. PICK late \in BOOLEAN :
                approval' = [approval EXCEPT ![r][k] =
                                ResolvedRequest(r, k, approver[a].choice, late)]
        BY <3>2 DEF Resolve, r, k
      <4>2. Writes(ResolvedRequest(r, k, approver[a].choice, late))
        BY <4>1 DEF ResolvedRequest, Expires, ResolveSucceeds
      <4>3. QED
        BY <3>0, <4>2
    <3>3. CASE UndoRequest(a) \/ BackRequest(a)
      <4>1. Writes(ReleasedRequest(r, k))
        BY <3>3 DEF UndoRequest, BackRequest, ReleasedRequest, r, k
      <4>2. QED
        BY <3>0, <4>1
    <3>4. CASE UNCHANGED approval
      BY <2>2, <3>4
    <3>5. QED
      BY <1>1, <3>1, <3>2, <3>3, <3>4 DEF Relaying, Lookup, ClaimRun, WriteIntent, UndoRun,
         RelayFailed, BackRun, WriteOutcome, Finalize, Resume, storeVars
  <2>3. QED
    BY <1>0, <2>1, <2>2 DEF DemandInv, Decided, DecisionReachesItsDemand
<1>2. CASE RelayAccepted(a)
  <2> DEFINE d0 == [run |-> r, demand |-> hermes[r].asks, request |-> k,
                    choice |-> approver[a].choice, by |-> a]
  <2>1. /\ approver[a].pc = "relay" /\ hermes[r].state = "waiting" /\ UNCHANGED approval
        /\ decisions' = decisions \union {d0}
        /\ hermes' = [hermes EXCEPT ![r].state = "running"]
    BY <1>2 DEF RelayAccepted, Is, storeVars
  <2>2. /\ r \in Runs /\ k \in Asks /\ approval[r][k].state = "claimed"
        /\ \A d \in decisions : ~(d.run = r /\ d.request = k)
    BY <2>1, OwnerIsAlone DEF OwnerPCs, UndecidedPCs
  <2>3. /\ hermes'[r].asks = hermes[r].asks /\ hermes'[r].seen = hermes[r].seen
        /\ hermes'[r].state = "running"
        /\ \A s \in Runs : s # r => hermes'[s] = hermes[s]
    BY <1>0, <2>1, <2>2 DEF HermesRuns
  <2>4. hermes[r].asks \in Nat /\ k \in Nat
    BY <1>0, <2>2 DEF HermesRuns, Asks
  <2>5. k = hermes[r].asks
    <3>1. k <= hermes[r].asks /\ ~(k < hermes[r].asks)
      BY <1>0, <2>2 DEF DemandInv, Decided
    <3>2. QED
      BY <2>4, <3>1
  <2>6. d0.run = r /\ d0.request = k /\ d0.demand = k
    BY <2>5
  <2> HIDE DEF r, k, d0
  <2>7. \A s \in Runs, j \in Asks :
           Decided(s, j) \/ (s = r /\ j = k) => Decided(s, j)'
    BY <2>1, <2>6 DEF Decided
  <2>8. DecisionReachesItsDemand'
    BY <1>0, <2>1, <2>6 DEF DemandInv, DecisionReachesItsDemand
  <2>9. QED
    BY <1>0, <2>1, <2>2, <2>3, <2>5, <2>7, <2>8 DEF DemandInv
<1>3. QED
    BY <1>1, <1>2

\* What Resume does to the readers: the one that is there is aborted, and an idle one
\* takes the run over.
ReaderReplaces(p, r) ==
    /\ proc[p].pc = "idle"
    /\ activeRuns[r] = NoReader \/ ~Fresh(activeRuns[r])
    /\ activeRuns' = [activeRuns EXCEPT ![r] = p]
    /\ proc'[p] = Reader(r, "reconciled")
    /\ \A q \in Procs : q # p /\ q # activeRuns[r] => proc'[q] = proc[q]
    /\ activeRuns[r] # NoReader =>
          /\ proc'[activeRuns[r]].aborted # "no"
          /\ \E abort \in {"user", "reconnect"} :
                proc'[activeRuns[r]] = [proc[activeRuns[r]] EXCEPT !.aborted = abort]

\* That is what Resume does when it does anything.
LEMMA ResumeReplaces ==
    ASSUME RelayInv, NEW a \in Approvers, Resume(a), ~UNCHANGED <<proc, activeRuns>>
    PROVE  /\ proc' \in [Procs -> Activities]
           /\ Target(a) \in Runs /\ mutationLease = NoLease
           /\ \E p \in Readers : ReaderReplaces(p, Target(a))
<1> DEFINE r == Target(a)  old == activeRuns[r]
<1>0. /\ proc \in [Procs -> Activities] /\ activeRuns \in [Runs -> Readers \union {NoReader}]
      /\ RegistrationIsAlive
    BY DEF RelayInv, IInv, ActivityInv
<1>1. PICK p \in Readers :
          /\ proc[p].pc = "idle"
          /\ activeRuns' = [activeRuns EXCEPT ![r] = p]
          /\ proc' = [q \in Procs |->
                CASE q = p -> Reader(r, "reconciled")
                  [] q = old /\ q # p ->
                       [proc[q] EXCEPT !.aborted = IF @ = "no" THEN "reconnect" ELSE @]
                  [] OTHER -> proc[q]]
    BY DEF Resume, At
<1>2. /\ mutationLease = NoLease /\ (old = NoReader \/ ~Fresh(old)) /\ r \in Runs
    BY DEF Resume, FollowedAfresh, Is, RelayInv, ApproverInv
<1>3. old # NoReader => old \in Readers /\ old # p
    BY <1>0, <1>1, <1>2 DEF RegistrationIsAlive, At
<1> HIDE DEF r, old
<1>4. /\ proc'[p] = Reader(r, "reconciled")
      /\ \A q \in Procs : q # p /\ q # old => proc'[q] = proc[q]
      /\ \A q \in Procs : q # p /\ q = old =>
            proc'[q] = [proc[q] EXCEPT !.aborted = IF @ = "no" THEN "reconnect" ELSE @]
    BY <1>1, KindsAreDisjoint
<1>5. old # NoReader =>
        \E abort \in {"user", "reconnect"} :
            /\ proc'[old] = [proc[old] EXCEPT !.aborted = abort]
            /\ proc'[old].aborted # "no" /\ proc'[old] \in Activities
    BY <1>0, <1>3, <1>4, KindsAreDisjoint DEF Activities
<1>6. proc' \in [Procs -> Activities]
  <2>0. NoReader \notin Procs
    BY RunExecutionAssumption DEF Procs, Cancellers
  <2>1. ASSUME NEW q \in Procs PROVE proc'[q] \in Activities
    <3>1. CASE q = p
      BY <1>2, <1>4, <3>1, NewActivities
    <3>2. CASE q = old /\ q # p
      BY <1>5, <2>0, <3>2
    <3>3. CASE q # p /\ q # old
      BY <1>0, <1>4, <3>3
    <3>4. QED
      BY <3>1, <3>2, <3>3
  <2>2. QED
    BY <1>1, <2>1
<1>7. QED
    BY <1>1, <1>2, <1>4, <1>5, <1>6 DEF ReaderReplaces, r, old

\* The replaced reader is aborted, hence need not be registered any more.
LEMMA ReplacingKeepsActivities ==
    ASSUME ActivityInv, proc' \in [Procs -> Activities], NEW r \in Runs, NEW p \in Readers,
           ReaderReplaces(p, r)
    PROVE  ActivityInv'
<1> DEFINE old == activeRuns[r]
<1>1. /\ proc'[p].pc = "context" /\ proc'[p].run = r /\ p # NoReader
      /\ activeRuns' \in [Runs -> Readers \union {NoReader}]
      /\ activeRuns'[r] = p
      /\ \A s \in Runs : s # r => activeRuns'[s] = activeRuns[s]
    BY NewActivities, KindsAreDisjoint DEF ReaderReplaces, ActivityInv
<1>2. old # NoReader => /\ old \in Readers /\ old # p
                        /\ proc[old].run = r /\ proc[old].source # "fresh"
                        /\ proc'[old].aborted # "no"
    BY DEF ReaderReplaces, ActivityInv, RegistrationIsAlive, At, RunOf, Fresh
<1>3. \A q \in Procs : q # p =>
          /\ proc'[q].pc = proc[q].pc /\ proc'[q].run = proc[q].run
          /\ proc'[q].source = proc[q].source
          /\ proc'[q].outcome = proc[q].outcome /\ proc'[q].next = proc[q].next
          /\ q # old => proc'[q] = proc[q]
  <2> SUFFICES ASSUME NEW q \in Procs, q # p
               PROVE  /\ proc'[q].pc = proc[q].pc /\ proc'[q].run = proc[q].run
                      /\ proc'[q].source = proc[q].source
                      /\ proc'[q].outcome = proc[q].outcome /\ proc'[q].next = proc[q].next
                      /\ q # old => proc'[q] = proc[q]
    OBVIOUS
  <2>1. CASE q # old
    BY <2>1 DEF ReaderReplaces
  <2>2. CASE q = old
    <3>1. q # NoReader /\ proc[q] \in Activities
      BY RunExecutionAssumption DEF Procs, Cancellers, ActivityInv
    <3>2. PICK abort : proc'[q] = [proc[q] EXCEPT !.aborted = abort]
      BY <2>2, <3>1 DEF ReaderReplaces
    <3>3. QED
      BY <2>2, <3>1, <3>2 DEF Activities
  <2>3. QED
    BY <2>1, <2>2
<1> HIDE DEF old
<1>4. Shapes'
    BY <1>1, <1>3, KindsAreDisjoint
    DEF ActivityInv, Shapes, RequestShape, ReaderShape, CancellerShape, ReaderPCs, ClosePCs
<1>5. ReaderIsRegistered'
  <2> SUFFICES ASSUME NEW q \in Readers, proc'[q].pc # "idle",
                      proc'[q].source = "fresh" \/ proc'[q].aborted = "no"
               PROVE  activeRuns'[proc'[q].run] = q
    BY DEF ReaderIsRegistered, At, RunOf, Fresh, Aborted
  <2>1. CASE q = p
    BY <1>1, <2>1
  <2>2. CASE q # p
    <3>1. q # old /\ proc'[q] = proc[q]
      BY <1>2, <1>3, <2>2, KindsAreDisjoint
    <3>2. proc[q].run \in Runs /\ activeRuns[proc[q].run] = q
      BY <3>1 DEF ActivityInv, Shapes, ReaderShape, ReaderIsRegistered, At, RunOf, Fresh, Aborted
    <3>3. proc[q].run # r
      BY <3>1, <3>2 DEF old
    <3>4. QED
      BY <1>1, <3>1, <3>2, <3>3
  <2>3. QED
    BY <2>1, <2>2
<1>6. RegistrationIsAlive'
  <2> SUFFICES ASSUME NEW s \in Runs, activeRuns'[s] # NoReader
               PROVE  proc'[activeRuns'[s]].pc # "idle" /\ proc'[activeRuns'[s]].run = s
    BY DEF RegistrationIsAlive, At, RunOf
  <2>1. CASE s = r
    BY <1>1, <2>1
  <2>2. CASE s # r
    <3>1. /\ activeRuns'[s] = activeRuns[s] /\ activeRuns[s] \in Readers
          /\ proc[activeRuns[s]].pc # "idle" /\ proc[activeRuns[s]].run = s
      BY <1>1, <2>2 DEF ActivityInv, RegistrationIsAlive, At, RunOf
    <3>2. activeRuns[s] # p
      BY <3>1 DEF ReaderReplaces
    <3>3. QED
      BY <1>3, <3>1, <3>2, KindsAreDisjoint
  <2>3. QED
    BY <2>1, <2>2
<1>7. QED
    BY <1>1, <1>4, <1>5, <1>6 DEF ActivityInv

\* The relay moves no reader, but for the one it starts and the one it replaces.
LEMMA RelayMovesReaders ==
    ASSUME NEW a \in Approvers, Relaying(a)
    PROVE  /\ UNCHANGED <<todo, mutationLease, runReservations, crashes, cancelAsked>>
           /\ UNCHANGED <<proc, activeRuns>> \/ Resume(a)
BY DEF Relaying, Lookup, ClaimRun, ClaimRequest, WriteIntent, UndoRequest, UndoRun,
       RelayAccepted, RelayFailed, BackRun, BackRequest, Resolve, WriteOutcome, Finalize,
       Resume, Quiet, processVars

\* A step of the relay keeps the registry sound.
LEMMA RelayKeepsActivities ==
    ASSUME RelayInv, NEW a \in Approvers, Relaying(a)
    PROVE  ActivityInv'
<1>1. CASE UNCHANGED <<proc, activeRuns>>
    BY <1>1, StutterKeepsActivities DEF RelayInv, IInv
<1>2. CASE Resume(a) /\ ~UNCHANGED <<proc, activeRuns>>
    BY <1>2, ResumeReplaces, ReplacingKeepsActivities DEF RelayInv, IInv
<1>3. QED
    BY <1>1, <1>2, RelayMovesReaders

\* The reader that Resume starts submits nothing.
LEMMA RelayKeepsSubmission ==
    ASSUME RelayInv, NEW a \in Approvers, Relaying(a)
    PROVE  SubmissionInv'
<1>1. \A r \in Runs : hermes[r].state = "none" => hermes'[r].state = "none"
  <2>1. CASE UNCHANGED hermes
    BY <2>1
  <2>2. CASE RelayAccepted(a)
    <3>1. Target(a) \in Runs
      BY <2>2, OwnerIsAlone DEF RelayAccepted, Is, OwnerPCs, UndecidedPCs
    <3>2. QED
      BY <2>2, <3>1 DEF RelayAccepted, RelayInv, IInv, DataInv, HermesRuns
  <2>3. QED
    BY <2>1, <2>2 DEF Relaying, Lookup, ClaimRun, ClaimRequest, WriteIntent, UndoRequest, UndoRun,
       RelayFailed, BackRun, BackRequest, Resolve, WriteOutcome, Finalize, Resume, Quiet
<1>2. CASE UNCHANGED <<proc, activeRuns>>
    BY <1>1, <1>2, SubmissionIsIndifferent DEF RelayInv
<1>3. CASE Resume(a) /\ ~UNCHANGED <<proc, activeRuns>>
  <2>1. PICK p \in Readers : ReaderReplaces(p, Target(a))
    BY <1>3, ResumeReplaces
  <2>2. /\ Target(a) \in Runs /\ proc \in [Procs -> Activities]
        /\ activeRuns \in [Runs -> Readers \union {NoReader}]
    BY <1>3, ResumeReplaces DEF RelayInv, IInv, ActivityInv
  <2> DEFINE old == activeRuns[Target(a)]
  <2>3. proc'[p].source = "reconciled" /\ proc'[p].pc = "context"
    BY <2>1, <2>2, NewActivities DEF ReaderReplaces
  <2>4. old = NoReader \/ old \in Readers
    BY <2>2
  <2>5. ASSUME NEW q \in Readers, q # p
        PROVE  /\ proc'[q].pc = proc[q].pc /\ proc'[q].run = proc[q].run
               /\ proc'[q].source = proc[q].source
    <3>1. proc[q] \in Activities /\ q # NoReader /\ q \in Procs
      BY <2>2, KindsAreDisjoint
    <3>2. proc'[q] = proc[q] \/ \E abort : proc'[q] = [proc[q] EXCEPT !.aborted = abort]
      BY <2>1, <2>5, <3>1 DEF ReaderReplaces
    <3>3. QED
      BY <3>1, <3>2 DEF Activities
  <2>6. \A r \in Runs : proc'[r] = proc[r]
    BY <2>1, <2>4, KindsAreDisjoint, RunExecutionAssumption DEF ReaderReplaces
  <2>7. QED
    BY <1>1, <2>3, <2>5, <2>6, SubmissionIsIndifferent DEF RelayInv
<1>4. QED
    BY <1>2, <1>3, RelayMovesReaders

\* The relay writes rows and requests.
LEMMA RelayKeepsData ==
    ASSUME RelayInv, NEW a \in Approvers, Relaying(a)
    PROVE  DataInv'
<1> DEFINE r == Target(a)  k == Asked(a)
<1>0. /\ ApproverInv /\ DataInv /\ run \in [Runs -> Rows]
      /\ approval \in [Runs -> [Asks -> Requests]]
      /\ NoClaim \notin Approvers /\ Claims = Approvers
    BY RunStoreAssumption, ApprovalRelayAssumption DEF RelayInv, IInv, DataInv, StoreTypeOK
<1>1. run' \in [Runs -> Rows]
  <2>1. CASE UNCHANGED run
    BY <1>0, <2>1
  <2>2. CASE ClaimRun(a) \/ UndoRun(a) \/ BackRun(a) \/ Finalize(a)
    <3>1. r \in Runs
      BY <1>0, <2>2 DEF ClaimRun, UndoRun, BackRun, Finalize, Is, ApproverInv
    <3>2. \/ run' = run
          \/ \E status \in {run[r].status, "running", "awaiting_approval"}, claim \in {a, NoClaim} :
                run' = [run EXCEPT ![r] = [run[r] EXCEPT !.status = status, !.claim = claim]]
      <4>1. CASE ClaimRun(a)
        BY <4>1 DEF ClaimRun, ClaimRunApproval, Update
      <4>2. CASE UndoRun(a) \/ BackRun(a)
        BY <4>2 DEF UndoRun, BackRun, ReleaseRunApprovalClaim, Update
      <4>3. CASE Finalize(a)
        <5>1. run' = run \/ run' = [run EXCEPT ![r] = [run[r] EXCEPT !.claim = NoClaim]]
          BY <4>3 DEF Finalize, FinalizeRunApprovalClaim, Update
        <5>2. [run[r] EXCEPT !.claim = NoClaim]
                 = [run[r] EXCEPT !.status = run[r].status, !.claim = NoClaim]
          BY <1>0, <3>1 DEF Rows
        <5>3. QED
          BY <5>1, <5>2
      <4>4. QED
        BY <2>2, <4>1, <4>2, <4>3
    <3>3. \A status \in {run[r].status, "running", "awaiting_approval"}, claim \in {a, NoClaim} :
             [run[r] EXCEPT !.status = status, !.claim = claim] \in Rows
      BY <1>0, <3>1 DEF Rows, Statuses, ActiveStatuses
    <3> HIDE DEF r
    <3>4. QED
      BY <1>0, <3>1, <3>2, <3>3
  <2>3. QED
    BY <2>1, <2>2 DEF Relaying, Lookup, ClaimRequest, WriteIntent, UndoRequest, RelayAccepted,
       RelayFailed, BackRequest, Resolve, WriteOutcome, Resume, storeVars
<1>2. approval' \in [Runs -> [Asks -> Requests]]
  <2>1. CASE UNCHANGED approval
    BY <1>0, <2>1
  <2>2. CASE ClaimRequest(a) \/ UndoRequest(a) \/ BackRequest(a) \/ Resolve(a)
    <3>1. r \in Runs /\ k \in Asks /\ approver[a].choice \in Choices
      BY <1>0, <2>2 DEF ClaimRequest, UndoRequest, BackRequest, Resolve, Is, ApproverInv
    <3>2. /\ ReleasedRequest(r, k) \in Requests
          /\ \A late \in BOOLEAN : ClaimedRequest(r, k, late) \in Requests
          /\ \A late \in BOOLEAN : ResolvedRequest(r, k, approver[a].choice, late) \in Requests
      BY <1>0, <3>1 DEF ReleasedRequest, ClaimedRequest, ResolvedRequest, Request, Requests,
         RequestStates
    <3>3. \E request \in Requests : approval' = [approval EXCEPT ![r][k] = request]
      BY <2>2, <3>2 DEF ClaimRequest, UndoRequest, BackRequest, Resolve
    <3> HIDE DEF r, k
    <3>4. QED
      BY <1>0, <3>1, <3>3
  <2>3. QED
    BY <2>1, <2>2 DEF Relaying, Lookup, ClaimRun, WriteIntent, UndoRun, RelayAccepted,
       RelayFailed, BackRun, WriteOutcome, Finalize, Resume, storeVars
<1>3. hermes' \in [Runs -> HermesRuns]
  <2>1. UNCHANGED hermes \/ hermes' = [hermes EXCEPT ![r].state = "running"]
    BY DEF Relaying, Lookup, ClaimRun, ClaimRequest, WriteIntent, UndoRequest, UndoRun,
       RelayAccepted, RelayFailed, BackRun, BackRequest, Resolve, WriteOutcome, Finalize,
       Resume, Quiet
  <2>2. QED
    BY <1>0, <2>1 DEF DataInv, HermesRuns, HermesStates
<1>4. QED
  BY <1>0, <1>1, <1>2, <1>3, RelayMovesReaders DEF DataInv, StoreTypeOK

-----------------------------------------------------------------------------
(* The invariant of the relay *)

\* A step of an approver.
LEMMA RelayingKeepsTheRelay ==
    ASSUME RelayInv, NEW a \in Approvers, Relaying(a)
    PROVE  RelayInv'
<1>1. ApproverInv'
    BY RelayingMoves DEF RelayInv
<1>2. QED
    BY <1>1, RelayKeepsActivities, RelayKeepsData, RelayKeepsClaims, RelayKeepsRequests,
       RelayKeepsSubmission, RelayKeepsDemands DEF RelayInv, IInv

\* A crash ends the calls in flight, whatever they have claimed.
LEMMA CrashKeepsTheRelay ==
    ASSUME RelayInv, CrashRelay
    PROVE  RelayInv'
<1>1. \A a \in Approvers :
         \/ approver[a].pc = "idle" /\ approver'[a] = IdleApprover
         \/ /\ approver[a].pc # "idle"
            /\ \E pc \in {"answered", "failed"} : approver'[a] = [approver[a] EXCEPT !.pc = pc]
    BY DEF CrashRelay, Is
<1>2. ASSUME NEW a \in Approvers
      PROVE  /\ approver'[a] \in Approver
             /\ approver'[a].pc \in {"idle", "failed", "answered"}
             /\ approver'[a].pc # "idle" =>
                   /\ approver'[a].run \in Runs /\ approver'[a].request \in Asks
                   /\ approver'[a].choice \in Choices
  <2>1. approver[a] \in Approver
    BY DEF RelayInv, ApproverInv
  <2>2. CASE approver[a].pc = "idle"
    <3>1. IdleApprover \in Approver /\ IdleApprover.pc = "idle"
      BY DEF IdleApprover, Approver, ApproverPCs
    <3>2. approver'[a] = IdleApprover
      BY <1>1, <2>2
    <3>3. QED
      BY <3>1, <3>2
  <2>3. CASE approver[a].pc # "idle"
    <3>1. Target(a) \in Runs /\ Asked(a) \in Asks /\ approver[a].choice \in Choices
      BY <2>3 DEF RelayInv, ApproverInv
    <3>2. PICK pc \in {"answered", "failed"} : approver'[a] = [approver[a] EXCEPT !.pc = pc]
      BY <1>1, <2>3
    <3>3. QED
      BY <2>1, <3>1, <3>2 DEF Approver, ApproverPCs, Target, Asked
  <2>4. QED
    BY <2>2, <2>3
<1>3. ApproverInv' /\ ApproversRest
  <2>1. approver' \in [Approvers -> Approver]
    BY <1>2 DEF CrashRelay
  <2>2. QED
    BY <1>2, <2>1 DEF ApproverInv, ApproversRest, Target, Asked
<1>4. Next /\ UNCHANGED decisions
    BY DEF CrashRelay, Next
<1>5. QED
    BY <1>3, <1>4, RunsKeepTheRelay

\* Every step.
LEMMA NextKeepsTheRelay ==
    ASSUME RelayInv, [RelayNext]_relayVars
    PROVE  RelayInv'
<1>1. CASE Running /\ UNCHANGED <<approver, decisions>>
  <2>1. Next /\ ApproversRest /\ ApproverInv'
    BY <1>1 DEF Next, ApproversRest, RelayInv, ApproverInv, Target, Asked
  <2>2. QED
    BY <1>1, <2>1, RunsKeepTheRelay
<1>2. CASE \E a \in Approvers : Relaying(a)
    BY <1>2, RelayingKeepsTheRelay
<1>3. CASE CrashRelay
    BY <1>3, CrashKeepsTheRelay
<1>4. CASE UNCHANGED relayVars
    BY <1>4 DEF relayVars, vars, processVars, storeVars,
       RelayInv, IInv, ActivityInv, DataInv, StoreTypeOK, Shapes, ReaderIsRegistered,
       RegistrationIsAlive, At, RunOf, Fresh, Aborted, ApproverInv, ClaimInv, NewRunIsFree,
       OwnerInv, DecidedInv, OneDecisionPerRequest, ResolvedAsDecided, SubmissionInv, DemandInv,
       Decided, DecisionReachesItsDemand, Is, Owns, Target, Asked
<1>5. QED
    BY <1>1, <1>2, <1>3, <1>4 DEF RelayNext

\* No call, no claim, no decision at the start.
LEMMA RelayInitially == RelayInit => RelayInv
<1> SUFFICES ASSUME RelayInit PROVE RelayInv
    OBVIOUS
<1>1. /\ Init /\ decisions = {}
      /\ \A a \in Approvers : approver[a] = IdleApprover
      /\ approver \in [Approvers -> Approver]
    BY DEF RelayInit, IdleApprover, Approver, ApproverPCs
<1>2. \A a \in Approvers : approver[a].pc = "idle"
    BY <1>1 DEF IdleApprover
<1>3. IInv
    BY <1>1, Initially
<1>4. ApproverInv
    BY <1>1, <1>2 DEF ApproverInv
<1>5. ClaimInv
    BY <1>1, <1>2
    DEF ClaimInv, NewRunIsFree, RunOwnerPCs, ClaimingPCs, Init, StoreInit, Absent
<1>6. OwnerInv
    BY <1>2 DEF OwnerInv, Owns, OwnerPCs, UndecidedPCs
<1>7. \A r \in Runs, k \in Asks : approval[r][k].state = "none"
    BY <1>1 DEF Init, StoreInit, Request
<1>8. DecidedInv
    BY <1>1, <1>2, <1>7 DEF DecidedInv, OneDecisionPerRequest, ResolvedAsDecided, Is
<1>9. \A r \in Runs : hermes[r] = HermesUnknown
    BY <1>1 DEF Init
<1>10. \A p \in Readers : proc[p].pc = "idle"
    BY <1>1, NewActivities, KindsAreDisjoint DEF Init
<1>11. SubmissionInv
    BY <1>9, <1>10 DEF SubmissionInv, HermesUnknown
<1>12. DemandInv
    BY <1>1, <1>7, <1>9 DEF DemandInv, DecisionReachesItsDemand, HermesUnknown, Asks
<1>13. QED
    BY <1>3, <1>4, <1>5, <1>6, <1>8, <1>11, <1>12 DEF RelayInv

\* The invariant of the relay, from which the theorems below are read.
THEOREM RelayIsInductive == RelaySpec => []RelayInv
BY RelayInitially, NextKeepsTheRelay, PTL DEF RelaySpec

\* ApprovalRelay is well typed: the calls of respondRunApproval, the decisions they
\* relay and everything below them.
THEOREM RelayIsTyped == RelaySpec => []RelayTypeOK
<1>1. RelayInv => RelayTypeOK
    BY DEF RelayInv, IInv, ActivityInv, DataInv, ApproverInv, DecidedInv, RelayTypeOK, TypeOK
<1>2. QED
    BY <1>1, RelayIsInductive, PTL

\* claimRunApproval gives a run to one decision at a time, whatever the number of
\* approvers and of crashes.
THEOREM ClaimsAreExclusive == RelaySpec => []ClaimIsExclusive
<1>1. RelayInv => ClaimIsExclusive
    BY DEF RelayInv, ClaimInv, ClaimIsExclusive, RunOwnerPCs
<1>2. QED
    BY <1>1, RelayIsInductive, PTL

\* POST /v1/runs/:id/approval names no demand, and yet a decision taken on a request
\* always reaches the demand of this request: the claims are enough.
THEOREM DecisionsReachTheirDemands == RelaySpec => []DecisionReachesItsDemand
<1>1. RelayInv => DecisionReachesItsDemand
    BY DEF RelayInv, DemandInv
<1>2. QED
    BY <1>1, RelayIsInductive, PTL

\* A request carries one decision to Hermes at most, whatever the number of approvers,
\* of calls whose answer is lost and of crashes.
THEOREM RequestsAreDecidedOnce == RelaySpec => []OneDecisionPerRequest
<1>1. RelayInv => OneDecisionPerRequest
    BY DEF RelayInv, DecidedInv
<1>2. QED
    BY <1>1, RelayIsInductive, PTL

\* What the store records of a request is what Hermes was told of it.
THEOREM ResolutionsAreDecisions == RelaySpec => []ResolvedAsDecided
<1>1. RelayInv => ResolvedAsDecided
    BY DEF RelayInv, DecidedInv
<1>2. QED
    BY <1>1, RelayIsInductive, PTL

\* The reader that follows a run after a decision is registered as any other, though
\* it replaces one that is still at work.
THEOREM RegistryIsSoundUnderRelay == RelaySpec => []ReaderIsRegistered
<1>1. RelayInv => ReaderIsRegistered
    BY DEF RelayInv, IInv, ActivityInv
<1>2. QED
    BY <1>1, RelayIsInductive, PTL

-----------------------------------------------------------------------------
(* The relay and the guard of the runtime *)

\* Replacing a reader follows the run anew; the rest of the relay does not concern
\* the guard.
LEMMA RelayKeepsTheGuard ==
    ASSUME RelayInv, [RelayNext]_relayVars
    PROVE  [Exclusion!ExclusionNext]_(Exclusion!exclusionVars)
<1>1. CASE [Next]_vars
    BY <1>1, NextKeepsTheGuard DEF RelayInv
<1>2. CASE \E a \in Approvers : Relaying(a)
  <2>1. PICK a \in Approvers : Relaying(a)
    BY <1>2
  <2>2. CASE UNCHANGED <<proc, activeRuns>>
    BY <2>1, <2>2, RelayMovesReaders, GuardStutters
  <2>3. CASE Resume(a) /\ ~UNCHANGED <<proc, activeRuns>>
    <3> DEFINE r == Target(a)
    <3>1. PICK p \in Readers : ReaderReplaces(p, r)
      BY <2>3, ResumeReplaces
    <3>2. /\ r \in Runs /\ mutationLease = NoLease
          /\ activeRuns \in [Runs -> Readers \union {NoReader}]
      BY <2>3, ResumeReplaces DEF RelayInv, IInv, ActivityInv
    <3>3. UNCHANGED <<mutationLease, runReservations>>
      BY <2>1, RelayMovesReaders
    <3> HIDE DEF r
    <3>4. Followed' = Followed \union {r}
      BY <3>1, <3>2, KindsAreDisjoint DEF ReaderReplaces, Followed
    <3>5. \A s \in Runs : proc'[s] = proc[s]
      BY <3>1, <3>2, KindsAreDisjoint, RunExecutionAssumption DEF ReaderReplaces
    <3>6. Exclusion!Follow(r)
      BY <3>2, <3>3, <3>4, <3>5 DEF Exclusion!Follow, Holders
    <3>7. QED
      BY <3>2, <3>6 DEF Exclusion!ExclusionNext
  <2>4. QED
    BY <2>1, <2>2, <2>3, RelayMovesReaders
<1>3. QED
    BY <1>1, <1>2 DEF RelayNext, CrashRelay, Next, relayVars

\* Answering a demand keeps the promise of the guard too: a reader is started only
\* while no long operation holds the runtime.
THEOREM RelayImplementsTheGuard == RelaySpec => ImplementsExclusion
<1>1. RelayInit => Exclusion!ExclusionInit
  <2> SUFFICES ASSUME RelayInit PROVE Exclusion!ExclusionInit
    OBVIOUS
  <2>1. \A r \in Runs : proc[r].pc = "idle" /\ activeRuns[r] = NoReader
    BY NewActivities, KindsAreDisjoint DEF RelayInit, Init
  <2>2. Holders = {} /\ Followed = {}
    BY <2>1 DEF Holders, Followed
  <2>3. QED
    BY <2>2 DEF RelayInit, Init, Exclusion!ExclusionInit
<1>2. RelayInv /\ [RelayNext]_relayVars => [Exclusion!ExclusionNext]_(Exclusion!exclusionVars)
    BY RelayKeepsTheGuard
<1>3. QED
    BY <1>1, <1>2, RelayIsInductive, PTL
    DEF RelaySpec, ImplementsExclusion, Exclusion!ExclusionSpec
=============================================================================
