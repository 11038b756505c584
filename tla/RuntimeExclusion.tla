--------------------------- MODULE RuntimeExclusion ---------------------------
(***************************************************************************)
(* What active-runtime-guard.ts promises: a long operation on the runtime  *)
(* (update, storage migration, change of credentials or of configuration)  *)
(* and the runs exclude each other.  A run is protected from its           *)
(* reservation, taken before its row is written, until its reader leaves   *)
(* the registry of active runs; in between startRun hands it over from the *)
(* reservation to the registry.                                            *)
(*                                                                         *)
(* The guard only counts reservations; the ghost `holders` names the       *)
(* requests that took one and have not released it.  RunExecution is shown *)
(* to implement this specification.                                        *)
(***************************************************************************)
EXTENDS Naturals, FiniteSets

CONSTANTS Runs, Mutators, NoLease

ASSUME ExclusionAssumption == IsFiniteSet(Runs) /\ NoLease \notin Mutators

VARIABLES
    mutationLease,   \* exclusion.mutationLease
    runReservations, \* exclusion.runReservations
    holders,         \* requests between acquireRunStartLease and its release
    followed         \* the keys of hermesConsoleActiveRuns

exclusionVars == <<mutationLease, runReservations, holders, followed>>

ExclusionTypeOK ==
    /\ mutationLease \in Mutators \union {NoLease}
    /\ runReservations \in Nat
    /\ holders \subseteq Runs
    /\ followed \subseteq Runs

ExclusionInit ==
    /\ mutationLease = NoLease
    /\ runReservations = 0
    /\ holders = {}
    /\ followed = {}

-----------------------------------------------------------------------------

\* Mutant: the runs that are followed are not looked at.
AcquireOverRuns(m) ==
    /\ mutationLease = NoLease
    /\ runReservations = 0
    /\ mutationLease' = m
    /\ UNCHANGED <<runReservations, holders, followed>>

AcquireMutationLease(m) ==
    /\ mutationLease = NoLease
    /\ runReservations = 0
    /\ followed = {}
    /\ mutationLease' = m
    /\ UNCHANGED <<runReservations, holders, followed>>

ReleaseMutationLease(m) ==
    /\ mutationLease = m
    /\ mutationLease' = NoLease
    /\ UNCHANGED <<runReservations, holders, followed>>

AcquireRunStartLease(r) ==
    /\ mutationLease = NoLease
    /\ r \notin holders
    /\ runReservations' = runReservations + 1
    /\ holders' = holders \union {r}
    /\ UNCHANGED <<mutationLease, followed>>

\* Each holder releases once (`released`); the count never goes below zero.
GivesBack(r) ==
    /\ r \in holders
    /\ holders' = holders \ {r}
    /\ runReservations' = IF runReservations = 0 THEN 0 ELSE runReservations - 1

\* The request gives up before startRun.
ReleaseRunStart(r) ==
    /\ GivesBack(r)
    /\ UNCHANGED <<mutationLease, followed>>

\* startRun, behind assertRuntimeMutationIdle, then the release.
HandOver(r) ==
    /\ mutationLease = NoLease
    /\ followed' = followed \union {r}
    /\ GivesBack(r)
    /\ UNCHANGED mutationLease

\* resumeAgentRun, behind assertRuntimeMutationIdle.
Follow(r) ==
    /\ mutationLease = NoLease
    /\ followed' = followed \union {r}
    /\ UNCHANGED <<mutationLease, runReservations, holders>>

Unfollow(r) ==
    /\ followed' = followed \ {r}
    /\ UNCHANGED <<mutationLease, runReservations, holders>>

\* The state of the guard dies with the process.
Restart ==
    /\ mutationLease' = NoLease
    /\ runReservations' = 0
    /\ holders' = {}
    /\ followed' = {}

ExclusionNext ==
    \/ \E m \in Mutators : AcquireMutationLease(m) \/ ReleaseMutationLease(m)
    \/ \E r \in Runs :
        \/ AcquireRunStartLease(r) \/ ReleaseRunStart(r) \/ HandOver(r)
        \/ Follow(r) \/ Unfollow(r)
    \/ Restart

ExclusionSpec == ExclusionInit /\ [][ExclusionNext]_exclusionVars

-----------------------------------------------------------------------------
(* Properties *)

\* No request is between its reservation and its release, and no run is followed,
\* while a long operation holds the lease, although the guard sees a number only.
MutualExclusion == mutationLease # NoLease => holders = {} /\ followed = {}

\* The number the guard keeps is that of the requests under way: it neither
\* leaks (the runtime could never be changed again) nor falls short (it could be
\* changed under a run).
ReservationsAreCounted == runReservations = Cardinality(holders)
=============================================================================
