-------------------------- MODULE MCSshProvisioning --------------------------
(***************************************************************************)
(* Two provisionings that may overlap, in either mode and in two           *)
(* directories, one activation and one update, while two versions are      *)
(* published, one of which never becomes healthy.                          *)
(***************************************************************************)
EXTENDS SshProvisioning, TLC

CONSTANTS j1, j2, a1, a2, u1, d1, d2, main, other, good, bad

MCJobs       == {j1, j2}
MCActivators == {a1, a2}
MCUpdaters   == {u1}
MCMutators   == {j1, j2, a1, a2, u1}
MCModes      == {"docker", "native"}
MCDirs       == {d1, d2}
MCPaths      == {main, other}
MCVersions   == {good, bad}
MCBroken     == {bad}
Symmetry     == Permutations(MCJobs) \union Permutations(MCActivators) \union Permutations(MCDirs)

Situations ==
    \/ \E j \in Jobs : task[j].pc = "idle" /\ \A i \in Jobs : task[i].mode = "docker"
    \/ \E a \in Activators : task[a].pc = "idle"
=============================================================================
