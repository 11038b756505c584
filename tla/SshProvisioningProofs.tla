------------------------ MODULE SshProvisioningProofs ------------------------
(***************************************************************************)
(* For every set of jobs, choices of a workspace, updates, directories and *)
(* versions: the state of the machine and of its row stays coherent, and   *)
(* a job that is reported as succeeded left them connected.                *)
(*                                                                         *)
(* The argument: whoever may change the machine has the lease, so that     *)
(* what a request has read or done under it still holds at its next step.  *)
(* Between two requests, as long as nothing was left half way, the machine *)
(* is the one the last successful job has left, moved by activations that  *)
(* succeeded, and the scripts of the manager keep it so.                   *)
(***************************************************************************)
EXTENDS SshProvisioning, TLAPS

-----------------------------------------------------------------------------
(* The inductive invariant *)

Ups    == {"none", "docker", "native"}
Config == [revision : Nat, token : Tokens, mode : {"docker", "native"}, ready : BOOLEAN,
           dir : Dirs \union {NoDir}, path : Cwds]
Task   == [pc : {"idle", "inspect", "admitted", "chosen", "update"} \union Running \union Ended,
           mode : {"docker", "native"}, dir : Dirs \union {NoDir}, path : Cwds, given : BOOLEAN,
           aligns : BOOLEAN, seen : Nat, token : Tokens, before : Cwds]

\* A machine whose current release is whole, and whose container and unit are those
\* of a directory.
Sound(h) ==
    /\ h \in Hosts
    /\ h.box.is = "owned" => h.box.dir \in Dirs /\ h.box.version \in Versions
    /\ h.unit.current \in Versions =>
           h.unit.dir \in Dirs /\ h.releases[h.unit.current] = "full"

\* Each kind of request has its own steps.
Steps ==
    /\ \A j \in Jobs : task[j].pc \in {"idle", "inspect", "admitted"} \union Running \union Ended
    /\ \A a \in Activators : task[a].pc \in {"idle", "chosen"} \union Activating \union Ended
    /\ \A u \in Updaters : task[u].pc \in {"idle", "update"} \union Ended

\* A request that may change the machine has the lease.
LeaseIsHeld ==
    \A x \in Tasks : task[x].pc \in Running \union {"update"} => mutationLease = x

\* What the steps of a job t have left on the machine h and in the row c.
JobKnows(t, h, c) ==
    /\ t.aligns = TRUE /\ t.path = MainPath
    /\ t.pc # "idle" => t.dir \in Dirs
    /\ t.pc \in {"health", "dash"} => t.mode = "docker"
    /\ t.pc \in Deploying \union Activating =>
           h.manager.mode = t.mode /\ h.manager.dir = t.dir
    /\ t.pc \in (Deploying \ {"deploy"}) \union Activating /\ t.mode = "docker" =>
           /\ h.box.is = "owned" /\ h.box.dir = t.dir
           /\ h.box.token = t.token /\ h.env[t.dir] = t.token
    /\ t.pc \in Activating => c.token = t.token /\ c.revision > 0
    /\ t.pc = "persist" => t.mode = "docker" /\ h.cwd[t.dir] = t.path

JobsKnow == \A j \in Jobs : JobKnows(task[j], host, config)

\* The same for the choice of a workspace.
ActivatorKnows(t, h, c) ==
    /\ t.pc \in {"chosen"} \union Activating =>
           /\ t.dir \in Dirs /\ t.path \in Paths
           /\ t.seen <= c.revision /\ c.revision > 0
    /\ t.pc \in {"persist", "restore"} =>
           /\ h.manager.mode = "docker" /\ h.manager.dir = t.dir
           /\ h.box.is = "owned" /\ h.box.dir = t.dir
    /\ t.pc = "persist" /\ t.aligns = TRUE => h.cwd[t.dir] = t.path
    /\ t.pc = "restore" => t.aligns = TRUE

ActivatorsKnow == \A a \in Activators : ActivatorKnows(task[a], host, config)

\* terminal.cwd is set and may be put back.
Tries(t) == t.pc \in {"persist", "restore"} /\ t.aligns = TRUE

\* No job is between its first change of the machine and its end, and no row is
\* saved that is to be undone.
Quiet ==
    /\ \A j \in Jobs : task[j].pc \notin Deploying \union Activating
    /\ \A a \in Activators : task[a].pc # "retract"

\* The runtime is the configured one.
Connected(h, u, c) ==
    /\ h.manager.mode = "docker" /\ h.manager.dir \in Dirs
    /\ h.env[h.manager.dir] = c.token
    /\ u # "native"
    /\ u = "docker" => h.box.is = "owned"
    /\ h.box.is = "owned" => h.box.dir = h.manager.dir /\ h.box.token = c.token
    /\ c.ready = TRUE /\ c.dir = h.manager.dir

\* So is terminal.cwd, but for an activation that may undo what it has set; and a
\* screen that will not ask for it to be set was shown what it is, or what it is
\* to be again.
Placed(t, h, c) ==
    /\ Tries(t) => t.before = c.path
    /\ t.pc = "chosen" /\ t.aligns = FALSE /\ t.seen = c.revision =>
           t.dir = c.dir /\ t.path \in {c.path, h.cwd[c.dir]}
    /\ t.pc \in {"align", "persist"} /\ t.aligns = FALSE =>
           t.dir = c.dir /\ t.path = h.cwd[c.dir]

AllPlaced ==
    /\ (\A a \in Activators : ~Tries(task[a])) => host.cwd[config.dir] = config.path
    /\ \A a \in Activators : Placed(task[a], host, config)

Settled == ~unsettled /\ config.revision > 0 /\ Quiet => Connected(host, up, config) /\ AllPlaced

ProvisioningIInv ==
    /\ ProvisioningTypeOK /\ Sound(host) /\ Steps /\ LeaseIsHeld
    /\ JobsKnow /\ ActivatorsKnow /\ Settled

-----------------------------------------------------------------------------
(* The scripts *)

\* A process on the port: the machine s[1] and the owner s[2] make sense, and the
\* manager is that of h.
Fits(s, h) == Sound(s[1]) /\ s[2] \in Ups /\ s[1].manager = h.manager

LEMMA CutOrDone ==
    ASSUME NEW S, NEW o
    PROVE  /\ o \in Cut(S) => o.to \in S /\ ~o.ok
           /\ o \in Done(S) => o.to \in S /\ o.ok
BY DEF Cut, Done

\* Starting a container changes nothing but who has the port.
LEMMA StartsKeep ==
    ASSUME NEW h, NEW u \in Ups, NEW s \in Starts(h, u) \union Busy(h, u)
    PROVE  s[1] = h /\ s[2] \in Ups
BY DEF Starts, Busy, Ups

LEMMA StartsRun ==
    ASSUME NEW h, NEW u \in Ups, NEW s \in Starts(h, u)
    PROVE  s[1] = h /\ s[2] = "docker"
BY DEF Starts

LEMMA WithoutFits ==
    ASSUME NEW u \in Ups, NEW who
    PROVE  Without(who, u) \in Ups
BY DEF Without, Ups

\* The file of the token may be rewritten, and the container replaced, on a machine
\* that makes sense.
LEMMA WritesSound ==
    ASSUME NEW h, Sound(h), NEW d \in Dirs, NEW token \in Tokens
    PROVE  /\ Sound([h EXCEPT !.env[d] = token])
           /\ [h EXCEPT !.env[d] = token].manager = h.manager
           /\ [h EXCEPT !.env[d] = token].env = [h.env EXCEPT ![d] = token]
           /\ [h EXCEPT !.env[d] = token].env[d] = token
           /\ [h EXCEPT !.env[d] = token].releases = h.releases
           /\ [h EXCEPT !.env[d] = token].unit = h.unit
BY DEF Sound, Hosts

LEMMA BareSound ==
    ASSUME NEW h, Sound(h)
    PROVE  /\ Sound([h EXCEPT !.box = NoBox])
           /\ [h EXCEPT !.box = NoBox].manager = h.manager
           /\ [h EXCEPT !.box = NoBox].env = h.env
           /\ [h EXCEPT !.box = NoBox].cwd = h.cwd
           /\ [h EXCEPT !.box = NoBox].box.is = "none"
BY DEF Sound, Hosts, NoBox, Tokens

LEMMA BoxedSound ==
    ASSUME NEW h, Sound(h), NEW d \in Dirs, NEW v \in Versions
    PROVE  /\ Sound(Boxed(h, d, v))
           /\ Boxed(h, d, v).manager = h.manager
           /\ Boxed(h, d, v).env = h.env
           /\ Boxed(h, d, v).cwd = h.cwd
           /\ Boxed(h, d, v).box.is = "owned"
           /\ Boxed(h, d, v).box.dir = d
           /\ Boxed(h, d, v).box.token = h.env[d]
BY DEF Sound, Hosts, Boxed

\* The deployment of a container leaves a machine that makes sense; when it succeeds
\* the container is in the directory asked for, with the token of its file.
LEMMA DeployDockerFits ==
    ASSUME NEW h, Sound(h), NEW u \in Ups, NEW d \in Dirs, NEW v \in Versions,
           NEW token \in Tokens, NEW o \in DeployDocker(h, u, d, v, token)
    PROVE  /\ Fits(o.to, h)
           /\ o.ok => /\ o.to[1].box.is = "owned" /\ o.to[1].box.dir = d
                      /\ o.to[1].box.token = token /\ o.to[1].env[d] = token
<1> DEFINE wrote == [h EXCEPT !.env[d] = token]
           bare  == [wrote EXCEPT !.box = NoBox]
           made  == Boxed(wrote, d, v)
           free  == Without("docker", u)
<1>1. Sound(wrote) /\ wrote.manager = h.manager /\ wrote.env[d] = token
  BY WritesSound
<1>2. Sound(bare) /\ bare.manager = h.manager
  BY <1>1, BareSound
<1>3. /\ Sound(made) /\ made.manager = h.manager /\ made.env[d] = token
      /\ made.box.is = "owned" /\ made.box.dir = d /\ made.box.token = token
  <2> HIDE DEF wrote
  <2> QED
    BY <1>1, BoxedSound
<1>4. free \in Ups
  BY WithoutFits
<1>5. \/ o \in Cut({<<h, u>>, <<wrote, u>>})
      \/ o \in Cut(Starts(made, u) \union Busy(made, u))
      \/ o \in Done(Starts(made, u) \union Busy(made, u))
      \/ o \in Cut({<<bare, free>>} \union Starts(made, free) \union Busy(made, free))
      \/ o \in Done(Starts(made, free))
  BY DEF DeployDocker
<1> HIDE DEF wrote, bare, made, free
<1>6. CASE o \in Cut({<<h, u>>, <<wrote, u>>})
  <2>1. o.to \in {<<h, u>>, <<wrote, u>>} /\ ~o.ok
    BY <1>6, CutOrDone
  <2> QED
    BY <2>1, <1>1 DEF Fits
<1>7. ASSUME o.to \in Starts(made, u) \union Busy(made, u)
      PROVE  o.to[1] = made /\ o.to[2] \in Ups
  BY <1>7, StartsKeep
<1>8. ASSUME o.to \in Starts(made, free) \union Busy(made, free)
      PROVE  o.to[1] = made /\ o.to[2] \in Ups
  BY <1>8, <1>4, StartsKeep
<1>9. CASE \/ o \in Cut(Starts(made, u) \union Busy(made, u))
           \/ o \in Done(Starts(made, u) \union Busy(made, u))
  <2>1. o.to \in Starts(made, u) \union Busy(made, u)
    BY <1>9, CutOrDone
  <2> QED
    BY <2>1, <1>7, <1>3 DEF Fits
<1>10. CASE o \in Cut({<<bare, free>>} \union Starts(made, free) \union Busy(made, free))
  <2>1. o.to \in {<<bare, free>>} \union Starts(made, free) \union Busy(made, free) /\ ~o.ok
    BY <1>10, CutOrDone
  <2>2. CASE o.to = <<bare, free>>
    BY <2>1, <2>2, <1>2, <1>4 DEF Fits
  <2>3. CASE o.to \in Starts(made, free) \union Busy(made, free)
    BY <2>1, <2>3, <1>8, <1>3 DEF Fits
  <2> QED
    BY <2>1, <2>2, <2>3
<1>11. CASE o \in Done(Starts(made, free))
  <2>1. o.to \in Starts(made, free)
    BY <1>11, CutOrDone
  <2> QED
    BY <2>1, <1>8, <1>3 DEF Fits
<1> QED
  BY <1>5, <1>6, <1>9, <1>10, <1>11

\* A service that is restarted reads its files and keeps them.
LEMMA RestartsFit ==
    ASSUME NEW h, Sound(h), NEW u \in Ups, NEW s \in Restarts(h, u)
    PROVE  /\ Fits(s, h)
           /\ s[1].unit = h.unit /\ s[1].releases = h.releases
<1> DEFINE new == [h EXCEPT !.svc = [dir |-> h.unit.dir, version |-> h.unit.current,
                                     token |-> h.env[h.unit.dir]]]
<1>1. ASSUME h.unit.current \in Versions
      PROVE  /\ Sound(new) /\ new.manager = h.manager
             /\ new.unit = h.unit /\ new.releases = h.releases
  <2>1. h.unit.dir \in Dirs /\ h.env[h.unit.dir] \in Tokens
    BY <1>1 DEF Sound, Hosts
  <2> QED
    BY <1>1, <2>1 DEF Sound, Hosts
<1>2. CASE h.unit.current \notin Versions
  <2>1. s = <<h, Without("native", u)>>
    BY <1>2 DEF Restarts
  <2> QED
    BY <2>1, WithoutFits DEF Fits
<1>3. CASE h.unit.current \in Versions
  <2>1. s \in {<<new, u>>, <<new, "native">>}
    BY <1>3 DEF Restarts
  <2> HIDE DEF new
  <2> QED
    BY <2>1, <1>1, <1>3 DEF Fits, Ups
<1> QED
  BY <1>2, <1>3

LEMMA LinkedSound ==
    ASSUME NEW h, Sound(h), NEW current \in Versions \union {"none", "loop"},
           current \in Versions => h.unit.dir \in Dirs /\ h.releases[current] = "full"
    PROVE  /\ Sound(Linked(h, current))
           /\ Linked(h, current).manager = h.manager
           /\ Linked(h, current).releases = h.releases
           /\ Linked(h, current).unit.dir = h.unit.dir
BY DEF Sound, Hosts, Linked

\* A switch of releases, undone or not, ends on one that is whole.
LEMMA SwitchFits ==
    ASSUME NEW h, Sound(h), NEW u \in Ups, h.unit.dir \in Dirs,
           NEW v \in Versions, h.releases[v] = "full",
           NEW previous \in Versions \union {"none", "loop"},
           previous \in Versions => h.releases[previous] = "full",
           NEW who, NEW o \in Switch(h, u, v, previous, who)
    PROVE  Fits(o.to, h)
<1> DEFINE linked    == Linked(h, v)
           restarted == Restarts(linked, u)
           back      == {<<Linked(s[1], previous), Without("native", s[2])>> : s \in restarted}
<1>1. /\ Sound(linked) /\ linked.manager = h.manager
      /\ linked.releases = h.releases /\ linked.unit.dir = h.unit.dir
  BY LinkedSound
<1> HIDE DEF linked
<1>2. ASSUME NEW s \in restarted
      PROVE  /\ Fits(s, h)
             /\ s[1].releases = h.releases /\ s[1].unit.dir = h.unit.dir
  BY <1>1, RestartsFit DEF Fits
<1>3. ASSUME NEW s \in back
      PROVE  Fits(s, h)
  <2>1. PICK r \in restarted : s = <<Linked(r[1], previous), Without("native", r[2])>>
    OBVIOUS
  <2> HIDE DEF restarted, back
  <2>2. Sound(r[1]) /\ r[2] \in Ups /\ r[1].manager = h.manager
    BY <1>2 DEF Fits
  <2>3. previous \in Versions => r[1].unit.dir \in Dirs /\ r[1].releases[previous] = "full"
    BY <1>2
  <2>4. Sound(Linked(r[1], previous)) /\ Linked(r[1], previous).manager = h.manager
    BY <2>2, <2>3, LinkedSound
  <2> QED
    BY <2>1, <2>2, <2>4, WithoutFits DEF Fits
<1>4. \/ o \in Cut({<<linked, u>>} \union restarted \union back)
      \/ o \in Cut(UNION {Restarts(s[1], s[2]) : s \in back})
      \/ o \in Done({s \in restarted : s[2] \in who /\ Serves(s[1], s[2])})
  BY DEF Switch, linked
<1> HIDE DEF restarted, back
<1>5. CASE o \in Cut({<<linked, u>>} \union restarted \union back)
  <2>1. o.to \in {<<linked, u>>} \union restarted \union back
    BY <1>5, CutOrDone
  <2> QED
    BY <2>1, <1>1, <1>2, <1>3 DEF Fits
<1>6. CASE o \in Cut(UNION {Restarts(s[1], s[2]) : s \in back})
  <2>1. o.to \in UNION {Restarts(s[1], s[2]) : s \in back}
    BY <1>6, CutOrDone
  <2>2. PICK s \in back : o.to \in Restarts(s[1], s[2])
    BY <2>1
  <2> QED
    BY <2>2, <1>3, RestartsFit DEF Fits
<1>7. CASE o \in Done({s \in restarted : s[2] \in who /\ Serves(s[1], s[2])})
  <2>1. o.to \in {s \in restarted : s[2] \in who /\ Serves(s[1], s[2])}
    BY <1>7, CutOrDone
  <2> QED
    BY <2>1, <1>2
<1> QED
  BY <1>4, <1>5, <1>6, <1>7

\* A release that is being installed is not the current one.
LEMMA InstallingFits ==
    ASSUME NEW h, Sound(h), NEW u \in Ups, NEW v \in Versions, NEW s \in Installing(h, u, v)
    PROVE  Fits(s, h)
<1>1. h.releases[v] # "full"
  BY DEF Installing
<1>2. PICK r \in {"absent", "partial", "full"} : s = <<[h EXCEPT !.releases[v] = r], u>>
  BY <1>1 DEF Installing
<1>3. /\ Sound([h EXCEPT !.releases[v] = r])
      /\ [h EXCEPT !.releases[v] = r].manager = h.manager
  BY <1>1 DEF Sound, Hosts
<1> QED
  BY <1>2, <1>3 DEF Fits

LEMMA FullSound ==
    ASSUME NEW h, Sound(h), NEW v \in Versions
    PROVE  /\ Sound([h EXCEPT !.releases[v] = "full"])
           /\ [h EXCEPT !.releases[v] = "full"].manager = h.manager
           /\ [h EXCEPT !.releases[v] = "full"].unit = h.unit
           /\ [h EXCEPT !.releases[v] = "full"].releases = [h.releases EXCEPT ![v] = "full"]
           /\ [h EXCEPT !.releases[v] = "full"].releases[v] = "full"
           /\ \A w \in Versions : h.releases[w] = "full"
                  => [h EXCEPT !.releases[v] = "full"].releases[w] = "full"
BY DEF Sound, Hosts

\* A native deployment leaves a machine whose current release is whole.
LEMMA DeployNativeFits ==
    ASSUME NEW h, Sound(h), NEW u \in Ups, NEW d \in Dirs, NEW v \in Versions,
           NEW token \in Tokens, NEW o \in DeployNative(h, u, d, v, token)
    PROVE  Fits(o.to, h)
<1> DEFINE full   == [h EXCEPT !.releases[v] = "full"]
           wrote  == [full EXCEPT !.env[d] = token]
           placed == [wrote EXCEPT !.unit.dir = d]
<1>1. /\ Sound(full) /\ full.manager = h.manager /\ full.unit = h.unit
      /\ full.releases[v] = "full"
      /\ \A w \in Versions : h.releases[w] = "full" => full.releases[w] = "full"
  BY FullSound
<1> HIDE DEF full
<1>2. /\ Sound(wrote) /\ wrote.manager = h.manager /\ wrote.unit = h.unit
      /\ wrote.releases = full.releases
  BY <1>1, WritesSound
<1> HIDE DEF wrote
<1>3. /\ Sound(placed) /\ placed.manager = h.manager
      /\ placed.releases = full.releases /\ placed.unit.dir = d
  BY <1>2 DEF Sound, Hosts
<1>4. /\ Previous(h) \in Versions \union {"none", "loop"}
      /\ Previous(h) \in Versions => placed.releases[Previous(h)] = "full"
  <2>1. Previous(h) \in Versions => Previous(h) = h.unit.current
    BY ProvisioningAssumption DEF Previous
  <2>2. h.unit.current \in Versions => h.releases[h.unit.current] = "full"
    BY DEF Sound
  <2>3. Previous(h) \in Versions \union {"none", "loop"}
    BY DEF Previous, Sound, Hosts
  <2> QED
    BY <2>1, <2>2, <2>3, <1>1, <1>3
<1>5. \/ o \in Cut({<<h, u>>, <<wrote, u>>, <<placed, u>>} \union Installing(h, u, v))
      \/ o \in Switch(placed, u, v, Previous(h), {"native", "docker"})
  BY DEF DeployNative, full, wrote
<1> HIDE DEF placed
<1>6. CASE o \in Cut({<<h, u>>, <<wrote, u>>, <<placed, u>>} \union Installing(h, u, v))
  <2>1. o.to \in {<<h, u>>, <<wrote, u>>, <<placed, u>>} \union Installing(h, u, v)
    BY <1>6, CutOrDone
  <2>2. CASE o.to \in Installing(h, u, v)
    BY <2>2, InstallingFits
  <2>3. CASE o.to \in {<<h, u>>, <<wrote, u>>, <<placed, u>>}
    BY <2>3, <1>2, <1>3 DEF Fits
  <2> QED
    BY <2>1, <2>2, <2>3
<1>7. CASE o \in Switch(placed, u, v, Previous(h), {"native", "docker"})
  <2>1. Fits(o.to, placed)
    BY <1>7, <1>1, <1>3, <1>4, SwitchFits
  <2> QED
    BY <2>1, <1>3 DEF Fits
<1> QED
  BY <1>5, <1>6, <1>7

\* The same for an update of the service by the manager.
LEMMA UpdateNativeFits ==
    ASSUME NEW h, Sound(h), NEW u \in Ups, NEW v \in Versions, NEW o \in UpdateNative(h, u, v)
    PROVE  Fits(o.to, h)
<1> DEFINE full == [h EXCEPT !.releases[v] = "full"]
<1>1. /\ Sound(full) /\ full.manager = h.manager /\ full.unit = h.unit
      /\ full.releases[v] = "full"
      /\ \A w \in Versions : h.releases[w] = "full" => full.releases[w] = "full"
  BY FullSound
<1>2. \/ o \in Cut({<<h, u>>})
      \/ o \in Done({<<h, u>>})
      \/ o \in Cut(Installing(h, u, v))
      \/ /\ h.unit.current \in Versions
         /\ o \in Switch(full, u, v, h.unit.current, {"native"})
  BY DEF UpdateNative
<1> HIDE DEF full
<1>3. CASE o \in Cut({<<h, u>>}) \/ o \in Done({<<h, u>>})
  <2>1. o.to \in {<<h, u>>}
    BY <1>3, CutOrDone
  <2> QED
    BY <2>1 DEF Fits
<1>4. CASE o \in Cut(Installing(h, u, v))
  <2>1. o.to \in Installing(h, u, v)
    BY <1>4, CutOrDone
  <2> QED
    BY <2>1, InstallingFits
<1>5. CASE /\ h.unit.current \in Versions
           /\ o \in Switch(full, u, v, h.unit.current, {"native"})
  <2>1. h.unit.dir \in Dirs /\ h.releases[h.unit.current] = "full"
    BY <1>5 DEF Sound
  <2>2. Fits(o.to, full)
    BY <1>5, <2>1, <1>1, SwitchFits
  <2> QED
    BY <2>2, <1>1 DEF Fits
<1> QED
  BY <1>2, <1>3, <1>4, <1>5

\* The container, when it is the manager's, is the one of its directory; nothing
\* native has the port.
Managed(h, u) ==
    /\ u # "native"
    /\ u = "docker" => h.box.is = "owned"
    /\ h.box.is = "owned" => /\ h.box.dir = h.manager.dir
                             /\ h.box.token = h.env[h.manager.dir]

\* An update of the container keeps the directories, and a container that is the
\* manager's stays so wherever the script is cut off.
LEMMA UpdateDockerFits ==
    ASSUME NEW h, Sound(h), NEW u \in Ups, NEW v \in Versions, NEW o \in UpdateDocker(h, u, v)
    PROVE  /\ Fits(o.to, h)
           /\ o.to[1].env = h.env /\ o.to[1].cwd = h.cwd
           /\ Managed(h, u) => Managed(o.to[1], o.to[2])
<1> DEFINE bare == [h EXCEPT !.box = NoBox]
           made == Boxed(h, h.manager.dir, v)
           free == Without("docker", u)
           ran  == Starts(made, free) \union Busy(made, free)
<1>1. CASE o \in Cut({<<h, u>>})
  <2>1. o.to \in {<<h, u>>}
    BY <1>1, CutOrDone
  <2> QED
    BY <2>1 DEF Fits
<1>2. CASE o \notin Cut({<<h, u>>})
  <2>1. ValidDocker(h)
    BY <1>2 DEF UpdateDocker
  <2>2. h.manager.dir \in Dirs
    BY <2>1 DEF ValidDocker, Sound
  <2>3. /\ Sound(bare) /\ bare.manager = h.manager /\ bare.env = h.env /\ bare.cwd = h.cwd
        /\ bare.box.is = "none"
    BY BareSound
  <2>4. /\ Sound(made) /\ made.manager = h.manager /\ made.env = h.env /\ made.cwd = h.cwd
        /\ made.box.is = "owned" /\ made.box.dir = h.manager.dir
        /\ made.box.token = h.env[h.manager.dir]
    BY <2>2, BoxedSound
  <2>5. free \in Ups /\ free # "docker" /\ (u # "native" => free # "native")
    BY DEF Without, Ups
  <2>6. \/ o \in Done(Starts(h, u) \union Busy(h, u))
        \/ o \in Cut({<<h, free>>, <<bare, free>>} \union ran)
        \/ o \in Cut(Starts(h, free) \union Busy(h, free))
        \/ o \in Done({s \in ran : Serves(s[1], s[2])})
    BY <1>2, <2>1 DEF UpdateDocker
  <2> HIDE DEF bare, made, free, ran
  <2>7. ASSUME NEW g, NEW w \in Ups, o.to \in Starts(g, w) \union Busy(g, w)
        PROVE  /\ o.to[1] = g /\ o.to[2] \in Ups
               /\ w # "native" => o.to[2] = "docker"
    BY <2>7 DEF Starts, Busy, Ups
  <2>8. h.box.is = "owned"
    BY <2>1 DEF ValidDocker
  <2>9. CASE o.to \in Starts(h, u) \union Busy(h, u)
    BY <2>9, <2>7, <2>8 DEF Fits, Managed
  <2>10. CASE o.to \in Starts(h, free) \union Busy(h, free)
    BY <2>10, <2>7, <2>8, <2>5 DEF Fits, Managed
  <2>11. CASE o.to \in ran
    <3>1. o.to[1] = made /\ o.to[2] \in Ups /\ (free # "native" => o.to[2] = "docker")
      BY <2>11, <2>7, <2>5 DEF ran
    <3> QED
      BY <3>1, <2>4, <2>5 DEF Fits, Managed
  <2>12. CASE o.to \in {<<h, free>>, <<bare, free>>}
    BY <2>12, <2>3, <2>5 DEF Fits, Managed
  <2>13. \/ o.to \in Starts(h, u) \union Busy(h, u)
         \/ o.to \in Starts(h, free) \union Busy(h, free)
         \/ o.to \in ran
         \/ o.to \in {<<h, free>>, <<bare, free>>}
    BY <2>6, CutOrDone
  <2> QED
    BY <2>9, <2>10, <2>11, <2>12, <2>13
<1> QED
  BY <1>1, <1>2

-----------------------------------------------------------------------------
(* The steps: a request and its lease *)

LEMMA Kinds ==
    /\ \A j \in Jobs : j \in Tasks /\ j \notin Activators /\ j \notin Updaters
    /\ \A a \in Activators : a \in Tasks /\ a \notin Jobs /\ a \notin Updaters
    /\ \A u \in Updaters : u \in Tasks /\ u \notin Jobs /\ u \notin Activators
    /\ \A x \in Tasks : x \in Mutators /\ x # NoLease
BY ProvisioningAssumption, ExclusionAssumption DEF Tasks

\* The type invariant, conjunct by conjunct.
LEMMA TypedBefore ==
    ProvisioningTypeOK <=>
        /\ ExclusionTypeOK /\ host \in Hosts /\ up \in Ups /\ latest \in Versions
        /\ config \in Config /\ lock \in BOOLEAN /\ task \in [Tasks -> Task]
        /\ unsettled \in BOOLEAN /\ faults \in 0 .. MaxFaults
BY DEF ProvisioningTypeOK, Ups, Config, Task

LEMMA TypedAfter ==
    ProvisioningTypeOK' <=>
        /\ ExclusionTypeOK' /\ host' \in Hosts /\ up' \in Ups /\ latest' \in Versions
        /\ config' \in Config /\ lock' \in BOOLEAN /\ task' \in [Tasks -> Task]
        /\ unsettled' \in BOOLEAN /\ faults' \in 0 .. MaxFaults
BY DEF ProvisioningTypeOK, Ups, Config, Task

\* What the type invariant says, for the steps to cite.
LEMMA Typed ==
    ASSUME ProvisioningIInv
    PROVE  /\ task \in [Tasks -> Task] /\ config \in Config /\ up \in Ups
           /\ host \in Hosts /\ Sound(host) /\ latest \in Versions
           /\ mutationLease \in Mutators \union {NoLease} /\ unsettled \in BOOLEAN
BY TypedBefore DEF ProvisioningIInv, ExclusionTypeOK

LEMMA InitHolds ==
    ASSUME Init
    PROVE  ProvisioningIInv
<1>2. Sound(host)
  BY ProvisioningAssumption DEF Init, Sound, Hosts, NoBox, Tokens, Cwds
<1>1. ProvisioningTypeOK
  <2>1. ExclusionTypeOK
    BY DEF Init, ExclusionInit, ExclusionTypeOK
  <2>2. config \in Config
    BY DEF Init, Config, Tokens, Cwds
  <2>4. [pc |-> "idle", mode |-> "docker", dir |-> NoDir, path |-> MainPath, given |-> FALSE,
         aligns |-> TRUE, seen |-> 0, token |-> NoToken, before |-> Home] \in Task
    BY ProvisioningAssumption DEF Task, Tokens, Cwds
  <2>5. task \in [Tasks -> Task]
    BY <2>4 DEF Init
  <2>3. up \in Ups /\ latest \in Versions /\ lock \in BOOLEAN /\ unsettled \in BOOLEAN
    BY DEF Init, Ups
  <2>6. faults = 0 /\ MaxFaults \in Nat
    BY ProvisioningAssumption DEF Init
  <2>7. faults \in 0 .. MaxFaults
    BY <2>6
  <2> QED
    BY <1>2, <2>1, <2>2, <2>3, <2>5, <2>7, TypedBefore DEF Sound
<1>3. \A x \in Tasks : task[x].pc = "idle" /\ task[x].aligns = TRUE /\ task[x].path = MainPath
  BY DEF Init
<1>4. Steps /\ LeaseIsHeld
  BY <1>3, Kinds DEF Steps, LeaseIsHeld, Running, Deploying, Activating
<1>5. JobsKnow /\ ActivatorsKnow
  BY <1>3, Kinds DEF JobsKnow, JobKnows, ActivatorsKnow, ActivatorKnows, Deploying, Activating
<1>6. Settled
  BY DEF Settled, Init
<1> QED
  BY <1>1, <1>2, <1>4, <1>5, <1>6 DEF ProvisioningIInv

\* A step that changes one request leaves the others as they are.
LEMMA OneMoves ==
    ASSUME ProvisioningIInv, NEW x \in Tasks, NEW t \in Task, task' = [task EXCEPT ![x] = t]
    PROVE  /\ task' \in [Tasks -> Task] /\ task'[x] = t
           /\ \A y \in Tasks : y # x => task'[y] = task[y]
BY Typed

LEMMA SettledFrame ==
    ASSUME Settled, UNCHANGED <<host, up, config>>, ~unsettled' => ~unsettled, Quiet' => Quiet,
           \A a \in Activators : task'[a] = task[a]
    PROVE  Settled'
BY DEF Settled, AllPlaced

LEMMA ActivatorsFrame ==
    ASSUME ActivatorsKnow, UNCHANGED <<host, config>>,
           \A a \in Activators : task'[a] = task[a]
    PROVE  ActivatorsKnow'
BY DEF ActivatorsKnow

LEMMA JobsFrame ==
    ASSUME JobsKnow, UNCHANGED <<host, config>>, \A j \in Jobs : task'[j] = task[j]
    PROVE  JobsKnow'
BY DEF JobsKnow

\* A request that goes on under its lease, or leaves it.
LEMMA LeaseFrame ==
    ASSUME ProvisioningIInv, NEW x \in Tasks, \A y \in Tasks : y # x => task'[y] = task[y],
           task[x].pc \in Running \union {"update"}, mutationLease' \in {mutationLease, NoLease},
           mutationLease' = mutationLease \/ task'[x].pc \notin Running \union {"update"}
    PROVE  LeaseIsHeld'
<1>1. mutationLease = x
  BY DEF ProvisioningIInv, LeaseIsHeld
<1>2. \A y \in Tasks : y # x => task'[y].pc \notin Running \union {"update"}
  BY <1>1 DEF ProvisioningIInv, LeaseIsHeld
<1> QED
  BY <1>1, <1>2 DEF LeaseIsHeld

\* One that does not have the lease, and does not take it.
LEMMA LeaselessFrame ==
    ASSUME ProvisioningIInv, NEW x \in Tasks, \A y \in Tasks : y # x => task'[y] = task[y],
           mutationLease' = mutationLease, task'[x].pc \notin Running \union {"update"}
    PROVE  LeaseIsHeld'
BY DEF ProvisioningIInv, LeaseIsHeld

LEMMA PostKeeps ==
    ASSUME ProvisioningIInv, NEW j \in Jobs, Post(j)
    PROVE  ProvisioningIInv'
<1> USE Kinds
<1>1. PICK mode \in Modes, dir \in Dirs, given \in BOOLEAN :
          task' = [task EXCEPT ![j] = [task[j] EXCEPT !.pc = "inspect", !.mode = mode, !.dir = dir,
                                                      !.given = given]]
  BY DEF Post
<1> DEFINE t == [task[j] EXCEPT !.pc = "inspect", !.mode = mode, !.dir = dir, !.given = given]
<1>2. /\ t \in Task /\ t.pc = "inspect" /\ t.dir \in Dirs
      /\ t.aligns = task[j].aligns /\ t.path = task[j].path
  <2>1. task[j] \in Task /\ mode \in {"docker", "native"}
    BY Typed, ProvisioningAssumption
  <2> QED
    BY <2>1 DEF Task
<1> HIDE DEF t
<1>3. /\ task' \in [Tasks -> Task] /\ task'[j] = t
      /\ \A y \in Tasks : y # j => task'[y] = task[y]
  BY <1>1, <1>2, OneMoves DEF t
<1>4. UNCHANGED <<exclusionVars, host, up, latest, config, unsettled, faults>> /\ lock' = TRUE
  BY DEF Post, KeepsHost
<1>5. ProvisioningTypeOK'
  BY <1>3, <1>4, TypedBefore, TypedAfter DEF ProvisioningIInv, ExclusionTypeOK, exclusionVars
<1>6. Sound(host)'
  BY <1>4 DEF ProvisioningIInv, Sound
<1>7. Steps'
  BY <1>2, <1>3 DEF ProvisioningIInv, Steps
<1>8. LeaseIsHeld'
  BY <1>2, <1>3, <1>4, LeaselessFrame DEF exclusionVars, Running, Deploying, Activating
<1>9. JobsKnow'
  <2>1. JobKnows(task[j], host, config)
    BY DEF ProvisioningIInv, JobsKnow
  <2>2. JobKnows(t, host, config)
    BY <1>2, <2>1 DEF JobKnows, Deploying, Activating
  <2> QED
    BY <1>3, <1>4, <2>2 DEF ProvisioningIInv, JobsKnow
<1>10. ActivatorsKnow'
  BY <1>3, <1>4, ActivatorsFrame DEF ProvisioningIInv
<1>11. Quiet' => Quiet
  BY <1>3 DEF Quiet, Post, Now, Deploying, Activating
<1>12. Settled'
  BY <1>3, <1>4, <1>11, SettledFrame DEF ProvisioningIInv
<1> QED
  BY <1>5, <1>6, <1>7, <1>8, <1>9, <1>10, <1>12 DEF ProvisioningIInv
\* Where a request that goes to pc is.
At(x, pc) == [task[x] EXCEPT !.pc = pc]

LEMMA Goes_ ==
    ASSUME ProvisioningIInv, NEW x \in Tasks,
           NEW pc \in {"inspect", "admitted", "chosen", "update"} \union Running \union Ended,
           Goes(x, pc)
    PROVE  /\ At(x, pc) \in Task /\ task' = [task EXCEPT ![x] = At(x, pc)]
           /\ At(x, pc).pc = pc
           /\ At(x, pc).mode = task[x].mode /\ At(x, pc).dir = task[x].dir
           /\ At(x, pc).path = task[x].path /\ At(x, pc).aligns = task[x].aligns
           /\ At(x, pc).seen = task[x].seen /\ At(x, pc).token = task[x].token
           /\ At(x, pc).before = task[x].before
<1>1. task \in [Tasks -> Task] /\ task[x] \in Task
  BY Typed
<1>2. At(x, pc) \in Task /\ At(x, pc).pc = pc
  BY <1>1 DEF At, Task
<1>3. /\ At(x, pc).mode = task[x].mode /\ At(x, pc).dir = task[x].dir
      /\ At(x, pc).path = task[x].path /\ At(x, pc).aligns = task[x].aligns
      /\ At(x, pc).seen = task[x].seen /\ At(x, pc).token = task[x].token
      /\ At(x, pc).before = task[x].before
  BY <1>1 DEF At, Task
<1>4. task' = [task EXCEPT ![x] = At(x, pc)]
  BY <1>1 DEF Goes, At
<1> QED
  BY <1>2, <1>3, <1>4

\* What the others know is not about what is changed under the lease of x.
LEMMA OthersKnow ==
    ASSUME ProvisioningIInv, NEW x \in Tasks, task[x].pc \in Running \union {"update"},
           \A y \in Tasks : y # x => task'[y] = task[y],
           config' \in Config, config'.revision >= config.revision
    PROVE  /\ \A j \in Jobs : j # x => JobKnows(task'[j], host', config')
           /\ \A a \in Activators : a # x => ActivatorKnows(task'[a], host', config')
<1>1. \A y \in Tasks : y # x => task[y].pc \notin Running \union {"update"}
  BY DEF ProvisioningIInv, LeaseIsHeld
<1>2. ASSUME NEW j \in Jobs, j # x
      PROVE  JobKnows(task'[j], host', config')
  <2>1. task'[j] = task[j] /\ JobKnows(task[j], host, config)
    BY <1>2, Kinds DEF ProvisioningIInv, JobsKnow
  <2>2. task[j].pc \notin Deploying \union Activating
    BY <1>1, <1>2, Kinds DEF Running
  <2> QED
    BY <2>1, <2>2 DEF JobKnows, Activating
<1>3. ASSUME NEW a \in Activators, a # x
      PROVE  ActivatorKnows(task'[a], host', config')
  <2>1. task'[a] = task[a] /\ ActivatorKnows(task[a], host, config)
    BY <1>3, Kinds DEF ProvisioningIInv, ActivatorsKnow
  <2>2. task[a].pc \notin Activating
    BY <1>1, <1>3, Kinds DEF Running
  <2>3. /\ task[a].seen \in Nat /\ config.revision \in Nat /\ config'.revision \in Nat
    BY <1>3, Typed, Kinds DEF Task, Config
  <2> QED
    BY <2>1, <2>2, <2>3 DEF ActivatorKnows, Activating
<1> QED
  BY <1>2, <1>3

\* A step under the lease of x.
LEMMA HolderKeeps ==
    ASSUME ProvisioningIInv, NEW x \in Tasks, task[x].pc \in Running \union {"update"},
           NEW t \in Task, task' = [task EXCEPT ![x] = t],
           x \in Jobs => t.pc \in Running \union Ended /\ JobKnows(t, host', config'),
           x \in Activators => t.pc \in Activating \union Ended /\ ActivatorKnows(t, host', config'),
           x \in Updaters => t.pc \in Ended,
           Sound(host'), up' \in Ups, config' \in Config, config'.revision >= config.revision,
           UNCHANGED <<latest, faults, runReservations, holders, followed>>,
           lock' \in BOOLEAN, unsettled' \in BOOLEAN,
           mutationLease' \in {mutationLease, NoLease},
           mutationLease' = mutationLease \/ t.pc \in Ended,
           Settled'
    PROVE  ProvisioningIInv'
<1>1. /\ task' \in [Tasks -> Task] /\ task'[x] = t
      /\ \A y \in Tasks : y # x => task'[y] = task[y]
  BY OneMoves
<1>2. ProvisioningTypeOK'
  <2>1. ExclusionTypeOK'
    BY TypedBefore DEF ProvisioningIInv, ExclusionTypeOK
  <2>2. host' \in Hosts
    BY DEF Sound
  <2> QED
    BY <1>1, <2>1, <2>2, TypedBefore, TypedAfter DEF ProvisioningIInv
<1>3. Steps'
  BY <1>1, Kinds DEF ProvisioningIInv, Steps
<1>4. t.pc \in Ended => t.pc \notin Running \union {"update"}
  BY DEF Ended, Running, Deploying, Activating
<1>5. LeaseIsHeld'
  BY <1>1, <1>4, LeaseFrame
<1>6. JobsKnow' /\ ActivatorsKnow'
  BY <1>1, OthersKnow DEF JobsKnow, ActivatorsKnow
<1> QED
  BY <1>2, <1>3, <1>5, <1>6 DEF ProvisioningIInv, Sound

LEMMA NotQuiet ==
    ASSUME NEW j \in Jobs, task'[j].pc \in Deploying \union Activating
    PROVE  Settled'
BY DEF Settled, Quiet

LEMMA Unsettled ==
    ASSUME unsettled' = TRUE
    PROVE  Settled'
BY DEF Settled

LEMMA JobAt ==
    ASSUME ProvisioningIInv, NEW j \in Jobs
    PROVE  JobKnows(task[j], host, config)
BY DEF ProvisioningIInv, JobsKnow

LEMMA ActivatorAt ==
    ASSUME ProvisioningIInv, NEW a \in Activators
    PROVE  ActivatorKnows(task[a], host, config)
BY DEF ProvisioningIInv, ActivatorsKnow

\* A job that ends without a success leaves its change half way.
LEMMA JobFails ==
    ASSUME ProvisioningIInv, NEW j \in Jobs, task[j].pc \in Running, Fails(j),
           Sound(host'), up' \in Ups, config' \in Config, config'.revision >= config.revision,
           UNCHANGED <<latest, faults>>
    PROVE  ProvisioningIInv'
<1>1. /\ At(j, "failed") \in Task /\ task' = [task EXCEPT ![j] = At(j, "failed")]
      /\ At(j, "failed").pc = "failed"
      /\ At(j, "failed").dir = task[j].dir
      /\ At(j, "failed").path = task[j].path /\ At(j, "failed").aligns = task[j].aligns
  BY Goes_, Kinds DEF Fails, Ended
<1>2. JobKnows(At(j, "failed"), host', config')
  <2>1. task[j].pc # "idle"
    BY DEF Running, Deploying, Activating
  <2> QED
    BY <1>1, <2>1, JobAt DEF JobKnows, Deploying, Activating
<1>3. unsettled' = TRUE
  BY DEF Fails
<1>4. Settled'
  BY <1>3, Unsettled
<1>5. /\ lock' \in BOOLEAN /\ mutationLease' \in {mutationLease, NoLease}
      /\ UNCHANGED <<runReservations, holders, followed>>
  BY DEF Fails, Leaves
<1> HIDE DEF At
<1> QED
  BY <1>1, <1>2, <1>3, <1>4, <1>5, Kinds, HolderKeeps DEF Ended

\* A job that goes on.
LEMMA JobGoesOn ==
    ASSUME ProvisioningIInv, NEW j \in Jobs, task[j].pc \in Running, NEW t \in Task,
           task' = [task EXCEPT ![j] = t], t.pc \in Deploying \union Activating,
           JobKnows(t, host', config'),
           Sound(host'), up' \in Ups, config' \in Config, config'.revision >= config.revision,
           UNCHANGED <<latest, faults, unsettled>>, KeepsMemory
    PROVE  ProvisioningIInv'
<1>1. task'[j] = t
  BY OneMoves, Kinds
<1>2. Settled'
  BY <1>1, NotQuiet
<1>3. UNCHANGED <<exclusionVars, lock>> /\ lock \in BOOLEAN /\ unsettled \in BOOLEAN
  BY TypedBefore DEF KeepsMemory, ProvisioningIInv
<1>4. t.pc \in Running \union Ended
  BY DEF Running
<1> QED
  BY <1>2, <1>3, <1>4, Kinds, HolderKeeps DEF exclusionVars

LEMMA JobProceeds ==
    ASSUME ProvisioningIInv, NEW j \in Jobs, task[j].pc \in Running,
           NEW pc \in Deploying \union Activating, Proceeds(j, pc),
           JobKnows(At(j, pc), host', config'),
           Sound(host'), up' \in Ups, config' \in Config, config'.revision >= config.revision,
           UNCHANGED <<latest, faults>>
    PROVE  ProvisioningIInv'
<1>1. CASE Fails(j)
  BY <1>1, JobFails
<1>2. CASE Goes(j, pc) /\ KeepsMemory /\ UNCHANGED unsettled
  <2>2. pc \in Running /\ j \in Tasks
    BY Kinds DEF Running
  <2>1. /\ At(j, pc) \in Task /\ task' = [task EXCEPT ![j] = At(j, pc)]
        /\ At(j, pc).pc = pc
    BY <1>2, <2>2, Goes_
  <2> QED
    BY <1>2, <2>1, JobGoesOn
<1> QED
  BY <1>1, <1>2 DEF Proceeds

LEMMA Same ==
    ASSUME ProvisioningIInv
    PROVE  config.revision >= config.revision /\ config.revision \in Nat
BY Typed DEF Config

LEMMA RejectsInvalidKeeps ==
    ASSUME ProvisioningIInv, RejectsInvalid
    PROVE  ProvisioningIInv'
<1>1. UNCHANGED <<exclusionVars, host, up, latest, config, task, unsettled, faults>> /\ lock' = FALSE
  BY DEF RejectsInvalid, KeepsHost
<1>2. ProvisioningTypeOK'
  BY <1>1, TypedBefore, TypedAfter DEF ProvisioningIInv, ExclusionTypeOK, exclusionVars
<1>3. Sound(host)' /\ Steps' /\ LeaseIsHeld' /\ JobsKnow' /\ ActivatorsKnow'
  BY <1>1 DEF ProvisioningIInv, Sound, Steps, LeaseIsHeld, JobsKnow, ActivatorsKnow, exclusionVars
<1>4. Settled'
  BY <1>1, SettledFrame DEF ProvisioningIInv, Quiet
<1> QED
  BY <1>2, <1>3, <1>4 DEF ProvisioningIInv

\* A job that does not have the lease yet.
LEMMA JobBefore ==
    ASSUME ProvisioningIInv, NEW j \in Jobs, task[j].pc \in {"inspect", "admitted"},
           NEW pc \in {"admitted", "prepare", "failed", "refused"}, Goes(j, pc),
           pc # "prepare" => UNCHANGED mutationLease,
           pc = "prepare" => mutationLease = NoLease /\ mutationLease' = j,
           UNCHANGED <<runReservations, holders, followed>>, lock' \in BOOLEAN,
           UNCHANGED <<config, unsettled, faults>>, KeepsHost
    PROVE  ProvisioningIInv'
<1> USE Kinds
<1> DEFINE t == At(j, pc)
<1>1. /\ t \in Task /\ task' = [task EXCEPT ![j] = t] /\ t.pc = pc
      /\ t.dir = task[j].dir /\ t.path = task[j].path /\ t.aligns = task[j].aligns
  BY Goes_ DEF Ended, Running
<1> HIDE DEF t
<1>2. /\ task' \in [Tasks -> Task] /\ task'[j] = t
      /\ \A y \in Tasks : y # j => task'[y] = task[y]
  BY <1>1, OneMoves
<1>3. UNCHANGED <<host, up, latest>>
  BY DEF KeepsHost
<1>4. ProvisioningTypeOK'
  <2>1. ExclusionTypeOK'
    BY TypedBefore DEF ProvisioningIInv, ExclusionTypeOK
  <2> QED
    BY <1>2, <1>3, <2>1, TypedBefore, TypedAfter DEF ProvisioningIInv
<1>5. Steps'
  BY <1>1, <1>2 DEF ProvisioningIInv, Steps, Ended, Running
<1>6. LeaseIsHeld'
  <2>1. CASE pc # "prepare"
    BY <2>1, <1>1, <1>2, LeaselessFrame DEF Ended, Running, Deploying, Activating
  <2>2. CASE pc = "prepare"
    BY <2>2, <1>1, <1>2 DEF ProvisioningIInv, LeaseIsHeld
  <2> QED
    BY <2>1, <2>2
<1>7. JobsKnow'
  <2>1. JobKnows(t, host, config)
    BY <1>1, JobAt DEF JobKnows, Deploying, Activating
  <2> QED
    BY <1>2, <1>3, <2>1 DEF ProvisioningIInv, JobsKnow
<1>8. ActivatorsKnow'
  BY <1>2, <1>3, ActivatorsFrame DEF ProvisioningIInv
<1>9. Quiet' => Quiet
  BY <1>2 DEF Quiet, Deploying, Activating
<1>10. Settled'
  BY <1>2, <1>3, <1>9, SettledFrame DEF ProvisioningIInv
<1> QED
  BY <1>3, <1>4, <1>5, <1>6, <1>7, <1>8, <1>10 DEF ProvisioningIInv, Sound

LEMMA InspectsKeeps ==
    ASSUME ProvisioningIInv, NEW j \in Jobs, Inspects(j)
    PROVE  ProvisioningIInv'
<1>1. task[j].pc = "inspect" /\ UNCHANGED <<config, faults>> /\ KeepsHost /\ lock \in BOOLEAN
  BY TypedBefore DEF Inspects, Now, ProvisioningIInv
<1>2. CASE Goes(j, "admitted") /\ KeepsMemory /\ UNCHANGED unsettled
  <2>1. UNCHANGED <<mutationLease, runReservations, holders, followed, lock>>
    BY <1>2 DEF KeepsMemory, exclusionVars
  <2> QED
    BY <1>1, <1>2, <2>1, JobBefore
<1>3. CASE Refuses(j)
  <2>1. /\ UNCHANGED <<mutationLease, runReservations, holders, followed>> /\ lock' = FALSE
        /\ Goes(j, "refused") /\ UNCHANGED unsettled
    BY <1>3 DEF Refuses, exclusionVars
  <2> QED
    BY <1>1, <2>1, JobBefore
<1> QED
  BY <1>2, <1>3 DEF Inspects

LEMMA CreatesJobKeeps ==
    ASSUME ProvisioningIInv, NEW j \in Jobs, CreatesJob(j)
    PROVE  ProvisioningIInv'
<1>1. task[j].pc = "admitted" /\ UNCHANGED <<config, faults>> /\ KeepsHost /\ lock \in BOOLEAN
  BY TypedBefore DEF CreatesJob, Now, ProvisioningIInv
<1>2. CASE AcquireMutationLease(j) /\ Goes(j, "prepare") /\ UNCHANGED <<lock, unsettled>>
  <2>1. /\ mutationLease = NoLease /\ mutationLease' = j
        /\ UNCHANGED <<runReservations, holders, followed>>
    BY <1>2 DEF AcquireMutationLease
  <2> QED
    BY <1>1, <1>2, <2>1, JobBefore
<1>3. CASE Refuses(j)
  <2>1. /\ UNCHANGED <<mutationLease, runReservations, holders, followed>> /\ lock' = FALSE
        /\ Goes(j, "refused") /\ UNCHANGED unsettled
    BY <1>3 DEF Refuses, exclusionVars
  <2> QED
    BY <1>1, <2>1, JobBefore
<1>4. CASE Goes(j, "failed") /\ lock' = FALSE /\ UNCHANGED <<exclusionVars, unsettled>>
  BY <1>1, <1>4, JobBefore DEF exclusionVars
<1> QED
  BY <1>2, <1>3, <1>4 DEF CreatesJob

-----------------------------------------------------------------------------
(* The steps: a job *)

LEMMA PreparesKeeps ==
    ASSUME ProvisioningIInv, NEW j \in Jobs, Prepares(j)
    PROVE  ProvisioningIInv'
<1> USE Kinds
<1> DEFINE managed == [host EXCEPT !.manager = [mode |-> task[j].mode, dir |-> task[j].dir]]
<1>1. /\ task[j].pc = "prepare" /\ task[j].pc \in Running
      /\ UNCHANGED <<up, latest, config, faults>>
      /\ config' \in Config /\ up' \in Ups /\ config'.revision >= config.revision
  BY Typed, Same DEF Prepares, Now, Running
<1>2. JobKnows(task[j], host, config) /\ task[j].dir \in Dirs
  BY <1>1, JobAt DEF JobKnows
<1>3. CASE host' = managed /\ Proceeds(j, "deploy")
  <2>1. /\ Sound(managed) /\ managed.manager.mode = task[j].mode
        /\ managed.manager.dir = task[j].dir
    <3>1. task[j].mode \in {"docker", "native"} /\ host \in Hosts /\ Sound(host)
      BY Typed DEF Task
    <3> QED
      BY <3>1, <1>2 DEF Sound, Hosts
  <2> HIDE DEF managed
  <2>2. ASSUME Goes(j, "deploy")
        PROVE  JobKnows(At(j, "deploy"), host', config')
    <3>1. /\ At(j, "deploy").pc = "deploy" /\ At(j, "deploy").mode = task[j].mode
          /\ At(j, "deploy").dir = task[j].dir
          /\ At(j, "deploy").path = task[j].path /\ At(j, "deploy").aligns = task[j].aligns
      BY <2>2, Goes_ DEF Running, Deploying
    <3> QED
      BY <3>1, <2>1, <1>2, <1>3 DEF JobKnows, Deploying, Activating
  <2>3. CASE Fails(j)
    BY <2>1, <2>3, <1>1, <1>3, JobFails
  <2>4. CASE Goes(j, "deploy")
    BY <2>1, <2>2, <2>4, <1>1, <1>3, JobProceeds DEF Deploying
  <2> QED
    BY <2>3, <2>4, <1>3 DEF Proceeds
<1>4. CASE UNCHANGED host /\ Goes(j, "failed") /\ Leaves(j) /\ UNCHANGED unsettled
  <2> DEFINE t == At(j, "failed")
  <2>1. /\ t \in Task /\ task' = [task EXCEPT ![j] = t] /\ t.pc = "failed"
        /\ t.dir = task[j].dir /\ t.path = task[j].path /\ t.aligns = task[j].aligns
    BY <1>4, Goes_ DEF Ended
  <2> HIDE DEF t
  <2>2. task'[j] = t /\ \A y \in Tasks : y # j => task'[y] = task[y]
    BY <2>1, OneMoves
  <2>3. JobKnows(t, host', config')
    BY <2>1, <1>1, <1>2, <1>4 DEF JobKnows, Deploying, Activating
  <2>4. Quiet' => Quiet
    BY <2>2, <1>1 DEF Quiet, Deploying, Activating
  <2>5. Settled'
    BY <2>2, <2>4, <1>1, <1>4, SettledFrame DEF ProvisioningIInv
  <2>6. /\ lock' \in BOOLEAN /\ mutationLease' \in {mutationLease, NoLease}
        /\ UNCHANGED <<runReservations, holders, followed>> /\ unsettled' \in BOOLEAN
        /\ Sound(host')
    BY <1>4, Typed DEF Leaves
  <2> QED
    BY <2>1, <2>3, <2>5, <2>6, <1>1, HolderKeeps DEF Ended
<1> QED
  BY <1>3, <1>4 DEF Prepares

LEMMA DeploysKeeps ==
    ASSUME ProvisioningIInv, NEW j \in Jobs, Deploys(j)
    PROVE  ProvisioningIInv'
<1> USE Kinds
<1> DEFINE d     == task[j].dir
           token == IF task[j].given \/ host.env[d] = NoToken THEN j ELSE host.env[d]
           pc    == IF task[j].mode = "docker" THEN "health" ELSE "verify"
           t     == [task[j] EXCEPT !.token = token, !.pc = pc]
<1>1. /\ task[j].pc = "deploy" /\ task[j].pc \in Running
      /\ UNCHANGED <<latest, config, faults>>
      /\ config' \in Config /\ config'.revision >= config.revision
  BY Typed, Same DEF Deploys, Now, Running, Deploying
<1>2. JobKnows(task[j], host, config) /\ d \in Dirs
  BY <1>1, JobAt DEF JobKnows
<1>3. token \in Tokens
  BY <1>2, Typed DEF Hosts, Tokens
<1>4. PICK o \in IF task[j].mode = "docker" THEN DeployDocker(host, up, d, latest, token)
                                            ELSE DeployNative(host, up, d, latest, token) :
          /\ host' = o.to[1] /\ up' = o.to[2]
          /\ IF o.ok
             THEN task' = [task EXCEPT ![j] = t] /\ KeepsMemory /\ UNCHANGED unsettled
             ELSE Fails(j)
  BY Typed DEF Deploys
<1> HIDE DEF d, token
<1>5. /\ Fits(o.to, host)
      /\ task[j].mode = "docker" /\ o.ok =>
             /\ o.to[1].box.is = "owned" /\ o.to[1].box.dir = d
             /\ o.to[1].box.token = token /\ o.to[1].env[d] = token
  <2>1. Sound(host) /\ up \in Ups /\ latest \in Versions
    BY Typed
  <2>2. CASE task[j].mode = "docker"
    <3>1. o \in DeployDocker(host, up, d, latest, token)
      BY <1>4, <2>2
    <3> QED
      BY <3>1, <2>1, <1>2, <1>3, DeployDockerFits
  <2>3. CASE task[j].mode # "docker"
    <3>1. o \in DeployNative(host, up, d, latest, token)
      BY <1>4, <2>3
    <3> QED
      BY <3>1, <2>1, <2>3, <1>2, <1>3, DeployNativeFits
  <2> QED
    BY <2>2, <2>3
<1>6. Sound(host') /\ up' \in Ups /\ host'.manager = host.manager
  BY <1>4, <1>5 DEF Fits
<1>7. CASE ~o.ok
  BY <1>1, <1>4, <1>6, <1>7, JobFails
<1>8. CASE o.ok
  <2>1. task[j] \in Task
    BY Typed
  <2>2. /\ t \in Task /\ t.pc = pc /\ t.token = token /\ t.mode = task[j].mode
        /\ t.dir = d /\ t.path = task[j].path /\ t.aligns = task[j].aligns
    BY <2>1, <1>3 DEF Task, d, Running, Deploying
  <2>3. task' = [task EXCEPT ![j] = t] /\ KeepsMemory /\ UNCHANGED unsettled
    BY <1>4, <1>8
  <2> HIDE DEF t
  <2>4. pc \in Deploying /\ pc \in {"health", "verify"}
    BY DEF Deploying
  <2>5. host'.manager.mode = t.mode /\ host'.manager.dir = t.dir
    BY <2>2, <1>1, <1>2, <1>6 DEF JobKnows, Deploying, d
  <2>6. t.mode = "docker" => /\ host'.box.is = "owned" /\ host'.box.dir = t.dir
                             /\ host'.box.token = t.token /\ host'.env[t.dir] = t.token
    BY <2>2, <1>4, <1>5, <1>8
  <2>7. pc = "health" => t.mode = "docker"
    BY <2>2
  <2>8. JobKnows(t, host', config')
    BY <2>2, <2>4, <2>5, <2>6, <2>7, <1>1, <1>2 DEF JobKnows, Activating, d
  <2> HIDE DEF pc
  <2> QED
    BY <2>2, <2>3, <2>4, <2>8, <1>1, <1>6, JobGoesOn
<1> QED
  BY <1>7, <1>8

\* A test of the machine between the deployment and the row: nothing that is known is
\* about the image of the dashboard.
LEMMA TestsKeep ==
    ASSUME ProvisioningIInv, NEW j \in Jobs, NEW pc \in {"dash", "verify", "save"},
           task[j].pc \in {"health", "dash", "verify"}, Proceeds(j, pc) \/ Fails(j),
           pc = "dash" => task[j].pc = "health",
           Sound(host'), host'.manager = host.manager, host'.box = host.box,
           host'.env = host.env,
           UNCHANGED <<up, latest, config, faults>>
    PROVE  ProvisioningIInv'
<1> USE Kinds
<1>1. /\ task[j].pc \in Running /\ config' \in Config /\ up' \in Ups
      /\ config'.revision >= config.revision
      /\ UNCHANGED <<latest, faults>>
  BY Typed, Same DEF Running, Deploying
<1>2. pc \in Deploying \union Activating /\ pc \in Running
  BY DEF Running, Deploying
<1>3. ASSUME Goes(j, pc)
      PROVE  JobKnows(At(j, pc), host', config')
  <2>1. /\ At(j, pc).pc = pc /\ At(j, pc).mode = task[j].mode
        /\ At(j, pc).dir = task[j].dir /\ At(j, pc).token = task[j].token
        /\ At(j, pc).path = task[j].path /\ At(j, pc).aligns = task[j].aligns
    BY <1>2, <1>3, Goes_
  <2>2. JobKnows(task[j], host, config)
    BY JobAt
  <2>3. host'.manager.mode = task[j].mode /\ host'.manager.dir = task[j].dir
    BY <2>2 DEF JobKnows, Deploying
  <2>4. task[j].mode = "docker" =>
            /\ host'.box.is = "owned" /\ host'.box.dir = task[j].dir
            /\ host'.box.token = task[j].token /\ host'.env[task[j].dir] = task[j].token
    BY <2>2 DEF JobKnows, Deploying
  <2>5. pc = "dash" => task[j].mode = "docker"
    BY <2>2 DEF JobKnows
  <2>6. /\ task[j].aligns = TRUE /\ task[j].path = MainPath /\ task[j].dir \in Dirs
    BY <2>2 DEF JobKnows
  <2> QED
    BY <2>1, <2>3, <2>4, <2>5, <2>6 DEF JobKnows, Activating
<1>4. CASE Fails(j)
  BY <1>1, <1>4, JobFails
<1>5. CASE Proceeds(j, pc)
  BY <1>1, <1>2, <1>3, <1>4, <1>5, JobProceeds DEF Proceeds
<1> QED
  BY <1>4, <1>5

LEMMA AwaitsHealthKeeps ==
    ASSUME ProvisioningIInv, NEW j \in Jobs, AwaitsHealth(j)
    PROVE  ProvisioningIInv'
BY Typed, TestsKeep DEF AwaitsHealth, Now, KeepsHost

LEMMA VerifiesKeeps ==
    ASSUME ProvisioningIInv, NEW j \in Jobs, Verifies(j)
    PROVE  ProvisioningIInv'
BY Typed, TestsKeep DEF Verifies, Now, KeepsHost

LEMMA EnsuresDashboardKeeps ==
    ASSUME ProvisioningIInv, NEW j \in Jobs, EnsuresDashboard(j)
    PROVE  ProvisioningIInv'
<1>1. PICK dash \in Versions \union {"none", "foreign"} :
          host' = host \/ host' = [host EXCEPT !.dash = dash]
  <2>1. host.box.version \in Versions
    <3>1. task[j].pc = "dash" /\ JobKnows(task[j], host, config)
      BY JobAt DEF EnsuresDashboard, Now
    <3> QED
      BY <3>1, Typed DEF JobKnows, Deploying, Sound
  <2> QED
    BY <2>1 DEF EnsuresDashboard
<1>2. /\ Sound(host') /\ host'.manager = host.manager /\ host'.box = host.box
      /\ host'.env = host.env
  BY <1>1, Typed DEF Sound, Hosts
<1>3. /\ task[j].pc = "dash" /\ (Proceeds(j, "verify") \/ Fails(j))
      /\ UNCHANGED <<up, latest, config, faults>>
  BY DEF EnsuresDashboard, Now
<1> QED
  BY <1>2, <1>3, TestsKeep

LEMMA SavesKeeps ==
    ASSUME ProvisioningIInv, NEW j \in Jobs, Saves(j)
    PROVE  ProvisioningIInv'
<1> USE Kinds
<1> DEFINE token   == task[j].token
           changed == config.revision = 0 \/ config.token # token \/ config.mode # task[j].mode
           next    == config.revision + (IF changed THEN 1 ELSE 0)
           row     == [config EXCEPT !.token = token, !.mode = task[j].mode, !.revision = next]
           t       == [task[j] EXCEPT !.pc = "align", !.seen = next]
<1>1. /\ task[j].pc = "save" /\ task[j].pc \in Running
      /\ UNCHANGED <<host, up, latest, faults>>
      /\ Sound(host') /\ up' \in Ups
  BY Typed DEF Saves, Now, Running, Deploying, KeepsHost
<1>2. JobKnows(task[j], host, config)
  BY JobAt
<1>3. task[j] \in Task /\ config \in Config
  BY Typed
<1>4. next \in Nat /\ next >= config.revision /\ next > 0
  BY <1>3 DEF Config
<1>5. /\ row \in Config /\ row.token = token /\ row.revision = next
  BY <1>3, <1>4 DEF Config, Task
<1>6. /\ t \in Task /\ t.pc = "align" /\ t.token = token /\ t.mode = task[j].mode
      /\ t.dir = task[j].dir /\ t.path = task[j].path /\ t.aligns = task[j].aligns
  BY <1>3, <1>4 DEF Task, Running, Activating
<1>7. \/ Fails(j) /\ config' \in {config, row}
      \/ /\ config' = row /\ task' = [task EXCEPT ![j] = t]
         /\ KeepsMemory /\ UNCHANGED unsettled
  BY <1>3 DEF Saves
<1> HIDE DEF row, t, next, token
<1>8. CASE Fails(j) /\ config' \in {config, row}
  <2>1. config' \in Config /\ config'.revision >= config.revision
    BY <1>3, <1>4, <1>5, <1>8, Same
  <2> QED
    BY <2>1, <1>1, <1>8, JobFails
<1>9. CASE /\ config' = row /\ task' = [task EXCEPT ![j] = t]
           /\ KeepsMemory /\ UNCHANGED unsettled
  <2>1. JobKnows(t, host', config')
    BY <1>1, <1>2, <1>4, <1>5, <1>6, <1>9 DEF JobKnows, Deploying, Activating, token
  <2>2. config' \in Config /\ config'.revision >= config.revision
    BY <1>4, <1>5, <1>9
  <2>3. t.pc \in Deploying \union Activating
    BY <1>6 DEF Activating
  <2> QED
    BY <2>1, <2>2, <2>3, <1>1, <1>6, <1>9, JobGoesOn
<1> QED
  BY <1>7, <1>8, <1>9

-----------------------------------------------------------------------------
(* The steps: the activation that ends a job *)

LEMMA CwdSound ==
    ASSUME NEW h, Sound(h), NEW d \in Dirs, NEW path \in Cwds
    PROVE  /\ Sound([h EXCEPT !.cwd[d] = path])
           /\ [h EXCEPT !.cwd[d] = path].manager = h.manager
           /\ [h EXCEPT !.cwd[d] = path].box = h.box
           /\ [h EXCEPT !.cwd[d] = path].env = h.env
           /\ [h EXCEPT !.cwd[d] = path].cwd[d] = path
BY DEF Sound, Hosts

LEMMA MapsSays ==
    ASSUME ProvisioningIInv, NEW x \in Tasks, Maps(x)
    PROVE  /\ host.manager.mode = "docker" /\ host.manager.dir = task[x].dir
           /\ host.box.is = "owned" /\ host.box.dir = task[x].dir
           /\ task[x].dir \in Dirs /\ up = "docker"
BY Typed DEF Maps, ValidDocker, Sound

\* A row that is made ready for a request.
Ready(t) == [config EXCEPT !.ready = TRUE, !.dir = t.dir, !.path = t.path, !.revision = @ + 1]

LEMMA ReadyRow ==
    ASSUME ProvisioningIInv, NEW t \in Task
    PROVE  /\ Ready(t) \in Config /\ Ready(t).token = config.token /\ Ready(t).ready = TRUE
           /\ Ready(t).dir = t.dir /\ Ready(t).path = t.path
           /\ Ready(t).revision = config.revision + 1
           /\ Ready(t).revision >= config.revision /\ Ready(t).revision > 0
<1>1. config \in Config /\ config.revision \in Nat
  BY Typed DEF Config
<1>2. t.dir \in Dirs \union {NoDir} /\ t.path \in Cwds
  BY DEF Task
<1>3. /\ Ready(t).token = config.token /\ Ready(t).ready = TRUE
      /\ Ready(t).dir = t.dir /\ Ready(t).path = t.path
      /\ Ready(t).revision = config.revision + 1
  BY <1>1 DEF Ready, Config
<1>4. Ready(t) \in Config
  <2>1. ASSUME NEW n \in Nat
        PROVE  [config EXCEPT !.ready = TRUE, !.dir = t.dir, !.path = t.path,
                              !.revision = n] \in Config
    BY <1>1, <1>2 DEF Config
  <2>2. Ready(t) = [config EXCEPT !.ready = TRUE, !.dir = t.dir, !.path = t.path,
                                  !.revision = config.revision + 1]
    BY DEF Ready
  <2>3. config.revision + 1 \in Nat
    BY <1>1
  <2> QED
    BY <2>1, <2>2, <2>3
<1> QED
  BY <1>1, <1>3, <1>4

\* Under the lease of x nobody else is at work.
LEMMA OthersRest ==
    ASSUME ProvisioningIInv, NEW x \in Tasks, task[x].pc \in Running \union {"update"},
           NEW a \in Activators, a # x
    PROVE  task[a].pc \notin Activating
BY Kinds DEF ProvisioningIInv, LeaseIsHeld, Running

LEMMA JobAlignsKeeps ==
    ASSUME ProvisioningIInv, NEW j \in Jobs, Aligns(j)
    PROVE  ProvisioningIInv'
<1> USE Kinds
<1> DEFINE d   == host.box.dir
           set == [host EXCEPT !.cwd[d] = task[j].path]
<1>1. /\ task[j].pc = "align" /\ task[j].pc \in Running
      /\ UNCHANGED <<up, latest, config, faults>>
      /\ config' \in Config /\ up' \in Ups /\ config'.revision >= config.revision
  BY Typed, Same DEF Aligns, Now, Running, Activating
<1>2. JobKnows(task[j], host, config) /\ task[j] \in Task
  BY JobAt, Typed
<1>3. CASE UNCHANGED host /\ Fails(j)
  <2>1. Sound(host')
    BY <1>3, Typed
  <2> QED
    BY <1>1, <1>3, <2>1, JobFails
<1>4. CASE /\ Maps(j) /\ host' = set
           /\ \/ /\ \E pc \in {"persist", "restore"} :
                     task' = [task EXCEPT ![j] = [task[j] EXCEPT !.pc = pc, !.before = host.cwd[d]]]
                 /\ KeepsMemory /\ UNCHANGED unsettled
              \/ Goes(j, "failed") /\ Leaves(j) /\ unsettled' = TRUE
  <2>1. /\ host.manager.mode = "docker" /\ host.manager.dir = task[j].dir
        /\ host.box.is = "owned" /\ host.box.dir = task[j].dir
        /\ task[j].dir \in Dirs
    BY <1>4, MapsSays
  <2>2. /\ Sound(set) /\ set.manager = host.manager /\ set.box = host.box
        /\ set.env = host.env /\ set.cwd[d] = task[j].path
    BY <1>2, <2>1, Typed, CwdSound DEF Task
  <2> HIDE DEF set
  <2>3. ASSUME NEW pc \in {"persist", "restore"},
               task' = [task EXCEPT ![j] = [task[j] EXCEPT !.pc = pc, !.before = host.cwd[d]]],
               KeepsMemory, UNCHANGED unsettled
        PROVE  ProvisioningIInv'
    <3> DEFINE t == [task[j] EXCEPT !.pc = pc, !.before = host.cwd[d]]
    <3>1. host.cwd[d] \in Cwds
      BY <2>1, Typed DEF Hosts
    <3>2. /\ t \in Task /\ t.pc = pc /\ t.token = task[j].token /\ t.mode = task[j].mode
          /\ t.dir = task[j].dir /\ t.path = task[j].path /\ t.aligns = task[j].aligns
      BY <1>2, <3>1 DEF Task, Running, Activating
    <3> HIDE DEF t
    <3>3. pc \in Activating /\ t.pc \in Deploying \union Activating
      BY <3>2 DEF Activating
    <3>4. task[j].pc \in Deploying \union Activating /\ task[j].pc \in Activating
      BY <1>1 DEF Activating
    <3>5. task[j].mode = "docker"
      BY <1>2, <2>1, <3>4 DEF JobKnows
    <3>6. /\ task[j].aligns = TRUE /\ task[j].path = MainPath
          /\ host.box.token = task[j].token /\ host.env[task[j].dir] = task[j].token
          /\ config.token = task[j].token /\ config.revision > 0
      BY <1>2, <3>4, <3>5 DEF JobKnows
    <3>7. JobKnows(t, host', config')
      BY <1>1, <1>4, <2>1, <2>2, <3>2, <3>5, <3>6 DEF JobKnows
    <3> QED
      BY <1>1, <1>4, <2>2, <2>3, <3>2, <3>3, <3>7, JobGoesOn DEF t
  <2>4. CASE Goes(j, "failed") /\ Leaves(j) /\ unsettled' = TRUE
    <3>1. Fails(j)
      BY <2>4 DEF Fails
    <3> QED
      BY <1>1, <1>4, <2>2, <3>1, JobFails
  <2> QED
    BY <1>4, <2>3, <2>4
<1>5. ~(Maps(j) /\ ~task[j].aligns)
  BY <1>2 DEF JobKnows
<1>6. \/ UNCHANGED host /\ Fails(j)
      \/ Maps(j) /\ ~task[j].aligns
      \/ /\ Maps(j) /\ host' = set
         /\ \/ /\ \E pc \in {"persist", "restore"} :
                   task' = [task EXCEPT ![j] = [task[j] EXCEPT !.pc = pc, !.before = host.cwd[d]]]
               /\ KeepsMemory /\ UNCHANGED unsettled
            \/ Goes(j, "failed") /\ Leaves(j) /\ unsettled' = TRUE
  BY <1>2, Typed DEF Aligns
<1> QED
  BY <1>3, <1>4, <1>5, <1>6

\* The success of a job: whatever the machine was, it is the configured one.
LEMMA JobConnects ==
    ASSUME ProvisioningIInv, NEW j \in Jobs, task[j].pc = "persist", up = "docker",
           UNCHANGED <<host, up>>, config' = Ready(task[j]),
           \A y \in Tasks : y # j => task'[y] = task[y]
    PROVE  Settled'
<1> USE Kinds
<1>1. JobKnows(task[j], host, config) /\ task[j] \in Task /\ task[j].pc \in Activating
  BY JobAt, Typed DEF Activating
<1>2. /\ task[j].mode = "docker" /\ host.cwd[task[j].dir] = task[j].path
      /\ task[j].dir \in Dirs
  BY <1>1 DEF JobKnows
<1>3. /\ host.manager.mode = "docker" /\ host.manager.dir = task[j].dir
      /\ host.box.is = "owned" /\ host.box.dir = task[j].dir
      /\ host.box.token = task[j].token /\ host.env[task[j].dir] = task[j].token
      /\ config.token = task[j].token
  BY <1>1, <1>2 DEF JobKnows
<1>4. /\ config'.token = config.token /\ config'.ready = TRUE
      /\ config'.dir = task[j].dir /\ config'.path = task[j].path
      /\ config'.revision = config.revision + 1
  BY <1>1, ReadyRow
<1>5. Connected(host', up', config')
  BY <1>2, <1>3, <1>4 DEF Connected
<1>6. ASSUME NEW a \in Activators
      PROVE  Placed(task'[a], host', config')
  <2>1. task[a].pc \notin Activating
    BY <1>1, OthersRest DEF Running
  <2>2. task'[a] = task[a] /\ task[a] \in Task /\ config.revision \in Nat
    BY Typed, Same
  <2>3. task[a].pc = "chosen" => task[a].seen <= config.revision
    BY ActivatorAt DEF ActivatorKnows
  <2>4. task[a].pc = "chosen" => task[a].seen # config'.revision
    BY <1>4, <2>2, <2>3 DEF Task
  <2> QED
    BY <2>1, <2>2, <2>4 DEF Placed, Tries, Activating
<1>7. host'.cwd[config'.dir] = config'.path
  BY <1>2, <1>4
<1> QED
  BY <1>5, <1>6, <1>7 DEF Settled, AllPlaced

LEMMA JobPersistsKeeps ==
    ASSUME ProvisioningIInv, NEW j \in Jobs, Persists(j)
    PROVE  ProvisioningIInv'
<1> USE Kinds
<1>1. /\ task[j].pc = "persist" /\ task[j].pc \in Running /\ task[j].pc \in Activating
      /\ UNCHANGED <<host, up, latest, faults>> /\ Sound(host') /\ up' \in Ups
  BY Typed DEF Persists, Now, Running, Activating, KeepsHost
<1>2. JobKnows(task[j], host, config) /\ task[j] \in Task
  BY JobAt, Typed
<1>3. /\ Ready(task[j]) \in Config /\ Ready(task[j]).token = config.token
      /\ Ready(task[j]).revision >= config.revision /\ Ready(task[j]).revision > 0
      /\ config \in Config /\ config.revision >= config.revision
  BY <1>2, ReadyRow, Typed, Same
<1>4. ASSUME NEW pc \in {"retract", "restore"}, Undoes(j, pc), config' \in {config, Ready(task[j])}
      PROVE  ProvisioningIInv'
  <2>1. Goes(j, pc) /\ KeepsMemory /\ UNCHANGED unsettled
    BY <1>2, <1>4 DEF Undoes, JobKnows
  <2>2. pc \in Activating /\ pc \in Running
    BY DEF Activating, Running
  <2>3. /\ At(j, pc).pc = pc /\ At(j, pc).mode = task[j].mode /\ At(j, pc) \in Task
        /\ At(j, pc).dir = task[j].dir /\ At(j, pc).token = task[j].token
        /\ At(j, pc).path = task[j].path /\ At(j, pc).aligns = task[j].aligns
        /\ task' = [task EXCEPT ![j] = At(j, pc)]
    BY <2>1, <2>2, Goes_
  <2>4. config'.token = config.token /\ config'.revision > 0
    BY <1>1, <1>2, <1>3, <1>4 DEF JobKnows
  <2>5. JobKnows(At(j, pc), host', config')
    BY <1>1, <1>2, <2>3, <2>4 DEF JobKnows, Deploying
  <2> HIDE DEF At
  <2> QED
    BY <1>1, <1>3, <1>4, <2>1, <2>2, <2>3, <2>5, JobGoesOn
<1>5. CASE /\ up = "docker" /\ config' = Ready(task[j])
           /\ Goes(j, "succeeded") /\ Leaves(j)
           /\ unsettled' = (unsettled /\ j \notin Jobs)
  <2>1. /\ At(j, "succeeded") \in Task /\ task' = [task EXCEPT ![j] = At(j, "succeeded")]
        /\ At(j, "succeeded").pc = "succeeded"
        /\ At(j, "succeeded").dir = task[j].dir
        /\ At(j, "succeeded").path = task[j].path /\ At(j, "succeeded").aligns = task[j].aligns
    BY <1>5, Goes_ DEF Ended
  <2>2. JobKnows(At(j, "succeeded"), host', config')
    BY <1>1, <1>2, <2>1 DEF JobKnows, Deploying, Activating
  <2>3. \A y \in Tasks : y # j => task'[y] = task[y]
    BY <2>1, OneMoves
  <2>4. Settled'
    BY <1>1, <1>5, <2>3, JobConnects
  <2>5. /\ lock' \in BOOLEAN /\ mutationLease' \in {mutationLease, NoLease}
        /\ UNCHANGED <<runReservations, holders, followed>> /\ unsettled' \in BOOLEAN
    BY <1>5 DEF Leaves
  <2> HIDE DEF At
  <2> QED
    BY <1>1, <1>3, <1>5, <2>1, <2>2, <2>4, <2>5, HolderKeeps DEF Ended
<1> QED
  BY <1>4, <1>5 DEF Persists, Ready

LEMMA JobRestoresKeeps ==
    ASSUME ProvisioningIInv, NEW j \in Jobs, Restores(j)
    PROVE  ProvisioningIInv'
<1> USE Kinds
<1>1. /\ task[j].pc \in Running /\ UNCHANGED <<up, latest, config, faults>>
      /\ config' \in Config /\ up' \in Ups /\ config'.revision >= config.revision
  BY Typed, Same DEF Restores, Running, Activating
<1>2. Fails(j)
  BY DEF Restores, Fails
<1>3. Sound(host')
  <2>1. CASE UNCHANGED host
    BY <2>1, Typed
  <2>2. CASE Maps(j) /\ host' = [host EXCEPT !.cwd[host.box.dir] = task[j].before]
    <3>1. host.box.dir \in Dirs /\ task[j].before \in Cwds /\ Sound(host)
      BY <2>2, MapsSays, Typed DEF Task
    <3> QED
      BY <2>2, <3>1, CwdSound
  <2> QED
    BY <2>1, <2>2 DEF Restores
<1> QED
  BY <1>1, <1>2, <1>3, JobFails

-----------------------------------------------------------------------------
(* The steps: an activation that is asked for by itself *)

\* An activation that ends.
LEMMA ActivatorEnds ==
    ASSUME ProvisioningIInv, NEW a \in Activators, task[a].pc \in Running,
           NEW pc \in {"succeeded", "failed"}, Goes(a, pc), Leaves(a),
           Sound(host'), up' \in Ups, config' \in Config, config'.revision >= config.revision,
           UNCHANGED <<latest, faults>>, unsettled' \in BOOLEAN, Settled'
    PROVE  ProvisioningIInv'
<1>1. /\ At(a, pc) \in Task /\ task' = [task EXCEPT ![a] = At(a, pc)] /\ At(a, pc).pc = pc
  BY Goes_, Kinds DEF Ended
<1>2. ActivatorKnows(At(a, pc), host', config')
  BY <1>1 DEF ActivatorKnows, Activating
<1>3. /\ lock' \in BOOLEAN /\ mutationLease' \in {mutationLease, NoLease}
      /\ UNCHANGED <<runReservations, holders, followed>>
  BY TypedBefore DEF Leaves, ProvisioningIInv
<1> HIDE DEF At
<1> QED
  BY <1>1, <1>2, <1>3, Kinds, HolderKeeps DEF Ended

\* One that goes on.
LEMMA ActivatorGoesOn ==
    ASSUME ProvisioningIInv, NEW a \in Activators, task[a].pc \in Running, NEW t \in Task,
           task' = [task EXCEPT ![a] = t], t.pc \in Activating,
           ActivatorKnows(t, host', config'),
           Sound(host'), up' \in Ups, config' \in Config, config'.revision >= config.revision,
           UNCHANGED <<latest, faults, unsettled>>, KeepsMemory, Settled'
    PROVE  ProvisioningIInv'
<1>1. UNCHANGED <<exclusionVars, lock>> /\ lock \in BOOLEAN /\ unsettled \in BOOLEAN
  BY TypedBefore DEF KeepsMemory, ProvisioningIInv
<1> QED
  BY <1>1, Kinds, HolderKeeps DEF exclusionVars

\* What is settled before a step of an activation other than the end of one whose row
\* is saved.
LEMMA SettledBefore ==
    ASSUME ProvisioningIInv, NEW a \in Activators, task[a].pc \in Activating \ {"retract"},
           \A y \in Tasks : y # a => task'[y] = task[y],
           ~unsettled' => ~unsettled, ~unsettled', Quiet'
    PROVE  Connected(host, up, config) /\ AllPlaced
<1>1. Quiet
  BY Kinds DEF Quiet
<1>2. config.revision > 0
  BY ActivatorAt DEF ActivatorKnows
<1> QED
  BY <1>1, <1>2 DEF ProvisioningIInv, Settled

\* When nothing has been set, terminal.cwd is the path of the row.
LEMMA NothingSet ==
    ASSUME ProvisioningIInv, NEW a \in Activators, task[a].pc \in Activating, ~Tries(task[a]),
           AllPlaced
    PROVE  host.cwd[config.dir] = config.path
<1>1. task[a].pc \in Running
  BY DEF Running
<1>2. \A b \in Activators : ~Tries(task[b])
  BY <1>1, OthersRest, Kinds DEF Tries, Activating
<1> QED
  BY <1>2 DEF AllPlaced

\* A step of an activation that leaves the machine and the row as they are, having
\* set nothing.
LEMMA SettledStill ==
    ASSUME ProvisioningIInv, NEW a \in Activators, task[a].pc \in Activating \ {"retract"},
           ~Tries(task[a]), NEW t \in Task, task' = [task EXCEPT ![a] = t],
           ~unsettled' => ~unsettled, UNCHANGED <<host, up, config>>,
           Placed(t, host, config)
    PROVE  Settled'
<1>1. /\ task'[a] = t /\ \A y \in Tasks : y # a => task'[y] = task[y]
  BY OneMoves, Kinds
<1>2. ASSUME ~unsettled', Quiet'
      PROVE  Connected(host, up, config)' /\ AllPlaced'
  <2>1. Connected(host, up, config) /\ AllPlaced
    BY <1>1, <1>2, SettledBefore
  <2>2. host.cwd[config.dir] = config.path
    BY <2>1, NothingSet
  <2>3. \A b \in Activators : Placed(task'[b], host, config)
    BY <1>1, <2>1, Kinds DEF AllPlaced
  <2> QED
    BY <2>1, <2>2, <2>3 DEF AllPlaced
<1> QED
  BY <1>2 DEF Settled

\* An activation that ends having changed nothing.
LEMMA EndsAsItWas ==
    ASSUME ProvisioningIInv, NEW a \in Activators, task[a].pc \in Activating \ {"retract"},
           ~Tries(task[a]), Fails(a), UNCHANGED <<host, up, config, latest, faults>>
    PROVE  ProvisioningIInv'
<1> USE Kinds
<1>1. Goes(a, "failed") /\ Leaves(a) /\ unsettled' = unsettled /\ unsettled \in BOOLEAN
  BY Typed DEF Fails
<1>2. /\ task[a].pc \in Running /\ Sound(host') /\ up' \in Ups /\ config' \in Config
      /\ config'.revision >= config.revision
  BY Typed, Same DEF Running
<1>3. /\ At(a, "failed") \in Task /\ task' = [task EXCEPT ![a] = At(a, "failed")]
      /\ At(a, "failed").pc = "failed"
  BY <1>1, Goes_ DEF Ended
<1> HIDE DEF At
<1>4. Placed(At(a, "failed"), host, config)
  BY <1>3 DEF Placed, Tries
<1>5. Settled'
  BY <1>1, <1>3, <1>4, SettledStill
<1> QED
  BY <1>1, <1>2, <1>5, ActivatorEnds

LEMMA ActivatorAligns ==
    ASSUME ProvisioningIInv, NEW a \in Activators, Aligns(a)
    PROVE  ProvisioningIInv'
<1> USE Kinds
<1> DEFINE d   == host.box.dir
           set == [host EXCEPT !.cwd[d] = task[a].path]
<1>1. /\ task[a].pc = "align" /\ task[a].pc \in Running /\ task[a].pc \in Activating \ {"retract"}
      /\ UNCHANGED <<up, latest, config, faults>>
      /\ config' \in Config /\ up' \in Ups /\ config'.revision >= config.revision
  BY Typed, Same DEF Aligns, Now, Running, Activating
<1>2. ActivatorKnows(task[a], host, config) /\ task[a] \in Task
  BY ActivatorAt, Typed
<1>3. ~Tries(task[a])
  BY <1>1 DEF Tries
<1>4. CASE UNCHANGED host /\ Fails(a)
  BY <1>1, <1>3, <1>4, EndsAsItWas
<1>5. CASE Maps(a) /\ ~task[a].aligns /\ UNCHANGED host /\ Proceeds(a, "persist")
  <2>1. CASE Fails(a)
    BY <1>1, <1>3, <1>5, <2>1, EndsAsItWas
  <2>2. CASE Goes(a, "persist") /\ KeepsMemory /\ UNCHANGED unsettled
    <3> DEFINE t == At(a, "persist")
    <3>1. "persist" \in Running
      BY DEF Running, Activating
    <3>2. /\ t \in Task /\ task' = [task EXCEPT ![a] = t] /\ t.pc = "persist"
          /\ t.dir = task[a].dir /\ t.path = task[a].path /\ t.aligns = task[a].aligns
          /\ t.seen = task[a].seen
      BY <2>2, <3>1, Goes_
    <3> HIDE DEF t
    <3>3. task[a].aligns = FALSE
      BY <1>2, <1>5 DEF Task
    <3>4. ActivatorKnows(t, host', config')
      <4>1. /\ host.manager.mode = "docker" /\ host.manager.dir = task[a].dir
            /\ host.box.is = "owned" /\ host.box.dir = task[a].dir
        BY <1>5, MapsSays
      <4> QED
        BY <1>1, <1>2, <1>5, <3>2, <3>3, <4>1 DEF ActivatorKnows
    <3>5. Settled'
      <4>1. CASE AllPlaced
        <5>1. Placed(task[a], host, config)
          BY <4>1 DEF AllPlaced
        <5>2. Placed(t, host, config)
          BY <1>1, <3>2, <3>3, <5>1 DEF Placed, Tries
        <5> QED
          BY <1>1, <1>3, <1>5, <2>2, <3>2, <5>2, SettledStill
      <4>2. CASE ~AllPlaced
        <5>1. \A y \in Tasks : y # a => task'[y] = task[y]
          BY <3>2, OneMoves
        <5> QED
          BY <1>1, <2>2, <4>2, <5>1, SettledBefore DEF Settled
      <4> QED
        BY <4>1, <4>2
    <3>6. t.pc \in Activating /\ Sound(host')
      BY <1>5, <3>2, Typed DEF Activating
    <3> QED
      BY <1>1, <2>2, <3>2, <3>4, <3>5, <3>6, ActivatorGoesOn
  <2> QED
    BY <1>5, <2>1, <2>2 DEF Proceeds
<1>6. CASE /\ Maps(a) /\ task[a].aligns /\ host' = set
           /\ \/ /\ \E pc \in {"persist", "restore"} :
                     task' = [task EXCEPT ![a] = [task[a] EXCEPT !.pc = pc, !.before = host.cwd[d]]]
                 /\ KeepsMemory /\ UNCHANGED unsettled
              \/ Goes(a, "failed") /\ Leaves(a) /\ unsettled' = TRUE
  <2>1. /\ host.manager.mode = "docker" /\ host.manager.dir = task[a].dir
        /\ host.box.is = "owned" /\ host.box.dir = task[a].dir
        /\ task[a].dir \in Dirs
    BY <1>6, MapsSays
  <2>2. /\ Sound(set) /\ set.manager = host.manager /\ set.box = host.box
        /\ set.env = host.env /\ set.cwd[d] = task[a].path
    BY <1>2, <2>1, Typed, CwdSound DEF Task
  <2>3. task[a].aligns = TRUE
    BY <1>2, <1>6 DEF Task
  <2> HIDE DEF set
  <2>4. ASSUME NEW pc \in {"persist", "restore"},
               task' = [task EXCEPT ![a] = [task[a] EXCEPT !.pc = pc, !.before = host.cwd[d]]],
               KeepsMemory, UNCHANGED unsettled
        PROVE  ProvisioningIInv'
    <3> DEFINE t == [task[a] EXCEPT !.pc = pc, !.before = host.cwd[d]]
    <3>1. host.cwd[d] \in Cwds
      BY <2>1, Typed DEF Hosts
    <3>2. /\ t \in Task /\ t.pc = pc /\ t.before = host.cwd[d] /\ t.seen = task[a].seen
          /\ t.dir = task[a].dir /\ t.path = task[a].path /\ t.aligns = task[a].aligns
      BY <1>2, <3>1 DEF Task, Running, Activating
    <3>3. t.pc \in Activating
      BY <3>2 DEF Activating
    <3>4. /\ task' = [task EXCEPT ![a] = t] /\ task'[a] = t
          /\ \A y \in Tasks : y # a => task'[y] = task[y]
      BY <2>4, <3>2, OneMoves
    <3> HIDE DEF t
    <3>5. ActivatorKnows(t, host', config')
      BY <1>1, <1>2, <1>6, <2>1, <2>2, <2>3, <3>2 DEF ActivatorKnows, Activating
    <3>6. ASSUME ~unsettled', Quiet'
          PROVE  Connected(host, up, config)' /\ AllPlaced'
      <4>1. Connected(host, up, config) /\ AllPlaced
        BY <1>1, <2>4, <3>4, <3>6, SettledBefore
      <4>2. d = config.dir /\ config.dir = task[a].dir
        BY <2>1, <4>1 DEF Connected
      <4>3. host.cwd[config.dir] = config.path
        BY <1>1, <1>3, <4>1, NothingSet
      <4>4. Connected(host', up', config')
        BY <1>1, <1>6, <2>2, <4>1 DEF Connected
      <4>5. Tries(task'[a])
        BY <2>3, <3>2, <3>4 DEF Tries
      <4>6. Placed(task'[a], host', config')
        BY <1>1, <2>3, <3>2, <3>4, <4>2, <4>3 DEF Placed
      <4>7. ASSUME NEW b \in Activators, b # a
            PROVE  Placed(task'[b], host', config')
        <5>1. task'[b] = task[b] /\ task[b].pc \notin Activating /\ Placed(task[b], host, config)
          BY <1>1, <3>4, <4>1, <4>7, OthersRest DEF AllPlaced
        <5> QED
          BY <1>1, <4>3, <5>1 DEF Placed, Tries, Activating
      <4> QED
        BY <4>4, <4>5, <4>6, <4>7 DEF AllPlaced
    <3>7. Settled'
      BY <3>6 DEF Settled
    <3> QED
      BY <1>1, <1>6, <2>2, <2>4, <3>2, <3>3, <3>4, <3>5, <3>7, ActivatorGoesOn
  <2>5. CASE Goes(a, "failed") /\ Leaves(a) /\ unsettled' = TRUE
    BY <1>1, <1>6, <2>2, <2>5, Unsettled, ActivatorEnds
  <2> QED
    BY <1>6, <2>4, <2>5
<1>7. \/ UNCHANGED host /\ Fails(a)
      \/ Maps(a) /\ ~task[a].aligns /\ UNCHANGED host /\ Proceeds(a, "persist")
      \/ /\ Maps(a) /\ task[a].aligns /\ host' = set
         /\ \/ /\ \E pc \in {"persist", "restore"} :
                   task' = [task EXCEPT ![a] = [task[a] EXCEPT !.pc = pc, !.before = host.cwd[d]]]
               /\ KeepsMemory /\ UNCHANGED unsettled
            \/ Goes(a, "failed") /\ Leaves(a) /\ unsettled' = TRUE
  BY <1>2, Typed DEF Aligns
<1> QED
  BY <1>4, <1>5, <1>6, <1>7

\* The row is made ready: the machine, if it was the configured one, is so for the
\* directory and the path of the request.
LEMMA ActivatorConnects ==
    ASSUME ProvisioningIInv, NEW a \in Activators, task[a].pc = "persist", up = "docker",
           UNCHANGED <<host, up>>, config' = Ready(task[a]), ~unsettled' => ~unsettled,
           NEW t \in Task, task' = [task EXCEPT ![a] = t], t.pc \in {"succeeded", "failed"}
    PROVE  Settled'
<1> USE Kinds
<1>1. /\ task[a] \in Task /\ ActivatorKnows(task[a], host, config)
      /\ task[a].pc \in Activating \ {"retract"} /\ task[a].pc \in Running
  BY ActivatorAt, Typed DEF Activating, Running
<1>2. /\ task'[a] = t /\ \A y \in Tasks : y # a => task'[y] = task[y]
  BY OneMoves
<1>3. /\ config'.token = config.token /\ config'.ready = TRUE
      /\ config'.dir = task[a].dir /\ config'.path = task[a].path
      /\ config'.revision = config.revision + 1
  BY <1>1, ReadyRow
<1>4. ASSUME ~unsettled', Quiet'
      PROVE  Connected(host, up, config)' /\ AllPlaced'
  <2>1. Connected(host, up, config) /\ AllPlaced
    BY <1>1, <1>2, <1>4, SettledBefore
  <2>2. /\ host.manager.dir = task[a].dir /\ host.box.is = "owned" /\ host.box.dir = task[a].dir
        /\ task[a].aligns = TRUE => host.cwd[task[a].dir] = task[a].path
    BY <1>1 DEF ActivatorKnows
  <2>3. Connected(host', up', config')
    BY <1>3, <2>1, <2>2 DEF Connected
  <2>4. host.cwd[task[a].dir] = task[a].path
    <3>1. CASE task[a].aligns = TRUE
      BY <2>2, <3>1
    <3>2. CASE task[a].aligns = FALSE
      BY <2>1, <3>2 DEF AllPlaced, Placed
    <3> QED
      BY <1>1, <3>1, <3>2 DEF Task
  <2>5. Placed(t, host', config')
    BY DEF Placed, Tries
  <2>6. ASSUME NEW b \in Activators, b # a
        PROVE  Placed(task'[b], host', config')
    <3>1. task'[b] = task[b] /\ task[b].pc \notin Activating /\ task[b] \in Task
      BY <1>1, <1>2, <2>6, OthersRest, Typed
    <3>2. task[b].pc = "chosen" => task[b].seen <= config.revision
      BY ActivatorAt DEF ActivatorKnows
    <3>3. task[b].pc = "chosen" => task[b].seen # config'.revision
      BY <1>3, <3>1, <3>2, Same DEF Task
    <3> QED
      BY <3>1, <3>3 DEF Placed, Tries, Activating
  <2> QED
    BY <1>2, <1>3, <2>3, <2>4, <2>5, <2>6 DEF AllPlaced
<1> QED
  BY <1>4 DEF Settled

LEMMA ActivatorPersists ==
    ASSUME ProvisioningIInv, NEW a \in Activators, Persists(a)
    PROVE  ProvisioningIInv'
<1> USE Kinds
<1>1. /\ task[a].pc = "persist" /\ task[a].pc \in Running /\ task[a].pc \in Activating \ {"retract"}
      /\ UNCHANGED <<host, up, latest, faults>> /\ Sound(host') /\ up' \in Ups
  BY Typed DEF Persists, Now, Running, Activating, KeepsHost
<1>2. ActivatorKnows(task[a], host, config) /\ task[a] \in Task
  BY ActivatorAt, Typed
<1>3. /\ Ready(task[a]) \in Config /\ Ready(task[a]).revision = config.revision + 1
      /\ Ready(task[a]).revision >= config.revision
      /\ config \in Config /\ config.revision >= config.revision /\ unsettled \in BOOLEAN
  BY <1>2, ReadyRow, Typed, Same
<1>4. CASE /\ up = "docker" /\ config' = Ready(task[a])
           /\ \/ Goes(a, "succeeded") /\ Leaves(a) /\ unsettled' = unsettled
              \/ Fails(a)
  <2>1. PICK pc \in {"succeeded", "failed"} :
            Goes(a, pc) /\ Leaves(a) /\ unsettled' = unsettled
    BY <1>3, <1>4 DEF Fails
  <2>2. /\ At(a, pc) \in Task /\ task' = [task EXCEPT ![a] = At(a, pc)] /\ At(a, pc).pc = pc
    BY <2>1, Goes_ DEF Ended
  <2> HIDE DEF At
  <2>3. Settled'
    BY <1>1, <1>4, <2>1, <2>2, ActivatorConnects
  <2> QED
    BY <1>1, <1>3, <1>4, <2>1, <2>3, ActivatorEnds
<1>5. CASE /\ Goes(a, "retract") /\ KeepsMemory /\ UNCHANGED unsettled
           /\ config' = Ready(task[a])
  <2>1. Goes(a, "retract") /\ KeepsMemory /\ UNCHANGED unsettled
    BY <1>5
  <2>2. "retract" \in Running /\ "retract" \in Activating
    BY DEF Running, Activating
  <2>3. /\ At(a, "retract") \in Task /\ task' = [task EXCEPT ![a] = At(a, "retract")]
        /\ At(a, "retract").pc = "retract"
        /\ At(a, "retract").dir = task[a].dir /\ At(a, "retract").path = task[a].path
        /\ At(a, "retract").seen = task[a].seen
    BY <2>1, <2>2, Goes_
  <2> HIDE DEF At
  <2>4. ActivatorKnows(At(a, "retract"), host', config')
    <3>1. /\ task[a].dir \in Dirs /\ task[a].path \in Paths
          /\ task[a].seen <= config.revision
      BY <1>1, <1>2 DEF ActivatorKnows
    <3>2. task[a].seen <= config'.revision /\ config'.revision > 0
      BY <1>2, <1>3, <1>5, <3>1, Same DEF Task
    <3> QED
      BY <2>3, <3>1, <3>2 DEF ActivatorKnows
  <2>5. ~Quiet'
    BY <2>3, OneMoves DEF Quiet
  <2>6. Settled'
    BY <2>5 DEF Settled
  <2> QED
    BY <1>1, <1>3, <1>5, <2>1, <2>2, <2>3, <2>4, <2>6, ActivatorGoesOn
<1>6. CASE /\ task[a].aligns /\ Goes(a, "restore") /\ KeepsMemory
           /\ UNCHANGED <<unsettled, config>>
  <2>1. task[a].aligns = TRUE /\ Goes(a, "restore") /\ KeepsMemory /\ UNCHANGED unsettled
    BY <1>2, <1>6 DEF Task
  <2>2. "restore" \in Running /\ "restore" \in Activating
    BY DEF Running, Activating
  <2> DEFINE t == At(a, "restore")
  <2>3. /\ t \in Task /\ task' = [task EXCEPT ![a] = t] /\ t.pc = "restore"
        /\ t.dir = task[a].dir /\ t.path = task[a].path /\ t.aligns = task[a].aligns
        /\ t.seen = task[a].seen /\ t.before = task[a].before
    BY <2>1, <2>2, Goes_
  <2> HIDE DEF t
  <2>4. ActivatorKnows(t, host', config')
    BY <1>1, <1>2, <1>6, <2>1, <2>3 DEF ActivatorKnows, Activating
  <2>5. /\ task'[a] = t /\ \A y \in Tasks : y # a => task'[y] = task[y]
    BY <2>3, OneMoves
  <2>6. ASSUME ~unsettled', Quiet'
        PROVE  Connected(host, up, config)' /\ AllPlaced'
    <3>1. Connected(host, up, config) /\ AllPlaced
      BY <1>1, <2>1, <2>5, <2>6, SettledBefore
    <3>2. Tries(t)
      BY <2>1, <2>3 DEF Tries
    <3>3. Placed(t, host, config)
      <4>1. Placed(task[a], host, config)
        BY <3>1 DEF AllPlaced
      <4> QED
        BY <1>1, <2>1, <2>3, <4>1 DEF Placed, Tries
    <3>4. \A b \in Activators : Placed(task'[b], host, config)
      BY <2>5, <3>1, <3>3 DEF AllPlaced
    <3> QED
      BY <1>1, <1>6, <2>5, <3>1, <3>2, <3>4 DEF AllPlaced
  <2>7. Settled'
    BY <2>6 DEF Settled
  <2> QED
    BY <1>1, <1>3, <1>6, <2>1, <2>2, <2>3, <2>4, <2>7, ActivatorGoesOn
<1>7. CASE Fails(a) /\ ~task[a].aligns /\ UNCHANGED config
  <2>1. ~Tries(task[a])
    BY <1>7 DEF Tries
  <2> QED
    BY <1>1, <1>7, <2>1, EndsAsItWas
<1>8. \/ /\ up = "docker" /\ config' = Ready(task[a])
         /\ \/ Goes(a, "succeeded") /\ Leaves(a) /\ unsettled' = (unsettled /\ a \notin Jobs)
            \/ Undoes(a, "retract")
      \/ Undoes(a, "restore") /\ UNCHANGED config
  BY DEF Persists, Ready
<1>9. (unsettled /\ a \notin Jobs) = unsettled
  BY <1>3
<1>10. CASE Undoes(a, "restore") /\ UNCHANGED config
  BY <1>6, <1>7, <1>10 DEF Undoes
<1>11. CASE Undoes(a, "retract") /\ config' = Ready(task[a]) /\ up = "docker"
  BY <1>4, <1>5, <1>11 DEF Undoes
<1>12. CASE /\ up = "docker" /\ config' = Ready(task[a])
            /\ Goes(a, "succeeded") /\ Leaves(a) /\ unsettled' = (unsettled /\ a \notin Jobs)
  BY <1>4, <1>9, <1>12
<1> QED
  BY <1>8, <1>10, <1>11, <1>12

LEMMA ActivatorRestores ==
    ASSUME ProvisioningIInv, NEW a \in Activators, Restores(a)
    PROVE  ProvisioningIInv'
<1> USE Kinds
<1> DEFINE back == [host EXCEPT !.cwd[host.box.dir] = task[a].before]
<1>1. /\ task[a].pc \in {"restore", "retract"} /\ task[a].pc \in Running
      /\ UNCHANGED <<up, latest, config, faults>> /\ Goes(a, "failed") /\ Leaves(a)
      /\ config' \in Config /\ up' \in Ups /\ config'.revision >= config.revision
  BY Typed, Same DEF Restores, Running, Activating
<1>2. ActivatorKnows(task[a], host, config) /\ task[a] \in Task /\ unsettled \in BOOLEAN
  BY ActivatorAt, Typed
<1>3. CASE UNCHANGED host /\ unsettled' = TRUE
  BY <1>1, <1>3, Typed, Unsettled, ActivatorEnds
<1>4. CASE /\ Maps(a) /\ host' = back
           /\ unsettled' = (unsettled \/ a \in Jobs \/ Now(a, "retract") \/ ShowsWhatIsUndone(a))
  <2>1. host.box.dir \in Dirs /\ task[a].before \in Cwds /\ Sound(host)
    BY <1>2, <1>4, MapsSays, Typed DEF Task
  <2>2. /\ Sound(back) /\ back.manager = host.manager /\ back.box = host.box
        /\ back.env = host.env /\ back.cwd[host.box.dir] = task[a].before
    BY <2>1, CwdSound
  <2> HIDE DEF back
  <2>3. /\ At(a, "failed") \in Task /\ task' = [task EXCEPT ![a] = At(a, "failed")]
        /\ At(a, "failed").pc = "failed"
    BY <1>1, Goes_ DEF Ended
  <2> HIDE DEF At
  <2>4. /\ task'[a].pc = "failed" /\ \A y \in Tasks : y # a => task'[y] = task[y]
    BY <2>3, OneMoves
  <2>5. ASSUME ~unsettled', Quiet'
        PROVE  Connected(host, up, config)' /\ AllPlaced'
    <3>1. task[a].pc = "restore" /\ ~unsettled /\ ~ShowsWhatIsUndone(a)
      BY <1>1, <1>4, <2>5 DEF Now
    <3>2. task[a].pc \in Activating \ {"retract"}
      BY <3>1 DEF Activating
    <3>3. Connected(host, up, config) /\ AllPlaced
      BY <2>4, <2>5, <3>1, <3>2, SettledBefore
    <3>4. host.box.dir = config.dir
      <4>1. host.box.is = "owned"
        BY <1>4, MapsSays
      <4> QED
        BY <3>3, <4>1 DEF Connected
    <3>5. task[a].before = config.path
      <4>1. Tries(task[a])
        BY <1>2, <3>1 DEF ActivatorKnows, Tries
      <4> QED
        BY <3>3, <4>1 DEF AllPlaced, Placed
    <3>6. Connected(host', up', config')
      BY <1>1, <1>4, <2>2, <3>3 DEF Connected
    <3>7. host'.cwd[config'.dir] = config'.path
      BY <1>1, <1>4, <2>2, <3>4, <3>5
    <3>8. ASSUME NEW b \in Activators, b # a
          PROVE  Placed(task'[b], host', config')
      <4>1. task'[b] = task[b] /\ task[b].pc \notin Activating /\ Placed(task[b], host, config)
        BY <1>1, <2>4, <3>3, <3>8, OthersRest DEF AllPlaced
      <4>2. task[b] \in Task
        BY Typed
      <4>3. task[b].pc = "chosen" /\ task[b].aligns = FALSE /\ task[b].seen = config.revision
                => task[b].path = task[a].before
        BY <3>1 DEF ShowsWhatIsUndone, Now
      <4> QED
        BY <1>1, <3>5, <4>1, <4>3 DEF Placed, Tries, Activating
    <3>9. Placed(task'[a], host', config')
      BY <2>4 DEF Placed, Tries
    <3> QED
      BY <3>6, <3>7, <3>8, <3>9 DEF AllPlaced
  <2>6. Settled'
    BY <2>5 DEF Settled
  <2>7. unsettled' \in BOOLEAN
    BY <1>4
  <2> QED
    BY <1>1, <1>4, <2>2, <2>6, <2>7, ActivatorEnds
<1> QED
  BY <1>3, <1>4 DEF Restores

\* A request that does not have the lease, and does not take it.
LEMMA ActivatorRests ==
    ASSUME ProvisioningIInv, NEW a \in Activators, task[a].pc \in {"idle", "chosen"},
           NEW t \in Task, task' = [task EXCEPT ![a] = t],
           t.pc \in {"chosen", "refused"}, ActivatorKnows(t, host, config),
           AllPlaced /\ Connected(host, up, config) => Placed(t, host, config),
           UNCHANGED <<exclusionVars, config, lock, unsettled, faults>>, KeepsHost
    PROVE  ProvisioningIInv'
<1> USE Kinds
<1>1. /\ task' \in [Tasks -> Task] /\ task'[a] = t
      /\ \A y \in Tasks : y # a => task'[y] = task[y]
  BY OneMoves
<1>2. UNCHANGED <<host, up, latest>>
  BY DEF KeepsHost
<1>3. ProvisioningTypeOK'
  BY <1>1, <1>2, TypedBefore, TypedAfter DEF ProvisioningIInv, ExclusionTypeOK, exclusionVars
<1>4. Steps'
  BY <1>1 DEF ProvisioningIInv, Steps, Ended
<1>5. LeaseIsHeld'
  BY <1>1, LeaselessFrame DEF exclusionVars, Running, Deploying, Activating
<1>6. JobsKnow'
  BY <1>1, <1>2, JobsFrame DEF ProvisioningIInv
<1>7. ActivatorsKnow'
  BY <1>1, <1>2 DEF ProvisioningIInv, ActivatorsKnow
<1>8. Quiet' => Quiet
  BY <1>1 DEF Quiet
<1>9. Settled'
  <2>1. ASSUME AllPlaced, Connected(host, up, config)
        PROVE  AllPlaced'
    <3>1. \A b \in Activators : Placed(task'[b], host, config)
      BY <1>1, <2>1 DEF AllPlaced
    <3>2. ~Tries(task[a])
      BY DEF Tries
    <3>3. (\A b \in Activators : ~Tries(task'[b])) => \A b \in Activators : ~Tries(task[b])
      BY <1>1, <3>2
    <3> QED
      BY <1>2, <2>1, <3>1, <3>3 DEF AllPlaced
  <2> QED
    BY <1>2, <1>8, <2>1 DEF ProvisioningIInv, Settled
<1> QED
  BY <1>2, <1>3, <1>4, <1>5, <1>6, <1>7, <1>9 DEF ProvisioningIInv, Sound

LEMMA DiscoversKeeps ==
    ASSUME ProvisioningIInv, NEW a \in Activators, Discovers(a)
    PROVE  ProvisioningIInv'
<1> USE Kinds
<1> DEFINE cwd == IF up = "docker" THEN host.cwd[host.box.dir] ELSE Home
<1>1. PICK path \in Paths :
          task' = [task EXCEPT ![a] =
              [task[a] EXCEPT !.pc = "chosen", !.dir = host.box.dir, !.path = path,
                              !.aligns = (path # cwd), !.seen = config.revision]]
  BY Typed DEF Discovers
<1> DEFINE t == [task[a] EXCEPT !.pc = "chosen", !.dir = host.box.dir, !.path = path,
                                !.aligns = (path # cwd), !.seen = config.revision]
<1>2. /\ task[a].pc = "idle" /\ config.revision > 0 /\ config.revision \in Nat
      /\ host.box.is = "owned" /\ host.box.dir = host.manager.dir /\ host.box.dir \in Dirs
      /\ UNCHANGED <<exclusionVars, config, lock, unsettled, faults>> /\ KeepsHost
  BY Typed, Same DEF Discovers, Now, ValidDocker, Sound
<1>3. task[a] \in Task
  BY Typed
<1>4. /\ t.pc = "chosen" /\ t.dir = host.box.dir /\ t.path = path
      /\ t.seen = config.revision
  BY <1>3 DEF Task
<1>5. t.aligns = (path # cwd)
  BY <1>3 DEF Task
<1>6. t \in Task
  <2>1. path \in Cwds
    BY DEF Cwds
  <2>2. ASSUME NEW aligns \in BOOLEAN
        PROVE  [task[a] EXCEPT !.pc = "chosen", !.dir = host.box.dir, !.path = path,
                               !.aligns = aligns, !.seen = config.revision] \in Task
    BY <1>2, <1>3, <2>1 DEF Task
  <2> QED
    BY <2>2
<1> HIDE DEF t
<1>7. ActivatorKnows(t, host, config)
  BY <1>2, <1>4 DEF ActivatorKnows, Activating
<1>8. ASSUME AllPlaced, Connected(host, up, config)
      PROVE  Placed(t, host, config)
  <2>1. host.box.dir = config.dir
    BY <1>2, <1>8 DEF Connected
  <2>2. t.aligns = FALSE => path = cwd
    BY <1>5
  <2>3. path # Home
    BY ProvisioningAssumption
  <2>4. t.aligns = FALSE => path = host.cwd[config.dir]
    BY <2>1, <2>2, <2>3
  <2> QED
    BY <1>4, <2>1, <2>4 DEF Placed, Tries
<1> QED
  BY <1>1, <1>2, <1>4, <1>6, <1>7, <1>8, ActivatorRests DEF t

LEMMA BeginsActivationKeeps ==
    ASSUME ProvisioningIInv, NEW a \in Activators, BeginsActivation(a)
    PROVE  ProvisioningIInv'
<1> USE Kinds
<1>1. /\ task[a].pc = "chosen" /\ task[a] \in Task
      /\ UNCHANGED <<config, lock, unsettled, faults>> /\ KeepsHost
      /\ ActivatorKnows(task[a], host, config)
  BY Typed, ActivatorAt DEF BeginsActivation, Now
<1>2. CASE UNCHANGED exclusionVars /\ Goes(a, "refused")
  <2>1. /\ At(a, "refused") \in Task /\ task' = [task EXCEPT ![a] = At(a, "refused")]
        /\ At(a, "refused").pc = "refused"
    BY <1>2, Goes_ DEF Ended
  <2> HIDE DEF At
  <2>2. ActivatorKnows(At(a, "refused"), host, config) /\ Placed(At(a, "refused"), host, config)
    BY <2>1 DEF ActivatorKnows, Activating, Placed, Tries
  <2> QED
    BY <1>1, <1>2, <2>1, <2>2, ActivatorRests
<1>3. CASE AcquireMutationLease(a) /\ task[a].seen = config.revision /\ Goes(a, "align")
  <2> DEFINE t == At(a, "align")
  <2>1. "align" \in Running /\ "align" \in Activating
    BY DEF Running, Activating
  <2>2. /\ t \in Task /\ task' = [task EXCEPT ![a] = t] /\ t.pc = "align"
        /\ t.dir = task[a].dir /\ t.path = task[a].path /\ t.aligns = task[a].aligns
        /\ t.seen = task[a].seen
    BY <1>3, <2>1, Goes_
  <2> HIDE DEF t
  <2>3. /\ task' \in [Tasks -> Task] /\ task'[a] = t
        /\ \A y \in Tasks : y # a => task'[y] = task[y]
    BY <2>2, OneMoves
  <2>4. /\ mutationLease = NoLease /\ mutationLease' = a
        /\ UNCHANGED <<runReservations, holders, followed>>
    BY <1>3 DEF AcquireMutationLease
  <2>5. UNCHANGED <<host, up, latest>>
    BY <1>1 DEF KeepsHost
  <2>6. \A y \in Tasks : task[y].pc \notin Running \union {"update"}
    BY <2>4 DEF ProvisioningIInv, LeaseIsHeld
  <2>7. ProvisioningTypeOK'
    <3>1. ExclusionTypeOK'
      BY <2>4, TypedBefore DEF ProvisioningIInv, ExclusionTypeOK
    <3> QED
      BY <1>1, <2>3, <2>5, <3>1, TypedBefore, TypedAfter DEF ProvisioningIInv
  <2>8. Steps'
    BY <2>1, <2>2, <2>3 DEF ProvisioningIInv, Steps
  <2>9. LeaseIsHeld'
    BY <2>3, <2>4, <2>6 DEF LeaseIsHeld
  <2>10. JobsKnow'
    BY <1>1, <2>3, <2>5, JobsFrame DEF ProvisioningIInv
  <2>11. ActivatorsKnow'
    <3>1. ActivatorKnows(t, host, config)
      BY <1>1, <2>2 DEF ActivatorKnows
    <3> QED
      BY <1>1, <2>3, <2>5, <3>1 DEF ProvisioningIInv, ActivatorsKnow
  <2>12. Quiet' => Quiet
    BY <1>1, <2>3 DEF Quiet
  <2>13. ASSUME Connected(host, up, config), AllPlaced
         PROVE  AllPlaced'
    <3>1. \A b \in Activators : ~Tries(task[b])
      BY <2>6 DEF Tries, Running, Activating
    <3>2. host.cwd[config.dir] = config.path
      BY <2>13, <3>1 DEF AllPlaced
    <3>3. Placed(t, host, config)
      <4>1. Placed(task[a], host, config)
        BY <2>13 DEF AllPlaced
      <4> QED
        BY <1>1, <1>3, <2>2, <3>2, <4>1 DEF Placed, Tries
    <3>4. \A b \in Activators : Placed(task'[b], host, config)
      BY <2>3, <2>13, <3>3 DEF AllPlaced
    <3> QED
      BY <1>1, <2>5, <3>2, <3>4 DEF AllPlaced
  <2>14. Settled'
    BY <1>1, <2>5, <2>12, <2>13 DEF ProvisioningIInv, Settled
  <2> QED
    BY <2>5, <2>7, <2>8, <2>9, <2>10, <2>11, <2>14 DEF ProvisioningIInv, Sound
<1> QED
  BY <1>1, <1>2, <1>3 DEF BeginsActivation

-----------------------------------------------------------------------------
(* The steps: an update, and what happens outside *)

LEMMA BeginsUpdateKeeps ==
    ASSUME ProvisioningIInv, NEW u \in Updaters, BeginsUpdate(u)
    PROVE  ProvisioningIInv'
<1> USE Kinds
<1> DEFINE t == At(u, "update")
<1>1. /\ UNCHANGED <<config, lock, unsettled, faults, host, up, latest>>
      /\ mutationLease = NoLease /\ mutationLease' = u
      /\ UNCHANGED <<runReservations, holders, followed>> /\ Goes(u, "update")
  BY DEF BeginsUpdate, KeepsHost, AcquireMutationLease
<1>2. /\ t \in Task /\ task' = [task EXCEPT ![u] = t] /\ t.pc = "update"
  BY <1>1, Goes_
<1> HIDE DEF t
<1>3. /\ task' \in [Tasks -> Task] /\ task'[u] = t
      /\ \A y \in Tasks : y # u => task'[y] = task[y]
  BY <1>2, OneMoves
<1>4. ProvisioningTypeOK'
  <2>1. ExclusionTypeOK'
    BY <1>1, TypedBefore DEF ProvisioningIInv, ExclusionTypeOK
  <2> QED
    BY <1>1, <1>3, <2>1, TypedBefore, TypedAfter DEF ProvisioningIInv
<1>5. Steps'
  BY <1>2, <1>3 DEF ProvisioningIInv, Steps
<1>6. LeaseIsHeld'
  BY <1>1, <1>3 DEF ProvisioningIInv, LeaseIsHeld
<1>7. JobsKnow' /\ ActivatorsKnow'
  BY <1>1, <1>3, JobsFrame, ActivatorsFrame DEF ProvisioningIInv
<1>8. Settled'
  BY <1>1, <1>3, SettledFrame DEF ProvisioningIInv, Quiet
<1> QED
  BY <1>1, <1>4, <1>5, <1>6, <1>7, <1>8 DEF ProvisioningIInv, Sound

\* The manager keeps the runtime the configured one, wherever its script is cut off.
LEMMA RunsManagerKeeps ==
    ASSUME ProvisioningIInv, NEW u \in Updaters, RunsManager(u)
    PROVE  ProvisioningIInv'
<1> USE Kinds
<1>1. PICK o \in IF host.manager.mode = "docker" THEN UpdateDocker(host, up, latest)
                                                 ELSE UpdateNative(host, up, latest) :
          /\ host' = o.to[1] /\ up' = o.to[2]
          /\ Goes(u, IF o.ok THEN "succeeded" ELSE "failed")
  BY DEF RunsManager
<1>2. /\ task[u].pc = "update" /\ Leaves(u) /\ UNCHANGED <<latest, config, unsettled, faults>>
      /\ Sound(host) /\ up \in Ups /\ latest \in Versions /\ config \in Config
      /\ unsettled \in BOOLEAN /\ config.revision >= config.revision
  BY Typed, Same DEF RunsManager, Now
<1>3. /\ Fits(o.to, host)
      /\ host.manager.mode = "docker" =>
             /\ o.to[1].env = host.env /\ o.to[1].cwd = host.cwd
             /\ Managed(host, up) => Managed(o.to[1], o.to[2])
  <2>1. CASE host.manager.mode = "docker"
    BY <1>1, <1>2, <2>1, UpdateDockerFits
  <2>2. CASE host.manager.mode # "docker"
    BY <1>1, <1>2, <2>2, UpdateNativeFits
  <2> QED
    BY <2>1, <2>2
<1>4. PICK pc \in {"succeeded", "failed"} : Goes(u, pc)
  BY <1>1
<1>5. /\ At(u, pc) \in Task /\ task' = [task EXCEPT ![u] = At(u, pc)] /\ At(u, pc).pc \in Ended
  BY <1>4, Goes_ DEF Ended
<1> HIDE DEF At
<1>6. \A y \in Tasks : y # u => task'[y] = task[y]
  BY <1>5, OneMoves
<1>7. ASSUME Connected(host, up, config), AllPlaced
      PROVE  Connected(host', up', config') /\ AllPlaced'
  <2>1. /\ host.manager.mode = "docker" /\ host.manager.dir \in Dirs
        /\ host.env[host.manager.dir] = config.token
        /\ config.ready = TRUE /\ config.dir = host.manager.dir
    BY <1>7 DEF Connected
  <2>2. Managed(host, up)
    BY <1>7 DEF Connected, Managed
  <2>3. /\ host'.env = host.env /\ host'.cwd = host.cwd /\ host'.manager = host.manager
        /\ Managed(host', up')
    BY <1>1, <1>3, <2>1, <2>2 DEF Fits
  <2>4. Connected(host', up', config')
    BY <1>2, <2>1, <2>3 DEF Connected, Managed
  <2>5. \A a \in Activators : task'[a] = task[a]
    BY <1>6
  <2>6. \A a \in Activators : Placed(task'[a], host', config')
    BY <1>2, <1>7, <2>3, <2>5 DEF AllPlaced, Placed
  <2> QED
    BY <1>2, <1>7, <2>3, <2>4, <2>5, <2>6 DEF AllPlaced
<1>8. Quiet' => Quiet
  BY <1>6 DEF Quiet
<1>9. Settled'
  BY <1>2, <1>7, <1>8 DEF ProvisioningIInv, Settled
<1>10. /\ lock' \in BOOLEAN /\ mutationLease' \in {mutationLease, NoLease}
       /\ UNCHANGED <<runReservations, holders, followed>>
  BY <1>2, TypedBefore DEF Leaves, ProvisioningIInv
<1>11. Sound(host') /\ up' \in Ups
  BY <1>1, <1>3 DEF Fits
<1> QED
  BY <1>2, <1>5, <1>9, <1>10, <1>11, HolderKeeps

\* The process dies: what is half way is recorded as such, and nothing else was.
LEMMA CrashKeeps ==
    ASSUME ProvisioningIInv, Crash
    PROVE  ProvisioningIInv'
<1> USE Kinds
<1>1. /\ UNCHANGED <<host, up, latest, config>> /\ lock' = FALSE
      /\ mutationLease' = NoLease /\ runReservations' = 0 /\ holders' = {} /\ followed' = {}
      /\ faults < MaxFaults /\ faults' = faults + 1
  BY DEF Crash, KeepsHost, Restart
<1>2. ASSUME NEW x \in Tasks
      PROVE  /\ task'[x] \in Task
             /\ \/ task'[x] = task[x] /\ task[x].pc \in {"idle", "chosen"} \union Ended
                \/ /\ task'[x].pc = "lost" /\ task[x].pc # "idle"
                   /\ task'[x].dir = task[x].dir /\ task'[x].path = task[x].path
                   /\ task'[x].aligns = task[x].aligns
  <2>1. task[x] \in Task
    BY Typed
  <2>2. task' = [y \in Tasks |-> IF task[y].pc \in {"idle", "chosen"} \union Ended THEN task[y]
                                 ELSE [task[y] EXCEPT !.pc = "lost"]]
    BY DEF Crash
  <2>3. CASE task[x].pc \in {"idle", "chosen"} \union Ended
    <3>1. task'[x] = task[x]
      BY <2>2, <2>3
    <3> QED
      BY <2>1, <2>3, <3>1
  <2>4. CASE task[x].pc \notin {"idle", "chosen"} \union Ended
    <3>1. task'[x] = [task[x] EXCEPT !.pc = "lost"]
      BY <2>2, <2>4
    <3> QED
      BY <2>1, <2>4, <3>1 DEF Task, Ended
  <2> QED
    BY <2>3, <2>4
<1>3. task' \in [Tasks -> Task]
  BY <1>2 DEF Crash
<1>4. ProvisioningTypeOK'
  <2>1. ExclusionTypeOK'
    BY <1>1 DEF ExclusionTypeOK
  <2>2. faults' \in 0 .. MaxFaults
    BY <1>1, TypedBefore, ProvisioningAssumption DEF ProvisioningIInv
  <2>3. unsettled' \in BOOLEAN
    BY Typed DEF Crash
  <2> QED
    BY <1>1, <1>3, <2>1, <2>2, <2>3, TypedBefore, TypedAfter DEF ProvisioningIInv
<1>5. Steps'
  BY <1>2 DEF ProvisioningIInv, Steps, Ended
<1>6. \A x \in Tasks : task'[x].pc \notin Running \union {"update"}
  BY <1>2 DEF Running, Deploying, Activating, Ended
<1>7. LeaseIsHeld'
  BY <1>6 DEF LeaseIsHeld
<1>8. JobsKnow'
  <2>1. ASSUME NEW j \in Jobs
        PROVE  JobKnows(task'[j], host, config)
    <3>1. JobKnows(task[j], host, config)
      BY JobAt
    <3>2. CASE task'[j] = task[j]
      BY <3>1, <3>2
    <3>3. CASE /\ task'[j].pc = "lost" /\ task'[j].dir = task[j].dir
               /\ task'[j].path = task[j].path /\ task'[j].aligns = task[j].aligns
               /\ task[j].pc # "idle"
      BY <3>1, <3>3 DEF JobKnows, Deploying, Activating
    <3> QED
      BY <1>2, <3>2, <3>3
  <2> QED
    BY <1>1, <2>1 DEF JobsKnow
<1>9. ActivatorsKnow'
  <2>1. ASSUME NEW a \in Activators
        PROVE  ActivatorKnows(task'[a], host, config)
    <3>1. CASE task'[a] = task[a]
      BY <3>1, ActivatorAt
    <3>2. CASE task'[a].pc = "lost"
      BY <3>2 DEF ActivatorKnows, Activating
    <3> QED
      BY <1>2, <3>1, <3>2
  <2> QED
    BY <1>1, <2>1 DEF ActivatorsKnow
<1>10. ASSUME ~unsettled', config.revision > 0
       PROVE  Connected(host, up, config) /\ AllPlaced'
  <2>1. /\ ~unsettled
        /\ \A x \in Tasks :
              /\ task[x].pc \notin {"restore", "retract"}
              /\ ~(task[x].pc = "persist" /\ task[x].aligns)
              /\ ~(x \in Jobs /\ task[x].pc \in Deploying \union Activating)
    BY <1>10 DEF Crash
  <2>2. Quiet
    BY <2>1 DEF Quiet
  <2>3. Connected(host, up, config) /\ AllPlaced
    BY <1>10, <2>1, <2>2 DEF ProvisioningIInv, Settled
  <2>4. \A a \in Activators : ~Tries(task[a])
    BY <2>1 DEF Tries
  <2>5. host.cwd[config.dir] = config.path
    BY <2>3, <2>4 DEF AllPlaced
  <2>6. ASSUME NEW a \in Activators
        PROVE  Placed(task'[a], host, config)
    <3>1. CASE task'[a] = task[a]
      BY <2>3, <3>1 DEF AllPlaced
    <3>2. CASE task'[a].pc = "lost"
      BY <3>2 DEF Placed, Tries
    <3> QED
      BY <1>2, <3>1, <3>2
  <2> QED
    BY <1>1, <2>3, <2>5, <2>6 DEF AllPlaced
<1>11. Settled'
  BY <1>1, <1>10 DEF Settled
<1> QED
  BY <1>1, <1>4, <1>5, <1>7, <1>8, <1>9, <1>11 DEF ProvisioningIInv, Sound

\* A runtime that is stopped, or a version that is published, changes nothing else.
LEMMA OutsideKeeps ==
    ASSUME ProvisioningIInv, Stops \/ Advances \/ UNCHANGED vars
    PROVE  ProvisioningIInv'
<1>1. /\ UNCHANGED <<exclusionVars, host, config, lock, task, unsettled>>
      /\ up' = up \/ up' = "none"
      /\ latest' \in Versions /\ faults' \in 0 .. MaxFaults
  BY TypedBefore, ProvisioningAssumption DEF Stops, Advances, vars, ProvisioningIInv
<1>2. ProvisioningTypeOK'
  BY <1>1, TypedBefore, TypedAfter DEF ProvisioningIInv, ExclusionTypeOK, exclusionVars, Ups
<1>3. Sound(host)' /\ Steps' /\ LeaseIsHeld' /\ JobsKnow' /\ ActivatorsKnow'
  BY <1>1 DEF ProvisioningIInv, Sound, Steps, LeaseIsHeld, JobsKnow, ActivatorsKnow, exclusionVars
<1>4. Connected(host, up, config) => Connected(host, up', config)
  BY <1>1 DEF Connected
<1>5. Settled'
  BY <1>1, <1>4 DEF ProvisioningIInv, Settled, Quiet, AllPlaced
<1> QED
  BY <1>2, <1>3, <1>5 DEF ProvisioningIInv

-----------------------------------------------------------------------------
(* The theorems *)

LEMMA NextKeeps ==
    ASSUME ProvisioningIInv, [Next]_vars
    PROVE  ProvisioningIInv'
<1>1. ASSUME NEW j \in Jobs, \/ Post(j) \/ Inspects(j) \/ CreatesJob(j)
      PROVE  ProvisioningIInv'
  BY <1>1, PostKeeps, InspectsKeeps, CreatesJobKeeps
<1>2. ASSUME NEW j \in Jobs, \/ Prepares(j) \/ Deploys(j) \/ AwaitsHealth(j)
                             \/ EnsuresDashboard(j) \/ Verifies(j) \/ Saves(j)
      PROVE  ProvisioningIInv'
  BY <1>2, PreparesKeeps, DeploysKeeps, AwaitsHealthKeeps, EnsuresDashboardKeeps,
     VerifiesKeeps, SavesKeeps
<1>3. ASSUME NEW a \in Activators, Discovers(a) \/ BeginsActivation(a)
      PROVE  ProvisioningIInv'
  BY <1>3, DiscoversKeeps, BeginsActivationKeeps
<1>4. ASSUME NEW j \in Jobs, Aligns(j) \/ Persists(j) \/ Restores(j)
      PROVE  ProvisioningIInv'
  BY <1>4, JobAlignsKeeps, JobPersistsKeeps, JobRestoresKeeps
<1>5. ASSUME NEW a \in Activators, Aligns(a) \/ Persists(a) \/ Restores(a)
      PROVE  ProvisioningIInv'
  BY <1>5, ActivatorAligns, ActivatorPersists, ActivatorRestores
<1>6. ASSUME NEW u \in Updaters, BeginsUpdate(u) \/ RunsManager(u)
      PROVE  ProvisioningIInv'
  BY <1>6, BeginsUpdateKeeps, RunsManagerKeeps
<1>7. ASSUME RejectsInvalid \/ Crash \/ Stops \/ Advances \/ UNCHANGED vars
      PROVE  ProvisioningIInv'
  BY <1>7, RejectsInvalidKeeps, CrashKeeps, OutsideKeeps
<1> QED
  BY <1>1, <1>2, <1>3, <1>4, <1>5, <1>6, <1>7 DEF Next

\* Between two requests nobody holds the lease, so that no job is half way.
LEMMA InvariantFollows ==
    ASSUME ProvisioningIInv
    PROVE  ProvisioningInvariant
<1>1. CurrentIsWhole
  BY DEF ProvisioningIInv, Sound, CurrentIsWhole
<1>2. ASSUME mutationLease = NoLease, ~unsettled, config.revision > 0, up # "none"
      PROVE  /\ Process(host, up).token = config.token
             /\ config.ready =>
                  /\ up = "docker" /\ host.box.dir = config.dir
                  /\ host.cwd[config.dir] = config.path
  <2>1. \A x \in Tasks : task[x].pc \notin Running \union {"update"}
    BY <1>2, Kinds DEF ProvisioningIInv, LeaseIsHeld
  <2>2. Quiet
    BY <2>1, Kinds DEF Quiet, Running, Activating
  <2>3. Connected(host, up, config) /\ AllPlaced
    BY <1>2, <2>2 DEF ProvisioningIInv, Settled
  <2>4. \A a \in Activators : ~Tries(task[a])
    BY <2>1, Kinds DEF Tries, Running, Activating
  <2>5. up = "docker"
    BY <1>2, <2>3, Typed DEF Connected, Ups
  <2> QED
    BY <2>3, <2>4, <2>5 DEF Connected, AllPlaced, Process
<1> QED
  BY <1>1, <1>2 DEF ProvisioningInvariant, RuntimeIsTheConfiguredOne, ProvisioningIInv

\* For any number of requests and faults: the current release is whole, and outside
\* the requests that were cut off the process on the port is the one runtime_config
\* describes, in the workspace it names.
THEOREM ProvisioningIsCoherent == Spec => []ProvisioningInvariant
<1>1. Init => ProvisioningIInv
  BY InitHolds
<1>2. ProvisioningIInv /\ [Next]_vars => ProvisioningIInv'
  BY NextKeeps
<1>3. ProvisioningIInv => ProvisioningInvariant
  BY InvariantFollows
<1> QED
  BY <1>1, <1>2, <1>3, PTL DEF Spec

\* What a job has done and read under its lease still holds when it succeeds.
LEMMA JobIsConnected ==
    ASSUME ProvisioningIInv, NEW j \in Jobs, Persists(j), task'[j].pc = "succeeded"
    PROVE  /\ host.manager = [mode |-> "docker", dir |-> task[j].dir]
           /\ host.box.is = "owned" /\ host.box.dir = task[j].dir
           /\ host.box.token = config'.token /\ config'.token = task[j].token
           /\ config'.ready /\ config'.dir = task[j].dir
           /\ host.cwd[task[j].dir] = MainPath
<1> USE Kinds
<1>1. /\ task[j].pc = "persist" /\ task[j].pc \in Activating
      /\ JobKnows(task[j], host, config) /\ task[j] \in Task
  BY JobAt, Typed DEF Persists, Now, Activating
<1>2. task[j].mode = "docker" /\ host.cwd[task[j].dir] = MainPath /\ task[j].aligns = TRUE
  BY <1>1 DEF JobKnows
<1>3. /\ host.manager.mode = "docker" /\ host.manager.dir = task[j].dir
      /\ host.box.is = "owned" /\ host.box.dir = task[j].dir
      /\ host.box.token = task[j].token /\ config.token = task[j].token
  BY <1>1, <1>2 DEF JobKnows
<1>4. host.manager = [mode |-> "docker", dir |-> task[j].dir]
  BY <1>3, Typed DEF Hosts
<1>5. ASSUME NEW pc \in {"retract", "restore"}
      PROVE  ~Undoes(j, pc)
  <2>1. Undoes(j, pc) => Goes(j, pc)
    BY <1>2 DEF Undoes
  <2>2. Goes(j, pc) => task'[j].pc = pc
    BY <1>1, Typed DEF Goes, Task
  <2> QED
    BY <2>1, <2>2
<1>6. config' = Ready(task[j])
  BY <1>5 DEF Persists, Ready
<1>7. config'.token = config.token /\ config'.ready = TRUE /\ config'.dir = task[j].dir
  BY <1>1, <1>6, ReadyRow
<1> QED
  BY <1>2, <1>3, <1>4, <1>7

\* A request that does not go to "succeeded" is not reported so.
LEMMA GoesElsewhere ==
    ASSUME ProvisioningIInv, NEW j \in Jobs, NEW x \in Tasks, NEW pc, Goes(x, pc),
           x # j \/ pc # "succeeded", task'[j].pc = "succeeded"
    PROVE  Now(j, "succeeded")
<1>1. task \in [Tasks -> Task] /\ task[x] \in Task /\ j \in Tasks
  BY Typed, Kinds
<1>2. CASE x = j
  BY <1>1, <1>2 DEF Goes, Task
<1>3. CASE x # j
  BY <1>1, <1>3 DEF Goes, Now
<1> QED
  BY <1>2, <1>3

LEMMA MovesElsewhere ==
    ASSUME ProvisioningIInv, NEW j \in Jobs, NEW x \in Tasks, NEW t,
           task' = [task EXCEPT ![x] = t], x # j \/ t.pc # "succeeded",
           task'[j].pc = "succeeded"
    PROVE  Now(j, "succeeded")
BY Typed, Kinds DEF Now

LEMMA FailsElsewhere ==
    ASSUME ProvisioningIInv, NEW j \in Jobs, NEW x \in Tasks, task'[j].pc = "succeeded",
           \/ Fails(x)
           \/ \E pc \in {"deploy", "dash", "verify", "save", "persist"} : Proceeds(x, pc)
           \/ Undoes(x, "retract") \/ Undoes(x, "restore")
    PROVE  Now(j, "succeeded")
<1>1. PICK pc \in {"deploy", "dash", "verify", "save", "persist", "retract", "restore", "failed"} :
          Goes(x, pc)
  BY DEF Fails, Proceeds, Undoes
<1> QED
  BY <1>1, GoesElsewhere

\* Only the end of its activation makes a job succeed.
LEMMA OnlyPersists ==
    ASSUME ProvisioningIInv, NEW j \in Jobs, [Next]_vars, ~Now(j, "succeeded"),
           task'[j].pc = "succeeded"
    PROVE  Persists(j)
<1> USE Kinds
<1>1. task \in [Tasks -> Task]
  BY Typed
<1>2. ASSUME NEW i \in Jobs, Post(i) \/ Inspects(i) \/ CreatesJob(i)
      PROVE  FALSE
  <2>1. CASE Post(i)
    <3>1. PICK mode \in Modes, dir \in Dirs, given \in BOOLEAN :
              task' = [task EXCEPT ![i] = [task[i] EXCEPT !.pc = "inspect", !.mode = mode,
                                                          !.dir = dir, !.given = given]]
      BY <2>1, <1>1 DEF Post
    <3>2. [task[i] EXCEPT !.pc = "inspect", !.mode = mode, !.dir = dir, !.given = given].pc
              = "inspect"
      BY <1>1 DEF Task
    <3> QED
      BY <3>1, <3>2, MovesElsewhere
  <2>2. CASE Inspects(i) \/ CreatesJob(i)
    <3>1. PICK pc \in {"admitted", "refused", "prepare", "failed"} : Goes(i, pc)
      BY <2>2 DEF Inspects, CreatesJob, Refuses
    <3> QED
      BY <3>1, GoesElsewhere
  <2> QED
    BY <1>2, <2>1, <2>2
<1>3. ASSUME NEW i \in Jobs, \/ Prepares(i) \/ Deploys(i) \/ AwaitsHealth(i)
                             \/ EnsuresDashboard(i) \/ Verifies(i) \/ Saves(i)
      PROVE  FALSE
  <2>1. CASE Prepares(i)
    <3>1. CASE Goes(i, "failed")
      BY <3>1, GoesElsewhere
    <3>2. CASE Proceeds(i, "deploy")
      BY <3>2, FailsElsewhere
    <3> QED
      BY <2>1, <3>1, <3>2 DEF Prepares
  <2>2. CASE Deploys(i)
    <3>1. \/ Fails(i)
          \/ \E token \in {i, host.env[task[i].dir]}, pc \in {"health", "verify"} :
                task' = [task EXCEPT ![i] = [task[i] EXCEPT !.token = token, !.pc = pc]]
      BY <2>2, <1>1 DEF Deploys
    <3>2. ASSUME NEW token, NEW pc \in {"health", "verify"},
                 task' = [task EXCEPT ![i] = [task[i] EXCEPT !.token = token, !.pc = pc]]
          PROVE  FALSE
      <4>1. [task[i] EXCEPT !.token = token, !.pc = pc].pc = pc
        BY <1>1 DEF Task
      <4> QED
        BY <3>2, <4>1, MovesElsewhere
    <3> QED
      BY <3>1, <3>2, FailsElsewhere
  <2>3. CASE AwaitsHealth(i) \/ EnsuresDashboard(i) \/ Verifies(i)
    <3>1. \/ Fails(i)
          \/ \E pc \in {"dash", "verify", "save"} : Proceeds(i, pc)
      BY <2>3 DEF AwaitsHealth, EnsuresDashboard, Verifies
    <3> QED
      BY <3>1, FailsElsewhere
  <2>4. CASE Saves(i)
    <3>1. \/ Fails(i)
          \/ \E n : task' = [task EXCEPT ![i] = [task[i] EXCEPT !.pc = "align", !.seen = n]]
      BY <2>4, <1>1 DEF Saves
    <3>2. ASSUME NEW n, task' = [task EXCEPT ![i] = [task[i] EXCEPT !.pc = "align", !.seen = n]]
          PROVE  FALSE
      <4>1. [task[i] EXCEPT !.pc = "align", !.seen = n].pc = "align"
        BY <1>1 DEF Task
      <4> QED
        BY <3>2, <4>1, MovesElsewhere
    <3> QED
      BY <3>1, <3>2, FailsElsewhere
  <2> QED
    BY <1>3, <2>1, <2>2, <2>3, <2>4
<1>4. ASSUME NEW a \in Activators, Discovers(a) \/ BeginsActivation(a)
      PROVE  FALSE
  <2>1. CASE Discovers(a)
    <3>1. \E t : task' = [task EXCEPT ![a] = t]
      BY <2>1, <1>1 DEF Discovers
    <3> QED
      BY <3>1, MovesElsewhere
  <2>2. CASE BeginsActivation(a)
    BY <2>2, GoesElsewhere DEF BeginsActivation
  <2> QED
    BY <1>4, <2>1, <2>2
<1>5. ASSUME NEW x \in Jobs \union Activators, Aligns(x) \/ Restores(x)
      PROVE  FALSE
  <2>1. CASE Restores(x)
    BY <2>1, GoesElsewhere DEF Restores
  <2>2. CASE Aligns(x)
    <3>1. \/ Fails(x) \/ Proceeds(x, "persist") \/ Goes(x, "failed")
          \/ \E pc \in {"persist", "restore"} :
                task' = [task EXCEPT ![x] = [task[x] EXCEPT !.pc = pc,
                                                            !.before = host.cwd[host.box.dir]]]
      BY <2>2, <1>1 DEF Aligns
    <3>2. ASSUME NEW pc \in {"persist", "restore"},
                 task' = [task EXCEPT ![x] = [task[x] EXCEPT !.pc = pc,
                                                             !.before = host.cwd[host.box.dir]]]
          PROVE  FALSE
      <4>1. [task[x] EXCEPT !.pc = pc, !.before = host.cwd[host.box.dir]].pc = pc
        BY <1>1 DEF Task
      <4> QED
        BY <3>2, <4>1, MovesElsewhere
    <3> QED
      BY <3>1, <3>2, FailsElsewhere, GoesElsewhere
  <2> QED
    BY <1>5, <2>1, <2>2
<1>6. ASSUME NEW a \in Activators, Persists(a)
      PROVE  FALSE
  BY <1>6, FailsElsewhere, GoesElsewhere DEF Persists
<1>7. ASSUME NEW i \in Jobs, Persists(i), i # j
      PROVE  FALSE
  BY <1>7, FailsElsewhere, GoesElsewhere DEF Persists, Undoes
<1>8. ASSUME NEW u \in Updaters, BeginsUpdate(u) \/ RunsManager(u)
      PROVE  FALSE
  <2>1. \E pc : Goes(u, pc)
    BY <1>8 DEF BeginsUpdate, RunsManager
  <2> QED
    BY <2>1, GoesElsewhere
<1>9. CASE Crash
  <2>1. task' = [y \in Tasks |-> IF task[y].pc \in {"idle", "chosen"} \union Ended THEN task[y]
                                 ELSE [task[y] EXCEPT !.pc = "lost"]]
    BY <1>9 DEF Crash
  <2>2. task'[j] = task[j] \/ task'[j] = [task[j] EXCEPT !.pc = "lost"]
    BY <2>1
  <2>3. [task[j] EXCEPT !.pc = "lost"].pc = "lost"
    BY <1>1 DEF Task
  <2> QED
    BY <2>2, <2>3 DEF Now
<1>10. CASE RejectsInvalid \/ Stops \/ Advances \/ UNCHANGED vars
  BY <1>10 DEF RejectsInvalid, Stops, Advances, vars, Now
<1> QED
  BY <1>2, <1>3, <1>4, <1>5, <1>6, <1>7, <1>8, <1>9, <1>10 DEF Next

\* For any number of requests, a job is reported as succeeded only on a machine where
\* what it asked for is there: the container in its directory with the token of the
\* row, and terminal.cwd in the workspace that the row calls ready.
THEOREM SuccessIsConnected == Spec => SucceededIsConnected
<1>1. Init => ProvisioningIInv
  BY InitHolds
<1>2. ProvisioningIInv /\ [Next]_vars => ProvisioningIInv'
  BY NextKeeps
<1>3. ProvisioningIInv /\ [Next]_vars =>
          [\A j \in Jobs : ~Now(j, "succeeded") /\ task'[j].pc = "succeeded" =>
              /\ host.manager = [mode |-> "docker", dir |-> task[j].dir]
              /\ host.box.is = "owned" /\ host.box.dir = task[j].dir
              /\ host.box.token = config'.token /\ config'.token = task[j].token
              /\ config'.ready /\ config'.dir = task[j].dir
              /\ host.cwd[task[j].dir] = MainPath]_vars
  BY OnlyPersists, JobIsConnected
<1> QED
  BY <1>1, <1>2, <1>3, PTL DEF Spec, SucceededIsConnected
=============================================================================
