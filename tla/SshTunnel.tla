------------------------------- MODULE SshTunnel -------------------------------
(***************************************************************************)
(* The tunnel to a runtime that is reached over SSH, with the system's     *)
(* `ssh` (ssh/index.ts, ssh/system-ssh.ts).  The callers that need the     *)
(* runtime read its row, share one channel per target and ask that channel *)
(* for a local URL; a probe, a verification or a migration has a channel   *)
(* of its own, closed when it ends.                                        *)
(*                                                                         *)
(* A channel is a row of promises and flags in the server's memory; what   *)
(* it opens lives in other processes: the `ssh` it starts, which detaches  *)
(* and listens on a local port, and the `ssh -O exit` that every close     *)
(* starts and does not wait for.  A run of openForward and the port it     *)
(* reserves are one record of `opens`.                                     *)
(***************************************************************************)
EXTENDS Integers, Sequences, FiniteSets

CONSTANTS
    Callers,   \* requests, runs and screens that call resolveHermesRuntimeConfig
    Probes,    \* users of withEphemeralSshChannel
    Targets,   \* user, host, port and secret of an SSH account
    Endpoints, \* host and port of Hermes as seen from there
    NoRow,     \* no configuration, or one that is not over SSH
    MaxCalls, MaxSaves, MaxFaults   \* bounds

\* An operation with a channel of its own never asks for the shared one.
ASSUME TransportAssumption == Callers \intersect Probes = {}

VARIABLES
    row,      \* the target and the endpoint of the row of runtime_config
    deleting, \* the row is deleted, closeChannel not yet called
    ssh,      \* active: the shared channel, or 0; the channels ever created; the runs
              \* of openForward; the exits on their way
    call,     \* what each caller or probe is at
    calls, saves, faults

vars == <<row, deleting, ssh, call, calls, saves, faults>>

Users == Callers \union Probes

NewChannel(target) == [target |-> target, forwarded |-> 0, forwarding |-> 0, child |-> 0]

Idle == [pc |-> "idle", target |-> NoRow, endpoint |-> NoRow, chan |-> 0, tunnel |-> 0]

Init ==
    /\ row \in [target : Targets, endpoint : Endpoints]
    /\ deleting = FALSE
    /\ ssh = [active |-> 0, chans |-> <<>>, opens |-> <<>>, exits |-> {}]
    /\ call = [u \in Users |-> Idle]
    /\ calls = 0 /\ saves = 0 /\ faults = 0

-----------------------------------------------------------------------------
(* The channels: each operator takes the transport t and returns the next one *)

\* Mutant: one socket per target, whoever opened it.
ControlPathOfTarget(t, c) == <<"target", t.chans[c].target>>

\* controlId: the socket of a master belongs to one channel.
ControlPath(t, c) == <<"channel", c>>

\* close(): a child that has not detached dies, a master hears of it later.
Close(t, c, why, of) ==
    [t EXCEPT !.chans[c].forwarded = 0,
              !.chans[c].child = 0,
              !.opens = [k \in DOMAIN @ |->
                            IF k = t.chans[c].child /\ @[k].port = "starting"
                            THEN [@[k] EXCEPT !.port = "down"] ELSE @[k]],
              !.exits = @ \union {[chan |-> c, why |-> why, of |-> of]}]

CloseChannel(t) ==
    IF t.active = 0 THEN t ELSE [Close(t, t.active, "left", 0) EXCEPT !.active = 0]

\* Mutant: a change of account keeps the channel of the former one.
GetAnyChannel(t, target) ==
    IF t.active # 0 THEN t
    ELSE [t EXCEPT !.chans = Append(@, NewChannel(target)), !.active = Len(t.chans) + 1]

GetChannel(t, target) ==
    IF t.active # 0 /\ t.chans[t.active].target = target THEN t
    ELSE [CloseChannel(t) EXCEPT !.chans = Append(@, NewChannel(target)),
                                 !.active = Len(t.chans) + 1]

\* openForward, until its first await.
OpenForward(t, c, endpoint) ==
    LET k == Len(t.opens) + 1
    IN  [Close(t, c, "start", k) EXCEPT
            !.chans[c].forwarding = k,
            !.opens = Append(@, [chan |-> c, endpoint |-> endpoint,
                                 stage |-> "reserve", port |-> "none"])]

Settled(t, k, stage) ==
    [t EXCEPT !.opens[k].stage = stage, !.chans[t.opens[k].chan].forwarding = 0]

Fails(t, k) == Settled(Close(t, t.opens[k].chan, "failed", k), k, "failed")

-----------------------------------------------------------------------------
(* A call: the row, the channel, then forward() *)

At(u, pc) == call[u].pc = pc

Waits(u, c, k) == call' = [call EXCEPT ![u].pc = "waiting", ![u].chan = c, ![u].tunnel = k]

Opens(u, t, c) ==
    /\ ssh' = OpenForward(t, c, call[u].endpoint)
    /\ call' = [call EXCEPT ![u].pc = "waiting", ![u].chan = c, ![u].tunnel = Len(ssh'.opens)]

Reads(u) ==
    /\ At(u, "idle") /\ row # NoRow /\ calls < MaxCalls
    /\ call' = [call EXCEPT ![u] = [@ EXCEPT !.pc = "read", !.target = row.target,
                                             !.endpoint = row.endpoint]]
    /\ calls' = calls + 1
    /\ UNCHANGED <<row, deleting, ssh, saves, faults>>

\* A call joins the opening under way whatever that opens.
Asks(u) ==
    /\ At(u, "read")
    /\ LET t    == GetChannel(ssh, call[u].target)
           chan == t.chans[t.active]
           mine == chan.forwarded # 0 /\ t.opens[chan.forwarded].endpoint = call[u].endpoint
       IN  \/ /\ chan.forwarding # 0
              /\ ssh' = t /\ Waits(u, t.active, chan.forwarding)
           \/ /\ chan.forwarding = 0 /\ mine
              /\ ssh' = t
              /\ call' = [call EXCEPT ![u].pc = "checking", ![u].chan = t.active,
                                      ![u].tunnel = chan.forwarded]
           \/ chan.forwarding = 0 /\ ~mine /\ Opens(u, t, t.active)
    /\ UNCHANGED <<row, deleting, calls, saves, faults>>

\* Mutant: the second look at `forwarding` is left out.
JoinsNever(c) == FALSE

\* "Une autre requete a pu demarrer l'ouverture pendant le `await` ci-dessus."
Joins(c) == ssh.chans[c].forwarding # 0

\* isListening has answered.  `forwarded` is read again, when a close may have reset it.
Checked(u) ==
    /\ At(u, "checking")
    /\ LET c    == call[u].chan
           chan == ssh.chans[c]
       IN  \/ /\ ssh.opens[call[u].tunnel].port = "up"
              /\ call' = [call EXCEPT ![u].pc = IF chan.forwarded = 0 THEN "crashed" ELSE "got",
                                      ![u].tunnel = chan.forwarded]
              /\ UNCHANGED ssh
           \/ /\ ssh.opens[call[u].tunnel].port # "up" /\ Joins(c)
              /\ Waits(u, c, chan.forwarding) /\ UNCHANGED ssh
           \/ ssh.opens[call[u].tunnel].port # "up" /\ ~Joins(c) /\ Opens(u, ssh, c)
    /\ UNCHANGED <<row, deleting, calls, saves, faults>>

Resumes(u) ==
    /\ At(u, "waiting")
    /\ LET stage == ssh.opens[call[u].tunnel].stage
       IN  /\ stage \in {"done", "failed"}
           /\ call' = [call EXCEPT ![u].pc = IF stage = "done" THEN "got" ELSE "failed"]
    /\ UNCHANGED <<row, deleting, ssh, calls, saves, faults>>

\* A caller is through with the URL it has, or with the error.
Leaves(u) ==
    /\ u \in Callers /\ call[u].pc \in {"got", "failed", "crashed"}
    /\ call' = [call EXCEPT ![u] = Idle]
    /\ UNCHANGED <<row, deleting, ssh, calls, saves, faults>>

-----------------------------------------------------------------------------
(* withEphemeralSshChannel *)

ProbeBegins(p) ==
    /\ At(p, "idle")
    /\ \E target \in Targets, endpoint \in Endpoints :
           LET c == Len(ssh.chans) + 1
               t == [ssh EXCEPT !.chans = Append(@, NewChannel(target))]
           IN  /\ ssh' = OpenForward(t, c, endpoint)
               /\ call' = [call EXCEPT ![p] = [pc |-> "waiting", target |-> target,
                              endpoint |-> endpoint, chan |-> c, tunnel |-> Len(ssh'.opens)]]
    /\ UNCHANGED <<row, deleting, calls, saves, faults>>

\* Mutant: the channel of an operation that failed is left to itself.
ProbeEndsIfOk(p) ==
    /\ p \in Probes /\ call[p].pc \in {"got", "failed"}
    /\ ssh' = IF At(p, "got") THEN ssh ELSE Close(ssh, call[p].chan, "left", 0)
    /\ call' = [call EXCEPT ![p].pc = "closed"]
    /\ UNCHANGED <<row, deleting, calls, saves, faults>>

\* The `finally`: whatever became of the operation.
ProbeEnds(p) ==
    /\ p \in Probes /\ call[p].pc \in {"got", "failed"}
    /\ ssh' = Close(ssh, call[p].chan, "left", 0)
    /\ call' = [call EXCEPT ![p].pc = "closed"]
    /\ UNCHANGED <<row, deleting, calls, saves, faults>>

-----------------------------------------------------------------------------
(* A run of openForward *)

Fault == faults < MaxFaults /\ faults' = faults + 1

KeepsCalls == UNCHANGED <<row, deleting, call, calls, saves>>

\* reserveLocalPort, then the child; a refusal is outside the `try`.
Reserves(k) ==
    /\ ssh.opens[k].stage = "reserve"
    /\ \/ /\ ssh' = [ssh EXCEPT !.opens[k].stage = "wait", !.opens[k].port = "starting",
                                !.chans[ssh.opens[k].chan].child = k]
          /\ UNCHANGED faults
       \/ Fault /\ ssh' = Settled(ssh, k, "failed")
    /\ KeepsCalls

\* Mutant: READY_TIMEOUT_MS is forgotten.
WaitedForever(k) ==
    /\ ssh.opens[k].stage = "wait" /\ ssh.opens[k].port # "starting"
    /\ ssh' = IF ssh.opens[k].port = "up" THEN [ssh EXCEPT !.opens[k].stage = "probe"]
              ELSE Fails(ssh, k)
    /\ UNCHANGED faults /\ KeepsCalls

\* waitForForward: a connection to the port, or the deadline, or a child that is gone.
Waited(k) ==
    /\ ssh.opens[k].stage = "wait"
    /\ ssh' = IF ssh.opens[k].port = "up" THEN [ssh EXCEPT !.opens[k].stage = "probe"]
              ELSE Fails(ssh, k)
    /\ UNCHANGED faults /\ KeepsCalls

\* The local port answers a connection at once, accepted or refused; waitForForward
\* makes its first one after 200 ms.
ChecksAreShort(c) == \A u \in Users : At(u, "checking") => call[u].chan # c

\* probeForward: only a refusal that `ssh` has written is an error.
Probed(k) ==
    /\ ssh.opens[k].stage = "probe" /\ ChecksAreShort(ssh.opens[k].chan)
    /\ \/ /\ ssh' = [Settled(ssh, k, "done") EXCEPT !.chans[ssh.opens[k].chan].forwarded = k]
          /\ UNCHANGED faults
       \/ Fault /\ ssh' = Fails(ssh, k)
    /\ KeepsCalls

-----------------------------------------------------------------------------
(* The processes of `ssh` *)

\* The child has authenticated and detached, or joined the master of its socket.
Detaches(k) ==
    /\ ssh.opens[k].port = "starting"
    /\ \/ ssh' = [ssh EXCEPT !.opens[k].port = "up"] /\ UNCHANGED faults
       \/ Fault /\ ssh' = [ssh EXCEPT !.opens[k].port = "down"]
    /\ KeepsCalls

\* Every port of the master that listens at the socket of channel c closes with it.
WithoutMaster(c) ==
    [k \in DOMAIN ssh.opens |->
        IF /\ ssh.opens[k].port = "up"
           /\ ControlPath(ssh, ssh.opens[k].chan) = ControlPath(ssh, c)
        THEN [ssh.opens[k] EXCEPT !.port = "down"] ELSE ssh.opens[k]]

\* `ssh -O exit` reaches the master that is there by then, if one is.
ExitLands ==
    /\ \E e \in ssh.exits : ssh' = [ssh EXCEPT !.opens = WithoutMaster(e.chan), !.exits = @ \ {e}]
    /\ UNCHANGED faults /\ KeepsCalls

ConnectionIsLost ==
    /\ Fault
    /\ \E k \in DOMAIN ssh.opens :
           /\ ssh.opens[k].port = "up"
           /\ ssh' = [ssh EXCEPT !.opens = WithoutMaster(ssh.opens[k].chan)]
    /\ KeepsCalls

-----------------------------------------------------------------------------
(* The configuration: another account, another endpoint, or none *)

Save ==
    /\ ~deleting /\ saves < MaxSaves
    /\ row' \in [target : Targets, endpoint : Endpoints] \union {NoRow} /\ row' # row
    /\ saves' = saves + 1
    /\ UNCHANGED <<deleting, ssh, call, calls, faults>>

\* deleteRuntimeConfig: closeChannel after the statement.
Delete ==
    /\ ~deleting /\ row # NoRow /\ saves < MaxSaves
    /\ row' = NoRow /\ deleting' = TRUE /\ saves' = saves + 1
    /\ UNCHANGED <<ssh, call, calls, faults>>

CloseDeleted ==
    /\ deleting
    /\ deleting' = FALSE /\ ssh' = CloseChannel(ssh)
    /\ UNCHANGED <<row, call, calls, saves, faults>>

-----------------------------------------------------------------------------
Next ==
    \/ \E u \in Callers : Reads(u) \/ Asks(u) \/ Leaves(u)
    \/ \E u \in Users : Checked(u) \/ Resumes(u)
    \/ \E p \in Probes : ProbeBegins(p) \/ ProbeEnds(p)
    \/ \E k \in DOMAIN ssh.opens : Reserves(k) \/ Waited(k) \/ Probed(k) \/ Detaches(k)
    \/ ExitLands \/ ConnectionIsLost
    \/ Save \/ Delete \/ CloseDeleted

Spec == Init /\ [][Next]_vars

\* The server's own steps: promises settle, the timers of openForward fire.
Fairness ==
    /\ \A u \in Users : WF_vars(Asks(u)) /\ WF_vars(Checked(u)) /\ WF_vars(Resumes(u))
    /\ \A k \in 1..(MaxCalls + Cardinality(Probes)) :
           WF_vars(k \in DOMAIN ssh.opens /\ (Reserves(k) \/ Waited(k) \/ Probed(k)))

FairSpec == Spec /\ Fairness

-----------------------------------------------------------------------------
(* Properties *)

TypeOK ==
    /\ row \in [target : Targets, endpoint : Endpoints] \union {NoRow}
    /\ ssh.active \in 0..Len(ssh.chans)
    /\ \A c \in DOMAIN ssh.chans :
           LET chan == ssh.chans[c]
           IN  /\ chan.target \in Targets
               /\ {chan.forwarded, chan.forwarding, chan.child} \subseteq 0..Len(ssh.opens)
    /\ \A k \in DOMAIN ssh.opens :
           /\ ssh.opens[k].chan \in DOMAIN ssh.chans /\ ssh.opens[k].endpoint \in Endpoints
           /\ ssh.opens[k].stage \in {"reserve", "wait", "probe", "done", "failed"}
           /\ ssh.opens[k].port \in {"none", "starting", "up", "down"}
    /\ \A u \in Users :
           call[u].pc \in {"idle", "read", "checking", "waiting", "got", "failed", "crashed", "closed"}

UnderWay(k) == ssh.opens[k].stage \in {"reserve", "wait", "probe"}

\* Two openings of one channel would cut each other's tunnel: there is one at a time,
\* and it is the one that later calls join.
OneOpening ==
    \A k \in DOMAIN ssh.opens : UnderWay(k) => ssh.chans[ssh.opens[k].chan].forwarding = k

\* The URL a call is given leads to the account the call has read, whatever the row
\* has become and whoever else has asked for the shared channel.
RightAccount ==
    \A u \in Users : At(u, "got") =>
        ssh.chans[ssh.opens[call[u].tunnel].chan].target = call[u].target

TunnelInvariant == TypeOK /\ OneOpening /\ RightAccount

\* An operation that has a channel of its own leaves no connection behind: what still
\* listens has been told to stop, and nothing is about to listen.
ProbesAreClosed ==
    \A p \in Probes : At(p, "closed") =>
        \A k \in DOMAIN ssh.opens : ssh.opens[k].chan = call[p].chan =>
            /\ ~UnderWay(k) /\ ssh.opens[k].port # "starting"
            /\ ssh.opens[k].port = "up" => \E e \in ssh.exits : e.chan = call[p].chan

\* The tunnel k was refused, or its channel was asked for another endpoint since.
GivenUp(k, upto) ==
    \/ ssh.opens[k].stage = "failed"
    \/ \E j \in (k + 1)..upto : /\ ssh.opens[j].chan = ssh.opens[k].chan
                                /\ ssh.opens[j].endpoint # ssh.opens[k].endpoint

\* system-ssh.ts:123 and :131 : the tunnel of a mission is cut neither by a probe nor by
\* another call for the same endpoint.  A tunnel that listens stops only when the
\* connection is lost, or by an exit of its own channel: because the channel is left, the
\* tunnel given up, or because the exit was started before the tunnel and comes late.
TunnelIsKept ==
    [][\A k \in DOMAIN ssh.opens :
          ssh.opens[k].port = "up" /\ ssh'.opens[k].port # "up" /\ faults' = faults =>
              \E e \in ssh.exits \ ssh'.exits :
                  /\ e.chan = ssh.opens[k].chan
                  /\ e.why = "left" \/ e.of <= k \/ GivenUp(k, e.of)]_vars

\* Every call for a tunnel is answered, by a URL or by an error, whatever `ssh` does.
CallsAreAnswered ==
    \A u \in Users : At(u, "read") ~> call[u].pc \in {"got", "failed", "crashed"}
=============================================================================
