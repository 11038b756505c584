---------------------------- MODULE PasswordTunnel ----------------------------
(***************************************************************************)
(* One SSH channel by password, in the server's own memory (ssh2-          *)
(* password.ts): a connection that is made when somebody needs it, a local *)
(* server that forwards what it accepts through that connection, and the   *)
(* commands that run over it.                                              *)
(*                                                                         *)
(* What the promises do until they wait again is one step with the event   *)
(* that settles them.  The channel is closed once by its owner, when the   *)
(* configuration goes to another account; a user who has kept it may still *)
(* run commands.                                                           *)
(***************************************************************************)
EXTENDS Integers, Sequences, FiniteSets

CONSTANTS
    Askers,    \* each makes one call, for a tunnel or for a command
    Remotes,   \* host and port of Hermes as seen from the SSH account
    Command,   \* what exec is asked for
    MaxLosses  \* bound

VARIABLES
    client, connecting, server, forwarded,   \* the variables of the channel, 0 for null
    conns,     \* the connections made, in order
    servers,   \* the local servers, in order, with their connection and endpoint
    ask,       \* what each user asked for and is at
    left,      \* the owner has closed the channel
    losses

channel == <<client, connecting, server, forwarded>>
passwordVars == <<channel, conns, servers, ask, left, losses>>

PasswordInit ==
    /\ client = 0 /\ connecting = 0 /\ server = 0 /\ forwarded = 0
    /\ conns = <<>> /\ servers = <<>>
    /\ ask = [u \in Askers |-> [pc |-> "idle", asks |-> Command, on |-> 0]]
    /\ left = FALSE /\ losses = 0

Loss == losses < MaxLosses /\ losses' = losses + 1

\* What a user does with the connection that connect() gives: the test of forwardOut,
\* or the command.
Using(asks) == IF asks = Command THEN "running" ELSE "testing"

\* The users at one of the pcs on the object n (connection or server) go to another:
\* those who run a command to the first, those who want a tunnel to the second.
Moved(from, n, running, testing) ==
    [u \in Askers |->
        IF ask[u].pc \in from /\ ask[u].on = n
        THEN [ask[u] EXCEPT !.pc = IF ask[u].asks = Command THEN running ELSE testing]
        ELSE ask[u]]

Now(u, pc) == ask[u].pc = pc

-----------------------------------------------------------------------------
(* close(), and the connections *)

Shut(n) == [servers EXCEPT ![n].up = FALSE]

CloseAll ==
    /\ forwarded' = 0 /\ server' = 0 /\ client' = 0
    /\ servers' = IF server = 0 THEN servers ELSE Shut(server)
    /\ conns' = IF client # 0 /\ conns[client] = "ready" THEN [conns EXCEPT ![client] = "ended"]
                ELSE conns

OwnerCloses ==
    /\ ~left /\ left' = TRUE
    /\ CloseAll
    /\ UNCHANGED <<connecting, ask, losses>>

Attempt(u, asks) ==
    /\ conns' = Append(conns, "connecting") /\ connecting' = Len(conns')
    /\ ask' = [ask EXCEPT ![u] = [pc |-> "connecting", asks |-> asks, on |-> Len(conns')]]

\* Mutant: a call does not wait for the attempt under way.
ConnectAlone(u, asks) ==
    \/ /\ client # 0
       /\ ask' = [ask EXCEPT ![u] = [pc |-> Using(asks), asks |-> asks, on |-> client]]
       /\ UNCHANGED <<connecting, conns>>
    \/ client = 0 /\ Attempt(u, asks)

Connect(u, asks) ==
    \/ /\ client # 0
       /\ ask' = [ask EXCEPT ![u] = [pc |-> Using(asks), asks |-> asks, on |-> client]]
       /\ UNCHANGED <<connecting, conns>>
    \/ /\ client = 0 /\ connecting # 0
       /\ ask' = [ask EXCEPT ![u] = [pc |-> "connecting", asks |-> asks, on |-> connecting]]
       /\ UNCHANGED <<connecting, conns>>
    \/ client = 0 /\ connecting = 0 /\ Attempt(u, asks)

\* "ready": a channel closed meanwhile is given the connection all the same.
Ready(n) ==
    /\ conns[n] = "connecting"
    /\ conns' = [conns EXCEPT ![n] = "ready"]
    /\ client' = n /\ connecting' = 0
    /\ ask' = Moved({"connecting"}, n, "running", "testing")
    /\ UNCHANGED <<server, forwarded, servers, left, losses>>

\* Mutant: a connection closed before it was ready settles nothing.
RejectedInSilence(n) ==
    /\ conns[n] = "connecting" /\ Loss
    /\ conns' = [conns EXCEPT ![n] = "closed"] /\ connecting' = 0
    /\ UNCHANGED <<ask, client, server, forwarded, servers, left>>

\* "error", or "close" before "ready", which a refused host key causes.
Rejected(n) ==
    /\ conns[n] = "connecting" /\ Loss
    /\ conns' = [conns EXCEPT ![n] = "closed"] /\ connecting' = 0
    /\ ask' = Moved({"connecting"}, n, "failed", "failed")
    /\ UNCHANGED <<client, server, forwarded, servers, left>>

IsLost(n) ==
    /\ conns[n] = "ready" /\ Loss
    /\ conns' = [conns EXCEPT ![n] = "lost"]
    /\ UNCHANGED <<channel, servers, ask, left>>

\* Mutant: a late "close" closes whatever connection the channel has.
ClosedBlindly(n) ==
    /\ conns[n] \in {"ended", "lost"}
    /\ forwarded' = 0 /\ server' = 0 /\ client' = 0
    /\ servers' = IF server = 0 THEN servers ELSE Shut(server)
    /\ conns' = [m \in DOMAIN conns |-> CASE m = n -> "closed"
                                         [] m = client /\ conns[m] = "ready" -> "ended"
                                         [] OTHER -> conns[m]]
    /\ ask' = Moved({"testing", "running"}, n, "zero", "failed")
    /\ UNCHANGED <<connecting, left, losses>>

\* "close": only that of the connection in use closes the channel. The tests in flight
\* fail; a command gets the code it has not been told, `?? 0`.
Closed(n) ==
    /\ conns[n] \in {"ended", "lost"}
    /\ IF client = n
       THEN /\ forwarded' = 0 /\ server' = 0 /\ client' = 0
            /\ servers' = IF server = 0 THEN servers ELSE Shut(server)
       ELSE UNCHANGED <<forwarded, server, client, servers>>
    /\ conns' = [conns EXCEPT ![n] = "closed"]
    /\ ask' = Moved({"testing", "running"}, n, "zero", "failed")
    /\ UNCHANGED <<connecting, left, losses>>

-----------------------------------------------------------------------------
(* forward() and exec() *)

\* forward() is called at once on the channel that getChannel has given.
Forward(u) ==
    /\ Now(u, "idle") /\ ~left
    /\ \E endpoint \in Remotes :
           \/ /\ forwarded # 0 /\ servers[forwarded].endpoint = endpoint /\ client # 0
              /\ ask' = [ask EXCEPT ![u] = [pc |-> "got", asks |-> endpoint, on |-> forwarded]]
              /\ UNCHANGED <<connecting, conns>>
           \/ /\ ~(forwarded # 0 /\ servers[forwarded].endpoint = endpoint /\ client # 0)
              /\ Connect(u, endpoint)
    /\ UNCHANGED <<client, server, forwarded, servers, left, losses>>

Exec(u) ==
    /\ Now(u, "idle") /\ Connect(u, Command)
    /\ UNCHANGED <<client, server, forwarded, servers, left, losses>>

\* The remote side accepts the forward, then listen() asks for a port.
Tested(u) ==
    /\ Now(u, "testing") /\ conns[ask[u].on] = "ready"
    /\ \/ /\ servers' = Append(servers, [conn |-> ask[u].on, endpoint |-> ask[u].asks, up |-> FALSE])
          /\ ask' = [ask EXCEPT ![u].pc = "listening", ![u].on = Len(servers')]
          /\ UNCHANGED losses
       \/ Loss /\ ask' = [ask EXCEPT ![u].pc = "failed"] /\ UNCHANGED servers
    /\ UNCHANGED <<channel, conns, left>>

\* The new server takes the place of the one there is, whoever was given its URL.
Listens(u) ==
    /\ Now(u, "listening")
    /\ \/ /\ servers' = [s \in DOMAIN servers |->
                            IF s = ask[u].on THEN [servers[s] EXCEPT !.up = TRUE]
                            ELSE IF s = server THEN [servers[s] EXCEPT !.up = FALSE] ELSE servers[s]]
          /\ server' = ask[u].on /\ forwarded' = ask[u].on
          /\ ask' = [ask EXCEPT ![u].pc = "got"]
          /\ UNCHANGED losses
       \/ Loss /\ ask' = [ask EXCEPT ![u].pc = "failed"] /\ UNCHANGED <<server, forwarded, servers>>
    /\ UNCHANGED <<client, connecting, conns, left>>

\* The command ends; killed by a signal, it ends without a code.
Ends(u) ==
    /\ Now(u, "running") /\ conns[ask[u].on] = "ready"
    /\ \E pc \in {"zero", "nonzero"} : ask' = [ask EXCEPT ![u].pc = pc]
    /\ UNCHANGED <<channel, conns, servers, left, losses>>

-----------------------------------------------------------------------------
PasswordNext ==
    \/ \E u \in Askers : Forward(u) \/ Exec(u) \/ Tested(u) \/ Listens(u) \/ Ends(u)
    \/ \E n \in DOMAIN conns : Ready(n) \/ Rejected(n) \/ IsLost(n) \/ Closed(n)
    \/ OwnerCloses

PasswordSpec == PasswordInit /\ [][PasswordNext]_passwordVars

\* ssh2 gives up after readyTimeout, asks for a sign of life every 15 s, and calls back.
PasswordFairness ==
    /\ \A u \in Askers : WF_passwordVars(Tested(u)) /\ WF_passwordVars(Listens(u)) /\ WF_passwordVars(Ends(u))
    /\ \A n \in 1..Cardinality(Askers) :
           WF_passwordVars(n \in DOMAIN conns /\ (Ready(n) \/ Rejected(n) \/ Closed(n)))

FairPasswordSpec == PasswordSpec /\ PasswordFairness

-----------------------------------------------------------------------------
(* Properties *)

PasswordTypeOK ==
    /\ conns \in Seq({"connecting", "ready", "ended", "lost", "closed"})
    /\ servers \in Seq([conn : Nat, endpoint : Remotes, up : BOOLEAN])
    /\ client \in 0..Len(conns) /\ connecting \in 0..Len(conns)
    /\ server \in 0..Len(servers) /\ forwarded \in 0..Len(servers)
    /\ ask \in [Askers -> [pc : {"idle", "connecting", "testing", "listening", "running",
                                 "got", "failed", "zero", "nonzero"},
                           asks : Remotes \union {Command}, on : Nat]]
    /\ left \in BOOLEAN /\ losses \in Nat

\* The keepalive holds a connection that nobody closes open for ever: each one that is
\* open, or about to be, is the one the channel knows.
ConnectionsAreOwned ==
    \A n \in DOMAIN conns : /\ conns[n] = "ready" => client = n
                            /\ conns[n] = "connecting" => connecting = n

PasswordInvariant == PasswordTypeOK /\ ConnectionsAreOwned

\* ssh2-password.ts:48 : only the owner of a channel ends a connection that works; the
\* late "close" of a former one does not.
OnlyTheOwnerEnds ==
    [][\A n \in DOMAIN conns : conns[n] = "ready" /\ conns'[n] = "ended" => left' # left]_passwordVars

\* Whatever becomes of the connection, a call for a tunnel or for a command ends.
CallsEnd ==
    \A u \in Askers : ask[u].pc \in {"connecting", "testing", "listening", "running"}
                         ~> ask[u].pc \in {"got", "failed", "zero", "nonzero"}
=============================================================================
