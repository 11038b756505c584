----------------------------- MODULE MCSshTransport -----------------------------
(***************************************************************************)
(* The transport of a Console, whose accounts are by key (SshTunnel) or by *)
(* password (PasswordTunnel): one kind of channel is in use in a           *)
(* behaviour.                                                              *)
(***************************************************************************)
EXTENDS SshTunnel, PasswordTunnel, TLC

CONSTANTS u1, u2, p1, h1, h2, e1, e2

MCCallers   == {u1, u2}
MCProbes    == {p1}
MCTargets   == {h1, h2}
MCEndpoints == {e1, e2}

ByKey ==
    /\ conns = <<>> /\ ~left
    /\ Next /\ UNCHANGED passwordVars

ByPassword ==
    /\ calls = 0 /\ saves = 0 /\ ssh.chans = <<>>
    /\ PasswordNext /\ UNCHANGED vars

\* The accounts and the endpoints are alike: the row begins with one of them.
TransportInit ==
    /\ Init /\ PasswordInit
    /\ row = [target |-> h1, endpoint |-> e1]

TransportNext == ByKey \/ ByPassword

TransportSpec ==
    /\ TransportInit /\ [][TransportNext]_<<vars, passwordVars>>
    /\ Fairness /\ PasswordFairness

Probing == \E p \in Probes : ~At(p, "idle")

\* Bounds: an operation with its own channel is on the account and the endpoint of the
\* row, beside one call; a third call comes when the row does not change.
Situations ==
    /\ Probing => /\ saves = 0 /\ calls <= 1
                  /\ \A k \in DOMAIN ssh.opens :
                         /\ ssh.opens[k].endpoint = row.endpoint
                         /\ ssh.chans[ssh.opens[k].chan].target = row.target
    /\ calls = 3 => saves = 0 /\ ~Probing

\* Whoever asks for a tunnel or for a command is answered, by a URL, a code or an
\* error, whatever becomes of `ssh` and of the connection.
EveryCallEnds == CallsAreAnswered /\ CallsEnd
=============================================================================
